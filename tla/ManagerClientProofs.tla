------------------------- MODULE ManagerClientProofs -------------------------
(***************************************************************************)
(* ManagerClient for any number of calls, any options and any bounds of    *)
(* the clock: calls are served in order (ServedInOrder), given up late     *)
(* (GivenUpLate), stopped by aborts (AbortStops), and every step is one    *)
(* that SigningPromise allows.                                             *)
(*                                                                         *)
(* Order needs what the chain of promises means.  A call hears only of the *)
(* call it is chained on; that all earlier ones are settled as well holds  *)
(* because calls that joined the chain before it end after their own       *)
(* predecessors, and calls that never joined it were settled at once.      *)
(***************************************************************************)
EXTENDS ManagerClient, TLAPS

\* Every call made before c is settled.
PriorEnded(c) ==
    \A i, j \in DOMAIN issued : i < j /\ issued[j] = c => Ended(issued[i])

\* A call is made once, and then has left its first stage.
Calling ==
    /\ \A c \in Calls : stage[c] # "idle" => \E i \in DOMAIN issued : issued[i] = c
    /\ \A i \in DOMAIN issued : stage[issued[i]] # "idle"
    /\ \A i, j \in DOMAIN issued : issued[i] = issued[j] => i = j

\* Where a call is, and what it holds and has.
Stages ==
    \A c \in Calls :
        /\ socket[c] => stage[c] \in {"connecting", "reading"}
        /\ Ended(c) <=> outcome[c] # "none"
        /\ ~Ended(c) => failures[c] < MaxAttempts
        /\ stage[c] \in {"idle", "queued"} => attempts[c] = 0
        /\ Aborted(c) => ~Running(c)

\* All calls made before position j are settled, or are not after d.
Follows(j, d) ==
    \A i \in DOMAIN issued : i < j =>
        \/ Ended(issued[i])
        \/ \E k \in DOMAIN issued : k < j /\ issued[k] = d /\ i <= k

\* What a call in the queue, and the next call, wait for.
Chain ==
    /\ \A j \in DOMAIN issued :
          stage[issued[j]] = "queued" =>
              /\ chained[issued[j]] # Rejected
              /\ chained[issued[j]] \in Calls =>
                    \E k \in DOMAIN issued : k < j /\ issued[k] = chained[issued[j]]
              /\ Follows(j, chained[issued[j]])
    /\ ~wired => signQueue # Rejected /\ Follows(Len(issued) + 1, signQueue)
    /\ signQueue \in Calls => \E k \in DOMAIN issued : issued[k] = signQueue

\* Calls that others wait for, and calls with a socket, come after settled ones.
Order ==
    \A c \in Calls :
        /\ attempts[c] > 0 \/ Running(c) => PriorEnded(c)
        /\ Ended(c) /\ (signQueue = c \/ \E d \in Calls : stage[d] = "queued" /\ chained[d] = c)
              => PriorEnded(c)

\* An abort has a cause.
Causes == \A c \in Calls : outcome[c] = "aborted" => Promise!HasCause(c)

IInv == TypeOK /\ Calling /\ Stages /\ Chain /\ Order /\ Causes

-----------------------------------------------------------------------------
(* What a callback of call c does, whatever the callback. *)

\* Nothing happens to the other calls, nor to the queue and the signals.
OthersStay(c) ==
    /\ UNCHANGED <<wired, cancelled, queueVars>>
    /\ \A d \in Calls \ {c} :
          /\ stage'[d] = stage[d] /\ socket'[d] = socket[d] /\ outcome'[d] = outcome[d]
          /\ attempts'[d] = attempts[d] /\ failures'[d] = failures[d]

\* The call runs, or has ended with an outcome.
Settles(c) ==
    /\ stage'[c] \in {"connecting", "reading", "sleeping", "ended"}
    /\ socket'[c] => stage'[c] \in {"connecting", "reading"}
    /\ Ended(c)' <=> outcome'[c] # "none"
    /\ ~Ended(c)' => failures'[c] < MaxAttempts
    /\ outcome'[c] # "aborted"

\* A call that was not aborted, and whose turn it is.
Alive(c) ==
    /\ c \in Calls /\ stage[c] \notin {"idle", "ended"} /\ ~Aborted(c)
    /\ outcome[c] = "none" /\ failures[c] < MaxAttempts

LEMMA RunningIsAlive ==
    ASSUME IInv, NEW c \in Calls, Running(c)
    PROVE  Alive(c)
BY DEF IInv, Stages, Running, Alive, Ended

LEMMA AtIsInTime ==
    ASSUME NEW t \in Nat PROVE At(t) \in 0..Horizon
BY OptionsAssumption DEF At

\* The clock a step leaves as it is, or moves by one, stays within the horizon.
LEMMA NextClockIsInTime ==
    ASSUME TypeOK, now' \in {now, At(now + 1)} PROVE now' \in 0..Horizon
<1>1. now \in 0..Horizon
    BY DEF TypeOK
<1>2. now + 1 \in Nat
    BY <1>1, OptionsAssumption
<1>3. At(now + 1) \in 0..Horizon
    BY <1>2, AtIsInTime
<1> QED BY <1>1, <1>3

LEMMA AttemptSettles ==
    ASSUME TypeOK, NEW c \in Calls, Alive(c), Attempt(c),
           UNCHANGED <<now, wired, cancelled, queueVars>>
    PROVE  TypeOK' /\ OthersStay(c) /\ Settles(c)
<1>1. At(now + ConnectTime) \in 0..Horizon
    BY OptionsAssumption DEF TypeOK, At
<1>2. CASE /\ End(c, "refused")
           /\ UNCHANGED <<validTill, failures, attempts, timer, events>>
    <2>1. TypeOK'
        BY <1>2 DEF TypeOK, End, Outcomes, queueVars
    <2>2. OthersStay(c) /\ Settles(c)
        BY <1>2 DEF TypeOK, End, OthersStay, Settles, Ended
    <2> QED BY <2>1, <2>2
<1>3. CASE /\ stage' = [stage EXCEPT ![c] = "connecting"]
           /\ socket' = [socket EXCEPT ![c] = TRUE]
           /\ attempts' = [attempts EXCEPT ![c] = @ + 1]
           /\ timer' = [timer EXCEPT ![c] = At(now + ConnectTime)]
           /\ UNCHANGED <<validTill, failures, events, outcome>>
    <2>1. TypeOK'
        BY <1>1, <1>3, SMTT(30) DEF TypeOK, queueVars
    <2>2. OthersStay(c) /\ Settles(c)
        BY <1>3 DEF TypeOK, OthersStay, Settles, Ended, Alive
    <2> QED BY <2>1, <2>2
<1> QED BY <1>2, <1>3 DEF Attempt

LEMMA PauseSettles ==
    ASSUME TypeOK, NEW c \in Calls, Alive(c), NEW f \in 0..(MaxAttempts - 1),
           now' \in 0..Horizon, Pause(c, now', f),
           failures' = [failures EXCEPT ![c] = f],
           UNCHANGED <<wired, cancelled, queueVars, validTill, attempts, events>>
    PROVE  TypeOK' /\ OthersStay(c) /\ Settles(c)
<1>1. CASE /\ Waiting(c, now') \/ f > 0
           /\ stage'  = [stage EXCEPT ![c] = "sleeping"]
           /\ socket' = [socket EXCEPT ![c] = FALSE]
           /\ timer'  = [timer EXCEPT ![c] =
                        LET poll == At(now' + PollDelay)
                        IN  IF ~Waiting(c, now') THEN At(now' + RetryDelay)
                            ELSE IF poll < validTill[c] THEN poll ELSE validTill[c]]
           /\ UNCHANGED outcome
    <2>1. /\ At(now' + PollDelay) \in 0..Horizon /\ At(now' + RetryDelay) \in 0..Horizon
          /\ Waiting(c, now') => validTill[c] \in 0..Horizon
        <3>1. now' \in Nat /\ Horizon \in Nat /\ PollDelay \in Nat /\ RetryDelay \in Nat
            BY OptionsAssumption
        <3>2. At(now' + PollDelay) \in 0..Horizon /\ At(now' + RetryDelay) \in 0..Horizon
            BY <3>1, AtIsInTime
        <3>3. Waiting(c, now') => validTill[c] \in 0..Horizon
            BY DEF TypeOK, Waiting
        <3> QED BY <3>2, <3>3
    <2>2. timer' \in [Calls -> 0..Horizon]
        BY <1>1, <2>1 DEF TypeOK
    <2>3. failures' \in [Calls -> 0..MaxAttempts]
        BY OptionsAssumption DEF TypeOK
    <2>4. TypeOK'
        BY <1>1, <2>2, <2>3 DEF TypeOK, queueVars
    <2>5. OthersStay(c) /\ Settles(c)
        BY <1>1, OptionsAssumption DEF TypeOK, OthersStay, Settles, Ended, Alive
    <2> QED BY <2>4, <2>5
<1>2. CASE /\ ~Waiting(c, now') /\ f = 0
           /\ End(c, "failed")
           /\ UNCHANGED timer
    <2>1. failures' \in [Calls -> 0..MaxAttempts]
        BY OptionsAssumption DEF TypeOK
    <2>2. TypeOK'
        BY <1>2, <2>1 DEF TypeOK, End, Outcomes, queueVars
    <2>3. OthersStay(c) /\ Settles(c)
        BY <1>2 DEF TypeOK, End, OthersStay, Settles, Ended
    <2> QED BY <2>2, <2>3
<1> QED BY <1>1, <1>2 DEF Pause

LEMMA FailureSettles ==
    ASSUME TypeOK, NEW c \in Calls, Alive(c), Failure(c),
           UNCHANGED <<wired, cancelled, queueVars>>
    PROVE  TypeOK' /\ OthersStay(c) /\ Settles(c)
<1> DEFINE f == IF Waiting(c, now) THEN failures[c] ELSE failures[c] + 1
<1>0. f \in 0..MaxAttempts /\ failures' = [failures EXCEPT ![c] = f]
      /\ UNCHANGED <<validTill, attempts, events>>
    BY OptionsAssumption DEF Failure, Alive, TypeOK
<1>1. CASE /\ ~Waiting(c, now) /\ f >= MaxAttempts
           /\ End(c, "failed")
           /\ UNCHANGED <<now, timer>>
    <2>1. TypeOK'
        BY <1>0, <1>1 DEF TypeOK, End, Outcomes, queueVars
    <2>2. OthersStay(c) /\ Settles(c)
        BY <1>0, <1>1 DEF TypeOK, End, OthersStay, Settles, Ended
    <2> QED BY <2>1, <2>2
<1>2. CASE /\ Waiting(c, now) \/ f < MaxAttempts
           /\ now' \in {now, At(now + 1)}
           /\ Pause(c, now', f)
    <2>1. f \in 0..(MaxAttempts - 1)
        <3>1. failures[c] \in 0..(MaxAttempts - 1) /\ f \in {failures[c], failures[c] + 1}
            BY <1>0, OptionsAssumption DEF Alive, TypeOK
        <3>2. Waiting(c, now) => f = failures[c]
            OBVIOUS
        <3> HIDE DEF f
        <3> QED BY ONLY <3>1, <3>2, <1>2, OptionsAssumption
    <2>2. now' \in 0..Horizon
        BY <1>2, NextClockIsInTime
    <2> HIDE DEF f
    <2> QED BY <1>0, <1>2, <2>1, <2>2, PauseSettles
<1> QED BY <1>1, <1>2 DEF Failure

LEMMA ConnectedSettles ==
    ASSUME IInv, NEW c \in Calls, Connected(c)
    PROVE  TypeOK' /\ OthersStay(c) /\ Settles(c)
<1>1. TypeOK'
    BY DEF IInv, TypeOK, Connected, queueVars
<1>2. OthersStay(c) /\ Settles(c)
    BY DEF IInv, TypeOK, Connected, Stages, OthersStay, Settles, Ended, queueVars
<1> QED BY <1>1, <1>2

LEMMA FailsSettles ==
    ASSUME IInv, NEW c \in Calls,
           ConnectFails(c) \/ ConnectTimesOut(c) \/ SocketFails(c)
    PROVE  TypeOK' /\ OthersStay(c) /\ Settles(c)
<1>1. Running(c) /\ Failure(c) /\ UNCHANGED <<wired, cancelled, queueVars>>
    BY DEF ConnectFails, ConnectTimesOut, SocketFails, Running
<1> QED BY <1>1, RunningIsAlive, FailureSettles DEF IInv

LEMMA ClosesSettles ==
    ASSUME IInv, NEW c \in Calls, SocketCloses(c)
    PROVE  TypeOK' /\ OthersStay(c) /\ Settles(c)
<1>1. Alive(c)
    BY RunningIsAlive DEF SocketCloses, Running
<1>2. CASE ~Waiting(c, now) /\ Failure(c)
    BY <1>1, <1>2, FailureSettles DEF IInv, SocketCloses
<1>3. CASE /\ Waiting(c, now)
           /\ now' \in {now, At(now + 1)}
           /\ Pause(c, now', failures[c])
           /\ UNCHANGED <<validTill, failures, attempts, events>>
    <2>1. now' \in 0..Horizon
        BY <1>3, NextClockIsInTime DEF IInv
    <2>2. failures[c] \in 0..(MaxAttempts - 1)
        BY <1>1, OptionsAssumption DEF IInv, TypeOK, Alive
    <2>3. failures' = [failures EXCEPT ![c] = failures[c]]
        BY <1>3 DEF IInv, TypeOK
    <2> QED BY <1>1, <1>3, <2>1, <2>2, <2>3, PauseSettles DEF IInv, SocketCloses
<1> QED BY <1>2, <1>3 DEF SocketCloses

LEMMA EventSettles ==
    ASSUME IInv, NEW c \in Calls,
           \/ \E k \in {0, Count[c], Count[c] + 1} : Signatures(c, k)
           \/ \E raw \in {NotPending} \cup 0..Horizon : PendingApproval(c, raw)
           \/ ErrorEvent(c)
    PROVE  TypeOK' /\ OthersStay(c) /\ Settles(c)
<1>0. Alive(c)
    BY RunningIsAlive DEF Signatures, PendingApproval, ErrorEvent, Running
<1>1. ASSUME NEW k \in {0, Count[c], Count[c] + 1}, Signatures(c, k)
      PROVE  TypeOK' /\ OthersStay(c) /\ Settles(c)
    <2>1. CASE k = 0
        <3>1. events' = [events EXCEPT ![c] = @ + 1] /\ events[c] < MaxEvents
              /\ UNCHANGED <<stage, socket, outcome>>
            BY <1>1, <2>1 DEF Signatures
        <3>2. events' \in [Calls -> 0..MaxEvents]
            <4>1. events \in [Calls -> 0..MaxEvents]
                BY DEF IInv, TypeOK
            <4> QED BY <3>1, <4>1, OptionsAssumption
        <3>3. TypeOK'
            BY <1>1, <3>1, <3>2 DEF Signatures, IInv, TypeOK, queueVars
        <3>4. OthersStay(c) /\ Settles(c)
            BY <1>0, <1>1, <3>1 DEF Signatures, IInv, Stages, OthersStay, Settles, Ended,
               Alive, Running, queueVars, TypeOK
        <3> QED BY <3>3, <3>4
    <2>2. CASE k # 0
        <3>1. PICK o \in {"signed", "refused"} : End(c, o) /\ UNCHANGED events
            BY <1>1, <2>2 DEF Signatures
        <3>2. TypeOK'
            BY <1>1, <3>1 DEF Signatures, End, Outcomes, IInv, TypeOK, queueVars
        <3>3. OthersStay(c) /\ Settles(c)
            BY <1>1, <3>1 DEF Signatures, End, IInv, TypeOK, OthersStay, Settles, Ended, queueVars
        <3> QED BY <3>2, <3>3
    <2> QED BY <2>1, <2>2
<1>2. ASSUME NEW raw \in {NotPending} \cup 0..Horizon, PendingApproval(c, raw)
      PROVE  TypeOK' /\ OthersStay(c) /\ Settles(c)
    <2>1. ResolvedValidTill(raw, validTill[c]) \in {NotPending} \cup 0..Horizon
        BY OptionsAssumption DEF ResolvedValidTill, At, IInv, TypeOK
    <2>2. validTill' \in [Calls -> {NotPending} \cup 0..Horizon]
        BY <1>2, <2>1 DEF PendingApproval, IInv, TypeOK
    <2>3. events' \in [Calls -> 0..MaxEvents]
        <3>1. events[c] + 1 \in 0..MaxEvents
            BY <1>2, OptionsAssumption DEF PendingApproval, IInv, TypeOK
        <3>2. events' = [events EXCEPT ![c] = events[c] + 1] /\ events \in [Calls -> 0..MaxEvents]
            BY <1>2 DEF PendingApproval, IInv, TypeOK
        <3> QED BY <3>1, <3>2, OptionsAssumption
    <2>4. TypeOK'
        BY <1>2, <2>2, <2>3 DEF PendingApproval, IInv, TypeOK, queueVars
    <2>5. OthersStay(c) /\ Settles(c)
        BY <1>0, <1>2 DEF PendingApproval, IInv, Stages, OthersStay, Settles, Ended, Alive,
           queueVars, TypeOK
    <2> QED BY <2>4, <2>5
<1>3. ASSUME ErrorEvent(c) PROVE TypeOK' /\ OthersStay(c) /\ Settles(c)
    <2>1. TypeOK'
        BY <1>3 DEF ErrorEvent, End, Outcomes, IInv, TypeOK, queueVars
    <2>2. OthersStay(c) /\ Settles(c)
        BY <1>3 DEF ErrorEvent, End, IInv, TypeOK, OthersStay, Settles, Ended, queueVars
    <2> QED BY <2>1, <2>2
<1> QED BY <1>1, <1>2, <1>3

LEMMA WakeSettles ==
    ASSUME IInv, NEW c \in Calls, Wake(c)
    PROVE  TypeOK' /\ OthersStay(c) /\ Settles(c)
<1>1. Alive(c)
    BY RunningIsAlive DEF Wake, Running
<1> QED BY <1>1, AttemptSettles DEF IInv, Wake

-----------------------------------------------------------------------------
(* What follows for the queue. *)

\* A position in the sequence of calls is one of a call.
LEMMA Positions ==
    ASSUME TypeOK
    PROVE  /\ Len(issued) \in Nat /\ DOMAIN issued = 1..Len(issued)
           /\ \A i \in DOMAIN issued : issued[i] \in Calls
BY DEF TypeOK

\* When the turn of a call comes, every call made before it is settled.
LEMMA TurnComes ==
    ASSUME IInv, NEW c \in Calls, stage[c] = "queued", Turn(c)
    PROVE  PriorEnded(c)
<1> SUFFICES ASSUME NEW i \in DOMAIN issued, NEW j \in DOMAIN issued, i < j, issued[j] = c
             PROVE  Ended(issued[i])
    BY DEF PriorEnded
<1>1. Follows(j, chained[c]) /\ chained[c] # Rejected
    BY DEF IInv, Chain
<1>2. CASE Ended(issued[i])
    BY <1>2
<1>3. ASSUME NEW k \in DOMAIN issued, k < j, issued[k] = chained[c], i <= k
      PROVE  Ended(issued[i])
    <2>1. chained[c] \in Calls /\ Ended(chained[c])
        BY <1>1, <1>3, Positions, NamesAssumption DEF IInv, Turn
    <2>2. PriorEnded(chained[c])
        BY <2>1 DEF IInv, Order
    <2>3. CASE i = k
        BY <1>3, <2>1, <2>3
    <2>4. CASE i < k
        BY <1>3, <2>2, <2>4 DEF PriorEnded
    <2> QED BY <1>3, <2>3, <2>4, Positions DEF IInv
<1> QED BY <1>1, <1>2, <1>3 DEF Follows

\* The call that a call waits for was made before it.
LEMMA ChainedIsEarlier ==
    ASSUME IInv, NEW c \in Calls, stage[c] = "queued", chained[c] \in Calls
    PROVE  \E j, k \in DOMAIN issued : k < j /\ issued[j] = c /\ issued[k] = chained[c]
<1>1. PICK j \in DOMAIN issued : issued[j] = c
    BY DEF IInv, Calling
<1> QED BY <1>1 DEF IInv, Chain

\* A call that is turned away has a cause to be.
LEMMA BarredHasCause ==
    ASSUME IInv, NEW c \in Calls, stage[c] = "queued", Barred(c) \/ Aborted(c)
    PROVE  Promise!HasCause(c)
<1>1. PICK j \in DOMAIN issued : issued[j] = c
    BY DEF IInv, Calling
<1>2. CASE Aborted(c)
    BY <1>1, <1>2, Positions DEF IInv, Aborted, Promise!HasCause
<1>3. CASE Barred(c)
    <2>1. chained[c] \in Calls /\ outcome[chained[c]] = "aborted"
        BY <1>1, <1>3 DEF Barred, IInv, Chain
    <2>2. PICK m \in DOMAIN issued, k \in DOMAIN issued :
              k < m /\ issued[m] = c /\ issued[k] = chained[c]
        BY <2>1, ChainedIsEarlier
    <2>3. Promise!HasCause(chained[c])
        BY <2>1 DEF IInv, Causes
    <2>4. CASE wired
        BY <2>4 DEF Promise!HasCause
    <2>5. ASSUME NEW i \in DOMAIN issued, NEW n \in DOMAIN issued,
                 i <= n, issued[n] = chained[c], issued[i] \in cancelled
          PROVE  Promise!HasCause(c)
        <3>1. n = k
            BY <2>2, <2>5 DEF IInv, Calling
        <3>2. i <= m
            BY <2>2, <2>5, <3>1, Positions DEF IInv
        <3> QED BY <2>2, <2>5, <3>2 DEF Promise!HasCause
    <2> QED BY <2>3, <2>4, <2>5 DEF Promise!HasCause
<1> QED BY <1>2, <1>3

\* Settled calls stay settled, whatever is appended to the calls made.
LEMMA PriorEndedStays ==
    ASSUME NEW c \in Calls, PriorEnded(c), issued' = issued,
           \A d \in Calls : Ended(d) => Ended(d)', TypeOK
    PROVE  PriorEnded(c)'
BY Positions DEF PriorEnded

LEMMA FollowsStays ==
    ASSUME NEW j, NEW d, Follows(j, d), issued' = issued,
           \A e \in Calls : Ended(e) => Ended(e)', TypeOK
    PROVE  Follows(j, d)'
BY Positions DEF Follows

\* A callback of one call, given what it does and that its turn has come.
LEMMA CallbackPreserves ==
    ASSUME IInv, NEW c \in Calls, TypeOK', OthersStay(c),
           stage[c] \notin {"idle", "ended"}, PriorEnded(c),
           stage'[c] \in {"connecting", "reading", "sleeping", "ended"},
           socket'[c] => stage'[c] \in {"connecting", "reading"},
           Ended(c)' <=> outcome'[c] # "none",
           ~Ended(c)' => failures'[c] < MaxAttempts /\ ~Aborted(c),
           outcome'[c] = "aborted" => Promise!HasCause(c)
    PROVE  IInv'
<1> USE DEF OthersStay, queueVars
<1>1. \A d \in Calls : /\ Ended(d) => Ended(d)'
                       /\ d # c => stage'[d] = stage[d]
    BY DEF Ended
<1>2. Calling'
    BY <1>1, Positions DEF IInv, Calling
<1>3. Stages'
    <2> SUFFICES ASSUME NEW d \in Calls
                 PROVE  /\ socket'[d] => stage'[d] \in {"connecting", "reading"}
                        /\ Ended(d)' <=> outcome'[d] # "none"
                        /\ ~Ended(d)' => failures'[d] < MaxAttempts
                        /\ stage'[d] \in {"idle", "queued"} => attempts'[d] = 0
                        /\ Aborted(d)' => ~Running(d)'
        BY DEF Stages
    <2>1. CASE d = c
        BY <2>1 DEF Ended, Running, Aborted
    <2>2. CASE d # c
        BY <2>2 DEF IInv, Stages, Ended, Running, Aborted
    <2> QED BY <2>1, <2>2
<1>4. Chain'
    <2>1. ASSUME NEW j \in DOMAIN issued, stage'[issued[j]] = "queued"
          PROVE  /\ chained[issued[j]] # Rejected
                 /\ chained[issued[j]] \in Calls =>
                       \E k \in DOMAIN issued : k < j /\ issued[k] = chained[issued[j]]
                 /\ Follows(j, chained[issued[j]])'
        <3>1. stage[issued[j]] = "queued"
            BY <1>1, <2>1, Positions DEF IInv
        <3>2. Follows(j, chained[issued[j]])
            BY <3>1 DEF IInv, Chain
        <3>3. Follows(j, chained[issued[j]])'
            BY <1>1, <3>2, FollowsStays DEF IInv
        <3> QED BY <3>1, <3>3 DEF IInv, Chain
    <2>2. ~wired => signQueue # Rejected /\ Follows(Len(issued) + 1, signQueue)'
        BY <1>1, FollowsStays DEF IInv, Chain
    <2>3. signQueue \in Calls => \E k \in DOMAIN issued : issued[k] = signQueue
        BY DEF IInv, Chain
    <2>4. chained' = chained /\ signQueue' = signQueue /\ issued' = issued /\ wired' = wired
        OBVIOUS
    <2> QED BY <2>1, <2>2, <2>3, <2>4 DEF Chain, Follows
<1>5. Order'
    <2> SUFFICES ASSUME NEW d \in Calls,
                        \/ attempts'[d] > 0 \/ Running(d)'
                        \/ Ended(d)' /\ (signQueue = d \/
                              \E e \in Calls : stage'[e] = "queued" /\ chained[e] = d)
                 PROVE  PriorEnded(d)'
        BY DEF Order
    <2>1. PriorEnded(d)
        <3>1. CASE d = c
            BY <3>1
        <3>2. CASE d # c
            <4>1. \A e \in Calls : stage'[e] = "queued" => stage[e] = "queued"
                BY <1>1
            <4>2. attempts'[d] = attempts[d] /\ stage'[d] = stage[d]
                BY <3>2
            <4> QED BY <4>1, <4>2 DEF IInv, Order, Ended, Running
        <3> QED BY <3>1, <3>2
    <2> QED BY <1>1, <2>1, PriorEndedStays DEF IInv
<1>6. Causes'
    BY DEF IInv, Causes, Promise!HasCause
<1> QED BY <1>2, <1>3, <1>4, <1>5, <1>6 DEF IInv

LEMMA RunningPreserves ==
    ASSUME IInv, NEW c \in Calls, Running(c), TypeOK', OthersStay(c), Settles(c)
    PROVE  IInv'
<1>1. PriorEnded(c)
    BY DEF IInv, Order
<1>2. stage[c] \notin {"idle", "ended"} /\ ~Aborted(c)
    BY RunningIsAlive DEF Alive
<1> QED BY <1>1, <1>2, CallbackPreserves DEF Settles

LEMMA StartPreserves ==
    ASSUME IInv, NEW c \in Calls, Start(c)
    PROVE  IInv'
<1>1. stage[c] = "queued" /\ PriorEnded(c)
    BY TurnComes DEF Start
<1>2. outcome[c] = "none" /\ failures[c] < MaxAttempts
    BY <1>1 DEF IInv, Stages, Ended
<1>3. ASSUME NEW o \in {"aborted", "refused"}, End(c, o),
             o = "aborted" => Barred(c) \/ Aborted(c),
             UNCHANGED <<validTill, failures, attempts, timer, events>>
      PROVE  IInv'
    <2>1. UNCHANGED <<now, wired, cancelled, queueVars>>
        BY DEF Start
    <2>2. TypeOK'
        BY <1>3, <2>1 DEF IInv, TypeOK, End, Outcomes, queueVars
    <2>3. OthersStay(c) /\ stage'[c] = "ended" /\ ~socket'[c] /\ outcome'[c] = o
        BY <1>3, <2>1 DEF IInv, TypeOK, End, OthersStay
    <2>4. o = "aborted" => Promise!HasCause(c)
        BY <1>1, <1>3, BarredHasCause
    <2>5. Ended(c)' /\ outcome'[c] # "none"
        BY <2>3 DEF Ended
    <2> QED BY <1>1, <2>2, <2>3, <2>4, <2>5, CallbackPreserves
<1>4. CASE ~Aborted(c) /\ Attempt(c)
    <2>1. Alive(c)
        BY <1>1, <1>2, <1>4 DEF Alive
    <2>2. TypeOK' /\ OthersStay(c) /\ Settles(c)
        BY <1>4, <2>1, AttemptSettles DEF IInv, Start
    <2> QED BY <1>1, <1>4, <2>2, CallbackPreserves DEF Settles
<1> QED BY <1>3, <1>4 DEF Start

LEMMA SignPreserves ==
    ASSUME IInv, NEW c \in Calls, SignTransactions(c)
    PROVE  IInv'
<1> DEFINE n == Len(issued) + 1
<1>1. /\ n \in Nat \ {0} /\ DOMAIN issued = 1..(n - 1) /\ DOMAIN issued' = 1..n
      /\ \A i \in DOMAIN issued : issued'[i] = issued[i]
      /\ issued'[n] = c /\ issued' \in Seq(Calls)
    <2>1. issued' = Append(issued, c) /\ issued \in Seq(Calls)
        BY DEF IInv, TypeOK, SignTransactions
    <2>2. n \in Nat \ {0} /\ DOMAIN issued = 1..(n - 1)
        BY <2>1
    <2>3. issued' \in Seq(Calls) /\ Len(issued') = n
        BY <2>1
    <2>4. DOMAIN issued' = 1..n
        BY <2>2, <2>3
    <2> QED BY <2>1, <2>2, <2>3, <2>4
<1>2. stage[c] = "idle" /\ \A i \in DOMAIN issued : issued[i] \in Calls /\ issued[i] # c
    BY Positions DEF SignTransactions, IInv, Calling
<1>3. /\ UNCHANGED <<now, wired, cancelled, validTill, failures, attempts, timer, events>>
      /\ \/ Aborted(c) /\ End(c, "aborted") /\ UNCHANGED <<signQueue, chained>>
         \/ /\ ~Aborted(c)
            /\ stage' = [stage EXCEPT ![c] = "queued"]
            /\ chained' = [chained EXCEPT ![c] = signQueue]
            /\ signQueue' = c
            /\ UNCHANGED <<socket, outcome>>
    BY DEF SignTransactions
<1>4. TypeOK'
    <2>1. issued' \in Seq(Calls) /\ signQueue' \in Calls \cup {Free, Rejected}
          /\ chained' \in [Calls -> Calls \cup {Free, Rejected}]
        <3>1. /\ signQueue \in Calls \cup {Free, Rejected}
              /\ chained \in [Calls -> Calls \cup {Free, Rejected}]
            BY DEF IInv, TypeOK
        <3> QED BY <1>1, <1>3, <3>1
    <2>2. /\ outcome' \in [Calls -> Outcomes \cup {"none"}] /\ socket' \in [Calls -> BOOLEAN]
          /\ stage' \in [Calls -> {"idle", "queued", "connecting", "reading", "sleeping", "ended"}]
        BY <1>3 DEF IInv, TypeOK, End, Outcomes
    <2> QED BY <1>3, <2>1, <2>2 DEF IInv, TypeOK
<1>5. /\ \A d \in Calls \ {c} : stage'[d] = stage[d] /\ chained'[d] = chained[d]
                                /\ outcome'[d] = outcome[d] /\ socket'[d] = socket[d]
      /\ \A d \in Calls : Ended(d) => Ended(d)'
      /\ stage'[c] = IF Aborted(c) THEN "ended" ELSE "queued"
      /\ outcome'[c] = IF Aborted(c) THEN "aborted" ELSE outcome[c]
      /\ socket'[c] => socket[c]
    BY <1>2, <1>3 DEF IInv, TypeOK, End, Ended
<1> HIDE DEF n
<1>6. Calling'
    <2>1. ASSUME NEW d \in Calls, stage'[d] # "idle"
          PROVE  \E i \in DOMAIN issued' : issued'[i] = d
        <3>1. CASE d = c
            BY <1>1, <3>1
        <3>2. CASE d # c
            <4>1. PICK i \in DOMAIN issued : issued[i] = d
                BY <1>5, <2>1, <3>2 DEF IInv, Calling
            <4> QED BY <1>1, <4>1
        <3> QED BY <3>1, <3>2
    <2>2. ASSUME NEW i \in DOMAIN issued'
          PROVE  stage'[issued'[i]] # "idle"
        BY <1>1, <1>2, <1>5 DEF IInv, Calling
    <2>3. ASSUME NEW i \in DOMAIN issued', NEW j \in DOMAIN issued', issued'[i] = issued'[j]
          PROVE  i = j
        <3>1. CASE i = n \/ j = n
            BY <1>1, <1>2, <2>3, <3>1
        <3>2. CASE i # n /\ j # n
            BY <1>1, <2>3, <3>2 DEF IInv, Calling
        <3> QED BY <3>1, <3>2
    <2> QED BY <2>1, <2>2, <2>3 DEF Calling
<1>7. Stages'
    BY <1>2, <1>5, <1>3 DEF IInv, Stages, Ended, Running, Aborted
<1>8. Chain'
    <2>3. ~wired => signQueue # Rejected /\ Follows(n, signQueue)
        BY DEF IInv, Chain, n
    <2>4. ASSUME NEW j \in DOMAIN issued', stage'[issued'[j]] = "queued"
          PROVE  /\ chained'[issued'[j]] # Rejected
                 /\ chained'[issued'[j]] \in Calls =>
                       \E k \in DOMAIN issued' : k < j /\ issued'[k] = chained'[issued'[j]]
                 /\ \A i \in DOMAIN issued' : i < j =>
                       \/ stage'[issued'[i]] = "ended"
                       \/ \E k \in DOMAIN issued' :
                             k < j /\ issued'[k] = chained'[issued'[j]] /\ i <= k
        <3>1. CASE j \in DOMAIN issued
            <4>1. issued'[j] = issued[j] /\ stage[issued[j]] = "queued"
                  /\ chained'[issued[j]] = chained[issued[j]]
                BY <1>1, <1>2, <1>5, <2>4, <3>1
            <4>2. /\ chained[issued[j]] # Rejected
                  /\ chained[issued[j]] \in Calls =>
                        \E k \in DOMAIN issued : k < j /\ issued[k] = chained[issued[j]]
                  /\ Follows(j, chained[issued[j]])
                BY <3>1, <4>1 DEF IInv, Chain
            <4>4. \A i \in DOMAIN issued' : i < j =>
                       \/ stage'[issued'[i]] = "ended"
                       \/ \E k \in DOMAIN issued :
                             k < j /\ issued[k] = chained[issued[j]] /\ i <= k
                BY <1>1, <1>2, <1>5, <3>1, <4>2 DEF Follows, Ended
            <4> QED BY <1>1, <4>1, <4>2, <4>4
        <3>2. CASE j = n
            <4>1. ~Aborted(c) /\ chained'[c] = signQueue /\ issued'[j] = c
                BY <1>1, <1>5, <1>3, <2>4, <3>2 DEF IInv, TypeOK
            <4>2. ~wired /\ signQueue # Rejected /\ Follows(n, signQueue)
                BY <2>3, <4>1 DEF Aborted
            <4>3. signQueue \in Calls => \E k \in DOMAIN issued : issued[k] = signQueue
                BY DEF IInv, Chain
            <4>4. \A i \in DOMAIN issued' : i < n =>
                       \/ stage'[issued'[i]] = "ended"
                       \/ \E k \in DOMAIN issued : k < n /\ issued[k] = signQueue /\ i <= k
                BY <1>1, <1>2, <1>5, <4>2 DEF Follows, Ended
            <4> QED BY <1>1, <3>2, <4>1, <4>2, <4>3, <4>4
        <3> QED BY <1>1, <2>4, <3>1, <3>2
    <2>5. ~wired' =>
             /\ signQueue' # Rejected
             /\ \A i \in DOMAIN issued' : i < n + 1 =>
                   \/ stage'[issued'[i]] = "ended"
                   \/ \E k \in DOMAIN issued' : k < n + 1 /\ issued'[k] = signQueue' /\ i <= k
        <3>1. CASE Aborted(c)
            <4>1. signQueue' = signQueue /\ wired' = wired /\ Ended(c)'
                BY <1>5, <1>3, <3>1 DEF Ended
            <4>2. ASSUME ~wired, NEW i \in DOMAIN issued', i < n + 1
                  PROVE  \/ stage'[issued'[i]] = "ended"
                         \/ \E k \in DOMAIN issued' :
                               k < n + 1 /\ issued'[k] = signQueue' /\ i <= k
                <5>1. CASE i = n
                    BY <1>1, <4>1, <5>1 DEF Ended
                <5>2. CASE i \in DOMAIN issued
                    <6>1. i < n
                        BY <1>1, <5>2
                    <6>2. \/ Ended(issued[i])
                          \/ \E k \in DOMAIN issued : k < n /\ issued[k] = signQueue /\ i <= k
                        BY <2>3, <4>2, <5>2, <6>1 DEF Follows
                    <6> QED BY <1>1, <1>2, <1>5, <4>1, <5>2, <6>2 DEF Ended
                <5> QED BY <1>1, <4>2, <5>1, <5>2
            <4> QED BY <2>3, <4>1, <4>2
        <3>2. CASE ~Aborted(c)
            BY <1>1, <1>3, <3>2, NamesAssumption
        <3> QED BY <3>1, <3>2
    <2>6. signQueue' \in Calls => \E k \in DOMAIN issued' : issued'[k] = signQueue'
        <3>1. CASE signQueue' = c
            BY <1>1, <3>1
        <3>2. CASE signQueue' = signQueue
            <4>1. signQueue \in Calls => \E k \in DOMAIN issued : issued[k] = signQueue
                BY DEF IInv, Chain
            <4> QED BY <1>1, <3>2, <4>1
        <3> QED BY <1>3, <3>1, <3>2
    <2>7. Len(issued') + 1 = n + 1
        BY <1>1
    <2> QED BY <2>4, <2>5, <2>6, <2>7 DEF Chain, Follows, Ended
<1>9. Order'
    <2> SUFFICES ASSUME NEW d \in Calls,
                        \/ attempts'[d] > 0 \/ Running(d)'
                        \/ Ended(d)' /\ (signQueue' = d \/
                              \E e \in Calls : stage'[e] = "queued" /\ chained'[e] = d)
                 PROVE  PriorEnded(d)'
        BY DEF Order
    <2>1. d # c
        <3>1. attempts'[c] = 0 /\ ~Running(c)'
            BY <1>2, <1>5, <1>3 DEF IInv, Stages, Running
        <3>2. signQueue # c
            BY <1>2 DEF IInv, Chain
        <3>3. \A e \in Calls : stage[e] = "queued" => chained[e] # c
            BY <1>2, ChainedIsEarlier
        <3>4. Ended(c)' => Aborted(c)
            BY <1>5 DEF Ended
        <3>5. Aborted(c) => UNCHANGED <<signQueue, chained>> /\ stage'[c] = "ended"
            BY <1>5, <1>3
        <3>6. Aborted(c) => \A e \in Calls : stage'[e] = "queued" => stage[e] = "queued"
            BY <1>5, <3>5
        <3> QED BY <3>1, <3>2, <3>3, <3>4, <3>5, <3>6
    <2>2. PriorEnded(d)
        <3>1. stage'[d] = stage[d] /\ attempts'[d] = attempts[d]
            BY <1>5, <1>3, <2>1
        <3>2. signQueue' = d => signQueue = d
            BY <1>3, <2>1
        <3>3. ASSUME NEW e \in Calls, stage'[e] = "queued", chained'[e] = d
              PROVE  signQueue = d \/ (stage[e] = "queued" /\ chained[e] = d)
            BY <1>5, <1>3, <3>3 DEF IInv, TypeOK
        <3> QED BY <3>1, <3>2, <3>3 DEF IInv, Order, Ended, Running
    <2> QED BY <1>1, <1>2, <1>5, <2>1, <2>2 DEF PriorEnded
<1>10. Causes'
    <2>1. ASSUME NEW d \in Calls, Promise!HasCause(d)
          PROVE  Promise!HasCause(d)'
        BY <1>1, <1>3, <2>1 DEF Promise!HasCause
    <2>2. Aborted(c) => Promise!HasCause(c)'
        <3>1. n \in DOMAIN issued' /\ n <= n /\ issued'[n] = c
            BY <1>1
        <3>2. wired' = wired /\ cancelled' = cancelled
            BY <1>3
        <3> QED BY <3>1, <3>2 DEF Aborted, Promise!HasCause
    <2>3. outcome[c] = "none"
        BY <1>2 DEF IInv, Stages, Ended
    <2> QED BY <1>5, <2>1, <2>2, <2>3 DEF IInv, Causes
<1> QED BY <1>4, <1>6, <1>7, <1>8, <1>9, <1>10 DEF IInv

\* What an abort does to the calls that run.
LEMMA EndRunningPreserves ==
    ASSUME IInv, NEW S \in SUBSET Calls, EndRunning(S), TypeOK',
           UNCHANGED <<issued, chained, failures, attempts>>,
           signQueue' = signQueue \/ (wired' /\ signQueue' = Rejected),
           wired => wired', cancelled \subseteq cancelled',
           \A d \in Calls : Aborted(d)' => Aborted(d) \/ d \in S,
           \A d \in S : wired' \/ d \in cancelled'
    PROVE  IInv'
<1>1. \A d \in Calls :
          /\ Ended(d) => Ended(d)'
          /\ stage'[d] = IF d \in S /\ Running(d) THEN "ended" ELSE stage[d]
          /\ socket'[d] = IF d \in S /\ Running(d) THEN FALSE ELSE socket[d]
          /\ outcome'[d] = IF d \in S /\ Running(d) THEN "aborted" ELSE outcome[d]
    BY DEF EndRunning, Ended, Running
<1>2. Calling'
    <2>1. \A d \in Calls : stage'[d] = "idle" <=> stage[d] = "idle"
        BY <1>1 DEF Running
    <2> QED BY <2>1, Positions DEF IInv, Calling
<1>3. Stages'
    BY <1>1 DEF IInv, Stages, Ended, Running
<1>4. Chain'
    <2>1. \A j \in DOMAIN issued : stage'[issued[j]] = "queued" => stage[issued[j]] = "queued"
        BY <1>1, Positions DEF IInv
    <2>2. ASSUME NEW j, NEW d, Follows(j, d)
          PROVE  Follows(j, d)'
        BY <1>1, <2>2, FollowsStays DEF IInv
    <2>3. ~wired' => ~wired /\ signQueue' = signQueue
        OBVIOUS
    <2>4. ASSUME NEW j \in DOMAIN issued, stage'[issued[j]] = "queued"
          PROVE  /\ chained[issued[j]] # Rejected
                 /\ chained[issued[j]] \in Calls =>
                       \E k \in DOMAIN issued : k < j /\ issued[k] = chained[issued[j]]
                 /\ Follows(j, chained[issued[j]])'
        BY <2>1, <2>2, <2>4 DEF IInv, Chain
    <2>5. ~wired' => signQueue # Rejected /\ Follows(Len(issued) + 1, signQueue)'
        BY <2>2, <2>3 DEF IInv, Chain
    <2>6. signQueue' \in Calls => \E k \in DOMAIN issued : issued[k] = signQueue'
        BY NamesAssumption DEF IInv, Chain
    <2> QED BY <2>3, <2>4, <2>5, <2>6 DEF Chain, Follows, Ended
<1>5. Order'
    <2> SUFFICES ASSUME NEW d \in Calls,
                        \/ attempts'[d] > 0 \/ Running(d)'
                        \/ Ended(d)' /\ (signQueue' = d \/
                              \E e \in Calls : stage'[e] = "queued" /\ chained'[e] = d)
                 PROVE  PriorEnded(d)'
        BY DEF Order
    <2>1. signQueue' = d => signQueue = d
        BY NamesAssumption
    <2>2. \A e \in Calls : stage'[e] = "queued" => stage[e] = "queued"
        BY <1>1
    <2>3. Running(d)' => Running(d)
        BY <1>1 DEF Running
    <2>4. Ended(d)' => Ended(d) \/ Running(d)
        BY <1>1 DEF Ended
    <2>5. PriorEnded(d)
        BY <2>1, <2>2, <2>3, <2>4 DEF IInv, Order
    <2> QED BY <1>1, <2>5, PriorEndedStays DEF IInv
<1>6. Causes'
    <2>1. ASSUME NEW d \in Calls, Promise!HasCause(d)
          PROVE  Promise!HasCause(d)'
        BY <2>1 DEF Promise!HasCause
    <2>2. ASSUME NEW d \in S, Running(d)
          PROVE  Promise!HasCause(d)'
        <3>1. PICK i \in DOMAIN issued : issued[i] = d
            BY <2>2 DEF IInv, Calling, Running
        <3>2. i <= i
            BY <3>1, Positions DEF IInv
        <3> QED BY <2>2, <3>1, <3>2 DEF Promise!HasCause
    <2> QED BY <1>1, <2>1, <2>2 DEF IInv, Causes
<1> QED BY <1>2, <1>3, <1>4, <1>5, <1>6 DEF IInv

LEMMA AbortsPreserve ==
    ASSUME IInv, AbortSigner \/ \E c \in Calls : AbortCall(c)
    PROVE  IInv'
<1>1. CASE AbortSigner
    <2>1. EndRunning(Calls) /\ wired' = TRUE /\ signQueue' = Rejected
          /\ UNCHANGED <<now, cancelled, issued, chained, validTill, failures, attempts,
                         timer, events>>
        BY <1>1 DEF AbortSigner
    <2>2. TypeOK'
        BY <2>1 DEF IInv, TypeOK, EndRunning, Outcomes
    <2> QED BY <2>1, <2>2, EndRunningPreserves
<1>2. ASSUME NEW c \in Calls, AbortCall(c) PROVE IInv'
    <2>1. EndRunning({c}) /\ cancelled' = cancelled \cup {c}
          /\ UNCHANGED <<now, wired, queueVars, validTill, failures, attempts, timer, events>>
        BY <1>2 DEF AbortCall
    <2>2. TypeOK'
        BY <2>1 DEF IInv, TypeOK, EndRunning, Outcomes, queueVars
    <2>3. \A d \in Calls : Aborted(d)' => Aborted(d) \/ d \in {c}
        BY <2>1 DEF Aborted
    <2> QED BY <2>1, <2>2, <2>3, EndRunningPreserves DEF queueVars
<1> QED BY <1>1, <1>2

-----------------------------------------------------------------------------
(* The theorems. *)

LEMMA InitHolds == Init => IInv
<1> SUFFICES ASSUME Init PROVE IInv
    OBVIOUS
<1>1. TypeOK
    <2>1. /\ issued \in Seq(Calls) /\ cancelled \subseteq Calls
          /\ wired \in BOOLEAN /\ signQueue \in Calls \cup {Free, Rejected}
        <3>1. issued = <<>> /\ cancelled = {} /\ wired = FALSE /\ signQueue = Free
            BY DEF Init
        <3>2. <<>> \in Seq(Calls)
            OBVIOUS
        <3> QED BY <3>1, <3>2
    <2>4. now \in 0..Horizon
        BY OptionsAssumption DEF Init
    <2>2. /\ failures \in [Calls -> 0..MaxAttempts] /\ attempts \in [Calls -> Nat]
          /\ timer \in [Calls -> 0..Horizon] /\ events \in [Calls -> 0..MaxEvents]
          /\ validTill \in [Calls -> {NotPending} \cup 0..Horizon]
        BY OptionsAssumption DEF Init
    <2>3. /\ chained \in [Calls -> Calls \cup {Free, Rejected}]
          /\ stage \in [Calls -> {"idle", "queued", "connecting", "reading", "sleeping",
                                   "ended"}]
          /\ socket \in [Calls -> BOOLEAN] /\ outcome \in [Calls -> Outcomes \cup {"none"}]
        BY DEF Init
    <2> QED BY <2>1, <2>2, <2>3, <2>4 DEF TypeOK
<1>2. Calling /\ Stages
    BY OptionsAssumption DEF Init, Calling, Stages, Ended, Running
<1>3. Chain
    BY NamesAssumption DEF Init, Chain, Follows, Free, Rejected
<1>4. Order
    <2>1. \A c \in Calls : attempts[c] = 0 /\ ~Running(c) /\ ~Ended(c)
        BY DEF Init, Ended, Running
    <2>2. ~(0 > 0)
        OBVIOUS
    <2> QED BY <2>1, <2>2, Zenon DEF Order
<1>5. Causes
    BY DEF Init, Causes
<1> QED BY <1>1, <1>2, <1>3, <1>4, <1>5 DEF IInv

\* What a callback of one call may be.
Callback(c) ==
    \/ Connected(c) \/ ConnectFails(c) \/ ConnectTimesOut(c)
    \/ \E k \in {0, Count[c], Count[c] + 1} : Signatures(c, k)
    \/ \E raw \in {NotPending} \cup 0..Horizon : PendingApproval(c, raw)
    \/ ErrorEvent(c) \/ SocketFails(c) \/ SocketCloses(c) \/ Wake(c)

LEMMA CallbackSettles ==
    ASSUME IInv, NEW c \in Calls, Callback(c)
    PROVE  Running(c) /\ TypeOK' /\ OthersStay(c) /\ Settles(c)
<1>1. Running(c)
    BY DEF Callback, Running, Connected, ConnectFails, ConnectTimesOut, Signatures,
       PendingApproval, ErrorEvent, SocketFails, SocketCloses, Wake
<1> QED BY <1>1, ConnectedSettles, FailsSettles, EventSettles, ClosesSettles, WakeSettles
        DEF Callback

LEMMA NextIs ==
    Next <=> \/ \E c \in Calls : SignTransactions(c) \/ Start(c) \/ Callback(c) \/ AbortCall(c)
             \/ AbortSigner \/ Tick
BY DEF Next, Callback

LEMMA TickPreserves ==
    ASSUME IInv, Tick \/ UNCHANGED vars
    PROVE  IInv'
<1>1. UNCHANGED <<wired, cancelled, issued, signQueue, chained, stage, socket, validTill,
                  failures, attempts, timer, events, outcome>>
    BY DEF Tick, vars, queueVars, callVars
<1>2. now' \in 0..Horizon
    BY OptionsAssumption DEF Tick, vars, IInv, TypeOK
<1>3. TypeOK'
    BY <1>1, <1>2 DEF IInv, TypeOK
<1>4. Calling' /\ Stages'
    BY <1>1 DEF IInv, Calling, Stages, Ended, Running, Aborted
<1>5. Chain'
    BY <1>1 DEF IInv, Chain, Follows, Ended
<1>6. Order'
    BY <1>1 DEF IInv, Order, PriorEnded, Ended, Running
<1>7. Causes'
    BY <1>1 DEF IInv, Causes, Promise!HasCause
<1> QED BY <1>3, <1>4, <1>5, <1>6, <1>7 DEF IInv

LEMMA NextHolds == IInv /\ [Next]_vars => IInv'
<1> SUFFICES ASSUME IInv, [Next]_vars PROVE IInv'
    OBVIOUS
<1>1. ASSUME NEW c \in Calls, Callback(c) PROVE IInv'
    BY <1>1, CallbackSettles, RunningPreserves
<1> QED BY <1>1, NextIs, SignPreserves, StartPreserves, AbortsPreserve, TickPreserves

\* The inductive invariant of a signer and its calls.
THEOREM ManagerInvariant == Spec => []IInv
BY InitHolds, NextHolds, PTL DEF Spec

\* The state of a signer always has its types, budgets within their limits included.
THEOREM ManagerTypeOK == Spec => []TypeOK
<1>1. IInv => TypeOK
    BY DEF IInv
<1> QED BY <1>1, ManagerInvariant, PTL

\* The signer serves its calls one after another, in the order they were made.
THEOREM CallsAreServedInOrder == Spec => []ServedInOrder
<1>1. ASSUME IInv PROVE ServedInOrder
    <2>1. ASSUME NEW i \in DOMAIN issued, NEW j \in DOMAIN issued, i < j,
                 attempts[issued[j]] > 0
          PROVE  Ended(issued[i])
        <3>1. issued[j] \in Calls
            BY <1>1, Positions DEF IInv
        <3> QED BY <1>1, <2>1, <3>1 DEF IInv, Order, PriorEnded
    <2>2. ASSUME NEW c \in Calls, NEW d \in Calls \ {c}, Running(c), Running(d)
          PROVE  FALSE
        <3>1. PICK i \in DOMAIN issued, j \in DOMAIN issued : issued[i] = c /\ issued[j] = d
            BY <1>1, <2>2 DEF IInv, Calling, Running
        <3>2. i < j \/ j < i
            BY <1>1, <2>2, <3>1, Positions DEF IInv
        <3>3. PriorEnded(c) /\ PriorEnded(d)
            BY <1>1, <2>2 DEF IInv, Order
        <3> QED BY <2>2, <3>1, <3>2, <3>3 DEF PriorEnded, Ended, Running
    <2>3. \A c \in Calls : socket[c] => stage[c] \in {"connecting", "reading"} /\ Running(c)
        BY <1>1 DEF IInv, Stages, Running
    <2> QED BY <2>1, <2>2, <2>3 DEF ServedInOrder
<1> QED BY <1>1, ManagerInvariant, PTL

\* A pause ends a call only after its approvers' deadline.
LEMMA PauseGivesUp ==
    ASSUME TypeOK, NEW c \in Calls, NEW f, Pause(c, now', f), validTill' = validTill,
           NEW d \in Calls, outcome'[d] = "failed", outcome[d] # "failed"
    PROVE  d = c /\ f = 0 /\ ~Waiting(c, now')
BY DEF Pause, End, TypeOK

LEMMA FailureGivesUp ==
    ASSUME IInv, NEW c \in Calls, Running(c), Failure(c),
           NEW d \in Calls, outcome'[d] = "failed", outcome[d] # "failed"
    PROVE  /\ failures'[d] = MaxAttempts \/ Expired(d, now')
           /\ ~Waiting(d, now')
<1> DEFINE f == IF Waiting(c, now) THEN failures[c] ELSE failures[c] + 1
<1>1. /\ failures[c] \in 0..(MaxAttempts - 1) /\ f \in 0..MaxAttempts
      /\ failures' = [failures EXCEPT ![c] = f] /\ validTill' = validTill
    <2>1. failures[c] \in 0..(MaxAttempts - 1)
        <3>1. failures[c] \in 0..MaxAttempts /\ failures[c] < MaxAttempts
            BY RunningIsAlive DEF IInv, TypeOK, Alive
        <3> QED BY <3>1, OptionsAssumption
    <2>2. failures' = [failures EXCEPT ![c] = f] /\ validTill' = validTill
        BY DEF Failure
    <2> QED BY <2>1, <2>2, OptionsAssumption
<1>2. CASE ~Waiting(c, now) /\ f >= MaxAttempts /\ End(c, "failed") /\ UNCHANGED <<now, timer>>
    <2>1. d = c
        BY <1>2, SMTT(30) DEF End, IInv, TypeOK
    <2> QED BY <1>1, <1>2, <2>1, OptionsAssumption DEF IInv, TypeOK, Waiting
<1>3. CASE /\ Waiting(c, now) \/ f < MaxAttempts
           /\ now' \in {now, At(now + 1)}
           /\ Pause(c, now', f)
    <2>1. d = c /\ f = 0 /\ ~Waiting(c, now')
        BY <1>1, <1>3, PauseGivesUp DEF IInv
    <2>2. Waiting(c, now)
        BY <1>1, <2>1
    <2>3. now' \in 0..Horizon
        BY <1>3, NextClockIsInTime DEF IInv
    <2> QED BY <2>1, <2>2, <2>3, OptionsAssumption DEF Waiting, Expired, IInv, TypeOK
<1> QED BY <1>2, <1>3 DEF Failure

\* What a pause does to outcomes, other than to end the call as failed.
LEMMA ClosesGivesUp ==
    ASSUME IInv, NEW c \in Calls, SocketCloses(c),
           NEW d \in Calls, outcome'[d] = "failed", outcome[d] # "failed"
    PROVE  /\ failures'[d] = MaxAttempts \/ Expired(d, now')
           /\ ~Waiting(d, now')
<1>1. CASE Failure(c)
    BY <1>1, FailureGivesUp DEF SocketCloses, Running
<1>2. CASE /\ Waiting(c, now)
           /\ now' \in {now, At(now + 1)}
           /\ Pause(c, now', failures[c])
           /\ UNCHANGED <<validTill, failures, attempts, events>>
    <2>1. d = c /\ ~Waiting(c, now')
        BY <1>2, PauseGivesUp DEF IInv
    <2>2. now' \in 0..Horizon
        BY <1>2, NextClockIsInTime DEF IInv
    <2> QED BY <1>2, <2>1, <2>2, OptionsAssumption DEF Waiting, Expired, IInv, TypeOK
<1> QED BY <1>1, <1>2 DEF SocketCloses

\* A call is given up only with its budget used up, or after its deadline.
THEOREM CallsAreGivenUpLate == Spec => GivenUpLate
<1>1. ASSUME IInv, Next, NEW d \in Calls, outcome'[d] = "failed", outcome[d] # "failed"
      PROVE  /\ failures'[d] = MaxAttempts \/ Expired(d, now')
             /\ ~Waiting(d, now')
    <2>1. ASSUME NEW c \in Calls, NEW o \in {"signed", "refused", "aborted"}, End(c, o)
          PROVE  FALSE
        BY <1>1, <2>1 DEF End, IInv, TypeOK
    <2>2. ASSUME NEW S, EndRunning(S)
          PROVE  FALSE
        BY <1>1, <2>2 DEF EndRunning
    <2>3. ASSUME outcome' = outcome
          PROVE  FALSE
        BY <1>1, <2>3
    <2>4. ASSUME NEW c \in Calls, Attempt(c)
          PROVE  FALSE
        BY <2>1, <2>3, <2>4 DEF Attempt
    <2>5. ASSUME NEW c \in Calls, SignTransactions(c) \/ Start(c) \/ Wake(c) \/ AbortCall(c)
          PROVE  FALSE
        BY <2>1, <2>2, <2>3, <2>4, <2>5 DEF SignTransactions, Start, Wake, AbortCall
    <2>6. ASSUME NEW c \in Calls,
                 \/ Connected(c) \/ ErrorEvent(c)
                 \/ \E k \in {0, Count[c], Count[c] + 1} : Signatures(c, k)
                 \/ \E raw \in {NotPending} \cup 0..Horizon : PendingApproval(c, raw)
          PROVE  FALSE
        BY <2>1, <2>3, <2>6 DEF Connected, ErrorEvent, Signatures, PendingApproval
    <2>7. CASE AbortSigner \/ Tick
        BY <2>2, <2>3, <2>7 DEF AbortSigner, Tick, callVars
    <2>8. ASSUME NEW c \in Calls, ConnectFails(c) \/ ConnectTimesOut(c) \/ SocketFails(c)
          PROVE  /\ failures'[d] = MaxAttempts \/ Expired(d, now')
                 /\ ~Waiting(d, now')
        BY <1>1, <2>8, FailureGivesUp DEF ConnectFails, ConnectTimesOut, SocketFails, Running
    <2>9. ASSUME NEW c \in Calls, SocketCloses(c)
          PROVE  /\ failures'[d] = MaxAttempts \/ Expired(d, now')
                 /\ ~Waiting(d, now')
        BY <1>1, <2>9, ClosesGivesUp
    <2> QED BY <1>1, <2>5, <2>6, <2>7, <2>8, <2>9 DEF Next
<1>2. IInv /\ [Next]_vars =>
        [\A c \in Calls : outcome'[c] = "failed" /\ outcome[c] # "failed" =>
            /\ failures'[c] = MaxAttempts \/ Expired(c, now')
            /\ ~Waiting(c, now')]_vars
    BY <1>1
<1> QED BY <1>2, ManagerInvariant, PTL DEF Spec, GivenUpLate

\* Once its signal aborted, nothing is sent for a call, and it ends as aborted.
THEOREM AbortsStopCalls == Spec => AbortStops
<1>1. ASSUME IInv, Next, NEW d \in Calls, Aborted(d)
      PROVE  attempts'[d] = attempts[d] /\ outcome'[d] \in {outcome[d], "aborted"}
    <2>0. ~Running(d)
        BY <1>1 DEF IInv, Stages
    <2>1. ASSUME NEW c \in Calls, Callback(c)
          PROVE  attempts'[d] = attempts[d] /\ outcome'[d] \in {outcome[d], "aborted"}
        BY <1>1, <2>0, <2>1, CallbackSettles DEF OthersStay
    <2>2. ASSUME NEW c \in Calls, Start(c)
          PROVE  attempts'[d] = attempts[d] /\ outcome'[d] \in {outcome[d], "aborted"}
        <3>1. CASE d = c
            BY <1>1, <2>2, <3>1 DEF Start, End, IInv, TypeOK
        <3>2. CASE d # c
            BY <1>1, <2>2, <3>2 DEF Start, Attempt, End, IInv, TypeOK
        <3> QED BY <3>1, <3>2
    <2>3. ASSUME NEW c \in Calls, SignTransactions(c)
          PROVE  attempts'[d] = attempts[d] /\ outcome'[d] \in {outcome[d], "aborted"}
        BY <1>1, <2>3 DEF SignTransactions, End, IInv, TypeOK
    <2>4. ASSUME NEW c \in Calls, AbortCall(c) \/ AbortSigner \/ Tick
          PROVE  attempts'[d] = attempts[d] /\ outcome'[d] \in {outcome[d], "aborted"}
        BY <1>1, <2>4 DEF AbortCall, AbortSigner, EndRunning, Tick, callVars
    <2> QED BY <1>1, <2>1, <2>2, <2>3, <2>4, NextIs
<1>2. IInv /\ [Next]_vars =>
        [\A c \in Calls : Aborted(c) =>
            /\ attempts'[c] = attempts[c]
            /\ outcome'[c] \in {outcome[c], "aborted"}]_vars
    BY <1>1
<1> QED BY <1>2, ManagerInvariant, PTL DEF Spec, AbortStops

-----------------------------------------------------------------------------
(* The promise. *)

LEMMA MadeIsCalled ==
    ASSUME IInv, NEW c \in Calls
    PROVE  Promise!Made(c) <=> stage[c] # "idle"
BY Positions DEF IInv, Calling, Promise!Made

\* An end of a call whose turn has come is an answer or has a cause.
LEMMA EndIsPromised ==
    ASSUME IInv, NEW c \in Calls, stage[c] \notin {"idle", "ended"}, PriorEnded(c),
           UNCHANGED <<wired, cancelled, issued>>,
           NEW o \in Outcomes, outcome' = [outcome EXCEPT ![c] = o],
           o # "aborted" => ~Aborted(c),
           o = "aborted" => Promise!HasCause(c)
    PROVE  Promise!Next
<1>1. Promise!Pending(c)
    BY MadeIsCalled DEF Promise!Pending, IInv, Stages, Ended
<1>2. CASE o = "aborted"
    BY <1>1, <1>2 DEF Promise!GiveUp, Promise!Next
<1>3. CASE o # "aborted"
    <2>1. \A i, j \in DOMAIN issued : i < j /\ issued[j] = c => ~Promise!Pending(issued[i])
        <3>1. \A i, j \in DOMAIN issued : i < j /\ issued[j] = c => outcome[issued[i]] # "none"
            BY Positions DEF PriorEnded, IInv, Stages
        <3> QED BY <3>1 DEF Promise!Pending
    <2>2. o \in Promise!Answers
        BY <1>3 DEF Promise!Answers, Outcomes
    <2>3. Promise!Answer(c)
        BY <1>1, <1>3, <2>1, <2>2 DEF Promise!Answer, Aborted
    <2> QED BY <2>3 DEF Promise!Next
<1> QED BY <1>2, <1>3

\* What callbacks do to outcomes.
LEMMA CallbackEnds ==
    ASSUME IInv, NEW c \in Calls, Callback(c)
    PROVE  outcome' = outcome \/ \E o \in Outcomes \ {"aborted"} :
                                     outcome' = [outcome EXCEPT ![c] = o]
<1>1. ASSUME NEW o \in {"signed", "refused", "failed"}, End(c, o)
      PROVE  \E x \in Outcomes \ {"aborted"} : outcome' = [outcome EXCEPT ![c] = x]
    BY <1>1 DEF End, Outcomes
<1>2. ASSUME NEW f, Pause(c, now', f)
      PROVE  outcome' = outcome \/ End(c, "failed")
    BY <1>2 DEF Pause
<1>3. Failure(c) => outcome' = outcome \/ End(c, "failed")
    BY <1>2 DEF Failure
<1>4. Attempt(c) => outcome' = outcome \/ End(c, "refused")
    BY DEF Attempt
<1>5. ASSUME NEW k, Signatures(c, k)
      PROVE  outcome' = outcome \/ End(c, "signed") \/ End(c, "refused")
    BY <1>5 DEF Signatures
<1>6. SocketCloses(c) => outcome' = outcome \/ End(c, "failed")
    BY <1>2, <1>3 DEF SocketCloses
<1>7. ASSUME NEW raw, PendingApproval(c, raw) PROVE outcome' = outcome
    BY <1>7 DEF PendingApproval
<1>8. Connected(c) => outcome' = outcome
    BY DEF Connected
<1> QED BY <1>1, <1>3, <1>4, <1>5, <1>6, <1>7, <1>8
        DEF Callback, ConnectFails, ConnectTimesOut, SocketFails, ErrorEvent, Wake

LEMMA StepIsPromised ==
    ASSUME IInv, [Next]_vars
    PROVE  [Promise!Next]_(Promise!vars)
<1> USE DEF Promise!vars
<1>1. CASE UNCHANGED vars
    BY <1>1 DEF vars, queueVars, callVars
<1>2. ASSUME NEW c \in Calls, Callback(c)
      PROVE  [Promise!Next]_(Promise!vars)
    <2>1. Running(c) /\ UNCHANGED <<wired, cancelled, issued>>
        BY <1>2, CallbackSettles DEF OthersStay, queueVars
    <2>2. ~Aborted(c) /\ PriorEnded(c) /\ stage[c] \notin {"idle", "ended"}
        BY <2>1 DEF IInv, Stages, Order, Running
    <2> QED BY <1>2, <2>1, <2>2, CallbackEnds, EndIsPromised
<1>3. ASSUME NEW c \in Calls, Start(c)
      PROVE  [Promise!Next]_(Promise!vars)
    <2>1. PriorEnded(c) /\ stage[c] = "queued" /\ UNCHANGED <<wired, cancelled, issued>>
        BY <1>3, TurnComes DEF Start, queueVars
    <2>2. CASE Barred(c) \/ Aborted(c)
        BY <1>3, <2>1, <2>2, BarredHasCause, EndIsPromised DEF Start, End, Outcomes
    <2>3. CASE ~Aborted(c) /\ (End(c, "refused") \/ UNCHANGED outcome)
        BY <2>1, <2>3, EndIsPromised DEF End, Outcomes
    <2> QED BY <1>3, <2>2, <2>3 DEF Start, Attempt
<1>4. ASSUME NEW c \in Calls, SignTransactions(c)
      PROVE  [Promise!Next]_(Promise!vars)
    <2>1. ~Promise!Made(c)
        BY <1>4, MadeIsCalled DEF SignTransactions
    <2>2. Promise!Sign(c)
        BY <1>4, <2>1 DEF SignTransactions, End, Aborted, Promise!Sign
    <2> QED BY <2>2 DEF Promise!Next
<1>5. CASE AbortSigner
    <2>1. \A c \in Calls : Running(c) => Promise!Pending(c)
        BY MadeIsCalled DEF Promise!Pending, IInv, Stages, Ended, Running
    <2>2. outcome' = [c \in Calls |-> IF c \in {d \in Calls : Running(d)} THEN "aborted"
                                      ELSE outcome[c]]
        BY <1>5 DEF AbortSigner, EndRunning
    <2>3. {d \in Calls : Running(d)} \in SUBSET {c \in Calls : Promise!Pending(c)}
        BY <2>1
    <2>4. Promise!Abort
        BY <1>5, <2>2, <2>3 DEF AbortSigner, Promise!Abort
    <2> QED BY <2>4 DEF Promise!Next
<1>6. ASSUME NEW c \in Calls, AbortCall(c)
      PROVE  [Promise!Next]_(Promise!vars)
    <2>1. Running(c) => Promise!Pending(c)
        BY MadeIsCalled DEF Promise!Pending, IInv, Stages, Ended, Running
    <2>2. outcome' = [d \in Calls |-> IF d = c /\ Running(d) THEN "aborted" ELSE outcome[d]]
        BY <1>6 DEF AbortCall, EndRunning
    <2>3. CASE Running(c)
        <3>1. outcome' = [outcome EXCEPT ![c] = IF Promise!Pending(c) THEN "aborted" ELSE @]
            BY <2>1, <2>2, <2>3 DEF IInv, TypeOK
        <3>2. Promise!Cancel(c)
            BY <1>6, <3>1 DEF AbortCall, queueVars, Promise!Cancel
        <3> QED BY <3>2 DEF Promise!Next
    <2>4. CASE ~Running(c)
        <3>1. outcome' = outcome
            BY <2>2, <2>4 DEF IInv, TypeOK
        <3>2. Promise!Cancel(c)
            BY <1>6, <3>1 DEF AbortCall, queueVars, Promise!Cancel
        <3> QED BY <3>2 DEF Promise!Next
    <2> QED BY <2>3, <2>4
<1>7. CASE Tick
    BY <1>7 DEF Tick, queueVars, callVars
<1> QED BY <1>1, <1>2, <1>3, <1>4, <1>5, <1>6, <1>7, NextIs

\* Every step of the signer is one that its callers were promised: this is the
\* safety part of KeepsSigningPromise, that aborted calls end is left to TLC.
THEOREM SignerKeepsOrder == Spec => Promise!Init /\ [][Promise!Next]_(Promise!vars)
<1>1. Init => Promise!Init
    BY DEF Init, Promise!Init
<1> QED BY <1>1, StepIsPromised, ManagerInvariant, PTL DEF Spec
=============================================================================
