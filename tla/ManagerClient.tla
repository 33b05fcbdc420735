--------------------------- MODULE ManagerClient ---------------------------
(***************************************************************************)
(* The client of a transaction manager: a service that co-signs over a     *)
(* websocket (packages/core/src/utils/transaction/helper.ts).              *)
(*                                                                         *)
(* A signer made by createTransactionManagerSigner serves its calls one    *)
(* after another: each call is chained on the promise of the one before    *)
(* it.  Serving a call means opening a socket, sending the request and     *)
(* reading events until signatures arrive; a socket that fails or closes   *)
(* is followed by another attempt, within a budget of failures or, once    *)
(* the manager said that it waits for its approvers, until a deadline.     *)
(* The manager may send any event at any time, or nothing for ever.        *)
(*                                                                         *)
(* A promise continuation runs before the next timer or socket event, so   *)
(* what a callback settles is part of the callback's action.  Calls that   *)
(* only wait for an earlier call go on in Start, an action of their own:   *)
(* there are callers' callbacks between the two.                           *)
(***************************************************************************)
EXTENDS Integers, Sequences

CONSTANTS
    Calls,          \* the calls of signTransactions on one signer
    Count,          \* Count[c]: the number of transactions call c has signed
    MaxAttempts,    \* opts.maxAttempts
    RetryDelay,     \* opts.retryDelayMs
    PollDelay,      \* opts.approvalPollMs
    ApprovalTime,   \* opts.defaultApprovalTimeoutMs
    ConnectTime,    \* opts.connectionTimeoutMs
    Horizon,        \* bound: the clock stops here, no timer is set beyond it
    MaxEvents       \* bound: events without effect on the socket, per call

ASSUME CountAssumption == Count \in [Calls -> Nat]
ASSUME OptionsAssumption ==
    /\ MaxAttempts \in Nat \ {0}
    /\ {RetryDelay, PollDelay, ApprovalTime, ConnectTime} \subseteq Nat \ {0}
    /\ Horizon \in Nat /\ MaxEvents \in Nat

NotPending == -1                    \* approvalValidTill = null

Outcomes == {"signed", "refused", "failed", "aborted"}
Free     == "free"                  \* signQueue: a promise that is resolved
Rejected == "rejected"              \* signQueue: a promise that is rejected

ASSUME NamesAssumption == {Free, Rejected} \cap Calls = {}

VARIABLES
    now,        \* the clock
    wired,      \* whether the signer's own signal aborted
    cancelled,  \* the calls whose own signal aborted
    issued,     \* the calls in the order they were made
    signQueue,  \* what the next call is chained on
    chained,    \* chained[c]: what call c is chained on
    stage,      \* stage[c]: where call c is
    socket,     \* socket[c]: whether call c holds a socket
    validTill,  \* validTill[c]: approvalValidTill of call c
    failures,   \* failures[c]: transientFailures of call c
    attempts,   \* attempts[c]: the sockets call c has opened
    timer,      \* timer[c]: when the timer of call c fires
    events,     \* events[c]: the events that call c has been sent
    outcome     \* outcome[c]: how call c ended

queueVars == <<issued, signQueue, chained>>
callVars  == <<stage, socket, validTill, failures, attempts, timer, events, outcome>>
vars      == <<now, wired, cancelled, queueVars, callVars>>

-----------------------------------------------------------------------------
Aborted(c) == wired \/ c \in cancelled

Ended(c)   == stage[c] = "ended"
Running(c) == stage[c] \in {"connecting", "reading", "sleeping"}

\* approvalValidTill !== null && Date.now() < approvalValidTill, at time t
Waiting(c, t) == validTill[c] # NotPending /\ t < validTill[c]
Expired(c, t) == validTill[c] # NotPending /\ t >= validTill[c]

At(t) == IF t < Horizon THEN t ELSE Horizon

\* What a pending_transaction_approval event makes of the deadline.
ResolvedValidTill(raw, current) ==
    IF raw # NotPending THEN raw
    ELSE IF current # NotPending THEN current
    ELSE At(now + ApprovalTime)

\* The call is settled; the finally block and the listeners close the socket.
End(c, o) ==
    /\ stage'   = [stage EXCEPT ![c] = "ended"]
    /\ socket'  = [socket EXCEPT ![c] = FALSE]
    /\ outcome' = [outcome EXCEPT ![c] = o]

\* The top of the loop: give up at the deadline, else open another socket.
Attempt(c) ==
    \/ /\ Expired(c, now)
       /\ End(c, "refused")
       /\ UNCHANGED <<validTill, failures, attempts, timer, events>>
    \/ /\ ~Expired(c, now)
       /\ stage'    = [stage EXCEPT ![c] = "connecting"]
       /\ socket'   = [socket EXCEPT ![c] = TRUE]
       /\ attempts' = [attempts EXCEPT ![c] = @ + 1]
       /\ timer'    = [timer EXCEPT ![c] = At(now + ConnectTime)]
       /\ UNCHANGED <<validTill, failures, events, outcome>>

\* The end of the loop's body: the clock is read again, t, after f failures.
Pause(c, t, f) ==
    \/ /\ Waiting(c, t) \/ f > 0
       /\ stage'  = [stage EXCEPT ![c] = "sleeping"]
       /\ socket' = [socket EXCEPT ![c] = FALSE]
       /\ timer'  = [timer EXCEPT ![c] =
                        LET poll == At(t + PollDelay)
                        IN  IF ~Waiting(c, t) THEN At(t + RetryDelay)
                            ELSE IF poll < validTill[c] THEN poll ELSE validTill[c]]
       /\ UNCHANGED outcome
    \/ /\ ~Waiting(c, t) /\ f = 0
       /\ End(c, "failed")
       /\ UNCHANGED timer

\* Mutant of Failure: failures count while approvers are awaited.
FailureImpatient(c) ==
    LET f == failures[c] + 1
        over == f >= MaxAttempts
    IN  /\ failures' = [failures EXCEPT ![c] = f]
        /\ \/ over /\ End(c, "failed") /\ UNCHANGED <<now, timer>>
           \/ ~over /\ Pause(c, now, f) /\ UNCHANGED now
        /\ UNCHANGED <<validTill, attempts, events>>

\* The catch block for an error that may be retried; the clock, read here and
\* at the end of the body, may move on in between.
Failure(c) ==
    LET f == IF Waiting(c, now) THEN failures[c] ELSE failures[c] + 1
    IN  /\ failures' = [failures EXCEPT ![c] = f]
        /\ \/ /\ ~Waiting(c, now) /\ f >= MaxAttempts
              /\ End(c, "failed")
              /\ UNCHANGED <<now, timer>>
           \/ /\ Waiting(c, now) \/ f < MaxAttempts
              /\ now' \in {now, At(now + 1)}
              /\ Pause(c, now', f)
        /\ UNCHANGED <<validTill, attempts, events>>

-----------------------------------------------------------------------------
Init ==
    /\ now = 0
    /\ wired = FALSE
    /\ cancelled = {}
    /\ issued = <<>>
    /\ signQueue = Free
    /\ chained = [c \in Calls |-> Free]
    /\ stage = [c \in Calls |-> "idle"]
    /\ socket = [c \in Calls |-> FALSE]
    /\ validTill = [c \in Calls |-> NotPending]
    /\ failures = [c \in Calls |-> 0]
    /\ attempts = [c \in Calls |-> 0]
    /\ timer = [c \in Calls |-> 0]
    /\ events = [c \in Calls |-> 0]
    /\ outcome = [c \in Calls |-> "none"]

\* signTransactions is called: it throws at once, or joins the queue.
SignTransactions(c) ==
    /\ stage[c] = "idle"
    /\ issued' = Append(issued, c)
    /\ IF Aborted(c)
       THEN /\ End(c, "aborted")
            /\ UNCHANGED <<signQueue, chained>>
       ELSE /\ stage' = [stage EXCEPT ![c] = "queued"]
            /\ chained' = [chained EXCEPT ![c] = signQueue]
            /\ signQueue' = c
            /\ UNCHANGED <<socket, outcome>>
    /\ UNCHANGED <<now, wired, cancelled, validTill, failures, attempts, timer, events>>

\* Mutants: calls do not wait for each other; any failure rejects the queue.
TurnAtOnce(c) == chained[c] \in Calls \cup {Free, Rejected}
BarredByFailure(c) ==
    chained[c] = Rejected \/ (chained[c] \in Calls /\ outcome[chained[c]] # "signed")

\* The promise that c is chained on is settled: only an abort rejects it.
Turn(c)   == chained[c] \in {Free, Rejected} \/ (chained[c] \in Calls /\ Ended(chained[c]))
Barred(c) == chained[c] = Rejected \/ (chained[c] \in Calls /\ outcome[chained[c]] = "aborted")

\* Mutant of Start: the signal is not looked at when the turn comes.
StartUnchecked(c) ==
    /\ stage[c] = "queued" /\ Turn(c) /\ ~Barred(c) /\ Count[c] # 0
    /\ Attempt(c)
    /\ UNCHANGED <<now, wired, cancelled, queueVars>>

Start(c) ==
    /\ stage[c] = "queued" /\ Turn(c)
    /\ \/ /\ Barred(c) \/ Aborted(c)
          /\ End(c, "aborted")
          /\ UNCHANGED <<validTill, failures, attempts, timer, events>>
       \/ /\ ~Barred(c) /\ ~Aborted(c) /\ Count[c] = 0
          /\ End(c, "refused")
          /\ UNCHANGED <<validTill, failures, attempts, timer, events>>
       \/ /\ ~Barred(c) /\ ~Aborted(c) /\ Count[c] # 0
          /\ Attempt(c)
    /\ UNCHANGED <<now, wired, cancelled, queueVars>>

\* ws.onopen: the request is sent and the events are read.
Connected(c) ==
    /\ stage[c] = "connecting"
    /\ stage' = [stage EXCEPT ![c] = "reading"]
    /\ UNCHANGED <<now, wired, cancelled, queueVars, socket, validTill, failures,
                   attempts, timer, events, outcome>>

\* ws.onerror or ws.onclose before the socket was open.
ConnectFails(c) ==
    /\ stage[c] = "connecting"
    /\ Failure(c)
    /\ UNCHANGED <<wired, cancelled, queueVars>>

\* Mutant of ConnectTimesOut: the option is not passed on, no timer is set.
ConnectTimesOutUnset(c) ==
    /\ stage[c] = "connecting" /\ now > Horizon
    /\ Failure(c)
    /\ UNCHANGED <<wired, cancelled, queueVars>>

\* connectionTimeoutMs passed.
ConnectTimesOut(c) ==
    /\ stage[c] = "connecting" /\ now >= timer[c]
    /\ Failure(c)
    /\ UNCHANGED <<wired, cancelled, queueVars>>

\* A signatures event with k signatures: none are ignored, too few or too
\* many are an error that is not retried.
Signatures(c, k) ==
    /\ stage[c] = "reading"
    /\ \/ /\ k = 0 /\ events[c] < MaxEvents
          /\ events' = [events EXCEPT ![c] = @ + 1]
          /\ UNCHANGED <<stage, socket, outcome>>
       \/ /\ k # 0
          /\ End(c, IF k = Count[c] THEN "signed" ELSE "refused")
          /\ UNCHANGED events
    /\ UNCHANGED <<now, wired, cancelled, queueVars, validTill, failures, attempts, timer>>

\* An error event, or a callback of the caller that throws.
ErrorEvent(c) ==
    /\ stage[c] = "reading"
    /\ End(c, "refused")
    /\ UNCHANGED <<now, wired, cancelled, queueVars, validTill, failures, attempts,
                   timer, events>>

\* A pending_transaction_approval event, with or without a deadline.
PendingApproval(c, raw) ==
    /\ stage[c] = "reading" /\ events[c] < MaxEvents
    /\ events' = [events EXCEPT ![c] = @ + 1]
    /\ validTill' = [validTill EXCEPT ![c] = ResolvedValidTill(raw, @)]
    /\ UNCHANGED <<now, wired, cancelled, queueVars, stage, socket, failures, attempts,
                   timer, outcome>>

\* The socket fails while events are read.
SocketFails(c) ==
    /\ stage[c] = "reading"
    /\ Failure(c)
    /\ UNCHANGED <<wired, cancelled, queueVars>>

\* The manager closes the socket without signatures: an error, or a step of
\* the polling when it waits for approvers.
SocketCloses(c) ==
    /\ stage[c] = "reading"
    /\ \/ /\ ~Waiting(c, now)
          /\ Failure(c)
       \/ /\ Waiting(c, now)
          /\ now' \in {now, At(now + 1)}
          /\ Pause(c, now', failures[c])
          /\ UNCHANGED <<validTill, failures, attempts, events>>
    /\ UNCHANGED <<wired, cancelled, queueVars>>

\* The pause between two attempts is over.
Wake(c) ==
    /\ stage[c] = "sleeping" /\ now >= timer[c]
    /\ Attempt(c)
    /\ UNCHANGED <<now, wired, cancelled, queueVars>>

\* The listeners of an aborted signal end the calls that run.
EndRunning(S) ==
    LET R == {c \in S : Running(c)}
    IN  /\ stage' = [c \in Calls |-> IF c \in R THEN "ended" ELSE stage[c]]
        /\ socket' = [c \in Calls |-> IF c \in R THEN FALSE ELSE socket[c]]
        /\ outcome' = [c \in Calls |-> IF c \in R THEN "aborted" ELSE outcome[c]]

\* The signal given to createTransactionManagerSigner aborts.
AbortSigner ==
    /\ ~wired
    /\ wired' = TRUE
    /\ signQueue' = Rejected
    /\ EndRunning(Calls)
    /\ UNCHANGED <<now, cancelled, issued, chained, validTill, failures, attempts,
                   timer, events>>

\* The signal given to one call of signTransactions aborts.
AbortCall(c) ==
    /\ c \notin cancelled
    /\ cancelled' = cancelled \cup {c}
    /\ EndRunning({c})
    /\ UNCHANGED <<now, wired, queueVars, validTill, failures, attempts, timer, events>>

Tick ==
    /\ now < Horizon
    /\ now' = now + 1
    /\ UNCHANGED <<wired, cancelled, queueVars, callVars>>

Next ==
    \/ \E c \in Calls :
          \/ SignTransactions(c) \/ Start(c)
          \/ Connected(c) \/ ConnectFails(c) \/ ConnectTimesOut(c)
          \/ \E k \in {0, Count[c], Count[c] + 1} : Signatures(c, k)
          \/ \E raw \in {NotPending} \cup 0..Horizon : PendingApproval(c, raw)
          \/ ErrorEvent(c) \/ SocketFails(c) \/ SocketCloses(c)
          \/ Wake(c) \/ AbortCall(c)
    \/ AbortSigner
    \/ Tick

\* Timers fire and promises settle; nothing is promised of the manager.
Fairness ==
    /\ WF_vars(Tick)
    /\ \A c \in Calls : WF_vars(Start(c)) /\ WF_vars(ConnectTimesOut(c)) /\ WF_vars(Wake(c))

Spec == Init /\ [][Next]_vars /\ Fairness

-----------------------------------------------------------------------------
TypeOK ==
    /\ now \in 0..Horizon
    /\ wired \in BOOLEAN
    /\ cancelled \subseteq Calls
    /\ issued \in Seq(Calls)
    /\ signQueue \in Calls \cup {Free, Rejected}
    /\ chained \in [Calls -> Calls \cup {Free, Rejected}]
    /\ stage \in [Calls -> {"idle", "queued", "connecting", "reading", "sleeping", "ended"}]
    /\ socket \in [Calls -> BOOLEAN]
    /\ validTill \in [Calls -> {NotPending} \cup 0..Horizon]
    /\ failures \in [Calls -> 0..MaxAttempts]
    /\ attempts \in [Calls -> Nat]
    /\ timer \in [Calls -> 0..Horizon]
    /\ events \in [Calls -> 0..MaxEvents]
    /\ outcome \in [Calls -> Outcomes \cup {"none"}]

\* However calls, failures and aborts interleave, calls are served one after
\* another: the manager sees them in the order they were made, nothing is sent
\* for a call before every earlier one is settled (the signQueue chain), and a
\* call that is settled, pausing or waiting for its turn holds no socket.
ServedInOrder ==
    /\ \A i, j \in DOMAIN issued :
          i < j /\ attempts[issued[j]] > 0 => Ended(issued[i])
    /\ \A c \in Calls : socket[c] =>
          /\ stage[c] \in {"connecting", "reading"}
          /\ \A d \in Calls \ {c} : ~Running(d)

\* A call is given up as failed only when its budget is used up, or when the
\* approvers' deadline passed while the socket was closing; before that deadline
\* no number of lost connections ends it.
GivenUpLate ==
    [][\A c \in Calls : outcome'[c] = "failed" /\ outcome[c] # "failed" =>
          /\ failures'[c] = MaxAttempts \/ Expired(c, now')
          /\ ~Waiting(c, now')]_vars

\* Once the signal of a call or of its signer aborted, nothing is sent for it
\* any more, and it can only end as aborted.
AbortStops ==
    [][\A c \in Calls : Aborted(c) =>
          /\ attempts'[c] = attempts[c]
          /\ outcome'[c] \in {outcome[c], "aborted"}]_vars

\* Every call ends, unless the manager holds a socket open in silence for
\* ever: reading has no time limit of its own, the approval deadline is looked
\* at between attempts only.
EndsUnlessSilent ==
    \A c \in Calls : [](stage[c] # "idle" => <>Ended(c))
                     \/ <>[](\E d \in Calls : stage[d] = "reading")

\* The promise that callers rely on: answers in order, an abort only for a cause
\* (the signer's signal, the call's own, or that of a call made before it, whose
\* rejection the queue passes on), and after the signer's signal every call ends,
\* one on a silent socket included.
Promise == INSTANCE SigningPromise
KeepsSigningPromise == Promise!Spec
=============================================================================
