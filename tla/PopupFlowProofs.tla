--------------------------- MODULE PopupFlowProofs ---------------------------
(***************************************************************************)
(* Proofs about PopupFlow, for any number of flows of one provider: each   *)
(* flow closes its own popup only, answers its caller once and truthfully, *)
(* submits once, and tells work that outlives its caller to stop.          *)
(*                                                                         *)
(* Callbacks end in one of two ways: the state of the flow becomes another *)
(* one (Becomes), or it is torn down (Teardown).  The invariant speaks of  *)
(* one flow at a time, and of whose window the provider holds.             *)
(***************************************************************************)
EXTENDS PopupFlow, TLAPS

\* A flow without its transport has done nothing yet.
Fresh(x) ==
  /\ x.phase = "connecting" /\ x.outcome = "pending" /\ ~x.toreDown /\ ~x.port
  /\ x.timers = {} /\ x.request = "none" /\ x.work = "none" /\ x.submissions = 0
  /\ x.shown = "nothing"

\* The request comes before the approval, the approval before the work, and the
\* work before the answer.  It holds in the middle of callbacks as well.
Orderly(x) ==
  /\ x.request = "running" => x.phase = "connecting"
  /\ x.phase \in {"connecting", "awaiting"} => x.submissions = 0 /\ x.work = "none"
  /\ x.submissions <= 1
  /\ x.shown = "ok" <=> x.outcome = "resolved"
  /\ x.shown = "ok" => x.work = "succeeded"
  /\ x.work = "running" /\ x.outcome = "rejected" => x.workAborted

\* Between callbacks: who answered is torn down, or has a timer for that.
Good(x) ==
  /\ x.stage # "attached" => Fresh(x)
  /\ Orderly(x)
  /\ x.toreDown => Settled(x) /\ x.timers = {} /\ ~x.port /\ x.window = "closed"
  /\ Settled(x) => x.toreDown \/ "result" \in x.timers
  /\ "result" \in x.timers => Settled(x) /\ x.phase = "result"
  /\ ~x.port /\ ~x.toreDown => x.phase = "connecting" /\ x.request = "none"

Holds(f, x) == x.stage # "idle" /\ ~x.toreDown

IInv ==
  /\ TypeOK
  /\ \A f \in Flows : Good(flow[f])
  /\ \A f \in Flows : popUp = f <=> Holds(f, flow[f])

-----------------------------------------------------------------------------
(* The two ways in which a callback ends.                                  *)

LEMMA FlowsAreGood ==
  ASSUME IInv, NEW f \in Flows
  PROVE  flow[f] \in Flow /\ Good(flow[f])
BY DEF IInv, TypeOK

LEMMA BecomesPreserves ==
  ASSUME IInv, NEW f \in Flows, NEW x \in Flow, Good(x), Becomes(f, x),
         Holds(f, x) <=> Holds(f, flow[f])
  PROVE  IInv'
<1>1. flow \in [Flows -> Flow] /\ popUp \in Flows \cup {NoFlow}
  BY DEF IInv, TypeOK
<1>2. flow' = [flow EXCEPT ![f] = x] /\ popUp' = popUp
  BY DEF Becomes
<1>3. TypeOK'
  BY <1>1, <1>2 DEF TypeOK
<1>4. \A g \in Flows : flow'[g] = IF g = f THEN x ELSE flow[g]
  BY <1>1, <1>2
<1>5. \A g \in Flows : Good(flow'[g])
  BY <1>4 DEF IInv
<1>6. \A g \in Flows : popUp' = g <=> Holds(g, flow'[g])
  BY <1>2, <1>4 DEF IInv, Holds
<1> QED BY <1>3, <1>5, <1>6 DEF IInv

Closed(x) ==
  [x EXCEPT !.toreDown = TRUE, !.port = FALSE, !.timers = {}, !.window = "closed"]

\* A flow torn down is good when it was orderly and answered its caller.
LEMMA ClosedIsGood ==
  ASSUME NEW x \in Flow, Orderly(x), Settled(x), x.stage = "attached"
  PROVE  Closed(x) \in Flow /\ Good(Closed(x))
<1> DEFINE y == Closed(x)
<1>1. y \in Flow
  BY DEF Closed, Flow
<1>2. /\ y.stage = x.stage /\ y.phase = x.phase /\ y.outcome = x.outcome
      /\ y.request = x.request /\ y.work = x.work /\ y.submissions = x.submissions
      /\ y.workAborted = x.workAborted /\ y.shown = x.shown
      /\ y.toreDown = TRUE /\ y.port = FALSE /\ y.timers = {} /\ y.window = "closed"
  BY DEF Closed, Flow
<1> HIDE DEF y
<1>3. Good(y)
  BY <1>2 DEF Good, Orderly, Settled
<1> QED BY <1>1, <1>3 DEF y

\* Only the flow's own window closes, and the provider is free.
LEMMA TeardownPreserves ==
  ASSUME IInv, NEW f \in Flows, NEW x \in Flow, Teardown(f, x),
         x.stage = "attached", flow[f].stage = "attached",
         x.toreDown = flow[f].toreDown, Orderly(x), Settled(x), x.toreDown => Good(x)
  PROVE  IInv'
<1>1. flow \in [Flows -> Flow] /\ popUp \in Flows \cup {NoFlow}
  BY DEF IInv, TypeOK
<1>2. CASE x.toreDown
  <2>1. Becomes(f, x)
    BY <1>2 DEF Teardown, Becomes
  <2>2. Holds(f, x) <=> Holds(f, flow[f])
    BY DEF Holds
  <2> QED BY <1>2, <2>1, <2>2, BecomesPreserves
<1>3. CASE ~x.toreDown
  <2>1. popUp = f
    BY <1>3 DEF IInv, Holds
  <2>2. popUp' = NoFlow /\ \A g \in Flows : flow'[g] = IF g = f THEN Closed(x) ELSE flow[g]
    BY <1>3, <2>1 DEF Teardown, Closed
  <2>3. flow' = [g \in Flows |-> IF g = f THEN Closed(x) ELSE flow[g]]
    BY <1>3, <2>1 DEF Teardown, Closed
  <2>4. Closed(x) \in Flow /\ Good(Closed(x)) /\ Closed(x).toreDown
    <3>1. Closed(x).toreDown
      BY DEF Closed, Flow
    <3>2. Closed(x) \in Flow /\ Good(Closed(x))
      BY ClosedIsGood, Zenon
    <3> QED BY <3>1, <3>2, Zenon
  <2>5. TypeOK'
    BY <1>1, <2>2, <2>3, <2>4 DEF TypeOK
  <2>6. \A g \in Flows : Good(flow'[g])
    BY <2>2, <2>4 DEF IInv
  <2>7. \A g \in Flows : popUp' = g <=> Holds(g, flow'[g])
    BY <2>1, <2>2, <2>4, FlowsAssumption DEF IInv, Holds
  <2> QED BY <2>5, <2>6, <2>7 DEF IInv
<1> QED BY <1>2, <1>3

\* finishWithError: the work in flight is told, then the caller.
LEMMA ErrorPreserves ==
  ASSUME IInv, NEW f \in Flows, NEW x \in Flow, FinishWithError(f, x),
         x.stage = "attached", flow[f].stage = "attached",
         x.toreDown = flow[f].toreDown, Orderly(x), x.toreDown => Good(x)
  PROVE  IInv'
<1> DEFINE y == Settle(AbortWork(x), "rejected")
<1>1. y \in Flow
  <2> DEFINE told == x.workAborted \/ x.work # "none"
  <2>1. AbortWork(x) = [x EXCEPT !.workAborted = told]
    BY DEF AbortWork
  <2>2. told \in BOOLEAN
    OBVIOUS
  <2> HIDE DEF told
  <2>3. AbortWork(x) \in Flow
    BY <2>1, <2>2 DEF Flow
  <2>4. [AbortWork(x) EXCEPT !.outcome = "rejected"] \in Flow
    BY <2>3 DEF Flow
  <2> QED BY <2>3, <2>4 DEF Settle
<1>2. /\ y.stage = x.stage /\ y.phase = x.phase /\ y.request = x.request
      /\ y.work = x.work /\ y.submissions = x.submissions /\ y.shown = x.shown
      /\ y.toreDown = x.toreDown /\ y.port = x.port /\ y.timers = x.timers
      /\ y.window = x.window
      /\ y.workAborted = (x.workAborted \/ x.work # "none")
      /\ y.outcome = IF x.outcome = "pending" THEN "rejected" ELSE x.outcome
  BY DEF Settle, AbortWork, Settled, Flow
<1>3. Teardown(f, y)
  BY DEF FinishWithError
<1> HIDE DEF y
<1>4. Orderly(y) /\ Settled(y)
  BY <1>2 DEF Orderly, Settled
<1>5. y.toreDown => Good(y)
  BY <1>2, <1>4 DEF Good, Settled, Orderly
<1> QED BY <1>1, <1>2, <1>3, <1>4, <1>5, TeardownPreserves

\* handlePopupClosed: a caller that has its answer is not told again.
LEMMA PopupClosedPreserves ==
  ASSUME IInv, NEW f \in Flows, HandlePopupClosed(f, flow[f]), flow[f].stage = "attached"
  PROVE  IInv'
<1>1. flow[f] \in Flow /\ Good(flow[f]) /\ Orderly(flow[f])
  BY FlowsAreGood DEF Good
<1>2. CASE Settled(flow[f])
  <2>1. Teardown(f, flow[f])
    BY <1>2 DEF HandlePopupClosed
  <2> QED BY <1>1, <1>2, <2>1, TeardownPreserves
<1>3. CASE ~Settled(flow[f])
  <2>1. FinishWithError(f, flow[f])
    BY <1>3 DEF HandlePopupClosed, FinishWithError
  <2> QED BY <1>1, <2>1, ErrorPreserves
<1> QED BY <1>2, <1>3

-----------------------------------------------------------------------------
(* The callbacks.                                                          *)

LEMMA InitGood == Init => IInv
<1> SUFFICES ASSUME Init PROVE IInv
  OBVIOUS
<1>1. TypeOK
  <2> DEFINE x == [stage |-> "idle", window |-> "none", phase |-> "connecting",
                   outcome |-> "pending", toreDown |-> FALSE, port |-> FALSE,
                   timers |-> {}, missed |-> 0, request |-> "none", work |-> "none",
                   submissions |-> 0, workAborted |-> FALSE, shown |-> "nothing",
                   aborted |-> FALSE]
  <2>1. {} \in SUBSET Timer /\ 0 \in 0..MaxMissed /\ 0 \in 0..2
    BY DEF MaxMissed
  <2>2. x \in Flow
    BY <2>1 DEF Flow
  <2>3. flow = [f \in Flows |-> x]
    BY DEF Init
  <2> HIDE DEF x
  <2> QED BY <2>2, <2>3 DEF Init, TypeOK
<1>2. \A f \in Flows : Fresh(flow[f]) /\ flow[f].stage = "idle"
  BY DEF Init, Fresh
<1>3. ASSUME NEW f \in Flows PROVE Good(flow[f]) /\ ~Holds(f, flow[f])
  <2>1. Fresh(flow[f]) /\ flow[f].stage = "idle"
    BY <1>2
  <2>2. Orderly(flow[f])
    BY <2>1 DEF Fresh, Orderly
  <2> QED BY <2>1, <2>2 DEF Fresh, Good, Settled, Holds
<1>4. \A f \in Flows : popUp # f
  BY FlowsAssumption DEF Init
<1> QED BY <1>1, <1>3, <1>4 DEF IInv

\* The only step that gives the provider a popup is one where it has none.
LEMMA SendPreserves ==
  ASSUME IInv, NEW f \in Flows, SendRequest(f)
  PROVE  IInv'
<1> DEFINE x == [flow[f] EXCEPT !.stage = "opened", !.window = "open"]
<1>1. flow \in [Flows -> Flow] /\ flow[f] \in Flow /\ Good(flow[f])
  BY FlowsAreGood DEF IInv, TypeOK
<1>2. popUp = NoFlow /\ popUp' = f /\ flow[f].stage = "idle" /\ flow' = [flow EXCEPT ![f] = x]
  BY <1>1 DEF SendRequest
<1>3. x \in Flow
  BY <1>1 DEF Flow
<1>4. /\ x.stage = "opened" /\ x.phase = flow[f].phase /\ x.outcome = flow[f].outcome
      /\ x.toreDown = flow[f].toreDown /\ x.port = flow[f].port
      /\ x.timers = flow[f].timers /\ x.request = flow[f].request
      /\ x.work = flow[f].work /\ x.submissions = flow[f].submissions
      /\ x.shown = flow[f].shown
  BY <1>1 DEF Flow
<1> HIDE DEF x
<1>5. Fresh(x)
  BY <1>1, <1>2, <1>4 DEF Good, Fresh
<1>6. Good(x) /\ Holds(f, x)
  BY <1>4, <1>5 DEF Fresh, Good, Orderly, Settled, Holds
<1>7. \A g \in Flows : flow'[g] = IF g = f THEN x ELSE flow[g]
  BY <1>1, <1>2
<1>8. TypeOK'
  BY <1>1, <1>2, <1>3 DEF TypeOK
<1>9. \A g \in Flows : Good(flow'[g])
  BY <1>6, <1>7 DEF IInv
<1>10. \A g \in Flows : popUp' = g <=> Holds(g, flow'[g])
  BY <1>2, <1>6, <1>7, FlowsAssumption DEF IInv, Holds
<1> QED BY <1>8, <1>9, <1>10 DEF IInv

\* Whoever has a timer or a port, or waits for the request, has its transport.
LEMMA HasTransport ==
  ASSUME IInv, NEW f \in Flows,
         \/ flow[f].timers # {} \/ flow[f].port
         \/ flow[f].request # "none" \/ flow[f].work # "none"
  PROVE  flow[f].stage = "attached"
BY FlowsAreGood DEF Good, Fresh

\* The listener tears the flow down only while it is attached.
LEMMA AbortPreserves ==
  ASSUME IInv, NEW f \in Flows, Abort(f)
  PROVE  IInv'
<1> DEFINE x == [flow[f] EXCEPT !.aborted = TRUE]
<1>1. flow[f] \in Flow /\ Good(flow[f])
  BY FlowsAreGood
<1>2. x \in Flow
  BY <1>1 DEF Flow
<1>3. /\ x.stage = flow[f].stage /\ x.phase = flow[f].phase /\ x.outcome = flow[f].outcome
      /\ x.toreDown = flow[f].toreDown /\ x.port = flow[f].port
      /\ x.timers = flow[f].timers /\ x.request = flow[f].request
      /\ x.work = flow[f].work /\ x.submissions = flow[f].submissions
      /\ x.shown = flow[f].shown /\ x.workAborted = flow[f].workAborted
      /\ x.window = flow[f].window
  BY <1>1 DEF Flow
<1>4. \/ Attached(f) /\ FinishWithError(f, x)
      \/ Becomes(f, x)
  BY DEF Abort
<1> HIDE DEF x
<1>5. Good(x)
  BY <1>1, <1>3 DEF Good, Fresh, Orderly, Settled
<1> QED BY <1>2, <1>3, <1>4, <1>5, BecomesPreserves, ErrorPreserves
        DEF Holds, Attached, Good

LEMMA CloseWindowPreserves ==
  ASSUME IInv, NEW f \in Flows, CloseWindow(f)
  PROVE  IInv'
<1> DEFINE x == [flow[f] EXCEPT !.window = "closed"]
<1>1. flow[f] \in Flow /\ Good(flow[f])
  BY FlowsAreGood
<1>2. x \in Flow
  BY <1>1 DEF Flow
<1>3. /\ x.stage = flow[f].stage /\ x.phase = flow[f].phase /\ x.outcome = flow[f].outcome
      /\ x.toreDown = flow[f].toreDown /\ x.port = flow[f].port
      /\ x.timers = flow[f].timers /\ x.request = flow[f].request
      /\ x.work = flow[f].work /\ x.submissions = flow[f].submissions
      /\ x.shown = flow[f].shown /\ x.workAborted = flow[f].workAborted
      /\ x.window = "closed"
  BY <1>1 DEF Flow
<1>4. Becomes(f, x)
  BY DEF CloseWindow
<1> HIDE DEF x
<1>5. Good(x)
  BY <1>1, <1>3 DEF Good, Fresh, Orderly, Settled
<1> QED BY <1>2, <1>3, <1>4, <1>5, BecomesPreserves DEF Holds

LEMMA AttachPreserves ==
  ASSUME IInv, NEW f \in Flows, AttachTransport(f)
  PROVE  IInv'
<1> DEFINE x == [Armed(flow[f], "connect") EXCEPT !.stage = "attached"]
<1>1. flow[f] \in Flow /\ Good(flow[f]) /\ flow[f].stage = "opened"
  BY FlowsAreGood DEF AttachTransport
<1>2. x \in Flow
  BY <1>1 DEF Armed, Flow, Timer
<1>3. /\ x.stage = "attached" /\ x.phase = flow[f].phase /\ x.outcome = flow[f].outcome
      /\ x.toreDown = flow[f].toreDown /\ x.port = flow[f].port
      /\ x.timers = flow[f].timers \cup {"connect"} /\ x.request = flow[f].request
      /\ x.work = flow[f].work /\ x.submissions = flow[f].submissions
      /\ x.shown = flow[f].shown
  BY <1>1 DEF Armed, Flow
<1>4. Becomes(f, x)
  BY DEF AttachTransport
<1> HIDE DEF x
<1>5. Fresh(flow[f])
  BY <1>1 DEF Good
<1>6. Good(x)
  BY <1>3, <1>5 DEF Good, Fresh, Orderly, Settled
<1> QED BY <1>1, <1>2, <1>3, <1>4, <1>6, BecomesPreserves DEF Holds

\* A timer that fires is no longer armed; a flow torn down has none.
LEMMA ClearedFacts ==
  ASSUME IInv, NEW f \in Flows, NEW timer \in Timer, Fires(f, timer)
  PROVE  LET x == Cleared(flow[f], timer)
         IN  /\ x \in Flow /\ Orderly(x) /\ ~x.toreDown
             /\ x.stage = "attached" /\ flow[f].stage = "attached"
             /\ x.toreDown = flow[f].toreDown
             /\ x.phase = flow[f].phase /\ x.outcome = flow[f].outcome
             /\ timer # "result" => Good(x)
             /\ timer = "result" => Settled(x)
<1> DEFINE x == Cleared(flow[f], timer)
<1>1. flow[f] \in Flow /\ Good(flow[f]) /\ timer \in flow[f].timers
  BY FlowsAreGood DEF Fires
<1>2. flow[f].stage = "attached" /\ ~flow[f].toreDown
  BY <1>1 DEF Good, Fresh
<1>3. x \in Flow
  BY <1>1 DEF Cleared, Flow
<1>4. /\ x.stage = flow[f].stage /\ x.phase = flow[f].phase /\ x.outcome = flow[f].outcome
      /\ x.toreDown = flow[f].toreDown /\ x.port = flow[f].port
      /\ x.timers = flow[f].timers \ {timer} /\ x.request = flow[f].request
      /\ x.work = flow[f].work /\ x.submissions = flow[f].submissions
      /\ x.shown = flow[f].shown /\ x.workAborted = flow[f].workAborted
      /\ x.window = flow[f].window
  BY <1>1 DEF Cleared, Flow
<1> HIDE DEF x
<1>5. Orderly(x)
  BY <1>1, <1>4 DEF Good, Orderly
<1>6. timer # "result" => Good(x)
  BY <1>1, <1>2, <1>4, <1>5 DEF Good, Settled
<1>7. timer = "result" => Settled(x)
  BY <1>1, <1>4 DEF Good, Settled
<1> QED BY <1>2, <1>3, <1>4, <1>5, <1>6, <1>7 DEF x

LEMMA TimersPreserve ==
  ASSUME IInv, NEW f \in Flows,
         ConnectExpires(f) \/ Heartbeat(f) \/ RequestExpires(f) \/ ResultExpires(f)
  PROVE  IInv'
<1>1. {"connect", "heartbeat", "request", "result"} \subseteq Timer
  BY DEF Timer
<1>2. CASE ConnectExpires(f)
  <2>1. Fires(f, "connect") /\ FinishWithError(f, Cleared(flow[f], "connect"))
    BY <1>2 DEF ConnectExpires
  <2> QED BY <1>1, <2>1, ClearedFacts, ErrorPreserves
<1>3. CASE Heartbeat(f)
  <2>1. flow[f].stage = "attached"
    BY <1>3, HasTransport DEF Heartbeat, Fires
  <2>2. CASE HandlePopupClosed(f, flow[f])
    BY <2>1, <2>2, PopupClosedPreserves
  <2>3. CASE flow[f].missed < MaxMissed
             /\ Becomes(f, [flow[f] EXCEPT !.missed = @ + 1])
    <3> DEFINE x == [flow[f] EXCEPT !.missed = @ + 1]
    <3>1. flow[f] \in Flow /\ Good(flow[f])
      BY FlowsAreGood
    <3>2. x \in Flow
      BY <2>3, <3>1 DEF Flow, MaxMissed
    <3>3. /\ x.stage = flow[f].stage /\ x.phase = flow[f].phase
          /\ x.outcome = flow[f].outcome /\ x.toreDown = flow[f].toreDown
          /\ x.port = flow[f].port /\ x.timers = flow[f].timers
          /\ x.request = flow[f].request /\ x.work = flow[f].work
          /\ x.submissions = flow[f].submissions /\ x.shown = flow[f].shown
          /\ x.workAborted = flow[f].workAborted /\ x.window = flow[f].window
      BY <3>1 DEF Flow
    <3>4. Becomes(f, x)
      BY <2>3
    <3> HIDE DEF x
    <3>5. Good(x)
      BY <3>1, <3>3 DEF Good, Fresh, Orderly, Settled
    <3> QED BY <3>2, <3>3, <3>4, <3>5, BecomesPreserves DEF Holds
  <2> QED BY <1>3, <2>2, <2>3 DEF Heartbeat
<1>4. CASE RequestExpires(f)
  <2> DEFINE x == Cleared(flow[f], "request")
  <2>1. Fires(f, "request") /\ (FinishWithError(f, x) \/ Becomes(f, x))
    BY <1>4 DEF RequestExpires
  <2>2. /\ x \in Flow /\ Orderly(x) /\ ~x.toreDown /\ Good(x)
        /\ x.stage = "attached" /\ flow[f].stage = "attached"
        /\ x.toreDown = flow[f].toreDown
    BY <1>1, <2>1, ClearedFacts
  <2> HIDE DEF x
  <2>3. Holds(f, x) <=> Holds(f, flow[f])
    BY <2>2 DEF Holds
  <2> QED BY <2>1, <2>2, <2>3, ErrorPreserves, BecomesPreserves
<1>5. CASE ResultExpires(f)
  <2>1. Fires(f, "result") /\ Teardown(f, Cleared(flow[f], "result"))
    BY <1>5 DEF ResultExpires
  <2> QED BY <1>1, <2>1, ClearedFacts, TeardownPreserves
<1> QED BY <1>2, <1>3, <1>4, <1>5

-----------------------------------------------------------------------------
(* The messages of the popup, and the callbacks of the client.             *)

LEMMA ConnectPreserves ==
  ASSUME IInv, NEW f \in Flows, Connect(f)
  PROVE  IInv'
<1> DEFINE c == Armed(Cleared(flow[f], "connect"), "heartbeat")
           x == [c EXCEPT !.port = TRUE, !.missed = 0]
           y == [x EXCEPT !.request = "running"]
<1>1. /\ flow[f] \in Flow /\ Good(flow[f]) /\ flow[f].stage = "attached"
      /\ ~flow[f].toreDown /\ ~flow[f].port
  BY FlowsAreGood DEF Connect, Attached
<1>2. c \in Flow
  BY <1>1 DEF Cleared, Armed, Flow, Timer
<1>3. 0 \in 0..MaxMissed
  BY DEF MaxMissed
<1>4. x \in Flow /\ y \in Flow
  BY <1>2, <1>3 DEF Flow
<1>5. /\ x.stage = "attached" /\ x.phase = flow[f].phase /\ x.outcome = flow[f].outcome
      /\ x.toreDown = flow[f].toreDown /\ x.port = TRUE
      /\ x.timers = (flow[f].timers \ {"connect"}) \cup {"heartbeat"}
      /\ x.request = flow[f].request /\ x.work = flow[f].work
      /\ x.submissions = flow[f].submissions /\ x.shown = flow[f].shown
      /\ x.workAborted = flow[f].workAborted
  BY <1>1 DEF Cleared, Armed, Flow
<1>6. /\ y.stage = x.stage /\ y.phase = x.phase /\ y.outcome = x.outcome
      /\ y.toreDown = x.toreDown /\ y.port = x.port /\ y.timers = x.timers
      /\ y.request = "running" /\ y.work = x.work /\ y.submissions = x.submissions
      /\ y.shown = x.shown /\ y.workAborted = x.workAborted
  BY <1>4 DEF Flow
<1>7. FinishWithError(f, x) \/ Becomes(f, y)
  BY DEF Connect
<1> HIDE DEF c, x, y
<1>8. Orderly(x)
  BY <1>1, <1>5 DEF Good, Orderly
<1>9. Good(y)
  <2>1. Orderly(y)
    BY <1>1, <1>5, <1>6, <1>8 DEF Good, Orderly
  <2> QED BY <1>1, <1>5, <1>6, <2>1 DEF Good, Settled
<1>10. Holds(f, y) <=> Holds(f, flow[f])
  BY <1>1, <1>5, <1>6 DEF Holds
<1> QED BY <1>1, <1>4, <1>5, <1>7, <1>8, <1>9, <1>10, ErrorPreserves, BecomesPreserves

LEMMA PongPreserves ==
  ASSUME IInv, NEW f \in Flows, Pong(f)
  PROVE  IInv'
<1> DEFINE x == [flow[f] EXCEPT !.missed = 0]
<1>1. flow[f] \in Flow /\ Good(flow[f])
  BY FlowsAreGood
<1>2. 0 \in 0..MaxMissed
  BY DEF MaxMissed
<1>3. x \in Flow
  BY <1>1, <1>2 DEF Flow
<1>4. /\ x.stage = flow[f].stage /\ x.phase = flow[f].phase /\ x.outcome = flow[f].outcome
      /\ x.toreDown = flow[f].toreDown /\ x.port = flow[f].port
      /\ x.timers = flow[f].timers /\ x.request = flow[f].request
      /\ x.work = flow[f].work /\ x.submissions = flow[f].submissions
      /\ x.shown = flow[f].shown /\ x.workAborted = flow[f].workAborted
      /\ x.window = flow[f].window
  BY <1>1 DEF Flow
<1>5. Becomes(f, x)
  BY DEF Pong
<1> HIDE DEF x
<1>6. Good(x)
  BY <1>1, <1>4 DEF Good, Fresh, Orderly, Settled
<1> QED BY <1>3, <1>4, <1>5, <1>6, BecomesPreserves DEF Holds

\* The approval is taken in one phase only, and leaves that phase.
LEMMA CompletePreserves ==
  ASSUME IInv, NEW f \in Flows, NEW valid \in BOOLEAN, PopupComplete(f, valid)
  PROVE  IInv'
<1> DEFINE x == Submitted(flow[f])
<1>1. /\ flow[f] \in Flow /\ Good(flow[f]) /\ flow[f].port
      /\ flow[f].phase = "awaiting"
  BY FlowsAreGood DEF PopupComplete
<1>2. flow[f].stage = "attached" /\ ~flow[f].toreDown /\ ~Settled(flow[f])
  BY <1>1 DEF Good, Fresh
<1>3. Orderly(flow[f]) /\ flow[f].submissions = 0 /\ flow[f].work = "none"
  BY <1>1 DEF Good, Orderly
<1>4. CASE FinishWithError(f, flow[f])
  BY <1>1, <1>2, <1>3, <1>4, ErrorPreserves
<1>5. CASE Becomes(f, x)
  <2>1. flow[f].submissions + 1 \in 0..2
    BY <1>3
  <2>2. x \in Flow
    BY <1>1, <2>1 DEF Submitted, Cleared, Flow
  <2>3. /\ x.stage = flow[f].stage /\ x.phase = "processing"
        /\ x.outcome = flow[f].outcome /\ x.toreDown = flow[f].toreDown
        /\ x.port = flow[f].port /\ x.timers = flow[f].timers \ {"request"}
        /\ x.request = flow[f].request /\ x.work = "running"
        /\ x.submissions = flow[f].submissions + 1 /\ x.shown = flow[f].shown
    BY <1>1 DEF Submitted, Cleared, Flow
  <2> HIDE DEF x
  <2>4. Orderly(x)
    BY <1>1, <1>2, <1>3, <2>3 DEF Orderly, Settled
  <2>5. Good(x)
    BY <1>1, <1>2, <2>3, <2>4 DEF Good, Settled
  <2> QED BY <1>5, <2>2, <2>3, <2>5, BecomesPreserves DEF Holds
<1> QED BY <1>4, <1>5 DEF PopupComplete

LEMMA MessagesPreserve ==
  ASSUME IInv, NEW f \in Flows, PopupFailed(f) \/ PopupClosed(f)
  PROVE  IInv'
<1>1. flow[f] \in Flow /\ Good(flow[f]) /\ Orderly(flow[f])
  BY FlowsAreGood DEF Good
<1>2. flow[f].stage = "attached"
  BY HasTransport DEF PopupFailed, PopupClosed
<1> QED BY <1>1, <1>2, ErrorPreserves, PopupClosedPreserves DEF PopupFailed, PopupClosed

\* The request reaches a flow that is still there, or nobody.
LEMMA RequestPreserves ==
  ASSUME IInv, NEW f \in Flows, RequestReady(f) \/ RequestFails(f)
  PROVE  IInv'
<1> DEFINE x == [flow[f] EXCEPT !.request = "done"]
           y == [Armed(x, "request") EXCEPT !.phase = "awaiting"]
<1>1. flow[f] \in Flow /\ Good(flow[f]) /\ flow[f].request = "running"
  BY FlowsAreGood DEF RequestReady, RequestFails
<1>2. flow[f].stage = "attached"
  BY <1>1, HasTransport
<1>3. x \in Flow /\ y \in Flow
  BY <1>1 DEF Armed, Flow, Timer
<1>4. /\ x.stage = flow[f].stage /\ x.phase = flow[f].phase /\ x.outcome = flow[f].outcome
      /\ x.toreDown = flow[f].toreDown /\ x.port = flow[f].port
      /\ x.timers = flow[f].timers /\ x.request = "done"
      /\ x.work = flow[f].work /\ x.submissions = flow[f].submissions
      /\ x.shown = flow[f].shown /\ x.workAborted = flow[f].workAborted
      /\ x.window = flow[f].window
  BY <1>1 DEF Flow
<1>5. /\ y.stage = x.stage /\ y.phase = "awaiting" /\ y.outcome = x.outcome
      /\ y.toreDown = x.toreDown /\ y.port = x.port
      /\ y.timers = x.timers \cup {"request"} /\ y.request = x.request
      /\ y.work = x.work /\ y.submissions = x.submissions
      /\ y.shown = x.shown /\ y.workAborted = x.workAborted
  BY <1>3 DEF Armed, Flow
<1>6. \/ Becomes(f, x)
      \/ ~x.toreDown /\ ~Settled(x) /\ x.port /\ Becomes(f, y)
      \/ FinishWithError(f, x)
  BY DEF RequestReady, RequestFails
<1> HIDE DEF x, y
<1>7. Good(x) /\ Orderly(x)
  BY <1>1, <1>2, <1>4 DEF Good, Orderly, Settled
<1>8. CASE Becomes(f, x)
  BY <1>3, <1>4, <1>7, <1>8, BecomesPreserves DEF Holds
<1>9. CASE ~x.toreDown /\ ~Settled(x) /\ x.port /\ Becomes(f, y)
  <2>1. flow[f].submissions = 0 /\ flow[f].work = "none"
    BY <1>1 DEF Good, Orderly
  <2>2. Orderly(y)
    BY <1>4, <1>5, <1>7, <2>1 DEF Orderly
  <2>3. Good(y)
    BY <1>2, <1>4, <1>5, <1>7, <1>9, <2>2 DEF Good, Settled
  <2> QED BY <1>3, <1>4, <1>5, <1>9, <2>3, BecomesPreserves DEF Holds
<1>10. CASE FinishWithError(f, x)
  BY <1>2, <1>3, <1>4, <1>7, <1>10, ErrorPreserves
<1> QED BY <1>6, <1>8, <1>9, <1>10

\* The result of the work is the answer, unless there was one.
LEMMA WorkPreserves ==
  ASSUME IInv, NEW f \in Flows, WorkSucceeds(f) \/ WorkFails(f)
  PROVE  IInv'
<1>1. flow[f] \in Flow /\ Good(flow[f]) /\ flow[f].work = "running"
  BY FlowsAreGood DEF WorkSucceeds, WorkFails
<1>2. flow[f].stage = "attached"
  BY <1>1, HasTransport
<1>3. ASSUME NEW work \in {"succeeded", "failed"},
             Becomes(f, Answered([flow[f] EXCEPT !.work = work],
                                 IF work = "succeeded" THEN "ok" ELSE "error",
                                 IF work = "succeeded" THEN "resolved" ELSE "rejected"))
      PROVE  IInv'
  <2> DEFINE x == [flow[f] EXCEPT !.work = work]
             shown == IF work = "succeeded" THEN "ok" ELSE "error"
             outcome == IF work = "succeeded" THEN "resolved" ELSE "rejected"
             y == [Armed([x EXCEPT !.outcome = outcome], "result")
                     EXCEPT !.phase = "result", !.shown = shown]
  <2>1. x \in Flow /\ y \in Flow
    <3>1. /\ shown \in {"nothing", "ok", "error"}
          /\ outcome \in {"pending", "resolved", "rejected"}
      OBVIOUS
    <3>2. x \in Flow
      BY <1>1 DEF Flow
    <3> HIDE DEF shown, outcome, x
    <3>3. [x EXCEPT !.outcome = outcome] \in Flow
      BY <3>1, <3>2 DEF Flow
    <3>4. Armed([x EXCEPT !.outcome = outcome], "result") \in Flow
      BY <3>3 DEF Armed, Flow, Timer
    <3>5. ASSUME NEW a \in Flow
          PROVE  [a EXCEPT !.phase = "result", !.shown = shown] \in Flow
      <4>1. [a EXCEPT !.phase = "result"] \in Flow
        BY DEF Flow
      <4>2. ASSUME NEW b \in Flow, NEW s \in {"nothing", "ok", "error"}
            PROVE  [b EXCEPT !.shown = s] \in Flow
        BY DEF Flow
      <4> QED BY <3>1, <4>1, <4>2
    <3> QED BY <3>2, <3>4, <3>5
  <2>2. /\ x.stage = flow[f].stage /\ x.phase = flow[f].phase /\ x.outcome = flow[f].outcome
        /\ x.toreDown = flow[f].toreDown /\ x.port = flow[f].port
        /\ x.timers = flow[f].timers /\ x.request = flow[f].request
        /\ x.work = work /\ x.submissions = flow[f].submissions
        /\ x.shown = flow[f].shown /\ x.workAborted = flow[f].workAborted
        /\ x.window = flow[f].window
    BY <1>1 DEF Flow
  <2>3. /\ y.stage = x.stage /\ y.phase = "result" /\ y.outcome = outcome
        /\ y.toreDown = x.toreDown /\ y.port = x.port
        /\ y.timers = x.timers \cup {"result"} /\ y.request = x.request
        /\ y.work = x.work /\ y.submissions = x.submissions /\ y.shown = shown
        /\ y.window = x.window
    <3> HIDE DEF shown, outcome, x
    <3> QED BY <2>1 DEF Armed, Flow
  <2>4. IF Settled(x) THEN Becomes(f, x) ELSE Becomes(f, y)
    <3>1. Becomes(f, Answered(x, shown, outcome))
      BY <1>3
    <3>2. ~Settled(x) => Answered(x, shown, outcome) = y
      BY DEF Answered, Settle
    <3>3. Settled(x) => Answered(x, shown, outcome) = x
      BY DEF Answered
    <3> QED BY <3>1, <3>2, <3>3
  <2> HIDE DEF x, y
  <2>5. CASE Settled(x)
    <3>1. Orderly(x)
      BY <1>1, <2>2 DEF Good, Orderly
    <3>2. Good(x)
      BY <1>1, <1>2, <2>2, <3>1 DEF Good, Settled
    <3> QED BY <2>1, <2>2, <2>4, <2>5, <3>2, BecomesPreserves DEF Holds
  <2>6. CASE ~Settled(x)
    <3>1. x.request # "running" /\ x.submissions <= 1 /\ ~x.toreDown
      BY <1>1, <2>2, <2>6 DEF Good, Orderly, Settled
    <3>2. Orderly(y)
      BY <2>2, <2>3, <3>1 DEF Orderly
    <3>3. y.port
      BY <1>1, <2>2, <2>3, <3>1 DEF Good, Orderly
    <3>4. Good(y)
      BY <1>2, <2>2, <2>3, <3>1, <3>2, <3>3 DEF Good, Settled
    <3> QED BY <2>1, <2>2, <2>3, <2>4, <2>6, <3>4, BecomesPreserves DEF Holds
  <2> QED BY <2>5, <2>6
<1> QED BY <1>3 DEF WorkSucceeds, WorkFails

LEMMA NextGood == IInv /\ [Next]_vars => IInv'
<1> SUFFICES ASSUME IInv, [Next]_vars PROVE IInv'
  OBVIOUS
<1>1. CASE UNCHANGED vars
  BY <1>1 DEF vars, IInv, TypeOK, Holds
<1>2. CASE Next
  BY <1>2, SendPreserves, AbortPreserves, CloseWindowPreserves, AttachPreserves,
     TimersPreserve, ConnectPreserves, PongPreserves, CompletePreserves, MessagesPreserve,
     RequestPreserves, WorkPreserves
  DEF Next
<1> QED BY <1>1, <1>2

-----------------------------------------------------------------------------
(* Theorems.                                                               *)

\* The inductive invariant of the popup flows.
THEOREM PopupInvariant == Spec => []IInv
BY InitGood, NextGood, PTL DEF Spec

\* The provider and its flows always have their types.
THEOREM PopupTypeOK == Spec => []TypeOK
<1>1. IInv => TypeOK
  BY DEF IInv
<1> QED BY <1>1, PopupInvariant, PTL

\* A flow closes no window but its own, and blocks nobody once it is over.
THEOREM PopupIsOwn == Spec => []OwnPopup
<1>1. IInv => OwnPopup
  BY DEF IInv, OwnPopup, Holds, Good
<1> QED BY <1>1, PopupInvariant, PTL

\* Every flow that ended has answered its caller and left nothing behind.
THEOREM CallersAreAnswered == Spec => []AnsweredOnce
<1>1. IInv => AnsweredOnce
  BY DEF IInv, AnsweredOnce, Good
<1> QED BY <1>1, PopupInvariant, PTL

\* The popup and the caller are told the same, and the truth.
THEOREM PopupTellsTheTruth == Spec => []ResultIsTruth
<1>1. IInv => ResultIsTruth
  BY DEF IInv, ResultIsTruth, Good, Orderly
<1> QED BY <1>1, PopupInvariant, PTL

\* Work that outlives its caller's answer has been told to stop.
THEOREM OrphansAreTold == Spec => []OrphanedWorkIsAborted
<1>1. IInv => OrphanedWorkIsAborted
  BY DEF IInv, OrphanedWorkIsAborted, Good, Orderly
<1> QED BY <1>1, PopupInvariant, PTL

\* What the user approved is submitted once.
THEOREM ApprovalsSubmittedOnce == Spec => []SubmittedOnce
<1>1. IInv => SubmittedOnce
  BY DEF IInv, SubmittedOnce, Good, Orderly
<1> QED BY <1>1, PopupInvariant, PTL
=============================================================================
