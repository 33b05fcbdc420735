------------------------------ MODULE PopupFlow ------------------------------
(***************************************************************************)
(* The authorisation flow of RevibaseProvider: a popup opens, connects, is *)
(* given a request, the user approves with a passkey, the provider submits *)
(* and shows the result, and the caller's promise is settled on the way.   *)
(* The flows of one provider follow each other and share the popUp field.  *)
(* From packages/lite/src/provider/main.ts and utils/abort.ts.             *)
(*                                                                         *)
(* One action is one callback of the event loop, which nothing interrupts. *)
(* The popup is an arbitrary page: it sends any message at any time while  *)
(* the port is open, and pongs only while its window is open.  The timers  *)
(* are a set of armed names; a cleared timer does not fire.  Abstracted:   *)
(* origins and request ids, status messages, errors but for the outcome.   *)
(***************************************************************************)
EXTENDS Integers

CONSTANT Flows   \* calls of sendRequestToPopupProvider

VARIABLES
  popUp,  \* the flow whose window this.popUp refers to, NoFlow for null
  flow    \* flow[f] is the state of one call

vars == <<popUp, flow>>

NoFlow == "NoFlow"

ASSUME FlowsAssumption == NoFlow \notin Flows

Timer == {"connect", "heartbeat", "request", "result"}

\* Beats without a pong after which the heartbeat gives up for certain.
MaxMissed == 2

Flow == [stage : {"idle", "opened", "attached"},    \* attached: listeners are on
         window : {"none", "open", "closed"},
         phase : {"connecting", "awaiting", "processing", "result"},
         outcome : {"pending", "resolved", "rejected"},  \* of the promise
         toreDown : BOOLEAN,
         port : BOOLEAN,                            \* the message port is open
         timers : SUBSET Timer,
         missed : 0..MaxMissed,                     \* beats since the last pong
         request : {"none", "running", "done"},     \* onConnectedCallback
         work : {"none", "running", "succeeded", "failed"},  \* onSuccessCallback
         submissions : 0..2,                        \* history: starts of work
         workAborted : BOOLEAN,                     \* the signal work was given
         shown : {"nothing", "ok", "error"},        \* result the popup was sent
         aborted : BOOLEAN]                         \* the caller's signal

TypeOK == popUp \in Flows \cup {NoFlow} /\ flow \in [Flows -> Flow]

Init ==
  /\ popUp = NoFlow
  /\ flow = [f \in Flows |->
               [stage |-> "idle", window |-> "none", phase |-> "connecting",
                outcome |-> "pending", toreDown |-> FALSE, port |-> FALSE,
                timers |-> {}, missed |-> 0, request |-> "none", work |-> "none",
                submissions |-> 0, workAborted |-> FALSE, shown |-> "nothing",
                aborted |-> FALSE]]

-----------------------------------------------------------------------------
(* The closures of attachTransport, on the state x of one flow.            *)

Settled(x) == x.outcome # "pending"

Settle(x, outcome) == IF Settled(x) THEN x ELSE [x EXCEPT !.outcome = outcome]

AbortWork(x) == [x EXCEPT !.workAborted = @ \/ x.work # "none"]

Attached(f) == flow[f].stage = "attached"

\* Mutant of Teardown: a second teardown is not a no-op.
TeardownAgain(f, x) ==
  /\ popUp' = NoFlow
  /\ flow' = [g \in Flows |->
                IF g = f THEN [x EXCEPT !.toreDown = TRUE, !.port = FALSE,
                                        !.timers = {}, !.window = "closed"]
                ELSE IF g = popUp THEN [flow[g] EXCEPT !.window = "closed"]
                ELSE flow[g]]

\* teardown of flow f, whose state has become x: it closes the provider's popup
\* and frees the provider for the next flow, but only once.
Teardown(f, x) ==
  IF x.toreDown
  THEN popUp' = popUp /\ flow' = [flow EXCEPT ![f] = x]
  ELSE /\ popUp' = NoFlow
       /\ flow' = [g \in Flows |->
                     IF g = f THEN [x EXCEPT !.toreDown = TRUE, !.port = FALSE,
                                             !.timers = {}, !.window = "closed"]
                     ELSE IF g = popUp THEN [flow[g] EXCEPT !.window = "closed"]
                     ELSE flow[g]]

Becomes(f, x) == flow' = [flow EXCEPT ![f] = x] /\ UNCHANGED popUp

FinishWithError(f, x) == Teardown(f, Settle(AbortWork(x), "rejected"))

\* Mutant of HandlePopupClosed: the work in flight is not told.
HandlePopupClosedQuietly(f, x) == Teardown(f, Settle(x, "rejected"))

HandlePopupClosed(f, x) ==
  Teardown(f, IF Settled(x) THEN x ELSE Settle(AbortWork(x), "rejected"))

Armed(x, timer)  == [x EXCEPT !.timers = @ \cup {timer}]
Cleared(x, timer) == [x EXCEPT !.timers = @ \ {timer}]

-----------------------------------------------------------------------------
(* The caller and the user.                                                *)

\* A flow in progress makes the call fail, and so does a blocked popup: nothing
\* changes then.
SendRequest(f) ==
  /\ flow[f].stage = "idle"
  /\ popUp = NoFlow
  /\ popUp' = f
  /\ flow' = [flow EXCEPT ![f].stage = "opened", ![f].window = "open"]

\* The listener for the caller's signal is there while the flow is attached and
\* not torn down; a signal that aborted earlier does not call it.
Abort(f) ==
  /\ ~flow[f].aborted
  /\ LET x == [flow[f] EXCEPT !.aborted = TRUE]
     IN  IF Attached(f) /\ ~x.toreDown THEN FinishWithError(f, x) ELSE Becomes(f, x)

CloseWindow(f) ==
  /\ flow[f].window = "open"
  /\ Becomes(f, [flow[f] EXCEPT !.window = "closed"])

-----------------------------------------------------------------------------
(* Timers.                                                                 *)

\* setTimeout(..., 0) after the window was opened.
AttachTransport(f) ==
  /\ flow[f].stage = "opened"
  /\ Becomes(f, [Armed(flow[f], "connect") EXCEPT !.stage = "attached"])

Fires(f, timer) == timer \in flow[f].timers

ConnectExpires(f) ==
  /\ Fires(f, "connect")
  /\ FinishWithError(f, Cleared(flow[f], "connect"))

\* Mutant of Heartbeat: it watches the popup only until the user approved.
HeartbeatUntilApproval(f) ==
  /\ Fires(f, "heartbeat")
  /\ IF flow[f].phase \in {"processing", "result"} THEN UNCHANGED vars
     ELSE \/ HandlePopupClosed(f, flow[f])
          \/ /\ flow[f].window = "open"
             /\ flow[f].missed < MaxMissed
             /\ Becomes(f, [flow[f] EXCEPT !.missed = @ + 1])

\* The check that the last pong is at most two intervals old can fail at any
\* beat, since beats and pongs are late when the page sleeps, and fails for
\* certain when two beats were not answered.
Heartbeat(f) ==
  /\ Fires(f, "heartbeat")
  /\ \/ HandlePopupClosed(f, flow[f])
     \/ /\ flow[f].window = "open"
        /\ flow[f].missed < MaxMissed
        /\ Becomes(f, [flow[f] EXCEPT !.missed = @ + 1])

RequestExpires(f) ==
  /\ Fires(f, "request")
  /\ LET x == Cleared(flow[f], "request")
     IN  IF x.phase = "awaiting" THEN FinishWithError(f, x) ELSE Becomes(f, x)

ResultExpires(f) ==
  /\ Fires(f, "result")
  /\ Teardown(f, Cleared(flow[f], "result"))

-----------------------------------------------------------------------------
(* Messages of the popup.                                                  *)

\* Only the first popup-connect opens a port.  Posting the port can fail.
Connect(f) ==
  /\ Attached(f) /\ ~flow[f].toreDown /\ ~flow[f].port
  /\ LET x == [Armed(Cleared(flow[f], "connect"), "heartbeat")
                 EXCEPT !.port = TRUE, !.missed = 0]
     IN  FinishWithError(f, x) \/ Becomes(f, [x EXCEPT !.request = "running"])

Pong(f) ==
  /\ flow[f].port /\ flow[f].window = "open"
  /\ Becomes(f, [flow[f] EXCEPT !.missed = 0])

\* runProcessing: the passkey approved.
Submitted(x) ==
  [Cleared(x, "request") EXCEPT !.phase = "processing", !.work = "running",
                                !.submissions = @ + 1, !.workAborted = x.aborted]

\* Mutant of PopupComplete: a repeated completion is not ignored.
PopupCompleteRepeated(f, valid) ==
  /\ flow[f].port
  /\ flow[f].phase \in {"awaiting", "processing"} /\ flow[f].submissions < 2
  /\ IF valid THEN Becomes(f, Submitted(flow[f])) ELSE FinishWithError(f, flow[f])

\* Ignored in any other phase than awaiting.
PopupComplete(f, valid) ==
  /\ flow[f].port
  /\ flow[f].phase = "awaiting"
  /\ IF valid THEN Becomes(f, Submitted(flow[f])) ELSE FinishWithError(f, flow[f])

\* popup-rejected, popup-error and a message that cannot be read.
PopupFailed(f) == flow[f].port /\ FinishWithError(f, flow[f])

PopupClosed(f) == flow[f].port /\ HandlePopupClosed(f, flow[f])

-----------------------------------------------------------------------------
(* The callbacks of the client: building the request, submitting it.       *)

\* Mutant of RequestReady: the flow is assumed to be still there.
RequestReadyUnchecked(f) ==
  /\ flow[f].request = "running"
  /\ Becomes(f, [Armed(flow[f], "request") EXCEPT !.request = "done", !.phase = "awaiting"])

RequestReady(f) ==
  /\ flow[f].request = "running"
  /\ LET x == [flow[f] EXCEPT !.request = "done"]
         uiIsClosed == popUp # NoFlow /\ flow[popUp].window = "closed"
     IN  IF x.toreDown \/ Settled(x) \/ ~x.port \/ uiIsClosed THEN Becomes(f, x)
         ELSE Becomes(f, [Armed(x, "request") EXCEPT !.phase = "awaiting"])

RequestFails(f) ==
  /\ flow[f].request = "running"
  /\ FinishWithError(f, [flow[f] EXCEPT !.request = "done"])

\* Mutant of Answered: the popup is trusted to close itself.
AnsweredWithoutTimer(x, shown, outcome) ==
  IF Settled(x) THEN x
  ELSE [Settle(x, outcome) EXCEPT !.phase = "result", !.shown = shown]

\* Mutant of Answered: the result is shown whatever the caller was told.
AnsweredAlways(x, shown, outcome) ==
  [Armed(Settle(x, outcome), "result") EXCEPT !.phase = "result", !.shown = shown]

\* The result reaches the popup and the caller, unless the caller has an answer.
Answered(x, shown, outcome) ==
  IF Settled(x) THEN x
  ELSE [Armed(Settle(x, outcome), "result") EXCEPT !.phase = "result", !.shown = shown]

WorkSucceeds(f) ==
  /\ flow[f].work = "running"
  /\ Becomes(f, Answered([flow[f] EXCEPT !.work = "succeeded"], "ok", "resolved"))

WorkFails(f) ==
  /\ flow[f].work = "running"
  /\ Becomes(f, Answered([flow[f] EXCEPT !.work = "failed"], "error", "rejected"))

-----------------------------------------------------------------------------
Next ==
  \E f \in Flows :
    \/ SendRequest(f) \/ Abort(f) \/ CloseWindow(f)
    \/ AttachTransport(f) \/ ConnectExpires(f) \/ Heartbeat(f)
    \/ RequestExpires(f) \/ ResultExpires(f)
    \/ Connect(f) \/ Pong(f)
    \/ \E valid \in BOOLEAN : PopupComplete(f, valid)
    \/ PopupFailed(f) \/ PopupClosed(f)
    \/ RequestReady(f) \/ RequestFails(f)
    \/ WorkSucceeds(f) \/ WorkFails(f)

\* The browser fires armed timers.
TimersFire ==
  \A f \in Flows :
    /\ WF_vars(AttachTransport(f))
    /\ WF_vars(ConnectExpires(f))
    /\ WF_vars(Heartbeat(f))
    /\ WF_vars(RequestExpires(f))
    /\ WF_vars(ResultExpires(f))

Spec == Init /\ [][Next]_vars /\ TimersFire

-----------------------------------------------------------------------------
(* Properties.                                                             *)

\* The provider's popup belongs to the one flow that is under way, and closes
\* with no other: callbacks that outlive their flow do not touch the next one.
OwnPopup ==
  \A f \in Flows :
    /\ popUp = f <=> flow[f].stage # "idle" /\ ~flow[f].toreDown
    /\ flow[f].toreDown => flow[f].window = "closed"

\* Whoever is torn down has answered its caller and left neither timers nor a
\* port behind; whoever answered is torn down or about to be.
AnsweredOnce ==
  \A f \in Flows :
    /\ flow[f].toreDown => Settled(flow[f]) /\ flow[f].timers = {} /\ ~flow[f].port
    /\ Settled(flow[f]) => flow[f].toreDown \/ "result" \in flow[f].timers

\* The popup is told that the transaction succeeded exactly when the caller is,
\* and both are told the truth.
ResultIsTruth ==
  \A f \in Flows :
    /\ flow[f].shown = "ok" <=> flow[f].outcome = "resolved"
    /\ flow[f].shown = "ok" => flow[f].work = "succeeded"

\* Work that goes on after its caller was told that it failed has been told to
\* stop ("Aborts if the caller aborts or the user closes the popup mid-flight.",
\* utils/types.ts).
OrphanedWorkIsAborted ==
  \A f \in Flows :
    flow[f].work = "running" /\ flow[f].outcome = "rejected" => flow[f].workAborted

\* A flow submits what the user approved once, however often the popup says so.
SubmittedOnce == \A f \in Flows : flow[f].submissions <= 1

\* A window that was closed ends its flow although the client's callbacks may
\* never end and the popup sends nothing.
ClosedWindowEndsFlow ==
  \A f \in Flows : flow[f].window = "closed" ~> flow[f].toreDown

\* The client's callbacks end, one way or the other.
CallbacksEnd ==
  \A f \in Flows :
    /\ WF_vars(RequestReady(f) \/ RequestFails(f))
    /\ WF_vars(WorkSucceeds(f) \/ WorkFails(f))

\* Every flow answers its caller and frees the provider for the next flow, even
\* if the user, the popup and the caller do nothing any more: it takes the
\* timers, and callbacks that end.
FlowEnds ==
  CallbacksEnd => \A f \in Flows : flow[f].stage = "opened" ~> flow[f].toreDown

\* "Use flow option `signal` to abort early." (README of packages/lite)
AbortEndsFlow ==
  \A f \in Flows : flow[f].aborted /\ Attached(f) => flow[f].toreDown
=============================================================================
