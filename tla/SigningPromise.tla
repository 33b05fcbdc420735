--------------------------- MODULE SigningPromise ---------------------------
(***************************************************************************)
(* What a transaction manager's signer promises to its callers, without    *)
(* sockets, retries or clocks: calls are answered in the order they were   *)
(* made, an aborted call is never answered, a call ends as aborted only    *)
(* for a reason, and when the signer is aborted every call ends.           *)
(* ManagerClient implements this; LiteClient relies on it.                 *)
(***************************************************************************)
EXTENDS Integers, Sequences

CONSTANT Calls

VARIABLES
    issued,     \* the calls, in the order they were made
    wired,      \* whether the signer's signal aborted
    cancelled,  \* the calls whose own signal aborted
    outcome     \* outcome[c], "none" until call c is settled

vars == <<issued, wired, cancelled, outcome>>

Answers  == {"signed", "refused", "failed"}

Made(c)    == \E i \in DOMAIN issued : issued[i] = c
Pending(c) == Made(c) /\ outcome[c] = "none"

\* The call itself, or one made before it, was aborted.
HasCause(c) ==
    wired \/ \E i, j \in DOMAIN issued : i <= j /\ issued[j] = c /\ issued[i] \in cancelled

Init ==
    /\ issued = <<>>
    /\ wired = FALSE
    /\ cancelled = {}
    /\ outcome = [c \in Calls |-> "none"]

Sign(c) ==
    /\ ~Made(c)
    /\ issued' = Append(issued, c)
    /\ outcome' = IF wired \/ c \in cancelled THEN [outcome EXCEPT ![c] = "aborted"] ELSE outcome
    /\ UNCHANGED <<wired, cancelled>>

Answer(c) ==
    /\ Pending(c) /\ ~wired /\ c \notin cancelled
    /\ \A i, j \in DOMAIN issued : i < j /\ issued[j] = c => ~Pending(issued[i])
    /\ \E o \in Answers : outcome' = [outcome EXCEPT ![c] = o]
    /\ UNCHANGED <<issued, wired, cancelled>>

GiveUp(c) ==
    /\ Pending(c) /\ HasCause(c)
    /\ outcome' = [outcome EXCEPT ![c] = "aborted"]
    /\ UNCHANGED <<issued, wired, cancelled>>

\* Some calls are told at once, the others when their turn comes.
Abort ==
    /\ ~wired
    /\ wired' = TRUE
    /\ \E told \in SUBSET {c \in Calls : Pending(c)} :
          outcome' = [c \in Calls |-> IF c \in told THEN "aborted" ELSE outcome[c]]
    /\ UNCHANGED <<issued, cancelled>>

Cancel(c) ==
    /\ c \notin cancelled
    /\ cancelled' = cancelled \cup {c}
    /\ outcome' \in {outcome, [outcome EXCEPT ![c] = IF Pending(c) THEN "aborted" ELSE @]}
    /\ UNCHANGED <<issued, wired>>

Next ==
    \/ \E c \in Calls : Sign(c) \/ Answer(c) \/ GiveUp(c) \/ Cancel(c)
    \/ Abort

Spec ==
    Init /\ [][Next]_vars /\ \A c \in Calls : WF_vars(wired /\ GiveUp(c))
=============================================================================
