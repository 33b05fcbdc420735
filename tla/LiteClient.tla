----------------------------- MODULE LiteClient -----------------------------
(***************************************************************************)
(* An approved transaction on its way to the chain (packages/lite/src:     *)
(* utils/transactions, utils/retry.ts, utils/abort.ts).  sendTransaction   *)
(* asks remote services for what it needs, has every transaction of a      *)
(* bundle signed by the payer's service and, where it is a signer, by the  *)
(* transaction manager, sends them together and polls for confirmation.    *)
(*                                                                         *)
(* A remote call answers, fails, loses its answer or stays silent for      *)
(* ever; withRetry repeats one whose answer was lost, up to a limit.  One  *)
(* signal, the scope's, is aborted by the caller or by a signer that       *)
(* fails.  The manager's signer is the one that SigningPromise describes.  *)
(*                                                                         *)
(* An action is one callback with the promise continuations it releases;   *)
(* only a continuation that waits for several callbacks is its own action. *)
(* Abstracted: fees, compute units, addresses, contents of transactions,   *)
(* status reports and the calls made side by side, which are one step.     *)
(***************************************************************************)
EXTENDS Integers, Sequences, FiniteSets

CONSTANTS
    Transactions,   \* the transactions of a bundle
    CoSigned,       \* those that the manager signs as well, a sequence
    MaxAttempts,    \* withRetry: maxAttempts
    MaxPolls        \* pollTransactionConfirmation: maxRetries

Ours == {CoSigned[i] : i \in DOMAIN CoSigned}

CoSignedIn(b) == SelectSeq(CoSigned, LAMBDA t : t \in b)

ASSUME BundleAssumption == IsFiniteSet(Transactions) /\ Ours \subseteq Transactions
ASSUME LimitsAssumption == MaxAttempts \in Nat \ {0} /\ MaxPolls \in Nat \ {0}

VARIABLES
    route,      \* "bundle" or "single": which of the two ways of sending
    bundle,     \* the transactions that are sent together
    confirm,    \* options.confirmTransaction
    caller,     \* whether the caller's signal aborted
    scope,      \* why abortScope.signal aborted, "none" while it did not
    phase,      \* what sendTransaction waits for
    step,       \* phase "calling": the number of the remote call
    request,    \* the remote call under way: "asking", "resting", "none"
    tries,      \* how often withRetry lost its answer
    signing,    \* signing[t]: where the signing of transaction t is
    tried,      \* tried[t]: how often signing t failed
    payer,      \* payer[t]: what the payer's service did with t
    asked,      \* asked[t]: history, how often it was asked to sign t
    issued, outcome,    \* the manager's signer: its calls and their ends
    sends,      \* history: how often the transactions were sent
    reached,    \* whether they reached the network
    status,     \* what the network knows of the last of them
    expired,    \* whether their block hash is too old to be processed
    polls       \* how often the status was asked for

inputs     == <<route, bundle, confirm>>
callVars   == <<step, request, tries>>
signVars   == <<signing, tried, payer, asked, issued, outcome>>
netVars    == <<reached, status, expired>>
vars       == <<inputs, caller, scope, phase, callVars, signVars, sends, netVars, polls>>

\* The manager's signer was given the signal of the scope.
Signer == INSTANCE SigningPromise
              WITH Calls <- Ours, wired <- scope # "none", cancelled <- {}

Ended == phase \in {"returned", "failed"}

-----------------------------------------------------------------------------
\* The remote calls before the transactions are signed, by route: the manager's
\* url (with the tips of a bundle), lookup tables, simulation and block hash.
RemoteCalls ==
    IF route = "bundle" THEN <<"manager", "tables", "simulation", "blockhash">>
    ELSE (IF bundle \subseteq Ours THEN <<"manager">> ELSE <<>>)
             \o <<"tables", "blockhash", "simulation">>

\* The calls that are not made once the signal aborted; a single transaction is
\* prepared to its end once it has begun.
Checked == IF route = "bundle" THEN {"simulation", "blockhash"} ELSE {"blockhash"}

Fail == phase' = "failed" /\ request' = "none"

\* throwIfAborted
ThrowIfAborted == scope # "none"

Init ==
    /\ route \in {"bundle", "single"}
    /\ bundle \in IF route = "bundle" THEN {Transactions} ELSE {{t} : t \in Transactions}
    /\ confirm \in BOOLEAN
    /\ caller \in BOOLEAN
    /\ scope = IF caller THEN "caller" ELSE "none"
    /\ phase = "calling"
    /\ step = 1
    /\ request = "asking"
    /\ tries = 0
    /\ signing = [t \in Transactions |-> "idle"]
    /\ tried = [t \in Transactions |-> 0]
    /\ payer = [t \in Transactions |-> "none"]
    /\ asked = [t \in Transactions |-> 0]
    /\ issued = <<>>
    /\ outcome = [t \in Ours |-> "none"]
    /\ sends = 0
    /\ reached = FALSE /\ status = "unknown" /\ expired = FALSE
    /\ polls = 0

-----------------------------------------------------------------------------
(* withRetry around one remote call. *)

\* The answer is lost: the call is repeated after a pause, or given up.
Lost ==
    /\ tries' = tries + 1
    /\ IF tries + 1 < MaxAttempts THEN request' = "resting" /\ UNCHANGED phase ELSE Fail

LosesAnswer ==
    /\ phase \in {"calling", "sending", "polling"} /\ request = "asking"
    /\ Lost
    /\ reached' \in {reached, reached \/ phase = "sending"}
    /\ UNCHANGED <<inputs, caller, scope, step, signVars, sends, status, expired, polls>>

\* An error that is not a lost answer.
RefusesCall ==
    /\ phase \in {"calling", "sending", "polling"} /\ request = "asking"
    /\ Fail
    /\ reached' \in {reached, reached \/ phase = "sending"}
    /\ UNCHANGED <<inputs, caller, scope, step, tries, signVars, sends, status,
                   expired, polls>>

\* The pause is over; no signal is looked at.
Repeat ==
    /\ request = "resting"
    /\ request' = "asking"
    /\ sends' = IF phase = "sending" THEN sends + 1 ELSE sends
    /\ UNCHANGED <<inputs, caller, scope, phase, step, tries, signVars, netVars, polls>>

-----------------------------------------------------------------------------
(* Preparing and signing. *)

\* All transactions of the bundle are given to their signers at once.
BeginSigning ==
    /\ phase' = "signing" /\ request' = "none"
    /\ signing' = [t \in Transactions |-> IF t \in bundle THEN "asking" ELSE "idle"]
    /\ payer' = [t \in Transactions |-> IF t \in bundle THEN "asked" ELSE "none"]
    /\ asked' = [t \in Transactions |-> IF t \in bundle THEN 1 ELSE 0]
    /\ issued' = CoSignedIn(bundle)
    /\ UNCHANGED <<tried, outcome>>

Prepared ==
    LET calls == RemoteCalls
    IN  /\ phase = "calling" /\ request = "asking"
        /\ tries' = 0
        /\ \/ /\ step < Len(calls)
              /\ step' = step + 1
              /\ IF calls[step + 1] \in Checked /\ ThrowIfAborted
                 THEN Fail ELSE UNCHANGED <<phase, request>>
              /\ UNCHANGED signVars
           \/ /\ step = Len(calls)
              /\ IF ThrowIfAborted THEN Fail /\ UNCHANGED signVars ELSE BeginSigning
              /\ UNCHANGED step
        /\ UNCHANGED <<inputs, caller, scope, sends, netVars, polls>>

\* Mutant of AbortScope: a failed signature does not abort the others.
AbortScopeNot(why) == UNCHANGED <<scope, issued, outcome>>

\* abortScope.abort, which the manager's signer hears of.
AbortScope(why) ==
    IF scope # "none" THEN UNCHANGED <<scope, issued, outcome>>
    ELSE /\ scope' = why
         /\ Signer!Abort

\* rethrowSigningError inside withRetry: the scope is aborted, and the call fails
\* with the first transaction that is not tried again.
SigningFails(t, error) ==
    /\ tried' = [tried EXCEPT ![t] = @ + 1]
    /\ AbortScope(error)
    /\ IF error = "network" /\ tried[t] + 1 < MaxAttempts
       THEN signing' = [signing EXCEPT ![t] = "resting"] /\ UNCHANGED phase
       ELSE /\ signing' = [signing EXCEPT ![t] = "failed"]
            /\ phase' = IF phase = "signing" THEN "failed" ELSE phase
    /\ UNCHANGED <<inputs, caller, callVars, asked, sends, netVars, polls>>

\* Signing is tried again: the signal is looked at first, and its reason thrown.
RetrySigning(t) ==
    /\ signing[t] = "resting"
    /\ IF scope # "none"
       THEN SigningFails(t, scope) /\ UNCHANGED payer
       ELSE /\ signing' = [signing EXCEPT ![t] = "asking"]
            /\ payer' = [payer EXCEPT ![t] = "asked"]
            /\ asked' = [asked EXCEPT ![t] = @ + 1]
            /\ outcome' = [u \in Ours |-> IF u = t THEN "none" ELSE outcome[u]]
            /\ UNCHANGED <<inputs, caller, scope, phase, callVars, tried, issued, sends,
                           netVars, polls>>

\* The payer's service has no signal: it may answer when nobody waits any more.
PayerSigns(t) ==
    /\ payer[t] = "asked"
    /\ payer' = [payer EXCEPT ![t] = "signed"]
    /\ UNCHANGED <<inputs, caller, scope, phase, callVars, signing, tried, asked, issued,
                   outcome, sends, netVars, polls>>

PayerFails(t, error) ==
    /\ payer[t] = "asked"
    /\ payer' = [payer EXCEPT ![t] = "failed"]
    /\ IF signing[t] = "asking" THEN SigningFails(t, error)
       ELSE UNCHANGED <<inputs, caller, scope, phase, callVars, signing, tried, asked,
                        issued, outcome, sends, netVars, polls>>

ManagerSettles ==
    /\ UNCHANGED <<inputs, caller, scope, phase, callVars, signing, tried, payer,
                   asked, sends, netVars, polls>>
    /\ \E t \in bundle \cap Ours : Signer!Answer(t) \/ Signer!GiveUp(t)

ManagerRejects(t) ==
    /\ signing[t] = "asking" /\ t \in Ours
    /\ outcome[t] \notin {"none", "signed"}
    /\ SigningFails(t, "other")
    /\ UNCHANGED payer

SignedByAll(t) == payer[t] = "signed" /\ (t \in Ours => outcome[t] = "signed")

\* Some account of the message is a signer that nobody was given for.
SignaturesMissing(t) ==
    /\ signing[t] = "asking" /\ SignedByAll(t)
    /\ SigningFails(t, "other")
    /\ UNCHANGED payer

\* Mutant of AllSigned: the first signed transaction is enough.
AnySigned(now) == \E t \in bundle : now[t] = "signed"
AllSigned(now) == \A t \in bundle : now[t] = "signed"

\* A transaction is complete, and with the last one they are sent.
Signed(t) ==
    /\ signing[t] = "asking" /\ SignedByAll(t)
    /\ signing' = [signing EXCEPT ![t] = "signed"]
    /\ IF phase = "signing" /\ AllSigned(signing')
       THEN IF ThrowIfAborted THEN Fail /\ UNCHANGED <<tries, sends>>
            ELSE phase' = "sending" /\ request' = "asking" /\ tries' = 0 /\ sends' = sends + 1
       ELSE UNCHANGED <<phase, request, tries, sends>>
    /\ UNCHANGED <<inputs, caller, scope, step, tried, payer, asked, issued, outcome,
                   netVars, polls>>

-----------------------------------------------------------------------------
(* Sending and confirming. *)

Accepted ==
    /\ phase = "sending" /\ request = "asking"
    /\ reached' = TRUE
    /\ tries' = 0
    /\ IF ~confirm THEN phase' = "returned" /\ request' = "none"
       ELSE IF scope # "none" THEN Fail
       ELSE phase' = "polling" /\ request' = "asking"
    /\ UNCHANGED <<inputs, caller, scope, step, signVars, sends, status, expired, polls>>

\* Mutants: a status is taken for confirmed as soon as there is one; polling
\* does not count.
IsConfirmedAtOnce(s) == s # "unknown"
PollsEndless == polls

IsConfirmed(s) == s = "confirmed"
PollsMade == polls + 1

\* A status has come: it is the end, or a pause that listens to the signal.
Polled ==
    /\ phase = "polling" /\ request = "asking"
    /\ tries' = 0
    /\ \/ /\ IsConfirmed(status)
          /\ phase' = "returned" /\ request' = "none"
          /\ UNCHANGED polls
       \/ /\ ~IsConfirmed(status)
          /\ polls' = PollsMade
          /\ IF scope # "none" THEN Fail ELSE request' = "sleeping" /\ UNCHANGED phase
    /\ UNCHANGED <<inputs, caller, scope, step, signVars, sends, netVars>>

\* The pause between two polls is over, or all of them were made.
PollAgain ==
    /\ request = "sleeping"
    /\ IF polls = MaxPolls THEN Fail ELSE request' = "asking" /\ UNCHANGED phase
    /\ UNCHANGED <<inputs, caller, scope, step, tries, signVars, sends, netVars, polls>>

-----------------------------------------------------------------------------
(* The caller and the network. *)

\* The caller's signal is listened to until the call ends (abortScope.dispose).
CallerAborts ==
    /\ ~caller
    /\ caller' = TRUE
    /\ IF Ended THEN UNCHANGED <<scope, issued, outcome>> ELSE AbortScope("caller")
    /\ IF request = "sleeping" THEN Fail ELSE UNCHANGED <<phase, request>>
    /\ UNCHANGED <<inputs, step, tries, signing, tried, payer, asked, sends, netVars, polls>>

\* Processed by a block that may yet be dropped, or confirmed.
NetworkMoves ==
    /\ \/ status = "unknown" /\ reached /\ ~expired /\ status' = "processed" /\ UNCHANGED expired
       \/ status = "processed" /\ status' \in {"unknown", "confirmed"} /\ UNCHANGED expired
       \/ ~expired /\ expired' = TRUE /\ UNCHANGED status
    /\ UNCHANGED <<inputs, caller, scope, phase, callVars, signVars, sends, reached, polls>>

Next ==
    \/ LosesAnswer \/ RefusesCall \/ Repeat \/ Prepared
    \/ \E t \in bundle :
          \/ RetrySigning(t) \/ PayerSigns(t) \/ ManagerRejects(t)
          \/ SignaturesMissing(t) \/ Signed(t)
          \/ \E error \in {"network", "other"} : PayerFails(t, error)
    \/ ManagerSettles
    \/ Accepted \/ Polled \/ PollAgain
    \/ CallerAborts \/ NetworkMoves

\* Timers fire, promises go on, and an aborted signer ends its calls.
Fairness ==
    /\ WF_vars(Repeat) /\ WF_vars(PollAgain)
    /\ \A t \in Transactions : WF_vars(RetrySigning(t)) /\ WF_vars(ManagerRejects(t))
                               /\ WF_vars(Signed(t) \/ SignaturesMissing(t))
    /\ WF_vars(ManagerSettles /\ scope # "none")

Spec == Init /\ [][Next]_vars /\ Fairness

-----------------------------------------------------------------------------
TypeOK ==
    /\ route \in {"bundle", "single"} /\ bundle \in SUBSET Transactions
    /\ {confirm, caller, reached, expired} \subseteq BOOLEAN
    /\ scope \in {"none", "caller", "network", "other"}
    /\ phase \in {"calling", "signing", "sending", "polling", "returned", "failed"}
    /\ step \in 1..4 /\ request \in {"asking", "resting", "sleeping", "none"}
    /\ tries \in 0..MaxAttempts /\ polls \in 0..MaxPolls /\ sends \in 0..MaxAttempts
    /\ signing \in [Transactions -> {"idle", "asking", "resting", "signed", "failed"}]
    /\ tried \in [Transactions -> 0..MaxAttempts] /\ asked \in [Transactions -> Nat]
    /\ payer \in [Transactions -> {"none", "asked", "signed", "failed"}]
    /\ issued \in {<<>>, CoSignedIn(bundle)}
    /\ outcome \in [Ours -> {"none", "signed", "refused", "failed", "aborted"}]
    /\ status \in {"unknown", "processed", "confirmed"}

\* The transactions leave the client together and complete, each signed by all
\* its signers, or not at all: none is sent while another is being signed, for the
\* first time after the caller or a signer aborted, or after the caller was told
\* how the call ended, although signers work on in the background.
SentWhole ==
    [][sends' # sends =>
          /\ \A t \in bundle : SignedByAll(t)
          /\ sends = 0 => ~caller /\ scope = "none"
          /\ ~Ended]_vars

\* The payer's service is asked at most once for a signature, in spite of
\* withRetry around the signing: the failure that would be retried has aborted the
\* scope, which the retry looks at before it asks anybody.
AskedOnce == \A t \in bundle : asked[t] <= 1

\* A call that returned a confirmed signature returned it of a transaction that
\* stays on the chain, however often answers were lost on the way.
ReturnedIsConfirmed == phase = "returned" /\ confirm => status = "confirmed"

\* A remote service that never answers.
Silent ==
    \/ request = "asking"
    \/ phase = "signing" /\ \E t \in bundle :
          signing[t] = "asking" /\ (payer[t] = "asked" \/ (t \in Ours /\ outcome[t] = "none"))

\* The call ends, unless a service that it waits for is silent for ever: retries
\* and polls are bounded, and no signer waits for another one that failed.
CallEnds == <>Ended \/ <>[]Silent
=============================================================================
