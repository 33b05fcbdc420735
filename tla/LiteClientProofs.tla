-------------------------- MODULE LiteClientProofs --------------------------
(***************************************************************************)
(* Proofs about LiteClient, for any number of transactions and any limits  *)
(* of retries and polls: a bundle is sent whole, signed by everybody and   *)
(* not after an abort; no signature is asked for twice; and a confirmation *)
(* that was returned is one.                                               *)
(*                                                                         *)
(* The invariant has a part for the counters of retries and polls, which   *)
(* the types need, one for the signatures, and one for the end.            *)
(***************************************************************************)
EXTENDS LiteClient, TLAPS

\* Retries and polls stay within their limits.
Counters ==
    /\ phase \in {"calling", "signing"} => sends = 0
    /\ phase \in {"calling", "signing", "sending"} => polls = 0
    /\ phase \in {"signing", "returned", "failed"} => request = "none"
    /\ phase \in {"calling", "sending"} => request \in {"asking", "resting"}
    /\ phase = "polling" => request \in {"asking", "resting", "sleeping"}
    /\ request # "none" => tries < MaxAttempts
    /\ phase = "sending" =>
          sends > 0 /\ sends = IF request = "resting" THEN tries ELSE tries + 1
    /\ phase = "polling" /\ request # "sleeping" => polls < MaxPolls
    /\ \A t \in Transactions :
          /\ signing[t] \in {"idle", "asking"} => tried[t] = 0
          /\ signing[t] = "resting" => tried[t] < MaxAttempts

\* Who has signed, and what a failed signature did to the scope.
Signatures ==
    /\ phase = "calling" => \A t \in Transactions : signing[t] = "idle"
    /\ \A t \in Transactions :
          /\ asked[t] <= 1
          /\ signing[t] \in {"resting", "failed"} => scope # "none"
          /\ signing[t] = "signed" => SignedByAll(t)
    /\ phase \in {"sending", "polling"} => \A t \in bundle : signing[t] = "signed"
    /\ scope = "none" /\ ~Ended => ~caller

IInv == TypeOK /\ Counters /\ Signatures /\ ReturnedIsConfirmed

USE BundleAssumption, LimitsAssumption

-----------------------------------------------------------------------------
(* Parts of the callbacks.                                                 *)

Causes == {"caller", "network", "other"}

Ends == {"none", "signed", "refused", "failed", "aborted"}

\* What was signed stays signed when the signer is aborted.
LEMMA ScopeAborts ==
    ASSUME TypeOK, NEW why \in Causes, AbortScope(why)
    PROVE  /\ scope' \in Causes
           /\ scope # "none" => scope' = scope
           /\ issued' = issued
           /\ outcome' \in [Ours -> Ends]
           /\ \A u \in Ours : outcome[u] = "signed" => outcome'[u] = "signed"
<1>1. scope \in Causes \cup {"none"} /\ outcome \in [Ours -> Ends]
    BY DEF TypeOK, Causes, Ends
<1>2. CASE scope # "none"
    BY <1>1, <1>2 DEF AbortScope
<1>3. CASE scope = "none"
    <2>1. scope' = why /\ Signer!Abort
        BY <1>3 DEF AbortScope
    <2>2. PICK told \in SUBSET {c \in Ours : Signer!Pending(c)} :
              outcome' = [c \in Ours |-> IF c \in told THEN "aborted" ELSE outcome[c]]
        BY <2>1 DEF Signer!Abort
    <2>3. issued' = issued
        BY <2>1 DEF Signer!Abort
    <2>4. \A c \in told : outcome[c] = "none"
        BY <2>2 DEF Signer!Pending
    <2> QED BY <1>1, <1>3, <2>1, <2>2, <2>3, <2>4 DEF Ends
<1> QED BY <1>2, <1>3

\* There are three or four remote calls.
LEMMA CallsCounted == Len(RemoteCalls) \in 3..4
<1>1. CASE route = "bundle"
    BY <1>1 DEF RemoteCalls
<1>2. CASE route # "bundle" /\ bundle \subseteq Ours
    <2>1. RemoteCalls = <<"manager">> \o <<"tables", "blockhash", "simulation">>
        BY <1>2 DEF RemoteCalls
    <2> QED BY <2>1
<1>3. CASE route # "bundle" /\ ~(bundle \subseteq Ours)
    <2>1. RemoteCalls = <<>> \o <<"tables", "blockhash", "simulation">>
        BY <1>3 DEF RemoteCalls
    <2> QED BY <2>1
<1> QED BY <1>1, <1>2, <1>3

\* A failed signature aborts the scope; what others signed stays signed.
LEMMA FailurePreserves ==
    ASSUME IInv, NEW t \in bundle, NEW error \in Causes, SigningFails(t, error),
           signing[t] \in {"asking", "resting"},
           payer' \in [Transactions -> {"none", "asked", "signed", "failed"}],
           \A u \in Transactions \ {t} : payer'[u] = payer[u]
    PROVE  IInv'
<1>1. t \in Transactions
    BY DEF IInv, TypeOK
<1>2. /\ scope' \in Causes /\ issued' = issued /\ outcome' \in [Ours -> Ends]
      /\ \A u \in Ours : outcome[u] = "signed" => outcome'[u] = "signed"
    BY ScopeAborts DEF SigningFails, IInv
<1>3. /\ inputs' = inputs /\ caller' = caller /\ callVars' = callVars /\ asked' = asked
      /\ sends' = sends /\ netVars' = netVars /\ polls' = polls
      /\ tried' = [tried EXCEPT ![t] = @ + 1]
    BY DEF SigningFails
<1>4. \/ /\ error = "network" /\ tried[t] + 1 < MaxAttempts
         /\ signing' = [signing EXCEPT ![t] = "resting"] /\ phase' = phase
      \/ /\ signing' = [signing EXCEPT ![t] = "failed"]
         /\ phase' = IF phase = "signing" THEN "failed" ELSE phase
    BY DEF SigningFails
<1>5. phase \notin {"calling", "sending", "polling"}
    BY <1>1 DEF IInv, Signatures
<1>6. tried[t] + 1 \in 0..MaxAttempts
    BY <1>1 DEF IInv, Counters, TypeOK
<1>7. TypeOK'
    <2>1. signing' \in [Transactions -> {"idle", "asking", "resting", "signed", "failed"}]
        <3>1. PICK s \in {"resting", "failed"} : signing' = [signing EXCEPT ![t] = s]
            BY <1>4
        <3> QED BY <3>1 DEF IInv, TypeOK
    <2>2. tried' \in [Transactions -> 0..MaxAttempts]
        BY <1>1, <1>3, <1>6 DEF IInv, TypeOK
    <2>3. phase' \in {phase, "failed"}
        BY <1>4
    <2>4. bundle' = bundle /\ CoSignedIn(bundle') = CoSignedIn(bundle)
        BY <1>3 DEF inputs
    <2> QED BY <1>2, <1>3, <2>1, <2>2, <2>3, <2>4
            DEF IInv, TypeOK, inputs, callVars, netVars, Causes, Ends
<1>8. Counters'
    BY <1>1, <1>3, <1>4, <1>5 DEF IInv, TypeOK, Counters, callVars
<1>9. Signatures'
    <2>1. \A u \in Transactions \ {t} : signing'[u] = signing[u] /\ payer'[u] = payer[u]
        BY <1>4 DEF IInv, TypeOK
    <2>2. signing'[t] \in {"resting", "failed"}
        BY <1>1, <1>4 DEF IInv, TypeOK
    <2>3. \A u \in Transactions : signing'[u] = "signed" => SignedByAll(u)'
        BY <1>1, <1>2, <2>1, <2>2 DEF IInv, Signatures, SignedByAll
    <2>4. scope' # "none" /\ phase' \notin {"calling", "sending", "polling"}
        BY <1>2, <1>4, <1>5 DEF Causes
    <2>5. asked' = asked
        BY <1>3
    <2> QED BY <2>3, <2>4, <2>5 DEF IInv, Signatures
<1>10. ReturnedIsConfirmed'
    BY <1>3, <1>4 DEF IInv, ReturnedIsConfirmed, inputs, netVars
<1> QED BY <1>7, <1>8, <1>9, <1>10 DEF IInv

\* A callback that leaves the signatures alone does not go on without them.
LEMMA SignaturesStay ==
    ASSUME Signatures, inputs' = inputs, signVars' = signVars, scope' = scope, caller' = caller,
           phase' = "calling" => phase = "calling",
           phase' \in {"sending", "polling"} => phase \in {"sending", "polling"},
           Ended => Ended'
    PROVE  Signatures'
BY DEF Signatures, inputs, signVars, Ended, SignedByAll

LEMMA QuietTypes ==
    ASSUME IInv, inputs' = inputs, signVars' = signVars, scope' = scope, caller' = caller,
           netVars' = netVars \/ (reached' \in BOOLEAN /\ status' = status /\ expired' = expired),
           step' \in 1..4, polls' \in 0..MaxPolls, sends' \in 0..MaxAttempts,
           tries' \in 0..MaxAttempts, request' \in {"asking", "resting", "sleeping", "none"},
           phase' \in {"calling", "signing", "sending", "polling", "returned", "failed"}
    PROVE  TypeOK'
<1>1. CoSignedIn(bundle') = CoSignedIn(bundle)
    BY DEF inputs
<1> QED BY <1>1 DEF IInv, TypeOK, inputs, signVars, netVars

-----------------------------------------------------------------------------
(* Remote calls.                                                           *)

LEMMA LostPreserves ==
    ASSUME IInv, LosesAnswer \/ RefusesCall
    PROVE  IInv'
<1>1. /\ inputs' = inputs /\ signVars' = signVars /\ scope' = scope /\ caller' = caller
      /\ step' = step /\ sends' = sends /\ status' = status /\ expired' = expired
      /\ polls' = polls
    BY DEF LosesAnswer, RefusesCall
<1>2. phase \in {"calling", "sending", "polling"} /\ request = "asking" /\ tries < MaxAttempts
    BY DEF LosesAnswer, RefusesCall, IInv, Counters
<1>3. \/ /\ tries' = tries + 1 /\ tries + 1 < MaxAttempts
         /\ request' = "resting" /\ phase' = phase
      \/ tries' \in {tries, tries + 1} /\ phase' = "failed" /\ request' = "none"
    BY DEF LosesAnswer, RefusesCall, Lost, Fail
<1>4. reached' \in BOOLEAN
    <2>1. reached \in BOOLEAN /\ (reached \/ phase = "sending") \in BOOLEAN
        BY DEF IInv, TypeOK
    <2>2. reached' \in {reached, reached \/ phase = "sending"}
        BY DEF LosesAnswer, RefusesCall
    <2> QED BY <2>1, <2>2
<1>5. tries \in Nat /\ step \in 1..4 /\ polls \in 0..MaxPolls /\ sends \in 0..MaxAttempts
    BY DEF IInv, TypeOK
<1>6. TypeOK'
    <2>1. tries' \in 0..MaxAttempts
        BY <1>2, <1>3, <1>5
    <2> QED BY <1>1, <1>2, <1>3, <1>4, <1>5, <2>1, QuietTypes
<1>7. Counters'
    <2>1. \A t \in Transactions : signing'[t] = signing[t] /\ tried'[t] = tried[t]
        BY <1>1 DEF signVars
    <2>2. CASE phase' = "failed" /\ request' = "none"
        BY <1>1, <2>1, <2>2 DEF IInv, Counters
    <2>3. CASE phase' = phase /\ request' = "resting" /\ tries' = tries + 1
               /\ tries + 1 < MaxAttempts
        BY <1>1, <1>2, <1>5, <2>1, <2>3 DEF IInv, Counters
    <2> QED BY <1>3, <2>2, <2>3
<1>8. Signatures'
    BY <1>1, <1>2, <1>3, SignaturesStay DEF IInv, Ended
<1>9. ReturnedIsConfirmed'
    BY <1>1, <1>2, <1>3 DEF ReturnedIsConfirmed
<1> QED BY <1>6, <1>7, <1>8, <1>9 DEF IInv

LEMMA RepeatPreserves ==
    ASSUME IInv, Repeat
    PROVE  IInv'
<1>1. /\ inputs' = inputs /\ signVars' = signVars /\ scope' = scope /\ caller' = caller
      /\ step' = step /\ netVars' = netVars /\ polls' = polls /\ phase' = phase
      /\ tries' = tries /\ request = "resting" /\ request' = "asking"
      /\ sends' = IF phase = "sending" THEN sends + 1 ELSE sends
    BY DEF Repeat
<1>2. phase \in {"calling", "sending", "polling"} /\ tries < MaxAttempts
    BY <1>1 DEF IInv, Counters, TypeOK
<1>3. /\ tries \in 0..MaxAttempts /\ step \in 1..4 /\ polls \in 0..MaxPolls
      /\ sends \in 0..MaxAttempts
    BY DEF IInv, TypeOK
<1>4. TypeOK'
    <2>1. sends' \in 0..MaxAttempts
        BY <1>1, <1>2, <1>3 DEF IInv, Counters
    <2> QED BY <1>1, <1>2, <1>3, <2>1, QuietTypes
<1>5. Counters'
    <2>1. \A t \in Transactions : signing'[t] = signing[t] /\ tried'[t] = tried[t]
        BY <1>1 DEF signVars
    <2> QED BY <1>1, <1>2, <1>3, <2>1 DEF IInv, Counters
<1>6. Signatures'
    BY <1>1, SignaturesStay DEF IInv, Ended
<1>7. ReturnedIsConfirmed'
    BY <1>1, <1>2 DEF ReturnedIsConfirmed
<1> QED BY <1>4, <1>5, <1>6, <1>7 DEF IInv

\* The last remote call begins the signing, of all transactions at once.
LEMMA PreparedPreserves ==
    ASSUME IInv, Prepared
    PROVE  IInv'
<1>1. /\ inputs' = inputs /\ scope' = scope /\ caller' = caller /\ sends' = sends
      /\ netVars' = netVars /\ polls' = polls /\ tries' = 0
      /\ phase = "calling" /\ request = "asking"
    BY DEF Prepared
<1>2. /\ tries \in 0..MaxAttempts /\ step \in 1..4 /\ polls \in 0..MaxPolls
      /\ sends \in 0..MaxAttempts /\ sends = 0 /\ polls = 0
    BY <1>1 DEF IInv, TypeOK, Counters
<1>3. step' \in 1..4
    <2> DEFINE n == Len(RemoteCalls)
    <2>1. \/ step < n /\ step' = step + 1
          \/ step' = step
        BY DEF Prepared
    <2>2. n \in 3..4
        BY CallsCounted
    <2> HIDE DEF n
    <2> QED BY <1>2, <2>1, <2>2
<1>4. CASE /\ signVars' = signVars
           /\ \/ phase' = phase /\ request' = request
              \/ phase' = "failed" /\ request' = "none"
    <2>1. TypeOK'
        <3>1. polls' \in 0..MaxPolls /\ sends' \in 0..MaxAttempts /\ tries' \in 0..MaxAttempts
            BY <1>1, <1>2
        <3>2. \/ phase' = "calling" /\ request' = "asking"
              \/ phase' = "failed" /\ request' = "none"
            BY <1>1, <1>4
        <3>3. /\ request' \in {"asking", "resting", "sleeping", "none"}
              /\ phase' \in {"calling", "signing", "sending", "polling", "returned", "failed"}
            BY <3>2
        <3> QED BY <1>1, <1>3, <1>4, <3>1, <3>3, QuietTypes
    <2>2. \A t \in Transactions : signing'[t] = signing[t] /\ tried'[t] = tried[t]
        BY <1>4 DEF signVars
    <2>3. Counters'
        BY <1>1, <1>2, <1>4, <2>2 DEF IInv, Counters
    <2>4. Signatures'
        BY <1>1, <1>4, SignaturesStay DEF IInv, Ended
    <2>5. ReturnedIsConfirmed'
        BY <1>1, <1>4 DEF ReturnedIsConfirmed
    <2> QED BY <2>1, <2>3, <2>4, <2>5 DEF IInv
<1>5. CASE BeginSigning
    <2>1. /\ phase' = "signing" /\ request' = "none" /\ tried' = tried /\ outcome' = outcome
          /\ issued' = CoSignedIn(bundle)
          /\ signing' = [t \in Transactions |-> IF t \in bundle THEN "asking" ELSE "idle"]
          /\ payer' = [t \in Transactions |-> IF t \in bundle THEN "asked" ELSE "none"]
          /\ asked' = [t \in Transactions |-> IF t \in bundle THEN 1 ELSE 0]
        BY <1>5 DEF BeginSigning
    <2>2. TypeOK'
        <3>1. CoSignedIn(bundle') = CoSignedIn(bundle)
            BY <1>1 DEF inputs
        <3> QED BY <1>1, <1>2, <1>3, <2>1, <3>1 DEF IInv, TypeOK, inputs, netVars
    <2>3. \A t \in Transactions : tried[t] = 0
        BY <1>1 DEF IInv, Counters, Signatures
    <2>4. Counters'
        BY <1>1, <1>2, <2>1, <2>3 DEF Counters
    <2>5. Signatures'
        <3>1. scope = "none" => ~caller
            BY <1>1 DEF IInv, Signatures, Ended
        <3> QED BY <1>1, <2>1, <3>1 DEF Signatures
    <2>6. ReturnedIsConfirmed'
        BY <2>1 DEF ReturnedIsConfirmed
    <2> QED BY <2>2, <2>4, <2>5, <2>6 DEF IInv
<1> QED BY <1>4, <1>5 DEF Prepared, Fail

-----------------------------------------------------------------------------
(* Signatures.                                                             *)

\* Nothing is signed again: what could be tried again has aborted the scope.
LEMMA RetryPreserves ==
    ASSUME IInv, NEW t \in bundle, RetrySigning(t)
    PROVE  IInv' /\ asked' = asked
<1>1. t \in Transactions /\ scope \in Causes /\ signing[t] = "resting"
    BY DEF IInv, TypeOK, Signatures, RetrySigning, Causes
<1>2. SigningFails(t, scope) /\ payer' = payer
    BY <1>1 DEF RetrySigning, Causes
<1>3. asked' = asked
    BY <1>2 DEF SigningFails
<1> QED BY <1>1, <1>2, <1>3, FailurePreserves DEF IInv, TypeOK

LEMMA PayerSignsPreserves ==
    ASSUME IInv, NEW t \in bundle, PayerSigns(t)
    PROVE  IInv'
<1>1. /\ inputs' = inputs /\ caller' = caller /\ scope' = scope /\ phase' = phase
      /\ callVars' = callVars /\ signing' = signing /\ tried' = tried /\ asked' = asked
      /\ issued' = issued /\ outcome' = outcome /\ sends' = sends /\ netVars' = netVars
      /\ polls' = polls /\ payer' = [payer EXCEPT ![t] = "signed"]
    BY DEF PayerSigns
<1>2. TypeOK'
    <2>1. CoSignedIn(bundle') = CoSignedIn(bundle)
        BY <1>1 DEF inputs
    <2>2. payer' \in [Transactions -> {"none", "asked", "signed", "failed"}]
        BY <1>1 DEF IInv, TypeOK
    <2> QED BY <1>1, <2>1, <2>2 DEF IInv, TypeOK, inputs, callVars, netVars
<1>3. Counters'
    BY <1>1 DEF IInv, Counters, callVars
<1>4. Signatures'
    <2>1. \A u \in Transactions : SignedByAll(u) => SignedByAll(u)'
        BY <1>1 DEF IInv, TypeOK, SignedByAll
    <2> QED BY <1>1, <2>1 DEF IInv, Signatures, Ended, inputs
<1>5. ReturnedIsConfirmed'
    BY <1>1 DEF IInv, ReturnedIsConfirmed, inputs, netVars
<1> QED BY <1>2, <1>3, <1>4, <1>5 DEF IInv

LEMMA PayerFailsPreserves ==
    ASSUME IInv, NEW t \in bundle, NEW error \in {"network", "other"}, PayerFails(t, error)
    PROVE  IInv'
<1>1. t \in Transactions /\ error \in Causes
    BY DEF IInv, TypeOK, Causes
<1>2. payer[t] = "asked" /\ payer' = [payer EXCEPT ![t] = "failed"]
    BY DEF PayerFails
<1>3. /\ payer' \in [Transactions -> {"none", "asked", "signed", "failed"}]
      /\ \A u \in Transactions \ {t} : payer'[u] = payer[u]
    BY <1>1, <1>2 DEF IInv, TypeOK
<1>4. CASE signing[t] = "asking"
    BY <1>1, <1>3, <1>4, FailurePreserves DEF PayerFails
<1>5. CASE signing[t] # "asking"
    <2>1. /\ inputs' = inputs /\ caller' = caller /\ scope' = scope /\ phase' = phase
          /\ callVars' = callVars /\ signing' = signing /\ tried' = tried /\ asked' = asked
          /\ issued' = issued /\ outcome' = outcome /\ sends' = sends /\ netVars' = netVars
          /\ polls' = polls
        BY <1>5 DEF PayerFails
    <2>2. TypeOK'
        <3>1. CoSignedIn(bundle') = CoSignedIn(bundle)
            BY <2>1 DEF inputs
        <3> QED BY <1>3, <2>1, <3>1 DEF IInv, TypeOK, inputs, callVars, netVars
    <2>3. Counters'
        BY <2>1 DEF IInv, Counters, callVars
    <2>4. Signatures'
        <3>1. \A u \in Transactions : SignedByAll(u) => SignedByAll(u)'
            BY <1>2, <1>3, <2>1 DEF SignedByAll
        <3> QED BY <2>1, <3>1 DEF IInv, Signatures, Ended, inputs
    <2>5. ReturnedIsConfirmed'
        BY <2>1 DEF IInv, ReturnedIsConfirmed, inputs, netVars
    <2> QED BY <2>2, <2>3, <2>4, <2>5 DEF IInv
<1> QED BY <1>4, <1>5

LEMMA RejectsPreserves ==
    ASSUME IInv, NEW t \in bundle, ManagerRejects(t) \/ SignaturesMissing(t)
    PROVE  IInv'
<1>1. SigningFails(t, "other") /\ signing[t] = "asking" /\ payer' = payer
    BY DEF ManagerRejects, SignaturesMissing
<1>2. "other" \in Causes /\ payer \in [Transactions -> {"none", "asked", "signed", "failed"}]
    BY DEF Causes, IInv, TypeOK
<1> QED BY <1>1, <1>2, FailurePreserves

\* The manager answers calls that had no answer.
LEMMA SettlesPreserves ==
    ASSUME IInv, ManagerSettles
    PROVE  IInv'
<1>1. /\ inputs' = inputs /\ caller' = caller /\ scope' = scope /\ phase' = phase
      /\ callVars' = callVars /\ signing' = signing /\ tried' = tried /\ asked' = asked
      /\ payer' = payer /\ sends' = sends /\ netVars' = netVars /\ polls' = polls
    BY DEF ManagerSettles
<1>2. PICK t \in bundle \cap Ours : Signer!Answer(t) \/ Signer!GiveUp(t)
    BY DEF ManagerSettles
<1>3. issued' = issued /\ outcome[t] = "none"
    BY <1>2 DEF Signer!Answer, Signer!GiveUp, Signer!Pending
<1>4. PICK o \in Ends : outcome' = [outcome EXCEPT ![t] = o]
    BY <1>2 DEF Signer!Answer, Signer!GiveUp, Signer!Answers, Ends
<1>5. outcome \in [Ours -> Ends]
    BY DEF IInv, TypeOK, Ends
<1>6. /\ outcome' \in [Ours -> Ends]
      /\ \A u \in Ours : outcome[u] = "signed" => outcome'[u] = "signed"
    BY <1>3, <1>4, <1>5
<1>7. TypeOK'
    <2>1. CoSignedIn(bundle') = CoSignedIn(bundle)
        BY <1>1 DEF inputs
    <2> QED BY <1>1, <1>3, <1>6, <2>1 DEF IInv, TypeOK, inputs, callVars, netVars, Ends
<1>8. Counters'
    BY <1>1 DEF IInv, Counters, callVars
<1>9. Signatures'
    <2>1. \A u \in Transactions : SignedByAll(u) => SignedByAll(u)'
        BY <1>1, <1>6 DEF SignedByAll
    <2> QED BY <1>1, <2>1 DEF IInv, Signatures, Ended, inputs
<1>10. ReturnedIsConfirmed'
    BY <1>1 DEF IInv, ReturnedIsConfirmed, inputs, netVars
<1> QED BY <1>7, <1>8, <1>9, <1>10 DEF IInv

\* With the last signature the transactions are sent, unless the scope aborted.
LEMMA SignedPreserves ==
    ASSUME IInv, NEW t \in bundle, Signed(t)
    PROVE  /\ IInv'
           /\ sends' # sends =>
                 /\ \A u \in bundle : SignedByAll(u)
                 /\ ~caller /\ scope = "none" /\ ~Ended
<1>1. /\ inputs' = inputs /\ caller' = caller /\ scope' = scope /\ step' = step
      /\ tried' = tried /\ payer' = payer /\ asked' = asked /\ issued' = issued
      /\ outcome' = outcome /\ netVars' = netVars /\ polls' = polls
      /\ signing[t] = "asking" /\ SignedByAll(t)
      /\ signing' = [signing EXCEPT ![t] = "signed"]
    BY DEF Signed
<1>2. t \in Transactions /\ signing'[t] = "signed"
      /\ \A u \in Transactions \ {t} : signing'[u] = signing[u]
    BY <1>1 DEF IInv, TypeOK
<1>3. phase \notin {"calling", "sending", "polling"}
    BY <1>1, <1>2 DEF IInv, Signatures
<1>4. \/ /\ phase = "signing" /\ AllSigned(signing') /\ scope = "none"
         /\ phase' = "sending" /\ request' = "asking" /\ tries' = 0 /\ sends' = sends + 1
      \/ phase' = "failed" /\ request' = "none" /\ tries' = tries /\ sends' = sends
      \/ phase' = phase /\ request' = request /\ tries' = tries /\ sends' = sends
    BY DEF Signed, ThrowIfAborted, Fail
<1>5. tries \in 0..MaxAttempts /\ sends \in 0..MaxAttempts /\ (phase = "signing" => sends = 0)
    BY DEF IInv, TypeOK, Counters
<1>6. \A u \in Transactions : signing'[u] = "signed" => SignedByAll(u)
    BY <1>1, <1>2 DEF IInv, Signatures
<1>7. TypeOK'
    <2>1. CoSignedIn(bundle') = CoSignedIn(bundle)
        BY <1>1 DEF inputs
    <2>2. signing' \in [Transactions -> {"idle", "asking", "resting", "signed", "failed"}]
        BY <1>1 DEF IInv, TypeOK
    <2>3. sends' \in 0..MaxAttempts /\ tries' \in 0..MaxAttempts
        BY <1>4, <1>5
    <2>4. phase' \in {"sending", "failed", phase} /\ request' \in {"asking", "none", request}
        BY <1>4
    <2> QED BY <1>1, <2>1, <2>2, <2>3, <2>4 DEF IInv, TypeOK, inputs, netVars
<1>8. Counters'
    <2>1. \A u \in Transactions :
              /\ signing'[u] \in {"idle", "asking"} => tried'[u] = 0
              /\ signing'[u] = "resting" => tried'[u] < MaxAttempts
        BY <1>1, <1>2 DEF IInv, Counters
    <2> QED BY <1>1, <1>3, <1>4, <1>5, <2>1 DEF IInv, Counters
<1>9. Signatures'
    <2>1. \A u \in Transactions : SignedByAll(u) => SignedByAll(u)'
        BY <1>1 DEF SignedByAll
    <2>2. phase' \in {"sending", "polling"} => \A u \in bundle' : signing'[u] = "signed"
        BY <1>1, <1>3, <1>4 DEF AllSigned, inputs
    <2>3. phase' # "calling" /\ (scope' = "none" /\ ~Ended' => ~caller')
        BY <1>1, <1>3, <1>4 DEF IInv, Signatures, Ended
    <2> QED BY <1>1, <1>2, <1>6, <2>1, <2>2, <2>3 DEF IInv, Signatures
<1>10. ReturnedIsConfirmed'
    BY <1>1, <1>4 DEF IInv, ReturnedIsConfirmed, inputs, netVars
<1>11. ASSUME sends' # sends
       PROVE  (\A u \in bundle : SignedByAll(u)) /\ ~caller /\ scope = "none" /\ ~Ended
    <2>1. phase = "signing" /\ AllSigned(signing') /\ scope = "none"
        BY <1>4, <1>11
    <2>2. bundle \subseteq Transactions
        BY DEF IInv, TypeOK
    <2> QED BY <1>6, <2>1, <2>2 DEF AllSigned, IInv, Signatures, Ended
<1> QED BY <1>7, <1>8, <1>9, <1>10, <1>11 DEF IInv

-----------------------------------------------------------------------------
(* Sending, confirming, aborting.                                          *)

LEMMA AcceptedPreserves ==
    ASSUME IInv, Accepted
    PROVE  IInv'
<1>1. /\ inputs' = inputs /\ signVars' = signVars /\ scope' = scope /\ caller' = caller
      /\ step' = step /\ sends' = sends /\ status' = status /\ expired' = expired
      /\ polls' = polls /\ reached' = TRUE /\ tries' = 0
      /\ phase = "sending" /\ request = "asking"
    BY DEF Accepted
<1>2. \/ ~confirm /\ phase' = "returned" /\ request' = "none"
      \/ phase' = "failed" /\ request' = "none"
      \/ phase' = "polling" /\ request' = "asking"
    BY DEF Accepted, Fail
<1>3. /\ step \in 1..4 /\ polls \in 0..MaxPolls /\ sends \in 0..MaxAttempts /\ polls = 0
    BY <1>1 DEF IInv, TypeOK, Counters
<1>4. TypeOK'
    <2>1. request' \in {"asking", "none"} /\ phase' \in {"returned", "failed", "polling"}
        BY <1>2
    <2>2. tries' \in 0..MaxAttempts
        BY <1>1
    <2> QED BY <1>1, <1>3, <2>1, <2>2, QuietTypes
<1>5. Counters'
    <2>1. \A t \in Transactions : signing'[t] = signing[t] /\ tried'[t] = tried[t]
        BY <1>1 DEF signVars
    <2> QED BY <1>1, <1>2, <1>3, <2>1 DEF IInv, Counters
<1>6. Signatures'
    BY <1>1, <1>2, SignaturesStay DEF IInv, Ended
<1>7. ReturnedIsConfirmed'
    BY <1>1, <1>2 DEF ReturnedIsConfirmed, inputs
<1> QED BY <1>4, <1>5, <1>6, <1>7 DEF IInv

LEMMA PolledPreserves ==
    ASSUME IInv, Polled \/ PollAgain
    PROVE  IInv'
<1>1. /\ inputs' = inputs /\ signVars' = signVars /\ scope' = scope /\ caller' = caller
      /\ step' = step /\ sends' = sends /\ netVars' = netVars
    BY DEF Polled, PollAgain
<1>2. /\ step \in 1..4 /\ polls \in 0..MaxPolls /\ sends \in 0..MaxAttempts
      /\ tries \in 0..MaxAttempts
    BY DEF IInv, TypeOK
<1>3. phase = "polling" /\ (request = "asking" => polls < MaxPolls)
    BY DEF IInv, TypeOK, Counters, Polled, PollAgain
<1>4. /\ polls' \in {polls, polls + 1}
      /\ polls' = polls + 1 => request = "asking"
      /\ tries' \in {tries, 0}
      /\ \/ phase' = "returned" /\ request' = "none" /\ status = "confirmed"
         \/ phase' = "failed" /\ request' = "none"
         \/ phase' = phase /\ request' = "sleeping"
         \/ phase' = phase /\ request' = "asking" /\ polls' = polls /\ polls # MaxPolls
             /\ tries' = tries /\ request = "sleeping"
    BY <1>2 DEF Polled, PollAgain, IsConfirmed, PollsMade, Fail
<1>5. TypeOK'
    <2>1. request' \in {"asking", "sleeping", "none"} /\ phase' \in {"returned", "failed", phase}
        BY <1>4
    <2>2. tries' \in 0..MaxAttempts /\ polls' \in 0..MaxPolls
        BY <1>2, <1>3, <1>4
    <2> QED BY <1>1, <1>2, <1>3, <2>1, <2>2, QuietTypes
<1>6. Counters'
    <2>1. \A t \in Transactions : signing'[t] = signing[t] /\ tried'[t] = tried[t]
        BY <1>1 DEF signVars
    <2>2. request # "none" /\ tries < MaxAttempts /\ tries' < MaxAttempts
        BY <1>2, <1>3, <1>4 DEF IInv, Counters
    <2>3. phase' = "polling" /\ request' # "sleeping" => polls' < MaxPolls
        BY <1>2, <1>4
    <2>4. phase' \in {"returned", "failed", "polling"} /\ (phase' # "polling" => request' = "none")
          /\ request' \in {"asking", "sleeping", "none"}
          /\ (phase' = "polling" => request' # "none")
        BY <1>3, <1>4
    <2> QED BY <1>2, <2>1, <2>2, <2>3, <2>4 DEF IInv, Counters
<1>7. Signatures'
    BY <1>1, <1>3, <1>4, SignaturesStay DEF IInv, Ended
<1>8. ReturnedIsConfirmed'
    BY <1>1, <1>3, <1>4 DEF ReturnedIsConfirmed, netVars
<1> QED BY <1>5, <1>6, <1>7, <1>8 DEF IInv

\* After the caller's abort the scope is aborted, while the call lasts.
LEMMA CallerPreserves ==
    ASSUME IInv, CallerAborts
    PROVE  IInv'
<1>1. /\ inputs' = inputs /\ caller' = TRUE /\ step' = step /\ tries' = tries
      /\ signing' = signing /\ tried' = tried /\ payer' = payer /\ asked' = asked
      /\ sends' = sends /\ netVars' = netVars /\ polls' = polls
    BY DEF CallerAborts
<1>2. \/ Ended /\ scope' = scope /\ issued' = issued /\ outcome' = outcome
      \/ ~Ended /\ AbortScope("caller")
    BY DEF CallerAborts
<1>3. \/ request = "sleeping" /\ phase' = "failed" /\ request' = "none"
      \/ request # "sleeping" /\ phase' = phase /\ request' = request
    BY DEF CallerAborts, Fail
<1>4. /\ issued' = issued /\ outcome' \in [Ours -> Ends]
      /\ scope' \in Causes \cup {scope}
      /\ scope # "none" \/ ~Ended => scope' # "none"
      /\ \A u \in Ours : outcome[u] = "signed" => outcome'[u] = "signed"
    <2>1. CASE Ended /\ scope' = scope /\ issued' = issued /\ outcome' = outcome
        BY <2>1 DEF IInv, TypeOK, Ends
    <2>2. CASE ~Ended /\ AbortScope("caller")
        <3>1. "caller" \in Causes /\ "none" \notin Causes
            BY DEF Causes
        <3> QED BY <2>2, <3>1, ScopeAborts DEF IInv
    <2> QED BY <1>2, <2>1, <2>2
<1>5. TypeOK'
    <2>1. CoSignedIn(bundle') = CoSignedIn(bundle)
        BY <1>1 DEF inputs
    <2>2. request' \in {request, "none"} /\ phase' \in {phase, "failed"}
        BY <1>3
    <2>3. scope' \in {"none", "caller", "network", "other"}
        BY <1>4 DEF IInv, TypeOK, Causes
    <2> QED BY <1>1, <1>4, <2>1, <2>2, <2>3 DEF IInv, TypeOK, inputs, netVars, Ends
<1>6. Counters'
    BY <1>1, <1>3 DEF IInv, Counters
<1>7. Signatures'
    <2>1. \A u \in Transactions : SignedByAll(u) => SignedByAll(u)'
        BY <1>1, <1>4 DEF SignedByAll
    <2>2. phase' \in {"calling", "sending", "polling"} => phase' = phase
        BY <1>3
    <2>3. scope' = "none" => Ended /\ Ended'
        <3>1. phase' = phase \/ phase' = "failed"
            BY <1>3
        <3> QED BY <1>4, <3>1 DEF Ended
    <2>4. scope' = "none" => scope = "none"
        BY <1>4
    <2> QED BY <1>1, <2>1, <2>2, <2>3, <2>4 DEF IInv, Signatures, inputs
<1>8. ReturnedIsConfirmed'
    BY <1>1, <1>3 DEF IInv, ReturnedIsConfirmed, inputs, netVars
<1> QED BY <1>5, <1>6, <1>7, <1>8 DEF IInv

\* What is confirmed stays confirmed.
LEMMA NetworkPreserves ==
    ASSUME IInv, NetworkMoves
    PROVE  IInv'
<1>1. /\ inputs' = inputs /\ caller' = caller /\ scope' = scope /\ phase' = phase
      /\ callVars' = callVars /\ signVars' = signVars /\ sends' = sends /\ reached' = reached
      /\ polls' = polls
    BY DEF NetworkMoves
<1>2. /\ status' \in {"unknown", "processed", "confirmed"} /\ expired' \in BOOLEAN
      /\ status = "confirmed" => status' = "confirmed"
    BY DEF NetworkMoves, IInv, TypeOK
<1>3. TypeOK'
    <2>1. CoSignedIn(bundle') = CoSignedIn(bundle)
        BY <1>1 DEF inputs
    <2> QED BY <1>1, <1>2, <2>1 DEF IInv, TypeOK, inputs, callVars, signVars
<1>4. Counters'
    BY <1>1 DEF IInv, Counters, callVars, signVars
<1>5. Signatures'
    BY <1>1, SignaturesStay DEF IInv, Ended
<1>6. ReturnedIsConfirmed'
    BY <1>1, <1>2 DEF IInv, ReturnedIsConfirmed, inputs
<1> QED BY <1>3, <1>4, <1>5, <1>6 DEF IInv

-----------------------------------------------------------------------------
(* Theorems.                                                               *)

LEMMA InitHolds == Init => IInv
<1> SUFFICES ASSUME Init PROVE IInv
    OBVIOUS
<1>1. bundle \in SUBSET Transactions
    <2>1. bundle \in {Transactions} \/ bundle \in {{t} : t \in Transactions}
        BY DEF Init
    <2> QED BY <2>1
<1>2. TypeOK
    <2>1. 0 \in 0..MaxAttempts /\ 0 \in 0..MaxPolls /\ 1 \in 1..4
        OBVIOUS
    <2>2. scope \in {"none", "caller", "network", "other"}
        BY DEF Init
    <2>3. {confirm, caller, reached, expired} \subseteq BOOLEAN
        BY DEF Init
    <2>4. /\ signing \in [Transactions -> {"idle", "asking", "resting", "signed", "failed"}]
          /\ payer \in [Transactions -> {"none", "asked", "signed", "failed"}]
          /\ outcome \in [Ours -> {"none", "signed", "refused", "failed", "aborted"}]
        BY DEF Init
    <2>5. tried \in [Transactions -> 0..MaxAttempts] /\ asked \in [Transactions -> Nat]
        BY <2>1 DEF Init
    <2>6. /\ step \in 1..4 /\ tries \in 0..MaxAttempts /\ polls \in 0..MaxPolls
          /\ sends \in 0..MaxAttempts /\ issued \in {<<>>, CoSignedIn(bundle)}
        BY <2>1 DEF Init
    <2> QED BY <1>1, <2>2, <2>3, <2>4, <2>5, <2>6 DEF Init, TypeOK
<1>3. Counters
    BY DEF Init, Counters
<1>4. Signatures
    BY DEF Init, Signatures, Ended
<1>5. ReturnedIsConfirmed
    BY DEF Init, ReturnedIsConfirmed
<1> QED BY <1>2, <1>3, <1>4, <1>5 DEF IInv

LEMMA NextHolds == IInv /\ [Next]_vars => IInv'
<1> SUFFICES ASSUME IInv, [Next]_vars PROVE IInv'
    OBVIOUS
<1>1. CASE UNCHANGED vars
    <2>1. CoSignedIn(bundle') = CoSignedIn(bundle)
        BY <1>1 DEF vars, inputs
    <2>2. TypeOK'
        BY <1>1, <2>1 DEF vars, inputs, callVars, signVars, netVars, IInv, TypeOK
    <2>3. Counters'
        BY <1>1 DEF vars, callVars, signVars, IInv, Counters
    <2>4. Signatures'
        BY <1>1, SignaturesStay DEF vars, IInv, Ended
    <2>5. ReturnedIsConfirmed'
        BY <1>1 DEF vars, inputs, netVars, IInv, ReturnedIsConfirmed
    <2> QED BY <2>2, <2>3, <2>4, <2>5 DEF IInv
<1>2. CASE Next
    BY <1>2, LostPreserves, RepeatPreserves, PreparedPreserves, RetryPreserves,
       PayerSignsPreserves, PayerFailsPreserves, RejectsPreserves, SettlesPreserves,
       SignedPreserves, AcceptedPreserves, PolledPreserves, CallerPreserves, NetworkPreserves
    DEF Next
<1> QED BY <1>1, <1>2

\* The inductive invariant of a call.
THEOREM LiteInvariant == Spec => []IInv
BY InitHolds, NextHolds, PTL DEF Spec

\* The state of a call always has its types, counters within their limits included.
THEOREM LiteTypeOK == Spec => []TypeOK
<1>1. IInv => TypeOK
    BY DEF IInv
<1> QED BY <1>1, LiteInvariant, PTL

\* No signature of the payer is asked for twice.
THEOREM PayerAskedOnce == Spec => []AskedOnce
<1>1. IInv => AskedOnce
    BY DEF IInv, TypeOK, Signatures, AskedOnce
<1> QED BY <1>1, LiteInvariant, PTL

\* A confirmation that was returned is one.
THEOREM ConfirmationsHold == Spec => []ReturnedIsConfirmed
<1>1. IInv => ReturnedIsConfirmed
    BY DEF IInv
<1> QED BY <1>1, LiteInvariant, PTL

\* Transactions are sent by a last signature, or again.
LEMMA WhoSends ==
    ASSUME IInv, [Next]_vars, sends' # sends
    PROVE  Repeat \/ \E t \in bundle : Signed(t)
<1>1. CASE UNCHANGED vars
    BY <1>1 DEF vars
<1>2. ASSUME NEW t \in bundle, NEW error, SigningFails(t, error) PROVE sends' = sends
    BY <1>2 DEF SigningFails
<1>3. CASE Next
    BY <1>2, <1>3 DEF Next, LosesAnswer, RefusesCall, Prepared, RetrySigning, PayerSigns,
       ManagerRejects, SignaturesMissing, PayerFails, ManagerSettles, Accepted, Polled,
       PollAgain, CallerAborts, NetworkMoves
<1> QED BY <1>1, <1>3

\* A bundle is sent whole, by a call that goes on, and not after an abort.
THEOREM BundlesAreSentWhole == Spec => SentWhole
<1>1. ASSUME IInv, [Next]_vars, sends' # sends
      PROVE  /\ \A t \in bundle : SignedByAll(t)
             /\ sends = 0 => ~caller /\ scope = "none"
             /\ ~Ended
    <2>1. CASE Repeat
        <3>1. phase = "sending" /\ request = "resting"
            BY <1>1, <2>1 DEF Repeat
        <3>2. sends # 0
            BY <1>1, <3>1 DEF IInv, TypeOK, Counters
        <3> QED BY <1>1, <3>1, <3>2 DEF IInv, TypeOK, Signatures, Ended
    <2>2. CASE \E t \in bundle : Signed(t)
        BY <1>1, <2>2, SignedPreserves
    <2> QED BY <1>1, <2>1, <2>2, WhoSends
<1>2. IInv /\ [Next]_vars =>
        [sends' # sends =>
            /\ \A t \in bundle : SignedByAll(t)
            /\ sends = 0 => ~caller /\ scope = "none"
            /\ ~Ended]_vars
    BY <1>1
<1> QED BY <1>2, LiteInvariant, PTL DEF Spec, SentWhole
=============================================================================
