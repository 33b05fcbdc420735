----------------------------- MODULE Proposals -----------------------------
(***************************************************************************)
(* What the staged path promises, without buffers, hashes, signatures or   *)
(* clocks: a proposal collects backing, runs only after it was approved,   *)
(* is approved only when enough of those who may vote at that moment back  *)
(* it, and is gone once it ran.  TransactionBuffers implements this.       *)
(***************************************************************************)
EXTENDS Integers, FiniteSets

CONSTANTS
  Ids,    \* where proposals are kept
  People  \* everybody who may ever vote

VARIABLES
  electorate,  \* who may vote now
  threshold,   \* how many of them have to back a proposal
  stage,       \* "none", "open" or "approved"
  backing      \* backing[id]: who voted for the proposal since it was opened

vars == <<electorate, threshold, stage, backing>>

Stage == {"none", "open", "approved"}

TypeOK ==
  /\ electorate \in SUBSET People
  /\ threshold \in Nat
  /\ stage \in [Ids -> Stage]
  /\ backing \in [Ids -> SUBSET People]

Attainable(E, t) == 0 < t /\ t <= Cardinality(E)

Init ==
  /\ electorate \in SUBSET People
  /\ threshold \in 1..Cardinality(People)
  /\ Attainable(electorate, threshold)
  /\ stage = [id \in Ids |-> "none"]
  /\ backing = [id \in Ids |-> {}]

\* Who opens a proposal backs it, if allowed to vote.
Open(id) ==
  /\ stage[id] = "none"
  /\ stage' = [stage EXCEPT ![id] = "open"]
  /\ \E S \in SUBSET electorate :
       /\ \A a, b \in S : a = b
       /\ backing' = [backing EXCEPT ![id] = S]
  /\ UNCHANGED <<electorate, threshold>>

Back(id) ==
  /\ stage[id] # "none"
  /\ \E k \in electorate : backing' = [backing EXCEPT ![id] = @ \cup {k}]
  /\ UNCHANGED <<electorate, threshold, stage>>

\* Who approves counts for this approval, and is not kept as backing.
Approve(id) ==
  /\ stage[id] # "none"
  /\ \/ Cardinality(electorate \cap backing[id]) >= threshold
     \/ \E k \in electorate :
          Cardinality((electorate \cap backing[id]) \cup {k}) >= threshold
  /\ stage' = [stage EXCEPT ![id] = "approved"]
  /\ UNCHANGED <<electorate, threshold, backing>>

Gone(id) ==
  /\ stage' = [stage EXCEPT ![id] = "none"]
  /\ backing' = [backing EXCEPT ![id] = {}]
  /\ UNCHANGED <<electorate, threshold>>

Run(id) == stage[id] = "approved" /\ Gone(id)

Withdraw(id) == stage[id] # "none" /\ Gone(id)

\* The wallet's members and rights change; what was approved stays approved.
Reconfigure ==
  /\ \E E \in SUBSET People, t \in 1..Cardinality(People) :
       Attainable(E, t) /\ electorate' = E /\ threshold' = t
  /\ UNCHANGED <<stage, backing>>

Next ==
  \/ \E id \in Ids :
       Open(id) \/ Back(id) \/ Approve(id) \/ Run(id) \/ Withdraw(id)
  \/ Reconfigure

Spec == Init /\ [][Next]_vars
=============================================================================
