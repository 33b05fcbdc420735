---------------------- MODULE TransactionBuffersProofs ----------------------
(***************************************************************************)
(* Proofs about TransactionBuffers, for any number of buffers, keys,       *)
(* chunks, plans and settings, and any time limit: what may execute was    *)
(* endorsed, runs once and in time, and the buffers implement Proposals.   *)
(*                                                                         *)
(* Every conjunct of the inductive invariant speaks of one buffer and its  *)
(* record (Sound), and every instruction changes one of them (Framed).     *)
(***************************************************************************)
EXTENDS TransactionBuffers, FiniteSetTheorems, TLAPS

EndorsersIn(h, content) ==
  {k \in Keys : \E e \in h.endorsed : e[1] = k /\ e[2] = content}

\* The keys whose signatures for the content are not too old for the buffer.
InDateIn(h, content) ==
  {k \in Keys :
     \E e \in h.endorsed : e[1] = k /\ e[2] = content /\ InDate(k, e[3], h.started)}

\* What holds of a live buffer b at address id with history h.
Sound(id, b, h) ==
  /\ b.voters \subseteq InDateIn(h, b.final_hash)
  /\ CreatorOf(id) \in EndorsersIn(h, b.final_hash)
  /\ b.executor # NoKey => b.executor \in EndorsersIn(h, b.final_hash)
  /\ b.can_execute \/ b.voters \ {CreatorOf(id)} # {} => Complete(b)
  /\ b.can_execute =>
       /\ h.needed > 0
       /\ Cardinality(h.electorate \cap EndorsersIn(h, b.final_hash)) >= h.needed
       /\ ExpectedKeys(b.expected) \subseteq EndorsersIn(h, b.final_hash)
  /\ h.executions = 0
  /\ b.valid_till = h.started + TimeLimit

AllSound == \A id \in BufferIds : Live(id) => Sound(id, buffers[id], history[id])

\* No buffer was created later than now.
NoneFromLater == \A id \in BufferIds : history[id].started <= now

IInv == TypeOK /\ SettingsInvariant(settings) /\ NoneFromLater /\ AllSound

-----------------------------------------------------------------------------
(* Sets of keys, and the spaces of buffers.                                *)

\* A creator is a key.
LEMMA CreatorIsKey ==
  ASSUME NEW id \in BufferIds
  PROVE  CreatorOf(id) \in Keys
BY BufferAssumption DEF CreatorOf

\* Sets of keys are finite, and more keys are not fewer.
LEMMA KeysCounted ==
  ASSUME NEW S \in SUBSET Keys, NEW T \in SUBSET S
  PROVE  /\ IsFiniteSet(S)
         /\ Cardinality(S) \in Nat
         /\ Cardinality(T) \in Nat
         /\ Cardinality(T) <= Cardinality(S)
<1>1. IsFiniteSet(S)
  BY KeysAssumption, FS_Subset
<1>2. IsFiniteSet(T) /\ Cardinality(T) <= Cardinality(S)
  BY <1>1, FS_Subset
<1> QED BY <1>1, <1>2, FS_CardinalityType

\* The rules a wallet obeys give it a threshold that its voters can reach.
LEMMA ThresholdAttainable ==
  ASSUME NEW s \in Settings, SettingsInvariant(s)
  PROVE  /\ Holders(s, "Vote") \in SUBSET Keys
         /\ s.threshold \in Nat /\ s.threshold > 0
         /\ s.threshold <= Cardinality(Holders(s, "Vote"))
         /\ s.threshold \in 1..Cardinality(Keys)
<1>1. Holders(s, "Vote") \in SUBSET Keys
  BY DEF Holders
<1>2. /\ s.threshold \in Nat /\ s.threshold > 0
      /\ s.threshold <= Cardinality(Holders(s, "Vote"))
  BY DEF SettingsInvariant, Settings
<1>3. Cardinality(Holders(s, "Vote")) <= Cardinality(Keys) /\ Cardinality(Keys) \in Nat
      /\ Cardinality(Holders(s, "Vote")) \in Nat
  BY <1>1, KeysCounted
<1> QED BY <1>1, <1>2, <1>3

\* The space of a new buffer is a number.
LEMMA SpaceIsNat ==
  ASSUME NEW plan \in Plans, NEW expected \in ExpectedChoices
  PROVE  SpaceFor(plan, expected) \in Nat
<1>1. plan.final_size \in Nat /\ plan.extend_hashes \in Seq(Chunks) /\ ChunkBytes \in Nat
  BY BufferAssumption DEF Plan, Message
<1>2. plan.final_size * ChunkBytes \in Nat
  BY <1>1
<1>3. Len(plan.extend_hashes) \in Nat
  BY <1>1
<1>4. Cardinality(ExpectedKeys(expected)) \in Nat
  BY KeysCounted DEF ExpectedKeys
<1> QED BY <1>2, <1>3, <1>4 DEF SpaceFor, HashBytes, MemberKeyBytes

-----------------------------------------------------------------------------
(* One buffer changes.                                                     *)

Framed(id, b, h) ==
  /\ buffers' = [buffers EXCEPT ![id] = b]
  /\ history' = [history EXCEPT ![id] = h]
  /\ UNCHANGED <<settings, now>>

\* A step that leaves one sound buffer, or none, at an address preserves IInv.
LEMMA FramedPreserves ==
  ASSUME IInv, NEW id \in BufferIds, NEW b \in Buffer \cup {NoBuffer}, NEW h \in Record,
         Framed(id, b, h), h.started <= now, b # NoBuffer => Sound(id, b, h)
  PROVE  IInv'
<1>1. TypeOK'
  BY DEF IInv, TypeOK, Framed
<1>2. SettingsInvariant(settings)'
  BY DEF IInv, Framed
<1>3. ASSUME NEW i \in BufferIds, Live(i)' PROVE Sound(i, buffers'[i], history'[i])
  <2>1. CASE i = id
    <3>1. buffers'[i] = b /\ history'[i] = h
      BY <2>1 DEF IInv, TypeOK, Framed
    <3> QED BY <1>3, <2>1, <3>1 DEF Live
  <2>2. CASE i # id
    <3>1. buffers'[i] = buffers[i] /\ history'[i] = history[i]
      BY <2>2 DEF IInv, TypeOK, Framed
    <3>2. Live(i)
      BY <1>3, <3>1 DEF Live
    <3> QED BY <3>1, <3>2 DEF IInv, AllSound
  <2> QED BY <2>1, <2>2
<1>4. AllSound'
  BY <1>3 DEF AllSound
<1>5. NoneFromLater'
  BY DEF NoneFromLater, IInv, TypeOK, Framed
<1> QED BY <1>1, <1>2, <1>4, <1>5 DEF IInv

\* A live buffer has the type of one, and is sound.
LEMMA LiveIsSound ==
  ASSUME IInv, NEW id \in BufferIds, Live(id)
  PROVE  /\ buffers[id] \in Buffer /\ history[id] \in Record
         /\ Sound(id, buffers[id], history[id])
         /\ history[id].started <= now /\ history[id].started \in Nat /\ now \in Nat
<1>1. /\ buffers[id] \in Buffer /\ history[id] \in Record /\ now \in Nat
      /\ Sound(id, buffers[id], history[id])
      /\ history[id].started <= now
  BY DEF IInv, TypeOK, AllSound, NoneFromLater, Live
<1>2. history[id].started \in Nat
  BY <1>1 DEF Record
<1> QED BY <1>1, <1>2

\* A signature that is accepted now is not too old for a buffer there is.
LEMMA AcceptedInDate ==
  ASSUME now \in Nat, NEW k \in Keys, NEW t \in SignedAt(k),
         NEW created \in Nat, created <= now
  PROVE  t \in 0..now /\ InDate(k, t, created)
BY BufferAssumption DEF SignedAt, InDate

\* More endorsements keep a buffer sound.
LEMMA MoreEndorsed ==
  ASSUME NEW id \in BufferIds, NEW b \in Buffer, NEW h \in Record, Sound(id, b, h),
         NEW E \in SUBSET (Keys \X Message \X Nat)
  PROVE  LET more == [h EXCEPT !.endorsed = @ \cup E]
         IN  /\ more \in Record
             /\ EndorsersIn(h, b.final_hash) \subseteq EndorsersIn(more, b.final_hash)
             /\ more.started = h.started
             /\ Sound(id, b, more)
<1> DEFINE more == [h EXCEPT !.endorsed = @ \cup E]
           before == EndorsersIn(h, b.final_hash)
           after  == EndorsersIn(more, b.final_hash)
<1>1. more \in Record
  BY DEF Record
<1>2. /\ more.endorsed = h.endorsed \cup E
      /\ more.started = h.started /\ more.needed = h.needed
      /\ more.electorate = h.electorate /\ more.executions = h.executions
  BY DEF Record
<1>3. before \subseteq after /\ after \subseteq Keys
  BY <1>2 DEF EndorsersIn
<1>4. /\ Cardinality(h.electorate \cap before) <= Cardinality(h.electorate \cap after)
      /\ Cardinality(h.electorate \cap before) \in Nat
      /\ Cardinality(h.electorate \cap after) \in Nat
  <2>1. h.electorate \cap after \in SUBSET Keys
    BY <1>3
  <2>2. h.electorate \cap before \in SUBSET (h.electorate \cap after)
    BY <1>3
  <2> HIDE DEF before, after
  <2> QED BY <2>1, <2>2, KeysCounted
<1>5. h.needed \in Nat
  BY DEF Record
<1> HIDE DEF more, before, after
<1>6. /\ CreatorOf(id) \in after
      /\ b.executor # NoKey => b.executor \in after
      /\ b.can_execute => ExpectedKeys(b.expected) \subseteq after
  BY <1>3 DEF Sound, before
<1>7. b.can_execute => more.needed > 0 /\ Cardinality(more.electorate \cap after) >= more.needed
  BY <1>2, <1>4, <1>5 DEF Sound, before
<1>8. b.voters \subseteq InDateIn(more, b.final_hash)
  BY <1>2 DEF Sound, InDateIn
<1>9. Sound(id, b, more)
  BY <1>2, <1>6, <1>7, <1>8 DEF Sound, after
<1> QED BY <1>1, <1>2, <1>3, <1>9 DEF more, before, after

-----------------------------------------------------------------------------
(* The instructions.                                                       *)

\* A new buffer has the type of one.
LEMMA NewBufferTyped ==
  ASSUME IInv, NEW id \in BufferIds, NEW plan \in Plans, NEW expected \in ExpectedChoices,
         NEW preauthorize \in BOOLEAN
  PROVE  NewBuffer(CreatorOf(id), plan, expected, preauthorize) \in Buffer
<1>1. {CreatorOf(id)} \cap Holders(settings, "Vote") \in SUBSET Keys
  BY CreatorIsKey
<1>2. /\ plan.final_hash \in Message /\ plan.final_size \in Nat
      /\ plan.extend_hashes \in Message /\ expected \in Expected
  BY BufferAssumption DEF Plan
<1>3. now + TimeLimit \in Nat
  BY BufferAssumption DEF IInv, TypeOK
<1>4. << >> \in Message
  BY DEF Message
<1> QED BY <1>1, <1>2, <1>3, <1>4, SpaceIsNat DEF NewBuffer, Buffer

\* Buffers created are sound: the creator signed for the announced message.
LEMMA CreatePreserves ==
  ASSUME IInv, NEW id \in BufferIds, NEW plan \in Plans, NEW expected \in ExpectedChoices,
         NEW preauthorize \in BOOLEAN, NEW t \in 0..now,
         TransactionBufferCreate(id, plan, expected, preauthorize, t)
  PROVE  IInv'
<1> DEFINE creator == CreatorOf(id)
           b == NewBuffer(creator, plan, expected, preauthorize)
           E == {<<creator, plan.final_hash, t>>}
           h == [NoRecord EXCEPT !.endorsed = E, !.started = now]
<1>1. creator \in Keys
  BY CreatorIsKey
<1>2. /\ plan.final_hash \in Message /\ plan.final_size \in Nat
      /\ plan.extend_hashes \in Message /\ expected \in Expected
  BY BufferAssumption DEF Plan
<1>3. now \in Nat
  BY DEF IInv, TypeOK
<1>4. b \in Buffer
  BY NewBufferTyped
<1>5. h \in Record
  <2>1. E \in SUBSET (Keys \X Message \X Nat)
    BY <1>1, <1>2, <1>3
  <2>2. NoRecord \in Record
    BY DEF NoRecord, Record
  <2> HIDE DEF creator, E
  <2> QED BY <1>3, <2>1, <2>2 DEF Record
<1>6. h.endorsed = E /\ h.started = now /\ h.executions = 0
  BY DEF NoRecord
<1>7. /\ b.voters \subseteq {creator} /\ b.final_hash = plan.final_hash /\ b.executor = NoKey
      /\ ~b.can_execute /\ b.valid_till = now + TimeLimit
  BY DEF NewBuffer
<1>8. Framed(id, b, h)
  BY DEF TransactionBufferCreate, Framed
<1>9. InDate(creator, t, now)
  BY <1>1, <1>3, AcceptedInDate DEF TransactionBufferCreate
<1> DEFINE e == <<creator, plan.final_hash, t>>
<1>10. e \in E /\ e[1] = creator /\ e[2] = plan.final_hash /\ e[3] = t
  OBVIOUS
<1> HIDE DEF b, h, e, E
<1>11. creator \in InDateIn(h, b.final_hash) /\ creator \in EndorsersIn(h, b.final_hash)
  BY <1>1, <1>6, <1>7, <1>9, <1>10 DEF InDateIn, EndorsersIn
<1>12. Sound(id, b, h)
  BY <1>6, <1>7, <1>11 DEF Sound
<1> QED BY <1>3, <1>4, <1>5, <1>6, <1>8, <1>12, FramedPreserves

\* A chunk is only appended while the message is incomplete.
LEMMA ExtendPreserves ==
  ASSUME IInv, NEW id \in BufferIds, NEW chunk \in Chunks, TransactionBufferExtend(id, chunk)
  PROVE  IInv'
<1> DEFINE old == buffers[id]
           b == [old EXCEPT !.buffer = Append(@, chunk), !.extend_hashes = Tail(@)]
           h == history[id]
<1>1. Live(id)
  BY DEF TransactionBufferExtend
<1>2. old \in Buffer /\ h \in Record /\ Sound(id, old, h)
  BY <1>1, LiveIsSound
<1>3. ChunkAllowed(old, chunk)
  BY DEF TransactionBufferExtend
<1>4. b \in Buffer
  <2>1. Append(old.buffer, chunk) \in Message /\ Tail(old.extend_hashes) \in Message
    BY <1>2, <1>3 DEF Buffer, Message, ChunkAllowed
  <2> QED BY <1>2, <2>1 DEF Buffer
<1>5. /\ b.voters = old.voters /\ b.final_hash = old.final_hash /\ b.executor = old.executor
      /\ b.can_execute = old.can_execute /\ b.valid_till = old.valid_till
      /\ b.expected = old.expected
  BY <1>2 DEF Buffer
<1>6. ~Complete(old)
  <2>1. Len(old.buffer) \in Nat /\ old.final_size \in Nat
    BY <1>2 DEF Buffer, Message
  <2> QED BY <1>3, <2>1 DEF ChunkAllowed, Complete
<1>7. Framed(id, b, h)
  BY DEF TransactionBufferExtend, Framed, IInv, TypeOK
<1> HIDE DEF old, b, h
<1>8. Sound(id, b, h)
  BY <1>2, <1>5, <1>6 DEF Sound
<1>9. h.started <= now
  BY <1>1, LiveIsSound DEF h
<1> QED BY <1>2, <1>4, <1>7, <1>8, <1>9, FramedPreserves

\* A vote is for the announced message, which the buffer holds.
LEMMA VotePreserves ==
  ASSUME IInv, NEW id \in BufferIds, NEW k \in Keys, NEW t \in 0..now,
         TransactionBufferVote(id, k, t)
  PROVE  IInv'
<1> DEFINE old == buffers[id]
           b == [old EXCEPT !.voters = @ \cup {k}]
           e == <<k, old.buffer, t>>
           E == {e}
           h == [history[id] EXCEPT !.endorsed = @ \cup E]
<1>1. Live(id) /\ Complete(old)
  BY DEF TransactionBufferVote
<1>2. /\ old \in Buffer /\ history[id] \in Record /\ Sound(id, old, history[id])
      /\ history[id].started <= now /\ history[id].started \in Nat /\ now \in Nat
  BY <1>1, LiveIsSound
<1>3. E \in SUBSET (Keys \X Message \X Nat)
  BY <1>2 DEF Buffer
<1>4. h \in Record /\ Sound(id, old, h) /\ h.started = history[id].started
  <2> HIDE DEF old, E
  <2> QED BY <1>2, <1>3, MoreEndorsed
<1>5. b \in Buffer
  BY <1>2 DEF Buffer
<1>6. /\ b.voters = old.voters \cup {k} /\ b.final_hash = old.final_hash
      /\ b.executor = old.executor /\ b.can_execute = old.can_execute
      /\ b.valid_till = old.valid_till /\ b.expected = old.expected
      /\ b.buffer = old.buffer /\ b.final_size = old.final_size
  BY <1>2 DEF Buffer
<1>7. k \in InDateIn(h, old.final_hash)
  <2>1. e \in h.endorsed
    BY <1>2 DEF Record
  <2>2. e[1] = k /\ e[2] = old.final_hash /\ e[3] = t
    BY <1>1 DEF Complete
  <2>3. InDate(k, t, h.started)
    BY <1>2, <1>4, AcceptedInDate DEF TransactionBufferVote
  <2> HIDE DEF e, h, E
  <2> QED BY <2>1, <2>2, <2>3 DEF InDateIn
<1>8. Framed(id, b, h)
  BY DEF TransactionBufferVote, Endorse, Framed, IInv, TypeOK
<1>9. Complete(b)
  BY <1>1, <1>6 DEF Complete
<1> HIDE DEF old, b, h
<1>10. Sound(id, b, h)
  BY <1>4, <1>6, <1>7, <1>9 DEF Sound
<1> QED BY <1>2, <1>4, <1>5, <1>8, <1>10, FramedPreserves

\* An approval counts members who may vote and who signed for the message, and
\* every declared signer is among those who did.
LEMMA ApprovePreserves ==
  ASSUME IInv, NEW id \in BufferIds, Live(id), NEW b \in Buffer, NEW S \in SUBSET Keys,
         b \in {buffers[id]} \cup {[buffers[id] EXCEPT !.executor = k] : k \in S},
         Cardinality(VotesFor(b, S)) >= settings.threshold,
         NEW t \in 0..now, Approve(id, b, S \X {b.buffer} \X {t})
  PROVE  IInv'
<1> DEFINE old == buffers[id]
           c == [b EXCEPT !.can_execute = TRUE]
           E == S \X {b.buffer} \X {t}
           more == [history[id] EXCEPT !.endorsed = @ \cup E]
           voters == Holders(settings, "Vote")
           h == [more EXCEPT !.electorate = voters, !.needed = settings.threshold]
<1>1. /\ old \in Buffer /\ history[id] \in Record /\ Sound(id, old, history[id])
      /\ history[id].started <= now /\ now \in Nat
  BY LiveIsSound
<1>2. Complete(b) /\ ExpectedTookPart(b, CreatorOf(id))
  BY DEF Approve
<1>3. E \in SUBSET (Keys \X Message \X Nat)
  BY <1>1 DEF Buffer
<1>4. more \in Record /\ Sound(id, old, more) /\ more.started = history[id].started
  BY <1>1, <1>3, MoreEndorsed
<1>5. /\ b.voters = old.voters /\ b.final_hash = old.final_hash /\ b.expected = old.expected
      /\ b.valid_till = old.valid_till /\ b.executor \in {old.executor} \cup S
  BY <1>1 DEF Buffer
<1>6. S \subseteq EndorsersIn(more, b.final_hash)
  <2> SUFFICES ASSUME NEW k \in S PROVE k \in EndorsersIn(more, b.final_hash)
    OBVIOUS
  <2> DEFINE e == <<k, b.buffer, t>>
  <2>1. e \in E /\ e[1] = k /\ e[2] = b.final_hash
    BY <1>2 DEF Complete
  <2>2. E \subseteq more.endorsed
    BY <1>1 DEF Record
  <2> HIDE DEF e, E, more
  <2> QED BY <2>1, <2>2 DEF EndorsersIn
<1>7. settings \in Settings /\ SettingsInvariant(settings) /\ now \in Nat
  BY DEF IInv, TypeOK
<1>8. /\ voters \in SUBSET Keys
      /\ settings.threshold \in Nat /\ settings.threshold > 0
  BY <1>7, ThresholdAttainable
<1>9. h \in Record
  BY <1>4, <1>7, <1>8 DEF Record
<1>10. /\ h.endorsed = more.endorsed /\ h.needed = settings.threshold /\ h.electorate = voters
       /\ h.executions = more.executions /\ h.started = more.started
  BY <1>4 DEF Record
<1>11. c \in Buffer
  BY DEF Buffer
<1>12. /\ c.voters = old.voters /\ c.final_hash = old.final_hash /\ c.executor = b.executor
       /\ c.can_execute /\ c.valid_till = old.valid_till /\ c.expected = old.expected
       /\ c.buffer = b.buffer /\ c.final_size = b.final_size
  BY <1>5 DEF Buffer
<1>13. Framed(id, c, h)
  BY DEF Approve, Framed, IInv, TypeOK
<1> DEFINE signed == EndorsersIn(h, c.final_hash)
<1>14. /\ old.voters \subseteq signed /\ CreatorOf(id) \in signed /\ S \subseteq signed
       /\ c.executor # NoKey => c.executor \in signed
       /\ h.executions = 0 /\ c.valid_till = h.started + TimeLimit
       /\ c.voters \subseteq InDateIn(h, c.final_hash)
  <2>1. signed = EndorsersIn(more, old.final_hash)
        /\ InDateIn(h, c.final_hash) = InDateIn(more, old.final_hash)
    BY <1>5, <1>10, <1>12 DEF EndorsersIn, InDateIn
  <2>2. old.voters \subseteq EndorsersIn(more, old.final_hash)
    BY <1>4 DEF Sound, InDateIn, EndorsersIn
  <2> HIDE DEF signed, h, c, more, old
  <2> QED BY <1>4, <1>5, <1>6, <1>10, <1>12, <2>1, <2>2 DEF Sound
<1>15. Cardinality(h.electorate \cap signed) >= h.needed
  <2>1. VotesFor(b, S) \in SUBSET (h.electorate \cap signed)
    BY <1>5, <1>10, <1>14 DEF VotesFor
  <2>2. h.electorate \cap signed \in SUBSET Keys
    BY <1>8, <1>10
  <2>3. Cardinality(VotesFor(b, S)) <= Cardinality(h.electorate \cap signed)
        /\ Cardinality(VotesFor(b, S)) \in Nat /\ Cardinality(h.electorate \cap signed) \in Nat
    BY <2>1, <2>2, KeysCounted
  <2> HIDE DEF signed, h
  <2> QED BY <1>8, <1>10, <2>3
<1>16. ExpectedKeys(c.expected) \subseteq signed
  <2>1. ExpectedKeys(b.expected) \subseteq Keys
    BY DEF ExpectedKeys
  <2>2. ExpectedKeys(b.expected) \subseteq b.voters \cup {CreatorOf(id), b.executor}
    BY <1>2 DEF ExpectedTookPart
  <2>3. NoKey \notin Keys
    BY BufferAssumption
  <2> HIDE DEF signed, h, c
  <2> QED BY <1>5, <1>12, <1>14, <2>1, <2>2, <2>3
<1>17. Complete(c)
  BY <1>2, <1>12 DEF Complete
<1> HIDE DEF c, h, old
<1>18. Sound(id, c, h)
  BY <1>8, <1>10, <1>12, <1>14, <1>15, <1>16, <1>17 DEF Sound
<1> QED BY <1>1, <1>4, <1>9, <1>10, <1>11, <1>13, <1>18, FramedPreserves

\* Executing and closing leave no buffer.
LEMMA ClosePreserves ==
  ASSUME IInv, NEW id \in BufferIds,
         \/ TransactionExecute(id)
         \/ \E by_creator \in BOOLEAN : TransactionBufferClose(id, by_creator)
  PROVE  IInv'
<1>1. history[id] \in Record /\ history[id].started <= now
  BY DEF IInv, TypeOK, NoneFromLater
<1>2. CASE TransactionExecute(id)
  <2> DEFINE h == [history[id] EXCEPT !.executions = @ + 1]
  <2>1. h \in Record /\ h.started = history[id].started
    BY <1>1 DEF Record
  <2>2. Framed(id, NoBuffer, h)
    BY <1>2 DEF TransactionExecute, Framed, IInv, TypeOK
  <2> QED BY <1>1, <2>1, <2>2, FramedPreserves
<1>3. CASE \E by_creator \in BOOLEAN : TransactionBufferClose(id, by_creator)
  <2>1. Framed(id, NoBuffer, history[id])
    BY <1>3 DEF TransactionBufferClose, Framed, IInv, TypeOK
  <2> QED BY <1>1, <2>1, FramedPreserves
<1> QED BY <1>2, <1>3

-----------------------------------------------------------------------------
(* The inductive invariant.                                                *)

LEMMA InitSound == Init => IInv
<1> SUFFICES ASSUME Init PROVE IInv
  OBVIOUS
<1>1. settings \in Settings /\ SettingsInvariant(settings)
  BY BufferAssumption DEF Init
<1>2. NoRecord \in Record
  BY DEF NoRecord, Record
<1>3. TypeOK
  BY <1>1, <1>2 DEF Init, TypeOK
<1>4. AllSound
  BY DEF Init, AllSound, Live
<1>5. NoneFromLater
  BY DEF Init, NoneFromLater, NoRecord
<1> QED BY <1>1, <1>3, <1>4, <1>5 DEF IInv

LEMMA NextSound == IInv /\ [Next]_vars => IInv'
<1> SUFFICES ASSUME IInv, [Next]_vars PROVE IInv'
  OBVIOUS
<1>1. ASSUME NEW id \in BufferIds, NEW plan \in Plans, NEW expected \in ExpectedChoices,
             NEW preauthorize \in BOOLEAN, NEW t \in 0..now,
             TransactionBufferCreate(id, plan, expected, preauthorize, t)
      PROVE  IInv'
  BY <1>1, CreatePreserves
<1>2. ASSUME NEW id \in BufferIds, NEW chunk \in Chunks, TransactionBufferExtend(id, chunk)
      PROVE  IInv'
  BY <1>2, ExtendPreserves
<1>3. ASSUME NEW id \in BufferIds, NEW k \in Keys, NEW t \in 0..now,
             TransactionBufferVote(id, k, t)
      PROVE  IInv'
  BY <1>3, VotePreserves
<1>4. ASSUME NEW id \in BufferIds, TransactionBufferExecutePreauthorized(id)
      PROVE  IInv'
  <2>1. Live(id) /\ buffers[id] \in Buffer
    BY <1>4, LiveIsSound DEF TransactionBufferExecutePreauthorized
  <2>2. {} \X {buffers[id].buffer} \X {0} = {} /\ 0 \in 0..now
    BY <2>1, <1>4 DEF IInv, TypeOK
  <2> QED BY <1>4, <2>1, <2>2, ApprovePreserves DEF TransactionBufferExecutePreauthorized
<1>5. ASSUME NEW id \in BufferIds, NEW k \in Keys, NEW t \in 0..now,
             TransactionBufferExecute(id, k, t)
      PROVE  IInv'
  <2> DEFINE b == [buffers[id] EXCEPT !.executor = k]
  <2>1. Live(id) /\ buffers[id] \in Buffer
    BY <1>5, LiveIsSound DEF TransactionBufferExecute
  <2>2. b \in Buffer /\ b.voters = buffers[id].voters
    BY <2>1 DEF Buffer
  <2>3. Cardinality(VotesFor(b, {k})) >= settings.threshold
    BY <1>5, <2>2 DEF TransactionBufferExecute, VotesFor
  <2>4. Approve(id, b, {k} \X {b.buffer} \X {t})
    <3>1. b.buffer = buffers[id].buffer
      BY <2>1 DEF Buffer
    <3>2. {k} \X {b.buffer} \X {t} = {<<k, buffers[id].buffer, t>>}
      BY <3>1
    <3> QED BY <1>5, <3>2 DEF TransactionBufferExecute
  <2>5. b \in {[buffers[id] EXCEPT !.executor = j] : j \in {k}}
    OBVIOUS
  <2> HIDE DEF b
  <2> QED BY <2>1, <2>2, <2>3, <2>4, <2>5, ApprovePreserves
<1>6. ASSUME NEW id \in BufferIds, TransactionExecute(id)
      PROVE  IInv'
  BY <1>6, ClosePreserves
<1>7. ASSUME NEW id \in BufferIds, NEW by_creator \in BOOLEAN,
             TransactionBufferClose(id, by_creator)
      PROVE  IInv'
  BY <1>7, ClosePreserves
<1>8. CASE ChangeConfig
  BY <1>8, BufferAssumption DEF ChangeConfig, IInv, TypeOK, AllSound, NoneFromLater, Live
<1>9. CASE Tick
  <2>1. TypeOK' /\ SettingsInvariant(settings)' /\ AllSound'
    BY <1>9 DEF Tick, IInv, TypeOK, AllSound, Live
  <2>2. \A id \in BufferIds : history[id].started \in Nat
    BY DEF IInv, TypeOK, Record
  <2>3. NoneFromLater'
    BY <1>9, <2>2 DEF Tick, IInv, TypeOK, NoneFromLater
  <2> QED BY <2>1, <2>3 DEF IInv
<1>10. CASE UNCHANGED vars
  BY <1>10 DEF vars, IInv, TypeOK, AllSound, NoneFromLater, Live
<1> QED
  BY <1>1, <1>2, <1>3, <1>4, <1>5, <1>6, <1>7, <1>8, <1>9, <1>10 DEF Next

\* The inductive invariant of the staged path.
THEOREM BuffersInvariant == Spec => []IInv
BY InitSound, NextSound, PTL DEF Spec

\* The settings, buffers and records always have their types.
THEOREM BuffersTypeOK == Spec => []TypeOK
<1>1. IInv => TypeOK
  BY DEF IInv
<1> QED BY <1>1, BuffersInvariant, PTL

\* The records count as the properties do.
LEMMA SameEndorsers ==
  ASSUME NEW id \in BufferIds, NEW content
  PROVE  Endorsers(id, content) = EndorsersIn(history[id], content)
BY DEF Endorsers, EndorsedAt, EndorsersIn

\* Nothing may execute that fewer members signed for than the threshold asked.
THEOREM ApprovalsAreBacked == Spec => []ApprovalIsBacked
<1>1. IInv => ApprovalIsBacked
  <2> SUFFICES ASSUME IInv, NEW id \in BufferIds, Live(id), buffers[id].can_execute
               PROVE  /\ Complete(buffers[id])
                      /\ history[id].needed > 0
                      /\ Cardinality(history[id].electorate
                                       \cap Endorsers(id, buffers[id].final_hash))
                           >= history[id].needed
    BY DEF ApprovalIsBacked, Complete
  <2>1. Sound(id, buffers[id], history[id])
    BY LiveIsSound
  <2>2. Endorsers(id, buffers[id].final_hash) = EndorsersIn(history[id], buffers[id].final_hash)
    BY SameEndorsers
  <2> QED BY <2>1, <2>2 DEF Sound
<1> QED BY <1>1, BuffersInvariant, PTL

\* Every voter of a buffer signed for its message, an Ed25519 member since it was
\* created and a passkey no longer before than SlotHashes keeps a slot.
THEOREM VotesWereCast == Spec => []VotesAreEndorsements
<1>1. IInv => VotesAreEndorsements
  <2> SUFFICES ASSUME IInv, NEW id \in BufferIds, Live(id), NEW k \in buffers[id].voters
               PROVE  \E t \in EndorsedAt(id, k, buffers[id].final_hash) :
                        InDate(k, t, history[id].started)
    BY DEF VotesAreEndorsements
  <2>1. k \in InDateIn(history[id], buffers[id].final_hash)
    BY LiveIsSound DEF Sound
  <2>2. PICK e \in history[id].endorsed :
          e[1] = k /\ e[2] = buffers[id].final_hash /\ InDate(k, e[3], history[id].started)
    BY <2>1 DEF InDateIn
  <2>3. e[3] \in EndorsedAt(id, k, buffers[id].final_hash)
    BY <2>2 DEF EndorsedAt
  <2> QED BY <2>2, <2>3
<1> QED BY <1>1, BuffersInvariant, PTL

\* Every declared signer of a buffer that may execute signed for its message.
THEOREM DeclaredSignersSigned == Spec => []ExpectedSignersEndorsed
<1>1. IInv => ExpectedSignersEndorsed
  BY LiveIsSound, SameEndorsers DEF ExpectedSignersEndorsed, Sound
<1> QED BY <1>1, BuffersInvariant, PTL

-----------------------------------------------------------------------------
(* What a step may never do.                                               *)

\* Only the execution counts as a run, and it needs a live buffer in time.
LEMMA RunsCounted ==
  ASSUME IInv, [Next]_vars, NEW id \in BufferIds,
         history'[id].executions > history[id].executions
  PROVE  history[id].executions = 0 /\ now <= history[id].started + TimeLimit
<1> DEFINE runs == history[id].executions
<1>1. history \in [BufferIds -> Record] /\ runs \in Nat
  BY DEF IInv, TypeOK, Record
<1>2. ASSUME NEW i \in BufferIds, NEW plan \in Plans, NEW expected \in ExpectedChoices,
             NEW preauthorize \in BOOLEAN, NEW t \in 0..now,
             TransactionBufferCreate(i, plan, expected, preauthorize, t)
      PROVE  FALSE
  <2> DEFINE h == [NoRecord EXCEPT !.endorsed = {<<CreatorOf(i), plan.final_hash, t>>},
                                   !.started = now]
  <2>1. h.executions = 0
    BY DEF NoRecord
  <2>2. history' = [history EXCEPT ![i] = h]
    BY <1>2 DEF TransactionBufferCreate
  <2>3. history[i].executions \in Nat
    BY <1>1 DEF Record
  <2> HIDE DEF h
  <2> QED BY <1>1, <2>1, <2>2, <2>3
<1>3. ASSUME NEW i \in BufferIds, NEW k \in Keys, NEW t \in 0..now,
             TransactionBufferVote(i, k, t)
      PROVE  FALSE
  <2>1. history'[id].executions = history[id].executions
    BY <1>1, <1>3 DEF TransactionBufferVote, Endorse, Record
  <2> QED BY <1>1, <2>1
<1>4. ASSUME NEW i \in BufferIds, NEW b, NEW S, Approve(i, b, S)
      PROVE  FALSE
  <2>1. history'[id].executions = history[id].executions
    BY <1>1, <1>4 DEF Approve, Record
  <2> QED BY <1>1, <2>1
<1>5. ASSUME history' = history PROVE FALSE
  BY <1>1, <1>5
<1>6. ASSUME NEW i \in BufferIds, TransactionExecute(i)
      PROVE  history[id].executions = 0 /\ now <= history[id].started + TimeLimit
  <2>1. i = id
    <3> SUFFICES ASSUME i # id PROVE FALSE
      OBVIOUS
    <3>1. history'[id] = history[id]
      BY <1>1, <1>6 DEF TransactionExecute
    <3> QED BY <1>1, <3>1
  <2>2. Live(id) /\ now <= buffers[id].valid_till
    BY <1>6, <2>1 DEF TransactionExecute
  <2> QED BY <2>2, LiveIsSound DEF Sound
<1> QED
  BY <1>2, <1>3, <1>4, <1>5, <1>6
  DEF Next, vars, TransactionBufferExtend, TransactionBufferExecutePreauthorized,
      TransactionBufferExecute, TransactionBufferClose, ChangeConfig, Tick

\* A proposal runs at most once, and within the time limit of its creation.
THEOREM RunsAtMostOnce == Spec => RunsOnceInTime
<1>1. IInv /\ [Next]_vars =>
        [\A id \in BufferIds :
           history'[id].executions > history[id].executions =>
             /\ history[id].executions = 0
             /\ now <= history[id].started + TimeLimit]_vars
  BY RunsCounted
<1> QED BY <1>1, BuffersInvariant, PTL DEF Spec, RunsOnceInTime

\* A step that leaves a buffer others voted for leaves its message.
LEMMA ContentKept ==
  ASSUME IInv, [Next]_vars, NEW id \in BufferIds, Live(id), buffers'[id] # NoBuffer,
         buffers[id].can_execute \/ buffers[id].voters \ {CreatorOf(id)} # {}
  PROVE  /\ buffers'[id].buffer = buffers[id].buffer
         /\ buffers'[id].final_hash = buffers[id].final_hash
<1> DEFINE Kept == /\ buffers'[id].buffer = buffers[id].buffer
                   /\ buffers'[id].final_hash = buffers[id].final_hash
<1> SUFFICES Kept
  OBVIOUS
<1>1. /\ buffers \in [BufferIds -> Buffer \cup {NoBuffer}]
      /\ buffers[id] \in Buffer
      /\ Complete(buffers[id])
  BY LiveIsSound DEF IInv, TypeOK, Sound
<1>2. ASSUME NEW i \in BufferIds, NEW b, buffers' = [buffers EXCEPT ![i] = b],
             i = id => /\ b.buffer = buffers[i].buffer
                       /\ b.final_hash = buffers[i].final_hash
      PROVE  Kept
  BY <1>1, <1>2
<1>3. ASSUME NEW i \in BufferIds, NEW plan \in Plans, NEW expected \in ExpectedChoices,
             NEW preauthorize \in BOOLEAN, NEW t \in 0..now,
             TransactionBufferCreate(i, plan, expected, preauthorize, t)
      PROVE  Kept
  <2>1. i # id
    BY <1>3 DEF TransactionBufferCreate
  <2> QED BY <1>2, <1>3, <2>1 DEF TransactionBufferCreate
<1>4. ASSUME NEW i \in BufferIds, NEW chunk \in Chunks, TransactionBufferExtend(i, chunk)
      PROVE  Kept
  <2>1. i # id
    <3>1. Len(buffers[id].buffer) \in Nat
      BY <1>1 DEF Buffer, Message
    <3> QED BY <1>1, <1>4, <3>1 DEF TransactionBufferExtend, ChunkAllowed, Complete
  <2> QED BY <1>2, <1>4, <2>1 DEF TransactionBufferExtend
<1>5. ASSUME NEW i \in BufferIds, NEW k \in Keys, NEW t \in 0..now,
             TransactionBufferVote(i, k, t)
      PROVE  Kept
  <2> DEFINE b == [buffers[i] EXCEPT !.voters = @ \cup {k}]
  <2>1. i = id => b.buffer = buffers[i].buffer /\ b.final_hash = buffers[i].final_hash
    BY <1>1 DEF Buffer
  <2>2. buffers' = [buffers EXCEPT ![i] = b]
    BY <1>5 DEF TransactionBufferVote
  <2> HIDE DEF b
  <2> QED BY <1>2, <2>1, <2>2
<1>6. ASSUME NEW i \in BufferIds, TransactionBufferExecutePreauthorized(i)
      PROVE  Kept
  <2> DEFINE b == [buffers[i] EXCEPT !.can_execute = TRUE]
  <2>1. i = id => b.buffer = buffers[i].buffer /\ b.final_hash = buffers[i].final_hash
    BY <1>1 DEF Buffer
  <2>2. buffers' = [buffers EXCEPT ![i] = b]
    BY <1>6 DEF TransactionBufferExecutePreauthorized, Approve
  <2> HIDE DEF b
  <2> QED BY <1>2, <2>1, <2>2
<1>7. ASSUME NEW i \in BufferIds, NEW k \in Keys, NEW t \in 0..now,
             TransactionBufferExecute(i, k, t)
      PROVE  Kept
  <2> DEFINE b == [[buffers[i] EXCEPT !.executor = k] EXCEPT !.can_execute = TRUE]
  <2>1. i = id => b.buffer = buffers[i].buffer /\ b.final_hash = buffers[i].final_hash
    BY <1>1 DEF Buffer
  <2>2. buffers' = [buffers EXCEPT ![i] = b]
    BY <1>7 DEF TransactionBufferExecute, Approve
  <2> HIDE DEF b
  <2> QED BY <1>2, <2>1, <2>2
<1>8. ASSUME NEW i \in BufferIds, buffers' = [buffers EXCEPT ![i] = NoBuffer]
      PROVE  Kept
  BY <1>1, <1>8
<1>9. ASSUME buffers' = buffers PROVE Kept
  BY <1>9
<1> HIDE DEF Kept
<1> QED
  BY <1>3, <1>4, <1>5, <1>6, <1>7, <1>8, <1>9
  DEF Next, vars, TransactionExecute, TransactionBufferClose, ChangeConfig, Tick

\* The message is frozen once somebody else voted, or the execution was approved.
THEOREM MessageIsFrozen == Spec => ContentFrozen
<1>1. IInv /\ [Next]_vars =>
        [\A id \in BufferIds :
           (/\ Live(id)
            /\ buffers'[id] # NoBuffer
            /\ buffers[id].can_execute \/ buffers[id].voters \ {CreatorOf(id)} # {})
           => /\ buffers'[id].buffer = buffers[id].buffer
              /\ buffers'[id].final_hash = buffers[id].final_hash]_vars
  BY ContentKept
<1> QED BY <1>1, BuffersInvariant, PTL DEF Spec, ContentFrozen

-----------------------------------------------------------------------------
(* The buffers implement Proposals.                                        *)

\* The instance counts as this module does.
LEMMA SameCount ==
  ASSUME NEW S
  PROVE  Promise!Cardinality(S) = Cardinality(S)
BY Zenon DEF Promise!Cardinality, Cardinality

\* Only the stage and the backing of one proposal change with one buffer.
LEMMA OneProposal ==
  ASSUME IInv, NEW id \in BufferIds, NEW b \in Buffer \cup {NoBuffer},
         buffers' = [buffers EXCEPT ![id] = b], settings' = settings
  PROVE  /\ [i \in BufferIds |-> Stage(i)]' =
              [[i \in BufferIds |-> Stage(i)] EXCEPT
                 ![id] = IF b = NoBuffer THEN "none"
                         ELSE IF b.can_execute THEN "approved" ELSE "open"]
         /\ [i \in BufferIds |-> Backing(i)]' =
              [[i \in BufferIds |-> Backing(i)] EXCEPT
                 ![id] = IF b = NoBuffer THEN {} ELSE b.voters]
         /\ Holders(settings, "Vote")' = Holders(settings, "Vote")
         /\ (settings.threshold)' = settings.threshold
<1>1. buffers'[id] = b /\ \A i \in BufferIds \ {id} : buffers'[i] = buffers[i]
  BY DEF IInv, TypeOK
<1>2. \A i \in BufferIds \ {id} : Stage(i)' = Stage(i) /\ Backing(i)' = Backing(i)
  BY <1>1 DEF Stage, Backing, Live
<1>3. /\ Stage(id)' = IF b = NoBuffer THEN "none"
                      ELSE IF b.can_execute THEN "approved" ELSE "open"
      /\ Backing(id)' = IF b = NoBuffer THEN {} ELSE b.voters
  BY <1>1 DEF Stage, Backing, Live
<1> HIDE DEF Stage, Backing
<1> QED BY <1>2, <1>3

\* Initially there are no proposals, and the threshold can be reached.
LEMMA InitImplements == Init => Promise!Init
<1> SUFFICES ASSUME Init PROVE Promise!Init
  OBVIOUS
<1>1. settings \in Settings /\ SettingsInvariant(settings)
  BY BufferAssumption DEF Init
<1>2. Promise!Attainable(Holders(settings, "Vote"), settings.threshold)
  BY <1>1, ThresholdAttainable, SameCount DEF Promise!Attainable
<1>3. \A id \in BufferIds : ~Live(id)
  BY DEF Init, Live
<1>4. [id \in BufferIds |-> Stage(id)] = [id \in BufferIds |-> "none"]
  BY <1>3 DEF Stage
<1>5. [id \in BufferIds |-> Backing(id)] = [id \in BufferIds |-> {}]
  BY <1>3 DEF Backing
<1> QED BY <1>1, <1>2, <1>4, <1>5, ThresholdAttainable, SameCount DEF Promise!Init

\* A buffer created is a proposal opened, backed by nobody but its creator.
LEMMA CreateOpens ==
  ASSUME IInv, NEW id \in BufferIds, NEW plan \in Plans, NEW expected \in ExpectedChoices,
         NEW preauthorize \in BOOLEAN, NEW t \in 0..now,
         TransactionBufferCreate(id, plan, expected, preauthorize, t)
  PROVE  Promise!Open(id)
<1> DEFINE b == NewBuffer(CreatorOf(id), plan, expected, preauthorize)
           S == {CreatorOf(id)} \cap Holders(settings, "Vote")
<1>1. /\ ~Live(id) /\ settings' = settings
      /\ buffers' = [buffers EXCEPT ![id] = b]
  BY DEF TransactionBufferCreate
<1>2. b \in Buffer
  BY NewBufferTyped
<1>3. b # NoBuffer /\ ~b.can_execute /\ b.voters = S
  BY <1>2, NoBufferAssumption DEF NewBuffer
<1>4. Stage(id) = "none" /\ S \in SUBSET Holders(settings, "Vote") /\ \A x, y \in S : x = y
  BY <1>1 DEF Stage
<1> HIDE DEF b, S
<1> QED BY <1>1, <1>2, <1>3, <1>4, OneProposal DEF Promise!Open

\* A chunk uploaded is no step of a proposal.
LEMMA ExtendStutters ==
  ASSUME IInv, NEW id \in BufferIds, NEW chunk \in Chunks, TransactionBufferExtend(id, chunk)
  PROVE  UNCHANGED Promise!vars
<1> DEFINE b == [buffers[id] EXCEPT !.buffer = Append(@, chunk), !.extend_hashes = Tail(@)]
<1>1. Live(id) /\ settings' = settings /\ buffers' = [buffers EXCEPT ![id] = b]
  BY DEF TransactionBufferExtend
<1>2. buffers[id] \in Buffer
  BY <1>1, LiveIsSound
<1>3. b.voters = buffers[id].voters /\ b.can_execute = buffers[id].can_execute
  BY <1>2 DEF Buffer
<1>4. b \in Buffer /\ b # NoBuffer
  <2>1. ChunkAllowed(buffers[id], chunk)
    BY DEF TransactionBufferExtend
  <2>2. /\ Append(buffers[id].buffer, chunk) \in Message
        /\ Tail(buffers[id].extend_hashes) \in Message
    BY <1>2, <2>1 DEF Buffer, Message, ChunkAllowed
  <2>3. b \in Buffer
    BY <1>2, <2>2 DEF Buffer
  <2> QED BY <2>3, NoBufferAssumption
<1> HIDE DEF b
<1>5. /\ Stage(id) = IF b.can_execute THEN "approved" ELSE "open"
      /\ Backing(id) = b.voters
  BY <1>1, <1>3 DEF Stage, Backing
<1>6. /\ [i \in BufferIds |-> Stage(i)]' =
           [[i \in BufferIds |-> Stage(i)] EXCEPT
              ![id] = IF b = NoBuffer THEN "none"
                      ELSE IF b.can_execute THEN "approved" ELSE "open"]
      /\ [i \in BufferIds |-> Backing(i)]' =
           [[i \in BufferIds |-> Backing(i)] EXCEPT
              ![id] = IF b = NoBuffer THEN {} ELSE b.voters]
      /\ UNCHANGED <<Holders(settings, "Vote"), settings.threshold>>
  BY <1>1, <1>4, OneProposal
<1>7. /\ UNCHANGED [i \in BufferIds |-> Stage(i)]
      /\ UNCHANGED [i \in BufferIds |-> Backing(i)]
  BY <1>4, <1>5, <1>6
<1> QED BY <1>6, <1>7 DEF Promise!vars

\* A vote backs the proposal.
LEMMA VoteBacks ==
  ASSUME IInv, NEW id \in BufferIds, NEW k \in Keys, NEW t \in 0..now,
         TransactionBufferVote(id, k, t)
  PROVE  Promise!Back(id)
<1> DEFINE b == [buffers[id] EXCEPT !.voters = @ \cup {k}]
<1>1. /\ Live(id) /\ settings' = settings /\ buffers' = [buffers EXCEPT ![id] = b]
      /\ k \in Holders(settings, "Vote")
  BY DEF TransactionBufferVote
<1>2. buffers[id] \in Buffer
  BY <1>1, LiveIsSound
<1>3. b \in Buffer /\ b # NoBuffer
  BY <1>2, NoBufferAssumption DEF Buffer
<1>4. b.voters = Backing(id) \cup {k} /\ b.can_execute = buffers[id].can_execute
  BY <1>1, <1>2 DEF Buffer, Backing
<1>5. /\ Stage(id) # "none"
      /\ Stage(id) = IF b.can_execute THEN "approved" ELSE "open"
  BY <1>1, <1>4 DEF Stage
<1> HIDE DEF b
<1>6. /\ [i \in BufferIds |-> Stage(i)]' =
           [[i \in BufferIds |-> Stage(i)] EXCEPT
              ![id] = IF b = NoBuffer THEN "none"
                      ELSE IF b.can_execute THEN "approved" ELSE "open"]
      /\ [i \in BufferIds |-> Backing(i)]' =
           [[i \in BufferIds |-> Backing(i)] EXCEPT
              ![id] = IF b = NoBuffer THEN {} ELSE b.voters]
      /\ UNCHANGED <<Holders(settings, "Vote"), settings.threshold>>
  BY <1>1, <1>3, OneProposal
<1>7. /\ UNCHANGED [i \in BufferIds |-> Stage(i)]
      /\ [i \in BufferIds |-> Backing(i)]' =
           [[i \in BufferIds |-> Backing(i)] EXCEPT ![id] = Backing(id) \cup {k}]
  BY <1>3, <1>4, <1>5, <1>6
<1> QED BY <1>1, <1>5, <1>6, <1>7 DEF Promise!Back

\* An approval is backed by enough of the members who may vote now.
LEMMA ApproveApproves ==
  ASSUME IInv, NEW id \in BufferIds, Live(id), NEW b \in Buffer,
         b.voters = buffers[id].voters, NEW S \in SUBSET Keys, \A j, k \in S : j = k,
         Cardinality(VotesFor(b, S)) >= settings.threshold, NEW endorsements,
         Approve(id, b, endorsements)
  PROVE  Promise!Approve(id)
<1> DEFINE c == [b EXCEPT !.can_execute = TRUE]
           voters == Holders(settings, "Vote")
<1>1. settings' = settings /\ buffers' = [buffers EXCEPT ![id] = c]
  BY DEF Approve
<1>2. c \in Buffer /\ c # NoBuffer /\ c.can_execute /\ c.voters = Backing(id)
  BY NoBufferAssumption DEF Buffer, Backing
<1>3. Stage(id) # "none"
  BY DEF Stage
<1>4. \/ Cardinality(voters \cap Backing(id)) >= settings.threshold
      \/ \E k \in voters :
           Cardinality((voters \cap Backing(id)) \cup {k}) >= settings.threshold
  <2>1. CASE S \cap voters = {}
    <3>1. VotesFor(b, S) = voters \cap Backing(id)
      BY <2>1 DEF VotesFor, Backing
    <3> QED BY <3>1
  <2>2. CASE S \cap voters # {}
    <3>1. PICK k \in S : k \in voters
      BY <2>2
    <3>2. S = {k}
      BY <3>1
    <3>3. VotesFor(b, S) = (voters \cap Backing(id)) \cup {k}
      BY <3>1, <3>2 DEF VotesFor, Backing
    <3> QED BY <3>1, <3>3
  <2> QED BY <2>1, <2>2
<1> HIDE DEF c
<1>5. /\ [i \in BufferIds |-> Stage(i)]' =
           [[i \in BufferIds |-> Stage(i)] EXCEPT ![id] = "approved"]
      /\ [i \in BufferIds |-> Backing(i)]' =
           [[i \in BufferIds |-> Backing(i)] EXCEPT ![id] = Backing(id)]
      /\ UNCHANGED <<Holders(settings, "Vote"), settings.threshold>>
  BY <1>1, <1>2, OneProposal
<1>6. UNCHANGED [i \in BufferIds |-> Backing(i)]
  BY <1>5
<1>7. \/ Promise!Cardinality(voters \cap Backing(id)) >= settings.threshold
      \/ \E k \in voters :
           Promise!Cardinality((voters \cap Backing(id)) \cup {k}) >= settings.threshold
  BY <1>4, SameCount
<1> HIDE DEF voters
<1> QED BY <1>3, <1>5, <1>6, <1>7 DEF Promise!Approve, voters

\* A buffer that is closed is a proposal that is gone.
LEMMA CloseIsGone ==
  ASSUME IInv, NEW id \in BufferIds, buffers' = [buffers EXCEPT ![id] = NoBuffer],
         settings' = settings
  PROVE  Promise!Gone(id)
BY OneProposal DEF Promise!Gone

LEMMA NextImplements == IInv /\ [Next]_vars => [Promise!Next]_Promise!vars
<1> SUFFICES ASSUME IInv, [Next]_vars PROVE [Promise!Next]_Promise!vars
  OBVIOUS
<1>1. ASSUME NEW id \in BufferIds, NEW plan \in Plans, NEW expected \in ExpectedChoices,
             NEW preauthorize \in BOOLEAN, NEW t \in 0..now,
             TransactionBufferCreate(id, plan, expected, preauthorize, t)
      PROVE  Promise!Next
  BY <1>1, CreateOpens DEF Promise!Next
<1>2. ASSUME NEW id \in BufferIds, NEW chunk \in Chunks, TransactionBufferExtend(id, chunk)
      PROVE  UNCHANGED Promise!vars
  BY <1>2, ExtendStutters
<1>3. ASSUME NEW id \in BufferIds, NEW k \in Keys, NEW t \in 0..now,
             TransactionBufferVote(id, k, t)
      PROVE  Promise!Next
  BY <1>3, VoteBacks DEF Promise!Next
<1>4. ASSUME NEW id \in BufferIds, TransactionBufferExecutePreauthorized(id)
      PROVE  Promise!Next
  <2>1. Live(id) /\ buffers[id] \in Buffer
    BY <1>4, LiveIsSound DEF TransactionBufferExecutePreauthorized
  <2>2. Promise!Approve(id)
    BY <1>4, <2>1, ApproveApproves DEF TransactionBufferExecutePreauthorized
  <2> QED BY <2>2 DEF Promise!Next
<1>5. ASSUME NEW id \in BufferIds, NEW k \in Keys, NEW t \in 0..now,
             TransactionBufferExecute(id, k, t)
      PROVE  Promise!Next
  <2> DEFINE b == [buffers[id] EXCEPT !.executor = k]
  <2>1. Live(id) /\ buffers[id] \in Buffer
    BY <1>5, LiveIsSound DEF TransactionBufferExecute
  <2>2. b \in Buffer /\ b.voters = buffers[id].voters
    BY <2>1 DEF Buffer
  <2>3. Cardinality(VotesFor(b, {k})) >= settings.threshold
    BY <1>5, <2>2 DEF TransactionBufferExecute, VotesFor
  <2>4. Approve(id, b, {<<k, buffers[id].buffer, t>>})
    BY <1>5 DEF TransactionBufferExecute
  <2> HIDE DEF b
  <2>5. Promise!Approve(id)
    BY <2>1, <2>2, <2>3, <2>4, ApproveApproves
  <2> QED BY <2>5 DEF Promise!Next
<1>6. ASSUME NEW id \in BufferIds, TransactionExecute(id)
      PROVE  Promise!Next
  <2>1. Stage(id) = "approved"
    BY <1>6 DEF TransactionExecute, Stage
  <2>2. Promise!Gone(id)
    BY <1>6, CloseIsGone DEF TransactionExecute
  <2>3. Promise!Run(id)
    BY <2>1, <2>2 DEF Promise!Run
  <2> QED BY <2>3 DEF Promise!Next
<1>7. ASSUME NEW id \in BufferIds, NEW by_creator \in BOOLEAN,
             TransactionBufferClose(id, by_creator)
      PROVE  Promise!Next
  <2>1. Stage(id) # "none"
    BY <1>7 DEF TransactionBufferClose, Stage
  <2>2. Promise!Gone(id)
    BY <1>7, CloseIsGone DEF TransactionBufferClose
  <2>3. Promise!Withdraw(id)
    BY <2>1, <2>2 DEF Promise!Withdraw
  <2> QED BY <2>3 DEF Promise!Next
<1>8. ASSUME ChangeConfig PROVE Promise!Next
  <2>1. settings' \in Settings /\ SettingsInvariant(settings')
    BY <1>8, BufferAssumption DEF ChangeConfig
  <2>2. /\ Holders(settings', "Vote") \in SUBSET Keys
        /\ settings'.threshold \in 1..Promise!Cardinality(Keys)
        /\ Promise!Attainable(Holders(settings', "Vote"), settings'.threshold)
    BY <2>1, ThresholdAttainable, SameCount DEF Promise!Attainable
  <2>3. UNCHANGED <<[i \in BufferIds |-> Stage(i)], [i \in BufferIds |-> Backing(i)]>>
    BY <1>8 DEF ChangeConfig, Stage, Backing, Live
  <2>4. Promise!Reconfigure
    BY <2>2, <2>3 DEF Promise!Reconfigure
  <2> QED BY <2>4 DEF Promise!Next
<1>9. ASSUME settings' = settings, buffers' = buffers PROVE UNCHANGED Promise!vars
  BY <1>9 DEF Promise!vars, Stage, Backing, Live
<1> QED
  BY <1>1, <1>2, <1>3, <1>4, <1>5, <1>6, <1>7, <1>8, <1>9 DEF Next, Tick, vars

\* The buffers keep the promise of Proposals.
THEOREM BuffersKeepThePromise == Spec => ImplementsProposals
BY InitImplements, NextImplements, BuffersInvariant, PTL
DEF Spec, ImplementsProposals, Promise!Spec
=============================================================================
