--------------------------- MODULE ShmRingProofs ---------------------------
(***************************************************************************)
(* Proofs about ShmRing for any number of readers, any ring size and any   *)
(* number of messages, with timeouts, exceptions and shutdowns allowed.    *)
(***************************************************************************)
EXTENDS ShmRing, SequenceTheorems, TLAPS

\* The chunk of the k-th message published.
Slot(k) == (k - 1) % MaxChunks
Busy == wpc \in {"data", "reset"}

\* Where the indices are: both are the number of chunks passed, modulo the ring.
Indices == /\ widx = Slot(Len(sent) + 1)
           /\ \A r \in Locals : ridx[r] = Slot(taken[r] + 1)

\* The writer is at most a ring ahead, and less while it holds a chunk.
Ahead == \A r \in Locals :
             /\ taken[r] <= Len(sent)
             /\ Len(sent) - taken[r] <= MaxChunks
             /\ Busy => Len(sent) - taken[r] < MaxChunks

\* A message a reader has still to read is in its chunk, marked unread.
Unread == \A r \in Locals : \A k \in 1..Len(sent) : taken[r] < k =>
              /\ data[Slot(k)] = Encode(sent[k])
              /\ written[Slot(k)]
              /\ ~read[Slot(k)][r]

\* A chunk of the current lap a reader is done with is either being rewritten
\* or marked read by it; a chunk no message has used is not marked written.
Done == \A k \in (Len(sent) - MaxChunks + 1)..Len(sent) :
            IF k < 1 THEN ~written[Slot(k + MaxChunks)]
            ELSE \A r \in Locals :
                     k <= taken[r] /\ written[Slot(k)] => read[Slot(k)][r]

\* The chunk in the writer's hands.
InHand == /\ Busy => ~written[widx]
          /\ wpc = "reset" => /\ data[widx] = Encode(wmsg)
                              /\ \A r \in cleared : ~read[widx][r]
          /\ wpc # "idle" => wmsg \in Messages

\* A read flag loaded as unread cannot meet a written flag of an earlier lap.
FlagFresh == \A r \in Locals :
                 rpc[r] = "written" /\ ~rflag[r] /\ taken[r] = Len(sent)
                     => ~written[widx]

\* A reader in a chunk has a message to read, and what it decoded is the chunk.
InChunk == \A r \in Locals : rpc[r] \in {"data", "mark"} =>
               /\ taken[r] < Len(sent)
               /\ rpc[r] = "mark" =>
                      rval[r] \in {data[ridx[r]], Broken(data[ridx[r]])}

RingCore == /\ Indices /\ Ahead /\ Unread /\ Done /\ InHand
            /\ FlagFresh /\ InChunk
RingInv == TypeOK /\ RingCore

-----------------------------------------------------------------------------
(* Arithmetic of the ring.                                                 *)

\* The remainder is determined by any decomposition.
LEMMA RemainderUnique ==
    ASSUME NEW n \in Nat, NEW q \in Nat, NEW e \in 0..(MaxChunks - 1),
           n = MaxChunks * q + e
    PROVE  n % MaxChunks = e
  BY RingAssumption, Z3

\* Euclid's decomposition.
LEMMA Decompose ==
    ASSUME NEW n \in Nat
    PROVE  /\ n = MaxChunks * (n \div MaxChunks) + (n % MaxChunks)
           /\ n \div MaxChunks \in Nat
           /\ n % MaxChunks \in 0..(MaxChunks - 1)
  BY RingAssumption, Z3

\* A positive multiple of the ring size is no smaller than it.
LEMMA MultipleGE ==
    ASSUME NEW q \in Int, q >= 1 PROVE MaxChunks * q >= MaxChunks
  BY RingAssumption, Z3

\* Multiplication by the number of chunks distributes over a difference.
LEMMA Distribute ==
    ASSUME NEW a \in Int, NEW b \in Int
    PROVE  MaxChunks * a - MaxChunks * b = MaxChunks * (a - b)
  BY RingAssumption, Z3

\* Slots are slots.
LEMMA SlotRange == ASSUME NEW k \in Nat \ {0} PROVE Slot(k) \in Slots
  BY Decompose, k - 1 \in Nat DEF Slot, Slots

\* current_idx = (current_idx + 1) % max_chunks moves to the next message's slot.
LEMMA SlotNext ==
    ASSUME NEW k \in Nat \ {0} PROVE NextIdx(Slot(k)) = Slot(k + 1)
<1> DEFINE n == k - 1  q == n \div MaxChunks  e == n % MaxChunks
<1>1. n \in Nat OBVIOUS
<1>2. n = MaxChunks * q + e /\ q \in Nat /\ e \in 0..(MaxChunks - 1)
  BY <1>1, Decompose
<1>3. Slot(k) = e /\ Slot(k + 1) = (n + 1) % MaxChunks BY DEF Slot
<1> HIDE DEF n, q, e
<1>4. CASE e + 1 < MaxChunks
  <2>1. n + 1 = MaxChunks * q + (e + 1) BY <1>1, <1>2, RingAssumption
  <2>2. (n + 1) % MaxChunks = e + 1
    BY <2>1, <1>1, <1>2, <1>4, RingAssumption, RemainderUnique
  <2>3. (e + 1) % MaxChunks = e + 1 BY <1>2, <1>4, RingAssumption
  <2> QED BY <2>2, <2>3, <1>3 DEF NextIdx
<1>5. CASE e + 1 = MaxChunks
  <2>1. n + 1 = MaxChunks * (q + 1) + 0 BY <1>1, <1>2, <1>5, RingAssumption
  <2>2. (n + 1) % MaxChunks = 0
    BY <2>1, <1>1, <1>2, RingAssumption, RemainderUnique
  <2>3. (e + 1) % MaxChunks = 0 BY <1>5, RingAssumption
  <2> QED BY <2>2, <2>3, <1>3 DEF NextIdx
<1> QED BY <1>2, <1>4, <1>5, RingAssumption

\* Messages less than a ring apart have different slots.
LEMMA SlotDistinct ==
    ASSUME NEW i \in Nat \ {0}, NEW j \in Nat \ {0}, i < j, j - i < MaxChunks
    PROVE  Slot(i) # Slot(j)
<1> DEFINE m == i - 1  n == j - 1
           a == m \div MaxChunks  b == n \div MaxChunks
<1> SUFFICES ASSUME m % MaxChunks = n % MaxChunks PROVE FALSE BY DEF Slot
<1>0. m \in Nat /\ n \in Nat /\ n - m = j - i OBVIOUS
<1>1. m = MaxChunks * a + (m % MaxChunks) /\ a \in Nat /\ m % MaxChunks \in Nat
  BY <1>0, Decompose, RingAssumption
<1>2. n = MaxChunks * b + (n % MaxChunks) /\ b \in Nat
  BY <1>0, Decompose
<1> HIDE DEF a, b, m, n
<1>3. MaxChunks * b - MaxChunks * a = MaxChunks * (b - a)
  BY <1>1, <1>2, Distribute
<1>4. MaxChunks * a \in Int /\ MaxChunks * b \in Int /\ MaxChunks * (b - a) \in Int
  BY <1>1, <1>2, RingAssumption
<1>5. MaxChunks * (b - a) = j - i BY <1>0, <1>1, <1>2, <1>3, <1>4
<1>6. CASE b - a >= 1
  <2>1. MaxChunks \in Nat BY RingAssumption
  <2>2. MaxChunks * (b - a) >= MaxChunks BY <1>6, MultipleGE, <1>1, <1>2
  <2> QED BY <2>1, <2>2, <1>5
<1>7. CASE b - a = 0
  <2>1. MaxChunks * (b - a) = 0 BY <1>7, RingAssumption
  <2> QED BY <2>1, <1>5
<1>8. CASE b - a < 0
  <2>1. MaxChunks * (a - b) >= MaxChunks BY <1>8, MultipleGE, <1>1, <1>2
  <2>2. MaxChunks * (a - b) = MaxChunks * a - MaxChunks * b
    BY Distribute, <1>1, <1>2
  <2> QED BY <2>1, <2>2, <1>3, <1>4, <1>5, RingAssumption
<1> QED BY <1>6, <1>7, <1>8, <1>1, <1>2

\* A lap later the slot is the same.
LEMMA SlotLap ==
    ASSUME NEW k \in Nat \ {0} PROVE Slot(k + MaxChunks) = Slot(k)
<1> DEFINE n == k - 1  q == n \div MaxChunks  e == n % MaxChunks
<1>1. n \in Nat OBVIOUS
<1>2. n = MaxChunks * q + e /\ q \in Nat /\ e \in 0..(MaxChunks - 1)
  BY <1>1, Decompose
<1>3. Slot(k) = e /\ Slot(k + MaxChunks) = (n + MaxChunks) % MaxChunks
  BY RingAssumption DEF Slot
<1> HIDE DEF n, q, e
<1>4. n + MaxChunks = MaxChunks * (q + 1) + e BY <1>1, <1>2, RingAssumption
<1>5. n + MaxChunks \in Nat BY <1>1, RingAssumption
<1>6. (n + MaxChunks) % MaxChunks = e
  BY <1>2, <1>4, <1>5, RemainderUnique
<1> QED BY <1>3, <1>6

-----------------------------------------------------------------------------
(* The type invariant.                                                     *)

USE DEF ring, writer, readers

\* NextIdx stays in the ring.
LEMMA NextIdxType == ASSUME NEW i \in Slots PROVE NextIdx(i) \in Slots
  BY RingAssumption DEF NextIdx, Slots

\* The ring starts in its types.
LEMMA InitType == Init => TypeOK
  BY RingAssumption DEF Init, TypeOK, Chunks, Slots, Values, WriterPC, ReaderPC,
     Torn

\* Every step of the writer keeps the types.
LEMMA WriterType ==
    ASSUME TypeOK, InHand, Enqueue \/ WriterStep PROVE TypeOK'
<1>1. CASE Enqueue
  BY <1>1, RingAssumption DEF Enqueue, TypeOK, WriterPC
<1>2. CASE AcquireWrite
  BY <1>2 DEF AcquireWrite, TypeOK, WriterPC, Chunks
<1>3. CASE WriteTimeout
  BY <1>3 DEF WriteTimeout, TypeOK, WriterPC
<1>4. CASE WriteData
  <2>1. Encode(wmsg) \in Chunks BY <1>4 DEF WriteData, InHand, Encode, Chunks
  <2> QED BY <1>4, <2>1 DEF WriteData, TypeOK, WriterPC
<1>5. CASE WriteRaises
  BY <1>5 DEF WriteRaises, TypeOK, WriterPC
<1>6. ASSUME NEW r \in Locals, ResetReadFlag(r) PROVE TypeOK'
  BY <1>6 DEF ResetReadFlag, TypeOK
<1>7. CASE Publish
  <2>1. wmsg \in Messages BY <1>7 DEF Publish, MayPublish, InHand
  <2>2. NextIdx(widx) \in Slots BY NextIdxType DEF TypeOK
  <2>3. sent' \in Seq(Messages) BY <1>7, <2>1 DEF Publish, TypeOK
  <2> QED BY <1>7, <2>2, <2>3 DEF Publish, TypeOK, WriterPC
<1>8. CASE SendOverflow
  <2>1. wmsg \in Messages BY <1>8 DEF SendOverflow, InHand
  <2>2. sock' \in [Readers -> Seq(Messages)]
    BY <1>8, <2>1 DEF SendOverflow, TypeOK
  <2> QED BY <1>8, <2>2 DEF SendOverflow, TypeOK, WriterPC
<1>9. CASE Notify
  BY <1>9 DEF Notify, TypeOK, WriterPC
<1>10. CASE SendRemote
  <2>1. wmsg \in Messages BY <1>10 DEF SendRemote, InHand
  <2>2. sock' \in [Readers -> Seq(Messages)]
    BY <1>10, <2>1 DEF SendRemote, TypeOK
  <2> QED BY <1>10, <2>2 DEF SendRemote, TypeOK, WriterPC
<1> QED BY <1>1, <1>2, <1>3, <1>4, <1>5, <1>6, <1>7, <1>8, <1>9, <1>10
        DEF WriterStep

\* Every step of a reader keeps the types.
LEMMA ReaderType ==
    ASSUME TypeOK, Unread, InChunk, Indices,
           NEW r \in Readers, ReaderStep(r) \/ Shutdown(r)
    PROVE  TypeOK'
<1>1. CASE Dequeue(r)
  BY <1>1 DEF Dequeue, Goto, TypeOK, ReaderPC
<1>2. CASE r \in Locals /\ LoadReadFlag(r)
  BY <1>2 DEF LoadReadFlag, Goto, TypeOK, ReaderPC
<1>3. CASE r \in Locals /\ AcquireRead(r)
  BY <1>3 DEF AcquireRead, Goto, TypeOK, ReaderPC
<1>4. CASE r \in Locals /\ NothingToRead(r)
  BY <1>4 DEF NothingToRead, Goto, TypeOK, ReaderPC
<1>5. CASE r \in Locals /\ Unpark(r)
  BY <1>5 DEF Unpark, Goto, TypeOK, ReaderPC
<1>6. CASE r \in Locals /\ Woken(r)
  BY <1>6 DEF Woken, Goto, TypeOK, ReaderPC
<1>7. CASE r \in Locals /\ ReadTimeout(r)
  BY <1>7 DEF ReadTimeout, Goto, TypeOK, ReaderPC
<1>8. CASE r \in Locals /\ ReadData(r)
  <2>1. data[ridx[r]] \in Chunks BY <1>8 DEF TypeOK
  <2>2. data[ridx[r]].kind = "inline" => \E m \in Messages : data[ridx[r]] = Inline(m)
    BY <2>1 DEF Chunks, Torn, Overflow
  <2>3. rval'[r] \in Values /\ rval' = [rval EXCEPT ![r] = rval'[r]]
    BY <1>8, <2>1, <2>2 DEF ReadData, Values, TypeOK
  <2> HIDE DEF Values
  <2> QED BY <1>8, <2>3 DEF ReadData, Goto, TypeOK, ReaderPC
<1>9. CASE r \in Locals /\ MarkRead(r)
  <2>1. taken[r] + 1 \in 1..Len(sent) /\ ridx[r] = Slot(taken[r] + 1)
    BY <1>9 DEF InChunk, MarkRead, Indices, TypeOK
  <2>2. data[ridx[r]] = Encode(sent[taken[r] + 1]) BY <2>1, <1>9 DEF Unread, TypeOK
  <2>3. rval[r] \in {data[ridx[r]], Broken(data[ridx[r]])}
    BY <1>9 DEF InChunk, MarkRead
  <2>4. sent[taken[r] + 1] \in Messages BY <2>1 DEF TypeOK
  <2> DEFINE m == sent[taken[r] + 1]
  <2>5. rval[r].kind = "overflow" \/ Outcome(rval[r]) \in Outcomes
    <3>1. CASE m \in Overflowing
      <4>1. data[ridx[r]] = Overflow BY <2>2, <3>1 DEF Encode
      <4>2. Broken(Overflow) \notin Values
        <5>1. \A v \in Values : v.kind = "raised" => v.id \in Messages
          BY DEF Values, Chunks, Torn, Overflow, Inline, Broken
        <5>2. 0 \notin Messages BY RingAssumption DEF Messages
        <5>3. Broken(Overflow).kind = "raised" /\ Broken(Overflow).id = 0
          BY DEF Broken, Overflow
        <5> QED BY <5>1, <5>2, <5>3
      <4>3. rval[r] \in Values BY <1>9 DEF TypeOK
      <4> QED BY <2>3, <4>1, <4>2, <4>3 DEF Overflow
    <3>2. CASE m \notin Overflowing
      <4>1. data[ridx[r]] = Inline(m) BY <2>2, <3>2 DEF Encode
      <4> QED BY <2>3, <2>4, <4>1 DEF Inline, Broken, Outcome, Outcomes
    <3> QED BY <3>1, <3>2
  <2> HIDE DEF m
  <2>6. NextIdx(ridx[r]) \in Slots BY <1>9, NextIdxType DEF TypeOK
  <2>7. got' \in [Readers -> Seq(Outcomes)]
    <3>1. CASE rval[r].kind = "overflow" BY <1>9, <3>1 DEF MarkRead, TypeOK
    <3>2. CASE rval[r].kind # "overflow"
      <4>1. got[r] \in Seq(Outcomes) BY DEF TypeOK
      <4>2. Append(got[r], Outcome(rval[r])) \in Seq(Outcomes)
        BY <4>1, <2>5, <3>2
      <4> QED BY <1>9, <3>2, <4>2 DEF MarkRead, TypeOK
    <3> QED BY <3>1, <3>2
  <2>8. read' \in [Slots -> [Locals -> BOOLEAN]] BY <1>9 DEF MarkRead, Mark, TypeOK
  <2>9. rpc' \in [Readers -> ReaderPC] BY <1>9 DEF MarkRead, Goto, TypeOK, ReaderPC
  <2>10. taken' \in [Readers -> Nat] BY <1>9 DEF MarkRead, TypeOK
  <2>11. ridx' \in [Locals -> Slots] BY <1>9, <2>6 DEF MarkRead, TypeOK
  <2> HIDE DEF Outcomes, Values
  <2> QED BY <1>9, <2>7, <2>8, <2>9, <2>10, <2>11 DEF MarkRead, TypeOK
<1>10. CASE Recv(r)
  <2>1. Head(sock[r]) \in Messages /\ Tail(sock[r]) \in Seq(Messages)
    BY <1>10, HeadTailProperties DEF Recv, TypeOK
  <2>2. sock' \in [Readers -> Seq(Messages)] BY <1>10, <2>1 DEF Recv, TypeOK
  <2>3. got' \in [Readers -> Seq(Outcomes)]
    <3>1. [id |-> Head(sock[r]), ok |-> TRUE] \in Outcomes BY <2>1 DEF Outcomes
    <3>2. Append(got[r], [id |-> Head(sock[r]), ok |-> TRUE]) \in Seq(Outcomes)
      BY <3>1 DEF TypeOK
    <3> QED BY <1>10, <3>2 DEF Recv, TypeOK
  <2>4. taken' \in [Readers -> Nat] BY <1>10 DEF Recv, TypeOK
  <2> QED BY <1>10, <2>2, <2>3, <2>4 DEF Recv, Goto, TypeOK, ReaderPC
<1>11. CASE RecvTimeout(r)
  BY <1>11 DEF RecvTimeout, Goto, TypeOK, ReaderPC
<1>12. CASE Shutdown(r)
  BY <1>12 DEF Shutdown, TypeOK
<1> QED BY <1>1, <1>2, <1>3, <1>4, <1>5, <1>6, <1>7, <1>8, <1>9, <1>10, <1>11,
           <1>12 DEF ReaderStep, LocalStep

-----------------------------------------------------------------------------
(* The ring invariant.                                                     *)

\* The ring invariant holds of a new, empty ring.
LEMMA InitRing == Init => RingCore
<1> SUFFICES ASSUME Init PROVE RingCore OBVIOUS
<1>1. Len(sent) = 0 /\ \A r \in Locals : taken[r] = 0 BY DEF Init, Readers
<1>2. Slot(1) = 0 BY RingAssumption DEF Slot
<1>3. Indices BY <1>1, <1>2 DEF Indices, Init
<1>4. Ahead BY <1>1, RingAssumption DEF Ahead, Init, Busy
<1>5. Unread BY <1>1 DEF Unread
<1>6. Done
  <2>1. \A k \in (0 - MaxChunks + 1)..0 :
            k < 1 /\ k + MaxChunks \in Nat \ {0}
    BY RingAssumption
  <2> QED BY <1>1, <2>1, SlotRange, RingAssumption DEF Done, Init
<1>7. InHand /\ FlagFresh /\ InChunk
  BY DEF InHand, FlagFresh, InChunk, Init, Busy, Readers
<1> QED BY <1>3, <1>4, <1>5, <1>6, <1>7 DEF RingCore

\* Steps that touch neither the ring nor the indices, and take nobody into a
\* chunk, keep the ring invariant.
LEMMA Quiet ==
    ASSUME RingCore,
           UNCHANGED <<data, written, read, widx, cleared, sent, ridx, rflag,
                       rval>>,
           \A r \in Locals : taken'[r] = taken[r],
           \A r \in Locals : rpc'[r] \in {"written", "data", "mark"}
                                 => rpc'[r] = rpc[r],
           \/ wpc' = wpc /\ wmsg' = wmsg
           \/ wpc' \notin {"data", "reset"}
              /\ (wpc' # "idle" => wmsg' \in Messages)
    PROVE  RingCore'
<1>1. Indices' BY DEF RingCore, Indices
<1>2. Ahead' BY DEF RingCore, Ahead, Busy
<1>3. Unread' BY DEF RingCore, Unread
<1>4. Done' BY DEF RingCore, Done
<1>5. InHand' BY DEF RingCore, InHand, Busy
<1>6. FlagFresh' BY DEF RingCore, FlagFresh
<1>7. InChunk' BY DEF RingCore, InChunk
<1> QED BY <1>1, <1>2, <1>3, <1>4, <1>5, <1>6, <1>7 DEF RingCore

\* What the indices say, with the numbers typed.
LEMMA Facts ==
    ASSUME TypeOK, RingCore
    PROVE  /\ Len(sent) \in Nat
           /\ widx = Slot(Len(sent) + 1) /\ widx \in Slots
           /\ \A r \in Locals : /\ taken[r] \in Nat
                                /\ ridx[r] = Slot(taken[r] + 1)
                                /\ ridx[r] \in Slots
                                /\ taken[r] <= Len(sent)
                                /\ Len(sent) - taken[r] <= MaxChunks
           /\ \A k \in 1..Len(sent) : Slot(k) \in Slots
  BY SlotRange DEF TypeOK, RingCore, Indices, Ahead, Readers

\* The chunk a writer may take is one every reader is done with: a reader a
\* whole ring behind has not marked it.
LEMMA WritableFree ==
    ASSUME TypeOK, RingCore, Writable, NEW r \in Locals
    PROVE  Len(sent) - taken[r] < MaxChunks
<1> SUFFICES ASSUME Len(sent) - taken[r] = MaxChunks PROVE FALSE BY Facts, RingAssumption
<1> DEFINE k == taken[r] + 1
<1>1. k \in Nat \ {0} /\ k + MaxChunks = Len(sent) + 1 /\ k \in 1..Len(sent)
  BY Facts, RingAssumption
<1>2. Slot(k) = widx BY <1>1, SlotLap, Facts
<1>3. written[widx] /\ ~read[widx][r]
  BY <1>1, <1>2, Facts DEF RingCore, Unread
<1> QED BY <1>3 DEF Writable

\* While no reader is a whole ring behind, the writer's next chunk holds no
\* message anybody has still to read.
LEMMA WriterAlone ==
    ASSUME TypeOK, RingCore, NEW r \in Locals, Len(sent) - taken[r] < MaxChunks,
           NEW k \in 1..Len(sent), taken[r] < k
    PROVE  Slot(k) # widx
<1>1. k \in Nat \ {0} /\ Len(sent) + 1 \in Nat \ {0} /\ k < Len(sent) + 1
      /\ Len(sent) + 1 - k < MaxChunks
  BY Facts, RingAssumption
<1> QED BY <1>1, SlotDistinct, Facts

\* acquire_write entering its chunk: the chunk is free for every reader, so
\* clearing the written flag disturbs none.
LEMMA AcquireWriteRing ==
    ASSUME TypeOK, RingCore, AcquireWrite PROVE RingCore'
<1> USE DEF AcquireWrite
<1>0. \A r \in Locals : Len(sent) - taken[r] < MaxChunks BY WritableFree
<1>1. Indices' BY DEF RingCore, Indices
<1>2. Ahead' BY <1>0 DEF RingCore, Ahead, Busy
<1>3. Unread'
  <2> SUFFICES ASSUME NEW r \in Locals, NEW k \in 1..Len(sent), taken[r] < k
               PROVE  /\ data'[Slot(k)] = Encode(sent[k])
                      /\ written'[Slot(k)] /\ ~read[Slot(k)][r]
    BY DEF Unread
  <2>1. Slot(k) # widx /\ Slot(k) \in Slots BY <1>0, WriterAlone, Facts
  <2> QED BY <2>1 DEF RingCore, Unread, TypeOK
<1>4. Done'
  <2>1. \A x \in Slots : written'[x] => written[x] BY DEF TypeOK
  <2>2. \A k \in (Len(sent) - MaxChunks + 1)..Len(sent) :
            IF k < 1 THEN Slot(k + MaxChunks) \in Slots ELSE Slot(k) \in Slots
    BY SlotRange, Facts, RingAssumption
  <2> QED BY <2>1, <2>2 DEF RingCore, Done
<1>5. InHand' BY Facts DEF RingCore, InHand, Busy, TypeOK
<1>6. FlagFresh'
  BY Facts DEF RingCore, FlagFresh, TypeOK
<1>7. InChunk'
  <2> SUFFICES ASSUME NEW r \in Locals, rpc[r] \in {"data", "mark"}
               PROVE  /\ taken[r] < Len(sent)
                      /\ rpc[r] = "mark" =>
                            rval[r] \in {data'[ridx[r]], Broken(data'[ridx[r]])}
    BY DEF InChunk
  <2>1. taken[r] < Len(sent) BY DEF RingCore, InChunk
  <2>2. taken[r] + 1 \in 1..Len(sent) BY <2>1, Facts
  <2>3. ridx[r] # widx BY <1>0, <2>2, WriterAlone, Facts
  <2> QED BY <2>1, <2>3, Facts DEF RingCore, InChunk, TypeOK
<1> QED BY <1>1, <1>2, <1>3, <1>4, <1>5, <1>6, <1>7 DEF RingCore

\* The writer filling its chunk, which no reader may read.
LEMMA WriteDataRing ==
    ASSUME TypeOK, RingCore, WriteData PROVE RingCore'
<1> USE DEF WriteData
<1>0. \A r \in Locals : Len(sent) - taken[r] < MaxChunks
  BY DEF RingCore, Ahead, Busy
<1>1. Indices' BY DEF RingCore, Indices
<1>2. Ahead' BY <1>0 DEF RingCore, Ahead, Busy
<1>3. Unread'
  <2> SUFFICES ASSUME NEW r \in Locals, NEW k \in 1..Len(sent), taken[r] < k
               PROVE  /\ data'[Slot(k)] = Encode(sent[k])
                      /\ written[Slot(k)] /\ ~read[Slot(k)][r]
    BY DEF Unread
  <2>1. Slot(k) # widx /\ Slot(k) \in Slots BY <1>0, WriterAlone, Facts
  <2> QED BY <2>1 DEF RingCore, Unread, TypeOK
<1>4. Done' BY DEF RingCore, Done
<1>5. InHand' BY Facts DEF RingCore, InHand, Busy, TypeOK
<1>6. FlagFresh' BY DEF RingCore, FlagFresh
<1>7. InChunk'
  <2> SUFFICES ASSUME NEW r \in Locals, rpc[r] \in {"data", "mark"}
               PROVE  /\ taken[r] < Len(sent)
                      /\ rpc[r] = "mark" =>
                            rval[r] \in {data'[ridx[r]], Broken(data'[ridx[r]])}
    BY DEF InChunk
  <2>1. taken[r] < Len(sent) BY DEF RingCore, InChunk
  <2>2. taken[r] + 1 \in 1..Len(sent) BY <2>1, Facts
  <2>3. ridx[r] # widx BY <1>0, <2>2, WriterAlone, Facts
  <2> QED BY <2>1, <2>3, Facts DEF RingCore, InChunk, TypeOK
<1> QED BY <1>1, <1>2, <1>3, <1>4, <1>5, <1>6, <1>7 DEF RingCore

\* The writer clearing one read flag of the chunk it holds.
LEMMA ResetReadFlagRing ==
    ASSUME TypeOK, RingCore, NEW q \in Locals, ResetReadFlag(q) PROVE RingCore'
<1> USE DEF ResetReadFlag
<1>0. \A r \in Locals : Len(sent) - taken[r] < MaxChunks
  BY DEF RingCore, Ahead, Busy
<1>1. Indices' BY DEF RingCore, Indices
<1>2. Ahead' BY DEF RingCore, Ahead, Busy
<1>3. \A x \in Slots : x # widx => read'[x] = read[x] BY DEF TypeOK
<1>4. Unread'
  <2> SUFFICES ASSUME NEW r \in Locals, NEW k \in 1..Len(sent), taken[r] < k
               PROVE  /\ data[Slot(k)] = Encode(sent[k])
                      /\ written[Slot(k)] /\ ~read'[Slot(k)][r]
    BY DEF Unread
  <2>1. Slot(k) # widx /\ Slot(k) \in Slots BY <1>0, WriterAlone, Facts
  <2> QED BY <2>1, <1>3 DEF RingCore, Unread
<1>5. Done'
  <2>1. \A k \in 1..Len(sent) : written[Slot(k)] => read'[Slot(k)] = read[Slot(k)]
    BY <1>3, Facts DEF RingCore, InHand, Busy
  <2> QED BY <2>1, Facts, RingAssumption DEF RingCore, Done
<1>6. InHand'
  BY Facts DEF RingCore, InHand, Busy, TypeOK
<1>7. FlagFresh' BY DEF RingCore, FlagFresh
<1>8. InChunk' BY DEF RingCore, InChunk
<1> QED BY <1>1, <1>2, <1>4, <1>5, <1>6, <1>7, <1>8 DEF RingCore

\* The writer setting the written flag: the chunk becomes the last unread one
\* of every reader and the write index moves on.
LEMMA PublishRing ==
    ASSUME TypeOK, RingCore, Publish PROVE RingCore'
<1> USE DEF Publish, MayPublish
<1> DEFINE n == Len(sent)
<1>0. n \in Nat /\ widx = Slot(n + 1) /\ widx \in Slots /\ wmsg \in Messages
  BY Facts DEF RingCore, InHand
<1>1. Len(sent') = n + 1 /\ sent'[n + 1] = wmsg
      /\ \A k \in 1..n : sent'[k] = sent[k]
  BY <1>0 DEF TypeOK
<1>2. \A r \in Locals : n - taken[r] < MaxChunks /\ taken[r] \in Nat
                        /\ taken[r] <= n
  BY Facts DEF RingCore, Ahead, Busy
<1>3. Indices'
  BY <1>0, <1>1, SlotNext DEF RingCore, Indices
<1>4. Ahead' BY <1>0, <1>1, <1>2, RingAssumption DEF Ahead, Busy
<1>5. Unread'
  <2> SUFFICES ASSUME NEW r \in Locals, NEW k \in 1..(n + 1), taken[r] < k
               PROVE  /\ data[Slot(k)] = Encode(sent'[k])
                      /\ written'[Slot(k)] /\ ~read[Slot(k)][r]
    BY <1>1 DEF Unread
  <2>1. CASE k = n + 1
    BY <2>1, <1>0, <1>1 DEF RingCore, InHand, TypeOK
  <2>2. CASE k \in 1..n
    <3>1. Slot(k) # widx /\ Slot(k) \in Slots BY <2>2, <1>2, WriterAlone, Facts
    <3> QED BY <2>2, <3>1, <1>1 DEF RingCore, Unread, TypeOK
  <2> QED BY <2>1, <2>2, <1>0
<1>6. Done'
  <2> SUFFICES ASSUME NEW k \in (Len(sent') - MaxChunks + 1)..Len(sent')
               PROVE  IF k < 1 THEN ~written'[Slot(k + MaxChunks)]
                      ELSE \A r \in Locals : k <= taken[r] /\ written'[Slot(k)]
                                                 => read[Slot(k)][r]
    BY DEF Done
  <2>0. k \in (n + 1 - MaxChunks + 1)..(n + 1) 
    BY ONLY <1>0, <1>1, RingAssumption, k \in (Len(sent') - MaxChunks + 1)..Len(sent')
  <2>1. CASE k = n + 1 BY <2>1, <2>0, <1>0, <1>2
  <2>2. CASE k \in (n - MaxChunks + 1)..n /\ k # n - MaxChunks + 1
    <3>1. CASE k < 1
      <4> DEFINE i == n + 1  j == k + MaxChunks
      <4>1. i \in Nat \ {0} /\ j \in Nat \ {0} /\ i < j /\ j - i < MaxChunks
        BY <2>2, <3>1, <1>0, RingAssumption
      <4> HIDE DEF i, j
      <4>2. Slot(j) # Slot(i) /\ Slot(j) \in Slots
        BY <4>1, SlotDistinct, SlotRange
      <4>3. Slot(j) # widx BY <4>2, <1>0 DEF i
      <4>4. ~written[Slot(j)] BY <3>1, <2>2 DEF RingCore, Done, j
      <4>5. ~written'[Slot(j)] BY <4>2, <4>3, <4>4 DEF TypeOK
      <4> QED BY <3>1, <4>5 DEF j
    <3>2. CASE k >= 1
      <4>1. k \in Nat \ {0} /\ k < n + 1 /\ n + 1 - k < MaxChunks
            /\ n + 1 \in Nat \ {0}
        BY <2>2, <3>2, <1>0, RingAssumption
      <4>2. Slot(k) # widx /\ Slot(k) \in Slots
        BY <4>1, <1>0, SlotDistinct, SlotRange
      <4> QED BY <3>2, <2>2, <4>2 DEF RingCore, Done, TypeOK
    <3> QED BY <3>1, <3>2, <2>2, <1>0, RingAssumption
  <2> QED BY <2>0, <2>1, <2>2, <1>0, RingAssumption
<1>7. InHand' BY DEF RingCore, InHand, Busy
<1>8. FlagFresh' BY <1>1, <1>2, <1>0 DEF FlagFresh
<1>9. InChunk' BY <1>1, <1>0, <1>2 DEF RingCore, InChunk
<1> QED BY <1>3, <1>4, <1>5, <1>6, <1>7, <1>8, <1>9 DEF RingCore

\* A reader with nothing to read finds its chunk unwritten or marked by itself.
LEMMA NothingFresh ==
    ASSUME TypeOK, RingCore, NEW r \in Locals, taken[r] = Len(sent),
           written[widx]
    PROVE  read[widx][r]
<1> DEFINE k == Len(sent) + 1 - MaxChunks
<1>1. k \in (Len(sent) - MaxChunks + 1)..Len(sent) BY Facts, RingAssumption
<1>2. k + MaxChunks = Len(sent) + 1 BY Facts, RingAssumption
<1>3. CASE k < 1 BY <1>1, <1>2, <1>3, Facts DEF RingCore, Done
<1>4. CASE k >= 1
  <2>1. Slot(k) = widx BY <1>1, <1>2, <1>4, SlotLap, Facts, RingAssumption
  <2>2. k <= taken[r] BY <1>1, Facts, RingAssumption
  <2> HIDE DEF k
  <2> QED BY <1>1, <1>4, <2>1, <2>2 DEF RingCore, Done
<1> QED BY <1>1, <1>3, <1>4, Facts, RingAssumption

\* A reader loading the flags of its chunk.
LEMMA LoadReadFlagRing ==
    ASSUME TypeOK, RingCore, NEW q \in Locals, LoadReadFlag(q) PROVE RingCore'
<1> USE DEF LoadReadFlag, Goto
<1>1. Indices' /\ Ahead' /\ Unread' /\ Done' /\ InHand'
  BY DEF RingCore, Indices, Ahead, Unread, Done, InHand, Busy
<1>2. FlagFresh'
  <2> SUFFICES ASSUME NEW r \in Locals, rpc'[r] = "written", ~rflag'[r],
                      taken[r] = Len(sent)
               PROVE  ~written[widx]
    BY DEF FlagFresh
  <2>1. CASE r = q
    <3>1. ridx[r] = widx BY Facts
    <3>2. ~read[widx][r] BY <2>1, <3>1 DEF TypeOK
    <3> QED BY <3>2, NothingFresh
  <2>2. CASE r # q
    BY <2>2 DEF RingCore, FlagFresh, TypeOK, Readers
  <2> QED BY <2>1, <2>2
<1>3. InChunk' BY DEF RingCore, InChunk, TypeOK, Readers
<1> QED BY <1>1, <1>2, <1>3 DEF RingCore

\* acquire_read entering a chunk that was written and not yet read.
LEMMA AcquireReadRing ==
    ASSUME TypeOK, RingCore, NEW q \in Locals, AcquireRead(q) PROVE RingCore'
<1> USE DEF AcquireRead, Goto, Readable
<1>1. Indices' /\ Ahead' /\ Unread' /\ Done' /\ InHand'
  BY DEF RingCore, Indices, Ahead, Unread, Done, InHand, Busy
<1>2. FlagFresh' BY DEF RingCore, FlagFresh, TypeOK, Readers
<1>3. taken[q] < Len(sent)
  <2> SUFFICES ASSUME taken[q] = Len(sent) PROVE FALSE BY Facts
  <2>1. ridx[q] = widx BY Facts
  <2> QED BY <2>1 DEF RingCore, FlagFresh
<1>4. InChunk' BY <1>3 DEF RingCore, InChunk, TypeOK, Readers
<1> QED BY <1>1, <1>2, <1>4 DEF RingCore

\* A reader copying the chunk it is in.
LEMMA ReadDataRing ==
    ASSUME TypeOK, RingCore, NEW q \in Locals, ReadData(q) PROVE RingCore'
<1> USE DEF ReadData, Goto
<1>1. Indices' /\ Ahead' /\ Unread' /\ Done' /\ InHand'
  BY DEF RingCore, Indices, Ahead, Unread, Done, InHand, Busy
<1>2. FlagFresh' BY DEF RingCore, FlagFresh, TypeOK, Readers
<1>3. rval'[q] \in {data[ridx[q]], Broken(data[ridx[q]])}
      /\ \A r \in Locals : r # q => rval'[r] = rval[r]
  BY DEF TypeOK
<1>4. InChunk' BY <1>3 DEF RingCore, InChunk, TypeOK, Readers
<1> QED BY <1>1, <1>2, <1>4 DEF RingCore

\* A reader setting its read flag and moving its read index on.
LEMMA MarkReadRing ==
    ASSUME TypeOK, RingCore, NEW q \in Locals, MarkRead(q) PROVE RingCore'
<1> USE DEF MarkRead, Goto, Mark
<1> DEFINE t == taken[q] + 1
<1>0. taken[q] < Len(sent) BY DEF RingCore, InChunk
<1>1. t \in Nat \ {0} /\ t \in 1..Len(sent) /\ ridx[q] = Slot(t)
      /\ Slot(t) \in Slots
  BY <1>0, Facts
<1>2. /\ taken'[q] = t
      /\ \A r \in Locals : r # q => taken'[r] = taken[r]
  BY DEF TypeOK, Readers
<1>3. /\ \A x \in Slots, r \in Locals : r # q => read'[x][r] = read[x][r]
      /\ \A x \in Slots : x # Slot(t) => read'[x][q] = read[x][q]
      /\ read'[Slot(t)][q]
  BY <1>1 DEF TypeOK
<1>4. /\ rpc'[q] \in {"recv", "idle"}
      /\ \A r \in Locals : r # q => rpc'[r] = rpc[r]
  BY DEF TypeOK, Readers
<1>5. Indices'
  <2>1. ridx'[q] = Slot(t + 1) BY <1>1, SlotNext DEF TypeOK
  <2>2. \A r \in Locals : r # q => ridx'[r] = ridx[r] BY DEF TypeOK
  <2>3. ridx'[q] = Slot(taken'[q] + 1) BY <2>1, <1>2
  <2>4. \A r \in Locals : ridx'[r] = Slot(taken'[r] + 1)
    BY <1>2, <2>2, <2>3, Facts
  <2> QED BY <2>4 DEF RingCore, Indices
<1>6. Ahead'
  <2>1. \A r \in Locals : r # q => /\ taken'[r] <= Len(sent)
                                   /\ Len(sent) - taken'[r] <= MaxChunks
                                   /\ Busy => Len(sent) - taken'[r] < MaxChunks
    BY <1>2 DEF RingCore, Ahead
  <2>2. /\ t <= Len(sent) /\ Len(sent) - t <= MaxChunks
        /\ Busy => Len(sent) - t < MaxChunks
    BY <1>0, Facts, RingAssumption
  <2> QED BY <1>2, <2>1, <2>2 DEF Ahead, Busy
<1>7. Unread'
  <2> SUFFICES ASSUME NEW r \in Locals, NEW k \in 1..Len(sent), taken'[r] < k
               PROVE  /\ data[Slot(k)] = Encode(sent[k])
                      /\ written[Slot(k)] /\ ~read'[Slot(k)][r]
    BY DEF Unread
  <2>1. CASE r # q BY <2>1, <1>2, <1>3, Facts DEF RingCore, Unread
  <2>2. CASE r = q
    <3>1. t < k /\ k - t < MaxChunks /\ k \in Nat \ {0}
      BY <2>2, <1>1, <1>2, Facts, RingAssumption
    <3>2. Slot(k) # Slot(t) /\ Slot(k) \in Slots
      BY <3>1, <1>1, SlotDistinct, Facts
    <3>3. taken[q] < k BY <3>1, Facts
    <3> QED BY <2>2, <3>2, <3>3, <1>3 DEF RingCore, Unread
  <2> QED BY <2>1, <2>2
<1>8. Done'
  <2> SUFFICES ASSUME NEW k \in (Len(sent) - MaxChunks + 1)..Len(sent), k >= 1,
                      NEW r \in Locals, k <= taken'[r], written[Slot(k)]
               PROVE  read'[Slot(k)][r]
    BY Facts, RingAssumption DEF RingCore, Done
  <2>0. Slot(k) \in Slots BY Facts, RingAssumption
  <2>1. CASE k <= taken[r]
    <3>0. ~(k < 1) BY Facts, RingAssumption
    <3>1. read[Slot(k)][r] BY <2>1, <3>0 DEF RingCore, Done
    <3> QED BY <3>1, <2>0, <1>3
  <2>2. CASE r = q /\ k = t BY <2>2, <1>3
  <2>3. k \in Int /\ taken[r] \in Nat BY Facts, RingAssumption
  <2>4. CASE r = q BY <2>1, <2>2, <2>3, <2>4, <1>2
  <2>5. CASE r # q BY <2>1, <2>5, <1>2
  <2> QED BY <2>4, <2>5
<1>9. InHand'
  <2>1. wpc = "reset" => widx # Slot(t)
    <3>1. wpc = "reset" => Len(sent) - taken[q] < MaxChunks
      BY DEF RingCore, Ahead, Busy
    <3>2. taken[q] < t BY Facts
    <3> HIDE DEF t
    <3> QED BY <3>1, <3>2, <1>1, WriterAlone
  <2>2. \A r \in cleared : r \in Locals BY DEF TypeOK
  <2> QED BY <2>1, <2>2, <1>3, Facts DEF RingCore, InHand, Busy
<1>10. FlagFresh' BY <1>2, <1>4 DEF RingCore, FlagFresh
<1>11. InChunk'
  <2>1. \A r \in Locals : r # q => ridx'[r] = ridx[r] BY DEF TypeOK
  <2> QED BY <2>1, <1>2, <1>4 DEF RingCore, InChunk
<1> QED BY <1>5, <1>6, <1>7, <1>8, <1>9, <1>10, <1>11 DEF RingCore

-----------------------------------------------------------------------------
(* The theorems.                                                           *)

\* Every step of enqueue keeps the ring invariant.
LEMMA WriterRing ==
    ASSUME TypeOK, RingCore, Enqueue \/ WriterStep PROVE RingCore'
<1>0. wpc # "idle" => wmsg \in Messages BY DEF RingCore, InHand
<1>1. CASE Enqueue
  <2>1. wmsg' \in Messages
    BY <1>1, RingAssumption DEF Enqueue, TypeOK, Messages
  <2> QED BY <1>1, <2>1, Quiet DEF Enqueue
<1>2. CASE AcquireWrite BY <1>2, AcquireWriteRing
<1>3. CASE WriteTimeout BY <1>3, Quiet DEF WriteTimeout
<1>4. CASE WriteData BY <1>4, WriteDataRing
<1>5. CASE WriteRaises BY <1>5, Quiet DEF WriteRaises
<1>6. ASSUME NEW r \in Locals, ResetReadFlag(r) PROVE RingCore'
  BY <1>6, ResetReadFlagRing
<1>7. CASE Publish BY <1>7, PublishRing
<1>8. CASE SendOverflow BY <1>0, <1>8, Quiet DEF SendOverflow
<1>9. CASE Notify BY <1>0, <1>9, Quiet DEF Notify
<1>10. CASE SendRemote BY <1>10, Quiet DEF SendRemote
<1> QED BY <1>1, <1>2, <1>3, <1>4, <1>5, <1>6, <1>7, <1>8, <1>9, <1>10
        DEF WriterStep

\* Every step of dequeue and shutdown keeps the ring invariant.
LEMMA ReaderRing ==
    ASSUME TypeOK, RingCore, NEW r \in Readers, ReaderStep(r) \/ Shutdown(r)
    PROVE  RingCore'
<1> USE DEF Goto
<1>1. CASE Dequeue(r)
  BY <1>1, Quiet DEF Dequeue, TypeOK, Readers
<1>2. CASE r \in Locals /\ LoadReadFlag(r) BY <1>2, LoadReadFlagRing
<1>3. CASE r \in Locals /\ AcquireRead(r) BY <1>3, AcquireReadRing
<1>4. CASE r \in Locals /\ NothingToRead(r)
  BY <1>4, Quiet DEF NothingToRead, TypeOK, Readers
<1>5. CASE r \in Locals /\ Unpark(r)
  BY <1>5, Quiet DEF Unpark, TypeOK, Readers
<1>6. CASE r \in Locals /\ Woken(r)
  BY <1>6, Quiet DEF Woken, TypeOK, Readers
<1>7. CASE r \in Locals /\ ReadTimeout(r)
  BY <1>7, Quiet DEF ReadTimeout, TypeOK, Readers
<1>8. CASE r \in Locals /\ ReadData(r) BY <1>8, ReadDataRing
<1>9. CASE r \in Locals /\ MarkRead(r) BY <1>9, MarkReadRing
<1>10. CASE Recv(r)
  <2>1. \A q \in Locals : taken'[q] = taken[q]
    BY <1>10, RingAssumption DEF Recv, TypeOK, Readers
  <2> QED BY <1>10, <2>1, Quiet DEF Recv, TypeOK, Readers
<1>11. CASE RecvTimeout(r)
  BY <1>11, Quiet DEF RecvTimeout, TypeOK, Readers
<1>12. CASE Shutdown(r) BY <1>12, Quiet DEF Shutdown
<1> QED BY <1>1, <1>2, <1>3, <1>4, <1>5, <1>6, <1>7, <1>8, <1>9, <1>10, <1>11,
           <1>12 DEF ReaderStep, LocalStep

\* The ring invariant is inductive.
LEMMA RingInductive == RingInv /\ [Next]_vars => RingInv'
<1> SUFFICES ASSUME RingInv, [Next]_vars PROVE RingInv' OBVIOUS
<1>0. TypeOK /\ RingCore BY DEF RingInv
<1>1. CASE Enqueue \/ WriterStep
  BY <1>0, <1>1, WriterType, WriterRing DEF RingInv, RingCore
<1>2. ASSUME NEW r \in Readers, ReaderStep(r) \/ Shutdown(r) PROVE RingInv'
  BY <1>0, <1>2, ReaderType, ReaderRing DEF RingInv, RingCore
<1>3. CASE UNCHANGED vars
  <2>1. TypeOK' BY <1>0, <1>3 DEF vars, TypeOK
  <2>2. RingCore' BY <1>0, <1>3, Quiet DEF vars
  <2> QED BY <2>1, <2>2 DEF RingInv
<1> QED BY <1>1, <1>2, <1>3 DEF Next

\* The ring invariant always holds, whatever times out or raises.
LEMMA RingAlways == Spec => []RingInv
<1>1. Init => RingInv BY InitType, InitRing DEF RingInv
<1> QED BY <1>1, RingInductive, PTL DEF Spec

\* The writer and the readers keep the types of the shared flags, the sockets
\* and the indices for every number of readers, chunks and messages.
THEOREM RingTypes == Spec => []TypeOK
  BY RingAlways, PTL DEF RingInv

\* No torn or misplaced read: a reader inside acquire_read's with has the next
\* message it is due in its chunk, and the writer is not in that chunk.
THEOREM ReadsRight == Spec => []ReadsItsMessage
<1>1. RingInv => ReadsItsMessage
  <2> SUFFICES ASSUME TypeOK, RingCore, NEW r \in Locals, rpc[r] \in {"data", "mark"}
               PROVE  /\ taken[r] < Len(sent)
                      /\ data[ridx[r]] = Encode(sent[taken[r] + 1])
                      /\ ~(Busy /\ widx = ridx[r])
                      /\ rpc[r] = "mark" =>
                           rval[r] \in {data[ridx[r]], Broken(data[ridx[r]])}
    BY DEF RingInv, ReadsItsMessage, Busy
  <2>1. taken[r] < Len(sent) BY DEF RingCore, InChunk
  <2> DEFINE k == taken[r] + 1
  <2>2. k \in 1..Len(sent) /\ ridx[r] = Slot(k) /\ taken[r] < k
    BY <2>1, Facts
  <2> HIDE DEF k
  <2>3. data[Slot(k)] = Encode(sent[k]) BY <2>2 DEF RingCore, Unread
  <2>4. Busy => Slot(k) # widx
    <3>1. Busy => Len(sent) - taken[r] < MaxChunks BY DEF RingCore, Ahead
    <3> QED BY <3>1, <2>2, WriterAlone
  <2> QED BY <2>1, <2>2, <2>3, <2>4 DEF RingCore, InChunk, k
<1> QED BY <1>1, RingAlways, PTL

\* The writer stays within max_chunks of the slowest reader and never takes a
\* chunk that one of them has still to read.
THEOREM WriterBounded == Spec => []WriterWaits
<1>1. RingInv => WriterWaits
  <2> SUFFICES ASSUME TypeOK, RingCore, NEW r \in Locals
               PROVE  Len(sent) - taken[r] + (IF Busy THEN 1 ELSE 0)
                          \in 0..MaxChunks
    BY DEF RingInv, WriterWaits, Busy
  <2>1. Busy => Len(sent) - taken[r] < MaxChunks BY DEF RingCore, Ahead
  <2> QED BY <2>1, Facts, RingAssumption
<1> QED BY <1>1, RingAlways, PTL

-----------------------------------------------------------------------------
(* Refinement of Broadcast. Without timeouts a reader stays at the socket   *)
(* until the payload of the overflow byte it has read arrives, so sockets  *)
(* and ring stay aligned; RecvTimeout is what breaks this.                 *)

\* How many messages have reached r's socket, counting those that never go
\* through it.
Pushed(r) == Len(sent) - IF wpc = "send" \/ (r \in Remotes /\ wpc \in {"notify", "remote"})
                         THEN 1 ELSE 0
Held(r) == IF r \in Locals /\ rpc[r] = "recv" THEN 1 ELSE 0
\* Message m goes through r's socket.
Due(r, m) == r \in Remotes \/ m \in Overflowing

\* Messages are published in the order of the calls of enqueue.
SentRising ==
    /\ \A i, j \in 1..Len(sent) : i < j => sent[i] < sent[j]
    /\ \A i \in 1..Len(sent) : sent[i] <= wmsg
    /\ wpc \in {"check", "data", "reset"} => \A i \in 1..Len(sent) : sent[i] < wmsg
    /\ wpc \in {"send", "notify", "remote"} =>
           Len(sent) >= 1 /\ sent[Len(sent)] = wmsg
    /\ wpc = "send" => wmsg \in Overflowing

\* A reader has received what it has taken, but for the payload it waits for.
Counts == \A r \in Readers :
              /\ Len(got[r]) = taken[r] - Held(r)
              /\ Len(got[r]) <= Pushed(r)
              /\ Held(r) = 1 => sent[taken[r]] \in Overflowing

\* Socket content q of reader r holds, in order, the messages of m due through
\* it from the g-th (received) to the p-th (pushed).
Holds(r, q, g, p, m) ==
    /\ \A i, j \in 1..Len(q) : i < j => q[i] < q[j]
    /\ \A i \in 1..Len(q) : \E k \in 1..Len(m) :
           g < k /\ k <= p /\ Due(r, m[k]) /\ q[i] = m[k]
    /\ \A k \in 1..Len(m) : g < k /\ k <= p /\ Due(r, m[k]) =>
           \E i \in 1..Len(q) : q[i] = m[k]

Sockets == \A r \in Readers : Holds(r, sock[r], Len(got[r]), Pushed(r), sent)

SocketInv == SentRising /\ Counts /\ Sockets

\* The socket invariant holds before anything was sent.
LEMMA InitSocket == Init => SocketInv
<1> SUFFICES ASSUME Init PROVE SocketInv OBVIOUS
<1>1. Len(sent) = 0 /\ \A r \in Readers : /\ Len(got[r]) = 0 /\ taken[r] = 0
                                          /\ Len(sock[r]) = 0
                                          /\ Held(r) = 0 /\ Pushed(r) = 0
  BY DEF Init, Held, Pushed, Readers
<1> QED BY <1>1 DEF Init, SocketInv, SentRising, Counts, Sockets,
     Holds

\* Types of the numbers the socket invariant speaks of.
LEMMA SocketFacts ==
    ASSUME TypeOK, SocketInv
    PROVE  /\ Len(sent) \in Nat /\ wmsg \in Nat
           /\ \A k \in 1..Len(sent) : sent[k] \in Nat /\ sent[k] \in Messages
           /\ \A r \in Readers :
                  /\ Len(got[r]) \in Nat /\ taken[r] \in Nat
                  /\ Len(sock[r]) \in Nat /\ Held(r) \in {0, 1}
                  /\ Pushed(r) \in Nat /\ Pushed(r) <= Len(sent)
                  /\ \A i \in 1..Len(sock[r]) : sock[r][i] \in Nat
<1>0. Messages \subseteq Nat BY RingAssumption DEF Messages
<1>1. Len(sent) \in Nat /\ wmsg \in Nat
      /\ \A k \in 1..Len(sent) : sent[k] \in Nat /\ sent[k] \in Messages
  <2>1. Len(sent) \in Nat /\ wmsg \in Nat BY RingAssumption DEF TypeOK
  <2>2. \A k \in 1..Len(sent) : sent[k] \in Messages BY ElementOfSeq DEF TypeOK
  <2> QED BY <2>1, <2>2, <1>0
<1>2. \A r \in Readers : /\ Len(got[r]) \in Nat /\ taken[r] \in Nat
                         /\ Len(sock[r]) \in Nat /\ Held(r) \in {0, 1}
                         /\ \A i \in 1..Len(sock[r]) : sock[r][i] \in Nat
  <2> SUFFICES ASSUME NEW r \in Readers
               PROVE  /\ Len(got[r]) \in Nat /\ taken[r] \in Nat
                      /\ Len(sock[r]) \in Nat /\ Held(r) \in {0, 1}
                      /\ \A i \in 1..Len(sock[r]) : sock[r][i] \in Nat
    OBVIOUS
  <2>1. sock[r] \in Seq(Messages) /\ got[r] \in Seq(Outcomes) /\ taken[r] \in Nat
    BY DEF TypeOK
  <2>2. \A i \in 1..Len(sock[r]) : sock[r][i] \in Messages BY <2>1, ElementOfSeq
  <2>3. Len(got[r]) \in Nat /\ Len(sock[r]) \in Nat BY <2>1
  <2> QED BY <2>1, <2>2, <2>3, <1>0 DEF Held
<1>3. \A r \in Readers : Pushed(r) \in Nat /\ Pushed(r) <= Len(sent)
  BY <1>1 DEF Pushed, SocketInv, SentRising
<1> QED BY <1>1, <1>2, <1>3

\* Steps that move no message keep the sockets aligned.
LEMMA QuietSocket ==
    ASSUME TypeOK, SocketInv, UNCHANGED <<sent, got, sock, taken>>,
           \A r \in Readers : Held(r)' = Held(r) /\ Pushed(r)' = Pushed(r)
    PROVE  Counts' /\ Sockets'
<1>1. Counts' BY DEF SocketInv, Counts
<1>2. Sockets' BY DEF SocketInv, Sockets
<1> QED BY <1>1, <1>2

\* The head of a socket is the message its reader is due.
LEMMA SocketHead ==
    ASSUME TypeOK, SocketInv, NEW r \in Readers, sock[r] # <<>>,
           r \in Remotes \/ Held(r) = 1
    PROVE  /\ Len(got[r]) + 1 \in 1..Len(sent)
           /\ Len(got[r]) + 1 <= Pushed(r)
           /\ Due(r, sent[Len(got[r]) + 1])
           /\ sock[r][1] = sent[Len(got[r]) + 1]
<1> DEFINE L == Len(got[r]) + 1
<1>0. Len(sock[r]) >= 1 /\ 1 \in 1..Len(sock[r])
  BY SocketFacts DEF TypeOK
<1>1. PICK k \in 1..Len(sent) : /\ Len(got[r]) < k /\ k <= Pushed(r)
                                /\ sock[r][1] = sent[k]
  BY <1>0 DEF SocketInv, Sockets, Holds
<1>2. L \in 1..Len(sent) /\ L <= k /\ L <= Pushed(r) /\ Len(got[r]) < L
  BY <1>1, SocketFacts
<1>3. Due(r, sent[L])
  <2>1. CASE r \in Remotes BY <2>1 DEF Due
  <2>2. CASE Held(r) = 1
    <3>1. L = taken[r] BY <2>2, SocketFacts DEF SocketInv, Counts
    <3> QED BY <2>2, <3>1 DEF SocketInv, Counts, Due
  <2> QED BY <2>1, <2>2
<1> HIDE DEF L
<1>4. PICK i \in 1..Len(sock[r]) : sock[r][i] = sent[L]
  BY <1>2, <1>3 DEF SocketInv, Sockets, Holds
<1>5. sock[r][1] <= sent[L]
  <2>1. CASE i = 1 BY <2>1, <1>4, <1>2, SocketFacts
  <2>2. CASE 1 < i
    <3>1. sock[r][1] < sock[r][i] BY <2>2, <1>0 DEF SocketInv, Sockets, Holds
    <3>2. sock[r][1] \in Nat /\ sock[r][i] \in Nat BY <1>0, SocketFacts
    <3> QED BY <3>1, <3>2, <1>4
  <2> QED BY <2>1, <2>2, SocketFacts
<1>6. sent[L] <= sent[k]
  <2>1. CASE L = k BY <2>1, <1>2, SocketFacts
  <2>2. CASE L < k BY <2>2, <1>1, <1>2, SocketFacts DEF SocketInv, SentRising
  <2> QED BY <2>1, <2>2, <1>1, <1>2, SocketFacts
<1>7. sock[r][1] = sent[L] BY <1>1, <1>2, <1>5, <1>6, SocketFacts
<1> QED BY <1>2, <1>3, <1>7 DEF L

\* recv takes the oldest message of the socket, which is the one the reader is due.
LEMMA RecvSocket ==
    ASSUME TypeOK, SocketInv, NEW q \in Readers, Recv(q),
           q \in Remotes \/ Held(q) = 1
    PROVE  SocketInv'
<1> USE DEF Recv, Goto
<1> DEFINE L == Len(got[q]) + 1
<1>1. /\ L \in 1..Len(sent) /\ L <= Pushed(q) /\ Due(q, sent[L])
      /\ sock[q][1] = sent[L]
  BY SocketHead
<1>2. /\ Len(got'[q]) = L
      /\ \A r \in Readers : r # q => got'[r] = got[r] /\ sock'[r] = sock[r]
                                     /\ taken'[r] = taken[r] /\ rpc'[r] = rpc[r]
      /\ rpc'[q] = "idle"
      /\ taken'[q] = taken[q] + (IF q \in Remotes THEN 1 ELSE 0)
  BY DEF TypeOK
<1>3. /\ Len(sock'[q]) = Len(sock[q]) - 1
      /\ \A i \in 1..(Len(sock[q]) - 1) : sock'[q][i] = sock[q][i + 1]
  BY HeadTailProperties DEF TypeOK
<1>4. \A r \in Readers : Pushed(r)' = Pushed(r) BY DEF Pushed
<1>5. /\ Held(q)' = 0
      /\ \A r \in Readers : r # q => Held(r)' = Held(r)
  BY <1>2 DEF Held
<1>6. SentRising' BY DEF SocketInv, SentRising
<1>7. Counts'
  <2>1. \A r \in Readers : r # q =>
            /\ Len(got'[r]) = taken'[r] - Held(r)'
            /\ Len(got'[r]) <= Pushed(r)'
            /\ Held(r)' = 1 => sent[taken'[r]] \in Overflowing
    BY <1>2, <1>4, <1>5 DEF SocketInv, Counts
  <2>2. Len(got'[q]) = taken'[q]
    <3>1. CASE q \in Remotes
      <4>1. Held(q) = 0 BY <3>1, RingAssumption DEF Held
      <4> QED BY <3>1, <4>1, <1>2, SocketFacts DEF SocketInv, Counts
    <3>2. CASE q \notin Remotes
      BY <3>2, <1>2, SocketFacts DEF SocketInv, Counts
    <3> QED BY <3>1, <3>2
  <2>3. taken'[q] - 0 = taken'[q] BY <1>2, SocketFacts
  <2> QED BY <2>1, <2>2, <2>3, <1>1, <1>2, <1>4, <1>5 DEF Counts
<1>8. Sockets'
  <2> SUFFICES ASSUME NEW r \in Readers
               PROVE  Holds(r, sock'[r], Len(got'[r]), Pushed(r), sent)
    BY <1>4 DEF Sockets
  <2>2. CASE r # q BY <2>2, <1>2 DEF SocketInv, Sockets
  <2>3. CASE r = q
    <3> HIDE DEF L
    <3>0. Len(sock[q]) \in Nat /\ Len(sock[q]) >= 1 /\ 1 \in 1..Len(sock[q])
      BY SocketFacts DEF TypeOK
    <3>1. \A i \in 1..(Len(sock[q]) - 1) : i + 1 \in 1..Len(sock[q])
                                          /\ sock[q][1] < sock[q][i + 1]
      <4>1. \A a, b \in 1..Len(sock[q]) : a < b => sock[q][a] < sock[q][b]
        BY DEF SocketInv, Sockets, Holds
      <4>2. \A i \in 1..(Len(sock[q]) - 1) : i + 1 \in 1..Len(sock[q]) /\ 1 < i + 1
        BY <3>0
      <4> QED BY <3>0, <4>1, <4>2
    <3>2. \A i, j \in 1..Len(sock'[q]) : i < j => sock'[q][i] < sock'[q][j]
      <4> SUFFICES ASSUME NEW i \in 1..(Len(sock[q]) - 1),
                          NEW j \in 1..(Len(sock[q]) - 1), i < j
                   PROVE  sock[q][i + 1] < sock[q][j + 1]
        BY <1>3
      <4>1. i + 1 < j + 1 OBVIOUS
      <4> QED BY <4>1, <3>1 DEF SocketInv, Sockets, Holds
    <3>3. ASSUME NEW i \in 1..Len(sock'[q])
          PROVE  \E k \in 1..Len(sent) : /\ Len(got'[q]) < k /\ k <= Pushed(q)
                                         /\ Due(q, sent[k]) /\ sock'[q][i] = sent[k]
      <4>1. i \in 1..(Len(sock[q]) - 1) BY <1>3
      <4>2. PICK k \in 1..Len(sent) : /\ Len(got[q]) < k /\ k <= Pushed(q)
                                      /\ Due(q, sent[k]) /\ sock[q][i + 1] = sent[k]
        BY <4>1, <3>1 DEF SocketInv, Sockets, Holds
      <4>3. sent[L] < sent[k] BY <4>1, <4>2, <3>1, <1>1
      <4>4. k # L BY <4>3, <1>1, SocketFacts
      <4>5. L < k BY <4>2, <4>4, SocketFacts DEF L
      <4> QED BY <4>1, <4>2, <4>5, <1>2, <1>3
    <3>4. ASSUME NEW k \in 1..Len(sent), Len(got'[q]) < k, k <= Pushed(q), Due(q, sent[k])
          PROVE  \E i \in 1..Len(sock'[q]) : sock'[q][i] = sent[k]
      <4>1. L < k /\ Len(got[q]) < k BY <3>4, <1>2, SocketFacts DEF L
      <4>2. PICK i \in 1..Len(sock[q]) : sock[q][i] = sent[k]
        BY <3>4, <4>1 DEF SocketInv, Sockets, Holds
      <4>3. sent[L] < sent[k] BY <4>1, <1>1 DEF SocketInv, SentRising
      <4>4. i # 1 BY <4>2, <4>3, <1>1, SocketFacts
      <4>5. i - 1 \in 1..(Len(sock[q]) - 1) /\ (i - 1) + 1 = i BY <4>4, <3>0
      <4>6. sock'[q][i - 1] = sent[k] BY <4>2, <4>5, <1>3
      <4> QED BY <4>5, <4>6, <1>3
    <3>5. Holds(q, sock'[q], Len(got'[q]), Pushed(q), sent)
      BY ONLY <3>2, <3>3, <3>4 DEF Holds
    <3> QED BY <2>3, <3>5
  <2> QED BY <2>2, <2>3
<1> QED BY <1>6, <1>7, <1>8 DEF SocketInv

\* Pushing the next message due extends what a socket holds.
LEMMA HoldsPush ==
    ASSUME NEW r, NEW q \in Seq(Nat), NEW g \in Nat, NEW p \in Nat,
           NEW m \in Seq(Nat), Holds(r, q, g, p, m), p + 1 <= Len(m), g <= p,
           \A i, j \in 1..Len(m) : i < j => m[i] < m[j], Due(r, m[p + 1])
    PROVE  Holds(r, Append(q, m[p + 1]), g, p + 1, m)
<1> DEFINE n == Len(q)  x == m[p + 1]  a == Append(q, x)
<1>1. n \in Nat /\ Len(a) = n + 1 /\ a[n + 1] = x
      /\ \A i \in 1..n : a[i] = q[i]
  BY ElementOfSeq
<1>2. p + 1 \in 1..Len(m) /\ x \in Nat BY ElementOfSeq
<1>3. \A i \in 1..n : q[i] < x
  <2> SUFFICES ASSUME NEW i \in 1..n PROVE q[i] < x OBVIOUS
  <2>1. PICK k \in 1..Len(m) : k <= p /\ q[i] = m[k] BY DEF Holds
  <2>2. k < p + 1 BY <2>1
  <2> QED BY <2>1, <2>2, <1>2
<1> HIDE DEF a, x
<1>4. \A i, j \in 1..(n + 1) : i < j => a[i] < a[j]
  <2> SUFFICES ASSUME NEW i \in 1..(n + 1), NEW j \in 1..(n + 1), i < j
               PROVE  a[i] < a[j]
    OBVIOUS
  <2>1. i \in 1..n BY <1>1
  <2>2. CASE j = n + 1 BY <2>1, <2>2, <1>1, <1>3
  <2>3. CASE j \in 1..n
    <3>1. q[i] < q[j] BY <2>1, <2>3 DEF Holds
    <3> QED BY <3>1, <2>1, <2>3, <1>1
  <2>4. j = n + 1 \/ j \in 1..n BY ONLY n \in Nat, j \in 1..(n + 1), <1>1
  <2> QED BY <2>2, <2>3, <2>4
<1>5. ASSUME NEW i \in 1..(n + 1)
      PROVE  \E k \in 1..Len(m) : g < k /\ k <= p + 1 /\ Due(r, m[k]) /\ a[i] = m[k]
  <2>1. CASE i = n + 1 BY <2>1, <1>1, <1>2 DEF x
  <2>2. CASE i \in 1..n
    <3>1. PICK k \in 1..Len(m) : g < k /\ k <= p /\ Due(r, m[k]) /\ q[i] = m[k]
      BY <2>2 DEF Holds
    <3>2. k <= p + 1 BY <3>1
    <3> QED BY <3>1, <3>2, <2>2, <1>1
  <2> QED BY <2>1, <2>2, <1>1
<1>6. ASSUME NEW k \in 1..Len(m), g < k, k <= p + 1, Due(r, m[k])
      PROVE  \E i \in 1..(n + 1) : a[i] = m[k]
  <2>1. CASE k = p + 1 BY <2>1, <1>1 DEF x
  <2>2. CASE k <= p
    <3>1. PICK i \in 1..n : q[i] = m[k] BY <2>2, <1>6 DEF Holds
    <3>2. i \in 1..(n + 1) BY <1>1
    <3> QED BY <3>1, <3>2, <1>1
  <2> QED BY <2>1, <2>2, <1>6
<1>7. Holds(r, a, g, p + 1, m)
  BY <1>1, <1>4, <1>5, <1>6 DEF Holds
<1> QED BY <1>7 DEF a, x

\* A message published but not pushed, or not due, leaves the socket as it is.
LEMMA HoldsPublish ==
    ASSUME NEW r, NEW q \in Seq(Nat), NEW g \in Nat, NEW p \in Nat, NEW pp \in Nat,
           NEW m \in Seq(Nat), NEW x \in Nat, Holds(r, q, g, p, m), p <= Len(m),
           pp = p \/ (pp = p + 1 /\ p = Len(m) /\ ~Due(r, x))
    PROVE  Holds(r, q, g, pp, Append(m, x))
<1> DEFINE a == Append(m, x)
<1>1. Len(m) \in Nat /\ Len(a) = Len(m) + 1 /\ a[Len(m) + 1] = x
      /\ \A k \in 1..Len(m) : a[k] = m[k]
  BY ElementOfSeq
<1> HIDE DEF a
<1>2. \A i, j \in 1..Len(q) : i < j => q[i] < q[j] BY DEF Holds
<1>3. ASSUME NEW i \in 1..Len(q)
      PROVE  \E k \in 1..Len(a) : g < k /\ k <= pp /\ Due(r, a[k]) /\ q[i] = a[k]
  <2>1. PICK k \in 1..Len(m) : g < k /\ k <= p /\ Due(r, m[k]) /\ q[i] = m[k]
    BY DEF Holds
  <2>2. k \in 1..Len(a) /\ k <= pp /\ a[k] = m[k] BY <2>1, <1>1
  <2> QED BY <2>1, <2>2
<1>4. ASSUME NEW k \in 1..Len(a), g < k, k <= pp, Due(r, a[k])
      PROVE  \E i \in 1..Len(q) : q[i] = a[k]
  <2>1. k \in 1..Len(m) /\ k <= p BY <1>1, <1>4
  <2>2. a[k] = m[k] BY <2>1, <1>1
  <2> QED BY <2>1, <2>2, <1>4 DEF Holds
<1>5. Holds(r, q, g, pp, a) BY <1>2, <1>3, <1>4 DEF Holds
<1> QED BY <1>5 DEF a

\* Receiving a message that never goes through the socket.
LEMMA HoldsSkip ==
    ASSUME NEW r, NEW q, NEW g \in Nat, NEW p \in Nat, NEW m,
           Holds(r, q, g, p, m), ~Due(r, m[g + 1])
    PROVE  Holds(r, q, g + 1, p, m)
<1>1. ASSUME NEW i \in 1..Len(q)
      PROVE  \E k \in 1..Len(m) : g + 1 < k /\ k <= p /\ Due(r, m[k]) /\ q[i] = m[k]
  <2>1. PICK k \in 1..Len(m) : g < k /\ k <= p /\ Due(r, m[k]) /\ q[i] = m[k]
    BY DEF Holds
  <2>2. k # g + 1 BY <2>1
  <2>3. g + 1 < k BY <2>1, <2>2
  <2> QED BY <2>1, <2>3
<1>2. ASSUME NEW k \in 1..Len(m), g + 1 < k, k <= p, Due(r, m[k])
      PROVE  \E i \in 1..Len(q) : q[i] = m[k]
  <2>1. g < k BY <1>2
  <2> QED BY <2>1, <1>2 DEF Holds
<1> QED BY <1>1, <1>2 DEF Holds

\* The sequences of the sockets are sequences of numbers.
LEMMA SocketSeqs ==
    ASSUME TypeOK
    PROVE  /\ sent \in Seq(Nat)
           /\ \A r \in Readers : sock[r] \in Seq(Nat)
<1>1. Messages \subseteq Nat BY RingAssumption DEF Messages
<1>2. \A q \in Seq(Messages) : q \in Seq(Nat)
  <2> SUFFICES ASSUME NEW q \in Seq(Messages) PROVE q \in Seq(Nat) OBVIOUS
  <2>1. \A i \in 1..Len(q) : q[i] \in Nat BY <1>1, ElementOfSeq
  <2>2. q = [i \in 1..Len(q) |-> q[i]] /\ Len(q) \in Nat OBVIOUS
  <2> QED BY <2>1, <2>2, IsASeq
<1> QED BY <1>2 DEF TypeOK

\* Publishing an overflow chunk, or one for remote readers, owes each its message.
LEMMA PublishSocket ==
    ASSUME TypeOK, RingCore, SocketInv, Publish PROVE SocketInv'
<1> USE DEF Publish, MayPublish
<1> DEFINE n == Len(sent)
<1>0. n \in Nat /\ wmsg \in Nat /\ wmsg \in Messages
  BY SocketFacts DEF RingCore, InHand
<1>1. Len(sent') = n + 1 /\ sent'[n + 1] = wmsg
      /\ \A k \in 1..n : sent'[k] = sent[k]
  BY <1>0 DEF TypeOK
<1>2. SentRising'
  <2>1. \A i \in 1..n : sent[i] < wmsg BY DEF SocketInv, SentRising
  <2>2. \A i, j \in 1..(n + 1) : i < j => sent'[i] < sent'[j]
    <3> SUFFICES ASSUME NEW i \in 1..(n + 1), NEW j \in 1..(n + 1), i < j
                 PROVE  sent'[i] < sent'[j]
      OBVIOUS
    <3>1. i \in 1..n BY <1>0
    <3>2. CASE j = n + 1 BY <3>1, <3>2, <1>1, <2>1
    <3>3. CASE j \in 1..n BY <3>1, <3>3, <1>1 DEF SocketInv, SentRising
    <3>4. j = n + 1 \/ j \in 1..n BY <1>0
    <3> QED BY <3>2, <3>3, <3>4
  <2>3. \A i \in 1..(n + 1) : sent'[i] <= wmsg
    BY <2>1, <1>0, <1>1, SocketFacts
  <2> QED BY <2>2, <2>3, <1>0, <1>1 DEF SentRising
<1>3. \A r \in Readers :
          /\ Held(r)' = Held(r)
          /\ Pushed(r) = n
          /\ Pushed(r)' = IF Due(r, wmsg) THEN n ELSE n + 1
  <2> TAKE r \in Readers
  <2>1. Held(r)' = Held(r) BY DEF Held
  <2>2. Pushed(r) = n BY <1>0 DEF Pushed
  <2>3. CASE wmsg \in Overflowing
    <3>1. wpc' = "send" BY <2>3
    <3>2. Pushed(r)' = n BY <3>1, <1>0, <1>1 DEF Pushed
    <3> QED BY <2>1, <2>2, <2>3, <3>2 DEF Due
  <2>4. CASE wmsg \notin Overflowing
    <3>1. wpc' = "notify" BY <2>4
    <3>2. CASE r \in Remotes
      <4>1. Pushed(r)' = n BY <3>1, <3>2, <1>0, <1>1 DEF Pushed
      <4> QED BY <2>1, <2>2, <3>2, <4>1 DEF Due
    <3>3. CASE r \notin Remotes
      <4>1. Pushed(r)' = n + 1 BY <3>1, <3>3, <1>0, <1>1 DEF Pushed
      <4> QED BY <2>1, <2>2, <2>4, <3>3, <4>1 DEF Due
    <3> QED BY <3>2, <3>3
  <2> QED BY <2>1, <2>2, <2>3, <2>4
<1>4. Counts'
  <2> SUFFICES ASSUME NEW r \in Readers
               PROVE  /\ Len(got[r]) = taken[r] - Held(r)
                      /\ Len(got[r]) <= Pushed(r)'
                      /\ Held(r) = 1 => sent'[taken[r]] \in Overflowing
    BY <1>3 DEF Counts
  <2>1. Len(got[r]) = taken[r] - Held(r) /\ Len(got[r]) <= n
        /\ (Held(r) = 1 => sent[taken[r]] \in Overflowing)
    BY <1>3 DEF SocketInv, Counts
  <2>2. n <= Pushed(r)' BY <1>3, <1>0
  <2>3. Held(r) = 1 => taken[r] \in 1..n
    <3> SUFFICES ASSUME Held(r) = 1 PROVE taken[r] \in 1..n OBVIOUS
    <3>1. r \in Locals BY DEF Held
    <3>2. taken[r] <= n /\ taken[r] >= 1 BY <3>1, <2>1, Facts, SocketFacts
    <3> QED BY <3>2, <1>0, SocketFacts
  <2> QED BY <2>1, <2>2, <2>3, <1>0, <1>1, <1>3, SocketFacts
<1>5. Sockets'
  <2> SUFFICES ASSUME NEW r \in Readers
               PROVE  Holds(r, sock[r], Len(got[r]), Pushed(r)', sent')
    BY DEF Sockets
  <2>1. Holds(r, sock[r], Len(got[r]), Pushed(r), sent) BY DEF SocketInv, Sockets
  <2>2. /\ Pushed(r) \in Nat /\ Pushed(r)' \in Nat /\ Pushed(r) <= Len(sent)
        /\ \/ Pushed(r)' = Pushed(r)
           \/ Pushed(r)' = Pushed(r) + 1 /\ Pushed(r) = Len(sent) /\ ~Due(r, wmsg)
    BY <1>0, <1>3
  <2>3. sock[r] \in Seq(Nat) /\ sent \in Seq(Nat) /\ Len(got[r]) \in Nat
    BY SocketSeqs, SocketFacts
  <2>4. Holds(r, sock[r], Len(got[r]), Pushed(r)', Append(sent, wmsg))
    BY <2>1, <2>2, <2>3, <1>0, HoldsPublish
  <2> QED BY <2>4
<1> QED BY <1>2, <1>4, <1>5 DEF SocketInv

\* A send appends to the sockets of Targets the message just published.
LEMMA PushSocket ==
    ASSUME TypeOK, SocketInv, NEW Targets \in SUBSET Readers,
           wpc \in {"send", "notify", "remote"},
           UNCHANGED <<sent, got, taken, wmsg, rpc>>,
           \A r \in Readers : sock'[r] = IF r \in Targets THEN Append(sock[r], wmsg)
                                                          ELSE sock[r],
           \A r \in Targets : Due(r, wmsg) /\ Pushed(r) = Len(sent) - 1
                              /\ Pushed(r)' = Len(sent),
           \A r \in Readers \ Targets : Pushed(r)' = Pushed(r)
    PROVE  Counts' /\ Sockets'
<1>0. Len(sent) \in Nat /\ Len(sent) >= 1 /\ sent[Len(sent)] = wmsg
  BY SocketFacts DEF SocketInv, SentRising
<1>1. Counts'
  <2>1. \A r \in Readers : Held(r)' = Held(r) BY DEF Held
  <2>2. \A r \in Readers : Pushed(r) <= Pushed(r)' /\ Pushed(r)' \in Nat
    BY <1>0, SocketFacts
  <2> QED BY <2>1, <2>2, SocketFacts DEF SocketInv, Counts
<1>2. Sockets'
  <2> SUFFICES ASSUME NEW r \in Readers
               PROVE  Holds(r, sock'[r], Len(got[r]), Pushed(r)', sent)
    BY DEF Sockets
  <2>1. Holds(r, sock[r], Len(got[r]), Pushed(r), sent) BY DEF SocketInv, Sockets
  <2>2. CASE r \notin Targets BY <2>1, <2>2
  <2>3. CASE r \in Targets
    <3> DEFINE p == Len(sent) - 1
    <3>1. p \in Nat /\ p + 1 = Len(sent) /\ Pushed(r) = p BY <1>0, <2>3
    <3>2. Len(got[r]) <= p BY <3>1 DEF SocketInv, Counts
    <3>3. sock[r] \in Seq(Nat) /\ sent \in Seq(Nat) /\ Len(got[r]) \in Nat
      BY SocketSeqs, SocketFacts
    <3>4. \A i, j \in 1..Len(sent) : i < j => sent[i] < sent[j]
      BY DEF SocketInv, SentRising
    <3> HIDE DEF p
    <3>5. p + 1 <= Len(sent) /\ Due(r, sent[p + 1]) BY <3>1, <1>0, <2>3
    <3>6. Holds(r, Append(sock[r], sent[p + 1]), Len(got[r]), p + 1, sent)
      BY <2>1, <3>1, <3>2, <3>3, <3>4, <3>5, HoldsPush
    <3> QED BY <3>6, <3>1, <1>0, <2>3
  <2> QED BY <2>2, <2>3
<1> QED BY <1>1, <1>2

\* Marking an overflow chunk read leaves the reader owed one message.
LEMMA MarkReadSocket ==
    ASSUME TypeOK, RingCore, SocketInv, NEW q \in Locals, MarkRead(q)
    PROVE  SocketInv'
<1> USE DEF MarkRead, Goto
<1> DEFINE t == taken[q] + 1
<1>0. q \in Readers /\ taken[q] \in Nat BY Facts DEF Readers
<1>1. /\ taken[q] < Len(sent) /\ t \in 1..Len(sent) /\ ridx[q] = Slot(t)
      /\ taken[q] < t
  BY Facts DEF RingCore, InChunk
<1>2. data[ridx[q]] = Encode(sent[t]) BY <1>1 DEF RingCore, Unread
<1>3. rval[q].kind = "overflow" <=> sent[t] \in Overflowing
  <2>1. rval[q] \in {data[ridx[q]], Broken(data[ridx[q]])} /\ rval[q] \in Values
    BY DEF RingCore, InChunk, TypeOK
  <2>2. CASE sent[t] \in Overflowing
    <3>1. data[ridx[q]] = Overflow BY <2>2, <1>2 DEF Encode
    <3>2. \A v \in Values : v.kind = "raised" => v.id \in Messages
      BY DEF Values, Chunks, Torn, Overflow, Inline, Broken
    <3>3. 0 \notin Messages BY RingAssumption DEF Messages
    <3>4. Broken(Overflow).kind = "raised" /\ Broken(Overflow).id = 0
      BY DEF Broken, Overflow
    <3>5. rval[q] = Overflow BY <2>1, <3>1, <3>2, <3>3, <3>4
    <3> QED BY <3>5, <2>2 DEF Overflow
  <2>3. CASE sent[t] \notin Overflowing
    <3>1. data[ridx[q]] = Inline(sent[t]) BY <2>3, <1>2 DEF Encode
    <3> QED BY <3>1, <2>1, <2>3 DEF Inline, Broken
  <2> QED BY <2>2, <2>3
<1>4. /\ taken'[q] = t
      /\ \A r \in Readers : r # q => taken'[r] = taken[r] /\ got'[r] = got[r]
                                     /\ rpc'[r] = rpc[r]
  BY <1>0 DEF TypeOK
<1>5. \A r \in Readers : Pushed(r)' = Pushed(r) BY DEF Pushed
<1>6. SentRising' BY DEF SocketInv, SentRising
<1>7. Len(got[q]) = taken[q]
  BY <1>0, SocketFacts DEF SocketInv, Counts, Held
<1>8. \A r \in Readers : r # q => Held(r)' = Held(r) BY <1>4 DEF Held
<1>9. CASE rval[q].kind = "overflow"
  <2>1. rpc'[q] = "recv" /\ got' = got BY <1>9, <1>0 DEF TypeOK
  <2>2. Held(q)' = 1 BY <2>1 DEF Held
  <2>3. Counts'
    <3>1. Len(got[q]) = t - 1 BY <1>7, <1>0
    <3>2. \A r \in Readers : r # q =>
              /\ Len(got[r]) = taken'[r] - Held(r)'
              /\ Len(got[r]) <= Pushed(r)'
              /\ Held(r)' = 1 => sent[taken'[r]] \in Overflowing
      BY <1>4, <1>5, <1>8 DEF SocketInv, Counts
    <3>3. Len(got[q]) <= Pushed(q)' BY <1>0, <1>5 DEF SocketInv, Counts
    <3> HIDE DEF t
    <3> QED BY <3>1, <3>2, <3>3, <1>3, <1>4, <1>9, <2>1, <2>2 DEF Counts
  <2>4. Sockets' BY <1>5, <2>1 DEF SocketInv, Sockets
  <2> QED BY <1>6, <2>3, <2>4 DEF SocketInv
<1>10. CASE rval[q].kind # "overflow"
  <2>1. rpc'[q] = "idle" /\ Len(got'[q]) = t BY <1>10, <1>0, <1>7 DEF TypeOK
  <2>2. Held(q)' = 0 BY <2>1 DEF Held
  <2>3. ~Due(q, sent[t]) BY <1>3, <1>10, RingAssumption DEF Due
  <2>4. t <= Pushed(q)
    <3>1. CASE wpc = "send"
      <4>1. sent[Len(sent)] \in Overflowing BY <3>1 DEF SocketInv, SentRising
      <4>2. t # Len(sent) BY <4>1, <1>3, <1>10
      <4>3. Pushed(q) = Len(sent) - 1 BY <3>1 DEF Pushed
      <4> QED BY <4>2, <4>3, <1>1, Facts
    <3>2. CASE wpc # "send"
      <4>1. Pushed(q) = Len(sent) BY <3>2, RingAssumption, Facts DEF Pushed
      <4> QED BY <4>1, <1>1, Facts
    <3> QED BY <3>1, <3>2
  <2>5. Counts'
    <3>1. t - 0 = t BY <1>0
    <3>2. \A r \in Readers : r # q =>
              /\ Len(got'[r]) = taken'[r] - Held(r)'
              /\ Len(got'[r]) <= Pushed(r)'
              /\ Held(r)' = 1 => sent[taken'[r]] \in Overflowing
      BY <1>4, <1>5, <1>8 DEF SocketInv, Counts
    <3> HIDE DEF t
    <3> QED BY <3>1, <3>2, <1>0, <1>4, <1>5, <2>1, <2>2, <2>4 DEF Counts
  <2>6. Sockets'
    <3> SUFFICES ASSUME NEW r \in Readers
                 PROVE  Holds(r, sock[r], Len(got'[r]), Pushed(r), sent)
      BY <1>5 DEF Sockets
    <3>1. Holds(r, sock[r], Len(got[r]), Pushed(r), sent) BY DEF SocketInv, Sockets
    <3>2. CASE r # q BY <3>1, <3>2, <1>4
    <3>3. CASE r = q
      <4> DEFINE g == taken[q]
      <4>1. g \in Nat /\ Pushed(q) \in Nat BY <1>0, SocketFacts
      <4>2. Holds(q, sock[q], g, Pushed(q), sent) BY <3>1, <3>3, <1>7
      <4>3. ~Due(q, sent[g + 1]) BY <2>3
      <4> HIDE DEF g
      <4>4. Holds(q, sock[q], g + 1, Pushed(q), sent)
        BY <4>1, <4>2, <4>3, HoldsSkip
      <4> QED BY <4>4, <3>3, <2>1 DEF g
    <3> QED BY <3>2, <3>3
  <2> QED BY <1>6, <2>5, <2>6 DEF SocketInv
<1> QED BY <1>9, <1>10

\* Every step of enqueue keeps the socket invariant.
LEMMA WriterSocket ==
    ASSUME TypeOK, RingCore, SocketInv, Enqueue \/ WriterStep PROVE SocketInv'
<1>0. Len(sent) \in Nat /\ wmsg \in Nat
      /\ \A k \in 1..Len(sent) : sent[k] \in Nat
  BY SocketFacts
<1>h. ASSUME UNCHANGED rpc PROVE \A r \in Readers : Held(r)' = Held(r)
  BY <1>h DEF Held
<1>1. CASE Enqueue
  <2>1. SentRising' BY <1>0, <1>1 DEF Enqueue, SocketInv, SentRising
  <2>2. \A r \in Readers : Pushed(r)' = Pushed(r) BY <1>1 DEF Enqueue, Pushed
  <2> QED BY <1>1, <1>h, <2>1, <2>2, QuietSocket DEF Enqueue, SocketInv
<1>2. CASE AcquireWrite
  <2>1. SentRising' BY <1>2 DEF AcquireWrite, SocketInv, SentRising
  <2>2. \A r \in Readers : Pushed(r)' = Pushed(r) BY <1>2 DEF AcquireWrite, Pushed
  <2> QED BY <1>2, <1>h, <2>1, <2>2, QuietSocket DEF AcquireWrite, SocketInv
<1>3. CASE WriteTimeout
  <2>1. SentRising' BY <1>3 DEF WriteTimeout, SocketInv, SentRising
  <2>2. \A r \in Readers : Pushed(r)' = Pushed(r) BY <1>3 DEF WriteTimeout, Pushed
  <2> QED BY <1>3, <1>h, <2>1, <2>2, QuietSocket DEF WriteTimeout, SocketInv
<1>4. CASE WriteData
  <2>1. SentRising' BY <1>4 DEF WriteData, SocketInv, SentRising
  <2>2. \A r \in Readers : Pushed(r)' = Pushed(r) BY <1>4 DEF WriteData, Pushed
  <2> QED BY <1>4, <1>h, <2>1, <2>2, QuietSocket DEF WriteData, SocketInv
<1>5. CASE WriteRaises
  <2>1. SentRising' BY <1>5 DEF WriteRaises, SocketInv, SentRising
  <2>2. \A r \in Readers : Pushed(r)' = Pushed(r) BY <1>5 DEF WriteRaises, Pushed
  <2> QED BY <1>5, <1>h, <2>1, <2>2, QuietSocket DEF WriteRaises, SocketInv
<1>6. ASSUME NEW r \in Locals, ResetReadFlag(r) PROVE SocketInv'
  <2>1. SentRising' BY <1>6 DEF ResetReadFlag, SocketInv, SentRising
  <2>2. \A q \in Readers : Pushed(q)' = Pushed(q) BY <1>6 DEF ResetReadFlag, Pushed
  <2> QED BY <1>6, <1>h, <2>1, <2>2, QuietSocket DEF ResetReadFlag, SocketInv
<1>7. CASE Publish BY <1>7, PublishSocket
<1>8. CASE SendOverflow
  <2>1. SentRising' BY <1>8 DEF SendOverflow, SocketInv, SentRising
  <2>2. \A r \in Locals : r \in Readers /\ r \notin Remotes
    BY RingAssumption DEF Readers
  <2>3. wmsg \in Overflowing BY <1>8 DEF SendOverflow, SocketInv, SentRising
  <2>4. \A r \in Locals : /\ Due(r, wmsg) /\ Pushed(r) = Len(sent) - 1
                          /\ Pushed(r)' = Len(sent)
    BY <1>8, <1>0, <2>2, <2>3 DEF SendOverflow, Pushed, Due
  <2>5. \A r \in Readers \ Locals : Pushed(r)' = Pushed(r)
    BY <1>8 DEF SendOverflow, Pushed, Readers
  <2>6. \A r \in Readers : sock'[r] = IF r \in Locals THEN Append(sock[r], wmsg)
                                                      ELSE sock[r]
    BY <1>8 DEF SendOverflow
  <2>7. UNCHANGED <<sent, got, taken, wmsg, rpc>> /\ wpc = "send"
    BY <1>8 DEF SendOverflow
  <2>8. Locals \in SUBSET Readers BY <2>2
  <2>9. Counts' /\ Sockets' BY <2>4, <2>5, <2>6, <2>7, <2>8, PushSocket
  <2> QED BY <2>1, <2>9 DEF SocketInv
<1>9. CASE Notify
  <2>1. SentRising' BY <1>9 DEF Notify, SocketInv, SentRising
  <2>2. \A r \in Readers : Pushed(r)' = Pushed(r) BY <1>9 DEF Notify, Pushed
  <2> QED BY <1>9, <1>h, <2>1, <2>2, QuietSocket DEF Notify, SocketInv
<1>10. CASE SendRemote
  <2>1. SentRising' BY <1>10 DEF SendRemote, SocketInv, SentRising
  <2>2. \A r \in Remotes : r \in Readers BY DEF Readers
  <2>4. \A r \in Remotes : /\ Due(r, wmsg) /\ Pushed(r) = Len(sent) - 1
                           /\ Pushed(r)' = Len(sent)
    BY <1>10, <1>0 DEF SendRemote, Pushed, Due
  <2>5. \A r \in Readers \ Remotes : Pushed(r)' = Pushed(r)
    BY <1>10 DEF SendRemote, Pushed
  <2>6. \A r \in Readers : sock'[r] = IF r \in Remotes THEN Append(sock[r], wmsg)
                                                       ELSE sock[r]
    BY <1>10 DEF SendRemote
  <2>7. UNCHANGED <<sent, got, taken, wmsg, rpc>> /\ wpc = "remote"
    BY <1>10 DEF SendRemote
  <2>8. Remotes \in SUBSET Readers BY <2>2
  <2>9. Counts' /\ Sockets' BY <2>4, <2>5, <2>6, <2>7, <2>8, PushSocket
  <2> QED BY <2>1, <2>9 DEF SocketInv
<1> QED BY <1>1, <1>2, <1>3, <1>4, <1>5, <1>6, <1>7, <1>8, <1>9, <1>10
        DEF WriterStep

\* Every step of dequeue and shutdown keeps the socket invariant when no dequeue
\* gives up between a chunk and its overflow message.
LEMMA ReaderSocket ==
    ASSUME ~LateOverflow, TypeOK, RingCore, SocketInv,
           NEW q \in Readers, ReaderStep(q) \/ Shutdown(q)
    PROVE  SocketInv'
<1> USE DEF Goto
<1>q. ASSUME UNCHANGED <<sent, got, sock, taken, wpc, wmsg>>,
             \A r \in Locals : rpc'[r] = "recv" <=> rpc[r] = "recv"
      PROVE  SocketInv'
  <2>1. SentRising' BY <1>q DEF SocketInv, SentRising
  <2>2. \A r \in Readers : Pushed(r)' = Pushed(r) BY <1>q DEF Pushed
  <2>3. \A r \in Readers : Held(r)' = Held(r) BY <1>q DEF Held
  <2> QED BY <1>q, <2>1, <2>2, <2>3, QuietSocket DEF SocketInv
<1>1. CASE Dequeue(q)
  BY <1>1, <1>q, RingAssumption DEF Dequeue, TypeOK, Readers
<1>2. CASE q \in Locals /\ LoadReadFlag(q)
  BY <1>2, <1>q DEF LoadReadFlag, TypeOK, Readers
<1>3. CASE q \in Locals /\ AcquireRead(q)
  BY <1>3, <1>q DEF AcquireRead, TypeOK, Readers
<1>4. CASE q \in Locals /\ NothingToRead(q)
  BY <1>4, <1>q DEF NothingToRead, TypeOK, Readers
<1>5. CASE q \in Locals /\ Unpark(q)
  BY <1>5, <1>q DEF Unpark, TypeOK, Readers
<1>6. CASE q \in Locals /\ Woken(q)
  BY <1>6, <1>q DEF Woken, TypeOK, Readers
<1>7. CASE q \in Locals /\ ReadTimeout(q)
  BY <1>7, <1>q DEF ReadTimeout, TypeOK, Readers
<1>8. CASE q \in Locals /\ ReadData(q)
  BY <1>8, <1>q DEF ReadData, TypeOK, Readers
<1>9. CASE q \in Locals /\ MarkRead(q) BY <1>9, MarkReadSocket
<1>10. CASE Recv(q)
  <2>1. q \in Remotes \/ Held(q) = 1 BY <1>10 DEF Recv, Held, Readers
  <2> QED BY <1>10, <2>1, RecvSocket
<1>11. CASE RecvTimeout(q)
  <2>1. q \in Remotes BY <1>11 DEF RecvTimeout, Readers
  <2> QED BY <1>11, <1>q, <2>1, RingAssumption DEF RecvTimeout, TypeOK, Readers
<1>12. CASE Shutdown(q) BY <1>12, <1>q DEF Shutdown
<1> QED BY <1>1, <1>2, <1>3, <1>4, <1>5, <1>6, <1>7, <1>8, <1>9, <1>10, <1>11,
           <1>12 DEF ReaderStep, LocalStep

FullInv == RingInv /\ SocketInv

\* Ring and socket invariant together are inductive when no dequeue gives up
\* between a chunk and its overflow message.
LEMMA FullInductive == ASSUME ~LateOverflow PROVE FullInv /\ [Next]_vars => FullInv'
<1> SUFFICES ASSUME FullInv, [Next]_vars PROVE FullInv' OBVIOUS
<1>0. TypeOK /\ RingCore /\ SocketInv BY DEF FullInv, RingInv
<1>1. RingInv' BY RingInductive DEF FullInv
<1>2. CASE Enqueue \/ WriterStep BY <1>0, <1>1, <1>2, WriterSocket DEF FullInv
<1>3. ASSUME NEW r \in Readers, ReaderStep(r) \/ Shutdown(r) PROVE FullInv'
  BY <1>0, <1>1, <1>3, ReaderSocket DEF FullInv
<1>4. CASE UNCHANGED vars
  <2>1. SentRising' BY <1>0, <1>4 DEF vars, SocketInv, SentRising
  <2>2. \A r \in Readers : Held(r)' = Held(r) /\ Pushed(r)' = Pushed(r)
    BY <1>4 DEF vars, Held, Pushed
  <2>3. Counts' /\ Sockets' BY <1>0, <1>4, <2>2, QuietSocket DEF vars
  <2> QED BY <1>1, <2>1, <2>3 DEF FullInv, SocketInv
<1> QED BY <1>2, <1>3, <1>4 DEF Next

\* A step of the queue is a Send, a Receive or a stuttering step of Broadcast.
LEMMA StepRefines ==
    ASSUME FullInv, ~LateOverflow, Next PROVE B!BNext \/ UNCHANGED <<sent, got>>
<1>0. TypeOK /\ RingCore /\ SocketInv BY DEF FullInv, RingInv
<1>1. CASE Publish
  <2>1. wmsg \in Messages BY <1>0, <1>1 DEF Publish, MayPublish, RingCore, InHand
  <2>2. ASSUME NEW r \in Locals PROVE Len(sent) - Len(got[r]) < MaxChunks + 1
    <3>1. Len(sent) - taken[r] < MaxChunks
      BY <1>0, <1>1 DEF Publish, MayPublish, RingCore, Ahead, Busy
    <3>2. r \in Readers BY DEF Readers
    <3>3. /\ Len(got[r]) = taken[r] - Held(r) /\ Held(r) \in {0, 1}
          /\ taken[r] \in Nat /\ Len(sent) \in Nat
      BY <1>0, <3>2, SocketFacts DEF SocketInv, Counts
    <3> QED BY <3>1, <3>3, RingAssumption
  <2>3. B!Send(wmsg) BY <1>1, <2>2 DEF B!Send, Publish
  <2> QED BY <2>1, <2>3 DEF B!BNext
<1>2. ASSUME NEW r \in Locals, MarkRead(r)
      PROVE  B!BNext \/ UNCHANGED <<sent, got>>
  <2> USE DEF MarkRead
  <2>0. r \in Readers BY DEF Readers
  <2>1. CASE rval[r].kind = "overflow" BY <1>2, <2>1
  <2>2. CASE rval[r].kind # "overflow"
    <3> DEFINE t == taken[r] + 1
    <3>1. /\ taken[r] < Len(sent) /\ t \in 1..Len(sent) /\ ridx[r] = Slot(t)
          /\ taken[r] < t
      BY <1>0, <1>2, Facts DEF RingCore, InChunk
    <3>2. data[ridx[r]] = Encode(sent[t]) BY <3>1, <1>0 DEF RingCore, Unread
    <3>3. Len(got[r]) = taken[r] /\ taken[r] \in Nat
      BY <1>0, <1>2, <2>0, SocketFacts DEF SocketInv, Counts, Held
    <3>4. rval[r] \in {data[ridx[r]], Broken(data[ridx[r]])} /\ rval[r] \in Values
      BY <1>0, <1>2 DEF RingCore, InChunk, TypeOK
    <3>5. sent[t] \notin Overflowing
      <4> SUFFICES ASSUME sent[t] \in Overflowing PROVE FALSE OBVIOUS
      <4>1. data[ridx[r]] = Overflow BY <3>2 DEF Encode
      <4>2. \A v \in Values : v.kind = "raised" => v.id \in Messages
        BY DEF Values, Chunks, Torn, Overflow, Inline, Broken
      <4>3. 0 \notin Messages BY RingAssumption DEF Messages
      <4>4. Broken(Overflow).kind = "raised" /\ Broken(Overflow).id = 0
        BY DEF Broken, Overflow
      <4>5. rval[r] = Overflow BY <3>4, <4>1, <4>2, <4>3, <4>4
      <4> QED BY <4>5, <2>2 DEF Overflow
    <3>6. data[ridx[r]] = Inline(sent[t]) BY <3>2, <3>5 DEF Encode
    <3>7. PICK b \in BOOLEAN : Outcome(rval[r]) = [id |-> sent[t], ok |-> b]
      <4>1. CASE rval[r] = data[ridx[r]]
        <5>1. Outcome(rval[r]) = [id |-> sent[t], ok |-> TRUE]
          <6>1. rval[r].id = sent[t] /\ rval[r].kind = "inline"
            BY <4>1, <3>6 DEF Inline
          <6>2. (rval[r].kind # "raised") = TRUE BY <6>1
          <6> QED BY ONLY <6>1, <6>2, Zenon DEF Outcome
        <5> QED BY <5>1
      <4>2. CASE rval[r] = Broken(data[ridx[r]])
        <5>1. Outcome(rval[r]) = [id |-> sent[t], ok |-> FALSE]
          <6>1. rval[r].id = sent[t] /\ rval[r].kind = "raised"
            BY <4>2, <3>6 DEF Inline, Broken
          <6>2. (rval[r].kind # "raised") = FALSE BY <6>1
          <6> QED BY ONLY <6>1, <6>2, Zenon DEF Outcome
        <5> QED BY <5>1
      <4> QED BY <3>4, <4>1, <4>2
    <3>8. sent[t] \in Messages BY <1>0, <3>1, SocketFacts
    <3>9. got' = [got EXCEPT ![r] = Append(got[r], [id |-> sent[t], ok |-> b])]
      BY <1>2, <2>2, <3>7
    <3>10. B!Receive(r, [id |-> sent[t], ok |-> b])
      BY <1>2, <3>1, <3>3, <3>9 DEF B!Receive, B!Received, B!Raised
    <3> QED BY <2>0, <3>8, <3>10 DEF B!BNext
  <2> QED BY <2>1, <2>2
<1>3. ASSUME NEW r \in Readers, Recv(r) PROVE B!BNext
  <2> DEFINE L == Len(got[r]) + 1
  <2>1. r \in Remotes \/ Held(r) = 1 BY <1>3 DEF Recv, Held, Readers
  <2>2. sock[r] # <<>> BY <1>3 DEF Recv
  <2>3. L \in 1..Len(sent) /\ sock[r][1] = sent[L]
    BY <1>0, <2>1, <2>2, SocketHead
  <2>4. Len(got[r]) < Len(sent) BY <1>0, <2>3, SocketFacts
  <2>5. sent[L] \in Messages BY <1>0, <2>3, SocketFacts
  <2>6. Head(sock[r]) = sent[L] BY <2>2, <2>3, <1>0 DEF TypeOK
  <2> HIDE DEF L
  <2>7. got' = [got EXCEPT ![r] = Append(got[r], [id |-> sent[L], ok |-> TRUE])]
    BY <1>3, <2>6 DEF Recv
  <2>8. B!Receive(r, [id |-> sent[L], ok |-> TRUE])
    BY <1>3, <2>4, <2>7 DEF B!Receive, B!Received, B!Raised, Recv, L
  <2> QED BY <2>5, <2>8 DEF B!BNext
<1>4. CASE Enqueue \/ AcquireWrite \/ WriteTimeout \/ WriteData \/ WriteRaises
           \/ (\E r \in Locals : ResetReadFlag(r)) \/ SendOverflow \/ Notify
           \/ SendRemote
  BY <1>4 DEF Enqueue, AcquireWrite, WriteTimeout, WriteData, WriteRaises,
     ResetReadFlag, SendOverflow, Notify, SendRemote
<1>5. ASSUME NEW r \in Readers,
             \/ Dequeue(r) \/ LoadReadFlag(r) \/ AcquireRead(r) \/ NothingToRead(r)
             \/ Unpark(r) \/ Woken(r) \/ ReadTimeout(r) \/ ReadData(r)
             \/ RecvTimeout(r) \/ Shutdown(r)
      PROVE  UNCHANGED <<sent, got>>
  BY <1>5 DEF Dequeue, LoadReadFlag, AcquireRead, NothingToRead, Unpark, Woken,
     ReadTimeout, ReadData, RecvTimeout, Shutdown
<1> QED BY <1>1, <1>2, <1>3, <1>4, <1>5
        DEF Next, WriterStep, ReaderStep, LocalStep

\* The flags, the notify socket and the overflow socket together implement an
\* ordered, lossless broadcast of bounded depth, for every number of readers,
\* ring size and overflow pattern, whatever calls time out or raise, as long as
\* none gives up between a chunk and the overflow message it announces.
THEOREM RefinesBroadcast == ASSUME ~LateOverflow PROVE Spec => ImplementsBroadcast
<1>1. Init => FullInv
  BY InitType, InitRing, InitSocket DEF FullInv, RingInv
<1>2. FullInv /\ [Next]_vars => FullInv' BY FullInductive
<1>3. Init => B!BInit BY DEF Init, B!BInit
<1>4. FullInv /\ [Next]_vars => [B!BNext]_(B!bvars)
  <2> SUFFICES ASSUME FullInv, [Next]_vars PROVE [B!BNext]_(B!bvars) OBVIOUS
  <2>1. CASE Next BY <2>1, StepRefines DEF B!bvars
  <2>2. CASE UNCHANGED vars BY <2>2 DEF vars, B!bvars
  <2> QED BY <2>1, <2>2
<1> QED BY <1>1, <1>2, <1>3, <1>4, PTL DEF Spec, ImplementsBroadcast, B!BSpec
=============================================================================
