--------------------------- MODULE Channels_proof ---------------------------
(***************************************************************************)
(* Proofs about the two channels: CircularQueue, between two threads, for  *)
(* every MaxSize >= 4 and every set of elements, and UdpChannel, between   *)
(* two processes, for any packet sizes, any size of the buffers and of a   *)
(* datagram, and any number of packets.                                    *)
(***************************************************************************)
EXTENDS CircularQueue, UdpChannel, SequenceLemmas

\* Every slot that holds a published element holds one of Elements.
PublishedAreValues == \A i \in 0 .. Count - 1 : itemlist[Index(i)] \in Elements

\* What each thread carries between its two accesses: the element a push stored
\* is in the slot it will publish, the element a pop read is in the slot it will
\* release.
InFlight ==
    /\ producer # "idle" => pushArg \in Elements
    /\ producer = "publish" => itemlist[front] = pushArg
    /\ consumer = "publish" => popped = itemlist[back]

\* The inductive invariant.
QueueInv == QueueTypeOK /\ CheckStillHolds /\ InFlight /\ PublishedAreValues

-----------------------------------------------------------------------------
\* The modular successor, by cases.
LEMMA SuccByCases ==
    ASSUME NEW i \in Slots
    PROVE  /\ Succ(i) = IF i = MaxSize - 1 THEN 0 ELSE i + 1
           /\ Succ(i) \in Slots
  <1>1. CASE i = MaxSize - 1
    BY <1>1, SizeAssumption DEF Succ, Slots
  <1>2. CASE i < MaxSize - 1
    BY <1>2, SizeAssumption DEF Succ, Slots
  <1>. QED
    BY <1>1, <1>2, SizeAssumption DEF Slots

\* Count and Index name positions of the ring, and the slot being written is not
\* one of the counted ones.
LEMMA RingArithmetic ==
    ASSUME front \in Slots, back \in Slots
    PROVE  /\ Count \in 0 .. MaxSize - 1
           /\ \A i \in 0 .. Count - 1 : Index(i) \in Slots /\ Index(i) # front
           /\ Count = 0 <=> Empty
           /\ Count = MaxSize - 1 <=> Full
  <1>1. Count \in 0 .. MaxSize - 1
    BY SizeAssumption DEF Count, Slots
  <1>2. \A i \in 0 .. Count - 1 : Index(i) \in Slots /\ Index(i) # front
    BY SizeAssumption DEF Count, Slots, Index
  <1>3. Count = 0 <=> Empty
    BY SizeAssumption DEF Count, Slots, Empty
  <1>4. Count = MaxSize - 1 <=> Full
    BY SizeAssumption, SuccByCases DEF Count, Slots, Full
  <1>. QED
    BY <1>1, <1>2, <1>3, <1>4

\* Publishing a slot adds it as the last of the counted ones.
LEMMA PublishCounts ==
    ASSUME front \in Slots, back \in Slots, ~Full,
           front' = Succ(front), back' = back
    PROVE  /\ Count' = Count + 1
           /\ \A i \in 0 .. Count : (Index(i))' = Index(i)
           /\ Index(Count) = front
  <1>. USE SizeAssumption, SuccByCases
  <1>1. Count' = Count + 1
    BY DEF Count, Slots, Full
  <1>2. \A i \in 0 .. Count : (Index(i))' = Index(i)
    BY DEF Index
  <1>3. Index(Count) = front
    BY DEF Index, Count, Slots
  <1>. QED
    BY <1>1, <1>2, <1>3

\* Releasing a slot removes the first of the counted ones.
LEMMA ReleaseCounts ==
    ASSUME front \in Slots, back \in Slots, ~Empty,
           back' = Succ(back), front' = front
    PROVE  /\ Count' = Count - 1
           /\ \A i \in 0 .. Count - 2 : (Index(i))' = Index(i + 1)
           /\ Index(0) = back
  <1>. USE SizeAssumption, SuccByCases
  <1>1. Count' = Count - 1
    BY DEF Count, Slots, Empty
  <1>2. \A i \in 0 .. Count - 2 : (Index(i))' = Index(i + 1)
    BY DEF Index, Count, Slots
  <1>3. Index(0) = back
    BY DEF Index, Slots
  <1>. QED
    BY <1>1, <1>2, <1>3

-----------------------------------------------------------------------------
\* QueueInv holds in the initial state.
LEMMA QueueInitEstablishes == QueueInit => QueueInv
  <1>. SUFFICES ASSUME QueueInit PROVE QueueInv
    OBVIOUS
  <1>1. QueueTypeOK
    BY SizeAssumption DEF QueueInit, QueueTypeOK, Slots
  <1>2. CheckStillHolds /\ InFlight
    BY DEF QueueInit, CheckStillHolds, InFlight
  <1>3. PublishedAreValues
    BY SizeAssumption DEF QueueInit, PublishedAreValues, Count
  <1>. QED
    BY <1>1, <1>2, <1>3 DEF QueueInv

\* Every step of either thread preserves QueueInv.
LEMMA QueueStepKeeps == QueueInv /\ [QueueNext]_queueVars => QueueInv'
  <1>. SUFFICES ASSUME QueueInv, [QueueNext]_queueVars PROVE QueueInv'
    OBVIOUS
  <1>. USE SizeAssumption, ValueAssumption
  <1>a. /\ QueueTypeOK /\ CheckStillHolds /\ InFlight /\ PublishedAreValues
        /\ front \in Slots /\ back \in Slots
    BY DEF QueueInv, QueueTypeOK
  <1>b. /\ \A i \in 0 .. Count - 1 : Index(i) \in Slots /\ Index(i) # front
        /\ Count \in 0 .. MaxSize - 1
        /\ Count = 0 <=> Empty
    BY <1>a, RingArithmetic
  <1>1. ASSUME NEW v \in Elements, PushCheck(v)
        PROVE  QueueInv'
    <2>1. QueueTypeOK'
      BY <1>1, <1>a DEF PushCheck, QueueTypeOK
    <2>2. CheckStillHolds'
      BY <1>1, <1>a DEF PushCheck, CheckStillHolds, Full, Empty
    <2>3. InFlight'
      BY <1>1, <1>a DEF PushCheck, InFlight
    <2>4. PublishedAreValues'
      BY <1>1, <1>a DEF PushCheck, PublishedAreValues, Count, Index
    <2>. QED
      BY <2>1, <2>2, <2>3, <2>4 DEF QueueInv
  <1>2. CASE PushAssign
    <2>1. QueueTypeOK'
      BY <1>2, <1>a DEF PushAssign, QueueTypeOK
    <2>2. CheckStillHolds'
      BY <1>2, <1>a DEF PushAssign, CheckStillHolds, Full, Empty
    <2>3. InFlight'
      BY <1>2, <1>a DEF PushAssign, InFlight, QueueTypeOK, CheckStillHolds, Empty
    <2>4. PublishedAreValues'
      BY <1>2, <1>a, <1>b DEF PushAssign, PublishedAreValues, Count, Index, QueueTypeOK
    <2>. QED
      BY <2>1, <2>2, <2>3, <2>4 DEF QueueInv
  <1>3. CASE PushPublish
    <2>1. QueueTypeOK'
      BY <1>3, <1>a, SuccByCases DEF PushPublish, QueueTypeOK
    <2>2. /\ Count' = Count + 1
          /\ \A i \in 0 .. Count : (Index(i))' = Index(i)
          /\ Index(Count) = front
      BY <1>3, <1>a, PublishCounts DEF PushPublish, CheckStillHolds
    <2>3. CheckStillHolds'
      <3>1. ~Empty'
        BY <1>3, <1>a DEF PushPublish, CheckStillHolds, Full, Empty
      <3>. QED
        BY <3>1, <1>3 DEF PushPublish, CheckStillHolds
    <2>4. InFlight'
      BY <1>3, <1>a DEF PushPublish, InFlight
    <2>5. PublishedAreValues'
      <3>. SUFFICES ASSUME NEW i \in 0 .. Count' - 1
                    PROVE  itemlist[Index(i)]' \in Elements
        BY DEF PublishedAreValues
      <3>1. CASE i = Count
        BY <3>1, <2>2, <1>b, <1>3, <1>a DEF PushPublish, InFlight
      <3>2. CASE i \in 0 .. Count - 1
        BY <3>2, <2>2, <1>b, <1>3, <1>a DEF PushPublish, PublishedAreValues
      <3>. QED
        BY <3>1, <3>2, <2>2, <1>b
    <2>. QED
      BY <2>1, <2>3, <2>4, <2>5 DEF QueueInv
  <1>4. CASE PopCheck
    <2>1. QueueTypeOK'
      BY <1>4, <1>a DEF PopCheck, QueueTypeOK
    <2>2. CheckStillHolds'
      BY <1>4, <1>a DEF PopCheck, CheckStillHolds, Full, Empty
    <2>3. InFlight'
      BY <1>4, <1>a DEF PopCheck, InFlight
    <2>4. PublishedAreValues'
      BY <1>4, <1>a DEF PopCheck, PublishedAreValues, Count, Index
    <2>. QED
      BY <2>1, <2>2, <2>3, <2>4 DEF QueueInv
  <1>5. CASE PopLoad
    <2>1. QueueTypeOK'
      BY <1>5, <1>a DEF PopLoad, QueueTypeOK
    <2>2. CheckStillHolds'
      BY <1>5, <1>a DEF PopLoad, CheckStillHolds, Full, Empty
    <2>3. InFlight'
      BY <1>5, <1>a DEF PopLoad, InFlight
    <2>4. PublishedAreValues'
      BY <1>5, <1>a DEF PopLoad, PublishedAreValues, Count, Index
    <2>. QED
      BY <2>1, <2>2, <2>3, <2>4 DEF QueueInv
  <1>6. CASE PopPublish
    <2>1. QueueTypeOK'
      BY <1>6, <1>a, SuccByCases DEF PopPublish, QueueTypeOK
    <2>2. /\ Count' = Count - 1
          /\ \A i \in 0 .. Count - 2 : (Index(i))' = Index(i + 1)
      BY <1>6, <1>a, ReleaseCounts DEF PopPublish, CheckStillHolds
    <2>3. CheckStillHolds'
      <3>1. Succ(front) # Succ(back)
        BY <1>6, <1>a, SuccByCases DEF PopPublish, CheckStillHolds, Empty, Slots
      <3>2. ~Full'
        BY <3>1, <1>6 DEF PopPublish, Full, Succ
      <3>. QED
        BY <3>2, <1>6 DEF PopPublish, CheckStillHolds
    <2>4. InFlight'
      BY <1>6, <1>a DEF PopPublish, InFlight
    <2>5. PublishedAreValues'
      <3>. SUFFICES ASSUME NEW i \in 0 .. Count' - 1
                    PROVE  itemlist[Index(i)]' \in Elements
        BY DEF PublishedAreValues
      <3>1. i \in 0 .. Count - 2 /\ i + 1 \in 0 .. Count - 1
        BY <2>2, <1>b
      <3>. QED
        BY <3>1, <2>2, <1>6, <1>a DEF PopPublish, PublishedAreValues
    <2>. QED
      BY <2>1, <2>3, <2>4, <2>5 DEF QueueInv
  <1>7. CASE UNCHANGED queueVars
    BY <1>7 DEF queueVars, QueueInv, QueueTypeOK, CheckStillHolds, InFlight, PublishedAreValues,
                Full, Empty, Count, Index
  <1>. QED
    BY <1>1, <1>2, <1>3, <1>4, <1>5, <1>6, <1>7 DEF QueueNext, Push, Pop

\* QueueInv is an invariant of the queue.
LEMMA QueueInductive == QueueSpec => []QueueInv
  BY QueueInitEstablishes, QueueStepKeeps, PTL DEF QueueSpec

-----------------------------------------------------------------------------
\* The indices stay in the ring and the slots hold elements, whatever the
\* interleaving (circular_queue.h:69-86).
THEOREM QueueTypeCorrect == QueueSpec => []QueueTypeOK
  <1>1. QueueInv => QueueTypeOK
    BY DEF QueueInv
  <1>. QED
    BY <1>1, QueueInductive, PTL

\* A thread's check of full() or empty() still holds when the thread acts on it.
THEOREM ChecksHold == QueueSpec => []CheckStillHolds
  <1>1. QueueInv => CheckStillHolds
    BY DEF QueueInv
  <1>. QED
    BY <1>1, QueueInductive, PTL

-----------------------------------------------------------------------------
\* Content is a sequence of elements, as long as the published part of the ring
\* that no pop has read.
ContentIsSeq ==
    /\ Count - Released \in Nat
    /\ Content \in Seq(Elements)
    /\ Len(Content) = Count - Released
    /\ \A i \in 1 .. Count - Released : Content[i] = itemlist[Index(i - 1 + Released)]

LEMMA ContentSeq == QueueInv => ContentIsSeq
  <1>. SUFFICES ASSUME QueueInv PROVE ContentIsSeq
    OBVIOUS
  <1>1. front \in Slots /\ back \in Slots
    BY DEF QueueInv, QueueTypeOK
  <1>2. Count \in 0 .. MaxSize - 1 /\ (Count = 0 <=> Empty)
    BY <1>1, RingArithmetic
  <1>3. Count - Released \in Nat /\ Released \in {0, 1}
    BY <1>2, SizeAssumption DEF Released, QueueInv, CheckStillHolds
  <1>4. \A i \in 1 .. Count - Released : itemlist[Index(i - 1 + Released)] \in Elements
    <2>. SUFFICES ASSUME NEW i \in 1 .. Count - Released
                  PROVE  itemlist[Index(i - 1 + Released)] \in Elements
      OBVIOUS
    <2>1. i - 1 + Released \in 0 .. Count - 1
      BY <1>2, <1>3, SizeAssumption
    <2>. QED
      BY <2>1 DEF QueueInv, PublishedAreValues
  <1>5. Content \in [1 .. Count - Released -> Elements]
    BY <1>4 DEF Content
  <1>6. Content \in Seq(Elements)
    BY <1>3, <1>5, SeqDef
  <1>7. Len(Content) = Count - Released
    BY <1>3, <1>5, <1>6, LenProperties
  <1>8. \A i \in 1 .. Count - Released : Content[i] = itemlist[Index(i - 1 + Released)]
    BY DEF Content
  <1>. QED
    BY <1>3, <1>6, <1>7, <1>8 DEF ContentIsSeq

\* Two contents of the same length with the same elements are equal.
LEMMA SameContent ==
    ASSUME NEW s \in Seq(Elements), NEW t \in Seq(Elements), Len(s) = Len(t),
           \A i \in 1 .. Len(s) : s[i] = t[i]
    PROVE  s = t
  BY SeqEqual

\* Each step of the ring is a step of the bounded FIFO or changes nothing of it.
LEMMA StepRefines == QueueInv /\ QueueInv' /\ [QueueNext]_queueVars => [Fifo!Next]_(Fifo!qvars)
  <1>. SUFFICES ASSUME QueueInv, QueueInv', [QueueNext]_queueVars
                PROVE  [Fifo!Next]_(Fifo!qvars)
    OBVIOUS
  <1>. USE SizeAssumption
  <1>a. /\ QueueTypeOK /\ CheckStillHolds /\ InFlight /\ PublishedAreValues
        /\ front \in Slots /\ back \in Slots
    BY DEF QueueInv, QueueTypeOK
  <1>b. /\ Count \in 0 .. MaxSize - 1
        /\ \A i \in 0 .. Count - 1 : Index(i) \in Slots /\ Index(i) # front
        /\ Count = MaxSize - 1 <=> Full
    BY <1>a, RingArithmetic
  <1>c. ContentIsSeq
    BY ContentSeq
  <1>d. ContentIsSeq'
    BY ContentSeq, PTL
  <1>e. Released \in {0, 1} /\ Released' \in {0, 1}
    BY DEF Released
  <1>s. ASSUME Content' = Content, popped' = popped
        PROVE  [Fifo!Next]_(Fifo!qvars)
    BY <1>s DEF Fifo!qvars
  <1>1. ASSUME NEW v \in Elements, PushCheck(v)
        PROVE  [Fifo!Next]_(Fifo!qvars)
    BY <1>1, <1>s DEF PushCheck, Content, Count, Index, Released
  <1>2. CASE PushAssign
    <2>1. Count' = Count /\ Released' = Released /\ popped' = popped
      BY <1>2 DEF PushAssign, Count, Released
    <2>2. \A i \in 0 .. Count - 1 : itemlist'[Index(i)'] = itemlist[Index(i)]
      BY <1>2, <1>a, <1>b DEF PushAssign, Index, QueueTypeOK
    <2>3. ASSUME NEW i \in 1 .. Count - Released
          PROVE  Content'[i] = Content[i]
      <3>1. i - 1 + Released \in 0 .. Count - 1 /\ i \in 1 .. Count' - Released'
        BY <1>b, <1>e, <2>1
      <3>. QED
        BY <3>1, <2>1, <2>2, <1>c, <1>d DEF ContentIsSeq
    <2>4. Content' = Content
      BY <2>1, <2>3, <1>c, <1>d, SameContent DEF ContentIsSeq
    <2>. QED
      BY <2>1, <2>4, <1>s
  <1>3. CASE PushPublish
    <2>1. /\ Count' = Count + 1
          /\ \A i \in 0 .. Count : (Index(i))' = Index(i)
          /\ Index(Count) = front
      BY <1>3, <1>a, PublishCounts DEF PushPublish, CheckStillHolds
    <2>2. /\ Released' = Released /\ itemlist' = itemlist /\ popped' = popped
          /\ pushArg \in Elements /\ itemlist[front] = pushArg
      BY <1>3, <1>a DEF PushPublish, Released, InFlight
    <2>3. Len(Content) < MaxSize - 1
      BY <1>3, <1>a, <1>b, <1>c, <1>e DEF PushPublish, CheckStillHolds, ContentIsSeq
    <2>4. /\ Append(Content, pushArg) \in Seq(Elements)
          /\ Len(Append(Content, pushArg)) = Len(Content) + 1
      BY <2>2, <1>c DEF ContentIsSeq
    <2>5. ASSUME NEW i \in 1 .. Count - Released + 1
          PROVE  Content'[i] = Append(Content, pushArg)[i]
      <3>1. /\ i \in 1 .. Count' - Released'
            /\ i - 1 + Released \in 0 .. Count
        BY <2>1, <2>2, <1>b, <1>e, <1>c DEF ContentIsSeq
      <3>2. Content'[i] = itemlist[Index(i - 1 + Released)]
        BY <3>1, <2>1, <2>2, <1>d DEF ContentIsSeq
      <3>3. CASE i = Count - Released + 1
        <4>1. i - 1 + Released = Count /\ i = Len(Content) + 1
          BY <3>3, <1>b, <1>e, <1>c DEF ContentIsSeq
        <4>. QED
          BY <4>1, <3>2, <2>1, <2>2, <1>c DEF ContentIsSeq
      <3>4. CASE i \in 1 .. Count - Released
        BY <3>4, <3>2, <2>2, <1>c DEF ContentIsSeq
      <3>. QED
        BY <3>3, <3>4, <1>c DEF ContentIsSeq
    <2>6. Content' = Append(Content, pushArg)
      BY <2>1, <2>2, <2>4, <2>5, <1>b, <1>c, <1>d, <1>e, SameContent DEF ContentIsSeq
    <2>7. Fifo!Push(pushArg)
      BY <2>2, <2>3, <2>6 DEF Fifo!Push
    <2>. QED
      BY <2>7, <2>2 DEF Fifo!Next
  <1>4. CASE PopCheck
    BY <1>4, <1>s DEF PopCheck, Content, Count, Index, Released
  <1>5. CASE PopLoad
    <2>1. /\ Count' = Count /\ \A i : Index(i)' = Index(i)
          /\ Released = 0 /\ Released' = 1
          /\ itemlist' = itemlist /\ popped' = itemlist[back]
      BY <1>5 DEF PopLoad, Count, Index, Released
    <2>2. Count > 0
      BY <1>5, <1>a, RingArithmetic, <1>b DEF PopLoad, CheckStillHolds
    <2>3. Index(0) = back
      BY <1>a DEF Index, Slots
    <2>4. Content # << >> /\ Head(Content) = popped'
      BY <2>1, <2>2, <2>3, <1>b, <1>c DEF ContentIsSeq
    <2>5. /\ Tail(Content) \in Seq(Elements)
          /\ Len(Tail(Content)) = Len(Content) - 1
          /\ \A i \in 1 .. Len(Tail(Content)) : Tail(Content)[i] = Content[i + 1]
      BY <2>4, <1>c, HeadTailProperties DEF ContentIsSeq
    <2>6. ASSUME NEW i \in 1 .. Count - 1
          PROVE  Content'[i] = Tail(Content)[i]
      <3>1. Content'[i] = itemlist[Index(i)]
        BY <2>1, <1>b, <1>d DEF ContentIsSeq
      <3>2. Content[i + 1] = itemlist[Index(i)]
        BY <2>1, <1>b, <1>c DEF ContentIsSeq
      <3>. QED
        BY <3>1, <3>2, <2>1, <2>5, <1>b, <1>c DEF ContentIsSeq
    <2>7. Content' = Tail(Content)
      BY <2>1, <2>5, <2>6, <1>b, <1>c, <1>d, SameContent DEF ContentIsSeq
    <2>. QED
      BY <2>4, <2>7 DEF Fifo!Pop, Fifo!Next
  <1>6. CASE PopPublish
    <2>1. /\ Count' = Count - 1
          /\ \A i \in 0 .. Count - 2 : (Index(i))' = Index(i + 1)
      BY <1>6, <1>a, ReleaseCounts DEF PopPublish, CheckStillHolds
    <2>2. /\ Released = 1 /\ Released' = 0
          /\ itemlist' = itemlist /\ popped' = popped
      BY <1>6 DEF PopPublish, Released
    <2>3. ASSUME NEW i \in 1 .. Count - 1
          PROVE  Content'[i] = Content[i]
      <3>1. Content'[i] = itemlist[Index(i - 1)']
        BY <2>1, <2>2, <1>b, <1>d DEF ContentIsSeq
      <3>2. Content[i] = itemlist[Index(i)]
        BY <2>2, <1>b, <1>c DEF ContentIsSeq
      <3>3. i - 1 \in 0 .. Count - 2 /\ (i - 1) + 1 = i
        BY <1>b
      <3>. QED
        BY <3>1, <3>2, <3>3, <2>1
    <2>4. Content' = Content
      BY <2>1, <2>2, <2>3, <1>b, <1>c, <1>d, SameContent DEF ContentIsSeq
    <2>. QED
      BY <2>2, <2>4, <1>s
  <1>7. CASE UNCHANGED queueVars
    BY <1>7, <1>s DEF queueVars, Content, Count, Index, Released
  <1>. QED
    BY <1>1, <1>2, <1>3, <1>4, <1>5, <1>6, <1>7 DEF QueueNext, Push, Pop

\* The ring implements the bounded FIFO: no element is lost, duplicated or
\* reordered between the two threads, for every size and every interleaving.
THEOREM Refinement == QueueSpec => ImplementsFifo
  <1>1. QueueInit => Fifo!Init
    <2>. SUFFICES ASSUME QueueInit PROVE Content = << >> /\ popped = NoValue
      BY DEF Fifo!Init
    <2>1. Count - Released = 0
      BY SizeAssumption DEF QueueInit, Count, Released
    <2>. QED
      BY <2>1 DEF Content, QueueInit
  <1>. QED
    BY <1>1, StepRefines, QueueInductive, PTL DEF QueueSpec, ImplementsFifo, Fifo!Spec

-----------------------------------------------------------------------------
\* udp: bytes that are whole packets, one behind the other, of those that were sent.
UdpBytes == [packet : Nat, place : Nat, size : Nat]

Aligned(s, sent) ==
    /\ s # << >> => s[1].place = 1
    /\ \A i \in 1 .. Len(s) :
          /\ s[i].packet \in 1 .. Len(sent) /\ s[i].size = sent[s[i].packet]
          /\ s[i].place \in 1 .. s[i].size
          /\ s[i].place < s[i].size =>
                i < Len(s) /\ s[i + 1].packet = s[i].packet /\ s[i + 1].place = s[i].place + 1
          /\ s[i].place = s[i].size /\ i < Len(s) => s[i + 1].place = 1

\* They are the packets a + 1 .. b, in order.
Chain(s, a, b) ==
    /\ s = << >> => a = b
    /\ s # << >> => s[1].packet = a + 1 /\ s[Len(s)].packet = b
    /\ \A i \in 1 .. Len(s) - 1 :
          s[i].place = s[i].size => s[i + 1].packet = s[i].packet + 1

\* What is in the receiver's buffer, under way and in the sender's buffer are, in this
\* order, the packets got + 1 .. sent.
Cuts(cut, in, net, out, got, sent) ==
    /\ cut[0] = got /\ cut[Len(net) + 2] = sent
    /\ Chain(in, cut[0], cut[1])
    /\ \A i \in 1 .. Len(net) : Chain(net[i], cut[i], cut[i + 1])
    /\ Chain(out, cut[Len(net) + 1], cut[Len(net) + 2])

Flow(in, net, out, got, sent) ==
    \E cut \in [0 .. Len(net) + 2 -> Nat] : Cuts(cut, in, net, out, got, sent)

UdpBuffers == [cap : Nat, off : Nat, bytes : Seq(UdpBytes)]

\* The sender's buffer is b, and the datagrams net are under way.
SenderIs(net, b, sent) ==
    /\ b \in UdpBuffers /\ SpaceSize(b) >= 0 /\ net \in Seq(Seq(UdpBytes))
    /\ sent \in Seq(UdpSizes)
    /\ Aligned(b.bytes, sent)
    /\ \A i \in 1 .. Len(net) : Aligned(net[i], sent)

FlowIs(net, b, sent) ==
    ~misaligned /\ lossless => Flow(udpIn.bytes, net, b.bytes, Len(udpGot), Len(sent))

\* The receiver's buffer has space when it is empty.
ReceiverIs(b) == b \in UdpBuffers /\ b.cap > 0 /\ (b.bytes = << >> => b.off = 0)

ServerIs ==
    /\ ReceiverIs(udpIn) /\ udpGot \in Seq(Seq(UdpBytes))
    /\ lossless \in BOOLEAN /\ misaligned \in BOOLEAN
    /\ ~misaligned => Aligned(udpIn.bytes, udpSent)

GotWhole ==
    ~misaligned => \A i \in 1 .. Len(udpGot) :
        \E n \in 1 .. Len(udpSent) : udpGot[i] = UdpPacket(n, udpSent[n])

GotInOrder == ~misaligned /\ lossless => \A i \in 1 .. Len(udpGot) : udpGot[i][1].packet = i

\* The inductive invariant.
UdpInv ==
    /\ SenderIs(network, udpOut, udpSent) /\ ServerIs
    /\ FlowIs(network, udpOut, udpSent)
    /\ GotWhole /\ GotInOrder

LEMMA NoneAligned == ASSUME NEW sent, NEW a PROVE Aligned(<< >>, sent) /\ Chain(<< >>, a, a)
BY DEF Aligned, Chain

LEMMA BothAligned ==
    ASSUME NEW sent, NEW s \in Seq(UdpBytes), NEW t \in Seq(UdpBytes),
           Aligned(s, sent), Aligned(t, sent)
    PROVE  Aligned(Cat(s, t), sent)
  <1>. DEFINE r == Cat(s, t)   m == Len(s)   n == Len(t)
  <1>1. /\ r \in Seq(UdpBytes) /\ Len(r) = m + n /\ m \in Nat /\ n \in Nat
        /\ \A i \in 1 .. m : r[i] = s[i]
        /\ \A i \in 1 .. n : r[m + i] = t[i]
        /\ \A i \in 1 .. Len(r) : i \in 1 .. m \/ (i - m \in 1 .. n /\ i = m + (i - m))
    <2>1. r \in Seq(UdpBytes) /\ Joined(r, s, t)
      BY BothAre
    <2>2. m \in Nat /\ n \in Nat
      OBVIOUS
    <2>. HIDE DEF r
    <2>. QED
      BY <2>1, <2>2 DEF Joined
  <1>. HIDE DEF r, m, n
  <1>2. \A i \in 1 .. m : s[i].place \in Nat /\ s[i].size \in Nat
    <2>1. \A i \in 1 .. m : s[i] \in UdpBytes
      BY DEF m
    <2>. QED
      BY <2>1 DEF UdpBytes
  <1>3. n > 0 => t[1].place = 1
    <2>1. n > 0 => t # << >>
      BY DEF n
    <2>. QED
      BY <2>1 DEF Aligned
  <1>4. ASSUME NEW i \in 1 .. m
        PROVE  /\ r[i].packet \in 1 .. Len(sent) /\ r[i].size = sent[r[i].packet]
               /\ r[i].place \in 1 .. r[i].size
               /\ r[i].place < r[i].size =>
                     i < Len(r) /\ r[i + 1].packet = r[i].packet /\ r[i + 1].place = r[i].place + 1
               /\ r[i].place = r[i].size /\ i < Len(r) => r[i + 1].place = 1
    <2>1. r[i] = s[i]
      BY <1>1
    <2>2. /\ s[i].packet \in 1 .. Len(sent) /\ s[i].size = sent[s[i].packet]
          /\ s[i].place \in 1 .. s[i].size
          /\ s[i].place < s[i].size =>
                i < m /\ s[i + 1].packet = s[i].packet /\ s[i + 1].place = s[i].place + 1
          /\ s[i].place = s[i].size /\ i < m => s[i + 1].place = 1
      BY DEF Aligned, m
    <2>3. CASE i < m
      <3>1. r[i + 1] = s[i + 1] /\ i < Len(r)
        BY <1>1, <2>3
      <3>. QED
        BY <2>1, <2>2, <2>3, <3>1
    <2>4. CASE i = m
      <3>1. ~(s[i].place < s[i].size)
        BY <1>1, <2>2, <2>4
      <3>2. i < Len(r) => n > 0 /\ r[i + 1] = t[1]
        BY <1>1, <2>4
      <3>. QED
        BY <1>3, <2>1, <2>2, <3>1, <3>2
    <2>. QED
      BY <1>1, <2>3, <2>4
  <1>5. ASSUME NEW j \in 1 .. n, NEW i, i = m + j
        PROVE  /\ r[i].packet \in 1 .. Len(sent) /\ r[i].size = sent[r[i].packet]
               /\ r[i].place \in 1 .. r[i].size
               /\ r[i].place < r[i].size =>
                     i < Len(r) /\ r[i + 1].packet = r[i].packet /\ r[i + 1].place = r[i].place + 1
               /\ r[i].place = r[i].size /\ i < Len(r) => r[i + 1].place = 1
    <2>1. r[i] = t[j] /\ (i < Len(r) <=> j < n)
      BY <1>1, <1>5
    <2>2. j < n => r[i + 1] = t[j + 1]
      <3>1. j < n => j + 1 \in 1 .. n /\ i + 1 = m + (j + 1)
        BY <1>1, <1>5
      <3>. QED
        BY <1>1, <3>1
    <2>3. /\ t[j].packet \in 1 .. Len(sent) /\ t[j].size = sent[t[j].packet]
          /\ t[j].place \in 1 .. t[j].size
          /\ t[j].place < t[j].size =>
                j < n /\ t[j + 1].packet = t[j].packet /\ t[j + 1].place = t[j].place + 1
          /\ t[j].place = t[j].size /\ j < n => t[j + 1].place = 1
      BY DEF Aligned, n
    <2>. QED
      BY <2>1, <2>2, <2>3
  <1>6. r # << >> => r[1].place = 1
    <2>1. CASE m > 0
      <3>1. r[1] = s[1] /\ s # << >>
        BY <1>1, <2>1 DEF m
      <3>. QED
        BY <3>1 DEF Aligned
    <2>2. CASE m = 0
      <3>1. r # << >> => n > 0 /\ r[1] = t[1]
        <4>1. r # << >> => Len(r) # 0
          BY <1>1, EmptySeq
        <4>2. n > 0 => r[0 + 1] = t[1]
          BY <1>1, <2>2
        <4>. QED
          BY <1>1, <2>2, <4>1, <4>2
      <3>. QED
        BY <1>3, <3>1
    <2>. QED
      BY <1>1, <2>1, <2>2
  <1>7. ASSUME NEW i \in 1 .. Len(r)
        PROVE  /\ r[i].packet \in 1 .. Len(sent) /\ r[i].size = sent[r[i].packet]
               /\ r[i].place \in 1 .. r[i].size
               /\ r[i].place < r[i].size =>
                     i < Len(r) /\ r[i + 1].packet = r[i].packet /\ r[i + 1].place = r[i].place + 1
               /\ r[i].place = r[i].size /\ i < Len(r) => r[i + 1].place = 1
    <2>1. CASE i \in 1 .. m
      BY <1>4, <2>1
    <2>2. CASE i - m \in 1 .. n /\ i = m + (i - m)
      BY <1>5, <2>2
    <2>. QED
      BY <1>1, <2>1, <2>2
  <1>8. Aligned(r, sent)
    BY <1>6, <1>7, Zenon DEF Aligned
  <1>. QED
    BY <1>8 DEF r

LEMMA BothChain ==
    ASSUME NEW a, NEW b, NEW c, NEW s \in Seq(UdpBytes), NEW t \in Seq(UdpBytes),
           Chain(s, a, b), Chain(t, b, c)
    PROVE  Chain(Cat(s, t), a, c)
  <1>. DEFINE r == Cat(s, t)   m == Len(s)   n == Len(t)
  <1>1. /\ r \in Seq(UdpBytes) /\ Len(r) = m + n /\ m \in Nat /\ n \in Nat
        /\ \A i \in 1 .. m : r[i] = s[i]
        /\ \A i \in 1 .. n : r[m + i] = t[i]
    <2>1. r \in Seq(UdpBytes) /\ Joined(r, s, t)
      BY BothAre
    <2>2. m \in Nat /\ n \in Nat
      OBVIOUS
    <2>. HIDE DEF r
    <2>. QED
      BY <2>1, <2>2 DEF Joined
  <1>2. CASE s = << >>
    <2>1. r = t /\ a = b
      BY <1>2, CatNone DEF Chain
    <2>. QED
      BY <2>1
  <1>3. CASE t = << >>
    <2>1. r = s /\ b = c
      BY <1>3, CatNone DEF Chain
    <2>. QED
      BY <2>1
  <1>4. CASE s # << >> /\ t # << >>
    <2>1. m # 0 /\ n # 0
      BY <1>4, EmptySeq
    <2>. HIDE DEF r, m, n
    <2>2. m > 0 /\ n > 0 /\ Len(r) # 0 /\ r # << >>
      <3>1. m > 0 /\ n > 0 /\ Len(r) # 0
        BY <1>1, <2>1
      <3>. QED
        BY <1>1, <3>1
    <2>3. r[1].packet = a + 1 /\ r[Len(r)].packet = c
      <3>1. r[1] = s[1] /\ r[m + n] = t[n]
        BY <1>1, <2>2
      <3>. QED
        BY <1>1, <1>4, <3>1 DEF Chain, n
    <2>4. ASSUME NEW i \in 1 .. Len(r) - 1, r[i].place = r[i].size
          PROVE  r[i + 1].packet = r[i].packet + 1
      <3>1. CASE i < m
        <4>1. i \in 1 .. m - 1 /\ r[i] = s[i] /\ r[i + 1] = s[i + 1]
          BY <1>1, <3>1
        <4>. QED
          BY <2>4, <4>1 DEF Chain, m
      <3>2. CASE i = m
        <4>1. r[i] = s[m] /\ r[i + 1] = t[1]
          BY <1>1, <2>2, <3>2
        <4>2. s[m].packet = b /\ t[1].packet = b + 1
          BY <1>4 DEF Chain, m
        <4>. QED
          BY <4>1, <4>2
      <3>3. CASE i > m
        <4>. DEFINE j == i - m
        <4>1. /\ j \in 1 .. n - 1 /\ j \in 1 .. n /\ j + 1 \in 1 .. n
              /\ i = m + j /\ i + 1 = m + (j + 1)
          BY <1>1, <3>3
        <4>. HIDE DEF j
        <4>2. r[i] = t[j] /\ r[i + 1] = t[j + 1]
          BY <1>1, <4>1
        <4>. QED
          BY <2>4, <4>1, <4>2 DEF Chain, n
      <3>. QED
        BY <1>1, <3>1, <3>2, <3>3
    <2>5. Chain(r, a, c)
      BY <2>2, <2>3, <2>4 DEF Chain
    <2>. QED
      BY <2>5 DEF r
  <1>. QED
    BY <1>2, <1>3, <1>4

\* More packets are sent.
LEMMA AlignedOn ==
    ASSUME NEW s, NEW sent \in Seq(Nat), NEW size \in Nat, Aligned(s, sent)
    PROVE  Aligned(s, Append(sent, size))
  <1>1. /\ Len(sent) \in Nat /\ Len(Append(sent, size)) = Len(sent) + 1
        /\ \A i \in 1 .. Len(sent) : Append(sent, size)[i] = sent[i]
    BY AppendProperties
  <1>. DEFINE more == Append(sent, size)
  <1>. HIDE DEF more
  <1>2. \A n \in 1 .. Len(sent) : n \in 1 .. Len(more) /\ more[n] = sent[n]
    BY <1>1 DEF more
  <1>3. Aligned(s, more)
    BY <1>2 DEF Aligned
  <1>. QED
    BY <1>3 DEF more

\* A packet that is sent.
LEMMA PacketIs ==
    ASSUME NEW sent \in Seq(Nat), NEW size \in Nat \ {0}
    PROVE  LET p == UdpPacket(Len(sent) + 1, size)
           IN  /\ p \in Seq(UdpBytes) /\ Len(p) = size
               /\ Aligned(p, Append(sent, size)) /\ Chain(p, Len(sent), Len(sent) + 1)
  <1>. DEFINE n == Len(sent) + 1   p == UdpPacket(n, size)   more == Append(sent, size)
  <1>1. /\ Len(sent) \in Nat /\ n \in Nat /\ n = Len(sent) + 1 /\ Len(more) = n /\ more[n] = size
    BY AppendProperties
  <1>. HIDE DEF n, more
  <1>2. /\ p \in [1 .. size -> UdpBytes]
        /\ \A i \in 1 .. size : p[i] = [packet |-> n, place |-> i, size |-> size]
    BY <1>1 DEF UdpPacket, UdpBytes
  <1>. HIDE DEF p
  <1>3. p \in Seq(UdpBytes) /\ Len(p) = size
    BY <1>2
  <1>4. p # << >> /\ 1 \in 1 .. size /\ size \in 1 .. size
    BY <1>3
  <1>5. \A i \in 1 .. size : p[i].packet = n /\ p[i].place = i /\ p[i].size = size
    BY <1>2
  <1>6. Aligned(p, more)
    <2>1. p[1].place = 1
      BY <1>4, <1>5
    <2>2. ASSUME NEW i \in 1 .. Len(p)
          PROVE  /\ p[i].packet \in 1 .. Len(more) /\ p[i].size = more[p[i].packet]
                 /\ p[i].place \in 1 .. p[i].size
                 /\ p[i].place < p[i].size =>
                       /\ i < Len(p) /\ p[i + 1].packet = p[i].packet
                       /\ p[i + 1].place = p[i].place + 1
                 /\ p[i].place = p[i].size /\ i < Len(p) => p[i + 1].place = 1
      <3>1. p[i].packet = n /\ p[i].place = i /\ p[i].size = size /\ i \in 1 .. size
        BY <1>3, <1>5
      <3>2. i < size => i + 1 \in 1 .. size /\ p[i + 1].packet = n /\ p[i + 1].place = i + 1
        BY <1>5, <3>1
      <3>. QED
        BY <1>1, <1>3, <3>1, <3>2
    <2>. QED
      BY <2>1, <2>2, Zenon DEF Aligned
  <1>7. Chain(p, Len(sent), n)
    <2>1. p[1].packet = Len(sent) + 1 /\ p[Len(p)].packet = n
      BY <1>1, <1>3, <1>4, <1>5
    <2>2. \A i \in 1 .. Len(p) - 1 : p[i].place # p[i].size
      BY <1>3, <1>5
    <2>. QED
      BY <1>4, <2>1, <2>2 DEF Chain
  <1>. QED
    BY <1>3, <1>6, <1>7 DEF p, n, more

\* Aligned bytes begin with a whole packet, and are aligned behind it.
LEMMA FirstIs ==
    ASSUME NEW sent \in Seq(Nat), NEW s \in Seq(UdpBytes), Aligned(s, sent), s # << >>
    PROVE  LET z == s[1].size   rest == SubSeq(s, z + 1, Len(s))
           IN  /\ z \in 1 .. Len(s) /\ s[1].place = 1
               /\ s[1].packet \in 1 .. Len(sent) /\ z = sent[s[1].packet]
               /\ SubSeq(s, 1, z) = UdpPacket(s[1].packet, z)
               /\ rest \in Seq(UdpBytes) /\ Aligned(rest, sent)
               /\ \A a, b \in Nat : Chain(s, a, b) => s[1].packet = a + 1 /\ Chain(rest, a + 1, b)
  <1>. DEFINE z == s[1].size   rest == SubSeq(s, z + 1, Len(s))   N == Len(s)   k == s[1].packet
  <1>1. N \in Nat /\ N >= 1 /\ 1 \in 1 .. N
    <2>1. N # 0
      BY EmptySeq
    <2>. QED
      BY <2>1
  <1>2. /\ z \in Nat /\ z >= 1 /\ k \in 1 .. Len(sent) /\ z = sent[k] /\ s[1].place = 1
    <2>1. s[1] \in UdpBytes
      BY <1>1
    <2>. QED
      BY <1>1, <2>1 DEF Aligned, UdpBytes
  <1>3. \A i \in 1 .. N : s[i] \in UdpBytes
    OBVIOUS
  <1>4. \A i \in 1 .. N :
          /\ s[i].packet \in 1 .. Len(sent) /\ s[i].size = sent[s[i].packet]
          /\ s[i].place \in 1 .. s[i].size
          /\ s[i].place < s[i].size =>
                i < N /\ s[i + 1].packet = s[i].packet /\ s[i + 1].place = s[i].place + 1
          /\ s[i].place = s[i].size /\ i < N => s[i + 1].place = 1
    BY DEF Aligned
  <1>. DEFINE T == {j \in 0 .. z - 1 : j + 1 <= N /\ s[j + 1].packet = k /\ s[j + 1].place = j + 1
                                       /\ s[j + 1].size = z}
  <1>. HIDE DEF N, z, k, rest
  <1>5. 0 \in T
    <2>1. s[0 + 1] = s[1] /\ 0 \in 0 .. z - 1 /\ 0 + 1 <= N
      BY <1>1, <1>2
    <2>. QED
      BY <1>2, <2>1 DEF z, k
  <1>6. ASSUME NEW j \in 1 .. z - 1, j - 1 \in T PROVE j \in T
    <2>0. (j - 1) + 1 = j /\ j \in 0 .. z - 1 /\ j < z /\ j \in Nat /\ j >= 1
      BY <1>2
    <2>1. j <= N /\ s[j].packet = k /\ s[j].place = j /\ s[j].size = z
      BY <1>6, <2>0
    <2>2. j \in 1 .. N
      BY <1>1, <2>0, <2>1
    <2>3. j < N /\ s[j + 1].packet = k /\ s[j + 1].place = j + 1
      BY <1>4, <2>0, <2>1, <2>2
    <2>4. j + 1 \in 1 .. N /\ j + 1 <= N
      BY <1>1, <2>2, <2>3
    <2>5. s[j + 1].size = z
      BY <1>2, <1>4, <2>3, <2>4
    <2>. QED
      BY <2>0, <2>3, <2>4, <2>5
  <1>7. \A j \in 0 .. z - 1 : j \in T
    <2>1. z - 1 \in Nat
      BY <1>2
    <2>. HIDE DEF T
    <2>. QED
      BY <1>5, <1>6, <2>1, UpTheNumbers
  <1>8. \A i \in 1 .. z : i \in 1 .. N /\ s[i].packet = k /\ s[i].place = i /\ s[i].size = z
    <2>1. ASSUME NEW i \in 1 .. z
          PROVE  i \in 1 .. N /\ s[i].packet = k /\ s[i].place = i /\ s[i].size = z
      <3>1. i - 1 \in 0 .. z - 1 /\ (i - 1) + 1 = i
        BY <1>2
      <3>2. i - 1 \in T
        BY <1>7, <3>1
      <3>. QED
        BY <1>1, <3>1, <3>2
    <2>. QED
      BY <2>1
  <1>9. z \in 1 .. N
    BY <1>2, <1>8
  <1>10. SubSeq(s, 1, z) = UdpPacket(k, z)
    <2>1. \A i \in 1 .. z : s[i] = [packet |-> k, place |-> i, size |-> z]
      BY <1>3, <1>8 DEF UdpBytes
    <2>2. /\ SubSeq(s, 1, z) \in Seq(UdpBytes) /\ Len(SubSeq(s, 1, z)) = z
          /\ \A i \in 1 .. z : SubSeq(s, 1, z)[i] = s[i]
      <3>1. \A i \in 1 .. z : s[i] \in UdpBytes
        BY <1>3, <1>8
      <3>2. /\ SubSeq(s, 1, z) \in Seq(UdpBytes)
            /\ Len(SubSeq(s, 1, z)) = IF 1 <= z THEN z - 1 + 1 ELSE 0
            /\ \A i \in 1 .. z - 1 + 1 : SubSeq(s, 1, z)[i] = s[1 + i - 1]
        BY <1>2, <3>1, SubSeqProperties
      <3>. QED
        BY <1>2, <3>2
    <2>3. UdpPacket(k, z) \in Seq(UdpBytes) /\ Len(UdpPacket(k, z)) = z
          /\ \A i \in 1 .. z : UdpPacket(k, z)[i] = [packet |-> k, place |-> i, size |-> z]
      <3>. DEFINE p == UdpPacket(k, z)
      <3>1. /\ p \in [1 .. z -> UdpBytes] /\ z \in Nat
            /\ \A i \in 1 .. z : p[i] = [packet |-> k, place |-> i, size |-> z]
        BY <1>2 DEF UdpPacket, UdpBytes
      <3>. HIDE DEF p
      <3>2. p \in Seq(UdpBytes) /\ Len(p) = z
        BY <3>1
      <3>. QED
        BY <3>1, <3>2 DEF p
    <2>. DEFINE x == SubSeq(s, 1, z)   y == UdpPacket(k, z)
    <2>4. x \in Seq(UdpBytes) /\ y \in Seq(UdpBytes) /\ Len(x) = Len(y)
          /\ \A i \in 1 .. Len(x) : x[i] = y[i]
      BY <2>1, <2>2, <2>3
    <2>. HIDE DEF x, y
    <2>5. x = y
      BY <2>4, SeqEqual
    <2>. QED
      BY <2>5 DEF x, y
  <1>11. /\ rest \in Seq(UdpBytes) /\ Len(rest) = N - z
         /\ \A i \in 1 .. N - z : rest[i] = s[z + i]
    <2>1. \A i \in z + 1 .. N : s[i] \in UdpBytes
      BY <1>2, <1>3
    <2>2. z + 1 \in Int /\ N \in Int
      BY <1>1, <1>2
    <2>3. /\ rest \in Seq(UdpBytes)
          /\ Len(rest) = IF z + 1 <= N THEN N - (z + 1) + 1 ELSE 0
          /\ \A i \in 1 .. N - (z + 1) + 1 : rest[i] = s[(z + 1) + i - 1]
      BY <2>1, <2>2, SubSeqProperties DEF rest, N
    <2>4. N - (z + 1) + 1 = N - z /\ \A i \in 1 .. N - z : (z + 1) + i - 1 = z + i
      BY <1>1, <1>2
    <2>5. ~(z + 1 <= N) => N - z = 0
      BY <1>1, <1>9
    <2>. QED
      BY <2>3, <2>4, <2>5
  <1>12. Aligned(rest, sent)
    <2>1. rest # << >> => rest[1].place = 1
      <3>1. ASSUME rest # << >> PROVE rest[1].place = 1
        <4>1. Len(rest) # 0
          BY <1>11, <3>1, EmptySeq
        <4>2. z < N /\ rest[1] = s[z + 1] /\ z \in 1 .. N
          BY <1>1, <1>9, <1>11, <4>1
        <4>3. s[z].place = s[z].size
          BY <1>2, <1>8
        <4>. QED
          BY <1>4, <4>2, <4>3
      <3>. QED
        BY <3>1
    <2>2. ASSUME NEW i \in 1 .. Len(rest)
          PROVE  /\ rest[i].packet \in 1 .. Len(sent) /\ rest[i].size = sent[rest[i].packet]
                 /\ rest[i].place \in 1 .. rest[i].size
                 /\ rest[i].place < rest[i].size =>
                       /\ i < Len(rest) /\ rest[i + 1].packet = rest[i].packet
                       /\ rest[i + 1].place = rest[i].place + 1
                 /\ rest[i].place = rest[i].size /\ i < Len(rest) => rest[i + 1].place = 1
      <3>1. z + i \in 1 .. N /\ rest[i] = s[z + i] /\ (i < Len(rest) <=> z + i < N)
        BY <1>1, <1>9, <1>11
      <3>2. i < Len(rest) => rest[i + 1] = s[(z + i) + 1]
        <4>1. i < Len(rest) => i + 1 \in 1 .. N - z /\ z + (i + 1) = (z + i) + 1
          BY <1>1, <1>9, <1>11
        <4>. QED
          BY <1>11, <4>1
      <3>. QED
        BY <1>4, <3>1, <3>2
    <2>. QED
      BY <2>1, <2>2, Zenon DEF Aligned
  <1>13. ASSUME NEW a \in Nat, NEW b \in Nat, Chain(s, a, b)
         PROVE  k = a + 1 /\ Chain(rest, a + 1, b)
    <2>1. k = a + 1 /\ s[N].packet = b
      BY <1>13 DEF Chain, k, N
    <2>2. \A i \in 1 .. N - 1 : s[i].place = s[i].size => s[i + 1].packet = s[i].packet + 1
      BY <1>13 DEF Chain, N
    <2>3. CASE z = N
      <3>1. rest = << >>
        <4>1. Len(rest) = 0
          BY <1>1, <1>11, <2>3
        <4>. QED
          BY <1>11, <4>1, EmptySeq
      <3>2. a + 1 = b
        BY <1>8, <1>9, <2>1, <2>3
      <3>. QED
        BY <2>1, <3>1, <3>2, NoneAligned
    <2>4. CASE z # N
      <3>1. z \in 1 .. N - 1 /\ s[z].place = s[z].size /\ s[z].packet = k
        BY <1>1, <1>2, <1>8, <1>9, <2>4
      <3>2. s[z + 1].packet = (a + 1) + 1
        BY <2>1, <2>2, <3>1
      <3>3. /\ Len(rest) # 0 /\ rest # << >> /\ rest[1] = s[z + 1] /\ rest[Len(rest)] = s[N]
        <4>1. N - z \in Nat /\ N - z >= 1 /\ z + (N - z) = N
          BY <1>1, <1>9, <2>4
        <4>. QED
          BY <1>11, <4>1
      <3>4. ASSUME NEW i \in 1 .. Len(rest) - 1, rest[i].place = rest[i].size
            PROVE  rest[i + 1].packet = rest[i].packet + 1
        <4>1. z + i \in 1 .. N - 1 /\ i \in 1 .. N - z /\ i + 1 \in 1 .. N - z
              /\ z + (i + 1) = (z + i) + 1
          BY <1>1, <1>9, <1>11
        <4>2. rest[i] = s[z + i] /\ rest[i + 1] = s[(z + i) + 1]
          BY <1>11, <4>1
        <4>. QED
          BY <2>2, <3>4, <4>1, <4>2
      <3>5. Chain(rest, a + 1, b)
        BY <2>1, <3>2, <3>3, <3>4 DEF Chain
      <3>. QED
        BY <2>1, <3>5
    <2>. QED
      BY <2>3, <2>4
  <1>. QED
    BY <1>2, <1>9, <1>10, <1>11, <1>12, <1>13 DEF z, k, rest, N

\* The operations of a buffer.
LEMMA UdpPush ==
    ASSUME NEW b \in UdpBuffers, NEW s \in Seq(UdpBytes), 1 <= Len(s), Len(s) <= SpaceSize(b)
    PROVE  /\ PushData(b, s) \in UdpBuffers /\ PushData(b, s).bytes = Cat(b.bytes, s)
           /\ SpaceSize(PushData(b, s)) >= 0
  <1>. DEFINE t == b.bytes \o s
  <1>1. b.cap \in Nat /\ b.off \in Nat /\ b.bytes \in Seq(UdpBytes)
    BY DEF UdpBuffers
  <1>2. t \in Seq(UdpBytes) /\ Len(t) = Len(b.bytes) + Len(s) /\ t = Cat(b.bytes, s)
    BY <1>1, ConcatProperties, Zenon DEF Cat
  <1>3. ~(Len(s) < 1 \/ Len(s) > SpaceSize(b))
    <2>1. Len(s) \in Nat /\ Len(b.bytes) \in Nat
      BY <1>1
    <2>. QED
      BY <1>1, <2>1 DEF SpaceSize
  <1>4. PushData(b, s) = [b EXCEPT !.bytes = t]
    BY <1>3 DEF PushData
  <1>. HIDE DEF t
  <1>5. /\ [b EXCEPT !.bytes = t] \in UdpBuffers /\ [b EXCEPT !.bytes = t].bytes = t
        /\ [b EXCEPT !.bytes = t].cap = b.cap /\ [b EXCEPT !.bytes = t].off = b.off
    BY <1>2 DEF UdpBuffers
  <1>6. b.cap - b.off - Len(t) >= 0
    <2>1. Len(s) \in Nat /\ Len(b.bytes) \in Nat
      BY <1>1
    <2>. QED
      BY <1>1, <1>2, <2>1 DEF SpaceSize
  <1>. QED
    BY <1>2, <1>4, <1>5, <1>6 DEF SpaceSize

LEMMA UdpPop ==
    ASSUME NEW b \in UdpBuffers, NEW n \in 1 .. DataSize(b)
    PROVE  /\ PopData(b, n) \in UdpBuffers
           /\ PopData(b, n).bytes = SubSeq(b.bytes, n + 1, Len(b.bytes))
           /\ n = DataSize(b) => PopData(b, n).bytes = << >> /\ SpaceSize(PopData(b, n)) >= 0
  <1>. DEFINE t == SubSeq(b.bytes, n + 1, Len(b.bytes))
  <1>1. b.cap \in Nat /\ b.off \in Nat /\ b.bytes \in Seq(UdpBytes) /\ Len(b.bytes) \in Nat
    BY DEF UdpBuffers
  <1>2. t \in Seq(UdpBytes)
    <2>1. n \in 0 .. Len(b.bytes)
      BY <1>1 DEF DataSize
    <2>. QED
      BY <1>1, <2>1, CutInTwo, Zenon
  <1>3. ~(n < 1 \/ n > DataSize(b))
    BY <1>1 DEF DataSize
  <1>4. CASE n = DataSize(b)
    <2>1. PopData(b, n) = [b EXCEPT !.off = 0, !.bytes = << >>]
      BY <1>3, <1>4 DEF PopData
    <2>2. t = << >>
      BY <1>1, <1>4, SubSeqEmpty DEF DataSize
    <2>3. /\ [b EXCEPT !.off = 0, !.bytes = << >>] \in UdpBuffers
          /\ [b EXCEPT !.off = 0, !.bytes = << >>].bytes = << >>
          /\ [b EXCEPT !.off = 0, !.bytes = << >>].cap = b.cap
          /\ [b EXCEPT !.off = 0, !.bytes = << >>].off = 0
      <3>. DEFINE e == << >>
      <3>1. e \in Seq(UdpBytes)
        OBVIOUS
      <3>. HIDE DEF e
      <3>2. /\ [b EXCEPT !.off = 0, !.bytes = e] \in UdpBuffers
            /\ [b EXCEPT !.off = 0, !.bytes = e].bytes = e
            /\ [b EXCEPT !.off = 0, !.bytes = e].cap = b.cap
            /\ [b EXCEPT !.off = 0, !.bytes = e].off = 0
        BY <3>1 DEF UdpBuffers
      <3>. QED
        BY <3>2 DEF e
    <2>4. b.cap - 0 - Len(<< >>) >= 0
      BY <1>1
    <2>. QED
      BY <2>1, <2>2, <2>3, <2>4 DEF SpaceSize
  <1>5. CASE n # DataSize(b)
    <2>1. PopData(b, n) = [b EXCEPT !.off = @ + n, !.bytes = t]
      BY <1>3, <1>5 DEF PopData
    <2>. HIDE DEF t
    <2>2. b.off + n \in Nat
      BY <1>1
    <2>3. [b EXCEPT !.off = @ + n, !.bytes = t] \in UdpBuffers
          /\ [b EXCEPT !.off = @ + n, !.bytes = t].bytes = t
      BY <1>2, <2>2 DEF UdpBuffers
    <2>. QED
      BY <1>5, <2>1, <2>3 DEF t
  <1>. QED
    BY <1>4, <1>5

LEMMA UdpAdjust ==
    ASSUME NEW b \in UdpBuffers
    PROVE  /\ Adjust(b) \in UdpBuffers /\ Adjust(b).bytes = b.bytes
           /\ SpaceSize(b) >= 0 => SpaceSize(Adjust(b)) >= 0
  <1>1. b.cap \in Nat /\ b.off \in Nat /\ Len(b.bytes) \in Nat
    BY DEF UdpBuffers
  <1>2. /\ [b EXCEPT !.off = 0] \in UdpBuffers /\ [b EXCEPT !.off = 0].bytes = b.bytes
        /\ [b EXCEPT !.off = 0].cap = b.cap /\ [b EXCEPT !.off = 0].off = 0
    BY DEF UdpBuffers
  <1>3. b.cap - b.off - Len(b.bytes) >= 0 => b.cap - 0 - Len(b.bytes) >= 0
    BY <1>1
  <1>. QED
    BY <1>2, <1>3 DEF Adjust, SpaceSize

LEMMA UdpResize ==
    ASSUME NEW b \in UdpBuffers, NEW size \in Nat
    PROVE  /\ Resize(b, b.cap + size) \in UdpBuffers /\ Resize(b, b.cap + size).bytes = b.bytes
           /\ SpaceSize(b) >= 0 => SpaceSize(Resize(b, b.cap + size)) >= size
  <1>. DEFINE c == b.cap + size
  <1>1. b.cap \in Nat /\ b.off \in Nat /\ Len(b.bytes) \in Nat /\ c \in Nat
    BY DEF UdpBuffers
  <1>2. /\ [b EXCEPT !.cap = c] \in UdpBuffers /\ [b EXCEPT !.cap = c].bytes = b.bytes
        /\ [b EXCEPT !.cap = c].cap = c /\ [b EXCEPT !.cap = c].off = b.off
    BY <1>1 DEF UdpBuffers
  <1>3. b.cap - b.off - Len(b.bytes) >= 0 =>
           c - b.off - Len(b.bytes) >= size /\ ~(b.off + Len(b.bytes) > c)
    <2>. DEFINE cap == b.cap   off == b.off   len == Len(b.bytes)
    <2>1. cap \in Nat /\ off \in Nat /\ len \in Nat /\ c = cap + size
      BY <1>1
    <2>. HIDE DEF cap, off, len, c
    <2>2. cap - off - len >= 0 => c - off - len >= size /\ ~(off + len > c)
      BY <2>1
    <2>. QED
      BY <2>2 DEF cap, off, len
  <1>. HIDE DEF c
  <1>4. Resize(b, c) \in UdpBuffers /\ Resize(b, c).bytes = b.bytes
    BY <1>2 DEF Resize
  <1>5. SpaceSize(b) >= 0 => SpaceSize(Resize(b, c)) >= size
    BY <1>2, <1>3 DEF Resize, SpaceSize, DataSize
  <1>. QED
    BY <1>4, <1>5 DEF c

LEMMA UdpNew == NewBuffer(UdpBufSize) \in UdpBuffers /\ NewBuffer(UdpBufSize).bytes = << >>
                /\ SpaceSize(NewBuffer(UdpBufSize)) >= 0
  <1>1. UdpBufSize \in Nat /\ UdpBufSize - 0 - Len(<< >>) >= 0
    BY UdpAssumption
  <1>. QED
    BY <1>1 DEF NewBuffer, UdpBuffers, SpaceSize

-----------------------------------------------------------------------------
\* What each move does to the order of the packets.
LEMMA FlowQueue ==
    ASSUME NEW in, NEW net \in Seq(Seq(UdpBytes)), NEW out \in Seq(UdpBytes),
           NEW got, NEW sent \in Nat, NEW p \in Seq(UdpBytes), Chain(p, sent, sent + 1),
           Flow(in, net, out, got, sent)
    PROVE  Flow(in, net, Cat(out, p), got, sent + 1)
  <1>. DEFINE k == Len(net)
  <1>0. k \in Nat
    OBVIOUS
  <1>1. PICK cut \in [0 .. k + 2 -> Nat] : Cuts(cut, in, net, out, got, sent)
    BY DEF Flow
  <1>. DEFINE cut2 == [cut EXCEPT ![k + 2] = sent + 1]
  <1>2. /\ cut2 \in [0 .. k + 2 -> Nat] /\ cut2[k + 2] = sent + 1
        /\ \A i \in 0 .. k + 1 : cut2[i] = cut[i]
    BY <1>0
  <1>3. 0 \in 0 .. k + 1 /\ 1 \in 0 .. k + 1 /\ k + 1 \in 0 .. k + 1
        /\ \A i \in 1 .. k : i \in 0 .. k + 1 /\ i + 1 \in 0 .. k + 1
    BY <1>0
  <1>. HIDE DEF cut2
  <1>4. /\ cut[0] = got /\ cut[k + 2] = sent /\ Chain(in, cut[0], cut[1])
        /\ \A i \in 1 .. k : Chain(net[i], cut[i], cut[i + 1])
        /\ Chain(out, cut[k + 1], sent)
    BY <1>1, Zenon DEF Cuts
  <1>5. Chain(Cat(out, p), cut[k + 1], sent + 1)
    BY <1>4, BothChain
  <1>6. Cuts(cut2, in, net, Cat(out, p), got, sent + 1)
    BY <1>2, <1>3, <1>4, <1>5, Zenon DEF Cuts
  <1>. QED
    BY <1>2, <1>6 DEF Flow

\* Part of the sender's data, nothing or all, leaves in a datagram.
LEMMA FlowWrite ==
    ASSUME NEW in, NEW net \in Seq(Seq(UdpBytes)), NEW out, NEW x \in Seq(UdpBytes), NEW y,
           (x = << >> /\ y = out) \/ (x = out /\ y = << >>),
           NEW got, NEW sent \in Nat, Flow(in, net, out, got, sent)
    PROVE  Flow(in, Append(net, x), y, got, sent)
  <1>. DEFINE k == Len(net)   net2 == Append(net, x)
  <1>1. PICK cut \in [0 .. k + 2 -> Nat] : Cuts(cut, in, net, out, got, sent)
    BY DEF Flow
  <1>2. k \in Nat /\ Len(net2) = k + 1 /\ net2[k + 1] = x /\ \A i \in 1 .. k : net2[i] = net[i]
    BY AppendProperties
  <1>. HIDE DEF net2, k
  <1>3. /\ cut[0] = got /\ cut[k + 2] = sent /\ Chain(in, cut[0], cut[1])
        /\ \A i \in 1 .. k : Chain(net[i], cut[i], cut[i + 1])
        /\ Chain(out, cut[k + 1], sent)
    BY <1>1, Zenon DEF Cuts, k
  <1>4. cut[k + 1] \in Nat
    BY <1>1, <1>2
  <1>5. PICK mid \in Nat : Chain(x, cut[k + 1], mid) /\ Chain(y, mid, sent)
    <2>1. CASE x = << >> /\ y = out
      BY <1>3, <1>4, <2>1, NoneAligned
    <2>2. CASE x = out /\ y = << >>
      BY <1>3, <2>2, NoneAligned
    <2>. QED
      BY <2>1, <2>2
  <1>. DEFINE cut2 == [i \in 0 .. k + 3 |-> IF i <= k + 1 THEN cut[i]
                                            ELSE IF i = k + 2 THEN mid ELSE sent]
  <1>6. /\ cut2 \in [0 .. k + 3 -> Nat] /\ cut2[k + 2] = mid /\ cut2[k + 3] = sent
        /\ \A i \in 0 .. k + 1 : cut2[i] = cut[i]
    <2>1. \A i \in 0 .. k + 1 : cut[i] \in Nat
      BY <1>1, <1>2
    <2>2. \A i \in 0 .. k + 3 : i <= k + 1 => i \in 0 .. k + 1
      BY <1>2
    <2>. QED
      BY <1>2, <2>1, <2>2
  <1>. HIDE DEF cut2
  <1>7. /\ 0 \in 0 .. k + 1 /\ 1 \in 0 .. k + 1 /\ k + 1 \in 0 .. k + 1
        /\ \A i \in 1 .. k : i \in 0 .. k + 1 /\ i + 1 \in 0 .. k + 1
        /\ Len(net2) + 1 = k + 2 /\ Len(net2) + 2 = k + 3
    BY <1>2
  <1>8. ASSUME NEW i \in 1 .. Len(net2) PROVE Chain(net2[i], cut2[i], cut2[i + 1])
    <2>1. CASE i \in 1 .. k
      <3>1. cut2[i] = cut[i] /\ cut2[i + 1] = cut[i + 1]
        BY <1>6, <1>7, <2>1
      <3>2. net2[i] = net[i] /\ Chain(net[i], cut[i], cut[i + 1])
        BY <1>2, <1>3, <2>1
      <3>. QED
        BY <3>1, <3>2
    <2>2. CASE i = k + 1
      <3>1. cut2[i] = cut[k + 1] /\ cut2[i + 1] = mid
        <4>1. i + 1 = k + 2 /\ cut2[k + 1] = cut[k + 1]
          BY <1>2, <1>6, <1>7, <2>2
        <4>. QED
          BY <1>6, <2>2, <4>1
      <3>2. net2[i] = x
        BY <1>2, <2>2
      <3>. QED
        BY <1>5, <3>1, <3>2
    <2>3. i \in 1 .. k \/ i = k + 1
      BY <1>2
    <2>. QED
      BY <2>1, <2>2, <2>3
  <1>9. Chain(in, cut2[0], cut2[1]) /\ cut2[0] = got
    BY <1>3, <1>6, <1>7
  <1>10. Cuts(cut2, in, net2, y, got, sent)
    <2>1. cut2[Len(net2) + 1] = mid /\ cut2[Len(net2) + 2] = sent
      BY <1>6, <1>7
    <2>. QED
      BY <1>5, <1>8, <1>9, <2>1, Zenon DEF Cuts
  <1>11. cut2 \in [0 .. Len(net2) + 2 -> Nat]
    BY <1>6, <1>7, Zenon
  <1>. QED
    BY <1>10, <1>11, Zenon DEF Flow, net2

\* The first datagram is put behind the receiver's data.
LEMMA FlowRead ==
    ASSUME NEW in \in Seq(UdpBytes), NEW net \in Seq(Seq(UdpBytes)), net # << >>, NEW out,
           NEW got, NEW sent, Flow(in, net, out, got, sent)
    PROVE  Flow(Cat(in, Head(net)), Tail(net), out, got, sent)
  <1>. DEFINE k == Len(net)   net2 == Tail(net)
  <1>1. PICK cut \in [0 .. k + 2 -> Nat] : Cuts(cut, in, net, out, got, sent)
    BY DEF Flow
  <1>2. /\ k \in Nat /\ k >= 1 /\ Len(net2) = k - 1 /\ Head(net) = net[1]
        /\ \A i \in 1 .. k - 1 : net2[i] = net[i + 1]
    <2>1. k # 0 /\ k \in Nat
      BY EmptySeq
    <2>. QED
      BY <2>1, HeadTailProperties
  <1>3. Head(net) \in Seq(UdpBytes)
    BY <1>2
  <1>. HIDE DEF net2, k
  <1>4. /\ cut[0] = got /\ cut[k + 2] = sent /\ Chain(in, cut[0], cut[1])
        /\ \A i \in 1 .. k : Chain(net[i], cut[i], cut[i + 1])
        /\ Chain(out, cut[k + 1], cut[k + 2])
    BY <1>1, Zenon DEF Cuts, k
  <1>. DEFINE cut2 == [i \in 0 .. k + 1 |-> IF i = 0 THEN cut[0] ELSE cut[i + 1]]
  <1>5. /\ cut2 \in [0 .. k + 1 -> Nat] /\ cut2[0] = cut[0]
        /\ \A i \in 1 .. k + 1 : cut2[i] = cut[i + 1]
    <2>1. k \in Nat /\ cut \in [0 .. k + 2 -> Nat]
      BY <1>1, <1>2
    <2>2. /\ 0 \in 0 .. k + 2 /\ 0 \in 0 .. k + 1
          /\ \A i \in 0 .. k + 1 : i + 1 \in 0 .. k + 2
          /\ \A j \in 1 .. k + 1 : j \in 0 .. k + 1 /\ j # 0
      BY <2>1
    <2>3. \A i \in 0 .. k + 1 : cut[0] \in Nat /\ cut[i + 1] \in Nat
      BY <2>1, <2>2
    <2>. QED
      BY <2>2, <2>3
  <1>. HIDE DEF cut2
  <1>6. Len(net2) + 2 = k + 1 /\ Len(net2) + 1 = k /\ 1 \in 1 .. k + 1 /\ k \in 1 .. k + 1
        /\ k + 1 \in 1 .. k + 1 /\ (k + 1) + 1 = k + 2 /\ 1 \in 1 .. k
    BY <1>2
  <1>7. Chain(Cat(in, Head(net)), cut2[0], cut2[1])
    <2>1. Chain(net[1], cut[1], cut[1 + 1]) /\ cut2[1] = cut[1 + 1]
      BY <1>4, <1>5, <1>6
    <2>. QED
      BY <1>2, <1>3, <1>4, <1>5, <2>1, BothChain
  <1>8. ASSUME NEW i \in 1 .. Len(net2) PROVE Chain(net2[i], cut2[i], cut2[i + 1])
    <2>1. i \in 1 .. k - 1 /\ i + 1 \in 1 .. k /\ i \in 1 .. k + 1 /\ i + 1 \in 1 .. k + 1
      BY <1>2
    <2>2. net2[i] = net[i + 1] /\ cut2[i] = cut[i + 1] /\ cut2[i + 1] = cut[(i + 1) + 1]
      BY <1>2, <1>5, <2>1
    <2>. QED
      BY <1>4, <2>1, <2>2
  <1>9. cut2[k] = cut[k + 1] /\ cut2[k + 1] = cut[k + 2]
    BY <1>5, <1>6
  <1>10. Cuts(cut2, Cat(in, Head(net)), net2, out, got, sent)
    BY <1>4, <1>5, <1>6, <1>7, <1>8, <1>9 DEF Cuts
  <1>. QED
    BY <1>5, <1>6, <1>10 DEF Flow, net2

\* The first packet is taken out of the receiver's data.
LEMMA FlowCut ==
    ASSUME NEW in, NEW rest, NEW net \in Seq(Seq(UdpBytes)), NEW out, NEW got \in Nat, NEW sent,
           \A a, b \in Nat : Chain(in, a, b) => in[1].packet = a + 1 /\ Chain(rest, a + 1, b),
           Flow(in, net, out, got, sent)
    PROVE  in[1].packet = got + 1 /\ Flow(rest, net, out, got + 1, sent)
  <1>. DEFINE k == Len(net)
  <1>0. k \in Nat
    OBVIOUS
  <1>1. PICK cut \in [0 .. k + 2 -> Nat] : Cuts(cut, in, net, out, got, sent)
    BY DEF Flow
  <1>. DEFINE cut2 == [cut EXCEPT ![0] = got + 1]
  <1>2. /\ cut2 \in [0 .. k + 2 -> Nat] /\ cut2[0] = got + 1
        /\ \A i \in 1 .. k + 2 : cut2[i] = cut[i]
    BY <1>0
  <1>. HIDE DEF cut2
  <1>3. /\ cut[0] = got /\ cut[k + 2] = sent /\ Chain(in, cut[0], cut[1])
        /\ \A i \in 1 .. k : Chain(net[i], cut[i], cut[i + 1])
        /\ Chain(out, cut[k + 1], cut[k + 2])
    BY <1>1, Zenon DEF Cuts
  <1>. HIDE DEF k
  <1>4. 1 \in 1 .. k + 2 /\ k + 1 \in 1 .. k + 2 /\ k + 2 \in 1 .. k + 2
        /\ \A i \in 1 .. k : i \in 1 .. k + 2 /\ i + 1 \in 1 .. k + 2
    BY <1>0
  <1>5. cut[1] \in Nat
    BY <1>0, <1>1
  <1>6. in[1].packet = got + 1 /\ Chain(rest, got + 1, cut[1])
    BY <1>3, <1>5
  <1>7. Cuts(cut2, rest, net, out, got + 1, sent)
    <2>1. \A i \in 1 .. k : Chain(net[i], cut2[i], cut2[i + 1])
      BY <1>2, <1>3, <1>4
    <2>2. Chain(out, cut2[k + 1], cut2[k + 2]) /\ cut2[k + 2] = sent
      BY <1>2, <1>3, <1>4
    <2>3. Chain(rest, cut2[0], cut2[1]) /\ cut2[0] = got + 1
      BY <1>2, <1>4, <1>6
    <2>. QED
      BY <2>1, <2>2, <2>3 DEF Cuts, k
  <1>. QED
    BY <1>2, <1>6, <1>7 DEF Flow, k

\* The receiver's buffer stays rewound.
LEMMA ReceiverStays ==
    ASSUME NEW b, ReceiverIs(b)
    PROVE  /\ b \in UdpBuffers
           /\ \A s \in Seq(UdpBytes) : 1 <= Len(s) /\ Len(s) <= SpaceSize(b) =>
                 ReceiverIs(PushData(b, s)) /\ PushData(b, s).bytes = Cat(b.bytes, s)
           /\ \A n \in 1 .. DataSize(b) :
                 /\ ReceiverIs(PopData(b, n))
                 /\ PopData(b, n).bytes = SubSeq(b.bytes, n + 1, Len(b.bytes))
           /\ ReceiverIs(Adjust(b)) /\ Adjust(b).bytes = b.bytes
           /\ \A size \in Nat : ReceiverIs(Resize(b, b.cap + size))
                                /\ Resize(b, b.cap + size).bytes = b.bytes
           /\ b.bytes = << >> => SpaceSize(b) > 0
           /\ SpaceSize(b) \in Int /\ DataSize(b) = Len(b.bytes) /\ b.bytes \in Seq(UdpBytes)
  <1>1. /\ b \in UdpBuffers /\ b.cap \in Nat /\ b.off \in Nat /\ b.bytes \in Seq(UdpBytes)
        /\ Len(b.bytes) \in Nat /\ b.cap > 0 /\ (b.bytes = << >> => b.off = 0)
    BY DEF ReceiverIs, UdpBuffers
  <1>2. ASSUME NEW s \in Seq(UdpBytes), 1 <= Len(s), Len(s) <= SpaceSize(b)
        PROVE  ReceiverIs(PushData(b, s)) /\ PushData(b, s).bytes = Cat(b.bytes, s)
    <2>1. PushData(b, s) \in UdpBuffers /\ PushData(b, s).bytes = Cat(b.bytes, s)
      BY <1>1, <1>2, UdpPush
    <2>2. PushData(b, s).cap = b.cap
      BY <1>1 DEF PushData, UdpBuffers
    <2>3. Cat(b.bytes, s) # << >>
      <3>1. Joined(Cat(b.bytes, s), b.bytes, s)
        BY <1>1, BothAre
      <3>2. Len(Cat(b.bytes, s)) = Len(b.bytes) + Len(s) /\ Len(s) \in Nat
        BY <3>1 DEF Joined
      <3>3. Len(Cat(b.bytes, s)) # 0
        BY <1>1, <1>2, <3>2
      <3>. QED
        BY <3>3
    <2>. QED
      BY <1>1, <2>1, <2>2, <2>3 DEF ReceiverIs
  <1>3. ASSUME NEW n \in 1 .. DataSize(b)
        PROVE  /\ ReceiverIs(PopData(b, n))
               /\ PopData(b, n).bytes = SubSeq(b.bytes, n + 1, Len(b.bytes))
    <2>1. /\ PopData(b, n) \in UdpBuffers
          /\ PopData(b, n).bytes = SubSeq(b.bytes, n + 1, Len(b.bytes))
      BY <1>1, UdpPop
    <2>2. PopData(b, n).cap = b.cap
      BY <1>1 DEF PopData, UdpBuffers
    <2>3. CASE n = DataSize(b)
      <3>1. PopData(b, n) = [b EXCEPT !.off = 0, !.bytes = << >>]
        BY <1>1, <2>3 DEF PopData, DataSize
      <3>2. PopData(b, n).off = 0
        BY <1>1, <3>1 DEF UdpBuffers
      <3>. QED
        BY <1>1, <2>1, <2>2, <3>2 DEF ReceiverIs
    <2>4. CASE n # DataSize(b)
      <3>1. n \in 0 .. Len(b.bytes) /\ n < Len(b.bytes)
        BY <1>1, <2>4 DEF DataSize
      <3>2. Len(SubSeq(b.bytes, n + 1, Len(b.bytes))) # 0
        <4>1. \A i \in n + 1 .. Len(b.bytes) : b.bytes[i] \in UdpBytes
          BY <1>1, <3>1
        <4>2. n + 1 \in Int /\ Len(b.bytes) \in Int /\ n + 1 <= Len(b.bytes)
          BY <1>1, <3>1
        <4>3. Len(SubSeq(b.bytes, n + 1, Len(b.bytes))) = Len(b.bytes) - (n + 1) + 1
          BY <4>1, <4>2, SubSeqProperties
        <4>. QED
          BY <1>1, <3>1, <4>3
      <3>3. PopData(b, n).bytes # << >>
        <4>. DEFINE x == PopData(b, n).bytes
        <4>1. Len(x) # 0
          BY <2>1, <3>2
        <4>. HIDE DEF x
        <4>2. x # << >>
          BY <4>1
        <4>. QED
          BY <4>2 DEF x
      <3>. QED
        BY <1>1, <2>1, <2>2, <3>3 DEF ReceiverIs
    <2>. QED
      BY <2>1, <2>3, <2>4
  <1>4. ReceiverIs(Adjust(b)) /\ Adjust(b).bytes = b.bytes
    <2>1. Adjust(b) \in UdpBuffers /\ Adjust(b).bytes = b.bytes
      BY <1>1, UdpAdjust
    <2>2. Adjust(b).cap = b.cap /\ Adjust(b).off \in {0, b.off}
      BY <1>1 DEF Adjust, UdpBuffers
    <2>. QED
      BY <1>1, <2>1, <2>2 DEF ReceiverIs
  <1>5. ASSUME NEW size \in Nat
        PROVE  ReceiverIs(Resize(b, b.cap + size)) /\ Resize(b, b.cap + size).bytes = b.bytes
    <2>1. Resize(b, b.cap + size) \in UdpBuffers /\ Resize(b, b.cap + size).bytes = b.bytes
      BY <1>1, UdpResize
    <2>2. Resize(b, b.cap + size).cap \in {b.cap, b.cap + size}
          /\ Resize(b, b.cap + size).off = b.off
      BY <1>1 DEF Resize, UdpBuffers
    <2>3. Resize(b, b.cap + size).cap > 0
      BY <1>1, <2>2
    <2>. QED
      BY <1>1, <2>1, <2>2, <2>3 DEF ReceiverIs
  <1>6. b.bytes = << >> => SpaceSize(b) > 0
    BY <1>1 DEF SpaceSize
  <1>7. SpaceSize(b) \in Int /\ DataSize(b) = Len(b.bytes)
    BY <1>1 DEF SpaceSize, DataSize
  <1>. QED
    BY <1>1, <1>2, <1>3, <1>4, <1>5, <1>6, <1>7

LEMMA SizesAreReal ==
    ASSUME NEW sent \in Seq(UdpSizes)
    PROVE  sent \in Seq(Nat) /\ Len(sent) \in Nat /\ \A size \in UdpSizes : size \in Nat \ {0}
  <1>1. UdpSizes \subseteq Nat \ {0}
    BY UdpAssumption
  <1>2. Len(sent) \in Nat /\ sent \in [1 .. Len(sent) -> UdpSizes]
    OBVIOUS
  <1>. DEFINE n == Len(sent)
  <1>. HIDE DEF n
  <1>3. sent \in [1 .. n -> Nat] /\ n \in Nat
    BY <1>1, <1>2 DEF n
  <1>4. sent \in Seq(Nat)
    BY <1>3
  <1>. QED
    BY <1>1, <1>2, <1>4

-----------------------------------------------------------------------------
\* The sender.
LEMMA QueueIs ==
    ASSUME NEW net, SenderIs(net, udpOut, udpSent), FlowIs(net, udpOut, udpSent),
           NEW size \in UdpSizes
    PROVE  /\ SenderIs(net, UdpQueued(size), Append(udpSent, size))
           /\ FlowIs(net, UdpQueued(size), Append(udpSent, size))
  <1>1. /\ udpOut \in UdpBuffers /\ SpaceSize(udpOut) >= 0 /\ net \in Seq(Seq(UdpBytes))
        /\ udpSent \in Seq(UdpSizes) /\ Aligned(udpOut.bytes, udpSent)
        /\ \A i \in 1 .. Len(net) : Aligned(net[i], udpSent)
    BY DEF SenderIs
  <1>2. udpSent \in Seq(Nat) /\ Len(udpSent) \in Nat /\ size \in Nat \ {0}
    BY <1>1, SizesAreReal
  <1>. DEFINE grown == UdpGrown(udpOut, size)   p == UdpPacket(Len(udpSent) + 1, size)
              more == Append(udpSent, size)
  <1>3. grown \in UdpBuffers /\ grown.bytes = udpOut.bytes /\ SpaceSize(grown) >= size
    <2>1. CASE SpaceSize(udpOut) < size
      <3>1. grown = Resize(udpOut, udpOut.cap + size)
        BY <2>1 DEF UdpGrown
      <3>. HIDE DEF grown
      <3>. QED
        BY <1>1, <1>2, <3>1, UdpResize
    <2>2. CASE ~(SpaceSize(udpOut) < size)
      <3>1. grown = udpOut /\ SpaceSize(udpOut) \in Int
        BY <1>1, <2>2 DEF UdpGrown, SpaceSize, UdpBuffers
      <3>. QED
        BY <1>1, <1>2, <2>2, <3>1
    <2>. QED
      BY <2>1, <2>2
  <1>4. /\ p \in Seq(UdpBytes) /\ Len(p) = size /\ Aligned(p, more)
        /\ Chain(p, Len(udpSent), Len(udpSent) + 1)
    BY <1>2, PacketIs
  <1>5. /\ more \in Seq(UdpSizes) /\ Len(more) = Len(udpSent) + 1
        /\ \A s : Aligned(s, udpSent) => Aligned(s, more)
    <2>1. more \in Seq(UdpSizes) /\ Len(more) = Len(udpSent) + 1
      BY <1>1, AppendProperties
    <2>. QED
      BY <1>2, <2>1, AlignedOn
  <1>6. UdpQueued(size) = PushData(grown, p)
    BY DEF UdpQueued
  <1>7. udpOut.bytes \in Seq(UdpBytes)
    BY <1>1 DEF UdpBuffers
  <1>. HIDE DEF grown, p, more
  <1>8. /\ UdpQueued(size) \in UdpBuffers /\ SpaceSize(UdpQueued(size)) >= 0
        /\ UdpQueued(size).bytes = Cat(udpOut.bytes, p)
    BY <1>2, <1>3, <1>4, <1>6, UdpPush
  <1>9. Aligned(Cat(udpOut.bytes, p), more)
    BY <1>1, <1>4, <1>5, <1>7, BothAligned
  <1>10. SenderIs(net, UdpQueued(size), more)
    BY <1>1, <1>5, <1>8, <1>9 DEF SenderIs
  <1>11. FlowIs(net, UdpQueued(size), more)
    <2>1. ASSUME Flow(udpIn.bytes, net, udpOut.bytes, Len(udpGot), Len(udpSent))
          PROVE  Flow(udpIn.bytes, net, Cat(udpOut.bytes, p), Len(udpGot), Len(udpSent) + 1)
      BY <1>1, <1>2, <1>4, <1>7, <2>1, FlowQueue
    <2>. QED
      BY <1>5, <1>8, <2>1 DEF FlowIs
  <1>. QED
    BY <1>10, <1>11 DEF more

\* x leaves for the network and the buffer c, with y, is what is left.
LEMMA LeavesIs ==
    ASSUME NEW net, NEW b, NEW sent, SenderIs(net, b, sent), FlowIs(net, b, sent),
           NEW c \in UdpBuffers, SpaceSize(c) >= 0, NEW x,
           (x = << >> /\ c.bytes = b.bytes) \/ (x = b.bytes /\ c.bytes = << >>)
    PROVE  SenderIs(Append(net, x), c, sent) /\ FlowIs(Append(net, x), c, sent)
  <1>1. /\ b \in UdpBuffers /\ net \in Seq(Seq(UdpBytes)) /\ sent \in Seq(UdpSizes)
        /\ Aligned(b.bytes, sent) /\ \A i \in 1 .. Len(net) : Aligned(net[i], sent)
    BY DEF SenderIs
  <1>2. b.bytes \in Seq(UdpBytes) /\ << >> \in Seq(UdpBytes) /\ Len(sent) \in Nat
    BY <1>1, SizesAreReal DEF UdpBuffers
  <1>3. x \in Seq(UdpBytes) /\ Aligned(x, sent) /\ Aligned(c.bytes, sent)
    BY <1>1, <1>2, NoneAligned
  <1>4. /\ Append(net, x) \in Seq(Seq(UdpBytes)) /\ Len(Append(net, x)) = Len(net) + 1
        /\ \A i \in 1 .. Len(net) : Append(net, x)[i] = net[i]
        /\ Append(net, x)[Len(net) + 1] = x
    BY <1>1, <1>3, AppendProperties
  <1>. DEFINE more == Append(net, x)
  <1>5. \A i \in 1 .. Len(more) : Aligned(more[i], sent)
    <2>1. Len(net) \in Nat
      BY <1>1
    <2>. HIDE DEF more
    <2>2. \A i \in 1 .. Len(more) : i \in 1 .. Len(net) \/ i = Len(net) + 1
      BY <1>4, <2>1 DEF more
    <2>. QED
      BY <1>1, <1>3, <1>4, <2>2 DEF more
  <1>6. SenderIs(more, c, sent)
    BY <1>1, <1>3, <1>4, <1>5, Zenon DEF SenderIs
  <1>7. FlowIs(more, c, sent)
    <2>1. ASSUME Flow(udpIn.bytes, net, b.bytes, Len(udpGot), Len(sent))
          PROVE  Flow(udpIn.bytes, more, c.bytes, Len(udpGot), Len(sent))
      <3>. DEFINE in == udpIn.bytes   out == b.bytes   y == c.bytes   got == Len(udpGot)
                  n == Len(sent)
      <3>1. Flow(in, net, out, got, n) /\ n \in Nat
            /\ ((x = << >> /\ y = out) \/ (x = out /\ y = << >>))
        BY <1>2, <2>1
      <3>. HIDE DEF in, out, y, got, n
      <3>2. Flow(in, Append(net, x), y, got, n)
        BY <1>1, <1>3, <3>1, FlowWrite
      <3>. QED
        BY <3>2 DEF in, y, got, n
    <2>. QED
      BY <2>1 DEF FlowIs
  <1>. QED
    BY <1>6, <1>7

LEMMA WriteIs ==
    ASSUME NEW net, NEW b, NEW sent, SenderIs(net, b, sent), FlowIs(net, b, sent),
           UdpWriteFrom(b, net)
    PROVE  SenderIs(network', udpOut', sent) /\ FlowIs(network', udpOut', sent)
  <1>1. CASE network' = net /\ udpOut' = b /\ udpWatch' = TRUE
    BY <1>1
  <1>2. CASE /\ DataSize(b) \in 1 .. MaxDatagram /\ network' = Append(net, b.bytes)
             /\ udpOut' = Adjust(PopData(b, DataSize(b)))
    <2>1. b \in UdpBuffers
      BY DEF SenderIs
    <2>2. DataSize(b) \in 1 .. DataSize(b)
      BY <1>2, UdpAssumption
    <2>. DEFINE c == PopData(b, DataSize(b))
    <2>3. c \in UdpBuffers /\ c.bytes = << >> /\ SpaceSize(c) >= 0
      BY <2>1, <2>2, UdpPop
    <2>. HIDE DEF c
    <2>4. Adjust(c) \in UdpBuffers /\ Adjust(c).bytes = << >> /\ SpaceSize(Adjust(c)) >= 0
      BY <2>3, UdpAdjust
    <2>5. /\ SenderIs(Append(net, b.bytes), Adjust(c), sent)
          /\ FlowIs(Append(net, b.bytes), Adjust(c), sent)
      BY <2>4, LeavesIs
    <2>. QED
      BY <1>2, <2>5 DEF c
  <1>. QED
    BY <1>1, <1>2 DEF UdpWriteFrom

\* What the server has got is not changed by what the sender does.
LEMMA SenderKeeps ==
    ASSUME UdpInv, UNCHANGED serverVars, lossless' \in BOOLEAN, lossless' => lossless,
           SenderIs(network', udpOut', udpSent'), FlowIs(network', udpOut', udpSent'),
           udpSent' = udpSent \/ \E size \in UdpSizes : udpSent' = Append(udpSent, size)
    PROVE  UdpInv'
  <1>1. UNCHANGED <<udpIn, udpGot, misaligned>>
    BY DEF serverVars
  <1>2. SenderIs(network, udpOut, udpSent)'
    BY DEF SenderIs
  <1>3. FlowIs(network, udpOut, udpSent)'
    BY <1>1 DEF FlowIs
  <1>4. GotInOrder'
    BY <1>1 DEF UdpInv, GotInOrder
  <1>5. CASE udpSent' = udpSent
    BY <1>1, <1>2, <1>3, <1>4, <1>5 DEF UdpInv, ServerIs, GotWhole
  <1>6. ASSUME NEW size \in UdpSizes, udpSent' = Append(udpSent, size) PROVE UdpInv'
    <2>1. udpSent \in Seq(Nat) /\ Len(udpSent) \in Nat /\ size \in Nat
      <3>1. udpSent \in Seq(UdpSizes)
        BY DEF UdpInv, SenderIs
      <3>. QED
        BY <3>1, SizesAreReal
    <2>2. Aligned(udpIn.bytes, udpSent) => Aligned(udpIn.bytes, udpSent')
      BY <1>6, <2>1, AlignedOn
    <2>3. ServerIs'
      BY <1>1, <2>2 DEF UdpInv, ServerIs
    <2>4. \A n \in 1 .. Len(udpSent) : n \in 1 .. Len(udpSent') /\ udpSent'[n] = udpSent[n]
      <3>1. /\ Len(Append(udpSent, size)) = Len(udpSent) + 1
            /\ \A n \in 1 .. Len(udpSent) : Append(udpSent, size)[n] = udpSent[n]
        BY <2>1, AppendProperties
      <3>. QED
        BY <1>6, <2>1, <3>1
    <2>5. GotWhole'
      <3>1. ASSUME ~misaligned, NEW i \in 1 .. Len(udpGot)
            PROVE  \E n \in 1 .. Len(udpSent') : udpGot[i] = UdpPacket(n, udpSent'[n])
        <4>1. PICK n \in 1 .. Len(udpSent) : udpGot[i] = UdpPacket(n, udpSent[n])
          BY <3>1 DEF UdpInv, GotWhole
        <4>. QED
          BY <2>4, <4>1
      <3>. QED
        BY <1>1, <3>1 DEF GotWhole
    <2>. QED
      BY <1>2, <1>3, <1>4, <2>3, <2>5 DEF UdpInv
  <1>. QED
    BY <1>5, <1>6

LEMMA UdpSendKeeps ==
    ASSUME UdpInv, NEW size \in UdpSizes, NEW delay \in BOOLEAN, NEW data \in BOOLEAN,
           UdpSend(size, delay, data)
    PROVE  UdpInv'
  <1>1. udpSent' = Append(udpSent, size) /\ UNCHANGED <<serverVars, lossless>>
    BY DEF UdpSend
  <1>2. PICK net \in {network, Append(network, << >>)} :
           IF delay THEN udpOut' = UdpQueued(size) /\ udpWatch' = TRUE /\ network' = net
           ELSE UdpWriteFrom(UdpQueued(size), net)
    <2>1. \E net \in (IF data /\ ~delay /\ DataSize(udpOut) = 0
                      THEN {network, Append(network, << >>)} ELSE {network}) :
             IF delay THEN udpOut' = UdpQueued(size) /\ udpWatch' = TRUE /\ network' = net
             ELSE UdpWriteFrom(UdpQueued(size), net)
      BY Zenon DEF UdpSend
    <2>. QED
      BY <2>1, Zenon
  <1>3. SenderIs(network, udpOut, udpSent) /\ FlowIs(network, udpOut, udpSent)
    BY DEF UdpInv
  <1>4. SenderIs(net, udpOut, udpSent) /\ FlowIs(net, udpOut, udpSent)
    <2>1. udpOut \in UdpBuffers /\ SpaceSize(udpOut) >= 0
      BY <1>3 DEF SenderIs
    <2>2. /\ SenderIs(Append(network, << >>), udpOut, udpSent)
          /\ FlowIs(Append(network, << >>), udpOut, udpSent)
      <3>. DEFINE x == << >>   b == udpOut   s == udpSent   n == network
      <3>1. (x = << >> /\ b.bytes = b.bytes) \/ (x = b.bytes /\ b.bytes = << >>)
        OBVIOUS
      <3>. HIDE DEF x
      <3>2. SenderIs(Append(n, x), b, s) /\ FlowIs(Append(n, x), b, s)
        BY <1>3, <2>1, <3>1, LeavesIs, Zenon
      <3>. QED
        BY <3>2 DEF x
    <2>. QED
      BY <1>2, <1>3, <2>2, Zenon
  <1>5. /\ SenderIs(net, UdpQueued(size), Append(udpSent, size))
        /\ FlowIs(net, UdpQueued(size), Append(udpSent, size))
    BY <1>4, QueueIs
  <1>6. SenderIs(network', udpOut', udpSent') /\ FlowIs(network', udpOut', udpSent')
    <2>1. CASE delay
      BY <1>1, <1>2, <1>5, <2>1
    <2>2. CASE ~delay
      BY <1>1, <1>2, <1>5, <2>2, WriteIs
    <2>. QED
      BY <2>1, <2>2
  <1>7. lossless' \in BOOLEAN /\ (lossless' => lossless)
    BY <1>1 DEF UdpInv, ServerIs
  <1>. QED
    BY <1>1, <1>6, <1>7, SenderKeeps

LEMMA UdpOnWriteKeeps == ASSUME UdpInv, UdpOnWrite PROVE UdpInv'
  <1>1. UdpWriteFrom(udpOut, network) /\ UNCHANGED <<udpSent, serverVars, lossless>>
    BY DEF UdpOnWrite
  <1>2. SenderIs(network, udpOut, udpSent) /\ FlowIs(network, udpOut, udpSent)
    BY DEF UdpInv
  <1>3. SenderIs(network', udpOut', udpSent) /\ FlowIs(network', udpOut', udpSent)
    BY <1>1, <1>2, WriteIs
  <1>4. lossless' \in BOOLEAN /\ (lossless' => lossless)
    BY <1>1 DEF UdpInv, ServerIs
  <1>. QED
    BY <1>1, <1>3, <1>4, SenderKeeps

LEMMA UdpFiniKeeps == ASSUME UdpInv, UdpFini PROVE UdpInv'
  <1>. DEFINE b == NewBuffer(UdpBufSize)
  <1>1. /\ udpOut' = b /\ UNCHANGED <<udpSent, network, serverVars>>
        /\ lossless' = (lossless /\ DataSize(udpOut) = 0)
    BY DEF UdpFini
  <1>2. /\ SenderIs(network, udpOut, udpSent) /\ FlowIs(network, udpOut, udpSent)
        /\ lossless \in BOOLEAN
    BY DEF UdpInv, ServerIs
  <1>3. b \in UdpBuffers /\ b.bytes = << >> /\ SpaceSize(b) >= 0
    BY UdpNew
  <1>. HIDE DEF b
  <1>4. SenderIs(network, b, udpSent)
    BY <1>2, <1>3, NoneAligned DEF SenderIs
  <1>5. lossless' => udpOut.bytes = << >>
    <2>1. udpOut.bytes \in Seq(UdpBytes)
      BY <1>2 DEF SenderIs, UdpBuffers
    <2>. QED
      BY <1>1, <2>1, EmptySeq DEF DataSize
  <1>6. UdpInv'
    <2>1. UNCHANGED <<udpIn, udpGot, misaligned>>
      BY <1>1 DEF serverVars
    <2>2. FlowIs(network, udpOut, udpSent)'
      BY <1>1, <1>2, <1>3, <1>5, <2>1 DEF FlowIs
    <2>3. SenderIs(network, udpOut, udpSent)'
      BY <1>1, <1>4 DEF SenderIs
    <2>. QED
      BY <1>1, <1>2, <2>1, <2>2, <2>3 DEF UdpInv, ServerIs, GotWhole, GotInOrder
  <1>. QED
    BY <1>6

-----------------------------------------------------------------------------
\* The network.
LEMMA LossyKeeps ==
    ASSUME UdpInv, lossless' = FALSE, UNCHANGED <<senderVars, serverVars>>,
           network' \in Seq(Seq(UdpBytes)), PartOf(network', network)
    PROVE  UdpInv'
  <1>1. UNCHANGED <<udpOut, udpSent, udpIn, udpGot, misaligned>>
    BY DEF senderVars, serverVars
  <1>2. \A i \in 1 .. Len(network') : Aligned(network'[i], udpSent)
    BY DEF UdpInv, SenderIs, PartOf
  <1>3. SenderIs(network, udpOut, udpSent)'
    BY <1>1, <1>2 DEF UdpInv, SenderIs
  <1>. QED
    BY <1>1, <1>3 DEF UdpInv, ServerIs, FlowIs, GotWhole, GotInOrder

LEMMA LoseKeeps == ASSUME UdpInv, Lose PROVE UdpInv'
  <1>1. network \in Seq(Seq(UdpBytes))
    BY DEF UdpInv, SenderIs
  <1>2. PICK i \in 1 .. Len(network) : network' = RemoveAt(network, i)
    BY <1>1 DEF Lose
  <1>. DEFINE s == SubSeq(network, 1, i - 1)   t == SubSeq(network, i + 1, Len(network))
  <1>3. i - 1 \in 0 .. Len(network) /\ i \in 0 .. Len(network)
    BY <1>1
  <1>4. s \in Seq(Seq(UdpBytes)) /\ PartOf(s, network)
    BY <1>1, <1>3, CutInTwo, Zenon
  <1>5. t \in Seq(Seq(UdpBytes)) /\ PartOf(t, network)
    BY <1>1, <1>3, CutInTwo, Zenon
  <1>6. network' = Cat(s, t)
    BY <1>2, Zenon DEF RemoveAt, Cat
  <1>. HIDE DEF s, t
  <1>7. network' \in Seq(Seq(UdpBytes)) /\ PartOf(network', network)
    BY <1>1, <1>4, <1>5, <1>6, PartsJoined
  <1>8. lossless' = FALSE /\ UNCHANGED <<senderVars, serverVars>>
    BY DEF Lose
  <1>. QED
    BY <1>7, <1>8, LossyKeeps

LEMMA RepeatKeeps == ASSUME UdpInv, Repeat PROVE UdpInv'
  <1>1. network \in Seq(Seq(UdpBytes)) /\ Len(network) \in Nat
    BY DEF UdpInv, SenderIs
  <1>2. PICK i \in 1 .. Len(network) : network' = Append(network, network[i])
    <2>1. DOMAIN network = 1 .. Len(network)
      BY <1>1
    <2>. QED
      BY <2>1, Zenon DEF Repeat
  <1>3. network[i] \in Seq(UdpBytes)
    BY <1>1
  <1>4. /\ network' \in Seq(Seq(UdpBytes)) /\ Len(network') = Len(network) + 1
        /\ \A j \in 1 .. Len(network) : network'[j] = network[j]
        /\ network'[Len(network) + 1] = network[i]
    BY <1>1, <1>2, <1>3, AppendProperties
  <1>5. PartOf(network', network)
    <2>1. \A j \in 1 .. Len(network') : j \in 1 .. Len(network) \/ j = Len(network) + 1
      BY <1>1, <1>4
    <2>. QED
      BY <1>4, <2>1 DEF PartOf
  <1>6. lossless' = FALSE /\ UNCHANGED <<senderVars, serverVars>>
    BY DEF Repeat
  <1>. QED
    BY <1>4, <1>5, <1>6, LossyKeeps

LEMMA ReorderKeeps == ASSUME UdpInv, Reorder PROVE UdpInv'
  <1>1. network \in Seq(Seq(UdpBytes)) /\ Len(network) \in Nat
    BY DEF UdpInv, SenderIs
  <1>2. PICK i \in 1 .. Len(network) - 1 :
           network' = [network EXCEPT ![i] = network[i + 1], ![i + 1] = network[i]]
    BY DEF Reorder
  <1>3. i \in 1 .. Len(network) /\ i + 1 \in 1 .. Len(network) /\ i # i + 1
    BY <1>1
  <1>4. network[i] \in Seq(UdpBytes) /\ network[i + 1] \in Seq(UdpBytes)
    BY <1>1, <1>3
  <1>5. network \in [1 .. Len(network) -> Seq(UdpBytes)]
    BY <1>1
  <1>6. /\ network' \in [1 .. Len(network) -> Seq(UdpBytes)]
        /\ \A j \in 1 .. Len(network) : network'[j] \in {network[j], network[i], network[i + 1]}
    BY <1>2, <1>3, <1>4, <1>5
  <1>7. network' \in Seq(Seq(UdpBytes)) /\ Len(network') = Len(network)
    <2>. DEFINE x == network'   n == Len(network)   S == Seq(UdpBytes)
    <2>1. x \in [1 .. n -> S] /\ n \in Nat
      BY <1>1, <1>6
    <2>. HIDE DEF x, n, S
    <2>2. x \in Seq(S) /\ Len(x) = n
      BY <2>1
    <2>. QED
      BY <2>2 DEF x, n, S
  <1>8. PartOf(network', network)
    BY <1>3, <1>6, <1>7 DEF PartOf
  <1>9. lossless' = FALSE /\ UNCHANGED <<senderVars, serverVars>>
    BY DEF Reorder
  <1>. QED
    BY <1>7, <1>8, <1>9, LossyKeeps

-----------------------------------------------------------------------------
\* The server.
LEMMA SameBytesKeep ==
    ASSUME UdpInv, ReceiverIs(udpIn'), udpIn'.bytes = udpIn.bytes,
           UNCHANGED <<udpOut, udpSent, network, udpGot, lossless>>,
           misaligned' \in BOOLEAN, misaligned => misaligned'
    PROVE  UdpInv'
  <1>1. SenderIs(network, udpOut, udpSent)' /\ FlowIs(network, udpOut, udpSent)'
    BY DEF UdpInv, SenderIs, FlowIs
  <1>2. ServerIs'
    BY DEF UdpInv, ServerIs, ReceiverIs
  <1>. QED
    BY <1>1, <1>2 DEF UdpInv, GotWhole, GotInOrder

LEMMA ReadKeeps ==
    ASSUME UdpInv, network # << >>, network' = Tail(network), ReceiverIs(udpIn'),
           UNCHANGED <<udpOut, udpSent, udpGot, lossless>>,
           misaligned' \in BOOLEAN, misaligned => misaligned',
           ~misaligned' => udpIn'.bytes = Cat(udpIn.bytes, Head(network))
    PROVE  UdpInv'
  <1>1. /\ network \in Seq(Seq(UdpBytes)) /\ ReceiverIs(udpIn)
        /\ \A i \in 1 .. Len(network) : Aligned(network[i], udpSent)
    BY DEF UdpInv, SenderIs, ServerIs
  <1>2. /\ Head(network) = network[1] /\ Tail(network) \in Seq(Seq(UdpBytes))
        /\ 1 \in 1 .. Len(network) /\ Len(Tail(network)) = Len(network) - 1
        /\ \A i \in 1 .. Len(Tail(network)) : Tail(network)[i] = network[i + 1]
    <2>1. Len(network) # 0 /\ Len(network) \in Nat
      BY <1>1, EmptySeq
    <2>. QED
      BY <1>1, <2>1, HeadTailProperties
  <1>3. Head(network) \in Seq(UdpBytes) /\ Aligned(Head(network), udpSent)
    BY <1>1, <1>2
  <1>4. udpIn.bytes \in Seq(UdpBytes)
    BY <1>1 DEF ReceiverIs, UdpBuffers
  <1>5. \A i \in 1 .. Len(network') : Aligned(network'[i], udpSent)
    <2>. DEFINE m == Len(network)   t == Tail(network)
    <2>1. m \in Nat /\ Len(t) = m - 1
      BY <1>1, <1>2
    <2>2. ASSUME NEW i \in 1 .. Len(t) PROVE Aligned(t[i], udpSent)
      <3>1. i + 1 \in 1 .. m
        BY <2>1
      <3>. QED
        BY <1>1, <1>2, <3>1
    <2>. QED
      BY <2>2
  <1>6. SenderIs(network, udpOut, udpSent)'
    BY <1>2, <1>5 DEF UdpInv, SenderIs
  <1>7. ServerIs'
    <2>1. ~misaligned' => Aligned(udpIn'.bytes, udpSent)
      BY <1>3, <1>4, BothAligned DEF UdpInv, ServerIs
    <2>. QED
      BY <2>1 DEF UdpInv, ServerIs, ReceiverIs
  <1>8. FlowIs(network, udpOut, udpSent)'
    <2>1. ASSUME ~misaligned', lossless'
          PROVE  Flow(udpIn'.bytes, network', udpOut'.bytes, Len(udpGot'), Len(udpSent'))
      <3>1. Flow(udpIn.bytes, network, udpOut.bytes, Len(udpGot), Len(udpSent))
        BY <2>1 DEF UdpInv, FlowIs
      <3>2. Flow(Cat(udpIn.bytes, Head(network)), Tail(network), udpOut.bytes, Len(udpGot),
                 Len(udpSent))
        BY <1>1, <1>4, <3>1, FlowRead
      <3>. QED
        BY <2>1, <3>2
    <2>. QED
      BY <2>1 DEF FlowIs
  <1>. QED
    BY <1>6, <1>7, <1>8 DEF UdpInv, GotWhole, GotInOrder

LEMMA UdpOnReadKeeps == ASSUME UdpInv, UdpOnRead PROVE UdpInv'
  <1>. DEFINE d == Head(network)   n == Least(Len(d), SpaceSize(udpIn))   s == SubSeq(d, 1, n)
  <1>1. /\ network # << >> /\ network' = Tail(network)
        /\ UNCHANGED <<udpOut, udpSent, udpGot, lossless>>
    BY DEF UdpOnRead, senderVars
  <1>2. /\ network \in Seq(Seq(UdpBytes)) /\ ReceiverIs(udpIn) /\ misaligned \in BOOLEAN
    BY DEF UdpInv, SenderIs, ServerIs
  <1>3. d \in Seq(UdpBytes) /\ Len(d) \in Nat
    <2>1. Len(network) # 0 /\ Len(network) \in Nat
      BY <1>1, <1>2, EmptySeq
    <2>2. d = network[1] /\ 1 \in 1 .. Len(network)
      BY <1>1, <1>2, <2>1, HeadTailProperties
    <2>3. d \in Seq(UdpBytes)
      BY <1>2, <2>2
    <2>. HIDE DEF d
    <2>. QED
      BY <2>3
  <1>4. /\ SpaceSize(udpIn) \in Int /\ udpIn.bytes \in Seq(UdpBytes)
        /\ DataSize(udpIn) = Len(udpIn.bytes)
        /\ udpIn.bytes = << >> => SpaceSize(udpIn) > 0
        /\ \A x \in Seq(UdpBytes) : 1 <= Len(x) /\ Len(x) <= SpaceSize(udpIn) =>
              ReceiverIs(PushData(udpIn, x)) /\ PushData(udpIn, x).bytes = Cat(udpIn.bytes, x)
    BY <1>2, ReceiverStays
  <1>5. \/ /\ n > 0 /\ udpIn' = PushData(udpIn, s)
           /\ misaligned' = (misaligned \/ n < Len(d))
        \/ n = 0 /\ ServerError
        \/ n = 0 /\ udpIn' = udpIn /\ misaligned' = (misaligned \/ d # << >>)
    BY Zenon DEF UdpOnRead
  <1>6. n \in Int /\ n <= Len(d) /\ n <= SpaceSize(udpIn) /\ n \in {Len(d), SpaceSize(udpIn)}
    BY <1>3, <1>4 DEF Least
  <1>. HIDE DEF n
  <1>7. CASE n > 0 /\ udpIn' = PushData(udpIn, s) /\ misaligned' = (misaligned \/ n < Len(d))
    <2>1. /\ s \in Seq(UdpBytes) /\ Len(s) = n
      <3>. HIDE DEF d
      <3>1. \A i \in 1 .. n : d[i] \in UdpBytes
        BY <1>3, <1>6
      <3>2. s \in Seq(UdpBytes) /\ Len(s) = IF 1 <= n THEN n - 1 + 1 ELSE 0
        BY <1>6, <3>1, SubSeqProperties
      <3>. QED
        BY <1>6, <1>7, <3>2
    <2>2. n = Len(d) => s = d
      BY <1>3, SubSeqFull
    <2>. HIDE DEF s, d
    <2>3. ReceiverIs(udpIn') /\ udpIn'.bytes = Cat(udpIn.bytes, s)
      BY <1>4, <1>6, <1>7, <2>1
    <2>4. ~misaligned' => s = d
      <3>1. Len(d) \in Nat
        BY <1>3 DEF d
      <3>2. n \in Int /\ n <= Len(d)
        BY <1>6 DEF d
      <3>3. ~misaligned' => ~(n < Len(d))
        BY <1>7 DEF d
      <3>4. ~(n < Len(d)) => n = Len(d)
        BY <3>1, <3>2
      <3>. QED
        BY <2>2, <3>3, <3>4, Zenon
    <2>5. misaligned' \in BOOLEAN /\ (misaligned => misaligned')
      BY <1>7
    <2>6. ~misaligned' => udpIn'.bytes = Cat(udpIn.bytes, d)
      BY <2>3, <2>4
    <2>. QED
      BY <1>1, <2>3, <2>5, <2>6, ReadKeeps DEF d
  <1>8. CASE n = 0 /\ ServerError
    <2>1. udpIn' = udpIn /\ misaligned' = (misaligned \/ Len(udpIn.bytes) > 0)
      BY <1>4, <1>8 DEF ServerError
    <2>2. ASSUME ~misaligned' PROVE d = << >>
      <3>1. Len(udpIn.bytes) = 0
        <4>1. Len(udpIn.bytes) \in Nat
          BY <1>4
        <4>2. ~(Len(udpIn.bytes) > 0)
          BY <2>1, <2>2, Zenon
        <4>. QED
          BY <4>1, <4>2
      <3>2. SpaceSize(udpIn) > 0
        BY <1>4, <3>1, EmptySeq
      <3>3. Len(d) = 0
        BY <1>4, <1>6, <1>8, <3>2
      <3>. QED
        BY <1>3, <3>3, EmptySeq
    <2>3. ~misaligned' => udpIn'.bytes = Cat(udpIn.bytes, d)
      BY <1>4, <2>1, <2>2, CatNone
    <2>4. misaligned' \in BOOLEAN /\ (misaligned => misaligned')
      BY <2>1
    <2>. QED
      BY <1>1, <1>2, <2>1, <2>3, <2>4, ReadKeeps
  <1>9. CASE n = 0 /\ udpIn' = udpIn /\ misaligned' = (misaligned \/ d # << >>)
    <2>1. ~misaligned' => udpIn'.bytes = Cat(udpIn.bytes, d)
      BY <1>4, <1>9, CatNone
    <2>2. misaligned' \in BOOLEAN /\ (misaligned => misaligned')
      BY <1>9
    <2>. QED
      BY <1>1, <1>2, <1>9, <2>1, <2>2, ReadKeeps
  <1>. QED
    BY <1>5, <1>7, <1>8, <1>9

\* What get_packet_info may say is a number.
LEMMA PacketSizesAre ==
    ASSUME UdpInv, DataSize(udpIn) > 0
    PROVE  /\ \A size \in UdpPacketSizes : size \in Nat
           /\ udpIn.bytes \in Seq(UdpBytes) /\ udpIn.bytes # << >>
  <1>1. /\ udpIn.bytes \in Seq(UdpBytes) /\ DataSize(udpIn) = Len(udpIn.bytes)
    <2>1. ReceiverIs(udpIn)
      BY DEF UdpInv, ServerIs
    <2>. QED
      BY <2>1, ReceiverStays
  <1>2. Len(udpIn.bytes) \in Nat /\ Len(udpIn.bytes) # 0 /\ 1 \in 1 .. Len(udpIn.bytes)
    BY <1>1
  <1>3. udpIn.bytes[1] \in UdpBytes
    BY <1>1, <1>2
  <1>4. udpIn.bytes[1].size \in Nat
    BY <1>3 DEF UdpBytes
  <1>5. \A size \in UdpPacketSizes : size \in Nat
    <2>1. UdpSizes \cup {0} \subseteq Nat
      BY UdpAssumption
    <2>2. UdpPacketSizes = {udpIn.bytes[1].size} \/ UdpPacketSizes = UdpSizes \cup {0}
      BY Zenon DEF UdpPacketSizes
    <2>. HIDE DEF UdpPacketSizes
    <2>. QED
      BY <1>4, <2>1, <2>2
  <1>6. udpIn.bytes # << >>
    BY <1>2
  <1>. QED
    BY <1>1, <1>5, <1>6

LEMMA CutPacketKeeps == ASSUME UdpInv, CutPacket PROVE UdpInv'
  <1>1. DataSize(udpIn) > 0 /\ UNCHANGED <<udpOut, udpSent, network, lossless>>
    BY DEF CutPacket, senderVars
  <1>2. PICK size \in UdpPacketSizes \ {0} :
          /\ size <= DataSize(udpIn)
          /\ udpGot' = Append(udpGot, SubSeq(udpIn.bytes, 1, size))
          /\ \/ udpIn' = PopData(udpIn, size) /\ misaligned' = misaligned
             \/ ServerError
    BY Zenon DEF CutPacket
  <1>. DEFINE s == udpIn.bytes   x == SubSeq(s, 1, size)   rest == SubSeq(s, size + 1, Len(s))
              G == Len(udpGot)
  <1>3. /\ s \in Seq(UdpBytes) /\ s # << >> /\ size \in Nat /\ size # 0
    BY <1>1, <1>2, PacketSizesAre
  <1>4. /\ SenderIs(network, udpOut, udpSent) /\ ReceiverIs(udpIn) /\ udpGot \in Seq(Seq(UdpBytes))
        /\ lossless \in BOOLEAN /\ misaligned \in BOOLEAN
        /\ ~misaligned => Aligned(s, udpSent)
    BY DEF UdpInv, ServerIs
  <1>5. DataSize(udpIn) = Len(s)
    BY <1>4, ReceiverStays
  <1>6. size \in 1 .. DataSize(udpIn) /\ size \in 0 .. Len(s)
    <2>1. Len(s) \in Nat
      BY <1>3
    <2>. QED
      BY <1>2, <1>3, <1>5, <2>1
  <1>7. x \in Seq(UdpBytes)
    BY <1>3, <1>6, CutInTwo, Zenon
  <1>. HIDE DEF x, s, rest
  <1>8. /\ udpGot' \in Seq(Seq(UdpBytes)) /\ G \in Nat /\ Len(udpGot') = G + 1
        /\ \A i \in 1 .. G : udpGot'[i] = udpGot[i]
        /\ udpGot'[G + 1] = x
    BY <1>2, <1>4, <1>7, AppendProperties DEF x, s
  <1>. HIDE DEF G
  <1>9. SenderIs(network, udpOut, udpSent)'
    BY <1>1, <1>4 DEF SenderIs
  <1>10. CASE ServerError
    <2>1. misaligned' = TRUE /\ udpIn' = udpIn
      BY <1>1, <1>10 DEF ServerError
    <2>2. ReceiverIs(udpIn')
      BY <1>4, <2>1
    <2>3. ServerIs'
      BY <1>1, <1>4, <1>8, <2>1, <2>2 DEF ServerIs, ReceiverIs
    <2>. QED
      BY <1>9, <2>1, <2>3 DEF UdpInv, FlowIs, GotWhole, GotInOrder
  <1>11. CASE udpIn' = PopData(udpIn, size) /\ misaligned' = misaligned
    <2>1. ReceiverIs(udpIn') /\ udpIn'.bytes = rest
      BY <1>4, <1>6, <1>11, ReceiverStays DEF rest, s
    <2>2. CASE misaligned
      <3>1. ServerIs'
        BY <1>1, <1>4, <1>8, <1>11, <2>1, <2>2 DEF ServerIs, ReceiverIs
      <3>. QED
        BY <1>9, <1>11, <2>2, <3>1 DEF UdpInv, FlowIs, GotWhole, GotInOrder
    <2>3. CASE ~misaligned
      <3>. DEFINE k == s[1].packet
      <3>1. udpSent \in Seq(Nat)
        <4>1. udpSent \in Seq(UdpSizes)
          BY <1>4 DEF SenderIs
        <4>. QED
          BY <4>1, SizesAreReal
      <3>2. Aligned(s, udpSent)
        BY <1>4, <2>3
      <3>3. s[1].place = 1 /\ size = s[1].size
        <4>1. s[1].place = 1
          BY <1>3, <3>1, <3>2, FirstIs
        <4>. QED
          BY <1>2, <4>1 DEF UdpPacketSizes, s
      <3>4. /\ k \in 1 .. Len(udpSent) /\ size = udpSent[k] /\ x = UdpPacket(k, size)
            /\ rest \in Seq(UdpBytes) /\ Aligned(rest, udpSent)
            /\ \A a, b \in Nat : Chain(s, a, b) => s[1].packet = a + 1 /\ Chain(rest, a + 1, b)
        BY <1>3, <3>1, <3>2, <3>3, FirstIs DEF x, rest
      <3>5. ServerIs'
        BY <1>1, <1>4, <1>8, <1>11, <2>1, <3>4 DEF ServerIs, ReceiverIs
      <3>6. lossless => k = G + 1 /\ Flow(rest, network, udpOut.bytes, G + 1, Len(udpSent))
        <4>1. ASSUME lossless PROVE Flow(s, network, udpOut.bytes, G, Len(udpSent))
          BY <2>3, <4>1 DEF UdpInv, FlowIs, s, G
        <4>2. network \in Seq(Seq(UdpBytes))
          BY <1>4 DEF SenderIs
        <4>. QED
          BY <1>8, <3>4, <4>1, <4>2, FlowCut
      <3>7. FlowIs(network, udpOut, udpSent)'
        BY <1>1, <1>8, <2>1, <3>6 DEF FlowIs
      <3>8. \A i \in 1 .. Len(udpGot') : i \in 1 .. G \/ i = G + 1
        BY <1>8
      <3>9. GotWhole'
        <4>1. ASSUME NEW i \in 1 .. Len(udpGot')
              PROVE  \E n \in 1 .. Len(udpSent) : udpGot'[i] = UdpPacket(n, udpSent[n])
          <5>1. CASE i \in 1 .. G
            BY <1>8, <2>3, <5>1 DEF UdpInv, GotWhole, G
          <5>2. CASE i = G + 1
            BY <1>8, <3>4, <5>2
          <5>. QED
            BY <3>8, <5>1, <5>2
        <4>. QED
          BY <1>1, <4>1 DEF GotWhole
      <3>10. GotInOrder'
        <4>1. ASSUME lossless, NEW i \in 1 .. Len(udpGot') PROVE udpGot'[i][1].packet = i
          <5>1. CASE i \in 1 .. G
            BY <1>8, <2>3, <4>1, <5>1 DEF UdpInv, GotInOrder, G
          <5>2. CASE i = G + 1
            <6>1. x[1].packet = k
              <7>1. 1 \in 1 .. size
                BY <1>3
              <7>. QED
                BY <3>4, <7>1 DEF UdpPacket
            <6>. QED
              BY <1>8, <3>6, <4>1, <5>2, <6>1
          <5>. QED
            BY <3>8, <5>1, <5>2
        <4>. QED
          BY <1>1, <4>1 DEF GotInOrder
      <3>. QED
        BY <1>9, <3>5, <3>7, <3>9, <3>10 DEF UdpInv
    <2>. QED
      BY <2>2, <2>3
  <1>. QED
    BY <1>2, <1>10, <1>11

LEMMA CutEndsKeeps == ASSUME UdpInv, CutEnds PROVE UdpInv'
  <1>1. /\ UNCHANGED <<udpOut, udpSent, network, udpGot, lossless>> /\ misaligned' = misaligned
    BY DEF CutEnds, senderVars
  <1>2. ReceiverIs(udpIn) /\ misaligned \in BOOLEAN
    BY DEF UdpInv, ServerIs
  <1>3. ReceiverIs(udpIn') /\ udpIn'.bytes = udpIn.bytes
    <2>1. CASE udpIn' = Adjust(udpIn)
      BY <1>2, <2>1, ReceiverStays
    <2>2. ASSUME NEW size \in UdpPacketSizes, DataSize(udpIn) > 0,
                 udpIn' = Adjust(RoomFor(udpIn, size))
          PROVE  ReceiverIs(udpIn') /\ udpIn'.bytes = udpIn.bytes
      <3>1. size \in Nat
        BY <2>2, PacketSizesAre
      <3>. DEFINE b == RoomFor(udpIn, size)
      <3>2. b = Resize(udpIn, udpIn.cap + size) \/ b = udpIn
        BY DEF RoomFor
      <3>. HIDE DEF b
      <3>3. ReceiverIs(b) /\ b.bytes = udpIn.bytes
        BY <1>2, <3>1, <3>2, ReceiverStays
      <3>4. ReceiverIs(Adjust(b)) /\ Adjust(b).bytes = b.bytes
        BY <3>3, ReceiverStays
      <3>. QED
        BY <2>2, <3>3, <3>4 DEF b
    <2>. QED
      BY <2>1, <2>2 DEF CutEnds
  <1>. QED
    BY <1>1, <1>2, <1>3, SameBytesKeep

LEMMA CutBadKeeps == ASSUME UdpInv, CutBad PROVE UdpInv'
  <1>1. ServerError /\ UNCHANGED <<udpOut, udpSent, network, udpGot, lossless>>
    BY DEF CutBad, senderVars
  <1>2. udpIn' = udpIn /\ misaligned' = (misaligned \/ DataSize(udpIn) > 0)
    BY <1>1 DEF ServerError
  <1>3. ReceiverIs(udpIn) /\ misaligned \in BOOLEAN
    BY DEF UdpInv, ServerIs
  <1>. QED
    BY <1>1, <1>2, <1>3, SameBytesKeep

LEMMA OthersKeep ==
    ASSUME UdpInv, UdpReopen \/ ServerInit \/ UdpReadFails \/ UNCHANGED udpVars PROVE UdpInv'
  <1>1. UNCHANGED <<udpOut, udpSent, network, udpIn, udpGot, lossless, misaligned>>
    BY DEF UdpReopen, ServerInit, UdpReadFails, udpVars, senderVars, serverVars
  <1>2. ReceiverIs(udpIn) /\ misaligned \in BOOLEAN
    BY DEF UdpInv, ServerIs
  <1>. QED
    BY <1>1, <1>2, SameBytesKeep

-----------------------------------------------------------------------------
LEMMA UdpStarts == ASSUME UdpInit PROVE UdpInv
  <1>. DEFINE b == NewBuffer(UdpBufSize)   e == << >>
  <1>1. /\ b \in UdpBuffers /\ b.bytes = e /\ SpaceSize(b) >= 0 /\ b.cap > 0 /\ b.off = 0
    <2>1. b.cap > 0 /\ b.off = 0
      BY UdpAssumption DEF NewBuffer
    <2>. QED
      BY <2>1, UdpNew
  <1>2. /\ udpOut = b /\ udpIn = b /\ udpSent = e /\ udpGot = e /\ network = e
        /\ lossless = TRUE /\ misaligned = FALSE
    BY DEF UdpInit
  <1>3. /\ \A S : e \in Seq(S) /\ Len(e) = 0
        /\ Aligned(e, e) /\ Chain(e, 0, 0)
    BY NoneAligned
  <1>. HIDE DEF b, e
  <1>4. SenderIs(network, udpOut, udpSent)
    BY <1>1, <1>2, <1>3 DEF SenderIs
  <1>5. ServerIs
    BY <1>1, <1>2, <1>3 DEF ServerIs, ReceiverIs
  <1>6. Flow(e, e, e, 0, 0)
    <2>. DEFINE cut == [i \in 0 .. Len(e) + 2 |-> 0]
    <2>1. /\ cut \in [0 .. Len(e) + 2 -> Nat] /\ cut[0] = 0 /\ cut[1] = 0 /\ cut[2] = 0
          /\ 1 .. Len(e) = {} /\ Len(e) + 1 = 1 /\ Len(e) + 2 = 2
      BY <1>3
    <2>. HIDE DEF cut
    <2>2. Cuts(cut, e, e, e, 0, 0)
      BY <1>3, <2>1 DEF Cuts
    <2>. QED
      BY <2>1, <2>2, Zenon DEF Flow
  <1>7. FlowIs(network, udpOut, udpSent)
    BY <1>1, <1>2, <1>3, <1>6 DEF FlowIs
  <1>8. GotWhole /\ GotInOrder
    BY <1>2, <1>3 DEF GotWhole, GotInOrder
  <1>. QED
    BY <1>4, <1>5, <1>7, <1>8 DEF UdpInv

LEMMA UdpStep == ASSUME UdpInv, [UdpNext]_udpVars PROVE UdpInv'
  <1>1. ASSUME NEW size \in UdpSizes, NEW delay \in BOOLEAN, NEW data \in BOOLEAN,
               UdpSend(size, delay, data)
        PROVE  UdpInv'
    BY <1>1, UdpSendKeeps
  <1>2. CASE UdpOnWrite \/ UdpFini
    BY <1>2, UdpOnWriteKeeps, UdpFiniKeeps
  <1>3. CASE Lose \/ Repeat \/ Reorder
    BY <1>3, LoseKeeps, RepeatKeeps, ReorderKeeps
  <1>4. CASE UdpOnRead \/ CutPacket
    BY <1>4, UdpOnReadKeeps, CutPacketKeeps
  <1>5. CASE CutEnds \/ CutBad
    BY <1>5, CutEndsKeeps, CutBadKeeps
  <1>6. CASE UdpReopen \/ ServerInit \/ UdpReadFails \/ UNCHANGED udpVars
    BY <1>6, OthersKeep
  <1>. QED
    BY <1>1, <1>2, <1>3, <1>4, <1>5, <1>6, Zenon DEF UdpNext

\* UdpWhole holds in every run: what process_packet gets is a packet as it was sent, and
\* without loss, in order (udp_data_handler.cpp:152-237, udp_server.cpp:75-138).
THEOREM UdpArrivesWhole == UdpSpec => []UdpWhole
  <1>1. UdpInv => UdpWhole
    <2>1. ASSUME UdpInv PROVE DOMAIN udpGot = 1 .. Len(udpGot) /\ DOMAIN udpSent = 1 .. Len(udpSent)
      <3>1. udpGot \in Seq(Seq(UdpBytes)) /\ udpSent \in Seq(UdpSizes)
        BY <2>1 DEF UdpInv, ServerIs, SenderIs
      <3>. QED
        BY <3>1
    <2>. QED
      BY <2>1, Zenon DEF UdpInv, UdpWhole, GotWhole, GotInOrder
  <1>2. UdpSpec => []UdpInv
    BY UdpStarts, UdpStep, PTL DEF UdpSpec
  <1>. QED
    BY <1>1, <1>2, PTL
=============================================================================
