---------------------------- MODULE Library_proof ----------------------------
(***************************************************************************)
(* Proofs about FsmManager, for any number of identifiers and objects,     *)
(* about NotifyHandler, for any number of senders and any size of the pipe *)
(* and of a read, about RingMemBuffer, for any size of the ring and of the *)
(* blocks, about Calendar, for any length of the day and any zone, and     *)
(* about BenchClient, for any number of connections and any delays.        *)
(***************************************************************************)
EXTENDS FsmManager, NotifyHandler, RingMemBuffer, Calendar, BenchClient, TLAPS

FsmType ==
    /\ fsmSeq \in Ids
    /\ container \in [Ids -> Objects \cup {NoObject}]
    /\ allocated \subseteq Objects
    /\ idOf \in [Objects -> Ids]
    /\ collided \in BOOLEAN

\* The two halves of FsmFound.
OnlyLiving ==
    \A i \in Ids : container[i] # NoObject => container[i] \in allocated /\ idOf[container[i]] = i

AllFound == ~collided => \A o \in allocated : container[idOf[o]] = o

LEMMA FoundHalves == FsmFound <=> OnlyLiving /\ AllFound
BY DEF FsmFound, GetFsm, OnlyLiving, AllFound

FsmInv == FsmType /\ OnlyLiving /\ AllFound

LEMMA IdsStay == 0 \in Ids /\ (fsmSeq \in Ids => NextId \in Ids)
BY FsmAssumption, SMT DEF Ids, NextId

LEMMA FsmInitEstablishes == FsmInit => FsmInv
BY IdsStay DEF FsmInit, FsmInv, FsmType, OnlyLiving, AllFound

LEMMA CreateKeeps == ASSUME FsmInv, NEW o \in Objects, CreateFsm(o) PROVE FsmInv'
  <1>. DEFINE n == NextId
  <1>1. FsmType
    BY DEF FsmInv
  <1>2. n \in Ids
    BY <1>1, IdsStay DEF FsmType
  <1>3. /\ o \notin allocated
        /\ idOf' = [idOf EXCEPT ![o] = n]
        /\ container' = [container EXCEPT ![n] = o]
        /\ allocated' = allocated \cup {o}
        /\ collided' = (collided \/ \E x \in allocated : idOf[x] = n)
    BY DEF CreateFsm
  <1>4. FsmType'
    <2>1. fsmSeq' = n
      BY DEF CreateFsm
    <2>. QED
      BY <1>1, <1>2, <1>3, <2>1 DEF FsmType
  <1>5. ASSUME NEW x \in allocated
        PROVE  x \in Objects /\ x # o /\ idOf'[x] = idOf[x] /\ idOf[x] \in Ids
    BY <1>1, <1>3 DEF FsmType
  <1>6. idOf'[o] = n /\ container'[n] = o /\ \A i \in Ids : i # n => container'[i] = container[i]
    BY <1>1, <1>2, <1>3 DEF FsmType
  <1>7. OnlyLiving'
    <2>1. SUFFICES ASSUME NEW i \in Ids, container'[i] # NoObject
                   PROVE  container'[i] \in allocated' /\ idOf'[container'[i]] = i
      BY DEF OnlyLiving
    <2>2. CASE i = n
      BY <1>3, <1>6, <2>2
    <2>3. CASE i # n
      <3>1. container'[i] = container[i] /\ container[i] \in allocated /\ idOf[container[i]] = i
        BY <1>6, <2>1, <2>3 DEF FsmInv, OnlyLiving
      <3>. QED
        BY <1>3, <1>5, <3>1
    <2>. QED
      BY <2>2, <2>3
  <1>8. AllFound'
    <2>1. SUFFICES ASSUME ~collided', NEW x \in allocated' PROVE container'[idOf'[x]] = x
      BY DEF AllFound
    <2>2. CASE x = o
      BY <1>6, <2>2
    <2>3. CASE x # o
      <3>1. x \in allocated /\ ~collided /\ idOf[x] # n
        BY <1>3, <2>1, <2>3
      <3>2. container[idOf[x]] = x
        BY <3>1 DEF FsmInv, AllFound
      <3>. QED
        BY <1>5, <1>6, <3>1, <3>2
    <2>. QED
      BY <2>2, <2>3
  <1>. QED
    BY <1>4, <1>7, <1>8 DEF FsmInv

LEMMA DestroyKeeps == ASSUME FsmInv, NEW o \in Objects, DestroyFsm(o) PROVE FsmInv'
  <1>. DEFINE n == idOf[o]
  <1>1. FsmType
    BY DEF FsmInv
  <1>2. /\ o \in allocated /\ container[n] # NoObject
        /\ container' = [container EXCEPT ![n] = NoObject]
        /\ allocated' = allocated \ {o}
        /\ UNCHANGED <<fsmSeq, idOf, collided>>
    BY DEF DestroyFsm
  <1>3. n \in Ids
    BY <1>1 DEF FsmType
  <1>4. FsmType'
    BY <1>1, <1>2 DEF FsmType
  <1>5. container'[n] = NoObject /\ \A i \in Ids : i # n => container'[i] = container[i]
    BY <1>1, <1>2, <1>3 DEF FsmType
  <1>6. OnlyLiving'
    <2>1. SUFFICES ASSUME NEW i \in Ids, container'[i] # NoObject
                   PROVE  container'[i] \in allocated' /\ idOf'[container'[i]] = i
      BY DEF OnlyLiving
    <2>2. i # n /\ container'[i] = container[i]
      BY <1>5, <2>1
    <2>3. container[i] \in allocated /\ idOf[container[i]] = i
      BY <2>1, <2>2 DEF FsmInv, OnlyLiving
    <2>4. container[i] # o
      BY <2>2, <2>3
    <2>. QED
      BY <1>2, <2>2, <2>3, <2>4
  <1>7. AllFound'
    <2>1. SUFFICES ASSUME ~collided', NEW x \in allocated' PROVE container'[idOf'[x]] = x
      BY DEF AllFound
    <2>2. x \in allocated /\ x # o /\ ~collided
      BY <1>2, <2>1
    <2>3. container[idOf[x]] = x /\ container[n] = o
      BY <1>2, <2>2 DEF FsmInv, AllFound
    <2>4. idOf[x] \in Ids /\ idOf[x] # n
      BY <1>1, <2>2, <2>3 DEF FsmType
    <2>. QED
      BY <1>2, <1>5, <2>3, <2>4
  <1>. QED
    BY <1>4, <1>6, <1>7 DEF FsmInv

LEMMA ClearKeeps == ASSUME FsmInv, ClearFsm PROVE FsmInv'
  <1>1. /\ allocated' = allocated \ {container[i] : i \in Ids}
        /\ container' = [i \in Ids |-> NoObject]
        /\ UNCHANGED <<fsmSeq, idOf, collided>>
    BY DEF ClearFsm
  <1>2. FsmType'
    BY <1>1 DEF FsmInv, FsmType
  <1>3. OnlyLiving'
    BY <1>1 DEF OnlyLiving
  <1>4. ~collided => allocated' = {}
    <2>1. SUFFICES ASSUME ~collided, NEW o \in allocated PROVE o \in {container[i] : i \in Ids}
      BY <1>1
    <2>2. container[idOf[o]] = o
      BY <2>1 DEF FsmInv, AllFound
    <2>3. idOf[o] \in Ids
      BY DEF FsmInv, FsmType
    <2>. QED
      BY <2>2, <2>3
  <1>5. AllFound'
    BY <1>1, <1>4 DEF AllFound
  <1>. QED
    BY <1>2, <1>3, <1>5 DEF FsmInv

LEMMA FsmStepKeeps == ASSUME FsmInv, [FsmNext]_fsmVars PROVE FsmInv'
  <1>1. ASSUME NEW o \in Objects, CreateFsm(o) PROVE FsmInv'
    BY <1>1, CreateKeeps
  <1>2. ASSUME NEW o \in Objects, DestroyFsm(o) PROVE FsmInv'
    BY <1>2, DestroyKeeps
  <1>3. CASE ClearFsm
    BY <1>3, ClearKeeps
  <1>4. CASE UNCHANGED fsmVars
    BY <1>4 DEF fsmVars, FsmInv, FsmType, OnlyLiving, AllFound
  <1>. QED
    BY <1>1, <1>2, <1>3, <1>4 DEF FsmNext

\* For any number of identifiers, and however often they come round: get_fsm never returns
\* an object that was freed or has another identifier, and finds every object unless an
\* identifier was given out twice.
THEOREM FsmIsFound == FsmSpec => []FsmFound
  <1>1. FsmInv => FsmFound
    BY FoundHalves DEF FsmInv
  <1>. QED
    BY <1>1, FsmInitEstablishes, FsmStepKeeps, PTL DEF FsmSpec

-----------------------------------------------------------------------------
NotifyType ==
    /\ pipe \in Nat /\ items \in Nat /\ put \in Nat
    /\ sending \subseteq Senders /\ notified \in BOOLEAN

NotifyInv == NotifyType /\ NotificationKept

LEMMA NotifyStepKeeps == ASSUME NotifyInv, [NotifyNext]_notifyVars PROVE NotifyInv'
  <1>1. NotifyType /\ NotificationKept
    BY DEF NotifyInv
  <1>2. ASSUME NEW s \in Senders, PutItem(s) PROVE NotifyInv'
    BY <1>1, <1>2 DEF PutItem, NotifyInv, NotifyType, NotificationKept
  <1>3. ASSUME NEW s \in Senders, SendNotify(s) PROVE NotifyInv'
    <2>1. pipe' \in Nat /\ pipe' > 0
      BY <1>1, <1>3, NotifyAssumption DEF SendNotify, NotifyType
    <2>. QED
      BY <1>1, <1>3, <2>1 DEF SendNotify, NotifyInv, NotifyType, NotificationKept
  <1>4. CASE ReadPipe
    <2>1. pipe' \in Nat
      BY <1>1, <1>4, NotifyAssumption DEF ReadPipe, NotifyType
    <2>. QED
      BY <1>1, <1>4, <2>1 DEF ReadPipe, NotifyInv, NotifyType, NotificationKept
  <1>5. CASE OnNotify
    <2>1. UNCHANGED <<pipe, put, sending>> /\ notified
      BY <1>5 DEF OnNotify
    <2>2. CASE items > 0
      <3>1. items' \in Nat /\ notified' = notified
        BY <1>1, <1>5, <2>2 DEF OnNotify, NotifyType
      <3>. QED
        BY <1>1, <2>1, <3>1 DEF NotifyInv, NotifyType, NotificationKept
    <2>3. CASE ~(items > 0)
      <3>1. items' = items /\ notified' = FALSE
        BY <1>5, <2>3 DEF OnNotify
      <3>. QED
        BY <1>1, <2>1, <2>3, <3>1 DEF NotifyInv, NotifyType, NotificationKept
    <2>. QED
      BY <2>2, <2>3
  <1>6. CASE UNCHANGED notifyVars
    BY <1>1, <1>6 DEF notifyVars, NotifyInv, NotifyType, NotificationKept
  <1>. QED
    BY <1>2, <1>3, <1>4, <1>5, <1>6 DEF NotifyNext

\* For any number of senders and any sizes of the pipe and of a read, full pipes included,
\* no item is left in the queue without a wake-up to come.
THEOREM NotificationsAreKept == NotifySpec => []NotificationKept
  <1>1. NotifyInit => NotifyInv
    <2>. SUFFICES ASSUME NotifyInit PROVE NotifyInv
      OBVIOUS
    <2>1. pipe \in Nat /\ items \in Nat /\ put \in Nat
      BY DEF NotifyInit
    <2>2. ~(items > 0)
      BY DEF NotifyInit
    <2>3. sending \subseteq Senders /\ notified \in BOOLEAN
      BY DEF NotifyInit
    <2>. QED
      BY <2>1, <2>2, <2>3 DEF NotifyInv, NotifyType, NotificationKept
  <1>2. NotifyInv => NotificationKept
    BY DEF NotifyInv
  <1>. QED
    BY <1>1, <1>2, NotifyStepKeeps, PTL DEF NotifySpec
-----------------------------------------------------------------------------
\* The ring of two threads.
Unread == pushed - consumed

RingType ==
    /\ ring \in [0 .. RingSize - 1 -> Nat]
    /\ rPos \in 0 .. RingSize /\ wPos \in 0 .. RingSize /\ wSeen \in 0 .. RingSize
    /\ pushing \in Nat /\ copied \in BOOLEAN
    /\ consuming \in {"idle", "head", "tail", "store"}
    /\ pushed \in Nat /\ consumed \in Nat
    /\ fitted \in BOOLEAN

\* A position is 0 only before the first block was pushed: from then on the same place is
\* RingSize.  A block never goes round the ring more than once.
Starts ==
    /\ wPos = 0 => rPos = 0 /\ wSeen = 0
    /\ consuming # "idle" /\ wSeen = 0 => rPos = 0
    /\ copied => pushing > 0
    /\ wPos + pushing <= 2 * RingSize

\* The positions tell the number of unread bytes, also with a block that is copied and has
\* yet to be published; and the consumer gives up no more than there are.
Space ==
    fitted =>
        /\ Unread \in 0 .. RingSize - 1 /\ Held(wPos) = Unread
        /\ copied => Unread + pushing < RingSize
        /\ consuming # "idle" => Held(wSeen) <= Unread

Content ==
    fitted =>
        /\ \A i \in 1 .. Unread : ring[Place(rPos, i)] = consumed + i
        /\ copied => \A i \in 1 .. pushing : ring[Place(wPos, i)] = pushed + i

RingInv == RingType /\ Starts /\ Space /\ Content

LEMMA PlaceIs ==
    ASSUME NEW p \in 0 .. RingSize, NEW i \in 1 .. RingSize
    PROVE  /\ Place(p, i) = IF p + i - 1 < RingSize THEN p + i - 1 ELSE p + i - 1 - RingSize
           /\ Place(p, i) \in 0 .. RingSize - 1
  <1>. USE RingAssumption
  <1>1. CASE p + i - 1 < RingSize
    BY <1>1, SMT DEF Place
  <1>2. CASE p + i - 1 >= RingSize
    <2>. DEFINE y == p + i - 1 - RingSize
    <2>1. y \in 0 .. RingSize - 1 /\ p + i - 1 = y + RingSize
      BY <1>2
    <2>2. (y + RingSize) % RingSize = y
      BY <2>1
    <2>. QED
      BY <1>2, <2>1, <2>2 DEF Place
  <1>. QED
    BY <1>1, <1>2

\* RingSize places from one position on are different.
LEMMA PlacesDiffer ==
    ASSUME NEW p \in 0 .. RingSize, NEW i \in 1 .. RingSize, NEW j \in 1 .. RingSize,
           Place(p, i) = Place(p, j)
    PROVE  i = j
  <1>. DEFINE a == Place(p, i)
              b == Place(p, j)
  <1>1. a = IF p + i - 1 < RingSize THEN p + i - 1 ELSE p + i - 1 - RingSize
    BY PlaceIs
  <1>2. b = IF p + j - 1 < RingSize THEN p + j - 1 ELSE p + j - 1 - RingSize
    BY PlaceIs
  <1>3. a = b /\ RingSize \in Nat
    BY RingAssumption
  <1>. HIDE DEF a, b
  <1>. QED
    BY <1>1, <1>2, <1>3

\* The places after the unread bytes are those that the next block takes.
LEMMA PlaceAfter ==
    ASSUME NEW r \in 0 .. RingSize, NEW w \in 0 .. RingSize, NEW i \in 1 .. RingSize,
           NEW h \in 0 .. RingSize - 1, h + i <= RingSize,
           w = r + h \/ w + RingSize = r + h
    PROVE  Place(w, i) = Place(r, h + i)
  <1>1. h + i \in 1 .. RingSize
    BY RingAssumption
  <1>2. Place(w, i) = IF w + i - 1 < RingSize THEN w + i - 1 ELSE w + i - 1 - RingSize
    BY PlaceIs
  <1>3. Place(r, h + i) =
            IF r + (h + i) - 1 < RingSize THEN r + (h + i) - 1 ELSE r + (h + i) - 1 - RingSize
    BY <1>1, PlaceIs
  <1>. QED
    BY <1>2, <1>3, RingAssumption

LEMMA HeldLeadsOn ==
    ASSUME RingType, NEW w \in 0 .. RingSize
    PROVE  /\ w = rPos + Held(w) \/ w + RingSize = rPos + Held(w)
           /\ Held(w) \in 0 .. RingSize
BY RingAssumption DEF RingType, Held

LEMMA RingInitEstablishes == RingInit => RingInv
  <1>. SUFFICES ASSUME RingInit PROVE RingInv
    OBVIOUS
  <1>. USE RingAssumption DEF RingInit
  <1>1. RingType
    <2>1. ring \in [0 .. RingSize - 1 -> Nat]
      OBVIOUS
    <2>2. 0 \in 0 .. RingSize
      OBVIOUS
    <2>. QED
      BY <2>1, <2>2 DEF RingType
  <1>2. Unread = 0 /\ Held(wPos) = 0
    BY DEF Unread, Held
  <1>3. Starts /\ Space
    BY <1>2 DEF Starts, Space
  <1>4. Content
    BY <1>2 DEF Content
  <1>. QED
    BY <1>1, <1>3, <1>4 DEF RingInv

LEMMA PushBeginKeeps ==
    ASSUME RingInv, NEW size \in PushSizes, PushBegin(size)
    PROVE  RingInv'
  <1>1. /\ pushing = 0 /\ pushing' = size /\ size \in Nat \ {0}
        /\ UNCHANGED <<ring, rPos, wPos, copied, consuming, wSeen, pushed, consumed, fitted>>
    BY RingAssumption DEF PushBegin
  <1>2. copied = FALSE
    BY <1>1 DEF RingInv, RingType, Starts
  <1>3. RingType'
    BY <1>1 DEF RingInv, RingType
  <1>4. wPos + size <= 2 * RingSize
    BY <1>1, RingAssumption DEF PushBegin, Wraps, Over, RingInv, RingType
  <1>5. Starts'
    BY <1>1, <1>2, <1>4 DEF RingInv, Starts
  <1>6. Space'
    BY <1>1, <1>2 DEF RingInv, Space, Unread, Held
  <1>7. Content'
    BY <1>1, <1>2 DEF RingInv, Content, Unread, Place
  <1>. QED
    BY <1>3, <1>5, <1>6, <1>7 DEF RingInv

LEMMA PushCopyKeeps == ASSUME RingInv, PushCopy PROVE RingInv'
  <1>. DEFINE Byte(p) == CHOOSE i \in 1 .. pushing : p = Place(wPos, i)
  <1>1. /\ RingType /\ Starts /\ Space /\ Content
        /\ pushing \in Nat /\ pushing # 0 /\ ~copied /\ copied' = TRUE
        /\ fitted' = (fitted /\ pushed + pushing - consumed < RingSize)
        /\ UNCHANGED <<rPos, wPos, pushing, consuming, wSeen, pushed, consumed>>
    BY DEF PushCopy, RingInv, RingType
  <1>2. ring' = [p \in 0 .. RingSize - 1 |->
                   IF \E i \in 1 .. pushing : p = Place(wPos, i) THEN pushed + Byte(p) ELSE ring[p]]
    BY <1>1 DEF PushCopy, RingType
  <1>3. ASSUME NEW p \in 0 .. RingSize - 1 PROVE ring'[p] \in Nat
    <2>1. CASE \E i \in 1 .. pushing : p = Place(wPos, i)
      <3>1. Byte(p) \in 1 .. pushing
        BY <2>1
      <3>. HIDE DEF Byte
      <3>. QED
        BY <1>1, <1>2, <2>1, <3>1 DEF RingType
    <2>2. CASE ~ \E i \in 1 .. pushing : p = Place(wPos, i)
      BY <1>1, <1>2, <2>2 DEF RingType
    <2>. QED
      BY <2>1, <2>2
  <1>4. RingType'
    <2>1. ring' \in [0 .. RingSize - 1 -> Nat]
      BY <1>2, <1>3
    <2>2. fitted' \in BOOLEAN
      BY <1>1
    <2>. QED
      BY <1>1, <2>1, <2>2 DEF RingType
  <1>5. Starts'
    BY <1>1 DEF Starts
  <1>6. Space'
    BY <1>1 DEF Space, Unread, Held, RingType
  <1>. HIDE DEF Byte
  <1>7. ASSUME fitted'
        PROVE  /\ fitted /\ Unread \in 0 .. RingSize - 1 /\ Held(wPos) = Unread
               /\ Unread + pushing < RingSize
               /\ wPos = rPos + Unread \/ wPos + RingSize = rPos + Unread
               /\ wPos \in 0 .. RingSize /\ rPos \in 0 .. RingSize
    <2>1. fitted /\ pushed + pushing - consumed < RingSize
      BY <1>1, <1>7
    <2>2. Unread \in 0 .. RingSize - 1 /\ Held(wPos) = Unread
      BY <1>1, <2>1 DEF Space
    <2>3. Unread + pushing < RingSize
      BY <1>1, <2>1 DEF Unread, RingType
    <2>4. wPos = rPos + Unread \/ wPos + RingSize = rPos + Unread
      BY <1>1, <2>2, HeldLeadsOn DEF RingType
    <2>. QED
      BY <1>1, <2>1, <2>2, <2>3, <2>4 DEF RingType
  <1>8. ASSUME fitted', NEW i \in 1 .. pushing
        PROVE  ring'[Place(wPos, i)] = pushed + i
    <2>1. i \in 1 .. RingSize
      BY <1>1, <1>7, <1>8, RingAssumption
    <2>2. Place(wPos, i) \in 0 .. RingSize - 1
      BY <1>7, <1>8, <2>1, PlaceIs
    <2>3. /\ Byte(Place(wPos, i)) \in 1 .. pushing
          /\ Place(wPos, i) = Place(wPos, Byte(Place(wPos, i)))
      BY DEF Byte
    <2>4. Byte(Place(wPos, i)) \in 1 .. RingSize
      BY <1>1, <1>7, <1>8, <2>3, RingAssumption
    <2>5. Byte(Place(wPos, i)) = i
      BY <1>7, <1>8, <2>1, <2>3, <2>4, PlacesDiffer
    <2>. QED
      BY <1>2, <2>2, <2>5
  <1>9. ASSUME fitted', NEW j \in 1 .. Unread
        PROVE  ring'[Place(rPos, j)] = consumed + j
    <2>1. j \in 1 .. RingSize
      BY <1>7, <1>9, RingAssumption
    <2>2. Place(rPos, j) \in 0 .. RingSize - 1
      BY <1>7, <1>9, <2>1, PlaceIs
    <2>3. ASSUME NEW i \in 1 .. pushing PROVE Place(rPos, j) # Place(wPos, i)
      <3>1. i \in 1 .. RingSize /\ Unread + i \in 1 .. RingSize /\ Unread + i <= RingSize
        BY <1>1, <1>7, <1>9, RingAssumption
      <3>2. Place(wPos, i) = Place(rPos, Unread + i)
        BY <1>7, <1>9, <3>1, PlaceAfter
      <3>3. j # Unread + i
        BY <1>7, <1>9
      <3>. QED
        BY <1>7, <1>9, <2>1, <3>1, <3>2, <3>3, PlacesDiffer
    <2>4. ring'[Place(rPos, j)] = ring[Place(rPos, j)]
      BY <1>2, <2>2, <2>3
    <2>. QED
      BY <1>1, <1>7, <1>9, <2>4 DEF Content
  <1>10. Content'
    <2>1. Unread' = Unread
      BY <1>1 DEF Unread
    <2>. QED
      BY <1>1, <1>8, <1>9, <2>1 DEF Content, Place
  <1>. QED
    BY <1>4, <1>5, <1>6, <1>10 DEF RingInv

LEMMA PushStoreKeeps == ASSUME RingInv, PushStore PROVE RingInv'
  <1>. USE RingAssumption
  <1>1. /\ RingType /\ Starts /\ Space /\ Content
        /\ copied /\ pushing \in Nat \ {0}
        /\ pushed' = pushed + pushing /\ pushing' = 0 /\ copied' = FALSE
        /\ UNCHANGED <<ring, rPos, consuming, wSeen, consumed, fitted>>
        /\ wPos' = IF wPos + pushing > RingSize THEN wPos + pushing - RingSize ELSE wPos + pushing
    BY DEF PushStore, RingInv, RingType, Starts, Wraps, Over
  <1>2. wPos' \in 1 .. RingSize
    BY <1>1 DEF RingType, Starts
  <1>3. RingType'
    <2>1. wPos' \in 0 .. RingSize /\ pushed' \in Nat /\ pushing' \in Nat
      BY <1>1, <1>2 DEF RingType
    <2>. QED
      BY <1>1, <2>1 DEF RingType
  <1>4. Starts'
    BY <1>1, <1>2 DEF Starts
  <1>5. ASSUME fitted'
        PROVE  /\ Unread \in 0 .. RingSize - 1 /\ Held(wPos) = Unread
               /\ Unread + pushing < RingSize /\ Unread' = Unread + pushing
               /\ wPos = rPos + Unread \/ wPos + RingSize = rPos + Unread
    <2>1. Unread \in 0 .. RingSize - 1 /\ Held(wPos) = Unread /\ Unread + pushing < RingSize
      BY <1>1, <1>5 DEF Space
    <2>2. wPos = rPos + Unread \/ wPos + RingSize = rPos + Unread
      BY <1>1, <2>1, HeldLeadsOn DEF RingType
    <2>3. Unread' = Unread + pushing
      BY <1>1 DEF Unread, RingType
    <2>. QED
      BY <2>1, <2>2, <2>3
  <1>6. ASSUME fitted' PROVE Held(wPos)' = Unread'
    <2>1. Held(wPos)' = IF rPos <= wPos' THEN wPos' - rPos ELSE RingSize - rPos + wPos'
      BY <1>1 DEF Held
    <2>. QED
      BY <1>1, <1>2, <1>5, <1>6, <2>1 DEF Held, RingType
  <1>7. Space'
    <2>1. ASSUME fitted' PROVE Held(wSeen)' = Held(wSeen)
      BY <1>1 DEF Held
    <2>2. ASSUME fitted', consuming' # "idle" PROVE Held(wSeen)' <= Unread'
      <3>1. Held(wSeen) <= Unread
        BY <1>1, <2>2 DEF Space
      <3>2. Held(wSeen) \in 0 .. RingSize
        BY <1>1, HeldLeadsOn DEF RingType
      <3>. QED
        BY <1>1, <1>5, <2>1, <2>2, <3>1, <3>2
    <2>3. ASSUME fitted' PROVE Unread' \in 0 .. RingSize - 1
      BY <1>1, <1>5, <2>3
    <2>. QED
      BY <1>1, <1>6, <2>2, <2>3 DEF Space
  <1>8. ASSUME fitted', NEW i \in 1 .. Unread' PROVE ring'[Place(rPos, i)] = consumed + i
    <2>1. CASE i <= Unread
      <3>1. i \in 1 .. Unread
        BY <1>5, <1>8, <2>1
      <3>. QED
        BY <1>1, <1>8, <3>1 DEF Content
    <2>2. CASE i > Unread
      <3>. DEFINE k == i - Unread
      <3>1. k \in 1 .. pushing /\ k \in 1 .. RingSize /\ Unread + k = i
        BY <1>1, <1>5, <1>8, <2>2
      <3>. HIDE DEF k
      <3>2. Place(wPos, k) = Place(rPos, i)
        <4>1. wPos \in 0 .. RingSize /\ rPos \in 0 .. RingSize /\ Unread \in 0 .. RingSize - 1
          BY <1>1, <1>5, <1>8 DEF RingType
        <4>2. Unread + k <= RingSize
          BY <1>1, <1>5, <1>8, <3>1
        <4>3. Place(wPos, k) = Place(rPos, Unread + k)
          BY <1>5, <1>8, <3>1, <4>1, <4>2, PlaceAfter
        <4>. QED
          BY <3>1, <4>3
      <3>3. ring[Place(wPos, k)] = pushed + k
        BY <1>1, <1>8, <3>1 DEF Content
      <3>4. pushed + k = consumed + i
        BY <1>1, <1>5, <1>8, <3>1 DEF Unread, RingType
      <3>. QED
        BY <1>1, <3>2, <3>3, <3>4
    <2>. QED
      BY <1>5, <1>8, <2>1, <2>2
  <1>9. Content'
    BY <1>1, <1>8 DEF Content, Place
  <1>. QED
    BY <1>3, <1>4, <1>7, <1>9 DEF RingInv

LEMMA ConsumeKeeps ==
    ASSUME RingInv, ConsumeBegin \/ ConsumeHead \/ ConsumeTail \/ ConsumeThrows
    PROVE  RingInv'
  <1>1. /\ RingType /\ Starts /\ Space /\ Content
        /\ UNCHANGED <<ring, rPos, wPos, pushing, copied, pushed, consumed, fitted>>
        /\ consuming' \in {"idle", "head", "tail", "store"}
        /\ wSeen' = wPos \/ (wSeen' = wSeen /\ consuming # "idle")
    <2>1. CASE ConsumeBegin
      BY <2>1 DEF ConsumeBegin, RingInv
    <2>2. CASE ConsumeHead
      <3>1. consuming' = "store" \/ consuming' = "tail"
        BY <2>2 DEF ConsumeHead
      <3>. QED
        BY <2>2, <3>1 DEF ConsumeHead, RingInv
    <2>3. CASE ConsumeTail
      BY <2>3 DEF ConsumeTail, RingInv
    <2>4. CASE ConsumeThrows
      BY <2>4 DEF ConsumeThrows, RingInv
    <2>. QED
      BY <2>1, <2>2, <2>3, <2>4
  <1>2. RingType'
    BY <1>1 DEF RingType
  <1>3. Starts'
    BY <1>1 DEF Starts
  <1>4. Space'
    <2>1. Unread' = Unread /\ Held(wPos)' = Held(wPos)
      BY <1>1 DEF Unread, Held
    <2>2. Held(wSeen)' = Held(wPos) \/ (Held(wSeen)' = Held(wSeen) /\ consuming # "idle")
      BY <1>1 DEF Held
    <2>3. ASSUME fitted PROVE Held(wSeen)' <= Unread
      <3>1. Unread \in Nat
        BY <1>1, <2>3 DEF Space
      <3>. QED
        BY <1>1, <2>2, <2>3, <3>1 DEF Space
    <2>. QED
      BY <1>1, <2>1, <2>3 DEF Space
  <1>5. Content'
    BY <1>1 DEF Content, Unread, Place
  <1>. QED
    BY <1>2, <1>3, <1>4, <1>5 DEF RingInv

LEMMA ConsumeStoreKeeps == ASSUME RingInv, ConsumeStore PROVE RingInv'
  <1>. USE RingAssumption
  <1>1. /\ RingType /\ Starts /\ Space /\ Content
        /\ consuming = "store" /\ consuming' = "idle"
        /\ rPos' = wSeen /\ consumed' = consumed + Held(wSeen)
        /\ UNCHANGED <<ring, wPos, pushing, copied, wSeen, pushed, fitted>>
    BY DEF ConsumeStore, RingInv
  <1>2. Held(wSeen) \in 0 .. RingSize
    BY <1>1, HeldLeadsOn DEF RingType
  <1>3. RingType'
    BY <1>1, <1>2 DEF RingType
  <1>4. Starts'
    BY <1>1 DEF Starts
  <1>5. ASSUME fitted
        PROVE  /\ Unread \in 0 .. RingSize - 1 /\ Held(wPos) = Unread
               /\ Held(wSeen) <= Unread /\ Unread' = Unread - Held(wSeen)
               /\ wSeen = 0 => rPos = 0
    <2>1. Unread \in 0 .. RingSize - 1 /\ Held(wPos) = Unread /\ Held(wSeen) <= Unread
      BY <1>1, <1>5 DEF Space
    <2>2. Unread' = Unread - Held(wSeen)
      BY <1>1, <1>2 DEF Unread, RingType
    <2>. QED
      BY <1>1, <2>1, <2>2 DEF Starts
  <1>6. ASSUME fitted PROVE Held(wPos)' = Unread'
    <2>1. Held(wPos)' = IF wSeen <= wPos THEN wPos - wSeen ELSE RingSize - wSeen + wPos
      BY <1>1 DEF Held
    <2>. QED
      BY <1>1, <1>5, <1>6, <2>1 DEF Held, RingType
  <1>7. Space'
    BY <1>1, <1>2, <1>5, <1>6 DEF Space, RingType
  <1>8. ASSUME fitted, NEW i \in 1 .. Unread' PROVE ring'[Place(wSeen, i)] = consumed' + i
    <2>. DEFINE h == Held(wSeen)
    <2>1. h \in 0 .. RingSize - 1 /\ i \in 1 .. RingSize /\ h + i <= RingSize
          /\ h + i \in 1 .. Unread
      BY <1>2, <1>5, <1>8
    <2>2. wSeen = rPos + h \/ wSeen + RingSize = rPos + h
      BY <1>1, HeldLeadsOn DEF RingType
    <2>3. wSeen \in 0 .. RingSize /\ rPos \in 0 .. RingSize
      BY <1>1 DEF RingType
    <2>. HIDE DEF h
    <2>4. Place(wSeen, i) = Place(rPos, h + i)
      BY <2>1, <2>2, <2>3, PlaceAfter
    <2>5. ring[Place(rPos, h + i)] = consumed + (h + i)
      BY <1>1, <1>8, <2>1 DEF Content
    <2>6. consumed + (h + i) = consumed' + i
      BY <1>1, <2>1 DEF h, RingType
    <2>. QED
      BY <1>1, <2>4, <2>5, <2>6
  <1>9. ASSUME fitted, copied, NEW i \in 1 .. pushing PROVE ring'[Place(wPos, i)] = pushed' + i
    BY <1>1, <1>9 DEF Content
  <1>10. Content'
    BY <1>1, <1>8, <1>9 DEF Content, Place
  <1>. QED
    BY <1>3, <1>4, <1>7, <1>10 DEF RingInv

LEMMA RingStepKeeps == ASSUME RingInv, [RingNext]_ringVars PROVE RingInv'
  <1>1. ASSUME NEW size \in PushSizes, PushBegin(size) PROVE RingInv'
    BY <1>1, PushBeginKeeps
  <1>2. CASE PushCopy
    BY <1>2, PushCopyKeeps
  <1>3. CASE PushStore
    BY <1>3, PushStoreKeeps
  <1>4. CASE ConsumeBegin \/ ConsumeHead \/ ConsumeTail \/ ConsumeThrows
    BY <1>4, ConsumeKeeps
  <1>5. CASE ConsumeStore
    BY <1>5, ConsumeStoreKeeps
  <1>6. CASE UNCHANGED ringVars
    BY <1>6 DEF ringVars, RingInv, RingType, Starts, Space, Content, Unread, Held, Place
  <1>. QED
    BY <1>1, <1>2, <1>3, <1>4, <1>5, <1>6 DEF RingNext

\* For any ring, any blocks and any interleaving of the two threads: as long as the producer
\* never lets a ring's worth of bytes pile up, the ring holds the unread bytes in order.
THEOREM RingIsIntact == RingSpec => []IntactWhileItFits
  <1>1. RingInv => IntactWhileItFits
    BY DEF RingInv, Space, Content, IntactWhileItFits, UnreadIntact, Unread
  <1>. QED
    BY <1>1, RingInitEstablishes, RingStepKeeps, PTL DEF RingSpec
-----------------------------------------------------------------------------
\* The calendar.  Division by a length, and the products it leads to.
LEMMA DivMod ==
    ASSUME NEW D \in Nat \ {0}, NEW x \in Int
    PROVE  x \div D \in Int /\ x % D \in 0 .. D - 1 /\ x = (x \div D) * D + (x % D)
OBVIOUS

LEMMA ProductOrder ==
    ASSUME NEW D \in Nat \ {0}, NEW a \in Int, NEW b \in Int, a <= b
    PROVE  a * D \in Int /\ b * D \in Int /\ a * D <= b * D
OBVIOUS

LEMMA ProductNext ==
    ASSUME NEW D \in Nat \ {0}, NEW a \in Int
    PROVE  (a + 1) * D = a * D + D /\ (a - 1) * D = a * D - D
OBVIOUS

\* Which of two times is in the earlier period is seen from their quotients.
LEMMA QuotientOrder ==
    ASSUME NEW D \in Nat \ {0}, NEW p \in Int, NEW q \in Int, p < q
    PROVE  p * D \in Int /\ q * D \in Int /\ p * D + D <= q * D
  <1>1. (p + 1) * D \in Int /\ q * D \in Int /\ (p + 1) * D <= q * D
    BY ProductOrder
  <1>2. (p + 1) * D = p * D + D /\ p * D \in Int
    BY ProductNext
  <1>. QED
    BY <1>1, <1>2

LEMMA QuotientIs ==
    ASSUME NEW D \in Nat \ {0}, NEW q \in Int, NEW r \in 0 .. D - 1, NEW x \in Int, x = q * D + r
    PROVE  x \div D = q /\ x % D = r
  <1>. DEFINE p == x \div D   s == x % D
  <1>1. p \in Int /\ s \in 0 .. D - 1 /\ x = p * D + s
    BY DivMod
  <1>. HIDE DEF p, s
  <1>2. q * D \in Int /\ p * D \in Int /\ D \in Int
    BY <1>1
  <1>3. ~(p < q)
    <2>1. ASSUME p < q PROVE FALSE
      <3>1. p * D + D <= q * D
        BY <1>1, <2>1, QuotientOrder
      <3>. QED
        BY <1>1, <1>2, <3>1
    <2>. QED
      BY <2>1
  <1>4. ~(q < p)
    <2>1. ASSUME q < p PROVE FALSE
      <3>1. q * D + D <= p * D
        BY <1>1, <2>1, QuotientOrder
      <3>. QED
        BY <1>1, <1>2, <3>1
    <2>. QED
      BY <2>1
  <1>5. p = q
    BY <1>1, <1>3, <1>4
  <1>6. s = r
    BY <1>1, <1>2, <1>5
  <1>. QED
    BY <1>5, <1>6 DEF p, s

\* The same with the product under a name, into which the provers do not look.
Quotient(x, D, q, r) == x = q * D + r

LEMMA QuotientFound ==
    ASSUME NEW D \in Nat \ {0}, NEW q \in Int, NEW r \in 0 .. D - 1, NEW x \in Int,
           Quotient(x, D, q, r)
    PROVE  x \div D = q /\ x % D = r
BY QuotientIs DEF Quotient

\* A time is so many days and so many seconds after the first midnight.
LEMMA TimeIs ==
    ASSUME NEW t \in Nat
    PROVE  /\ LocalDay(t) \in Int /\ TimeOfDay(t) \in 0 .. DaySeconds - 1
           /\ LocalDay(t) * DaySeconds \in Int
           /\ t + Zone = LocalDay(t) * DaySeconds + TimeOfDay(t)
  <1>1. DaySeconds \in Nat \ {0} /\ t + Zone \in Int
    BY CalendarAssumption
  <1>2. /\ LocalDay(t) \in Int /\ TimeOfDay(t) \in 0 .. DaySeconds - 1
        /\ t + Zone = LocalDay(t) * DaySeconds + TimeOfDay(t)
    BY <1>1, DivMod DEF LocalDay, TimeOfDay
  <1>. QED
    BY <1>1, <1>2

\* The same of weeks.
LEMMA WeekIs ==
    ASSUME NEW t \in Nat \ {0}
    PROVE  /\ WeekOf(t) \in Int /\ WeekOf(t) * WeekSeconds \in Int
           /\ ElapsedOfWeek(t) \in 0 .. WeekSeconds - 1
           /\ t + Zone + 4 * DaySeconds = WeekOf(t) * WeekSeconds + ElapsedOfWeek(t)
           /\ ElapsedOfWeek(t) = 0 <=> WeekBegins(t)
  <1>. DEFINE L == LocalDay(t)   r == TimeOfDay(t)   w == WeekOf(t)   d == Weekday(t)
              D == DaySeconds
  <1>1. /\ L \in Int /\ r \in 0 .. D - 1 /\ L * D \in Int
        /\ t + Zone = L * D + r
    BY TimeIs
  <1>2. D \in Nat \ {0} /\ WeekSeconds = 7 * D
    BY CalendarAssumption DEF WeekSeconds
  <1>3. w \in Int /\ d \in 0 .. 6 /\ L + 4 = w * 7 + d
    BY <1>1 DEF WeekOf, Weekday
  <1>4. ElapsedOfWeek(t) = d * D + r
    BY DEF ElapsedOfWeek, ElapsedOfDay
  <1>5. WeekBegins(t) <=> d = 0 /\ r = 0
    BY DEF WeekBegins
  <1>. HIDE DEF L, r, w, d, D
  <1>6. L * D + 4 * D = w * (7 * D) + d * D
    <2>1. (L + 4) * D = (w * 7 + d) * D
      BY <1>3
    <2>2. (L + 4) * D = L * D + 4 * D
      BY <1>1, <1>2
    <2>3. (w * 7 + d) * D = w * (7 * D) + d * D
      BY <1>2, <1>3
    <2>. QED
      BY <2>1, <2>2, <2>3
  <1>7. /\ d * D \in Int /\ d * D >= 0 /\ d * D <= 6 * D
        /\ (d # 0 => d * D >= D) /\ (d = 0 => d * D = 0)
    BY <1>2, <1>3
  <1>8. w * (7 * D) \in Int
    BY <1>2, <1>3
  <1>9. ElapsedOfWeek(t) \in 0 .. WeekSeconds - 1
    BY <1>1, <1>2, <1>4, <1>7
  <1>10. t + Zone + 4 * D = w * WeekSeconds + ElapsedOfWeek(t)
    BY <1>1, <1>2, <1>4, <1>6, <1>7, <1>8
  <1>11. ElapsedOfWeek(t) = 0 <=> d = 0 /\ r = 0
    BY <1>1, <1>2, <1>4, <1>7
  <1>. QED
    BY <1>2, <1>3, <1>5, <1>8, <1>9, <1>10, <1>11 DEF D, w

LEMMA WeeksAreRight == ASSUME clock \in Nat, LastSecond \in Nat PROVE WeeksRight
  <1>. SUFFICES ASSUME NEW t \in 1 .. LastSecond
                PROVE  ~(t < clock /\ WeekBegins(clock)) =>
                          (SameWeek(t, clock) <=> clock # 0 /\ WeekOf(t) = WeekOf(clock))
    BY Zenon DEF WeeksRight
  <1>1. CASE clock = 0
    BY <1>1 DEF SameWeek
  <1>2. CASE clock # 0
    <2>. DEFINE W == WeekSeconds   a == WeekOf(t)   b == WeekOf(clock)
                i == ElapsedOfWeek(t)   j == ElapsedOfWeek(clock)
    <2>1. DaySeconds \in Nat \ {0} /\ Zone \in Nat /\ W \in Nat \ {0} /\ t \in Nat \ {0}
          /\ clock \in Nat \ {0}
      BY <1>2, CalendarAssumption DEF WeekSeconds
    <2>2. /\ a \in Int /\ a * W \in Int /\ i \in 0 .. W - 1
          /\ t + Zone + 4 * DaySeconds = a * W + i
      BY <2>1, WeekIs
    <2>3. /\ b \in Int /\ b * W \in Int /\ j \in 0 .. W - 1
          /\ clock + Zone + 4 * DaySeconds = b * W + j
          /\ j = 0 <=> WeekBegins(clock)
      BY <2>1, WeekIs
    <2>4. SameDay(t, clock) => a = b
      BY DEF SameDay, WeekOf, LocalDay
    <2>5. SameWeek(t, clock) <=>
              /\ t - clock \in -W .. W
              /\ \/ SameDay(t, clock)
                 \/ clock < t /\ t - clock <= i
                 \/ clock >= t /\ clock - t <= W - i
      BY <2>1 DEF SameWeek
    <2>. HIDE DEF W, a, b, i, j
    <2>6. t - clock = a * W + i - b * W - j
      BY <2>1, <2>2, <2>3
    <2>7. CASE a = b
      <3>1. t - clock = i - j
        BY <2>2, <2>3, <2>6, <2>7
      <3>2. SameWeek(t, clock)
        BY <2>1, <2>2, <2>3, <2>5, <3>1
      <3>. QED
        BY <1>2, <2>7, <3>2 DEF a, b
    <2>8. CASE b < a
      <3>1. b * W + W <= a * W
        BY <2>1, <2>2, <2>3, <2>8, QuotientOrder
      <3>2. clock < t /\ ~(t - clock <= i)
        BY <2>1, <2>2, <2>3, <2>6, <3>1
      <3>3. ~SameWeek(t, clock)
        <4>1. ~SameDay(t, clock) /\ ~(clock >= t)
          BY <2>1, <2>2, <2>3, <2>4, <2>8, <3>2
        <4>. QED
          BY <2>5, <3>2, <4>1
      <3>4. a # b
        BY <2>2, <2>3, <2>8
      <3>. QED
        BY <3>3, <3>4 DEF a, b
    <2>9. CASE b = a + 1
      <3>1. b * W = a * W + W
        BY <2>1, <2>2, <2>9, ProductNext
      <3>2. clock - t = W - i + j
        BY <2>1, <2>2, <2>3, <2>6, <3>1
      <3>3. clock > t /\ (clock - t <= W - i <=> j = 0) /\ ~(clock < t)
        BY <2>1, <2>2, <2>3, <3>2
      <3>4. a # b
        BY <2>2, <2>9
      <3>5. j # 0 => ~SameWeek(t, clock)
        BY <2>4, <2>5, <3>3, <3>4
      <3>6. t < clock
        BY <2>1, <3>3
      <3>. QED
        BY <2>3, <3>4, <3>5, <3>6 DEF a, b
    <2>10. CASE a + 1 < b
      <3>1. (a + 1) * W + W <= b * W /\ (a + 1) * W = a * W + W
        BY <2>1, <2>2, <2>3, <2>10, QuotientOrder, ProductNext
      <3>2. clock - t > W
        BY <2>1, <2>2, <2>3, <2>6, <3>1
      <3>3. ~SameWeek(t, clock)
        <4>1. ~(t - clock \in -W .. W)
          BY <2>1, <3>2
        <4>. QED
          BY <2>5, <4>1
      <3>4. a # b
        BY <2>2, <2>3, <2>10
      <3>. QED
        BY <3>3, <3>4 DEF a, b
    <2>. QED
      BY <2>2, <2>3, <2>7, <2>8, <2>9, <2>10
  <1>. QED
    BY <1>1, <1>2

LEMMA DaysAreRight == ASSUME clock \in Nat PROVE DaysRight
  <1>. SUFFICES ASSUME NEW last \in 1 .. clock - 1
                PROVE  TimeOfDay(clock) # 0 =>
                          DaysBetween(last, clock) = LocalDay(clock) - LocalDay(last) + 1
    BY Zenon DEF DaysRight
  <1>. DEFINE D == DaySeconds   p == LocalDay(last)   q == LocalDay(clock)
              r == TimeOfDay(last)   s == TimeOfDay(clock)
              left == DaySeconds - TimeOfDay(last)
  <1>1. D \in Nat \ {0} /\ Zone \in Nat /\ last \in Nat /\ last > 0 /\ last < clock
    BY CalendarAssumption
  <1>2. p \in Int /\ r \in 0 .. D - 1 /\ p * D \in Int /\ last + Zone = p * D + r
    BY <1>1, TimeIs
  <1>3. q \in Int /\ s \in 0 .. D - 1 /\ q * D \in Int /\ clock + Zone = q * D + s
    BY <1>1, TimeIs
  <1>4. DaysBetween(last, clock) =
           IF clock - last < left THEN 1 ELSE RoundedUp(clock - last - left) + 1
    <2>1. ElapsedOfDay(last) = TimeOfDay(last)
      BY <1>1 DEF ElapsedOfDay
    <2>2. /\ ~(last < 0) /\ ~(last >= 0 /\ last > clock) /\ ~(last >= 0 /\ last = clock)
          /\ ~(last = 0 /\ last < clock)
      BY <1>1
    <2>. QED
      BY <2>1, <2>2 DEF DaysBetween
  <1>5. left = D - r
    OBVIOUS
  <1>. HIDE DEF D, p, q, r, s, left
  <1>6. clock - last - left = q * D + s - p * D - D
    BY <1>1, <1>2, <1>3, <1>5
  <1>7. ~(q < p)
    <2>1. ASSUME q < p PROVE FALSE
      <3>1. q * D + D <= p * D
        BY <1>1, <1>2, <1>3, <2>1, QuotientOrder
      <3>. QED
        BY <1>1, <1>2, <1>3, <3>1
    <2>. QED
      BY <2>1
  <1>8. CASE p = q
    <2>1. clock - last < left
      BY <1>1, <1>2, <1>3, <1>5, <1>8
    <2>2. q - p = 0
      BY <1>2, <1>8
    <2>. QED
      BY <1>4, <2>1, <2>2 DEF p, q
  <1>9. CASE p < q
    <2>. DEFINE n == q - p - 1   x == clock - last - left
    <2>1. n \in Int /\ n >= 0 /\ n * D \in Int /\ n * D >= 0
      <3>1. n \in Nat
        BY <1>2, <1>3, <1>9
      <3>. HIDE DEF n
      <3>. QED
        BY <1>1, <3>1
    <2>2. n * D = q * D - p * D - D
      BY <1>1, <1>2, <1>3
    <2>3. x = n * D + s
      <3>. HIDE DEF n
      <3>1. x = q * D - p * D - D + s
        BY <1>1, <1>2, <1>3, <1>6
      <3>. QED
        BY <2>2, <3>1
    <2>4. left \in Int
      BY <1>1, <1>2, <1>5
    <2>5. x \in Int
      BY <1>1, <2>4
    <2>6. ~(clock - last < left)
      <3>1. x >= 0
        <4>. HIDE DEF n, x
        <4>. QED
          BY <1>3, <2>1, <2>3
      <3>. QED
        BY <1>1, <2>4, <3>1
    <2>7. x \div D = n /\ x % D = s
      <3>. HIDE DEF n, x
      <3>. QED
        <4>1. n \in Int /\ s \in 0 .. D - 1 /\ x \in Int /\ D \in Nat \ {0}
          BY <1>1, <1>3, <2>1, <2>5
        <4>2. Quotient(x, D, n, s)
          BY <2>3 DEF Quotient
        <4>. QED
          BY <4>1, <4>2, QuotientFound, Zenon
    <2>8. RoundedUp(x) = IF s > 0 THEN n + 1 ELSE n
      <3>. HIDE DEF n, x
      <3>. QED
        BY <1>3, <2>1, <2>7 DEF RoundedUp, D
    <2>9. DaysBetween(last, clock) = (IF s > 0 THEN n + 1 ELSE n) + 1
      BY <1>4, <2>6, <2>8
    <2>10. DaysBetween(last, clock) = IF s = 0 THEN q - p ELSE q - p + 1
      BY <1>2, <1>3, <2>9
    <2>. QED
      BY <2>10 DEF p, q, s
  <1>. QED
    BY <1>2, <1>3, <1>7, <1>8, <1>9

\* The wait until the next time of the day that is wanted.
LEMMA WaitIs ==
    ASSUME clock \in Nat, NEW wanted \in 0 .. DaySeconds - 1
    PROVE  UntilNext(wanted) = IF TimeOfDay(clock) > wanted
                               THEN DaySeconds - TimeOfDay(clock) + wanted
                               ELSE wanted - TimeOfDay(clock)
  <1>. DEFINE D == DaySeconds   q == LocalDay(clock)   r == TimeOfDay(clock)
  <1>1. D \in Nat \ {0} /\ Zone \in Nat
    BY CalendarAssumption
  <1>2. q \in Int /\ r \in 0 .. D - 1 /\ q * D \in Int /\ clock + Zone = q * D + r
    BY TimeIs
  <1>3. ASSUME NEW n \in 0 .. D - 1
        PROVE  TimeOfDay(clock + n) = IF r + n < D THEN r + n ELSE r + n - D
    <2>. DEFINE x == clock + n + Zone
    <2>. HIDE DEF q, r, D
    <2>1. x \in Int /\ x = q * D + (r + n)
      BY <1>1, <1>2
    <2>. HIDE DEF x
    <2>2. CASE r + n < D
      <3>1. r + n \in 0 .. D - 1
        BY <1>1, <1>2, <2>2
      <3>2. x % D = r + n
        <4>. DEFINE s == r + n
        <4>1. q \in Int /\ s \in 0 .. D - 1 /\ Quotient(x, D, q, s)
          BY <1>2, <2>1, <3>1 DEF Quotient
        <4>. HIDE DEF s
        <4>2. x % D = s
          BY <1>1, <2>1, <4>1, QuotientFound, Zenon
        <4>. QED
          BY <4>2 DEF s
      <3>. QED
        BY <2>2, <3>2 DEF TimeOfDay, D, x
    <2>3. CASE ~(r + n < D)
      <3>1. r + n - D \in 0 .. D - 1
        BY <1>1, <1>2, <2>3
      <3>2. (q + 1) * D = q * D + D /\ q + 1 \in Int
        BY <1>1, <1>2, ProductNext
      <3>3. x = (q + 1) * D + (r + n - D)
        BY <1>1, <1>2, <2>1, <3>2
      <3>4. x % D = r + n - D
        <4>. DEFINE p == q + 1   s == r + n - D
        <4>1. p \in Int /\ s \in 0 .. D - 1 /\ Quotient(x, D, p, s)
          BY <3>1, <3>2, <3>3 DEF Quotient
        <4>. HIDE DEF p, s
        <4>2. x % D = s
          BY <1>1, <2>1, <4>1, QuotientFound, Zenon
        <4>. QED
          BY <4>2 DEF s
      <3>. QED
        BY <2>3, <3>4 DEF TimeOfDay, D, x
    <2>. QED
      BY <2>2, <2>3
  <1>. DEFINE w == IF r > wanted THEN D - r + wanted ELSE wanted - r
  <1>. HIDE DEF q, r, D
  <1>4. wanted \in 0 .. D - 1
    BY DEF D
  <1>5. w \in 0 .. D - 1
    BY <1>1, <1>2, <1>4
  <1>6. TimeOfDay(clock + w) = wanted
    <2>1. CASE r > wanted
      <3>1. r + w = D + wanted /\ ~(r + w < D) /\ r + w - D = wanted
        BY <1>1, <1>2, <1>4, <2>1
      <3>. HIDE DEF w
      <3>. QED
        BY <1>3, <1>5, <3>1
    <2>2. CASE ~(r > wanted)
      <3>1. r + w = wanted /\ r + w < D
        BY <1>1, <1>2, <1>4, <2>2
      <3>. HIDE DEF w
      <3>. QED
        BY <1>3, <1>5, <3>1
    <2>. QED
      BY <2>1, <2>2
  <1>7. ASSUME NEW n \in 0 .. D - 1, TimeOfDay(clock + n) = wanted PROVE n = w
    <2>1. CASE r + n < D
      <3>1. r + n = wanted
        BY <1>3, <1>7, <2>1
      <3>. QED
        BY <1>1, <1>2, <1>4, <3>1
    <2>2. CASE ~(r + n < D)
      <3>1. r + n - D = wanted
        BY <1>3, <1>7, <2>2
      <3>. QED
        BY <1>1, <1>2, <1>4, <3>1
    <2>. QED
      BY <2>1, <2>2
  <1>8. UntilNext(wanted) = w
    <2>. HIDE DEF w
    <2>1. UntilNext(wanted) = CHOOSE n \in 0 .. D - 1 : TimeOfDay(clock + n) = wanted
      BY DEF UntilNext, D
    <2>. QED
      BY <1>5, <1>6, <1>7, <2>1
  <1>. QED
    BY <1>8 DEF r, D

\* A question asked and not answered is one about tomorrow's time.
CalendarInv ==
    /\ clock \in Nat /\ answer \in Int
    /\ \/ asked = NoQuestion /\ answer = NoAnswer
       \/ /\ asked \in [wanted : 0 .. DaySeconds - 1, seen : Nat]
          /\ asked.seen <= clock
          /\ answer = NoAnswer => TimeOfDay(asked.seen) > asked.wanted
    /\ NearestRight

LEMMA AskNearestKeeps ==
    ASSUME CalendarInv, NEW wanted \in 0 .. DaySeconds - 1, AskNearest(wanted)
    PROVE  CalendarInv'
  <1>1. clock \in Nat /\ clock' = clock /\ asked' = [wanted |-> wanted, seen |-> clock]
    BY DEF CalendarInv, AskNearest
  <1>2. asked' \in [wanted : 0 .. DaySeconds - 1, seen : Nat] /\ asked'.seen <= clock'
    BY <1>1
  <1>3. TimeOfDay(clock) \in 0 .. DaySeconds - 1 /\ DaySeconds \in Nat
    BY <1>1, TimeIs, CalendarAssumption
  <1>4. CASE TimeOfDay(clock) > wanted
    <2>1. answer' = NoAnswer
      BY <1>4 DEF AskNearest
    <2>2. asked'.seen = clock /\ asked'.wanted = wanted
      BY <1>1
    <2>. QED
      BY <1>1, <1>2, <1>4, <2>1, <2>2 DEF CalendarInv, NearestRight, NoAnswer
  <1>5. CASE ~(TimeOfDay(clock) > wanted)
    <2>1. answer' = wanted - TimeOfDay(clock)
      BY <1>5 DEF AskNearest
    <2>2. answer' \in Nat /\ answer' # NoAnswer
      BY <1>3, <1>5, <2>1 DEF NoAnswer
    <2>3. NearestRight'
      <3>1. UntilNext(wanted) = wanted - TimeOfDay(clock)
        BY <1>1, <1>5, WaitIs
      <3>2. UntilNext(wanted)' = UntilNext(wanted)
        BY <1>1 DEF UntilNext
      <3>3. asked'.wanted = wanted
        BY <1>1
      <3>. QED
        BY <2>1, <3>1, <3>2, <3>3 DEF NearestRight
    <2>. QED
      BY <1>1, <1>2, <2>2, <2>3 DEF CalendarInv
  <1>. QED
    BY <1>4, <1>5

LEMMA AddRestKeeps == ASSUME CalendarInv, AddRestOfDay PROVE CalendarInv'
  <1>. DEFINE w == asked.wanted   r == TimeOfDay(clock)
  <1>1. /\ asked \in [wanted : 0 .. DaySeconds - 1, seen : Nat] /\ asked.seen <= clock
        /\ TimeOfDay(asked.seen) > asked.wanted /\ clock \in Nat
    BY DEF CalendarInv, AddRestOfDay
  <1>2. UNCHANGED <<clock, asked>> /\ answer' = DaySeconds - r + w
    BY DEF AddRestOfDay, ElapsedOfDay
  <1>3. w \in 0 .. DaySeconds - 1 /\ r \in 0 .. DaySeconds - 1 /\ DaySeconds \in Nat
    BY <1>1, TimeIs, CalendarAssumption
  <1>4. answer' \in Nat /\ answer' # NoAnswer
    BY <1>2, <1>3 DEF NoAnswer
  <1>5. UntilNext(w) = IF r > w THEN DaySeconds - r + w ELSE w - r
    BY <1>1, <1>3, WaitIs
  <1>6. r <= w => LocalDay(clock) # LocalDay(asked.seen)
    <2>1. ASSUME r <= w, LocalDay(clock) = LocalDay(asked.seen) PROVE FALSE
      <3>1. /\ LocalDay(clock) * DaySeconds \in Int
            /\ clock + Zone = LocalDay(clock) * DaySeconds + r
        BY <1>1, TimeIs
      <3>2. /\ asked.seen \in Nat /\ TimeOfDay(asked.seen) \in Int
            /\ asked.seen + Zone = LocalDay(clock) * DaySeconds + TimeOfDay(asked.seen)
        BY <1>1, <2>1, TimeIs
      <3>3. Zone \in Nat
        BY CalendarAssumption
      <3>. QED
        BY <1>1, <1>3, <2>1, <3>1, <3>2, <3>3
    <2>. QED
      BY <2>1
  <1>7. ~WantedIsToday => answer' = UntilNext(w)
    <2>1. WantedIsToday <=> LocalDay(clock) # LocalDay(asked.seen) /\ r <= w
      BY DEF WantedIsToday
    <2>2. r <= w \/ r > w
      BY <1>3
    <2>. QED
      BY <1>2, <1>5, <1>6, <2>1, <2>2
  <1>8. UntilNext(w)' = UntilNext(w)
    BY <1>2 DEF UntilNext
  <1>9. NearestRight'
    <2>1. WantedIsToday' <=> WantedIsToday
      BY <1>2 DEF WantedIsToday
    <2>. QED
      BY <1>2, <1>7, <1>8, <2>1 DEF NearestRight
  <1>. QED
    BY <1>1, <1>2, <1>4, <1>9 DEF CalendarInv

LEMMA CalendarStepKeeps == ASSUME CalendarInv, [CalendarNext]_calendarVars PROVE CalendarInv'
  <1>1. CASE ClockTicks
    <2>1. clock \in Nat /\ clock' = clock + 1 /\ UNCHANGED <<asked, answer>> /\ answer' = NoAnswer
      BY <1>1 DEF CalendarInv, ClockTicks
    <2>2. clock' \in Nat /\ \A s \in Nat : s <= clock => s <= clock'
      BY <2>1
    <2>3. NearestRight'
      BY <2>1 DEF NearestRight
    <2>. QED
      BY <2>1, <2>2, <2>3 DEF CalendarInv
  <1>2. CASE AddRestOfDay
    BY <1>2, AddRestKeeps
  <1>3. CASE NearestReturns
    BY <1>3 DEF CalendarInv, NearestReturns, NearestRight, NoAnswer
  <1>4. ASSUME NEW wanted \in 0 .. (DaySeconds - 1), AskNearest(wanted) PROVE CalendarInv'
    BY <1>4, AskNearestKeeps
  <1>5. CASE UNCHANGED calendarVars
    BY <1>5 DEF CalendarInv, calendarVars, NearestRight, UntilNext, WantedIsToday
  <1>. QED
    BY <1>1, <1>2, <1>3, <1>4, <1>5 DEF CalendarNext

\* Weeks, days and waits agree with the calendar for every length of the day, every zone
\* and however long the clock runs, away from the three boundaries that CalendarRight names
\* and the comments of the code overlook (time_util.h:99-366).
THEOREM CalendarAgrees == CalendarSpec => []CalendarRight
  <1>1. CalendarInit => CalendarInv
    BY DEF CalendarInit, CalendarInv, NearestRight, NoAnswer, NoQuestion
  <1>2. CalendarInv /\ [CalendarNext]_calendarVars => CalendarInv'
    BY CalendarStepKeeps
  <1>3. CalendarInv => CalendarRight
    BY WeeksAreRight, DaysAreRight, CalendarAssumption DEF CalendarInv, CalendarRight
  <1>. QED
    BY <1>1, <1>2, <1>3, PTL DEF CalendarSpec

-----------------------------------------------------------------------------
\* BenchClient: LoginDue needs that the timers that earlier connections left behind are
\* bounded as well.
Longest == IF LoginAfter > LoginEvery THEN LoginAfter ELSE LoginEvery

TimersBounded == \A c \in Conns : timer[c] \in {Unlinked} \cup (0 .. Longest)

\* The inductive invariant.
BenchInv == BenchTypeOK /\ AnswerExpected /\ LoginDue /\ TimersBounded

LEMMA DelaysFit ==
    /\ LoginAfter \in 0 .. Longest /\ LoginEvery \in 0 .. Longest
    /\ Longest \in Nat
BY BenchAssumption, SMT DEF Longest

LEMMA ConnsFollow == 0 \in Conns /\ \A c \in Conns : (c + 1) % MaxCount \in Conns
BY BenchAssumption, SMT DEF Conns

LEMMA BoundIsDue == ASSUME NEW n \in 0 .. Longest PROVE n \in Nat /\ n # Unlinked
BY DelaysFit, SMT DEF Unlinked

LEMMA BenchInitEstablishes == BenchInit => BenchInv
  <1>. SUFFICES ASSUME BenchInit PROVE BenchInv
    OBVIOUS
  <1>1. curCount \in Conns
    BY ConnsFollow DEF BenchInit
  <1>2. BenchTypeOK
    BY <1>1 DEF BenchInit, BenchTypeOK
  <1>3. AnswerExpected /\ LoginDue /\ TimersBounded
    BY DEF BenchInit, AnswerExpected, LoginDue, TimersBounded
  <1>. QED
    BY <1>2, <1>3 DEF BenchInv

-----------------------------------------------------------------------------
\* Arming a timer leaves it due, and the others alone.
LEMMA ArmedIsDue ==
    ASSUME BenchInv, NEW c \in Conns, NEW delay \in 0 .. Longest
    PROVE  /\ Armed(c, delay) \in [Conns -> {Unlinked} \cup Nat]
           /\ Armed(c, delay)[c] \in 0 .. Longest
           /\ \A d \in Conns : d # c => Armed(c, delay)[d] = timer[d]
  <1>1. timer \in [Conns -> {Unlinked} \cup Nat]
    BY DEF BenchInv, BenchTypeOK
  <1>2. delay \in Nat
    BY BoundIsDue
  <1>3. timer[c] # Unlinked => timer[c] \in 0 .. Longest
    BY DEF BenchInv, TimersBounded
  <1>4. CASE timer[c] = Unlinked
    BY <1>1, <1>2, <1>4 DEF Armed
  <1>5. CASE timer[c] # Unlinked
    BY <1>1, <1>3, <1>5 DEF Armed
  <1>. QED
    BY <1>4, <1>5

\* What an action must do for the invariant: the types of what it assigns, and what the
\* other parts say of each connection.
LEMMA BenchPreserved ==
    ASSUME BenchTypeOK',
           \A c \in Conns : connected'[c] => (status'[c] = "PLAYER_LOGIN" <=> loggedIn'[c]),
           \A c \in Conns : connected'[c] => timer'[c] \in 0 .. Longest,
           \A c \in Conns : timer'[c] \in {Unlinked} \cup (0 .. Longest)
    PROVE  BenchInv'
BY DEF BenchInv, AnswerExpected, LoginDue, TimersBounded, Longest

LEMMA OnTimerKeeps == ASSUME BenchInv, OnTimer PROVE BenchInv'
  <1>1. BenchTypeOK
    BY DEF BenchInv
  <1>2. CASE ~connected[curCount] /\ Run(curCount)
    <2>. DEFINE c == curCount
    <2>1. c \in Conns /\ Run(c)
      BY <1>1, <1>2 DEF OnTimer, BenchTypeOK
    <2>2. /\ timer' \in [Conns -> {Unlinked} \cup Nat]
          /\ timer'[c] \in 0 .. Longest
          /\ \A d \in Conns : d # c => timer'[d] = timer[d]
      BY <2>1, ArmedIsDue, DelaysFit DEF Run
    <2>3. /\ connected' = [connected EXCEPT ![c] = TRUE]
          /\ loggedIn' = [loggedIn EXCEPT ![c] = FALSE]
          /\ status' = [status EXCEPT ![c] = "ACC_LOGIN"]
      BY <2>1 DEF Run
    <2>4. curCount' \in Conns /\ visited' = TRUE /\ serverUp' = serverUp
      BY <1>1, ConnsFollow DEF OnTimer, Following, BenchTypeOK
    <2>5. BenchTypeOK'
      BY <1>1, <2>2, <2>3, <2>4 DEF BenchTypeOK
    <2>6. ASSUME NEW d \in Conns
          PROVE  /\ connected'[d] => (status'[d] = "PLAYER_LOGIN" <=> loggedIn'[d])
                 /\ connected'[d] => timer'[d] \in 0 .. Longest
                 /\ timer'[d] \in {Unlinked} \cup (0 .. Longest)
      <3>1. CASE d = c
        BY <1>1, <2>1, <2>2, <2>3, <3>1 DEF BenchTypeOK
      <3>2. CASE d # c
        <4>1. /\ connected'[d] = connected[d] /\ loggedIn'[d] = loggedIn[d]
              /\ status'[d] = status[d] /\ timer'[d] = timer[d]
          BY <1>1, <2>2, <2>3, <3>2 DEF BenchTypeOK
        <4>. QED
          BY <4>1 DEF BenchInv, AnswerExpected, LoginDue, TimersBounded, Longest
      <3>. QED
        BY <3>1, <3>2
    <2>. QED
      BY <2>5, <2>6, BenchPreserved
  <1>3. CASE UNCHANGED <<connected, status, timer, loggedIn>>
    <2>1. /\ UNCHANGED <<connected, status, timer, loggedIn, serverUp>>
          /\ curCount' \in Conns /\ visited' = TRUE
      BY <1>1, <1>3, ConnsFollow DEF OnTimer, Following, BenchTypeOK
    <2>. QED
      BY <1>1, <2>1 DEF BenchInv, BenchTypeOK, AnswerExpected, LoginDue, TimersBounded
  <1>. QED
    BY <1>2, <1>3 DEF OnTimer

LEMMA OnTimeoutKeeps == ASSUME BenchInv, NEW c \in Conns, OnTimeout(c) PROVE BenchInv'
  <1>1. BenchTypeOK
    BY DEF BenchInv
  <1>2. /\ status' = [status EXCEPT ![c] = "PLAYER_LOGIN"]
        /\ timer' = [timer EXCEPT ![c] = LoginEvery]
        /\ UNCHANGED <<curCount, visited, serverUp>>
    BY DEF OnTimeout
  <1>3. LoginEvery \in 0 .. Longest /\ LoginEvery \in Nat
    BY DelaysFit, BoundIsDue
  <1>4. PICK was \in BOOLEAN : /\ connected' = [connected EXCEPT ![c] = was]
                               /\ loggedIn' = [loggedIn EXCEPT ![c] = was]
    <2>1. CASE loggedIn' = [loggedIn EXCEPT ![c] = connected[c]] /\ UNCHANGED connected
      <3>1. connected[c] \in BOOLEAN /\ connected' = [connected EXCEPT ![c] = connected[c]]
        BY <1>1, <2>1 DEF BenchTypeOK
      <3>. QED
        BY <2>1, <3>1
    <2>2. CASE /\ connected' = [connected EXCEPT ![c] = FALSE]
               /\ loggedIn' = [loggedIn EXCEPT ![c] = FALSE]
      BY <2>2
    <2>. QED
      BY <2>1, <2>2 DEF OnTimeout
  <1>5. BenchTypeOK'
    BY <1>1, <1>2, <1>3, <1>4 DEF BenchTypeOK
  <1>6. ASSUME NEW d \in Conns
        PROVE  /\ connected'[d] => (status'[d] = "PLAYER_LOGIN" <=> loggedIn'[d])
               /\ connected'[d] => timer'[d] \in 0 .. Longest
               /\ timer'[d] \in {Unlinked} \cup (0 .. Longest)
    <2>1. CASE d = c
      BY <1>1, <1>2, <1>3, <1>4, <2>1 DEF BenchTypeOK
    <2>2. CASE d # c
      <3>1. /\ connected'[d] = connected[d] /\ loggedIn'[d] = loggedIn[d]
            /\ status'[d] = status[d] /\ timer'[d] = timer[d]
        BY <1>1, <1>2, <1>4, <2>2 DEF BenchTypeOK
      <3>. QED
        BY <3>1 DEF BenchInv, AnswerExpected, LoginDue, TimersBounded, Longest
    <2>. QED
      BY <2>1, <2>2
  <1>. QED
    BY <1>5, <1>6, BenchPreserved

LEMMA OnEventKeeps ==
    ASSUME BenchInv, NEW c \in Conns, OnEvent(c), UNCHANGED <<timer, curCount, visited, serverUp>>
    PROVE  BenchInv'
  <1>1. BenchTypeOK
    BY DEF BenchInv
  <1>2. /\ connected' = [connected EXCEPT ![c] = FALSE]
        /\ loggedIn' = [loggedIn EXCEPT ![c] = FALSE]
        /\ status' = [status EXCEPT ![c] = "ACC_LOGIN"]
    BY DEF OnEvent
  <1>3. BenchTypeOK'
    BY <1>1, <1>2 DEF BenchTypeOK
  <1>4. ASSUME NEW d \in Conns
        PROVE  /\ connected'[d] => d # c /\ connected[d]
               /\ d # c => status'[d] = status[d] /\ loggedIn'[d] = loggedIn[d]
    BY <1>1, <1>2 DEF BenchTypeOK
  <1>. QED
    BY <1>3, <1>4 DEF BenchInv, AnswerExpected, LoginDue, TimersBounded

LEMMA PeriodPassesKeeps == ASSUME BenchInv, PeriodPasses PROVE BenchInv'
  <1>1. BenchTypeOK
    BY DEF BenchInv
  <1>2. /\ timer' = [c \in Conns |-> IF timer[c] = Unlinked THEN Unlinked ELSE timer[c] - 1]
        /\ \A c \in Conns : timer[c] # 0
        /\ visited' = FALSE
        /\ UNCHANGED <<connected, status, curCount, loggedIn, serverUp>>
    BY DEF PeriodPasses
  <1>3. ASSUME NEW c \in Conns
        PROVE  /\ timer'[c] \in {Unlinked} \cup (0 .. Longest)
               /\ timer[c] \in 0 .. Longest => timer'[c] \in 0 .. Longest
               /\ timer'[c] \in {Unlinked} \cup Nat
    <2>1. timer[c] \in {Unlinked} \cup (0 .. Longest) /\ timer[c] # 0
      BY <1>2 DEF BenchInv, TimersBounded
    <2>2. timer'[c] = IF timer[c] = Unlinked THEN Unlinked ELSE timer[c] - 1
      BY <1>2
    <2>3. ASSUME NEW n \in 0 .. Longest, n # 0
          PROVE  n - 1 \in 0 .. Longest /\ n - 1 \in Nat
      BY <2>3, DelaysFit
    <2>4. \A n \in 0 .. Longest : n # Unlinked
      BY BoundIsDue
    <2>. QED
      BY <2>1, <2>2, <2>3, <2>4
  <1>4. timer' \in [Conns -> {Unlinked} \cup Nat]
    BY <1>2, <1>3
  <1>5. BenchTypeOK'
    BY <1>1, <1>2, <1>4 DEF BenchTypeOK
  <1>6. \A c \in Conns : connected'[c] => (status'[c] = "PLAYER_LOGIN" <=> loggedIn'[c])
    BY <1>2 DEF BenchInv, AnswerExpected
  <1>7. \A c \in Conns : connected'[c] => timer[c] \in 0 .. Longest
    BY <1>2 DEF BenchInv, LoginDue, Longest
  <1>. QED
    BY <1>3, <1>5, <1>6, <1>7, BenchPreserved

LEMMA BenchStepKeeps == ASSUME BenchInv, [BenchNext]_benchVars PROVE BenchInv'
  <1>1. CASE OnTimer
    BY <1>1, OnTimerKeeps
  <1>2. CASE PeriodPasses
    BY <1>2, PeriodPassesKeeps
  <1>3. CASE ServerChanges
    BY <1>3 DEF ServerChanges, BenchInv, BenchTypeOK, AnswerExpected, LoginDue, TimersBounded
  <1>4. ASSUME NEW c \in Conns, OnTimeout(c) PROVE BenchInv'
    BY <1>4, OnTimeoutKeeps
  <1>5. ASSUME NEW c \in Conns, LoginAnswered(c) PROVE BenchInv'
    BY <1>5, OnEventKeeps DEF LoginAnswered
  <1>6. ASSUME NEW c \in Conns, ServerCloses(c) PROVE BenchInv'
    BY <1>6, OnEventKeeps DEF ServerCloses
  <1>7. CASE UNCHANGED benchVars
    BY <1>7 DEF benchVars, BenchInv, BenchTypeOK, AnswerExpected, LoginDue, TimersBounded
  <1>. QED
    BY <1>1, <1>2, <1>3, <1>4, <1>5, <1>6, <1>7 DEF BenchNext

-----------------------------------------------------------------------------
LEMMA BenchInductive == BenchSpec => []BenchInv
  <1>. QED
    BY BenchInitEstablishes, BenchStepKeeps, PTL DEF BenchSpec

\* The types of the list of connections and of its timers.
THEOREM BenchTypeCorrect == BenchSpec => []BenchTypeOK
  <1>1. BenchInv => BenchTypeOK
    BY DEF BenchInv
  <1>. QED
    BY <1>1, BenchInductive, PTL

\* For any number of connections and any delays, the answer to a login never finds an open
\* connection that does not wait for it, and no other answer is taken for one.
THEOREM AnswersAreExpected == BenchSpec => []AnswerExpected
  <1>1. BenchInv => AnswerExpected
    BY DEF BenchInv
  <1>. QED
    BY <1>1, BenchInductive, PTL

\* An open connection always has a login ahead of it, no later than the longer delay, be
\* its timer its own or an earlier connection's.
THEOREM LoginIsDue == BenchSpec => []LoginDue
  <1>1. BenchInv => LoginDue
    BY DEF BenchInv
  <1>. QED
    BY <1>1, BenchInductive, PTL
==============================================================================
