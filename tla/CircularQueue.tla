---------------------------- MODULE CircularQueue ----------------------------
(***************************************************************************)
(* framework/circular_queue.h: a ring of m_maxsize elements between one    *)
(* producer thread and one consumer thread, without a lock.  Each access to*)
(* a member the other thread also accesses is a step of its own; the two   *)
(* threads interleave.  The volatile members give the order of the accesses*)
(* to the compiler and x86 keeps it, so memory is sequentially consistent  *)
(* here.  The queue is between init and fini, which no thread may race.    *)
(***************************************************************************)
EXTENDS Integers

CONSTANTS Elements,     \* what the program queues (T)
          MaxSize,    \* m_maxsize
          NoValue     \* an element that was never assigned

ASSUME SizeAssumption == MaxSize \in Nat /\ MaxSize >= 4    \* init refuses less

ASSUME ValueAssumption == NoValue \notin Elements

VARIABLES itemlist,   \* m_itemlist
          front,      \* m_front, written by the producer only
          back,       \* m_back, written by the consumer only
          pushArg,    \* the argument of the push under way
          popped,     \* the reference argument of the latest pop
          producer,   \* "idle", "store" or "publish"
          consumer    \* "idle", "load" or "publish"

queueVars == <<itemlist, front, back, pushArg, popped, producer, consumer>>

Slots == 0 .. MaxSize - 1

\* Faults, each of which a property below must catch.
PushCheckFull(v) ==
    /\ producer = "idle"
    /\ pushArg' = v
    /\ producer' = "store"
    /\ UNCHANGED <<itemlist, front, back, popped, consumer>>

PopLoadNext ==
    /\ consumer = "load"
    /\ popped' = itemlist[(back + 1) % MaxSize]
    /\ consumer' = "publish"
    /\ UNCHANGED <<itemlist, front, back, pushArg, producer>>

Succ(i) == (i + 1) % MaxSize

Full == Succ(front) = back

Empty == front = back

QueueInit ==
    /\ itemlist = [i \in Slots |-> NoValue]
    /\ front = 0
    /\ back = 0
    /\ pushArg = NoValue
    /\ popped = NoValue
    /\ producer = "idle"
    /\ consumer = "idle"

\* push reads both indices once; a push that finds the queue full returns -1 and
\* changes nothing.
PushCheck(v) ==
    /\ producer = "idle"
    /\ ~Full
    /\ pushArg' = v
    /\ producer' = "store"
    /\ UNCHANGED <<itemlist, front, back, popped, consumer>>

PushAssign ==
    /\ producer = "store"
    /\ itemlist' = [itemlist EXCEPT ![front] = pushArg]
    /\ producer' = "publish"
    /\ UNCHANGED <<front, back, pushArg, popped, consumer>>

PushPublish ==
    /\ producer = "publish"
    /\ front' = Succ(front)
    /\ producer' = "idle"
    /\ UNCHANGED <<itemlist, back, pushArg, popped, consumer>>

\* pop; on an empty queue it returns -1 and changes nothing.
PopCheck ==
    /\ consumer = "idle"
    /\ ~Empty
    /\ consumer' = "load"
    /\ UNCHANGED <<itemlist, front, back, pushArg, popped, producer>>

PopLoad ==
    /\ consumer = "load"
    /\ popped' = itemlist[back]
    /\ consumer' = "publish"
    /\ UNCHANGED <<itemlist, front, back, pushArg, producer>>

PopPublish ==
    /\ consumer = "publish"
    /\ back' = Succ(back)
    /\ consumer' = "idle"
    /\ UNCHANGED <<itemlist, front, pushArg, popped, producer>>

Push == (\E v \in Elements : PushCheck(v)) \/ PushAssign \/ PushPublish

Pop == PopCheck \/ PopLoad \/ PopPublish

QueueNext == Push \/ Pop

QueueSpec == QueueInit /\ [][QueueNext]_queueVars

-----------------------------------------------------------------------------
\* The type of every variable (circular_queue.h:108-111).
QueueTypeOK ==
    /\ itemlist \in [Slots -> Elements \cup {NoValue}]
    /\ front \in Slots
    /\ back \in Slots
    /\ pushArg \in Elements \cup {NoValue}
    /\ popped \in Elements \cup {NoValue}
    /\ producer \in {"idle", "store", "publish"}
    /\ consumer \in {"idle", "load", "publish"}

\* How many elements are published and not yet released, and where the i-th is.
Count == IF front >= back THEN front - back ELSE front - back + MaxSize

Index(i) == IF back + i < MaxSize THEN back + i ELSE back + i - MaxSize

\* What each thread found out in its check is still true when it acts on it: the
\* free slot the producer saw is free and the element the consumer saw is there,
\* although both indices may have moved in between (push h:71-73, pop h:82-84).
CheckStillHolds ==
    /\ producer # "idle" => ~Full
    /\ consumer # "idle" => ~Empty

\* The ring is a FIFO that holds MaxSize - 1 elements: nothing is lost,
\* duplicated or reordered.  A push takes effect when it publishes the index, a
\* pop when it has read the element.
Released == IF consumer = "publish" THEN 1 ELSE 0

Content == [i \in 1 .. Count - Released |-> itemlist[Index(i - 1 + Released)]]

Fifo == INSTANCE BoundedFifo WITH
    Values <- Elements,
    Capacity <- MaxSize - 1,
    queue <- Content,
    got <- popped

ImplementsFifo == Fifo!Spec
=============================================================================
