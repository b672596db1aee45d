--------------------------- MODULE RingMemBuffer ---------------------------
(***************************************************************************)
(* public/ring_mem_buffer.{h,cpp}: a ring of bytes between a thread that   *)
(* pushes blocks and a thread that consumes all there is.  Only the two    *)
(* positions are shared, and each thread stores its own after it is done   *)
(* with the bytes.  The bytes pushed are numbered 1, 2, ...                *)
(***************************************************************************)
EXTENDS Integers

CONSTANTS RingSize,     \* size_
          PushSizes,    \* the sizes given to push_data
          MaxPushed     \* bound: bytes that are pushed

ASSUME RingAssumption ==
    /\ RingSize \in Nat \ {0}
    /\ PushSizes \subseteq Nat \ {0}
    /\ MaxPushed \in Nat

VARIABLES ring,        \* buff_
          rPos, wPos,  \* r_pos_, w_pos_
          pushing,     \* push_data: the size under way, or 0
          copied,      \* push_data has copied the block and has yet to store w_pos_
          consuming,   \* consume_all_data: "idle", "head", "tail", "store"
          wSeen,       \* the w_pos_ it has loaded
          pushed,      \* history: bytes pushed
          consumed,    \* history: bytes given up by the consumer
          fitted       \* history: the ring never held RingSize unread bytes

ringVars == <<ring, rPos, wPos, pushing, copied, consuming, wSeen, pushed, consumed, fitted>>

RingInit ==
    /\ ring = [p \in 0 .. RingSize - 1 |-> 0]
    /\ rPos = 0 /\ wPos = 0
    /\ pushing = 0 /\ copied = FALSE
    /\ consuming = "idle" /\ wSeen = 0
    /\ pushed = 0 /\ consumed = 0
    /\ fitted = TRUE

\* Whether a block reaches the end of the ring, and how far it goes on from its start.
Wraps(size) == wPos + size > RingSize

Over(size) == size - (RingSize - wPos)

\* push_data up to its check, which a block that does not wrap does not need.
PushBegin(size) ==
    /\ pushing = 0
    /\ pushed + size <= MaxPushed
    /\ Wraps(size) => Over(size) < rPos
    /\ pushing' = size
    /\ UNCHANGED <<ring, rPos, wPos, copied, consuming, wSeen, pushed, consumed, fitted>>

\* The place of the i-th byte from position p on.
Place(p, i) == (p + i - 1) % RingSize

\* memcpy, to the end of the ring and from its start.
PushCopy ==
    /\ pushing # 0 /\ ~copied
    /\ ring' = [p \in DOMAIN ring |->
                  IF \E i \in 1 .. pushing : p = Place(wPos, i)
                  THEN pushed + (CHOOSE i \in 1 .. pushing : p = Place(wPos, i)) ELSE ring[p]]
    /\ copied' = TRUE
    /\ fitted' = (fitted /\ pushed + pushing - consumed < RingSize)
    /\ UNCHANGED <<rPos, wPos, pushing, consuming, wSeen, pushed, consumed>>

PushStore ==
    /\ copied
    /\ wPos' = IF Wraps(pushing) THEN Over(pushing) ELSE wPos + pushing
    /\ pushed' = pushed + pushing
    /\ pushing' = 0 /\ copied' = FALSE
    /\ UNCHANGED <<ring, rPos, consuming, wSeen, consumed, fitted>>

\* consume_all_data loads both positions; if they differ it calls func_, twice when the
\* data wrap.
ConsumeBegin ==
    /\ consuming = "idle"
    /\ wSeen' = wPos
    /\ consuming' = IF rPos = wPos THEN "store" ELSE "head"
    /\ UNCHANGED <<ring, rPos, wPos, pushing, copied, pushed, consumed, fitted>>

\* func_ returned: the second call is made only when the first returned 0.
ConsumeHead ==
    /\ consuming = "head"
    /\ consuming' \in {"store"} \cup (IF rPos > wSeen /\ wSeen # 0 THEN {"tail"} ELSE {})
    /\ UNCHANGED <<ring, rPos, wPos, pushing, copied, wSeen, pushed, consumed, fitted>>

ConsumeTail ==
    /\ consuming = "tail"
    /\ consuming' = "store"
    /\ UNCHANGED <<ring, rPos, wPos, pushing, copied, wSeen, pushed, consumed, fitted>>

\* func_ threw: the position stays, and the data will be consumed again.
ConsumeThrows ==
    /\ consuming \in {"head", "tail"}
    /\ consuming' = "idle"
    /\ UNCHANGED <<ring, rPos, wPos, pushing, copied, wSeen, pushed, consumed, fitted>>

\* The bytes from rPos to w.
Held(w) == IF rPos <= w THEN w - rPos ELSE RingSize - rPos + w

\* A fault in the code that the property must catch: w_pos_ is read again.
ConsumeStoreLoads ==
    /\ consuming = "store"
    /\ rPos' = wPos
    /\ consumed' = consumed + Held(wSeen)
    /\ consuming' = "idle"
    /\ UNCHANGED <<ring, wPos, pushing, copied, wSeen, pushed, fitted>>

ConsumeStore ==
    /\ consuming = "store"
    /\ rPos' = wSeen
    /\ consumed' = consumed + Held(wSeen)
    /\ consuming' = "idle"
    /\ UNCHANGED <<ring, wPos, pushing, copied, wSeen, pushed, fitted>>

RingNext ==
    \/ \E size \in PushSizes : PushBegin(size)
    \/ PushCopy \/ PushStore
    \/ ConsumeBegin \/ ConsumeHead \/ ConsumeTail \/ ConsumeThrows \/ ConsumeStore

RingSpec == RingInit /\ [][RingNext]_ringVars
-----------------------------------------------------------------------------
\* The ring holds the bytes that were pushed and not yet consumed, in order, from rPos on,
\* also while the producer copies and the consumer reads.
UnreadIntact ==
    /\ Held(wPos) = pushed - consumed
    /\ \A i \in 1 .. pushed - consumed : ring[Place(rPos, i)] = consumed + i

\* It does so as long as the producer never lets RingSize bytes pile up (cpp:38-89).
IntactWhileItFits == fitted => UnreadIntact

\* push_data never writes over bytes that were not read (cpp:49: "if exceeds the read
\* pointer, forbiden to write").
UnreadKept == UnreadIntact
=============================================================================
