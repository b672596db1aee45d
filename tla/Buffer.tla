------------------------------- MODULE Buffer -------------------------------
(***************************************************************************)
(* framework/buffer.{h,cpp}: a block of memory with a read and a write     *)
(* pointer.  A buffer is a record: cap is m_end - m_begin, off is m_data - *)
(* m_begin, and bytes is what lies between m_data and m_space.  Memory     *)
(* allocation succeeds.                                                    *)
(***************************************************************************)
LOCAL INSTANCE Integers
LOCAL INSTANCE Sequences

\* The first block of a buffer: resize of one that has none, which takes any size, or init,
\* which refuses less than 8 bytes.  The callers of init pass 1024 and more, of which the few
\* bytes of a run are a scaled image.
NewBuffer(size) == [cap |-> size, off |-> 0, bytes |-> << >>]

DataSize(b) == Len(b.bytes)

SpaceSize(b) == b.cap - b.off - Len(b.bytes)

\* The caller has written `s' at space(); push_data moves the write pointer, and
\* refuses to move it past the end.
PushData(b, s) ==
    IF Len(s) < 1 \/ Len(s) > SpaceSize(b) THEN b
    ELSE [b EXCEPT !.bytes = @ \o s]

\* Faults that properties of TcpDataHandler must catch.
PopDataAll(b, count) == [b EXCEPT !.off = 0, !.bytes = << >>]

ClearKeeps(b) == b

\* pop_data moves the read pointer and rewinds both when the buffer is empty.
PopData(b, count) ==
    IF count < 1 \/ count > DataSize(b) THEN b
    ELSE IF count = DataSize(b) THEN [b EXCEPT !.off = 0, !.bytes = << >>]
    ELSE [b EXCEPT !.off = @ + count, !.bytes = SubSeq(@, count + 1, Len(@))]

Resize(b, size) ==
    IF b.off + DataSize(b) > size THEN b ELSE [b EXCEPT !.cap = size]

\* adjust moves the data to the front when the read pointer passed the middle.
Adjust(b) == IF b.off > b.cap \div 2 THEN [b EXCEPT !.off = 0] ELSE b

Clear(b) == [b EXCEPT !.off = 0, !.bytes = << >>]
=============================================================================
