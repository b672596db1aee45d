------------------------ MODULE TcpDataHandler_proof ------------------------
(***************************************************************************)
(* Proofs about TcpDataHandler and TcpConnection, for any sizes of buffers,*)
(* packets, writes and messages.  The bytes in the buffers are runs of numbers (UpTo), and *)
(* the lemmas on runs and on the buffer's operations are the only ones     *)
(* that look into sequences.                                               *)
(***************************************************************************)
EXTENDS TcpConnection, SequenceTheorems, TLAPS

\* A buffer, empty only when it is rewound.
Rewound(b) == IsBuffer(b) /\ (b.bytes = << >> => b.off = 0)

-----------------------------------------------------------------------------
\* Runs of numbers.
LEMMA RunIsSeq ==
    ASSUME NEW a \in Nat, NEW c \in Nat, a <= c
    PROVE  /\ UpTo(a, c) \in Seq(Nat) /\ Len(UpTo(a, c)) = c - a
           /\ \A i \in 1 .. c - a : UpTo(a, c)[i] = a + i
  <1>. DEFINE n == c - a
  <1>1. n \in Nat
    OBVIOUS
  <1>2. \A i \in 1 .. n : a + i \in Nat
    OBVIOUS
  <1>3. UpTo(a, c) = [i \in 1 .. n |-> a + i]
    BY DEF UpTo
  <1>. HIDE DEF n
  <1>. QED
    BY <1>1, <1>2, <1>3 DEF n

LEMMA RunEmpty == ASSUME NEW a \in Nat PROVE UpTo(a, a) = << >>
  <1>1. UpTo(a, a) \in Seq(Nat) /\ Len(UpTo(a, a)) = 0
    BY RunIsSeq
  <1>. QED
    BY <1>1, EmptySeq

LEMMA SameSeq ==
    ASSUME NEW S, NEW s \in Seq(S), NEW t \in Seq(S), Len(s) = Len(t),
           \A i \in 1 .. Len(s) : s[i] = t[i]
    PROVE  s = t
BY SeqEqual

LEMMA ConcatIsRun ==
    ASSUME NEW a \in Nat, NEW c \in Nat, NEW d \in Nat, a <= c, c <= d,
           NEW s \in Seq(Nat), Len(s) = c - a, \A i \in 1 .. c - a : s[i] = a + i,
           NEW t \in Seq(Nat), Len(t) = d - c, \A i \in 1 .. d - c : t[i] = c + i
    PROVE  /\ s \o t \in Seq(Nat) /\ Len(s \o t) = d - a
           /\ \A i \in 1 .. d - a : (s \o t)[i] = a + i
  <1>1. s \o t \in Seq(Nat) /\ Len(s \o t) = d - a
    <2>1. s \o t \in Seq(Nat) /\ Len(s \o t) = Len(s) + Len(t)
      BY ConcatProperties
    <2>2. (c - a) + (d - c) = d - a
      OBVIOUS
    <2>. QED
      BY <2>1, <2>2
  <1>2. ASSUME NEW i \in 1 .. d - a PROVE (s \o t)[i] = a + i
    <2>1. i <= c - a \/ i > c - a
      OBVIOUS
    <2>2. CASE i <= c - a
      <3>1. i \in 1 .. c - a /\ (s \o t)[i] = s[i]
        BY <2>2
      <3>. QED
        BY <3>1
    <2>3. CASE i > c - a
      <3>1. i - (c - a) \in 1 .. d - c
        BY <2>3
      <3>2. (s \o t)[i] = t[i - (c - a)]
        BY <2>3
      <3>3. c + (i - (c - a)) = a + i
        OBVIOUS
      <3>. QED
        BY <3>1, <3>2, <3>3
    <2>. QED
      BY <2>1, <2>2, <2>3
  <1>. QED
    BY <1>1, <1>2

LEMMA RunJoin ==
    ASSUME NEW a \in Nat, NEW c \in Nat, NEW d \in Nat, a <= c, c <= d
    PROVE  UpTo(a, c) \o UpTo(c, d) = UpTo(a, d)
  <1>1. a <= d
    OBVIOUS
  <1>2. /\ UpTo(a, c) \in Seq(Nat) /\ Len(UpTo(a, c)) = c - a
        /\ \A i \in 1 .. c - a : UpTo(a, c)[i] = a + i
    BY RunIsSeq
  <1>3. /\ UpTo(c, d) \in Seq(Nat) /\ Len(UpTo(c, d)) = d - c
        /\ \A i \in 1 .. d - c : UpTo(c, d)[i] = c + i
    BY RunIsSeq
  <1>4. /\ UpTo(a, d) \in Seq(Nat) /\ Len(UpTo(a, d)) = d - a
        /\ \A i \in 1 .. d - a : UpTo(a, d)[i] = a + i
    BY <1>1, RunIsSeq
  <1>5. /\ UpTo(a, c) \o UpTo(c, d) \in Seq(Nat) /\ Len(UpTo(a, c) \o UpTo(c, d)) = d - a
        /\ \A i \in 1 .. d - a : (UpTo(a, c) \o UpTo(c, d))[i] = a + i
    BY <1>2, <1>3, ConcatIsRun
  <1>. QED
    BY <1>4, <1>5, SameSeq

LEMMA PartsOf ==
    ASSUME NEW s \in Seq(Nat), NEW n \in 0 .. Len(s)
    PROVE  /\ SubSeq(s, 1, n) \in Seq(Nat) /\ Len(SubSeq(s, 1, n)) = n
           /\ \A i \in 1 .. n : SubSeq(s, 1, n)[i] = s[i]
           /\ SubSeq(s, n + 1, Len(s)) \in Seq(Nat)
           /\ Len(SubSeq(s, n + 1, Len(s))) = Len(s) - n
           /\ \A i \in 1 .. Len(s) - n : SubSeq(s, n + 1, Len(s))[i] = s[n + i]
  <1>1. Len(s) \in Nat /\ n \in Nat /\ n <= Len(s)
    OBVIOUS
  <1>2. \A i \in 1 .. Len(s) : s[i] \in Nat
    OBVIOUS
  <1>3. /\ SubSeq(s, 1, n) \in Seq(Nat)
        /\ Len(SubSeq(s, 1, n)) = IF 1 <= n THEN n - 1 + 1 ELSE 0
        /\ \A i \in 1 .. n - 1 + 1 : SubSeq(s, 1, n)[i] = s[1 + i - 1]
    <2>1. \A i \in 1 .. n : s[i] \in Nat
      BY <1>1, <1>2
    <2>2. n \in Int /\ 1 \in Int
      BY <1>1
    <2>. QED
      BY <2>1, <2>2, SubSeqProperties
  <1>4. /\ SubSeq(s, n + 1, Len(s)) \in Seq(Nat)
        /\ Len(SubSeq(s, n + 1, Len(s))) = IF n + 1 <= Len(s) THEN Len(s) - (n + 1) + 1 ELSE 0
        /\ \A i \in 1 .. Len(s) - (n + 1) + 1 :
              SubSeq(s, n + 1, Len(s))[i] = s[(n + 1) + i - 1]
    <2>1. \A i \in n + 1 .. Len(s) : s[i] \in Nat
      BY <1>1, <1>2
    <2>2. n + 1 \in Int /\ Len(s) \in Int
      BY <1>1
    <2>. QED
      BY <2>1, <2>2, SubSeqProperties
  <1>5. n - 1 + 1 = n /\ (n < 1 => n = 0) /\ \A i \in 1 .. n : 1 + i - 1 = i
    BY <1>1
  <1>6. /\ Len(s) - (n + 1) + 1 = Len(s) - n
        /\ ~(n + 1 <= Len(s)) => Len(s) - n = 0
        /\ \A i \in 1 .. Len(s) - n : (n + 1) + i - 1 = n + i
    BY <1>1
  <1>7. Len(SubSeq(s, 1, n)) = n
    BY <1>1, <1>3, <1>5
  <1>8. Len(SubSeq(s, n + 1, Len(s))) = Len(s) - n
    BY <1>1, <1>4, <1>6
  <1>9. \A i \in 1 .. n : SubSeq(s, 1, n)[i] = s[i]
    BY <1>3, <1>5
  <1>10. \A i \in 1 .. Len(s) - n : SubSeq(s, n + 1, Len(s))[i] = s[n + i]
    BY <1>4, <1>6
  <1>. QED
    BY <1>3, <1>4, <1>7, <1>8, <1>9, <1>10

LEMMA RunPart ==
    ASSUME NEW a \in Nat, NEW c \in Nat, a <= c, NEW n \in 0 .. c - a
    PROVE  /\ SubSeq(UpTo(a, c), 1, n) = UpTo(a, a + n)
           /\ SubSeq(UpTo(a, c), n + 1, c - a) = UpTo(a + n, c)
  <1>. DEFINE s == UpTo(a, c)   t == UpTo(a, a + n)   u == UpTo(a + n, c)
              p == SubSeq(s, 1, n)   q == SubSeq(s, n + 1, c - a)
  <1>1. s \in Seq(Nat) /\ Len(s) = c - a /\ \A i \in 1 .. c - a : s[i] = a + i
    BY RunIsSeq
  <1>2. t \in Seq(Nat) /\ Len(t) = n /\ \A i \in 1 .. n : t[i] = a + i
    <2>1. a + n \in Nat /\ a <= a + n /\ (a + n) - a = n
      OBVIOUS
    <2>. QED
      BY <2>1, RunIsSeq
  <1>3. u \in Seq(Nat) /\ Len(u) = (c - a) - n /\ \A i \in 1 .. (c - a) - n : u[i] = a + n + i
    <2>1. a + n \in Nat /\ a + n <= c /\ c - (a + n) = (c - a) - n
      OBVIOUS
    <2>. QED
      BY <2>1, RunIsSeq
  <1>. HIDE DEF s, t, u
  <1>4. /\ p \in Seq(Nat) /\ Len(p) = n /\ \A i \in 1 .. n : p[i] = s[i]
        /\ q \in Seq(Nat) /\ Len(q) = (c - a) - n
        /\ \A i \in 1 .. (c - a) - n : q[i] = s[n + i]
    BY <1>1, PartsOf
  <1>. HIDE DEF p, q
  <1>5. p = t
    <2>1. \A i \in 1 .. n : i \in 1 .. c - a
      OBVIOUS
    <2>2. \A i \in 1 .. n : p[i] = t[i]
      BY <1>1, <1>2, <1>4, <2>1
    <2>. QED
      BY <1>2, <1>4, <2>2, SameSeq
  <1>6. q = u
    <2>1. \A i \in 1 .. (c - a) - n : n + i \in 1 .. c - a /\ a + (n + i) = a + n + i
      OBVIOUS
    <2>2. \A i \in 1 .. (c - a) - n : q[i] = u[i]
      BY <1>1, <1>3, <1>4, <2>1
    <2>. QED
      BY <1>3, <1>4, <2>2, SameSeq
  <1>. QED
    BY <1>5, <1>6 DEF p, q, s, t, u

-----------------------------------------------------------------------------
\* The operations of a buffer.
LEMMA SizesAre ==
    ASSUME NEW b, Rewound(b)
    PROVE  /\ b.cap \in Nat /\ b.cap >= 1 /\ b.off \in Nat /\ b.bytes \in Seq(Nat)
           /\ DataSize(b) \in Nat /\ SpaceSize(b) \in Nat
           /\ b.off + DataSize(b) + SpaceSize(b) = b.cap
           /\ DataSize(b) = 0 => b.bytes = << >> /\ SpaceSize(b) = b.cap
  <1>1. b.cap \in Nat /\ b.cap >= 1 /\ b.off \in Nat /\ b.bytes \in Seq(Nat)
    BY DEF Rewound, IsBuffer
  <1>2. DataSize(b) \in Nat /\ SpaceSize(b) = b.cap - b.off - DataSize(b)
    BY <1>1 DEF DataSize, SpaceSize
  <1>3. SpaceSize(b) >= 0
    BY DEF Rewound, IsBuffer
  <1>4. DataSize(b) = 0 => b.bytes = << >> /\ b.off = 0
    BY <1>1, EmptySeq DEF DataSize, Rewound
  <1>. QED
    BY <1>1, <1>2, <1>3, <1>4

\* A record with the fields of a buffer is one.
LEMMA MadeBuffer ==
    ASSUME NEW cap \in Nat, cap >= 1, NEW off \in Nat, NEW bytes \in Seq(Nat),
           off + Len(bytes) <= cap, bytes = << >> => off = 0
    PROVE  Rewound([cap |-> cap, off |-> off, bytes |-> bytes])
  <1>. DEFINE b == [cap |-> cap, off |-> off, bytes |-> bytes]
  <1>1. b \in [cap : Nat \ {0}, off : Nat, bytes : Seq(Nat)]
    OBVIOUS
  <1>2. b.cap = cap /\ b.off = off /\ b.bytes = bytes
    OBVIOUS
  <1>3. cap - off - Len(bytes) >= 0
    <2>1. Len(bytes) \in Nat
      OBVIOUS
    <2>. QED
      BY <2>1
  <1>. HIDE DEF b
  <1>. QED
    BY <1>1, <1>2, <1>3 DEF Rewound, IsBuffer, SpaceSize

LEMMA BufferFields ==
    ASSUME NEW b, Rewound(b), NEW c
    PROVE  /\ b = [cap |-> b.cap, off |-> b.off, bytes |-> b.bytes]
           /\ [b EXCEPT !.cap = c] = [cap |-> c, off |-> b.off, bytes |-> b.bytes]
           /\ [b EXCEPT !.off = c] = [cap |-> b.cap, off |-> c, bytes |-> b.bytes]
           /\ [b EXCEPT !.bytes = c] = [cap |-> b.cap, off |-> b.off, bytes |-> c]
  <1>1. b \in [cap : Nat \ {0}, off : Nat, bytes : Seq(Nat)]
    BY DEF Rewound, IsBuffer
  <1>2. b = [cap |-> b.cap, off |-> b.off, bytes |-> b.bytes]
    BY <1>1
  <1>3. [b EXCEPT !.cap = c] = [cap |-> c, off |-> b.off, bytes |-> b.bytes]
    BY <1>1
  <1>4. [b EXCEPT !.off = c] = [cap |-> b.cap, off |-> c, bytes |-> b.bytes]
    BY <1>1
  <1>5. [b EXCEPT !.bytes = c] = [cap |-> b.cap, off |-> b.off, bytes |-> c]
    BY <1>1
  <1>. QED
    BY <1>2, <1>3, <1>4, <1>5

LEMMA BufferMoved ==
    ASSUME NEW b, Rewound(b), NEW o, NEW s
    PROVE  [b EXCEPT !.off = o, !.bytes = s] = [cap |-> b.cap, off |-> o, bytes |-> s]
  <1>1. b \in [cap : Nat \ {0}, off : Nat, bytes : Seq(Nat)]
    BY DEF Rewound, IsBuffer
  <1>. DEFINE r == [cap |-> b.cap, off |-> o, bytes |-> b.bytes]
  <1>2. [b EXCEPT !.off = o] = r
    BY <1>1
  <1>3. [b EXCEPT !.off = o, !.bytes = s] = [[b EXCEPT !.off = o] EXCEPT !.bytes = s]
    BY <1>1
  <1>4. [r EXCEPT !.bytes = s] = [cap |-> b.cap, off |-> o, bytes |-> s]
    OBVIOUS
  <1>. QED
    BY <1>2, <1>3, <1>4

LEMMA NewIs == Rewound(NewBuffer(BufSize)) /\ NewBuffer(BufSize).bytes = << >>
  <1>1. BufSize \in Nat /\ BufSize >= 1
    BY HandlerAssumption
  <1>2. << >> \in Seq(Nat) /\ 0 + Len(<< >>) <= BufSize
    BY <1>1
  <1>. QED
    BY <1>1, <1>2, MadeBuffer DEF NewBuffer

LEMMA PushIs ==
    ASSUME NEW b, Rewound(b), NEW s \in Seq(Nat), Len(s) <= SpaceSize(b)
    PROVE  Rewound(PushData(b, s)) /\ PushData(b, s).bytes = b.bytes \o s
  <1>1. /\ b.cap \in Nat /\ b.cap >= 1 /\ b.off \in Nat /\ b.bytes \in Seq(Nat)
        /\ DataSize(b) \in Nat /\ SpaceSize(b) \in Nat
        /\ b.off + DataSize(b) + SpaceSize(b) = b.cap
    BY SizesAre
  <1>2. Len(s) \in Nat
    OBVIOUS
  <1>3. CASE Len(s) < 1
    <2>1. s = << >>
      BY <1>2, <1>3, EmptySeq
    <2>2. b.bytes \o s = b.bytes
      BY <1>1, <2>1, ConcatEmptySeq
    <2>. QED
      BY <1>3, <2>2 DEF PushData
  <1>4. CASE ~(Len(s) < 1)
    <2>. DEFINE t == b.bytes \o s
    <2>1. PushData(b, s) = [b EXCEPT !.bytes = t]
      <3>1. ~(Len(s) < 1 \/ Len(s) > SpaceSize(b))
        BY <1>1, <1>2, <1>4
      <3>. QED
        BY <3>1 DEF PushData
    <2>2. t \in Seq(Nat) /\ Len(t) = DataSize(b) + Len(s)
      <3>1. b.bytes \in Seq(Nat)
        BY <1>1
      <3>2. t \in Seq(Nat) /\ Len(t) = Len(b.bytes) + Len(s)
        BY <3>1, ConcatProperties
      <3>. QED
        BY <3>2 DEF DataSize
    <2>. HIDE DEF t
    <2>3. [b EXCEPT !.bytes = t] = [cap |-> b.cap, off |-> b.off, bytes |-> t]
      BY BufferFields
    <2>4. b.off + Len(t) <= b.cap
      BY <1>1, <1>2, <2>2
    <2>5. t # << >>
      <3>1. Len(t) # 0
        BY <1>1, <1>2, <1>4, <2>2
      <3>. QED
        BY <2>2, <3>1, EmptySeq
    <2>6. Rewound([cap |-> b.cap, off |-> b.off, bytes |-> t])
      BY <1>1, <2>2, <2>4, <2>5, MadeBuffer
    <2>. QED
      BY <2>1, <2>3, <2>6 DEF t
  <1>. QED
    BY <1>3, <1>4

LEMMA PopIs ==
    ASSUME NEW b, Rewound(b), NEW n \in Nat, 1 <= n, n <= DataSize(b)
    PROVE  /\ Rewound(PopData(b, n))
           /\ PopData(b, n).bytes = SubSeq(b.bytes, n + 1, DataSize(b))
  <1>1. /\ b.cap \in Nat /\ b.cap >= 1 /\ b.off \in Nat /\ b.bytes \in Seq(Nat)
        /\ DataSize(b) \in Nat /\ SpaceSize(b) \in Nat
        /\ b.off + DataSize(b) + SpaceSize(b) = b.cap
    BY SizesAre
  <1>. DEFINE t == SubSeq(b.bytes, n + 1, DataSize(b))
  <1>2. t \in Seq(Nat) /\ Len(t) = DataSize(b) - n
    <2>1. n \in 0 .. Len(b.bytes) /\ DataSize(b) = Len(b.bytes)
      BY <1>1 DEF DataSize
    <2>. QED
      BY <1>1, <2>1, PartsOf
  <1>. HIDE DEF t
  <1>3. ~(n < 1 \/ n > DataSize(b))
    BY <1>1
  <1>4. CASE n = DataSize(b)
    <2>1. PopData(b, n) = [b EXCEPT !.off = 0, !.bytes = << >>]
      BY <1>3, <1>4 DEF PopData
    <2>2. t = << >>
      <3>1. Len(t) = 0
        BY <1>1, <1>2, <1>4
      <3>. QED
        BY <1>2, <3>1, EmptySeq
    <2>3. [b EXCEPT !.off = 0, !.bytes = << >>] = [cap |-> b.cap, off |-> 0, bytes |-> << >>]
      BY BufferMoved
    <2>4. << >> \in Seq(Nat) /\ 0 + Len(<< >>) <= b.cap
      BY <1>1
    <2>5. Rewound([cap |-> b.cap, off |-> 0, bytes |-> << >>])
      BY <1>1, <2>4, MadeBuffer
    <2>. QED
      BY <2>1, <2>2, <2>3, <2>5 DEF t
  <1>5. CASE n # DataSize(b)
    <2>1. PopData(b, n) = [b EXCEPT !.off = b.off + n, !.bytes = t]
      BY <1>3, <1>5 DEF PopData, t, DataSize
    <2>2. [b EXCEPT !.off = b.off + n, !.bytes = t]
            = [cap |-> b.cap, off |-> b.off + n, bytes |-> t]
      BY BufferMoved
    <2>3. b.off + n \in Nat /\ b.off + n + Len(t) <= b.cap
      BY <1>1, <1>2
    <2>4. t # << >>
      <3>1. Len(t) # 0
        BY <1>1, <1>2, <1>5
      <3>. QED
        BY <1>2, <3>1, EmptySeq
    <2>5. Rewound([cap |-> b.cap, off |-> b.off + n, bytes |-> t])
      BY <1>1, <1>2, <2>3, <2>4, MadeBuffer
    <2>. QED
      BY <2>1, <2>2, <2>5 DEF t
  <1>. QED
    BY <1>4, <1>5

LEMMA PopEmpty ==
    ASSUME NEW b, Rewound(b), b.bytes = << >>, NEW n \in Nat PROVE PopData(b, n) = b
  <1>1. DataSize(b) = 0
    BY DEF DataSize
  <1>2. n < 1 \/ n > DataSize(b)
    BY <1>1
  <1>. QED
    BY <1>2 DEF PopData

LEMMA ResizeIs ==
    ASSUME NEW b, Rewound(b), NEW n \in Nat, n >= 1
    PROVE  /\ Rewound(Resize(b, n)) /\ Resize(b, n).bytes = b.bytes
           /\ n >= b.cap => SpaceSize(Resize(b, n)) = SpaceSize(b) + (n - b.cap)
  <1>1. /\ b.cap \in Nat /\ b.cap >= 1 /\ b.off \in Nat /\ b.bytes \in Seq(Nat)
        /\ DataSize(b) \in Nat /\ SpaceSize(b) \in Nat
        /\ b.off + DataSize(b) + SpaceSize(b) = b.cap
    BY SizesAre
  <1>2. CASE b.off + DataSize(b) > n
    <2>1. Resize(b, n) = b
      BY <1>2 DEF Resize
    <2>2. ~(n >= b.cap)
      BY <1>1, <1>2
    <2>. QED
      BY <2>1, <2>2
  <1>3. CASE ~(b.off + DataSize(b) > n)
    <2>. DEFINE r == [cap |-> n, off |-> b.off, bytes |-> b.bytes]
    <2>1. Resize(b, n) = r
      BY <1>3, BufferFields DEF Resize
    <2>2. b.off + Len(b.bytes) <= n /\ DataSize(b) = Len(b.bytes)
      BY <1>1, <1>3 DEF DataSize
    <2>3. Rewound(r)
      BY <1>1, <2>2, MadeBuffer DEF Rewound
    <2>4. SpaceSize(r) = n - b.off - DataSize(b)
      BY DEF SpaceSize, DataSize
    <2>5. n - b.off - DataSize(b) = SpaceSize(b) + (n - b.cap)
      BY <1>1
    <2>. QED
      BY <2>1, <2>3, <2>4, <2>5
  <1>. QED
    BY <1>2, <1>3

LEMMA AdjustIs ==
    ASSUME NEW b, Rewound(b)
    PROVE  /\ Rewound(Adjust(b)) /\ Adjust(b).bytes = b.bytes
           /\ SpaceSize(Adjust(b)) >= SpaceSize(b)
  <1>1. /\ b.cap \in Nat /\ b.cap >= 1 /\ b.off \in Nat /\ b.bytes \in Seq(Nat)
        /\ DataSize(b) \in Nat /\ SpaceSize(b) \in Nat
        /\ b.off + DataSize(b) + SpaceSize(b) = b.cap
    BY SizesAre
  <1>2. CASE b.off > b.cap \div 2
    <2>. DEFINE r == [cap |-> b.cap, off |-> 0, bytes |-> b.bytes]
    <2>1. Adjust(b) = r
      BY <1>2, BufferFields DEF Adjust
    <2>2. 0 + Len(b.bytes) <= b.cap /\ DataSize(b) = Len(b.bytes)
      BY <1>1 DEF DataSize
    <2>3. Rewound(r)
      BY <1>1, <2>2, MadeBuffer
    <2>4. SpaceSize(r) = b.cap - 0 - DataSize(b)
      BY DEF SpaceSize, DataSize
    <2>5. b.cap - 0 - DataSize(b) >= SpaceSize(b)
      BY <1>1
    <2>. QED
      BY <2>1, <2>3, <2>4, <2>5
  <1>3. CASE ~(b.off > b.cap \div 2)
    BY <1>1, <1>3 DEF Adjust
  <1>. QED
    BY <1>2, <1>3

LEMMA ClearIs == ASSUME NEW b, Rewound(b) PROVE Rewound(Clear(b)) /\ Clear(b).bytes = << >>
  <1>1. Clear(b) = [cap |-> b.cap, off |-> 0, bytes |-> << >>]
    BY BufferMoved DEF Clear
  <1>2. b.cap \in Nat /\ b.cap >= 1 /\ << >> \in Seq(Nat) /\ 0 + Len(<< >>) <= b.cap
    BY SizesAre
  <1>3. Rewound([cap |-> b.cap, off |-> 0, bytes |-> << >>])
    BY <1>2, MadeBuffer
  <1>. QED
    BY <1>1, <1>3

\* Growing a buffer makes the room that is asked for.
LEMMA GrowsBy ==
    ASSUME NEW b, Rewound(b), NEW n \in Nat, n >= 1
    PROVE  /\ Rewound(Resize(b, b.cap + n)) /\ Resize(b, b.cap + n).bytes = b.bytes
           /\ SpaceSize(Resize(b, b.cap + n)) >= n
  <1>1. b.cap \in Nat /\ SpaceSize(b) \in Nat
    BY SizesAre
  <1>. DEFINE m == b.cap + n
  <1>2. m \in Nat /\ m >= 1 /\ m >= b.cap /\ m - b.cap = n
    BY <1>1
  <1>. HIDE DEF m
  <1>3. /\ Rewound(Resize(b, m)) /\ Resize(b, m).bytes = b.bytes
        /\ SpaceSize(Resize(b, m)) = SpaceSize(b) + (m - b.cap)
    BY <1>2, ResizeIs
  <1>4. SpaceSize(Resize(b, m)) >= n
    BY <1>1, <1>2, <1>3
  <1>. QED
    BY <1>3, <1>4 DEF m

-----------------------------------------------------------------------------
\* The inductive invariant.  Where on_read is decides which packet the receive buffer
\* starts with; a closed connection has nothing in its buffers and has told so once.
Buffers == Rewound(rbuf) /\ Rewound(sbuf)

Output ==
    open => /\ Len(wire) <= accepted
            /\ wire = UpTo(0, Len(wire))
            /\ sbuf.bytes = UpTo(Len(wire), accepted)

Done == IF pc = "process" THEN delivered - 1 ELSE delivered

Input ==
    /\ pc = "process" => taking >= 1 /\ (skipped \/ delivered >= 1)
    /\ open => /\ Taken >= 0 /\ rbuf.bytes = UpTo(Taken, received)
               /\ skipped \/ Taken = Ends(Done)
    /\ open /\ pc = "process" => /\ Taken + taking <= received
                                 /\ skipped \/ Taken + taking = Ends(delivered)

Room == open /\ pc \in {"idle", "recv"} => SpaceSize(rbuf) > 0

Once ==
    /\ open => events = 0
    /\ ~open => /\ events = 1 /\ rbuf.bytes = << >> /\ sbuf.bytes = << >>
                /\ pc # "recv" /\ (pc # "idle" => ~readall)

IInv == TypeOK /\ Buffers /\ Output /\ Input /\ WatchesWrites /\ Room /\ Once

LEMMA TypesAre ==
    ASSUME TypeOK
    PROVE  /\ arrived \in Nat /\ received \in Nat /\ received <= arrived
           /\ delivered \in Nat /\ accepted \in Nat /\ events \in Nat
           /\ taking \in Nat /\ Len(stream) \in Nat /\ Len(wire) \in Nat
  <1>1. stream \in Seq(Nat \ {0}) /\ wire \in Seq(Nat)
    BY StreamAssumption DEF TypeOK
  <1>2. Len(stream) \in Nat /\ Len(wire) \in Nat
    BY <1>1
  <1>3. Total \in Nat
    <2>1. CASE Len(stream) = 0
      BY <2>1 DEF Total, Ends
    <2>2. CASE Len(stream) # 0
      <3>1. Len(stream) \in 1 .. Len(stream)
        BY <1>2, <2>2
      <3>2. stream[Len(stream)] \in Nat
        BY <1>1, <3>1
      <3>. QED
        BY <2>2, <3>2 DEF Total, Ends
    <2>. QED
      BY <2>1, <2>2
  <1>4. arrived \in Nat
    BY <1>3 DEF TypeOK
  <1>5. received \in Nat /\ received <= arrived
    BY <1>4 DEF TypeOK
  <1>6. delivered \in Nat
    BY <1>2 DEF TypeOK
  <1>7. accepted \in Nat /\ events \in Nat /\ taking \in Nat
    BY HandlerAssumption DEF TypeOK
  <1>. QED
    BY <1>2, <1>4, <1>5, <1>6, <1>7

LEMMA EndsRise ==
    ASSUME stream \in Streams
    PROVE  /\ \A n \in 0 .. Len(stream) : Ends(n) \in Nat
           /\ \A i, j \in 0 .. Len(stream) : i < j => Ends(i) < Ends(j)
  <1>1. stream \in Seq(Nat \ {0}) /\ Len(stream) \in Nat
    BY StreamAssumption
  <1>2. \A n \in 1 .. Len(stream) : Ends(n) = stream[n] /\ stream[n] \in Nat /\ stream[n] > 0
    BY <1>1 DEF Ends
  <1>3. Ends(0) = 0
    BY DEF Ends
  <1>4. \A n \in 0 .. Len(stream) : Ends(n) \in Nat
    <2>1. \A n \in 0 .. Len(stream) : n = 0 \/ n \in 1 .. Len(stream)
      BY <1>1
    <2>. QED
      BY <1>2, <1>3, <2>1
  <1>5. ASSUME NEW i \in 0 .. Len(stream), NEW j \in 0 .. Len(stream), i < j
        PROVE  Ends(i) < Ends(j)
    <2>1. j \in 1 .. Len(stream)
      BY <1>1, <1>5
    <2>2. CASE i = 0
      BY <1>2, <1>3, <2>1, <2>2
    <2>3. CASE i # 0
      <3>1. i \in 1 .. Len(stream)
        BY <1>1, <2>3
      <3>2. i \in DOMAIN stream /\ j \in DOMAIN stream
        BY <1>1, <2>1, <3>1
      <3>3. stream[i] < stream[j]
        BY <1>5, <3>2, StreamAssumption
      <3>. QED
        BY <1>2, <2>1, <3>1, <3>3
    <2>. QED
      BY <2>2, <2>3
  <1>. QED
    BY <1>4, <1>5

-----------------------------------------------------------------------------
\* Steps by what they change.
LEMMA CloseKeeps ==
    ASSUME IInv, open, HandleError, accepted' \in Nat,
           UNCHANGED <<received, policyVars, delivered, wire, peerVars>>,
           taking' = taking \/ (taking' = 0 /\ pc' = "idle"),
           pc' = "idle" \/ (pc' = "process" /\ pc = "process" /\ ~readall)
    PROVE  IInv'
  <1>1. TypeOK /\ Buffers
    BY DEF IInv
  <1>2. /\ open' = FALSE /\ interest' = {} /\ events' = 1
        /\ rbuf' = Clear(rbuf) /\ sbuf' = Clear(sbuf)
    BY DEF HandleError, Shut, IInv, Once
  <1>3. /\ Rewound(rbuf') /\ rbuf'.bytes = << >>
        /\ Rewound(sbuf') /\ sbuf'.bytes = << >>
    BY <1>1, <1>2, ClearIs DEF Buffers
  <1>4. Buffers'
    BY <1>3 DEF Buffers, Rewound, IsBuffer, SpaceSize
  <1>5. /\ Total' = Total /\ taking' \in 0 .. MaxPacket
        /\ UNCHANGED <<readall, stream, request, arrived, link, policy, skipped>>
    <2>1. UNCHANGED <<readall, stream, request, arrived, link, policy, skipped>>
      BY DEF peerVars, policyVars
    <2>2. taking \in 0 .. MaxPacket /\ 0 \in 0 .. MaxPacket
      BY <1>1, HandlerAssumption DEF TypeOK
    <2>. QED
      BY <2>1, <2>2 DEF Total, Ends
  <1>6. TypeOK'
    <2>1. IsBuffer(rbuf)' /\ IsBuffer(sbuf)'
      BY <1>4 DEF Buffers, Rewound
    <2>2. pc' \in {"idle", "recv", "parse", "process"}
      OBVIOUS
    <2>3. events' \in Nat
      BY <1>2
    <2>. QED
      BY <1>1, <1>2, <1>5, <2>1, <2>2, <2>3 DEF TypeOK
  <1>7. Output' /\ WatchesWrites' /\ Room'
    BY <1>2 DEF Output, WatchesWrites, Room
  <1>8. Input'
    BY <1>2, <1>5 DEF Input, IInv
  <1>9. Once'
    BY <1>2, <1>3, <1>5 DEF Once
  <1>. QED
    BY <1>4, <1>6, <1>7, <1>8, <1>9 DEF IInv

LEMMA InputStays ==
    ASSUME Input,
           UNCHANGED <<open, pc, rbuf, received, stream, taking, policy, skipped, delivered>>
    PROVE  Input'
  <1>1. /\ Ends(Done)' = Ends(Done) /\ Ends(delivered)' = Ends(delivered)
        /\ Taken' = Taken /\ UpTo(Taken, received)' = UpTo(Taken, received)
    BY DEF Ends, Done, Taken, UpTo, DataSize
  <1>. QED
    BY <1>1 DEF Input

LEMMA SendSideKeeps ==
    ASSUME IInv, open,
           UNCHANGED <<open, events, pc, rbuf, received, packetVars, peerVars>>,
           accepted' \in Nat, wire' \in Seq(Nat),
           interest' \subseteq {"READ", "WRITE"}, Rewound(sbuf'), Output', WatchesWrites'
    PROVE  IInv'
  <1>1. TypeOK /\ Buffers
    BY DEF IInv
  <1>2. Buffers'
    BY <1>1 DEF Buffers, Rewound, IsBuffer, SpaceSize
  <1>3. UNCHANGED <<readall, stream, request, arrived, link, taking, policy, skipped, delivered>>
    BY DEF peerVars, packetVars, policyVars
  <1>4. TypeOK'
    <2>1. IsBuffer(rbuf)' /\ IsBuffer(sbuf)'
      BY <1>2 DEF Buffers, Rewound
    <2>2. Total' = Total
      BY <1>3 DEF Total, Ends
    <2>. QED
      BY <1>1, <1>3, <2>1, <2>2 DEF TypeOK
  <1>5. Input'
    BY <1>3, InputStays DEF IInv
  <1>6. Room' /\ Once'
    BY <1>3 DEF IInv, Room, Once, SpaceSize
  <1>. QED
    BY <1>2, <1>4, <1>5, <1>6 DEF IInv

LEMMA ReadSideKeeps ==
    ASSUME IInv, UNCHANGED <<open, interest, events, peerVars, sbuf, accepted, wire>>,
           pc' \in {"idle", "recv", "parse", "process"},
           received' \in received .. arrived, delivered' \in 0 .. Len(stream),
           taking' \in 0 .. MaxPacket, policy' \in {0, 2}, skipped' \in BOOLEAN,
           Rewound(rbuf'), Input', Room',
           ~open => rbuf'.bytes = << >> /\ pc' # "recv" /\ (pc' # "idle" => ~readall)
    PROVE  IInv'
  <1>1. TypeOK /\ Buffers
    BY DEF IInv
  <1>2. Buffers'
    BY <1>1 DEF Buffers, Rewound, IsBuffer, SpaceSize
  <1>3. Total' = Total /\ UNCHANGED <<readall, stream, request, arrived, link>>
    BY DEF Total, Ends, peerVars
  <1>4. TypeOK'
    <2>1. IsBuffer(rbuf)' /\ IsBuffer(sbuf)'
      BY <1>2 DEF Buffers, Rewound
    <2>2. received' \in 0 .. arrived'
      BY <1>1, <1>3, TypesAre
    <2>. QED
      BY <1>1, <1>3, <2>1, <2>2 DEF TypeOK
  <1>5. Output' /\ WatchesWrites'
    BY DEF IInv, Output, WatchesWrites, UpTo, DataSize
  <1>6. Once'
    BY <1>3 DEF IInv, Once
  <1>. QED
    BY <1>2, <1>4, <1>5, <1>6 DEF IInv

-----------------------------------------------------------------------------
\* The application, the peer and the reactor outside on_read.
LEMMA ConnectKeeps == ASSUME IInv, Connect PROVE IInv'
  <1>1. TypeOK /\ Buffers /\ ~open /\ pc = "idle" /\ rbuf.bytes = << >> /\ sbuf.bytes = << >>
    BY DEF IInv, Connect, Once
  <1>2. /\ open' = TRUE /\ interest' = {"READ"} /\ events' = 0 /\ pc' = "idle"
        /\ rbuf' = Resize(rbuf, BufSize) /\ sbuf' = Resize(sbuf, BufSize)
        /\ arrived' = 0 /\ received' = 0 /\ link' = "up"
        /\ taking' = taking /\ policy' = 0 /\ skipped' = FALSE
        /\ delivered' = 0 /\ accepted' = 0 /\ wire' = << >>
    BY <1>1 DEF Connect
  <1>3. /\ readall' \in BOOLEAN /\ stream' \in Streams /\ request' \in 0 .. Len(stream')
        /\ taking' \in 0 .. MaxPacket
    <2>1. readall' \in BOOLEAN /\ stream' \in Streams /\ request' \in Requests
      BY DEF Connect
    <2>2. request' = 0 \/ request' <= Len(stream')
      BY DEF Connect, MayRequest
    <2>3. Len(stream') \in Nat /\ request' \in Nat
      BY <2>1, StreamAssumption
    <2>4. taking' \in 0 .. MaxPacket
      BY <1>1, <1>2 DEF TypeOK
    <2>. QED
      BY <2>1, <2>2, <2>3, <2>4
  <1>4. BufSize \in Nat /\ BufSize >= 1
    BY HandlerAssumption
  <1>5. /\ Rewound(rbuf') /\ rbuf'.bytes = << >>
        /\ Rewound(sbuf') /\ sbuf'.bytes = << >>
    BY <1>1, <1>2, <1>4, ResizeIs DEF Buffers
  <1>6. Buffers'
    BY <1>5 DEF Buffers, Rewound, IsBuffer, SpaceSize
  <1>7. TypeOK'
    <2>1. IsBuffer(rbuf)' /\ IsBuffer(sbuf)'
      BY <1>6 DEF Buffers, Rewound
    <2>2. Len(stream') \in Nat
      BY <1>3, StreamAssumption
    <2>3. Total' \in Nat
      <3>1. stream' \in Seq(Nat \ {0})
        BY <1>3, StreamAssumption
      <3>2. CASE Len(stream') = 0
        BY <3>2 DEF Total, Ends
      <3>3. CASE Len(stream') # 0
        <4>1. Len(stream') \in 1 .. Len(stream')
          BY <2>2, <3>3
        <4>2. stream'[Len(stream')] \in Nat
          BY <3>1, <4>1
        <4>. QED
          BY <3>3, <4>2 DEF Total, Ends
      <3>. QED
        BY <3>2, <3>3
    <2>4. /\ arrived' \in 0 .. Total' /\ received' \in 0 .. arrived'
          /\ delivered' \in 0 .. Len(stream')
      BY <1>2, <2>2, <2>3
    <2>5. accepted' \in Nat /\ wire' \in Seq(Nat) /\ events' \in Nat
      BY <1>2, HandlerAssumption
    <2>6. /\ open' \in BOOLEAN /\ interest' \subseteq {"READ", "WRITE"}
          /\ pc' \in {"idle", "recv", "parse", "process"} /\ link' \in {"up", "closed", "reset"}
          /\ policy' \in {0, 2} /\ skipped' \in BOOLEAN
      BY <1>2
    <2>. QED
      BY <1>3, <2>1, <2>4, <2>5, <2>6 DEF TypeOK
  <1>8. UpTo(0, 0) = << >>
    BY RunEmpty
  <1>9. Output'
    <2>1. Len(wire') = 0
      BY <1>2
    <2>2. Len(wire') <= accepted'
      BY <1>2, <2>1
    <2>. QED
      BY <1>2, <1>5, <1>8, <2>1, <2>2 DEF Output, UpTo
  <1>10. Input'
    <2>1. Done' = 0 /\ Ends(Done)' = 0
      BY <1>2 DEF Done, Ends
    <2>2. Taken' = 0
      <3>1. Len(rbuf'.bytes) = 0 /\ Taken' = received' - Len(rbuf'.bytes)
        BY <1>5 DEF Taken, DataSize
      <3>. QED
        BY <1>2, <3>1
    <2>3. UpTo(Taken, received)' = << >>
      BY <1>2, <1>8, <2>2 DEF UpTo
    <2>. QED
      BY <1>2, <1>5, <2>1, <2>2, <2>3 DEF Input
  <1>11. WatchesWrites'
    <2>1. DataSize(sbuf)' = 0
      BY <1>5 DEF DataSize
    <2>. QED
      BY <1>2, <2>1 DEF WatchesWrites
  <1>12. Room'
    <2>1. DataSize(rbuf') = 0
      BY <1>5 DEF DataSize
    <2>2. SpaceSize(rbuf') = rbuf'.cap /\ rbuf'.cap \in Nat /\ rbuf'.cap >= 1
      BY <1>5, <2>1, SizesAre
    <2>3. SpaceSize(rbuf') > 0
      BY <2>2
    <2>. QED
      BY <2>3 DEF Room, SpaceSize
  <1>13. Once'
    BY <1>2 DEF Once
  <1>. QED
    BY <1>6, <1>7, <1>9, <1>10, <1>11, <1>12, <1>13 DEF IInv

LEMMA PeerKeeps ==
    ASSUME IInv, arrived' \in received .. Total, link' \in {"up", "closed", "reset"},
           arrived' \in 0 .. Total,
           UNCHANGED <<open, interest, events, readall, stream, request, recvVars, sendVars>>
    PROVE  IInv'
  <1>1. TypeOK /\ Buffers
    BY DEF IInv
  <1>2. UNCHANGED <<rbuf, pc, received, taking, policy, skipped, delivered, sbuf, accepted, wire>>
    BY DEF recvVars, packetVars, policyVars, sendVars
  <1>3. Buffers'
    BY <1>1, <1>2 DEF Buffers, Rewound, IsBuffer, SpaceSize
  <1>4. Total' = Total
    BY <1>2 DEF Total, Ends
  <1>5. TypeOK'
    <2>1. IsBuffer(rbuf)' /\ IsBuffer(sbuf)'
      BY <1>3 DEF Buffers, Rewound
    <2>2. received' \in 0 .. arrived'
      BY <1>1, <1>2, TypesAre
    <2>. QED
      BY <1>1, <1>2, <1>4, <2>1, <2>2 DEF TypeOK
  <1>6. Input'
    BY <1>2, InputStays DEF IInv
  <1>7. Output' /\ WatchesWrites' /\ Room' /\ Once'
    BY <1>2 DEF IInv, Output, WatchesWrites, Room, Once, SpaceSize, DataSize, UpTo
  <1>. QED
    BY <1>3, <1>5, <1>6, <1>7 DEF IInv

LEMMA PeerSendsKeeps == ASSUME IInv, PeerSends PROVE IInv'
  <1>1. TypeOK
    BY DEF IInv
  <1>2. /\ arrived \in Nat /\ received \in Nat /\ received <= arrived /\ Total \in Nat
    <2>1. Len(stream) \in 0 .. Len(stream) /\ stream \in Streams
      BY <1>1, TypesAre DEF TypeOK
    <2>. QED
      BY <1>1, <2>1, TypesAre, EndsRise DEF Total
  <1>3. PICK k \in 1 .. Total - arrived : arrived' = arrived + k
    BY DEF PeerSends
  <1>4. arrived' \in received .. Total /\ arrived' \in 0 .. Total
    BY <1>2, <1>3
  <1>5. /\ link' = link
        /\ UNCHANGED <<open, interest, events, readall, stream, request, recvVars, sendVars>>
    BY DEF PeerSends
  <1>6. link' \in {"up", "closed", "reset"}
    BY <1>1, <1>5 DEF TypeOK
  <1>. QED
    BY <1>4, <1>5, <1>6, PeerKeeps

LEMMA PeerClosesKeeps == ASSUME IInv, PeerCloses PROVE IInv'
  <1>1. TypeOK
    BY DEF IInv
  <1>2. /\ arrived \in Nat /\ received \in Nat /\ received <= arrived /\ Total \in Nat
    <2>1. Len(stream) \in 0 .. Len(stream) /\ stream \in Streams
      BY <1>1, TypesAre DEF TypeOK
    <2>. QED
      BY <1>1, <2>1, TypesAre, EndsRise DEF Total
  <1>3. /\ arrived' = arrived /\ link' \in {"up", "closed", "reset"}
        /\ UNCHANGED <<open, interest, events, readall, stream, request, recvVars, sendVars>>
    BY DEF PeerCloses
  <1>4. arrived' \in received .. Total /\ arrived' \in 0 .. Total
    BY <1>1, <1>2, <1>3 DEF TypeOK
  <1>. QED
    BY <1>3, <1>4, PeerKeeps

LEMMA OutsideCloseKeeps ==
    ASSUME IInv, open, HandleError, pc = "idle",
           UNCHANGED <<pc, received, packetVars, accepted, wire, peerVars>>
    PROVE  IInv'
  <1>1. /\ UNCHANGED <<received, policyVars, delivered, wire, peerVars>>
        /\ taking' = taking /\ accepted' = accepted /\ pc' = "idle"
    BY DEF packetVars
  <1>2. accepted' \in Nat
    BY <1>1 DEF IInv, TypeOK
  <1>. QED
    BY <1>1, <1>2, CloseKeeps

-----------------------------------------------------------------------------
\* Output.
LEMMA WatchIsRight ==
    ASSUME Rewound(sbuf'), interest' = Watch(sbuf')
    PROVE  interest' \subseteq {"READ", "WRITE"} /\ WatchesWrites'
  <1>1. DataSize(sbuf') \in Nat
    BY SizesAre
  <1>2. CASE DataSize(sbuf') = 0
    <2>1. interest' = {"READ"}
      BY <1>2 DEF Watch
    <2>. QED
      BY <1>2, <2>1 DEF WatchesWrites, DataSize
  <1>3. CASE DataSize(sbuf') # 0
    <2>1. interest' = {"READ", "WRITE"}
      BY <1>3 DEF Watch
    <2>2. DataSize(sbuf') > 0
      BY <1>1, <1>3
    <2>. QED
      BY <2>1, <2>2 DEF WatchesWrites, DataSize
  <1>. QED
    BY <1>2, <1>3

\* A write of the first n bytes of what is queued.
LEMMA WritePart ==
    ASSUME NEW b, Rewound(b), NEW w \in Nat, NEW a \in Nat, w <= a,
           wire = UpTo(0, w), b.bytes = UpTo(w, a), NEW n \in 0 .. DataSize(b),
           wire' = wire \o SubSeq(b.bytes, 1, n),
           sbuf' = IF n = 0 THEN b ELSE Adjust(PopData(b, n))
    PROVE  /\ w + n \in Nat /\ w + n <= a
           /\ wire' = UpTo(0, w + n) /\ sbuf'.bytes = UpTo(w + n, a)
           /\ Rewound(sbuf')
  <1>1. DataSize(b) = a - w
    BY RunIsSeq DEF DataSize
  <1>2. n \in 0 .. a - w /\ n \in Nat /\ w + n \in Nat /\ w + n <= a /\ w <= w + n
    BY <1>1
  <1>3. /\ SubSeq(UpTo(w, a), 1, n) = UpTo(w, w + n)
        /\ SubSeq(UpTo(w, a), n + 1, a - w) = UpTo(w + n, a)
    BY <1>2, RunPart
  <1>4. /\ SubSeq(b.bytes, 1, n) = UpTo(w, w + n)
        /\ SubSeq(b.bytes, n + 1, DataSize(b)) = UpTo(w + n, a)
    BY <1>1, <1>3
  <1>5. wire' = UpTo(0, w + n)
    <2>1. 0 \in Nat /\ 0 <= w
      OBVIOUS
    <2>2. UpTo(0, w) \o UpTo(w, w + n) = UpTo(0, w + n)
      BY <1>2, <2>1, RunJoin
    <2>. QED
      BY <1>4, <2>2
  <1>6. sbuf'.bytes = UpTo(w + n, a) /\ Rewound(sbuf')
    <2>1. CASE n = 0
      <3>1. sbuf' = b /\ w + n = w
        BY <2>1
      <3>. QED
        BY <3>1
    <2>2. CASE n # 0
      <3>1. 1 <= n /\ n <= DataSize(b)
        BY <1>1, <1>2, <2>2
      <3>2. Rewound(PopData(b, n)) /\ PopData(b, n).bytes = UpTo(w + n, a)
        BY <1>2, <1>4, <3>1, PopIs
      <3>3. sbuf' = Adjust(PopData(b, n))
        BY <2>2
      <3>. QED
        BY <3>2, <3>3, AdjustIs
    <2>. QED
      BY <2>1, <2>2
  <1>. QED
    BY <1>2, <1>5, <1>6

\* What Output says of a state whose wire holds w bytes.
LEMMA OutputAt ==
    ASSUME NEW w \in Nat, w <= accepted', accepted' \in Nat,
           wire' = UpTo(0, w), sbuf'.bytes = UpTo(w, accepted')
    PROVE  wire' \in Seq(Nat) /\ Output'
  <1>1. UpTo(0, w) \in Seq(Nat) /\ Len(UpTo(0, w)) = w - 0
    BY RunIsSeq
  <1>2. Len(wire') = w
    BY <1>1
  <1>. QED
    BY <1>1, <1>2 DEF Output, UpTo

LEMMA WriteKeeps ==
    ASSUME IInv, open, NEW b, Rewound(b), accepted' \in Nat,
           Len(wire) <= accepted', b.bytes = UpTo(Len(wire), accepted'),
           pc = "idle" \/ (pc = "process" /\ ~readall), WriteFrom(b),
           UNCHANGED <<pc, received, packetVars, peerVars>>
    PROVE  IInv'
  <1>1. TypeOK /\ wire = UpTo(0, Len(wire))
    BY DEF IInv, Output
  <1>2. Len(wire) \in Nat /\ accepted' \in Nat
    BY <1>1, TypesAre, HandlerAssumption
  <1>3. CASE HandleError /\ UNCHANGED wire
    BY <1>3, CloseKeeps DEF packetVars
  <1>4. ASSUME NEW n \in 0 .. DataSize(b),
               wire' = wire \o SubSeq(b.bytes, 1, n),
               sbuf' = IF n = 0 THEN b ELSE Adjust(PopData(b, n)),
               interest' = Watch(sbuf'), UNCHANGED <<open, events, rbuf>>
        PROVE  IInv'
    <2>1. /\ Len(wire) + n \in Nat /\ Len(wire) + n <= accepted'
          /\ wire' = UpTo(0, Len(wire) + n) /\ sbuf'.bytes = UpTo(Len(wire) + n, accepted')
          /\ Rewound(sbuf')
      BY <1>1, <1>2, <1>4, WritePart
    <2>2. wire' \in Seq(Nat) /\ Output'
      BY <1>2, <2>1, OutputAt
    <2>3. interest' \subseteq {"READ", "WRITE"} /\ WatchesWrites'
      BY <1>4, <2>1, WatchIsRight
    <2>. QED
      BY <1>4, <2>1, <2>2, <2>3, SendSideKeeps
  <1>5. (HandleError /\ UNCHANGED wire) \/
        \E n \in 0 .. DataSize(b) :
            /\ wire' = wire \o SubSeq(b.bytes, 1, n)
            /\ sbuf' = IF n = 0 THEN b ELSE Adjust(PopData(b, n))
            /\ interest' = Watch(sbuf') /\ UNCHANGED <<open, events, rbuf>>
    BY DEF WriteFrom
  <1>. QED
    BY <1>3, <1>4, <1>5

LEMMA OnWriteKeeps == ASSUME IInv, OnWrite PROVE IInv'
  <1>1. /\ open /\ pc = "idle" /\ WriteFrom(sbuf) /\ accepted' = accepted
        /\ UNCHANGED <<pc, received, packetVars, peerVars>>
    BY DEF OnWrite, peerVars, packetVars, policyVars
  <1>2. /\ Rewound(sbuf) /\ Len(wire) <= accepted' /\ sbuf.bytes = UpTo(Len(wire), accepted')
        /\ accepted' \in Nat
    BY <1>1 DEF IInv, Buffers, Output, TypeOK
  <1>. QED
    BY <1>1, <1>2, WriteKeeps

LEMMA GrownIs ==
    ASSUME Rewound(sbuf), NEW size \in Nat, size >= 1
    PROVE  /\ Rewound(Grown(size)) /\ Grown(size).bytes = sbuf.bytes
           /\ SpaceSize(Grown(size)) >= size
  <1>1. SpaceSize(sbuf) \in Nat
    BY SizesAre
  <1>2. CASE SpaceSize(sbuf) < size
    BY <1>2, GrowsBy DEF Grown
  <1>3. CASE ~(SpaceSize(sbuf) < size)
    BY <1>1, <1>3 DEF Grown
  <1>. QED
    BY <1>2, <1>3

LEMMA MessageIsRun ==
    ASSUME accepted \in Nat, NEW size \in Nat
    PROVE  Message(size) = UpTo(accepted, accepted + size)
  <1>1. (accepted + size) - accepted = size
    OBVIOUS
  <1>. QED
    BY <1>1 DEF Message, UpTo

\* The queue after the last size - n bytes of a message were put behind it,
\* for which there is room.
LEMMA QueueIs ==
    ASSUME IInv, open, NEW size \in Nat, size >= 1, NEW n \in 0 .. size,
           NEW room \in Nat, room >= 1, room >= size - n
    PROVE  LET q == PushData(Grown(room), SubSeq(Message(size), n + 1, size))
           IN  /\ Rewound(q)
               /\ q.bytes = sbuf.bytes \o UpTo(accepted + n, accepted + size)
  <1>. DEFINE m == SubSeq(Message(size), n + 1, size)
  <1>1. accepted \in Nat /\ Rewound(sbuf)
    BY TypesAre DEF IInv, Buffers
  <1>2. m = UpTo(accepted + n, accepted + size)
    <2>1. /\ accepted + size \in Nat /\ accepted <= accepted + size
          /\ (accepted + size) - accepted = size
      BY <1>1
    <2>2. SubSeq(UpTo(accepted, accepted + size), n + 1, (accepted + size) - accepted)
            = UpTo(accepted + n, accepted + size)
      BY <1>1, <2>1, RunPart
    <2>. QED
      BY <1>1, <2>1, <2>2, MessageIsRun
  <1>3. m \in Seq(Nat) /\ Len(m) = size - n
    <2>1. /\ accepted + n \in Nat /\ accepted + size \in Nat /\ accepted + n <= accepted + size
          /\ (accepted + size) - (accepted + n) = size - n
      BY <1>1
    <2>. QED
      BY <1>2, <2>1, RunIsSeq
  <1>. HIDE DEF m
  <1>4. /\ Rewound(Grown(room)) /\ Grown(room).bytes = sbuf.bytes
        /\ SpaceSize(Grown(room)) >= room
    BY <1>1, GrownIs
  <1>5. Len(m) <= SpaceSize(Grown(room))
    <2>1. SpaceSize(Grown(room)) \in Nat
      BY <1>4, SizesAre
    <2>. QED
      BY <1>3, <1>4, <2>1
  <1>6. /\ Rewound(PushData(Grown(room), m))
        /\ PushData(Grown(room), m).bytes = Grown(room).bytes \o m
    BY <1>3, <1>4, <1>5, PushIs
  <1>. QED
    BY <1>2, <1>4, <1>6 DEF m

\* The send that wrote n bytes directly, or none behind a queue, and queued the others.
LEMMA DirectOrQueuedIs ==
    ASSUME IInv, open, NEW size \in Nat, size >= 1, NEW n \in 0 .. size,
           DataSize(sbuf) = 0 \/ n = 0,
           wire' = wire \o SubSeq(Message(size), 1, n),
           sbuf' = PushData(Grown(size), SubSeq(Message(size), n + 1, size)),
           accepted' = accepted + size
    PROVE  /\ Rewound(sbuf') /\ wire' \in Seq(Nat) /\ Output'
           /\ DataSize(sbuf') = 0 <=> n = size
           /\ DataSize(sbuf') = 0 => DataSize(sbuf) = 0
  <1>. DEFINE w == Len(wire)   w1 == IF DataSize(sbuf) = 0 THEN accepted + n ELSE w
  <1>1. /\ accepted \in Nat /\ w \in Nat /\ w <= accepted
        /\ wire = UpTo(0, w) /\ sbuf.bytes = UpTo(w, accepted)
    BY TypesAre DEF IInv, Output
  <1>. HIDE DEF w
  <1>2. DataSize(sbuf) = accepted - w
    BY <1>1, RunIsSeq DEF DataSize
  <1>3. /\ Rewound(sbuf')
        /\ sbuf'.bytes = sbuf.bytes \o UpTo(accepted + n, accepted + size)
    <2>1. size >= size - n
      BY <1>1
    <2>. QED
      BY <2>1, QueueIs
  <1>4. SubSeq(Message(size), 1, n) = UpTo(accepted, accepted + n)
    <2>1. /\ accepted + size \in Nat /\ accepted <= accepted + size
          /\ n \in 0 .. (accepted + size) - accepted
      BY <1>1
    <2>2. SubSeq(UpTo(accepted, accepted + size), 1, n) = UpTo(accepted, accepted + n)
      BY <1>1, <2>1, RunPart
    <2>. QED
      BY <1>1, <2>2, MessageIsRun
  <1>5. w1 \in Nat /\ w1 <= accepted'
    BY <1>1
  <1>6. wire' = UpTo(0, w1)
    <2>1. CASE DataSize(sbuf) = 0
      <3>1. w = accepted /\ w1 = accepted + n /\ accepted + n \in Nat /\ accepted <= accepted + n
        BY <1>1, <1>2, <2>1
      <3>2. 0 \in Nat /\ 0 <= accepted
        BY <1>1
      <3>3. UpTo(0, accepted) \o UpTo(accepted, accepted + n) = UpTo(0, accepted + n)
        BY <1>1, <3>1, <3>2, RunJoin
      <3>. QED
        BY <1>1, <1>4, <3>1, <3>3
    <2>2. CASE DataSize(sbuf) # 0
      <3>1. n = 0 /\ accepted + n = accepted /\ w1 = w
        BY <1>1, <2>2
      <3>2. SubSeq(Message(size), 1, n) = << >>
        BY <1>1, <1>4, <3>1, RunEmpty
      <3>3. wire \o << >> = wire
        <4>1. wire \in Seq(Nat)
          BY DEF IInv, TypeOK
        <4>. QED
          BY <4>1, ConcatEmptySeq
      <3>. QED
        BY <1>1, <3>1, <3>2, <3>3
    <2>. QED
      BY <2>1, <2>2
  <1>7. sbuf'.bytes = UpTo(w1, accepted')
    <2>1. /\ accepted + n \in Nat /\ accepted + size \in Nat /\ accepted + n <= accepted + size
          /\ accepted <= accepted + size
      BY <1>1
    <2>2. CASE DataSize(sbuf) = 0
      <3>1. sbuf.bytes = << >>
        <4>1. Rewound(sbuf)
          BY DEF IInv, Buffers
        <4>. QED
          BY <2>2, <4>1, SizesAre
      <3>2. UpTo(accepted + n, accepted + size) \in Seq(Nat)
        BY <2>1, RunIsSeq
      <3>3. << >> \o UpTo(accepted + n, accepted + size) = UpTo(accepted + n, accepted + size)
        BY <3>2, ConcatEmptySeq
      <3>. QED
        BY <1>3, <2>2, <3>1, <3>3
    <2>3. CASE DataSize(sbuf) # 0
      <3>1. n = 0 /\ accepted + n = accepted
        BY <1>1, <2>3
      <3>2. UpTo(w, accepted) \o UpTo(accepted, accepted + size) = UpTo(w, accepted + size)
        BY <1>1, <2>1, RunJoin
      <3>. QED
        BY <1>1, <1>3, <2>3, <3>1, <3>2
    <2>. QED
      BY <2>2, <2>3
  <1>8. accepted' \in Nat
    BY <1>1
  <1>9. DataSize(sbuf') = accepted' - w1
    BY <1>5, <1>7, <1>8, RunIsSeq DEF DataSize
  <1>10. DataSize(sbuf') = 0 <=> n = size
    <2>1. CASE DataSize(sbuf) = 0
      BY <1>1, <1>9, <2>1
    <2>2. CASE DataSize(sbuf) # 0
      BY <1>1, <1>2, <1>9, <2>2
    <2>. QED
      BY <2>1, <2>2
  <1>11. DataSize(sbuf') = 0 => DataSize(sbuf) = 0
    BY <1>1, <1>2, <1>9
  <1>. HIDE DEF w1
  <1>12. wire' \in Seq(Nat) /\ Output'
    BY <1>5, <1>6, <1>7, <1>8, OutputAt
  <1>. QED
    BY <1>3, <1>10, <1>11, <1>12

LEMMA DirectSendIs ==
    ASSUME IInv, open, UNCHANGED open, NEW size \in Nat, size >= 1, NEW delay \in BOOLEAN,
           DirectOrQueued(size, delay)
    PROVE  /\ accepted' \in Nat /\ wire' \in Seq(Nat) /\ interest' \subseteq {"READ", "WRITE"}
           /\ Rewound(sbuf') /\ Output' /\ WatchesWrites'
  <1>. DEFINE direct == DataSize(sbuf) = 0 /\ ~delay
  <1>2. accepted \in Nat /\ wire \in Seq(Nat)
        /\ Rewound(sbuf) /\ interest \subseteq {"READ", "WRITE"}
    BY TypesAre DEF IInv, TypeOK, Buffers
  <1>3. CASE direct /\ link = "reset"
    <2>1. sbuf' = Grown(size) /\ UNCHANGED <<interest, accepted, wire>>
      BY <1>3 DEF DirectOrQueued
    <2>2. Rewound(sbuf') /\ sbuf'.bytes = sbuf.bytes
      BY <1>2, <2>1, GrownIs
    <2>3. Output' /\ WatchesWrites'
      BY <2>1, <2>2 DEF IInv, Output, WatchesWrites, DataSize, UpTo
    <2>. QED
      BY <1>2, <2>1, <2>2, <2>3
  <1>4. CASE ~(direct /\ link = "reset")
    <2>1. PICK n \in 0 .. (IF direct THEN size ELSE 0) :
            /\ wire' = wire \o SubSeq(Message(size), 1, n)
            /\ sbuf' = PushData(Grown(size), SubSeq(Message(size), n + 1, size))
            /\ interest' = IF n = size THEN interest ELSE {"READ", "WRITE"}
            /\ accepted' = accepted + size
      BY <1>4 DEF DirectOrQueued
    <2>2. n \in 0 .. size /\ (DataSize(sbuf) = 0 \/ n = 0)
      BY <2>1
    <2>3. /\ Rewound(sbuf') /\ wire' \in Seq(Nat) /\ Output'
          /\ DataSize(sbuf') = 0 <=> n = size
          /\ DataSize(sbuf') = 0 => DataSize(sbuf) = 0
      BY <2>1, <2>2, DirectOrQueuedIs
    <2>4. accepted' \in Nat
      BY <1>2, <2>1, HandlerAssumption
    <2>5. interest' \subseteq {"READ", "WRITE"}
      BY <1>2, <2>1
    <2>6. WatchesWrites'
      <3>1. DataSize(sbuf') \in Nat
        BY <2>3, SizesAre
      <3>2. CASE n = size
        <4>1. interest' = interest /\ DataSize(sbuf') = 0 /\ DataSize(sbuf) = 0
          BY <2>1, <2>3, <3>2
        <4>2. "WRITE" \notin interest
          BY <4>1 DEF IInv, WatchesWrites
        <4>. QED
          BY <4>1, <4>2 DEF WatchesWrites, DataSize
      <3>3. CASE n # size
        <4>1. DataSize(sbuf') > 0
          BY <2>3, <3>1, <3>3
        <4>2. "WRITE" \in interest'
          BY <2>1, <3>3
        <4>. QED
          BY <4>1, <4>2 DEF WatchesWrites, DataSize
      <3>. QED
        BY <3>2, <3>3
    <2>. QED
      BY <2>3, <2>4, <2>5, <2>6
  <1>. QED
    BY <1>3, <1>4

LEMMA SendDataKeeps ==
    ASSUME IInv, NEW size \in Nat, size >= 1, NEW delay \in BOOLEAN, SendData(size, delay)
    PROVE  IInv'
  <1>1. /\ open /\ DirectOrQueued(size, delay)
        /\ UNCHANGED <<open, events, pc, rbuf, received, packetVars, peerVars>>
    BY DEF SendData, CanSend, recvVars
  <1>. QED
    BY <1>1, DirectSendIs, SendSideKeeps

LEMMA SendPacketKeeps ==
    ASSUME IInv, NEW size \in Nat, size >= 1, NEW delay \in BOOLEAN,
           SendPacket(size, delay)
    PROVE  IInv'
  <1>. DEFINE queued == PushData(Grown(size), Message(size))
  <1>1. /\ open /\ (pc = "idle" \/ (pc = "process" /\ ~readall))
        /\ accepted' = accepted + size
        /\ UNCHANGED <<pc, received, packetVars, peerVars>>
    BY DEF SendPacket, CanSend, peerVars, packetVars, policyVars
  <1>2. /\ accepted \in Nat /\ Len(wire) \in Nat /\ Len(wire) <= accepted
        /\ wire = UpTo(0, Len(wire)) /\ sbuf.bytes = UpTo(Len(wire), accepted)
        /\ wire \in Seq(Nat)
    BY <1>1, TypesAre DEF IInv, Output, TypeOK
  <1>3. /\ accepted' \in Nat /\ Len(wire) <= accepted'
        /\ accepted <= accepted'
    BY <1>1, <1>2, HandlerAssumption
  <1>4. Rewound(queued) /\ queued.bytes = UpTo(Len(wire), accepted')
    <2>1. SubSeq(Message(size), 0 + 1, size) = Message(size)
      <3>1. /\ accepted + size \in Nat /\ accepted <= accepted + size
            /\ 0 \in 0 .. (accepted + size) - accepted /\ (accepted + size) - accepted = size
            /\ accepted + 0 = accepted
        BY <1>2
      <3>2. SubSeq(UpTo(accepted, accepted + size), 0 + 1, (accepted + size) - accepted)
              = UpTo(accepted + 0, accepted + size)
        BY <1>2, <3>1, RunPart
      <3>. QED
        BY <1>2, <3>1, <3>2, MessageIsRun
    <2>2. 0 \in 0 .. size /\ accepted + 0 = accepted /\ size >= size - 0
      BY <1>2
    <2>3. /\ Rewound(PushData(Grown(size), SubSeq(Message(size), 0 + 1, size)))
          /\ PushData(Grown(size), SubSeq(Message(size), 0 + 1, size)).bytes
               = sbuf.bytes \o UpTo(accepted + 0, accepted + size)
      BY <1>1, <2>2, QueueIs
    <2>4. UpTo(Len(wire), accepted) \o UpTo(accepted, accepted') = UpTo(Len(wire), accepted')
      BY <1>2, <1>3, RunJoin
    <2>. QED
      BY <1>1, <1>2, <2>1, <2>2, <2>3, <2>4
  <1>. HIDE DEF queued
  <1>5. CASE ~delay
    <2>1. WriteFrom(queued)
      BY <1>5 DEF SendPacket, queued
    <2>. QED
      BY <1>1, <1>3, <1>4, <2>1, WriteKeeps
  <1>6. CASE delay
    <2>1. /\ sbuf' = queued /\ interest' = {"READ", "WRITE"}
          /\ UNCHANGED <<open, events, rbuf, wire>>
      BY <1>6 DEF SendPacket, queued
    <2>2. wire' = UpTo(0, Len(wire)) /\ sbuf'.bytes = UpTo(Len(wire), accepted')
      BY <1>2, <1>4, <2>1
    <2>3. wire' \in Seq(Nat) /\ Output'
      BY <1>2, <1>3, <2>2, OutputAt
    <2>4. WatchesWrites'
      <3>1. DataSize(sbuf') = accepted' - Len(wire)
        BY <1>2, <1>3, <2>2, RunIsSeq DEF DataSize
      <3>2. DataSize(sbuf') > 0
        BY <1>1, <1>2, <3>1
      <3>. QED
        BY <2>1, <3>2 DEF WatchesWrites, DataSize
    <2>5. interest' \subseteq {"READ", "WRITE"} /\ Rewound(sbuf')
      BY <1>4, <2>1
    <2>. QED
      BY <1>1, <1>3, <2>1, <2>3, <2>4, <2>5, SendSideKeeps
  <1>. QED
    BY <1>5, <1>6

LEMMA SendKeeps == ASSUME IInv, Send PROVE IInv'
  <1>1. PICK size \in MsgSizes, delay \in BOOLEAN :
          (SendData(size, delay) \/ SendPacket(size, delay))
    BY DEF Send
  <1>2. size \in Nat /\ size >= 1
    BY HandlerAssumption
  <1>. QED
    BY <1>1, <1>2, SendDataKeeps, SendPacketKeeps

-----------------------------------------------------------------------------
\* on_read.
LEMMA TwiceLess == ASSUME NEW a \in Nat, NEW c \in Nat PROVE c - (c - a) = a
  OBVIOUS

\* What Input says of a state outside process_packet whose buffer starts behind byte a.
LEMMA InputAt ==
    ASSUME stream' = stream, pc' # "process", received' \in Nat, NEW d, delivered' = d, NEW a,
           open' => /\ a \in Nat /\ a <= received' /\ rbuf'.bytes = UpTo(a, received')
                    /\ skipped' \/ a = Ends(d)
    PROVE  Input'
  <1>1. Ends(Done)' = Ends(d)
    BY DEF Done, Ends
  <1>2. ASSUME open'
        PROVE  /\ Taken' = a /\ UpTo(Taken, received)' = UpTo(a, received')
    <2>1. a \in Nat /\ a <= received' /\ rbuf'.bytes = UpTo(a, received')
      BY <1>2
    <2>2. Len(rbuf'.bytes) = received' - a
      BY <2>1, RunIsSeq
    <2>3. Taken' = received' - (received' - a)
      BY <2>2 DEF Taken, DataSize
    <2>4. received' - (received' - a) = a
      BY <2>1, TwiceLess
    <2>5. Taken' = a
      BY <2>3, <2>4
    <2>. QED
      BY <2>5 DEF UpTo
  <1>. QED
    BY <1>1, <1>2 DEF Input

\* The receive buffer of an open connection.
LEMMA BufferHolds ==
    ASSUME IInv, open
    PROVE  /\ received \in Nat /\ Taken \in Nat /\ Taken <= received
           /\ DataSize(rbuf) \in Nat /\ DataSize(rbuf) = received - Taken
           /\ rbuf.bytes = UpTo(Taken, received)
  <1>1. received \in Nat /\ Taken >= 0 /\ rbuf.bytes = UpTo(Taken, received)
    BY TypesAre DEF IInv, Input
  <1>2. DataSize(rbuf) \in Nat
    BY SizesAre DEF IInv, Buffers
  <1>. QED
    BY <1>1, <1>2 DEF Taken

\* The receive buffer outside process_packet.
LEMMA BufferStarts ==
    ASSUME IInv, open, pc # "process"
    PROVE  /\ delivered \in 0 .. Len(stream) /\ Ends(delivered) \in Nat /\ received \in Nat
           /\ Taken \in Nat /\ Taken <= received /\ rbuf.bytes = UpTo(Taken, received)
           /\ DataSize(rbuf) = received - Taken
           /\ skipped \/ Taken = Ends(delivered)
  <1>1. TypeOK /\ stream \in Streams /\ delivered \in 0 .. Len(stream)
    BY DEF IInv, TypeOK
  <1>2. Ends(delivered) \in Nat
    BY <1>1, EndsRise
  <1>3. skipped \/ Taken = Ends(delivered)
    BY DEF IInv, Input, Done
  <1>. QED
    BY <1>1, <1>2, <1>3, BufferHolds

\* What a step that leaves packetVars alone needs for ReadSideKeeps.
LEMMA PacketVarsStay ==
    ASSUME IInv, UNCHANGED packetVars
    PROVE  /\ taking' \in 0 .. MaxPacket /\ policy' \in {0, 2} /\ skipped' \in BOOLEAN
           /\ delivered' \in 0 .. Len(stream)
           /\ UNCHANGED <<taking, policy, skipped, delivered>>
BY DEF IInv, TypeOK, packetVars, policyVars

LEMMA OpenWithData == ASSUME IInv, DataSize(rbuf) > 0 PROVE open
BY DEF IInv, Once, DataSize

LEMMA UnreadKeeps ==
    ASSUME IInv, open, pc \in {"idle", "recv"}, pc' \in {"idle", "recv"},
           UNCHANGED <<open, interest, events, rbuf, received, packetVars, peerVars, sendVars>>
    PROVE  IInv'
  <1>1. UNCHANGED <<open, interest, events, peerVars, sbuf, accepted, wire, rbuf, received,
                    packetVars, stream>>
    BY DEF peerVars, sendVars
  <1>2. /\ received' \in Nat /\ Taken \in Nat /\ Taken <= received'
        /\ rbuf'.bytes = UpTo(Taken, received') /\ (skipped \/ Taken = Ends(delivered))
    BY <1>1, BufferStarts
  <1>3. Input'
    BY <1>1, <1>2, PacketVarsStay, InputAt
  <1>4. received' \in received .. arrived
    BY <1>1, <1>2, TypesAre DEF IInv
  <1>5. Rewound(rbuf') /\ Room'
    BY <1>1 DEF IInv, Buffers, Room, SpaceSize
  <1>. QED
    BY <1>1, <1>3, <1>4, <1>5, PacketVarsStay, ReadSideKeeps

LEMMA RecvDataKeeps == ASSUME IInv, RecvData PROVE IInv'
  <1>1. /\ pc = "recv" /\ open /\ pc' = "parse"
        /\ UNCHANGED <<open, interest, events, packetVars, peerVars, sbuf, accepted, wire, stream>>
    BY DEF RecvData, peerVars, sendVars
  <1>2. PICK k \in 1 .. arrived - received :
          /\ k <= SpaceSize(rbuf)
          /\ rbuf' = PushData(rbuf, [i \in 1 .. k |-> received + i])
          /\ received' = received + k
    BY DEF RecvData
  <1>3. arrived \in Nat /\ received \in Nat
    BY TypesAre DEF IInv
  <1>4. k \in Nat /\ received + k \in Nat /\ received <= received + k /\ received + k <= arrived
    BY <1>2, <1>3
  <1>. DEFINE m == UpTo(received, received + k)
  <1>5. [i \in 1 .. k |-> received + i] = m
    <2>1. (received + k) - received = k
      BY <1>3, <1>4
    <2>. QED
      BY <2>1 DEF UpTo
  <1>6. m \in Seq(Nat) /\ Len(m) = k
    <2>1. (received + k) - received = k
      BY <1>3, <1>4
    <2>. QED
      BY <1>3, <1>4, <2>1, RunIsSeq
  <1>. HIDE DEF m
  <1>7. Rewound(rbuf') /\ rbuf'.bytes = rbuf.bytes \o m
    <2>1. Rewound(rbuf) /\ Len(m) <= SpaceSize(rbuf)
      BY <1>2, <1>6 DEF IInv, Buffers
    <2>. QED
      BY <1>2, <1>5, <1>6, <2>1, PushIs
  <1>8. /\ Taken \in Nat /\ Taken <= received /\ rbuf.bytes = UpTo(Taken, received)
        /\ skipped \/ Taken = Ends(delivered)
    BY <1>1, BufferStarts
  <1>9. rbuf'.bytes = UpTo(Taken, received')
    <2>1. UpTo(Taken, received) \o UpTo(received, received + k) = UpTo(Taken, received + k)
      BY <1>3, <1>4, <1>8, RunJoin
    <2>. QED
      BY <1>2, <1>7, <1>8, <2>1 DEF m
  <1>10. Taken <= received' /\ received' \in Nat
    BY <1>2, <1>3, <1>4, <1>8
  <1>11. Input'
    BY <1>1, <1>8, <1>9, <1>10, PacketVarsStay, InputAt
  <1>12. Room'
    BY <1>1 DEF Room
  <1>13. received' \in received .. arrived
    BY <1>2, <1>3, <1>4
  <1>. QED
    BY <1>1, <1>7, <1>11, <1>12, <1>13, PacketVarsStay, ReadSideKeeps

\* A valid size is a number, and a whole packet of a valid size is the packet that is due.
LEMMA SizesArePositive ==
    ASSUME stream \in Streams, NEW n \in 1 .. Len(stream)
    PROVE  SizeOf(n) \in Nat /\ SizeOf(n) >= 1 /\ Ends(n - 1) + SizeOf(n) = Ends(n)
  <1>1. Len(stream) \in Nat
    BY StreamAssumption
  <1>2. n \in 0 .. Len(stream) /\ n - 1 \in 0 .. Len(stream) /\ n - 1 < n
    BY <1>1
  <1>3. Ends(n) \in Nat /\ Ends(n - 1) \in Nat /\ Ends(n - 1) < Ends(n)
    BY <1>2, EndsRise
  <1>. QED
    BY <1>3 DEF SizeOf

\* The size of a header is a number; and where the buffer starts with the packet that is due,
\* one that is valid is the size of this packet.
LEMMA PacketStarts ==
    ASSUME IInv, open, pc = "parse", DataSize(rbuf) > 0, NEW size \in PacketSizes(rbuf)
    PROVE  /\ size \in Nat
           /\ ~skipped /\ ~(DataSize(rbuf) < HeaderSize) /\ ValidSize(size)
                => delivered + 1 \in 1 .. Len(stream) /\ size = SizeOf(delivered + 1)
  <1>. DEFINE first == {n \in 1 .. Len(stream) : StartsWith(rbuf, n)}
  <1>1. /\ delivered \in 0 .. Len(stream) /\ Ends(delivered) \in Nat /\ received \in Nat
        /\ Taken <= received /\ rbuf.bytes = UpTo(Taken, received)
        /\ DataSize(rbuf) = received - Taken /\ Taken \in Nat
        /\ skipped \/ Taken = Ends(delivered)
    BY BufferStarts
  <1>2. /\ stream \in Streams /\ Len(stream) \in Nat /\ received <= Total
    <2>1. /\ stream \in Streams /\ Len(stream) \in Nat /\ received \in Nat /\ arrived \in Nat
          /\ received <= arrived /\ arrived \in 0 .. Total
      BY TypesAre DEF IInv, TypeOK
    <2>2. Total \in Nat
      BY <2>1, EndsRise DEF Total
    <2>. QED
      BY <2>1, <2>2
  <1>3. CASE DataSize(rbuf) < HeaderSize
    BY <1>3, HandlerAssumption DEF PacketSizes
  <1>4. CASE ~(DataSize(rbuf) < HeaderSize) /\ first = {}
    <2>1. size \in Nat
      BY <1>4, HandlerAssumption DEF PacketSizes, HeaderSizes
    <2>2. skipped
      <3>1. SUFFICES ASSUME ~skipped PROVE FALSE
        OBVIOUS
      <3>2. Ends(delivered) < received
        BY <1>1, <3>1
      <3>3. delivered # Len(stream)
        BY <1>1, <1>2, <3>2 DEF Total
      <3>4. delivered + 1 \in 1 .. Len(stream) /\ (delivered + 1) - 1 = delivered
        BY <1>1, <1>2, <3>3
      <3>5. rbuf.bytes[1] = Ends(delivered) + 1
        <4>1. 1 \in 1 .. received - Ends(delivered)
          BY <1>1, <3>2
        <4>. QED
          BY <1>1, <3>1, <4>1, RunIsSeq
      <3>6. StartsWith(rbuf, delivered + 1)
        BY <3>4, <3>5 DEF StartsWith
      <3>. QED
        BY <1>4, <3>4, <3>6
    <2>. QED
      BY <2>1, <2>2
  <1>5. CASE ~(DataSize(rbuf) < HeaderSize) /\ first # {}
    <2>1. PICK n0 \in 1 .. Len(stream) :
            StartsWith(rbuf, n0) /\ size = IF n0 = request THEN 0 ELSE SizeOf(n0)
      BY <1>5 DEF PacketSizes, HeaderSizes
    <2>2. SizeOf(n0) \in Nat
      BY <1>2, SizesArePositive
    <2>3. ASSUME ~skipped, ValidSize(size)
          PROVE  delivered + 1 \in 1 .. Len(stream) /\ size = SizeOf(delivered + 1)
      <3>1. size = SizeOf(n0)
        BY <2>1, <2>3 DEF ValidSize
      <3>2. rbuf.bytes[1] = Ends(delivered) + 1
        <4>1. 1 \in 1 .. received - Ends(delivered)
          BY <1>1, <2>3
        <4>. QED
          BY <1>1, <2>3, <4>1, RunIsSeq
      <3>3. n0 - 1 \in 0 .. Len(stream)
        BY <1>2
      <3>4. Ends(n0 - 1) = Ends(delivered)
        <4>1. Ends(n0 - 1) \in Nat
          BY <1>2, <3>3, EndsRise
        <4>. QED
          BY <1>1, <2>1, <3>2, <4>1 DEF StartsWith
      <3>5. n0 - 1 = delivered
        <4>1. ~(n0 - 1 < delivered) /\ ~(delivered < n0 - 1)
          BY <1>1, <1>2, <3>3, <3>4, EndsRise
        <4>. QED
          BY <1>1, <1>2, <3>3, <4>1
      <3>6. n0 = delivered + 1
        BY <1>1, <1>2, <3>5
      <3>. QED
        BY <3>1, <3>6
    <2>. QED
      BY <2>1, <2>2, <2>3
  <1>. QED
    BY <1>3, <1>4, <1>5

LEMMA ParseWholeKeeps == ASSUME IInv, ParseWhole PROVE IInv'
  <1>1. PICK size \in PacketSizes(rbuf) :
          /\ Parses(size) /\ ValidSize(size) /\ DataSize(rbuf) >= size /\ taking' = size
    BY DEF ParseWhole
  <1>2. /\ pc = "parse" /\ pc' = "process" /\ DataSize(rbuf) > 0
        /\ delivered' = IF skipped THEN delivered ELSE delivered + 1
        /\ UNCHANGED <<open, interest, events, rbuf, received, policyVars, peerVars, sbuf, accepted,
                       wire, stream>>
    BY <1>1 DEF ParseWhole, Parses, peerVars, sendVars
  <1>3. open
    BY <1>2, OpenWithData
  <1>4. /\ delivered \in 0 .. Len(stream) /\ Ends(delivered) \in Nat /\ received \in Nat
        /\ Taken \in Nat /\ Taken <= received /\ rbuf.bytes = UpTo(Taken, received)
        /\ DataSize(rbuf) = received - Taken /\ (skipped \/ Taken = Ends(delivered))
    BY <1>2, <1>3, BufferStarts
  <1>5. /\ size \in Nat /\ size >= 1 /\ size <= MaxPacket
        /\ ~skipped /\ ~(DataSize(rbuf) < HeaderSize)
             => delivered + 1 \in 1 .. Len(stream) /\ size = SizeOf(delivered + 1)
    BY <1>1, <1>2, <1>3, PacketStarts DEF ValidSize
  <1>6. ~(DataSize(rbuf) < HeaderSize)
    <2>1. SUFFICES ASSUME DataSize(rbuf) < HeaderSize PROVE FALSE
      OBVIOUS
    <2>2. size = HeaderSize
      BY <2>1 DEF PacketSizes
    <2>. QED
      BY <1>1, <1>4, <2>1, <2>2, HandlerAssumption
  <1>7. skipped' = skipped /\ policy' = policy /\ UNCHANGED stream
    BY <1>2 DEF policyVars
  <1>8. ASSUME ~skipped
        PROVE  /\ delivered' = delivered + 1 /\ delivered' \in 1 .. Len(stream)
               /\ Ends(delivered) + size = Ends(delivered + 1)
    <2>1. delivered + 1 \in 1 .. Len(stream) /\ size = SizeOf(delivered + 1)
      BY <1>5, <1>6, <1>8
    <2>2. (delivered + 1) - 1 = delivered
      BY <1>4
    <2>3. Ends(delivered) + SizeOf(delivered + 1) = Ends(delivered + 1)
      <3>1. stream \in Streams
        BY DEF IInv, TypeOK
      <3>. QED
        BY <2>1, <2>2, <3>1, SizesArePositive
    <2>. QED
      BY <1>2, <1>8, <2>1, <2>3
  <1>9. Input'
    <2>1. Taken' = Taken /\ UpTo(Taken, received)' = UpTo(Taken, received)
      BY <1>2 DEF Taken, DataSize, UpTo
    <2>2. Taken + taking' <= received' /\ taking' >= 1
      BY <1>1, <1>2, <1>4, <1>5
    <2>3. ASSUME ~skipped
          PROVE  /\ delivered' >= 1 /\ Taken = Ends(Done)' /\ Taken + taking' = Ends(delivered)'
      <3>1. Done' = delivered
        BY <1>2, <1>4, <1>8, <2>3 DEF Done
      <3>2. Ends(Done)' = Ends(delivered) /\ Ends(delivered)' = Ends(delivered + 1)
        BY <1>2, <1>8, <2>3, <3>1 DEF Ends
      <3>. QED
        BY <1>1, <1>4, <1>8, <2>3, <3>2
    <2>. QED
      BY <1>2, <1>4, <1>7, <2>1, <2>2, <2>3 DEF Input
  <1>10. received' \in received .. arrived
    BY <1>2, <1>4, TypesAre DEF IInv
  <1>11. delivered' \in 0 .. Len(stream)
    <2>1. CASE skipped
      BY <1>2, <1>4, <2>1
    <2>2. CASE ~skipped
      BY <1>4, <1>8, <2>2
    <2>. QED
      BY <2>1, <2>2
  <1>12. Room' /\ Rewound(rbuf')
    BY <1>2 DEF Room, IInv, Buffers
  <1>13. taking' \in 0 .. MaxPacket /\ policy' \in {0, 2} /\ skipped' \in BOOLEAN
    BY <1>1, <1>5, <1>7, HandlerAssumption DEF IInv, TypeOK
  <1>. QED
    BY <1>2, <1>3, <1>9, <1>10, <1>11, <1>12, <1>13, ReadSideKeeps

LEMMA MakeRoomIs ==
    ASSUME NEW b, Rewound(b), NEW size \in Nat, DataSize(b) < size
    PROVE  /\ Rewound(MakeRoom(b, size)) /\ MakeRoom(b, size).bytes = b.bytes
           /\ SpaceSize(MakeRoom(b, size)) > 0
  <1>1. SpaceSize(b) \in Nat /\ DataSize(b) \in Nat
    BY SizesAre
  <1>2. size >= 1
    BY <1>1
  <1>3. CASE SpaceSize(b) < size - DataSize(b)
    <2>1. MakeRoom(b, size) = Resize(b, b.cap + size)
      BY <1>3 DEF MakeRoom
    <2>2. /\ Rewound(MakeRoom(b, size)) /\ MakeRoom(b, size).bytes = b.bytes
          /\ SpaceSize(MakeRoom(b, size)) >= size
      BY <1>2, <2>1, GrowsBy
    <2>3. SpaceSize(MakeRoom(b, size)) \in Nat
      BY <2>2, SizesAre
    <2>. QED
      BY <1>2, <2>2, <2>3
  <1>4. CASE ~(SpaceSize(b) < size - DataSize(b))
    BY <1>1, <1>4 DEF MakeRoom
  <1>. QED
    BY <1>3, <1>4

LEMMA PartialMakesRoom ==
    ASSUME IInv, ParsePartial
    PROVE  Rewound(rbuf') /\ rbuf'.bytes = rbuf.bytes /\ SpaceSize(rbuf') > 0
  <1>1. Rewound(rbuf)
    BY DEF IInv, Buffers
  <1>2. CASE DataSize(rbuf) = 0 /\ rbuf' = Adjust(rbuf)
    <2>1. SpaceSize(rbuf) \in Nat /\ SpaceSize(rbuf) >= 1
      BY <1>1, <1>2, SizesAre
    <2>2. /\ Rewound(rbuf') /\ rbuf'.bytes = rbuf.bytes
          /\ SpaceSize(rbuf') >= SpaceSize(rbuf)
      BY <1>1, <1>2, AdjustIs
    <2>3. SpaceSize(rbuf') \in Nat
      BY <2>2, SizesAre
    <2>. QED
      BY <2>1, <2>2, <2>3
  <1>3. ASSUME NEW size \in PacketSizes(rbuf), Parses(size), DataSize(rbuf) < size,
               rbuf' = Adjust(MakeRoom(rbuf, size))
        PROVE  Rewound(rbuf') /\ rbuf'.bytes = rbuf.bytes /\ SpaceSize(rbuf') > 0
    <2>1. size \in Nat
      <3>1. pc = "parse" /\ DataSize(rbuf) > 0
        BY <1>3 DEF Parses
      <3>. QED
        BY <3>1, OpenWithData, PacketStarts
    <2>. DEFINE r == MakeRoom(rbuf, size)
    <2>2. Rewound(r) /\ r.bytes = rbuf.bytes /\ SpaceSize(r) > 0
      BY <1>1, <1>3, <2>1, MakeRoomIs
    <2>. HIDE DEF r
    <2>3. rbuf' = Adjust(r)
      BY <1>3 DEF r
    <2>4. Rewound(rbuf') /\ rbuf'.bytes = r.bytes /\ SpaceSize(rbuf') >= SpaceSize(r)
      BY <2>2, <2>3, AdjustIs
    <2>5. SpaceSize(rbuf') \in Nat /\ SpaceSize(r) \in Nat
      BY <2>2, <2>4, SizesAre
    <2>. QED
      BY <2>2, <2>4, <2>5
  <1>. QED
    BY <1>2, <1>3 DEF ParsePartial

LEMMA ParsePartialKeeps == ASSUME IInv, ParsePartial PROVE IInv'
  <1>1. /\ pc = "parse" /\ pc' = IF readall THEN "recv" ELSE "idle"
        /\ UNCHANGED <<open, interest, events, received, packetVars, peerVars, sbuf, accepted,
                       wire, stream>>
    BY DEF ParsePartial, Parses, ReadOn, peerVars, sendVars
  <1>2. Rewound(rbuf') /\ rbuf'.bytes = rbuf.bytes /\ SpaceSize(rbuf') > 0
    BY PartialMakesRoom
  <1>3. open => /\ Taken \in Nat /\ Taken <= received' /\ rbuf'.bytes = UpTo(Taken, received')
                /\ skipped \/ Taken = Ends(delivered)
    BY <1>1, <1>2, BufferStarts
  <1>4. Input'
    <2>1. received' \in Nat
      BY <1>1, TypesAre DEF IInv
    <2>. QED
      BY <1>1, <1>3, <2>1, PacketVarsStay, InputAt
  <1>5. Room'
    BY <1>2 DEF Room, SpaceSize
  <1>6. received' \in received .. arrived
    BY <1>1, TypesAre DEF IInv, TypeOK
  <1>7. ~open => rbuf'.bytes = << >> /\ pc' = "idle"
    BY <1>1, <1>2 DEF IInv, Once
  <1>. QED
    BY <1>1, <1>2, <1>4, <1>5, <1>6, <1>7, PacketVarsStay, ReadSideKeeps

LEMMA ProcessReturnsKeeps == ASSUME IInv, ProcessReturns PROVE IInv'
  <1>1. /\ pc = "process" /\ pc' = "parse" /\ rbuf' = PopData(rbuf, taking) /\ taking' = 0
        /\ UNCHANGED <<open, interest, events, received, policyVars, delivered, peerVars, sbuf,
                       accepted, wire, stream>>
    BY DEF ProcessReturns, peerVars, sendVars
  <1>2. /\ Rewound(rbuf) /\ received \in Nat /\ taking \in Nat /\ taking >= 1
        /\ delivered \in 0 .. Len(stream) /\ policy' \in {0, 2} /\ skipped' = skipped
        /\ skipped' \in BOOLEAN /\ taking' \in 0 .. MaxPacket
    BY <1>1, TypesAre, HandlerAssumption DEF IInv, Buffers, TypeOK, Input, policyVars
  <1>3. ~open => rbuf' = rbuf /\ rbuf.bytes = << >> /\ ~readall
    <2>1. ~open => rbuf.bytes = << >> /\ ~readall
      BY <1>1 DEF IInv, Once
    <2>2. ASSUME rbuf.bytes = << >> PROVE rbuf' = rbuf
      BY <1>1, <1>2, <2>2, PopEmpty
    <2>. QED
      BY <2>1, <2>2
  <1>4. ASSUME open
        PROVE  /\ Rewound(rbuf') /\ Taken + taking \in Nat /\ Taken + taking <= received
               /\ rbuf'.bytes = UpTo(Taken + taking, received)
               /\ skipped \/ Taken + taking = Ends(delivered)
    <2>1. /\ Taken \in Nat /\ rbuf.bytes = UpTo(Taken, received) /\ Taken + taking <= received
          /\ DataSize(rbuf) = received - Taken /\ (skipped \/ Taken + taking = Ends(delivered))
      BY <1>1, <1>4, BufferHolds DEF IInv, Input
    <2>2. taking \in 0 .. received - Taken /\ taking <= DataSize(rbuf) /\ Taken <= received
      BY <1>2, <2>1
    <2>3. /\ Rewound(PopData(rbuf, taking))
          /\ PopData(rbuf, taking).bytes = SubSeq(rbuf.bytes, taking + 1, DataSize(rbuf))
      BY <1>2, <2>2, PopIs
    <2>4. SubSeq(UpTo(Taken, received), taking + 1, received - Taken)
            = UpTo(Taken + taking, received)
      BY <1>2, <2>1, <2>2, RunPart
    <2>. QED
      BY <1>1, <1>2, <2>1, <2>3, <2>4
  <1>5. Rewound(rbuf')
    BY <1>2, <1>3, <1>4
  <1>6. Input'
    BY <1>1, <1>2, <1>4, InputAt
  <1>7. Room' /\ received' \in received .. arrived
    BY <1>1, <1>2, TypesAre DEF Room, IInv
  <1>. QED
    BY <1>1, <1>2, <1>3, <1>5, <1>6, <1>7, ReadSideKeeps

\* The answer to a policy request: the buffer is empty behind it.
LEMMA AnswerPolicyKeeps == ASSUME IInv, AnswerPolicy PROVE IInv'
  <1>1. /\ pc = "parse" /\ MayMatch(rbuf) /\ DirectOrQueued(AnswerSize, FALSE)
        /\ rbuf' = PopData(rbuf, DataSize(rbuf)) /\ policy' = 2 /\ delivered' = request
        /\ skipped' = (DataSize(rbuf) # SizeOf(request))
        /\ UNCHANGED <<open, events, pc, received, taking, peerVars>>
    BY DEF AnswerPolicy
  <1>2. DataSize(rbuf) > 0 /\ request > 0 /\ StartsWith(rbuf, request)
    BY <1>1 DEF MayMatch
  <1>3. open /\ open' = open
    BY <1>1, <1>2, OpenWithData
  <1>4. /\ accepted' \in Nat /\ wire' \in Seq(Nat) /\ interest' \subseteq {"READ", "WRITE"}
        /\ Rewound(sbuf') /\ Output' /\ WatchesWrites'
    <2>1. AnswerSize \in Nat /\ AnswerSize >= 1 /\ FALSE \in BOOLEAN
      BY HandlerAssumption
    <2>. QED
      BY <1>1, <1>3, <2>1, DirectSendIs
  <1>5. /\ received \in Nat /\ Taken \in Nat /\ Taken <= received /\ DataSize(rbuf) \in Nat
        /\ DataSize(rbuf) = received - Taken /\ rbuf.bytes = UpTo(Taken, received)
    BY <1>3, BufferHolds
  <1>6. /\ TypeOK /\ Rewound(rbuf) /\ request \in 1 .. Len(stream) /\ stream \in Streams
        /\ Len(stream) \in Nat
    <2>1. TypeOK /\ request \in 0 .. Len(stream)
      BY DEF IInv, TypeOK
    <2>2. request \in 1 .. Len(stream)
      BY <1>2, <2>1
    <2>. QED
      BY <2>1, <2>2, TypesAre DEF IInv, Buffers, TypeOK
  <1>7. UNCHANGED <<readall, stream, request, arrived, link>>
    BY <1>1 DEF peerVars
  <1>8. Rewound(rbuf') /\ rbuf'.bytes = UpTo(received, received)
    <2>1. /\ Rewound(rbuf') /\ rbuf'.bytes = SubSeq(rbuf.bytes, DataSize(rbuf) + 1, DataSize(rbuf))
      BY <1>1, <1>2, <1>5, <1>6, PopIs
    <2>2. DataSize(rbuf) \in 0 .. received - Taken /\ Taken + DataSize(rbuf) = received
      BY <1>5
    <2>3. SubSeq(UpTo(Taken, received), DataSize(rbuf) + 1, received - Taken)
            = UpTo(Taken + DataSize(rbuf), received)
      BY <1>5, <2>2, RunPart
    <2>. QED
      BY <1>5, <2>1, <2>2, <2>3
  <1>9. skipped' \/ received = Ends(request)
    <2>1. SUFFICES ASSUME ~skipped' PROVE received = Ends(request)
      OBVIOUS
    <2>2. rbuf.bytes[1] = Taken + 1
      <3>1. 1 \in 1 .. received - Taken
        BY <1>2, <1>5
      <3>. QED
        BY <1>5, <3>1, RunIsSeq
    <2>3. request - 1 \in 0 .. Len(stream) /\ request \in 0 .. Len(stream)
      BY <1>6
    <2>4. Ends(request - 1) \in Nat /\ Ends(request) \in Nat
      BY <1>6, <2>3, EndsRise
    <2>5. Taken = Ends(request - 1)
      BY <1>2, <1>5, <2>2, <2>4 DEF StartsWith
    <2>6. received - Taken = Ends(request) - Ends(request - 1)
      BY <1>1, <1>5, <2>1 DEF SizeOf
    <2>. QED
      BY <1>5, <2>4, <2>5, <2>6
  <1>10. Input'
    <2>1. received' \in Nat /\ received <= received' /\ rbuf'.bytes = UpTo(received, received')
      BY <1>1, <1>5, <1>8
    <2>. QED
      BY <1>1, <1>5, <1>7, <1>9, <2>1, InputAt
  <1>11. TypeOK'
    <2>1. IsBuffer(rbuf)' /\ IsBuffer(sbuf)'
      BY <1>4, <1>8 DEF Rewound, IsBuffer, SpaceSize
    <2>2. Total' = Total /\ delivered' \in 0 .. Len(stream) /\ skipped' \in BOOLEAN
      BY <1>1, <1>6, <1>7 DEF Total, Ends
    <2>. QED
      BY <1>1, <1>4, <1>6, <1>7, <2>1, <2>2 DEF TypeOK
  <1>12. Buffers'
    BY <1>4, <1>8 DEF Buffers, Rewound, IsBuffer, SpaceSize
  <1>13. Room' /\ Once'
    BY <1>1, <1>3 DEF IInv, Room, Once
  <1>. QED
    BY <1>4, <1>10, <1>11, <1>12, <1>13 DEF IInv

LEMMA ReadCloseKeeps ==
    ASSUME IInv, open, HandleError, pc' = "idle",
           taking' = taking \/ taking' = 0,
           UNCHANGED <<received, policyVars, delivered, accepted, wire, peerVars>>
    PROVE  IInv'
  <1>1. accepted' \in Nat
    BY DEF IInv, TypeOK
  <1>. QED
    BY <1>1, CloseKeeps

LEMMA StepKeeps == ASSUME IInv, [Next]_vars PROVE IInv'
  <1>1. CASE Connect \/ PeerSends \/ PeerCloses
    BY <1>1, ConnectKeeps, PeerSendsKeeps, PeerClosesKeeps
  <1>2. CASE OnRead
    BY <1>2, UnreadKeeps DEF OnRead
  <1>3. CASE RecvAgain
    BY <1>3, UnreadKeeps DEF RecvAgain
  <1>4. CASE RecvData \/ ParseWhole \/ ParsePartial \/ AnswerPolicy \/ ProcessReturns
    BY <1>4, RecvDataKeeps, ParseWholeKeeps, ParsePartialKeeps, ProcessReturnsKeeps,
       AnswerPolicyKeeps
  <1>5. CASE RecvEnds
    <2>1. open
      BY <1>5 DEF RecvEnds, IInv, Once
    <2>. QED
      BY <1>5, <2>1, ReadCloseKeeps DEF RecvEnds, packetVars
  <1>6. CASE ParseBad
    <2>1. open
      BY <1>6, OpenWithData DEF ParseBad, Parses
    <2>. QED
      BY <1>6, <2>1, ReadCloseKeeps DEF ParseBad, packetVars
  <1>7. CASE ProcessFails
    BY <1>7, ReadCloseKeeps DEF ProcessFails
  <1>8. CASE OnWrite \/ Send
    BY <1>8, OnWriteKeeps, SendKeeps
  <1>9. CASE OnError
    BY <1>9, OutsideCloseKeeps DEF OnError
  <1>10. CASE Close
    BY <1>10, OutsideCloseKeeps DEF Close
  <1>11. CASE UNCHANGED vars
    <2>1. UNCHANGED <<open, interest, events, pc, rbuf, received, taking, policy, skipped,
                      delivered, readall, stream, request, arrived, link, sbuf, accepted, wire>>
      BY <1>11 DEF vars
    <2>2. Output' /\ WatchesWrites' /\ Buffers' /\ TypeOK' /\ Room' /\ Once'
      BY <2>1 DEF IInv, Output, WatchesWrites, Buffers, TypeOK, Room, Once, Ends,
                  Total, UpTo, DataSize, SpaceSize, Rewound, IsBuffer
    <2>3. Input'
      BY <2>1, InputStays DEF IInv
    <2>. QED
      BY <2>2, <2>3 DEF IInv
  <1>. QED
    BY <1>1, <1>2, <1>3, <1>4, <1>5, <1>6, <1>7, <1>8, <1>9, <1>10, <1>11 DEF Next

LEMMA InitEstablishes == Init => IInv
  <1>. SUFFICES ASSUME Init PROVE IInv
    OBVIOUS
  <1>1. /\ open = TRUE /\ interest = {"READ"} /\ readall \in BOOLEAN
        /\ rbuf = NewBuffer(BufSize) /\ sbuf = NewBuffer(BufSize)
        /\ pc = "idle" /\ events = 0 /\ stream \in Streams /\ arrived = 0 /\ received = 0
        /\ link = "up" /\ taking = 0 /\ policy = 0 /\ skipped = FALSE /\ delivered = 0
        /\ accepted = 0 /\ wire = << >> /\ request \in Requests
        /\ MayRequest(request, stream, readall)
    BY DEF Init, Fresh
  <1>2. Buffers /\ rbuf.bytes = << >> /\ sbuf.bytes = << >>
    BY <1>1, NewIs DEF Buffers
  <1>3. DataSize(rbuf) = 0 /\ DataSize(sbuf) = 0
    BY <1>2 DEF DataSize
  <1>4. Total \in Nat /\ Len(stream) \in Nat
    <2>1. Len(stream) \in Nat
      BY <1>1, StreamAssumption
    <2>2. Len(stream) \in 0 .. Len(stream)
      BY <2>1
    <2>. QED
      BY <1>1, <2>1, <2>2, EndsRise DEF Total
  <1>5. TypeOK
    <2>1. IsBuffer(rbuf) /\ IsBuffer(sbuf)
      BY <1>2 DEF Buffers, Rewound
    <2>2. arrived \in 0 .. Total /\ received \in 0 .. arrived /\ delivered \in 0 .. Len(stream)
      BY <1>1, <1>4
    <2>3. /\ accepted \in Nat /\ wire \in Seq(Nat) /\ events \in Nat
          /\ taking \in 0 .. MaxPacket /\ policy \in {0, 2}
      BY <1>1, HandlerAssumption
    <2>4. request \in 0 .. Len(stream)
      <3>1. request \in Nat /\ (request = 0 \/ request <= Len(stream))
        BY <1>1, StreamAssumption DEF MayRequest
      <3>. QED
        BY <1>4, <3>1
    <2>. QED
      BY <1>1, <2>1, <2>2, <2>3, <2>4 DEF TypeOK
  <1>6. UpTo(0, 0) = << >>
    BY RunEmpty
  <1>7. Output
    <2>1. Len(wire) = 0 /\ Len(wire) <= accepted
      BY <1>1
    <2>. QED
      BY <1>1, <1>2, <1>6, <2>1 DEF Output
  <1>8. Input
    <2>1. Taken = 0
      BY <1>1, <1>3 DEF Taken
    <2>. QED
      BY <1>1, <1>2, <1>6, <2>1 DEF Input, Done, Ends
  <1>9. WatchesWrites /\ Once
    BY <1>1, <1>3 DEF WatchesWrites, Once
  <1>10. Room
    <2>1. SpaceSize(rbuf) = rbuf.cap /\ rbuf.cap \in Nat /\ rbuf.cap >= 1
      BY <1>2, <1>3, SizesAre DEF Buffers
    <2>. QED
      BY <2>1 DEF Room
  <1>. QED
    BY <1>2, <1>5, <1>7, <1>8, <1>9, <1>10 DEF IInv

-----------------------------------------------------------------------------
LEMMA Inductive == SafetySpec => []IInv
  <1>. QED
    BY InitEstablishes, StepKeeps, PTL DEF SafetySpec

LEMMA SpecIsSafe == Spec => SafetySpec
  BY PTL DEF Spec, SafetySpec

\* The types of a connection's variables.
THEOREM TypeCorrect == Spec => []TypeOK
  <1>1. IInv => TypeOK
    BY DEF IInv
  <1>. QED
    BY <1>1, Inductive, SpecIsSafe, PTL

LEMMA OutputJoins == ASSUME IInv PROVE OutputIntact
  <1>1. SUFFICES ASSUME open PROVE wire \o sbuf.bytes = UpTo(0, accepted)
    BY DEF OutputIntact
  <1>2. /\ Len(wire) <= accepted /\ wire = UpTo(0, Len(wire))
        /\ sbuf.bytes = UpTo(Len(wire), accepted)
    BY <1>1 DEF IInv, Output
  <1>3. Len(wire) \in Nat /\ accepted \in Nat /\ 0 \in Nat /\ 0 <= Len(wire)
    BY TypesAre DEF IInv
  <1>4. UpTo(0, Len(wire)) \o UpTo(Len(wire), accepted) = UpTo(0, accepted)
    BY <1>2, <1>3, RunJoin
  <1>. QED
    BY <1>2, <1>4

\* For any sizes of buffers, messages and writes and any schedule: the socket has been
\* given, in order and once, the bytes that send accepted, but for those still queued.
THEOREM OutputIsIntact == Spec => []OutputIntact
  <1>. QED
    BY OutputJoins, Inductive, SpecIsSafe, PTL

\* For any packets, buffers and cuts of the stream: the receive buffer holds the last bytes
\* received, in order, and starts with the packet that is due, also behind a policy request
\* that was taken as what it is.
THEOREM InputIsIntact == Spec => []InputIntact
  <1>1. IInv => InputIntact
    BY DEF IInv, Input, Done, InputIntact
  <1>. QED
    BY <1>1, Inductive, SpecIsSafe, PTL

\* Writability is watched exactly while output is queued.
THEOREM WritesAreWatched == Spec => []WatchesWrites
  <1>1. IInv => WatchesWrites
    BY DEF IInv
  <1>. QED
    BY <1>1, Inductive, SpecIsSafe, PTL

\* However large the packets and small the buffers, recv is given space.
THEOREM RecvHasSpace == Spec => []SpaceToReceive
  <1>1. IInv => SpaceToReceive
    BY DEF IInv, Room, SpaceToReceive
  <1>. QED
    BY <1>1, Inductive, SpecIsSafe, PTL

\* The end of a connection is told at most once, also when a reply closes it under on_read.
THEOREM EndIsToldOnce == Spec => []OneEvent
  <1>1. ASSUME IInv PROVE OneEvent
    <2>1. events = 0 \/ events = 1
      BY <1>1 DEF IInv, Once
    <2>. QED
      BY <2>1 DEF OneEvent
  <1>. QED
    BY <1>1, Inductive, SpecIsSafe, PTL
-----------------------------------------------------------------------------
\* TcpConnection: its sends, and its invariant, which is that of TcpDataHandler.
LEMMA QueuedWhole ==
    ASSUME IInv, open, NEW size \in Nat, size >= 1
    PROVE  LET q == PushData(Grown(size - 0), SubSeq(Message(size), 0 + 1, size))
           IN  Rewound(q) /\ q.bytes = UpTo(Len(wire), accepted + size)
  <1>1. /\ 0 \in 0 .. size /\ size - 0 \in Nat /\ size - 0 >= 1 /\ size - 0 >= size - 0
        /\ accepted \in Nat /\ accepted + 0 = accepted
    BY TypesAre DEF IInv
  <1>. DEFINE q == PushData(Grown(size - 0), SubSeq(Message(size), 0 + 1, size))
  <1>2. Rewound(q) /\ q.bytes = sbuf.bytes \o UpTo(accepted + 0, accepted + size)
    BY <1>1, QueueIs
  <1>3. /\ Len(wire) \in Nat /\ Len(wire) <= accepted
        /\ sbuf.bytes = UpTo(Len(wire), accepted)
    BY TypesAre DEF IInv, Output
  <1>4. UpTo(Len(wire), accepted) \o UpTo(accepted, accepted + size)
          = UpTo(Len(wire), accepted + size)
    <2>1. accepted + size \in Nat /\ accepted <= accepted + size
      BY <1>1
    <2>. QED
      BY <1>1, <1>3, <2>1, RunJoin
  <1>. HIDE DEF q
  <1>5. Rewound(q) /\ q.bytes = UpTo(Len(wire), accepted + size)
    BY <1>1, <1>2, <1>3, <1>4
  <1>. QED
    BY <1>5 DEF q

\* With nothing queued, n bytes of a message leave at once and those up to t in a second try.
LEMMA SentInTwo ==
    ASSUME IInv, open, NEW size \in Nat, size >= 1, DataSize(sbuf) = 0,
           NEW n \in 0 .. size - 1, NEW t \in n .. size,
           NEW q, q = PushData(Grown(size - n), SubSeq(Message(size), n + 1, size)),
           sbuf' = (IF t = n THEN q ELSE Adjust(PopData(q, t - n)))
    PROVE  Rewound(sbuf') /\ sbuf'.bytes = UpTo(accepted + t, accepted + size)
  <1>. DEFINE a == accepted + n   c == accepted + t   d == accepted + size
  <1>1. /\ accepted \in Nat /\ n \in 0 .. size /\ size - n \in Nat /\ size - n >= 1
        /\ size - n >= size - n
    BY TypesAre DEF IInv
  <1>2. /\ a \in Nat /\ c \in Nat /\ d \in Nat /\ a <= c /\ c <= d /\ a <= d
        /\ c - a = t - n
    BY <1>1
  <1>3. Rewound(q) /\ q.bytes = UpTo(a, d)
    <2>1. Rewound(q) /\ q.bytes = sbuf.bytes \o UpTo(a, d)
      BY <1>1, QueueIs
    <2>2. sbuf.bytes = << >>
      BY SizesAre DEF IInv, Buffers
    <2>3. UpTo(a, d) \in Seq(Nat)
      BY <1>2, RunIsSeq
    <2>. QED
      BY <2>1, <2>2, <2>3, ConcatEmptySeq
  <1>. HIDE DEF a, c, d
  <1>4. CASE t = n
    <2>1. c = a /\ sbuf' = q
      BY <1>4 DEF a, c
    <2>. QED
      BY <1>3, <2>1 DEF c, d
  <1>5. CASE t # n
    <2>. DEFINE k == t - n
    <2>1. k \in Nat /\ k >= 1 /\ k \in 0 .. d - a /\ a + k = c
      BY <1>1, <1>2, <1>5
    <2>2. DataSize(q) = d - a
      BY <1>2, <1>3, RunIsSeq DEF DataSize
    <2>3. SubSeq(UpTo(a, d), k + 1, d - a) = UpTo(c, d)
      BY <1>2, <2>1, RunPart
    <2>. HIDE DEF k
    <2>4. Rewound(PopData(q, k)) /\ PopData(q, k).bytes = UpTo(c, d)
      <3>1. 1 <= k /\ k <= DataSize(q)
        BY <1>2, <2>1, <2>2
      <3>2. SubSeq(q.bytes, k + 1, DataSize(q)) = UpTo(c, d)
        BY <1>3, <2>2, <2>3
      <3>. QED
        BY <1>3, <2>1, <3>1, <3>2, PopIs
    <2>5. sbuf' = Adjust(PopData(q, k))
      BY <1>5 DEF k
    <2>. QED
      BY <2>4, <2>5, AdjustIs DEF c, d
  <1>. QED
    BY <1>4, <1>5

LEMMA ConnSendDataKeeps ==
    ASSUME IInv, NEW size \in Nat, size >= 1, NEW delay \in BOOLEAN,
           ConnSendData(size, delay)
    PROVE  IInv'
  <1>. DEFINE direct == DataSize(sbuf) = 0 /\ ~delay
              Queued(n) == PushData(Grown(size - n), SubSeq(Message(size), n + 1, size))
  <1>1. /\ open /\ (pc = "idle" \/ (pc = "process" /\ ~readall))
        /\ UNCHANGED <<pc, received, packetVars, peerVars>>
    BY DEF ConnSendData, CanSend, peerVars, packetVars, policyVars
  <1>2. /\ accepted \in Nat /\ accepted + size \in Nat
        /\ Len(wire) \in Nat /\ Len(wire) <= accepted /\ wire \in Seq(Nat)
        /\ wire = UpTo(0, Len(wire)) /\ sbuf.bytes = UpTo(Len(wire), accepted)
        /\ Rewound(sbuf) /\ interest \subseteq {"READ", "WRITE"}
    BY <1>1, TypesAre, HandlerAssumption DEF IInv, Output, TypeOK, Buffers
  <1>3. Rewound(Queued(0)) /\ Queued(0).bytes = UpTo(Len(wire), accepted + size)
    BY <1>1, QueuedWhole
  <1>4. CASE direct /\ link = "reset" /\ UNCHANGED <<sendVars, open, interest, events, rbuf>>
    <2>1. UNCHANGED <<sbuf, accepted, wire, open, interest, events, rbuf>>
      BY <1>4 DEF sendVars
    <2>2. accepted' \in Nat
      BY <2>1 DEF IInv, TypeOK
    <2>3. Output' /\ WatchesWrites'
      BY <1>1, <2>1 DEF IInv, Output, WatchesWrites, DataSize, UpTo
    <2>. QED
      BY <1>1, <1>2, <2>1, <2>2, <2>3, SendSideKeeps
  <1>5. ASSUME direct, NEW n \in 0 .. size, NEW t \in n .. size,
               wire' = wire \o SubSeq(Message(size), 1, t),
               IF n = size THEN UNCHANGED <<sbuf, interest>>
               ELSE /\ sbuf' = IF t = n THEN Queued(n) ELSE Adjust(PopData(Queued(n), t - n))
                    /\ interest' = Watch(sbuf'),
               accepted' = accepted + size, UNCHANGED <<open, events, rbuf>>
        PROVE  IInv'
    <2>1. /\ Len(wire) = accepted /\ sbuf.bytes = << >>
      <3>1. DataSize(sbuf) = accepted - Len(wire)
        BY <1>2, RunIsSeq DEF DataSize
      <3>. QED
        BY <1>2, <1>5, <3>1, SizesAre
    <2>2. /\ t \in 0 .. size /\ accepted + t \in Nat /\ accepted <= accepted + t
          /\ accepted + t <= accepted'
      BY <1>2, <1>5
    <2>3. wire' = UpTo(0, accepted + t)
      <3>1. SubSeq(Message(size), 1, t) = UpTo(accepted, accepted + t)
        <4>1. /\ accepted <= accepted + size /\ t \in 0 .. (accepted + size) - accepted
          BY <1>2, <2>2
        <4>2. SubSeq(UpTo(accepted, accepted + size), 1, t) = UpTo(accepted, accepted + t)
          BY <1>2, <4>1, RunPart
        <4>. QED
          BY <1>2, <4>2, MessageIsRun
      <3>2. 0 \in Nat /\ 0 <= accepted
        BY <1>2
      <3>3. UpTo(0, accepted) \o UpTo(accepted, accepted + t) = UpTo(0, accepted + t)
        BY <1>2, <2>2, <3>2, RunJoin
      <3>. QED
        BY <1>2, <1>5, <2>1, <3>1, <3>3
    <2>4. /\ Rewound(sbuf') /\ sbuf'.bytes = UpTo(accepted + t, accepted')
          /\ interest' \subseteq {"READ", "WRITE"} /\ WatchesWrites'
      <3>1. CASE n = size
        <4>1. sbuf' = sbuf /\ interest' = interest /\ t = size
          BY <1>5, <3>1
        <4>2. UpTo(accepted + t, accepted') = << >>
          BY <1>2, <1>5, <4>1, RunEmpty
        <4>3. WatchesWrites'
          BY <1>1, <1>5, <4>1 DEF IInv, WatchesWrites, DataSize
        <4>. QED
          BY <1>2, <2>1, <4>1, <4>2, <4>3
      <3>2. CASE n # size
        <4>1. n \in 0 .. size - 1
          BY <3>2
        <4>2. sbuf' = (IF t = n THEN Queued(n) ELSE Adjust(PopData(Queued(n), t - n)))
          BY <1>5, <3>2
        <4>3. interest' = Watch(sbuf')
          BY <1>5, <3>2
        <4>. HIDE DEF Queued
        <4>4. Rewound(sbuf') /\ sbuf'.bytes = UpTo(accepted + t, accepted + size)
          BY <1>1, <1>5, <4>1, <4>2, SentInTwo DEF Queued
        <4>. QED
          BY <1>5, <4>3, <4>4, WatchIsRight
      <3>. QED
        BY <3>1, <3>2
    <2>5. accepted' \in Nat
      BY <1>2, <1>5
    <2>6. wire' \in Seq(Nat) /\ Output'
      BY <2>2, <2>3, <2>4, <2>5, OutputAt
    <2>. QED
      BY <1>1, <1>5, <2>4, <2>5, <2>6, SendSideKeeps
  <1>6. CASE ~direct /\ ~delay /\ WriteFrom(Queued(0)) /\ accepted' = accepted + size
    <2>. HIDE DEF Queued
    <2>1. accepted' \in Nat /\ Len(wire) <= accepted'
      BY <1>2, <1>6
    <2>. QED
      BY <1>1, <1>3, <1>6, <2>1, WriteKeeps
  <1>7. CASE /\ delay /\ sbuf' = Queued(0) /\ interest' = {"READ", "WRITE"}
             /\ accepted' = accepted + size /\ UNCHANGED <<open, events, rbuf, wire>>
    <2>. HIDE DEF Queued
    <2>1. /\ wire' = UpTo(0, Len(wire)) /\ sbuf'.bytes = UpTo(Len(wire), accepted')
          /\ accepted' \in Nat /\ Len(wire) <= accepted' /\ accepted' \in Nat
          /\ Rewound(sbuf')
      BY <1>2, <1>3, <1>7
    <2>2. wire' \in Seq(Nat) /\ Output'
      BY <1>2, <2>1, OutputAt
    <2>3. WatchesWrites'
      <3>1. DataSize(sbuf') = accepted' - Len(wire)
        BY <1>2, <2>1, RunIsSeq DEF DataSize
      <3>2. DataSize(sbuf') > 0
        BY <1>2, <1>7, <3>1
      <3>. QED
        BY <1>7, <3>2 DEF WatchesWrites, DataSize
    <2>. QED
      BY <1>1, <1>7, <2>1, <2>2, <2>3, SendSideKeeps
  <1>8. \/ direct /\ link = "reset" /\ UNCHANGED <<sendVars, open, interest, events, rbuf>>
        \/ /\ direct
           /\ \E n \in 0 .. size : \E t \in n .. size :
                /\ wire' = wire \o SubSeq(Message(size), 1, t)
                /\ IF n = size THEN UNCHANGED <<sbuf, interest>>
                   ELSE /\ sbuf' = IF t = n THEN Queued(n)
                                   ELSE Adjust(PopData(Queued(n), t - n))
                        /\ interest' = Watch(sbuf')
           /\ accepted' = accepted + size /\ UNCHANGED <<open, events, rbuf>>
        \/ ~direct /\ ~delay /\ WriteFrom(Queued(0)) /\ accepted' = accepted + size
        \/ /\ delay /\ sbuf' = Queued(0) /\ interest' = {"READ", "WRITE"}
           /\ accepted' = accepted + size /\ UNCHANGED <<open, events, rbuf, wire>>
    BY DEF ConnSendData
  <1>. HIDE DEF direct, Queued
  <1>. QED
    BY <1>4, <1>5, <1>6, <1>7, <1>8

LEMMA ConnStepKeeps == ASSUME IInv, [ConnNext]_vars PROVE IInv'
  <1>1. CASE ConnConnect \/ ConnPeer \/ ConnOnRead \/ ConnProcess \/ ConnOnWrite \/ ConnOnError
             \/ ConnFini \/ UNCHANGED vars
    <2>1. [Next]_vars
      BY <1>1 DEF ConnConnect, ConnPeer, ConnOnRead, ConnProcess, ConnOnWrite, ConnOnError,
                  ConnFini, Next
    <2>. QED
      BY <2>1, StepKeeps
  <1>2. CASE ConnSpurious
    BY <1>2, OutsideCloseKeeps DEF ConnSpurious
  <1>3. CASE ConnSend
    <2>1. PICK size \in MsgSizes, delay \in BOOLEAN :
            (ConnSendData(size, delay) \/ SendPacket(size, delay))
      BY <1>3 DEF ConnSend
    <2>2. size \in Nat /\ size >= 1
      BY HandlerAssumption
    <2>. QED
      BY <2>1, <2>2, ConnSendDataKeeps, SendPacketKeeps
  <1>. QED
    BY <1>1, <1>2, <1>3 DEF ConnNext

\* For any sizes, any packets and any schedule the earlier handler, too, writes what send
\* accepted and hands over what the peer sent, whole and in order.
THEOREM ConnectionIsIntact == ConnSpec => []ConnIntact
  <1>1. ConnInit => IInv
    BY InitEstablishes DEF ConnInit, Init
  <1>2. ConnSpec => []IInv
    BY <1>1, ConnStepKeeps, PTL DEF ConnSpec
  <1>3. IInv => ConnIntact
    BY OutputJoins DEF ConnIntact, IInv, Input, Done, InputIntact
  <1>. QED
    BY <1>2, <1>3, PTL
=============================================================================
