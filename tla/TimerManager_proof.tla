-------------------------- MODULE TimerManager_proof --------------------------
(***************************************************************************)
(* Proofs about TimerManager, for every wheel size, every set of timers and*)
(* every pattern of delays and clock readings.                             *)
(***************************************************************************)
EXTENDS TimerManager, TLAPS

\* m_next_expired never points past the end of the current round, so the skip of
\* run_until never jumps over a cascade.
NextInRound == next <= (curr - lowPos) + SlotSize

\* m_next_expired is a lower bound of the pending timers at all times.
NextIsBound == \A t \in Linked : next <= expired[t]

\* How curr, next and the clock are ordered at each point of the main loop.
ClockOrder ==
    /\ pc = "idle" => curr = now /\ curr <= next
    /\ pc # "idle" => curr <= now
    /\ pc = "callback" => curr < now
    /\ StartTime <= now

\* The inductive invariant.
IInv == TypeOK /\ Placement /\ NextInRound /\ NextIsBound /\ ClockOrder

-----------------------------------------------------------------------------
\* Quotient and remainder.
LEMMA DivMod ==
    ASSUME NEW x \in Int
    PROVE  /\ x \div SlotSize \in Int
           /\ x % SlotSize \in 0 .. SlotSize - 1
           /\ x = (x \div SlotSize) * SlotSize + (x % SlotSize)
  <1>1. x \div SlotSize \in Int
    BY WheelAssumption
  <1>2. x % SlotSize \in 0 .. SlotSize - 1
    BY WheelAssumption
  <1>3. x = (x \div SlotSize) * SlotSize + (x % SlotSize)
    BY WheelAssumption
  <1>. QED
    BY <1>1, <1>2, <1>3

LEMMA SmallDivMod ==
    ASSUME NEW x \in 0 .. SlotSize - 1
    PROVE  x % SlotSize = x /\ x \div SlotSize = 0
  BY WheelAssumption

LEMMA OneRoundMore ==
    ASSUME NEW x \in Int
    PROVE  /\ (x + SlotSize) % SlotSize = x % SlotSize
           /\ (x + SlotSize) \div SlotSize = (x \div SlotSize) + 1
  BY WheelAssumption

\* An offset in the range of the high array is 1 to SlotSize rounds away.
LEMMA RoundsAway ==
    ASSUME NEW x \in Int, SlotSize <= x, x < SlotSize * (SlotSize + 1)
    PROVE  /\ x \div SlotSize \in 1 .. SlotSize
           /\ x \div SlotSize = 1 <=> x < 2 * SlotSize
  <1>. DEFINE q == x \div SlotSize
              r == x % SlotSize
  <1>1. q \in Int /\ r \in 0 .. SlotSize - 1 /\ x = q * SlotSize + r
    BY DivMod
  <1>. HIDE DEF q, r
  <1>2. q >= 1
    <2>. SUFFICES ASSUME q <= 0 PROVE FALSE
      BY <1>1
    <2>1. q * SlotSize <= 0
      BY <1>1, WheelAssumption
    <2>. QED
      BY <2>1, <1>1, WheelAssumption
  <1>3. q <= SlotSize
    <2>. SUFFICES ASSUME q >= SlotSize + 1 PROVE FALSE
      BY <1>1, WheelAssumption
    <2>1. q * SlotSize >= (SlotSize + 1) * SlotSize
      BY <1>1, WheelAssumption
    <2>. QED
      BY <2>1, <1>1, WheelAssumption
  <1>4. q = 1 => x < 2 * SlotSize
    BY <1>1, WheelAssumption
  <1>5. x < 2 * SlotSize => q = 1
    <2>. SUFFICES ASSUME q >= 2 PROVE x >= 2 * SlotSize
      BY <1>1, <1>2, WheelAssumption
    <2>1. q * SlotSize >= 2 * SlotSize
      BY <1>1, WheelAssumption
    <2>. QED
      BY <2>1, <1>1, WheelAssumption
  <1>. QED
    BY <1>1, <1>2, <1>3, <1>4, <1>5, WheelAssumption DEF q

\* The high slot of the round that is `q' rounds away: it is the one that
\* cascades next exactly when q is 1, and when the wheel turns to the next high
\* slot the timers of the others are one round nearer and in the same slot.
LEMMA HighRing ==
    ASSUME NEW q \in 1 .. SlotSize, NEW h \in Positions
    PROVE  /\ (q - 1 + h) % SlotSize = h <=> q = 1
           /\ ((q - 1) - 1 + ((h + 1) % SlotSize)) % SlotSize = (q - 1 + h) % SlotSize
  <1>. USE WheelAssumption DEF Positions
  <1>. DEFINE near == (q - 1) - 1 + ((h + 1) % SlotSize)
  <1>1. (h + 1) % SlotSize = IF h = SlotSize - 1 THEN 0 ELSE h + 1
    <2>1. CASE h = SlotSize - 1
      <3>1. (0 + SlotSize) % SlotSize = 0 % SlotSize /\ 0 % SlotSize = 0
        BY SmallDivMod, OneRoundMore
      <3>. QED
        BY <2>1, <3>1
    <2>2. CASE h # SlotSize - 1
      <3>1. h + 1 \in 0 .. SlotSize - 1
        BY <2>2
      <3>. QED
        BY <2>2, <3>1, SmallDivMod
    <2>. QED
      BY <2>1, <2>2
  <1>2. near = IF h = SlotSize - 1 THEN q - 1 + h - SlotSize ELSE q - 1 + h
    BY <1>1
  <1>3. near % SlotSize = (q - 1 + h) % SlotSize
    <2>. HIDE DEF near
    <2>1. CASE h = SlotSize - 1
      <3>1. near \in Int /\ q - 1 + h = near + SlotSize
        BY <2>1, <1>2
      <3>. QED
        BY <3>1, OneRoundMore
    <2>2. CASE h # SlotSize - 1
      BY <2>2, <1>2
    <2>. QED
      BY <2>1, <2>2
  <1>4. (q - 1 + h) % SlotSize = h <=> q = 1
    <2>1. CASE q - 1 + h < SlotSize
      <3>1. (q - 1 + h) % SlotSize = q - 1 + h
        BY <2>1, SmallDivMod
      <3>. QED
        BY <3>1
    <2>2. CASE q - 1 + h >= SlotSize
      <3>. DEFINE y == q - 1 + h - SlotSize
      <3>1. y \in 0 .. SlotSize - 1 /\ q - 1 + h = y + SlotSize
        BY <2>2
      <3>. HIDE DEF y
      <3>2. y % SlotSize = y
        BY <3>1, SmallDivMod
      <3>3. y \in Int
        BY <3>1
      <3>4. (y + SlotSize) % SlotSize = y % SlotSize
        BY <3>3, OneRoundMore
      <3>. QED
        BY <2>2, <3>1, <3>2, <3>4 DEF y
    <2>. QED
      BY <2>1, <2>2
  <1>. QED
    BY <1>3, <1>4

-----------------------------------------------------------------------------
\* IInv holds in the initial state.
LEMMA InitIInv == Init => IInv
  <1>. SUFFICES ASSUME Init PROVE IInv
    OBVIOUS
  <1>1. TypeOK
    BY WheelAssumption DEF Init, TypeOK, Positions
  <1>2. Placement /\ NextIsBound
    BY DEF Init, Placement, NextIsBound, Linked
  <1>3. NextInRound /\ ClockOrder
    BY WheelAssumption DEF Init, NextInRound, ClockOrder
  <1>. QED
    BY <1>1, <1>2, <1>3 DEF IInv

\* The parts of IInv that no step may lose, given to the step lemmas as a whole.
LEMMA IInvParts ==
    IInv => /\ TypeOK /\ Placement /\ NextInRound /\ NextIsBound /\ ClockOrder
            /\ expired \in [Timers -> Int] /\ curr \in Int /\ next \in Int /\ now \in Int
            /\ lowPos \in 0 .. SlotSize - 1 /\ highPos \in 0 .. SlotSize - 1
            /\ \A t \in Timers : slot[t] \in ({"low", "high"} \X Positions) \cup {Unlinked}
  BY DEF IInv, TypeOK, Positions

\* A timer in a list is linked.
LEMMA ListsAreNotUnlinked ==
    ASSUME NEW l \in {"low", "high"}, NEW i \in 0 .. SlotSize - 1
    PROVE  <<l, i>> # Unlinked
  <1>1. <<l, i>> \in {"low", "high"} \X Nat
    BY WheelAssumption
  <1>. QED
    BY <1>1, WheelAssumption

\* The list add_timer chooses exists.
LEMMA SlotForIsSlot ==
    ASSUME NEW i \in Int, lowPos \in Int, highPos \in Int
    PROVE  SlotFor(i) \in {"low", "high"} \X Positions
  <1>. DEFINE q == (i + lowPos) \div SlotSize
  <1>1. (i + lowPos) % SlotSize \in Positions
    BY DivMod DEF Positions
  <1>2. q \in Int
    BY DivMod
  <1>. HIDE DEF q
  <1>3. (q - 1 + highPos) % SlotSize \in Positions
    BY <1>2, DivMod DEF Positions
  <1>. QED
    BY <1>1, <1>3 DEF SlotFor, q

\* add_timer puts a timer where Placement wants it.
LEMMA AddTimerIInv ==
    ASSUME IInv, NEW t \in Timers, NEW e \in Int, AddTimer(t, e)
    PROVE  IInv'
  <1>. USE WheelAssumption
  <1>a. /\ TypeOK /\ Placement /\ NextInRound /\ NextIsBound /\ ClockOrder
        /\ expired \in [Timers -> Int] /\ curr \in Int /\ next \in Int /\ now \in Int
        /\ lowPos \in 0 .. SlotSize - 1 /\ highPos \in 0 .. SlotSize - 1
    BY IInvParts
  <1>b. /\ expired' = [expired EXCEPT ![t] = e]
        /\ slot[t] = Unlinked /\ pc \in {"idle", "callback"}
        /\ UNCHANGED <<curr, lowPos, highPos, now, pc>>
    BY DEF AddTimer
  <1>c. \A s \in Timers : expired'[s] = IF s = t THEN e ELSE expired[s]
    BY <1>a, <1>b
  <1>1. CASE ~Accepts(e - curr)
    <2>1. UNCHANGED <<slot, next>>
      BY <1>1 DEF AddTimer
    <2>2. TypeOK'
      BY <1>a, <1>b, <2>1 DEF TypeOK
    <2>3. \A s \in Linked' : s \in Linked /\ s # t /\ expired'[s] = expired[s]
      BY <1>b, <1>c, <2>1 DEF Linked
    <2>4. Placement' /\ NextIsBound'
      BY <1>a, <1>b, <2>1, <2>3
         DEF Placement, NextIsBound, InLowSlot, InHighSlot, Offset
    <2>5. NextInRound' /\ ClockOrder'
      BY <1>a, <1>b, <2>1 DEF NextInRound, ClockOrder
    <2>. QED
      BY <2>2, <2>4, <2>5 DEF IInv
  <1>2. CASE Accepts(e - curr)
    <2>1. /\ slot' = [slot EXCEPT ![t] = SlotFor(e - curr)]
          /\ next' = IF next > e THEN e ELSE next
      BY <1>2 DEF AddTimer
    <2>2. /\ 1 <= e - curr /\ e - curr <= SlotSize * SlotSize
          /\ e - curr + lowPos \in Int
      BY <1>2, <1>a DEF Accepts, MaxExpired
    <2>3. SlotFor(e - curr) \in {"low", "high"} \X Positions
      BY <1>a, <2>2, SlotForIsSlot
    <2>4. TypeOK'
      BY <1>a, <1>b, <2>1, <2>3 DEF TypeOK
    <2>5. slot'[t] = SlotFor(e - curr) /\ \A s \in Timers \ {t} : slot'[s] = slot[s]
      BY <1>a, <2>1 DEF TypeOK
    <2>6. Offset(t)' = e - curr + lowPos
      BY <1>a, <1>b, <1>c DEF Offset
    <2>7. (InLowSlot(t) \/ InHighSlot(t))'
      <3>1. CASE e - curr < SlotSize
        BY <3>1, <1>a, <1>b, <1>c, <2>2, <2>5, <2>6 DEF SlotFor, InLowSlot
      <3>2. CASE e - curr >= SlotSize
        <4>1. SlotSize <= e - curr + lowPos /\ e - curr + lowPos < SlotSize * (SlotSize + 1)
          BY <3>2, <1>a, <2>2
        <4>. QED
          BY <4>1, <3>2, <1>a, <1>b, <2>5, <2>6 DEF SlotFor, InHighSlot
      <3>. QED
        BY <3>1, <3>2, <1>a
    <2>8. \A s \in Linked' : s = t \/ (s \in Linked /\ s \in Timers \ {t})
      BY <2>5 DEF Linked
    <2>9. Placement'
      <3>. SUFFICES ASSUME NEW s \in Linked', s # t
                    PROVE  (InLowSlot(s) \/ InHighSlot(s))'
        BY <2>7 DEF Placement
      <3>. QED
        BY <1>a, <1>b, <1>c, <2>5, <2>8 DEF Placement, InLowSlot, InHighSlot, Offset
    <2>10. NextIsBound'
      BY <1>a, <1>c, <2>1, <2>8 DEF NextIsBound
    <2>11. NextInRound' /\ ClockOrder'
      BY <1>a, <1>b, <2>1, <2>2 DEF NextInRound, ClockOrder
    <2>. QED
      BY <2>4, <2>9, <2>10, <2>11 DEF IInv
  <1>. QED
    BY <1>1, <1>2

\* A step that unlinks one timer and leaves the wheel alone.
LEMMA UnlinkIInv ==
    ASSUME IInv, NEW t \in Timers,
           slot' = [slot EXCEPT ![t] = Unlinked],
           UNCHANGED <<expired, curr, next, lowPos, highPos, now>>
    PROVE  /\ Placement' /\ NextInRound' /\ NextIsBound'
           /\ pc' \in {"idle", "serving", "callback"} => TypeOK'
  <1>1. \A s \in Timers : slot'[s] = IF s = t THEN Unlinked ELSE slot[s]
    BY DEF IInv, TypeOK
  <1>2. \A s \in Linked' : s \in Linked /\ slot'[s] = slot[s]
    BY <1>1 DEF Linked
  <1>3. Placement'
    BY <1>2, IInvParts DEF Placement, InLowSlot, InHighSlot, Offset
  <1>4. NextInRound' /\ NextIsBound'
    BY <1>2, IInvParts DEF NextInRound, NextIsBound
  <1>5. pc' \in {"idle", "serving", "callback"} => TypeOK'
    BY IInvParts DEF TypeOK
  <1>. QED
    BY <1>3, <1>4, <1>5

\* The skip of run_until stays inside the round and before the first timer.
LEMMA RunUntilIInv ==
    ASSUME IInv, NEW n \in Int, now < n, RunUntil(n)
    PROVE  IInv'
  <1>. USE WheelAssumption
  <1>a. /\ TypeOK /\ Placement /\ NextInRound /\ NextIsBound /\ ClockOrder
        /\ expired \in [Timers -> Int] /\ curr \in Int /\ next \in Int /\ now \in Int
        /\ lowPos \in 0 .. SlotSize - 1 /\ highPos \in 0 .. SlotSize - 1
    BY IInvParts
  <1>. DEFINE s == Skip(n)
  <1>1. /\ curr = now /\ curr <= next
        /\ curr' = curr + s
        /\ highPos' = (highPos + ((lowPos + s) \div SlotSize)) % SlotSize
        /\ lowPos' = (lowPos + s) % SlotSize
        /\ now' = n /\ pc' = "serving"
        /\ UNCHANGED <<expired, slot, next>>
    BY <1>a DEF RunUntil, ClockOrder
  <1>2. /\ s \in Nat
        /\ curr + s <= n
        /\ s = 0 \/ curr + s < next
    BY <1>a, <1>1 DEF Skip
  <1>. HIDE DEF s
  <1>3. lowPos + s \in 0 .. SlotSize - 1
    BY <1>a, <1>2 DEF NextInRound
  <1>4. lowPos' = lowPos + s /\ highPos' = highPos
    <2>1. (lowPos + s) % SlotSize = lowPos + s /\ (lowPos + s) \div SlotSize = 0
      BY <1>3, SmallDivMod
    <2>2. highPos % SlotSize = highPos
      BY <1>a, SmallDivMod
    <2>. QED
      BY <1>1, <1>a, <2>1, <2>2
  <1>5. Linked' = Linked /\ \A t \in Linked : t \in Timers /\ expired[t] \in Int
    BY <1>a, <1>1 DEF Linked
  <1>6. \A t \in Linked : Offset(t)' = Offset(t) /\ curr' <= expired[t]
    <2>. SUFFICES ASSUME NEW t \in Linked
                  PROVE  Offset(t)' = Offset(t) /\ curr' <= expired[t]
      OBVIOUS
    <2>1. Offset(t)' = Offset(t)
      BY <1>a, <1>1, <1>2, <1>4, <1>5 DEF Offset
    <2>2. next <= expired[t]
      BY <1>a DEF NextIsBound
    <2>3. curr' <= expired[t]
      BY <2>2, <1>a, <1>1, <1>2, <1>5
    <2>. QED
      BY <2>1, <2>3
  <1>7. Placement'
    <2>. SUFFICES ASSUME NEW t \in Linked
                  PROVE  (InLowSlot(t) \/ InHighSlot(t))'
      BY <1>5 DEF Placement
    <2>1. CASE InLowSlot(t)
      BY <2>1, <1>a, <1>1, <1>2, <1>5, <1>6 DEF InLowSlot
    <2>2. CASE InHighSlot(t)
      BY <2>2, <1>1, <1>4, <1>6 DEF InHighSlot
    <2>. QED
      BY <2>1, <2>2, <1>a DEF Placement
  <1>8. TypeOK'
    BY <1>a, <1>1, <1>2, <1>3, <1>4 DEF TypeOK, Positions
  <1>9. NextInRound' /\ NextIsBound' /\ ClockOrder'
    BY <1>a, <1>1, <1>2, <1>4, <1>5 DEF NextInRound, NextIsBound, ClockOrder
  <1>. QED
    BY <1>7, <1>8, <1>9 DEF IInv

\* A timer in the slot being run expires at the current tick, and one that
\* expires at the current tick is in that slot.
LEMMA CurrentSlot ==
    ASSUME IInv, NEW t \in Linked
    PROVE  slot[t] = <<"low", lowPos>> <=> expired[t] = curr
  <1>. USE WheelAssumption
  <1>a. /\ expired[t] \in Int /\ curr \in Int /\ lowPos \in 0 .. SlotSize - 1
        /\ InLowSlot(t) \/ InHighSlot(t)
    BY IInvParts DEF Placement, Linked
  <1>. DEFINE d == expired[t] - curr
  <1>1. d \in Int /\ Offset(t) = d + lowPos /\ (expired[t] = curr <=> d = 0)
    BY <1>a DEF Offset
  <1>2. CASE InLowSlot(t)
    <2>1. d \in 0 .. SlotSize - 1 /\ slot[t] = <<"low", (d + lowPos) % SlotSize>>
      BY <1>2, <1>a, <1>1 DEF InLowSlot
    <2>. HIDE DEF d
    <2>2. CASE d + lowPos < SlotSize
      <3>1. (d + lowPos) % SlotSize = d + lowPos
        BY <2>1, <2>2, <1>a, SmallDivMod
      <3>. QED
        BY <3>1, <2>1, <1>a, <1>1
    <2>3. CASE d + lowPos >= SlotSize
      <3>. DEFINE y == d + lowPos - SlotSize
      <3>1. y \in 0 .. SlotSize - 1 /\ y \in Int /\ d + lowPos = y + SlotSize /\ y < lowPos
        BY <2>1, <2>3, <1>a
      <3>. HIDE DEF y
      <3>2. y % SlotSize = y
        BY <3>1, SmallDivMod
      <3>3. (y + SlotSize) % SlotSize = y % SlotSize
        BY <3>1, OneRoundMore
      <3>. QED
        BY <3>1, <3>2, <3>3, <2>1, <2>3, <1>a, <1>1
    <2>. QED
      BY <2>1, <2>2, <2>3, <1>a
  <1>3. CASE InHighSlot(t)
    BY <1>3, <1>a, <1>1 DEF InHighSlot
  <1>. QED
    BY <1>a, <1>2, <1>3

\* The current slot is empty: no pending timer expires at the current tick.
LEMMA EmptySlot ==
    ASSUME IInv, At("low", lowPos) = {}
    PROVE  \A t \in Linked : expired[t] \in Int /\ curr + 1 <= expired[t]
  <1>. SUFFICES ASSUME NEW t \in Linked
                PROVE  expired[t] \in Int /\ curr + 1 <= expired[t]
    OBVIOUS
  <1>1. slot[t] # <<"low", lowPos>>
    BY DEF At, Linked
  <1>2. expired[t] # curr
    BY <1>1, CurrentSlot
  <1>3. curr <= expired[t] /\ expired[t] \in Int /\ curr \in Int
    BY IInvParts, WheelAssumption DEF Placement, InLowSlot, InHighSlot, Offset, Linked
  <1>. QED
    BY <1>2, <1>3

\* A tick inside a round.
LEMMA TickInRound ==
    ASSUME IInv, NextTick, lowPos # SlotSize - 1
    PROVE  IInv'
  <1>. USE WheelAssumption
  <1>a. /\ TypeOK /\ Placement /\ NextInRound /\ NextIsBound /\ ClockOrder
        /\ expired \in [Timers -> Int] /\ curr \in Int /\ next \in Int /\ now \in Int
        /\ lowPos \in 0 .. SlotSize - 1 /\ highPos \in 0 .. SlotSize - 1
    BY IInvParts
  <1>1. lowPos + 1 \in 0 .. SlotSize - 1 /\ (lowPos + 1) % SlotSize = lowPos + 1
    <2>1. lowPos + 1 \in 0 .. SlotSize - 1
      BY <1>a
    <2>. QED
      BY <2>1, SmallDivMod
  <1>2. /\ pc = "serving" /\ curr < now /\ At("low", lowPos) = {}
        /\ curr' = curr + 1 /\ lowPos' = lowPos + 1
        /\ UNCHANGED <<expired, slot, next, highPos, now, pc>>
    BY <1>1, <1>a DEF NextTick
  <1>3. \A t \in Linked : expired[t] \in Int /\ curr + 1 <= expired[t]
    BY <1>2, EmptySlot
  <1>4. Linked' = Linked
    BY <1>2 DEF Linked
  <1>5. Placement'
    <2>. SUFFICES ASSUME NEW t \in Linked
                  PROVE  (InLowSlot(t) \/ InHighSlot(t))'
      BY <1>4 DEF Placement
    <2>1. Offset(t)' = Offset(t)
      BY <1>a, <1>2, <1>3 DEF Offset
    <2>2. CASE InLowSlot(t)
      BY <2>1, <2>2, <1>a, <1>2, <1>3 DEF InLowSlot
    <2>3. CASE InHighSlot(t)
      BY <2>1, <2>3, <1>2 DEF InHighSlot
    <2>. QED
      BY <2>2, <2>3, <1>a DEF Placement
  <1>6. TypeOK'
    BY <1>a, <1>1, <1>2 DEF TypeOK, Positions
  <1>7. NextInRound' /\ NextIsBound' /\ ClockOrder'
    BY <1>a, <1>2, <1>4 DEF NextInRound, NextIsBound, ClockOrder
  <1>. QED
    BY <1>5, <1>6, <1>7 DEF IInv

\* The tick that ends a round: the timers of the next high slot cascade into the
\* low array, those of the other high slots are a round nearer where they are.
LEMMA TickAndCascade ==
    ASSUME IInv, NextTick, lowPos = SlotSize - 1
    PROVE  IInv'
  <1>. USE WheelAssumption
  <1>a. /\ TypeOK /\ Placement /\ NextInRound /\ NextIsBound /\ ClockOrder
        /\ expired \in [Timers -> Int] /\ curr \in Int /\ next \in Int /\ now \in Int
        /\ lowPos \in 0 .. SlotSize - 1 /\ highPos \in 0 .. SlotSize - 1
        /\ \A t \in Timers : slot[t] \in ({"low", "high"} \X Positions) \cup {Unlinked}
    BY IInvParts
  <1>1. (lowPos + 1) % SlotSize = 0
    <2>1. (0 + SlotSize) % SlotSize = 0 % SlotSize /\ 0 % SlotSize = 0
      BY SmallDivMod, OneRoundMore
    <2>. QED
      BY <2>1
  <1>2. /\ pc = "serving" /\ curr < now /\ At("low", lowPos) = {}
        /\ curr' = curr + 1 /\ lowPos' = 0
        /\ slot' = [t \in Timers |->
                      IF slot[t] = <<"high", highPos>> THEN CascadeSlot(t, curr', lowPos')
                      ELSE slot[t]]
        /\ highPos' = (highPos + 1) % SlotSize
        /\ UNCHANGED <<expired, next, now, pc>>
    BY <1>1 DEF NextTick
  <1>3. \A t \in Linked : expired[t] \in Int /\ curr + 1 <= expired[t]
    BY <1>2, EmptySlot
  <1>4. \A t \in Timers : (expired[t] - curr' + lowPos') % SlotSize \in Positions
    <2>. SUFFICES ASSUME NEW t \in Timers
                  PROVE  (expired[t] - curr' + lowPos') % SlotSize \in Positions
      OBVIOUS
    <2>1. expired[t] - curr' + lowPos' \in Int
      BY <1>a, <1>2
    <2>. QED
      BY <2>1, DivMod DEF Positions
  <1>5. TypeOK'
    <2>1. highPos' \in Positions
      BY <1>a, <1>2, DivMod DEF Positions
    <2>2. slot' \in [Timers -> ({"low", "high"} \X Positions) \cup {Unlinked}]
      BY <1>a, <1>2, <1>4 DEF CascadeSlot
    <2>. QED
      BY <1>a, <1>2, <2>1, <2>2 DEF TypeOK, Positions
  <1>6. Linked' \subseteq Linked
    <2>1. \A i \in Positions : <<"high", i>> # Unlinked
      BY DEF Positions
    <2>. QED
      BY <2>1, <1>a, <1>2 DEF Linked, Positions
  <1>7. Placement'
    <2>. SUFFICES ASSUME NEW t \in Linked
                  PROVE  (InLowSlot(t) \/ InHighSlot(t))'
      BY <1>6 DEF Placement
    <2>. DEFINE o == Offset(t)
                p == Offset(t)'
    <2>1. /\ t \in Timers /\ o \in Int /\ p \in Int /\ o = p + SlotSize
          /\ p = expired[t] - curr' /\ curr' \in Int /\ expired' = expired
          /\ expired[t] \in Int /\ curr' <= expired[t] /\ curr' = curr + 1
      BY <1>a, <1>2, <1>3 DEF Offset, Linked
    <2>2. InLowSlot(t) \/ InHighSlot(t)
      BY <1>a DEF Placement
    <2>3. o % SlotSize = p % SlotSize /\ o \div SlotSize = (p \div SlotSize) + 1
      BY <2>1, OneRoundMore
    <2>4. CASE InLowSlot(t)
      <3>1. slot'[t] = <<"low", o % SlotSize>>
        BY <2>4, <2>1, <1>2 DEF InLowSlot
      <3>2. expired[t] < curr' + SlotSize
        BY <2>4, <2>1, <1>a DEF InLowSlot
      <3>. QED
        BY <3>1, <3>2, <2>1, <2>3 DEF InLowSlot
    <2>5. CASE InHighSlot(t)
      <3>. DEFINE q == o \div SlotSize
      <3>1. /\ SlotSize <= o /\ o < SlotSize * (SlotSize + 1)
            /\ slot[t] = <<"high", (q - 1 + highPos) % SlotSize>>
        BY <2>5 DEF InHighSlot
      <3>. HIDE DEF o, p
      <3>2. q \in 1 .. SlotSize /\ (q = 1 <=> o < 2 * SlotSize)
        BY <3>1, <2>1, RoundsAway
      <3>3. p \div SlotSize = q - 1
        BY <2>1, <2>3, <3>2
      <3>. HIDE DEF q
      <3>4. /\ (q - 1 + highPos) % SlotSize = highPos <=> q = 1
            /\ ((q - 1) - 1 + highPos') % SlotSize = (q - 1 + highPos) % SlotSize
        BY <3>2, <1>a, <1>2, HighRing DEF Positions
      <3>5. CASE q = 1
        <4>1. slot'[t] = <<"low", p % SlotSize>>
          BY <3>1, <3>4, <3>5, <2>1, <1>2 DEF CascadeSlot
        <4>2. expired[t] < curr' + SlotSize
          BY <3>2, <3>5, <2>1
        <4>. QED
          BY <4>1, <4>2, <2>1 DEF InLowSlot, p
      <3>6. CASE q # 1
        <4>1. slot'[t] = slot[t]
          BY <3>1, <3>4, <3>6, <2>1, <1>2
        <4>2. SlotSize <= p /\ p < SlotSize * (SlotSize + 1)
          BY <3>1, <3>2, <3>6, <2>1
        <4>. QED
          BY <4>1, <4>2, <3>1, <3>3, <3>4 DEF InHighSlot, p
      <3>. QED
        BY <3>5, <3>6
    <2>. QED
      BY <2>2, <2>4, <2>5
  <1>8. NextInRound' /\ NextIsBound' /\ ClockOrder'
    BY <1>a, <1>2, <1>6 DEF NextInRound, NextIsBound, ClockOrder
  <1>. QED
    BY <1>5, <1>7, <1>8 DEF IInv

\* When run_until returns, the bound it recomputes is the first pending timer of
\* the round or the end of the round.
LEMMA RunReturnIInv ==
    ASSUME IInv, RunReturn
    PROVE  IInv'
  <1>. USE WheelAssumption
  <1>a. /\ TypeOK /\ Placement /\ NextInRound /\ NextIsBound /\ ClockOrder
        /\ expired \in [Timers -> Int] /\ curr \in Int /\ next \in Int /\ now \in Int
        /\ lowPos \in 0 .. SlotSize - 1 /\ highPos \in 0 .. SlotSize - 1
    BY IInvParts
  <1>1. /\ pc = "serving" /\ pc' = "idle" /\ curr = now
        /\ UNCHANGED <<expired, slot, curr, lowPos, highPos, now>>
    BY <1>a DEF RunReturn, ClockOrder
  <1>2. Linked' = Linked /\ Placement'
    BY <1>a, <1>1 DEF Linked, Placement, InLowSlot, InHighSlot, Offset
  <1>3. CASE next >= curr
    <2>1. next' = next
      BY <1>3, <1>a DEF RunReturn
    <2>. QED
      BY <2>1, <1>a, <1>1, <1>2, <1>3
         DEF IInv, TypeOK, NextInRound, NextIsBound, ClockOrder
  <1>4. CASE next < curr
    <2>1. PICK i \in lowPos .. SlotSize : NearestSlot(i) /\ next' = curr + i - lowPos
      BY <1>4 DEF RunReturn
    <2>2. next' \in Int /\ curr <= next' /\ next' <= (curr - lowPos) + SlotSize
      BY <2>1, <1>a
    <2>3. ASSUME NEW t \in Linked
          PROVE  next' <= expired[t]
      <3>1. expired[t] \in Int /\ (InLowSlot(t) \/ InHighSlot(t))
        BY <1>a DEF Linked, Placement
      <3>2. CASE Offset(t) >= SlotSize
        BY <3>1, <3>2, <2>2, <1>a DEF Offset
      <3>3. CASE Offset(t) < SlotSize
        <4>1. InLowSlot(t) /\ Offset(t) \in lowPos .. SlotSize - 1
          BY <3>1, <3>3, <1>a DEF InLowSlot, InHighSlot, Offset
        <4>2. Offset(t) \in 0 .. SlotSize - 1
          BY <4>1, <1>a
        <4>3. slot[t] = <<"low", Offset(t)>>
          BY <4>1, <4>2, SmallDivMod DEF InLowSlot
        <4>4. t \in At("low", Offset(t))
          BY <4>3 DEF At, Linked
        <4>5. i <= Offset(t)
          <5>. SUFFICES ASSUME i > Offset(t) PROVE FALSE
            BY <2>1, <4>2, <1>a
          <5>1. Offset(t) \in lowPos .. i - 1
            BY <4>1, <4>2, <2>1, <1>a
          <5>. QED
            BY <5>1, <4>1, <4>4, <2>1 DEF NearestSlot
        <4>. QED
          BY <4>2, <4>5, <3>1, <2>1, <1>a DEF Offset
      <3>. QED
        BY <3>2, <3>3, <3>1, <1>a DEF Offset
    <2>. QED
      BY <2>2, <2>3, <1>a, <1>1, <1>2
         DEF IInv, TypeOK, NextInRound, NextIsBound, ClockOrder
  <1>. QED
    BY <1>3, <1>4, <1>a

\* Every step preserves IInv.
LEMMA NextIInv == IInv /\ [Next]_vars => IInv'
  <1>. SUFFICES ASSUME IInv, [Next]_vars PROVE IInv'
    OBVIOUS
  <1>a. ClockOrder /\ TypeOK /\ now \in Int /\ lowPos \in 0 .. SlotSize - 1
    BY IInvParts
  <1>1. ASSUME NEW t \in Timers, NEW d \in Delays, AddTimer(t, now + d)
        PROVE  IInv'
    <2>1. now + d \in Int
      BY <1>a, WheelAssumption
    <2>. QED
      BY <1>1, <2>1, AddTimerIInv
  <1>2. ASSUME NEW t \in Timers, DelTimer(t)
        PROVE  IInv'
    <2>1. Placement' /\ NextInRound' /\ NextIsBound' /\ TypeOK'
      BY <1>2, <1>a, UnlinkIInv DEF DelTimer
    <2>2. ClockOrder'
      BY <1>2, <1>a DEF DelTimer, ClockOrder
    <2>. QED
      BY <2>1, <2>2 DEF IInv
  <1>3. ASSUME NEW t \in Timers, ExpireTimer(t)
        PROVE  IInv'
    <2>1. Placement' /\ NextInRound' /\ NextIsBound' /\ TypeOK'
      BY <1>3, UnlinkIInv DEF ExpireTimer
    <2>2. ClockOrder'
      BY <1>3, <1>a DEF ExpireTimer, ClockOrder
    <2>. QED
      BY <2>1, <2>2 DEF IInv
  <1>4. ASSUME NEW d \in Steps, RunUntil(now + d)
        PROVE  IInv'
    <2>1. now + d \in Int /\ now < now + d
      BY <1>a, WheelAssumption
    <2>. QED
      BY <1>4, <2>1, RunUntilIInv
  <1>5. CASE CallbackReturn
    <2>1. ClockOrder' /\ TypeOK'
      BY <1>5, <1>a, IInvParts DEF CallbackReturn, ClockOrder, TypeOK
    <2>2. Placement' /\ NextInRound' /\ NextIsBound'
      BY <1>5, IInvParts DEF CallbackReturn, Placement, NextInRound, NextIsBound,
                             Linked, InLowSlot, InHighSlot, Offset
    <2>. QED
      BY <2>1, <2>2 DEF IInv
  <1>6. CASE NextTick
    BY <1>6, TickInRound, TickAndCascade
  <1>7. CASE RunReturn
    BY <1>7, RunReturnIInv
  <1>8. CASE UNCHANGED vars
    BY <1>8 DEF vars, IInv, TypeOK, Placement, NextInRound, NextIsBound, ClockOrder,
                Linked, InLowSlot, InHighSlot, Offset
  <1>. QED
    BY <1>1, <1>2, <1>3, <1>4, <1>5, <1>6, <1>7, <1>8 DEF Next

\* IInv is an invariant of the wheel.
LEMMA IInvHolds == SafetySpec => []IInv
  BY InitIInv, NextIInv, PTL DEF SafetySpec

-----------------------------------------------------------------------------
\* Every variable keeps its type (timer_manager.h:144-153).
THEOREM TypeCorrect == SafetySpec => []TypeOK
  <1>1. IInv => TypeOK
    BY DEF IInv
  <1>. QED
    BY <1>1, IInvHolds, PTL

\* Every pending timer is in the one slot the wheel runs, or cascades, in time.
THEOREM PlacedRight == SafetySpec => []Placement
  <1>1. IInv => Placement
    BY DEF IInv
  <1>. QED
    BY <1>1, IInvHolds, PTL

\* When run_until(now) has returned, no timer that expired before now is pending.
THEOREM NothingOverdue == SafetySpec => []NoneOverdue
  <1>1. IInv => NoneOverdue
    <2>. SUFFICES ASSUME IInv, pc = "idle", NEW t \in Linked
                  PROVE  expired[t] >= now
      BY DEF NoneOverdue
    <2>. QED
      BY IInvParts DEF NextIsBound, ClockOrder, Linked
  <1>. QED
    BY <1>1, IInvHolds, PTL

\* The main loop never asks epoll to wait past a pending timer, nor for ever.
THEOREM LoopWakesInTime == SafetySpec => []WakeUpInTime
  <1>1. IInv => WakeUpInTime
    BY IInvParts DEF NextIsBound, ClockOrder, WakeUpInTime
  <1>. QED
    BY <1>1, IInvHolds, PTL

\* A timer is called back at its own tick and when that tick is over.
THEOREM CallbacksNotEarly == SafetySpec => NeverEarly
  <1>1. IInv /\ [Next]_vars =>
          [\A t \in Timers : ExpireTimer(t) => expired[t] = curr /\ expired[t] < now]_vars
    <2>. SUFFICES ASSUME IInv, NEW t \in Timers, ExpireTimer(t)
                  PROVE  expired[t] = curr /\ expired[t] < now
      OBVIOUS
    <2>1. t \in Linked /\ slot[t] = <<"low", lowPos>> /\ curr < now
      BY IInvParts, ListsAreNotUnlinked DEF ExpireTimer, Linked
    <2>. QED
      BY <2>1, CurrentSlot
  <1>. QED
    BY <1>1, IInvHolds, PTL DEF SafetySpec, NeverEarly

-----------------------------------------------------------------------------
\* Every step of the wheel is a step of TimerService or leaves it unchanged.
LEMMA StepRefines == IInv /\ IInv' /\ [Next]_vars => [Service!Next]_(Service!svars)
  <1>. SUFFICES ASSUME IInv, IInv', [Next]_vars
                PROVE  [Service!Next]_(Service!svars)
    OBVIOUS
  <1>. USE WheelAssumption
  <1>a. /\ TypeOK /\ Placement /\ NextInRound /\ NextIsBound /\ ClockOrder
        /\ expired \in [Timers -> Int] /\ curr \in Int /\ next \in Int /\ now \in Int
        /\ lowPos \in 0 .. SlotSize - 1 /\ highPos \in 0 .. SlotSize - 1
        /\ \A t \in Timers : slot[t] \in ({"low", "high"} \X Positions) \cup {Unlinked}
    BY IInvParts
  <1>b. /\ Linked = Service!Armed
        /\ \A t \in Timers : Deadlines[t] = Unlinked <=> slot[t] = Unlinked
        /\ \A t \in Linked : t \in Timers /\ Deadlines[t] = expired[t]
    BY <1>a DEF Deadlines, Linked, Service!Armed
  <1>c. ASSUME NEW c \in Int, \A t \in Linked : c <= expired[t]
        PROVE  Service!NoneBefore(c)
    BY <1>a, <1>b, <1>c DEF Service!NoneBefore, Linked
  <1>d. ASSUME Deadlines' = Deadlines, UNCHANGED <<curr, now, pc>>
        PROVE  UNCHANGED Service!svars
    BY <1>d DEF Service!svars
  <1>1. ASSUME NEW t \in Timers, NEW d \in Delays, AddTimer(t, now + d)
        PROVE  [Service!Next]_(Service!svars)
    <2>. DEFINE e == now + d
    <2>1. /\ e \in Int /\ pc \in {"idle", "callback"} /\ slot[t] = Unlinked
          /\ expired' = [expired EXCEPT ![t] = e]
          /\ UNCHANGED <<curr, lowPos, highPos, now, pc>>
      BY <1>1, <1>a DEF AddTimer
    <2>2. CASE ~Accepts(e - curr)
      <3>1. slot' = slot
        BY <1>1, <2>2 DEF AddTimer
      <3>2. Deadlines' = Deadlines
        BY <2>1, <3>1, <1>a DEF Deadlines
      <3>. QED
        BY <2>1, <3>2, <1>d
    <2>3. CASE Accepts(e - curr)
      <3>1. slot' = [slot EXCEPT ![t] = SlotFor(e - curr)]
        BY <1>1, <2>3 DEF AddTimer
      <3>2. SlotFor(e - curr) # Unlinked
        BY <2>1, <1>a, SlotForIsSlot DEF Positions
      <3>3. Deadlines' = [Deadlines EXCEPT ![t] = e]
        BY <2>1, <3>1, <3>2, <1>a DEF Deadlines, TypeOK
      <3>4. e \in curr + 1 .. curr + MaxExpired
        BY <2>1, <2>3, <1>a DEF Accepts, MaxExpired
      <3>5. Service!Arm(t, e)
        BY <2>1, <3>3, <3>4, <1>a, <1>b DEF Service!Arm, MaxExpired
      <3>. QED
        BY <3>4, <3>5 DEF Service!Next
    <2>. QED
      BY <2>2, <2>3
  <1>2. ASSUME NEW t \in Timers, DelTimer(t)
        PROVE  [Service!Next]_(Service!svars)
    <2>1. Deadlines' = [Deadlines EXCEPT ![t] = Unlinked]
      BY <1>2, <1>a DEF DelTimer, Deadlines, TypeOK
    <2>2. Service!Cancel(t)
      BY <1>2, <2>1 DEF DelTimer, Service!Cancel
    <2>. QED
      BY <2>2 DEF Service!Next
  <1>3. ASSUME NEW t \in Timers, ExpireTimer(t)
        PROVE  [Service!Next]_(Service!svars)
    <2>1. t \in Linked /\ slot[t] = <<"low", lowPos>>
      BY <1>3, <1>a, ListsAreNotUnlinked DEF ExpireTimer, Linked
    <2>2. Deadlines[t] = curr
      BY <2>1, <1>b, CurrentSlot
    <2>3. Deadlines' = [Deadlines EXCEPT ![t] = Unlinked]
      BY <1>3, <1>a DEF ExpireTimer, Deadlines, TypeOK
    <2>4. Service!Fire(t)
      BY <1>3, <2>2, <2>3 DEF ExpireTimer, Service!Fire
    <2>. QED
      BY <2>4 DEF Service!Next
  <1>4. ASSUME NEW d \in Steps, now + d <= MaxNow, RunUntil(now + d)
        PROVE  [Service!Next]_(Service!svars)
    <2>. DEFINE n == now + d
    <2>1. n \in StartTime .. MaxNow /\ now < n
      <3>1. d \in Nat \ {0} /\ now \in Int /\ StartTime \in Int /\ MaxNow \in Int
        BY <1>a
      <3>2. StartTime <= now /\ now + d <= MaxNow
        BY <1>4, <1>a DEF ClockOrder
      <3>. QED
        BY <3>1, <3>2
    <2>2. /\ pc = "idle" /\ pc' = "serving" /\ now' = n /\ curr = now
          /\ curr' = curr + Skip(n) /\ UNCHANGED <<expired, slot, next>>
      BY <1>4, <1>a DEF RunUntil, ClockOrder
    <2>3. curr' \in curr .. n
      BY <2>1, <2>2, <1>a DEF Skip
    <2>4. Deadlines' = Deadlines /\ Linked' = Linked
      BY <2>2 DEF Deadlines, Linked
    <2>5. \A t \in Linked : curr' <= expired[t]
      BY <2>2, <2>4, <1>a
         DEF IInv, TypeOK, Placement, InLowSlot, InHighSlot, Offset, Linked, Positions
    <2>6. Service!NoneBefore(curr')
      BY <2>3, <2>5, <1>a, <1>c
    <2>7. Service!Begin(n, curr')
      BY <2>1, <2>2, <2>3, <2>4, <2>6, <1>a DEF Service!Begin
    <2>. QED
      BY <2>1, <2>3, <2>7 DEF Service!Next
  <1>5. CASE CallbackReturn
    <2>1. Deadlines' = Deadlines
      BY <1>5 DEF CallbackReturn, Deadlines
    <2>. QED
      BY <1>5, <2>1 DEF CallbackReturn, Service!Return, Service!Next
  <1>6. CASE NextTick
    <2>1. /\ pc = "serving" /\ curr < now /\ At("low", lowPos) = {}
          /\ curr' = curr + 1 /\ UNCHANGED <<expired, next, now, pc>>
      BY <1>6 DEF NextTick
    <2>2. Deadlines' = Deadlines
      <3>1. \A t \in Timers : slot'[t] = Unlinked <=> slot[t] = Unlinked
        BY <1>6, <1>a DEF NextTick, CascadeSlot, IInv, TypeOK, Positions
      <3>. QED
        BY <2>1, <3>1 DEF Deadlines
    <2>3. \A t \in Linked : curr + 1 <= expired[t]
      BY <2>1, EmptySlot
    <2>4. Service!NoneBefore(curr + 1) /\ curr + 1 \in curr + 1 .. now
      BY <2>1, <2>3, <1>a, <1>c
    <2>5. Service!Advance(curr + 1)
      BY <2>1, <2>2, <2>4, <1>a DEF Service!Advance
    <2>. QED
      BY <2>4, <2>5 DEF Service!Next
  <1>7. CASE RunReturn
    <2>1. Deadlines' = Deadlines
      BY <1>7 DEF RunReturn, Deadlines
    <2>2. pc = "serving" /\ curr = now
      BY <1>7, <1>a DEF RunReturn, ClockOrder
    <2>. QED
      BY <1>7, <2>1, <2>2 DEF RunReturn, Service!End, Service!Next
  <1>8. CASE UNCHANGED vars
    BY <1>8, <1>d DEF vars, Deadlines
  <1>. QED
    BY <1>1, <1>2, <1>3, <1>4, <1>5, <1>6, <1>7, <1>8 DEF Next

\* The timing wheel implements the timer service its header promises.
THEOREM Refinement == SafetySpec => ImplementsService
  <1>1. Init => Service!Init
    BY DEF Init, Service!Init, Deadlines
  <1>. QED
    BY <1>1, StepRefines, IInvHolds, PTL
       DEF SafetySpec, ImplementsService, Service!Spec
=============================================================================
