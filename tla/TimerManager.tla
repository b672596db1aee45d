---------------------------- MODULE TimerManager ----------------------------
(***************************************************************************)
(* framework/timer_manager.{h,cpp}: the two-level timing wheel behind every*)
(* timeout of the framework.  Time is in ticks of one millisecond.  The low*)
(* array has a slot for each of the next SlotSize ticks, the high array a  *)
(* slot for each of the SlotSize rounds after the current one.  run_until  *)
(* is modelled step by step, because the callbacks it makes may add and    *)
(* delete timers while it is walking the wheel.                            *)
(*                                                                         *)
(* A slot's doubly linked list is the set of the timers whose "slot" names *)
(* it: the order inside a list only orders callbacks of the same tick, and *)
(* is left open here.                                                      *)
(***************************************************************************)
EXTENDS Integers

CONSTANTS Timers,      \* the base_timer objects of the program
          SlotSize,    \* m_step_slot_size, 1 << m_step_slot_bits
          StartTime,   \* start_time of init
          Delays,      \* the delays callers add to the clock they read
          Steps,       \* by how much the clock may move between two run_until
          MaxNow,      \* bound: the last time run_until is called with
          Unlinked     \* the "slot" of a timer that is in no list

ASSUME WheelAssumption ==
    /\ SlotSize \in Nat \ {0}
    /\ StartTime \in Int
    /\ MaxNow \in Int
    /\ Delays \subseteq Int
    /\ Steps \subseteq Nat \ {0}
    /\ Unlinked \notin {"low", "high"} \X Nat /\ Unlinked \notin Int

VARIABLES expired,     \* m_expired of each timer
          slot,        \* the list each timer is in: <<"low", i>>, <<"high", i>>
          curr,        \* m_curr_expired: every earlier tick has been run
          next,        \* m_next_expired: no timer expires before it
          lowPos,      \* m_low_pos
          highPos,     \* m_high_pos
          now,         \* the argument of the latest run_until
          pc           \* "idle", "serving" (in run_until), "callback" (in on_timeout)

vars == <<expired, slot, curr, next, lowPos, highPos, now, pc>>

MaxExpired == SlotSize * SlotSize

Positions == 0 .. SlotSize - 1

Linked == {t \in Timers : slot[t] # Unlinked}

At(l, i) == {t \in Timers : slot[t] = <<l, i>>}

Init ==
    /\ expired = [t \in Timers |-> 0]
    /\ slot = [t \in Timers |-> Unlinked]
    /\ curr = StartTime
    /\ next = StartTime + SlotSize
    /\ lowPos = 0
    /\ highPos = 0
    /\ now = StartTime
    /\ pc = "idle"

\* Faults, each of which a property below must catch.
SlotForFromZero(interval) ==
    IF interval >= SlotSize
    THEN <<"high", (((interval + lowPos) \div SlotSize) - 1) % SlotSize>>
    ELSE <<"low", (interval + lowPos) % SlotSize>>

AcceptsAny(interval) == TRUE

SkipPastNext(n) == IF n - curr - 1 > 0 THEN n - curr - 1 ELSE 0

ExpireTimerLinked(t) ==
    /\ pc = "serving"
    /\ curr < now
    /\ slot[t] = <<"low", lowPos>>
    /\ pc' = "callback"
    /\ UNCHANGED <<expired, slot, curr, next, lowPos, highPos, now>>

NearestSlotFar(i) == i = SlotSize

\* The list add_timer chooses for a timer that expires in `interval' ticks.
SlotFor(interval) ==
    IF interval >= SlotSize
    THEN <<"high", (((interval + lowPos) \div SlotSize) - 1 + highPos) % SlotSize>>
    ELSE <<"low", (interval + lowPos) % SlotSize>>

Accepts(interval) == 1 <= interval /\ interval <= MaxExpired

\* set_expired followed by add_timer, the pair every caller uses.  Both refuse
\* a timer that is linked; add_timer refuses an interval out of range.
AddTimer(t, e) ==
    /\ pc \in {"idle", "callback"}
    /\ slot[t] = Unlinked
    /\ expired' = [expired EXCEPT ![t] = e]
    /\ IF Accepts(e - curr)
       THEN /\ slot' = [slot EXCEPT ![t] = SlotFor(e - curr)]
            /\ next' = IF next > e THEN e ELSE next
       ELSE UNCHANGED <<slot, next>>
    /\ UNCHANGED <<curr, lowPos, highPos, now, pc>>

\* del_timer, and the destructor of base_timer.
DelTimer(t) ==
    /\ pc \in {"idle", "callback"}
    /\ slot[t] # Unlinked
    /\ slot' = [slot EXCEPT ![t] = Unlinked]
    /\ UNCHANGED <<expired, curr, next, lowPos, highPos, now, pc>>

\* The ticks run_until(n) jumps over before it walks the wheel.
Skip(n) ==
    LET s == (IF n > next THEN next ELSE n) - curr - 1
    IN  IF s > 0 THEN s ELSE 0

RunUntil(n) ==
    /\ pc = "idle"
    /\ curr' = curr + Skip(n)
    /\ highPos' = (highPos + ((lowPos + Skip(n)) \div SlotSize)) % SlotSize
    /\ lowPos' = (lowPos + Skip(n)) % SlotSize
    /\ now' = n
    /\ pc' = "serving"
    /\ UNCHANGED <<expired, slot, next>>

\* The inner loop unlinks a timer of the current slot and calls it back.
ExpireTimer(t) ==
    /\ pc = "serving"
    /\ curr < now
    /\ slot[t] = <<"low", lowPos>>
    /\ slot' = [slot EXCEPT ![t] = Unlinked]
    /\ pc' = "callback"
    /\ UNCHANGED <<expired, curr, next, lowPos, highPos, now>>

CallbackReturn ==
    /\ pc = "callback"
    /\ pc' = "serving"
    /\ UNCHANGED <<expired, slot, curr, next, lowPos, highPos, now>>

\* The low slot a timer cascades to, at tick c and position p of the wheel.
CascadeSlot(t, c, p) == <<"low", (expired[t] - c + p) % SlotSize>>

\* The current slot is exhausted: the next tick and, at the end of a round, the
\* timers of one high slot move to the low slots.
NextTick ==
    /\ pc = "serving"
    /\ curr < now
    /\ At("low", lowPos) = {}
    /\ curr' = curr + 1
    /\ lowPos' = (lowPos + 1) % SlotSize
    /\ IF lowPos' = 0
       THEN /\ slot' = [t \in Timers |->
                          IF slot[t] = <<"high", highPos>> THEN CascadeSlot(t, curr', lowPos')
                          ELSE slot[t]]
            /\ highPos' = (highPos + 1) % SlotSize
       ELSE UNCHANGED <<slot, highPos>>
    /\ UNCHANGED <<expired, next, now, pc>>

\* The nearest occupied low slot of this round, or the end of the round.
NearestSlot(i) ==
    \/ i = SlotSize /\ \A j \in lowPos .. SlotSize - 1 : At("low", j) = {}
    \/ i < SlotSize /\ At("low", i) # {} /\ \A j \in lowPos .. i - 1 : At("low", j) = {}

RunReturn ==
    /\ pc = "serving"
    /\ curr >= now
    /\ IF next < curr
       THEN \E i \in lowPos .. SlotSize : NearestSlot(i) /\ next' = curr + i - lowPos
       ELSE UNCHANGED next
    /\ pc' = "idle"
    /\ UNCHANGED <<expired, slot, curr, lowPos, highPos, now>>

Next ==
    \/ \E t \in Timers :
        \/ \E d \in Delays : AddTimer(t, now + d)
        \/ DelTimer(t)
        \/ ExpireTimer(t)
    \/ \E d \in Steps : now + d <= MaxNow /\ RunUntil(now + d)
    \/ CallbackReturn
    \/ NextTick
    \/ RunReturn

\* run_until is a loop that runs to its end, its callbacks return, and the main
\* loop calls it again (framework/application.cpp:199-203).
Fairness ==
    /\ WF_vars(\E d \in Steps : now + d <= MaxNow /\ RunUntil(now + d))
    /\ WF_vars((\E t \in Timers : ExpireTimer(t)) \/ NextTick \/ RunReturn)
    /\ WF_vars(CallbackReturn)

SafetySpec == Init /\ [][Next]_vars

Spec == SafetySpec /\ Fairness

-----------------------------------------------------------------------------
\* The type of every variable (timer_manager.h:144-153).
TypeOK ==
    /\ expired \in [Timers -> Int]
    /\ slot \in [Timers -> ({"low", "high"} \X Positions) \cup {Unlinked}]
    /\ curr \in Int
    /\ next \in Int
    /\ lowPos \in Positions
    /\ highPos \in Positions
    /\ now \in Int
    /\ pc \in {"idle", "serving", "callback"}

\* Ticks from the start of the current round of the low array to t's expiry.
Offset(t) == expired[t] - (curr - lowPos)

InLowSlot(t) ==
    /\ slot[t] = <<"low", Offset(t) % SlotSize>>
    /\ curr <= expired[t] /\ expired[t] < curr + SlotSize

InHighSlot(t) ==
    /\ slot[t] = <<"high", ((Offset(t) \div SlotSize) - 1 + highPos) % SlotSize>>
    /\ SlotSize <= Offset(t) /\ Offset(t) < SlotSize * (SlotSize + 1)

\* Every linked timer is in the one slot the wheel will run at its tick: in the
\* low array if it expires within SlotSize ticks, or in the high slot of its round.
\* The two position formulas of add_timer and the one of the cascade (cpp:91, 96,
\* 151) have to agree for it, across skips and wraps.
Placement == \A t \in Linked : InLowSlot(t) \/ InHighSlot(t)

\* Between two calls of run_until no timer is overdue: whatever expired before
\* the time of the last call has been called back (or deleted) by it.
NoneOverdue == pc = "idle" => \A t \in Linked : expired[t] >= now

\* get_next_expired, from which application::start computes the time epoll may
\* block (application.cpp:203), is never later than a pending timer and never in
\* the past: the loop neither sleeps through a timer nor, with a negative
\* timeout, for ever.
WakeUpInTime ==
    pc = "idle" => /\ now <= next
                   /\ \A t \in Linked : next <= expired[t]

\* A callback is never early: the tick of the timer is over when it is called.
NeverEarly ==
    [][\A t \in Timers : ExpireTimer(t) => expired[t] = curr /\ expired[t] < now]_vars

\* run_until returns although callbacks re-arm timers while it walks the wheel.
RunReturns == pc # "idle" ~> pc = "idle"

\* A pending timer is called back (or deleted) once the clock passes it.
Served ==
    \A t \in Timers :
        (slot[t] # Unlinked /\ expired[t] < MaxNow) ~> slot[t] = Unlinked

\* The wheel keeps the promise of TimerService: timers are called back in the
\* order of their deadlines, none early, none passed over, although run_until
\* skips ticks and the callbacks change the wheel under it.
Deadlines == [t \in Timers |-> IF slot[t] = Unlinked THEN Unlinked ELSE expired[t]]

Service == INSTANCE TimerService WITH
    MaxTimeout <- MaxExpired,
    Times <- StartTime .. MaxNow,
    NoDeadline <- Unlinked,
    deadline <- Deadlines,
    served <- curr,
    phase <- pc

ImplementsService == Service!Spec
=============================================================================
