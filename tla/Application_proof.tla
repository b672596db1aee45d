-------------------------- MODULE Application_proof --------------------------
(***************************************************************************)
(* Proofs about Application: its safety properties, for any number of      *)
(* signals at any points, any delays and any bounds.                       *)
(***************************************************************************)
EXTENDS Application, TLAPS

\* The latest stop that was handled may end.
Released == releaseAt # None /\ releaseAt <= clock

\* STATUS_STOP is only ever set when a stop may end.
StopMeansReleased ==
    (status = "STOP" /\ pc \notin {"init", "failed"}) \/ pc \in {"exited", "delayTimer"}
        => Released

\* The delay timer is armed by a stop, and fires no earlier than that stop may end.
DelayTimerIsLate ==
    deadline["delayTimer"] # None =>
        /\ releaseAt # None
        /\ releaseAt <= deadline["delayTimer"] \/ releaseAt <= clock

\* From the handling of a stop on m_timer is neither armed nor called back.
TickCancelled ==
    /\ releaseAt # None \/ pc = "preStop" => deadline["timer"] = None
    /\ releaseAt # None => pc \notin {"init", "timer"}

\* From the reading of now_ms to the wait only the loop's own work moves the clock.
SinceReading ==
    pc \in {"init", "timers", "timer", "delayTimer", "return", "wait"} => clock = now + work

\* Between a wait and the next reading of now_ms no timer is later than 2 ms and the
\* time spent outside epoll_wait.
OnTimeAfterWait ==
    pc \in {"check", "reload", "reloaded", "checkPreStop", "preStop", "checkStop", "loop"}
        => \A t \in Timer!Armed : clock <= deadline[t] + 2 + work

ClockOrder == served <= now /\ now <= clock

\* The inductive invariant.
IInv ==
    /\ TypeOK
    /\ ClockOrder
    /\ StopMeansReleased
    /\ DelayTimerIsLate
    /\ TickCancelled
    /\ SinceReading
    /\ OnTimeAfterWait

LEMMA InitEstablishes == Init => IInv
  <1>. SUFFICES ASSUME Init PROVE IInv
    OBVIOUS
  <1>1. TypeOK
    BY LoopAssumption DEF Init, Timer!Init, TypeOK, LoopTimers
  <1>2. ClockOrder /\ StopMeansReleased /\ SinceReading /\ OnTimeAfterWait
    BY DEF Init, Timer!Init, ClockOrder, StopMeansReleased, SinceReading, OnTimeAfterWait
  <1>3. DelayTimerIsLate /\ TickCancelled
    BY DEF Init, Timer!Init, DelayTimerIsLate, TickCancelled, LoopTimers
  <1>. QED
    BY <1>1, <1>2, <1>3 DEF IInv

\* A step that arms no timer and moves no clock keeps the timers on time.
LEMMA KeepsOnTime ==
    ASSUME OnTimeAfterWait, clock' = clock, work' = work,
           \A t \in LoopTimers : deadline'[t] = deadline[t] \/ deadline'[t] = None,
           pc \in {"check", "reload", "reloaded", "checkPreStop", "preStop", "checkStop",
                   "loop"}
    PROVE  OnTimeAfterWait'
  BY DEF OnTimeAfterWait, Timer!Armed

\* Every step keeps the invariant.
LEMMA StepKeeps == IInv /\ [Next]_vars => IInv'
  <1>. SUFFICES ASSUME IInv, [Next]_vars PROVE IInv'
    OBVIOUS
  <1>. USE LoopAssumption DEF IInv
  <1>1. ASSUME NEW signo \in Signals, OnSignal(signo)
        PROVE  IInv'
    <2>1. TypeOK'
      BY <1>1 DEF OnSignal, TypeOK, timerVars
    <2>2. (ClockOrder /\ DelayTimerIsLate /\ TickCancelled /\ SinceReading /\ OnTimeAfterWait)'
      BY <1>1 DEF OnSignal, timerVars, ClockOrder, SinceReading, DelayTimerIsLate, TickCancelled,
                  OnTimeAfterWait, Timer!Armed
    <2>3. StopMeansReleased'
      BY <1>1 DEF OnSignal, StopMeansReleased, Released, Ended
    <2>. QED
      BY <2>1, <2>2, <2>3
  <1>2. CASE OnInit
    <2>1. releaseAt = None /\ releaseAt' = None /\ clock' = clock /\ pc = "init"
      BY <1>2 DEF OnInit, TickCancelled
    <2>2. CASE pc' = "failed" /\ UNCHANGED <<status, delay, timerVars>>
      <3>1. TypeOK'
        BY <1>2, <2>2 DEF OnInit, TypeOK, timerVars
      <3>. QED
        BY <1>2, <2>1, <2>2, <3>1
           DEF OnInit, timerVars, ClockOrder, SinceReading, StopMeansReleased, DelayTimerIsLate,
               TickCancelled, OnTimeAfterWait
    <2>3. CASE /\ pc' = "loop" /\ status' = "RUN" /\ delay' \in Delays
               /\ Timer!Arm("timer", clock + Interval)
      <3>1. /\ deadline' = [deadline EXCEPT !["timer"] = clock + Interval]
            /\ served' = served /\ now' = now /\ phase' = phase
        BY <2>3 DEF Timer!Arm
      <3>2. TypeOK'
        BY <1>2, <2>3, <3>1 DEF OnInit, TypeOK, LoopTimers
      <3>3. deadline["delayTimer"] = None /\ deadline'["delayTimer"] = None
        BY <2>1, <3>1 DEF DelayTimerIsLate, TypeOK, LoopTimers
      <3>4. OnTimeAfterWait'
        BY <2>1, <3>1, <3>3 DEF OnTimeAfterWait, Timer!Armed, TypeOK, LoopTimers
      <3>. QED
        BY <2>1, <2>3, <3>1, <3>2, <3>3, <3>4
           DEF ClockOrder, SinceReading, StopMeansReleased, DelayTimerIsLate, TickCancelled
    <2>. QED
      BY <1>2, <2>2, <2>3 DEF OnInit
  <1>3. CASE RunUntil
    <2>1. /\ UNCHANGED <<status, delay, clock, sent, asked, releaseAt, deadline>>
          /\ pc = "loop" /\ pc' \in {"timers", "wait"} /\ work' = 0
      BY <1>3 DEF RunUntil, Timer!Begin, timerVars
    <2>2. /\ served' \in Nat /\ now' \in Nat /\ phase' \in {"idle", "serving", "callback"}
          /\ ClockOrder' /\ now' = clock
      <3>1. CASE now = clock /\ UNCHANGED timerVars
        BY <2>1, <3>1 DEF timerVars, ClockOrder, TypeOK
      <3>2. ASSUME NEW c \in served .. clock, Timer!Begin(clock, c)
            PROVE  /\ served' \in Nat /\ now' \in Nat
                   /\ phase' \in {"idle", "serving", "callback"}
                   /\ ClockOrder' /\ now' = clock
        BY <2>1, <3>2 DEF Timer!Begin, ClockOrder, TypeOK
      <3>. QED
        BY <1>3, <3>1, <3>2 DEF RunUntil
    <2>. QED
      BY <2>1, <2>2
         DEF TypeOK, StopMeansReleased, Released, DelayTimerIsLate, TickCancelled,
             SinceReading, OnTimeAfterWait
  <1>4. CASE PassTicks
    <2>1. PICK c \in served + 1 .. now : Timer!Advance(c)
      BY <1>4 DEF PassTicks
    <2>2. /\ UNCHANGED <<status, pc, delay, clock, sent, asked, releaseAt, work, deadline>>
          /\ pc = "timers" /\ served' = c /\ now' = now /\ phase' = phase
      BY <1>4, <2>1 DEF PassTicks, Timer!Advance, loopVars
    <2>. QED
      BY <2>1, <2>2
         DEF TypeOK, ClockOrder, SinceReading, StopMeansReleased, Released, DelayTimerIsLate,
             TickCancelled, OnTimeAfterWait
  <1>5. ASSUME NEW t \in LoopTimers, CallBack(t)
        PROVE  IInv'
    <2>1. /\ UNCHANGED <<status, delay, clock, sent, asked, releaseAt, work>>
          /\ pc = "timers" /\ pc' = t /\ t \in {"timer", "delayTimer"}
          /\ deadline[t] = served /\ served < now
          /\ deadline' = [deadline EXCEPT ![t] = None]
          /\ served' = served /\ now' = now /\ phase' = "callback"
      BY <1>5 DEF CallBack, Timer!Fire, LoopTimers
    <2>2. TypeOK' /\ ClockOrder' /\ SinceReading' /\ OnTimeAfterWait'
      BY <2>1 DEF TypeOK, ClockOrder, SinceReading, OnTimeAfterWait, LoopTimers
    <2>3. deadline[t] \in Nat /\ deadline[t] # None
      BY <2>1 DEF TypeOK
    <2>4. StopMeansReleased'
      BY <2>1, <2>3 DEF StopMeansReleased, Released, DelayTimerIsLate, ClockOrder, TypeOK
    <2>5. DelayTimerIsLate' /\ TickCancelled'
      BY <2>1, <2>3 DEF DelayTimerIsLate, TickCancelled, TypeOK, LoopTimers
    <2>. QED
      BY <2>2, <2>4, <2>5
  <1>6. CASE OnTimeout
    <2>1. /\ UNCHANGED <<status, delay, clock, sent, asked, releaseAt, work>>
          /\ pc = "timer" /\ pc' = "return"
          /\ deadline' = [deadline EXCEPT !["timer"] = clock + Interval]
          /\ served' = served /\ now' = now /\ phase' = phase
      BY <1>6 DEF OnTimeout, Timer!Arm
    <2>2. TypeOK'
      BY <2>1 DEF TypeOK, LoopTimers
    <2>3. deadline'["delayTimer"] = deadline["delayTimer"]
      BY <2>1 DEF TypeOK, LoopTimers
    <2>. QED
      BY <2>1, <2>2, <2>3
         DEF ClockOrder, SinceReading, StopMeansReleased, Released, DelayTimerIsLate, TickCancelled,
             OnTimeAfterWait
  <1>7. CASE OnDelayTimeout
    BY <1>7 DEF OnDelayTimeout, timerVars, TypeOK, ClockOrder, SinceReading, StopMeansReleased,
                Released, DelayTimerIsLate, TickCancelled, OnTimeAfterWait
  <1>8. CASE CallBackReturns \/ RunReturns
    <2>1. /\ UNCHANGED <<status, delay, clock, sent, asked, releaseAt, work,
                         deadline, served, now>>
          /\ pc \in {"return", "timers"} /\ pc' \in {"timers", "wait"}
          /\ phase' \in {"idle", "serving"}
      BY <1>8 DEF CallBackReturns, RunReturns, Timer!Return, Timer!End
    <2>. QED
      BY <2>1 DEF TypeOK, ClockOrder, SinceReading, StopMeansReleased, Released, DelayTimerIsLate,
                  TickCancelled, OnTimeAfterWait
  <1>9. CASE RunOnce
    <2>1. PICK e \in now .. now + Round, c \in clock .. MaxNow :
            NextExpired(e) /\ c <= clock + WaitLimit(e) /\ clock' = c
      BY <1>9 DEF RunOnce
    <2>2. /\ UNCHANGED <<status, delay, sent, asked, releaseAt, work, timerVars>>
          /\ pc = "wait" /\ pc' = "check"
      BY <1>9 DEF RunOnce
    <2>3. /\ clock \in Nat /\ now \in Nat /\ work \in Nat /\ e \in Nat /\ clock' \in Nat
          /\ clock <= clock' /\ clock' <= e + 2 + work
      BY <2>1, <2>2 DEF TypeOK, WaitLimit, SinceReading
    <2>4. \A t \in Timer!Armed : clock' <= deadline[t] + 2 + work
      BY <2>1, <2>3 DEF NextExpired, Timer!Armed, TypeOK
    <2>5. OnTimeAfterWait'
      BY <2>2, <2>4 DEF OnTimeAfterWait, timerVars, Timer!Armed
    <2>. QED
      BY <2>2, <2>3, <2>5
         DEF timerVars, TypeOK, ClockOrder, StopMeansReleased, Released,
             DelayTimerIsLate, TickCancelled, SinceReading
  <1>10. CASE CheckReload \/ OnReload \/ ReloadReturns \/ CheckStop
    <2>1. /\ UNCHANGED <<clock, sent, releaseAt, work, timerVars>>
          /\ pc \in {"check", "reload", "reloaded", "checkStop"}
          /\ status' = status \/ status' = "RUN"
          /\ pc' \in {"reload", "reloaded", "checkPreStop", "loop", "exited"}
          /\ pc' = "exited" => status = "STOP"
      BY <1>10 DEF CheckReload, OnReload, ReloadReturns, CheckStop
    <2>2. TypeOK'
      <3>1. delay' \in Nat /\ asked' \in BOOLEAN
        BY <1>10 DEF CheckReload, OnReload, ReloadReturns, CheckStop, TypeOK
      <3>. QED
        BY <2>1, <3>1 DEF TypeOK, timerVars
    <2>3. OnTimeAfterWait'
      BY <2>1, KeepsOnTime DEF timerVars
    <2>. QED
      BY <2>1, <2>2, <2>3
         DEF timerVars, ClockOrder, SinceReading, StopMeansReleased, Released, DelayTimerIsLate,
             TickCancelled
  <1>11. CASE CheckPreStop
    <2>1. /\ UNCHANGED <<status, delay, clock, sent, asked, releaseAt, work, served, now,
                         phase>>
          /\ pc = "checkPreStop" /\ pc' \in {"preStop", "checkStop"}
          /\ \/ pc' = "checkStop" /\ deadline' = deadline
             \/ deadline' = [deadline EXCEPT !["timer"] = None]
      BY <1>11 DEF CheckPreStop, Timer!Cancel, timerVars
    <2>2. TypeOK'
      BY <2>1 DEF TypeOK, LoopTimers
    <2>3. /\ deadline'["delayTimer"] = deadline["delayTimer"]
          /\ deadline'["timer"] = deadline["timer"] \/ deadline'["timer"] = None
          /\ pc' = "preStop" => deadline'["timer"] = None
      BY <2>1 DEF TypeOK, LoopTimers
    <2>4. OnTimeAfterWait'
      BY <2>1, <2>3, KeepsOnTime DEF LoopTimers
    <2>. QED
      BY <2>1, <2>2, <2>3, <2>4
         DEF ClockOrder, SinceReading, StopMeansReleased, Released, DelayTimerIsLate, TickCancelled
  <1>12. CASE StopNow
    <2>1. /\ UNCHANGED <<delay, clock, sent, asked, work, deadline, served, now, phase>>
          /\ pc = "preStop" /\ pc' = "loop" /\ status' = "STOP" /\ releaseAt' = clock
      BY <1>12 DEF StopNow, timerVars
    <2>2. OnTimeAfterWait'
      BY <2>1, KeepsOnTime
    <2>. QED
      BY <2>1, <2>2
         DEF TypeOK, ClockOrder, SinceReading, StopMeansReleased, Released, DelayTimerIsLate,
             TickCancelled
  <1>13. CASE StopLater
    <2>1. /\ UNCHANGED <<delay, clock, sent, asked, work, served, now, phase>>
          /\ pc = "preStop" /\ pc' = "loop" /\ status' = "RUN"
          /\ \/ /\ deadline["delayTimer"] = None
                /\ deadline' = [deadline EXCEPT !["delayTimer"] = clock + delay]
                /\ releaseAt' = clock + delay
             \/ /\ deadline["delayTimer"] # None
                /\ deadline' = deadline
                /\ releaseAt' = deadline["delayTimer"]
      BY <1>13 DEF StopLater, Timer!Arm, timerVars
    <2>2. TypeOK'
      BY <2>1 DEF TypeOK, LoopTimers
    <2>3. /\ deadline'["timer"] = deadline["timer"]
          /\ releaseAt' = deadline'["delayTimer"] /\ releaseAt' # None
          /\ deadline'["delayTimer"] = deadline["delayTimer"]
             \/ clock <= deadline'["delayTimer"]
      BY <2>1 DEF TypeOK, LoopTimers
    <2>4. OnTimeAfterWait'
      BY <2>1, <2>2, <2>3 DEF OnTimeAfterWait, Timer!Armed, LoopTimers, TypeOK
    <2>. QED
      BY <2>1, <2>2, <2>3, <2>4
         DEF TypeOK, ClockOrder, SinceReading, StopMeansReleased, DelayTimerIsLate, TickCancelled
  <1>14. CASE Work
    <2>1. PICK c \in clock + 1 .. LastWork : clock' = c /\ work' = work + (c - clock)
      BY <1>14 DEF Work
    <2>2. UNCHANGED <<status, pc, delay, sent, asked, releaseAt, timerVars>>
      BY <1>14 DEF Work
    <2>3. clock \in Nat /\ work \in Nat /\ now \in Nat
      BY DEF TypeOK
    <2>4. PICK k \in Nat : clock' = clock + k /\ work' = work + k
      BY <2>1, <2>3
    <2>5. TypeOK'
      BY <2>2, <2>3, <2>4 DEF TypeOK, timerVars
    <2>6. ClockOrder' /\ SinceReading'
      BY <2>2, <2>3, <2>4 DEF ClockOrder, SinceReading, TypeOK, timerVars
    <2>7. OnTimeAfterWait'
      <3>1. \A t \in Timer!Armed : deadline[t] \in Nat
        BY DEF Timer!Armed, TypeOK
      <3>2. \A t \in Timer!Armed : clock <= deadline[t] + 2 + work
                                   => clock' <= deadline[t] + 2 + work'
        BY <2>3, <2>4, <3>1
      <3>. QED
        BY <2>2, <3>2 DEF OnTimeAfterWait, timerVars, Timer!Armed
    <2>8. StopMeansReleased' /\ DelayTimerIsLate' /\ TickCancelled'
      BY <2>2, <2>3, <2>4
         DEF timerVars, TypeOK, StopMeansReleased, Released, DelayTimerIsLate, TickCancelled
    <2>. QED
      BY <2>5, <2>6, <2>7, <2>8
  <1>15. CASE UNCHANGED vars
    BY <1>15 DEF vars, loopVars, timerVars, TypeOK, ClockOrder, SinceReading, StopMeansReleased,
                 Released, DelayTimerIsLate, TickCancelled, OnTimeAfterWait, Timer!Armed
  <1>. QED
    BY <1>1, <1>2, <1>3, <1>4, <1>5, <1>6, <1>7, <1>8, <1>9, <1>10, <1>11, <1>12, <1>13,
       <1>14, <1>15 DEF Next, LoopStep

LEMMA IInvHolds == SafetySpec => []IInv
  BY InitEstablishes, StepKeeps, PTL DEF SafetySpec

\* The types of the loop's variables, for any signals.
THEOREM TypeCorrect == SafetySpec => []TypeOK
  <1>1. IInv => TypeOK
    BY DEF IInv
  <1>. QED
    BY <1>1, IInvHolds, PTL

\* Whatever signals arrive, and whenever, the program ends only by a stop, and not
\* before its delay.
THEOREM EndsByStop == SafetySpec => []DelayKept
  <1>1. IInv => DelayKept
    BY DEF IInv, StopMeansReleased, Released, DelayKept
  <1>. QED
    BY <1>1, IInvHolds, PTL

\* The loop does not block past a timer: only what it does itself makes one later
\* than 2 ms.
THEOREM LoopOnTime == SafetySpec => []TimersOnTime
  <1>1. IInv => TimersOnTime
    BY DEF IInv, OnTimeAfterWait, TimersOnTime
  <1>. QED
    BY <1>1, IInvHolds, PTL

\* The minute timer is not called back after a stop was handled.
THEOREM TickStopped == SafetySpec => NoTickWhileStopping
  <1>1. IInv /\ [Next]_vars => [releaseAt # None => pc' # "timer"]_vars
    <2>. SUFFICES ASSUME IInv, [Next]_vars, releaseAt # None, pc' = "timer"
                  PROVE  UNCHANGED vars
      OBVIOUS
    <2>1. deadline["timer"] = None /\ pc # "timer" /\ pc # "init"
      BY DEF IInv, TickCancelled
    <2>2. ASSUME NEW t \in LoopTimers, CallBack(t) PROVE FALSE
      BY <2>1, <2>2, LoopAssumption DEF CallBack, Timer!Fire, IInv, TypeOK
    <2>3. CASE LoopStep
      BY <2>1, <2>2, <2>3
         DEF LoopStep, OnInit, RunUntil, PassTicks, RunReturns, OnTimeout, OnDelayTimeout,
             CallBackReturns, CheckReload, OnReload, ReloadReturns, CheckPreStop, StopNow,
             StopLater, CheckStop, loopVars
    <2>4. CASE RunOnce \/ Work \/ \E signo \in Signals : OnSignal(signo)
      BY <2>1, <2>4 DEF RunOnce, Work, OnSignal
    <2>. QED
      BY <2>3, <2>4 DEF Next
  <1>. QED
    BY <1>1, IInvHolds, PTL DEF SafetySpec, NoTickWhileStopping
=============================================================================
