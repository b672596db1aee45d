---------------------------- MODULE Application ----------------------------
(***************************************************************************)
(* framework/application.{h,cpp}: the main loop of every program built on  *)
(* the framework, and the signals that reload and stop it.  A signal       *)
(* handler may run between any two steps; all it does is overwrite         *)
(* m_status, which the loop also writes.  The loop's two timers live in a  *)
(* timer manager, used here through what TimerService promises.            *)
(*                                                                         *)
(* Time passes in epoll_wait (RunOnce), and in whatever else the loop and  *)
(* the callbacks do (Work).                                                *)
(***************************************************************************)
EXTENDS Integers, Functions

CONSTANTS Signals,      \* the signals delivered: "TERM" (INT, QUIT, USR2), "USR1"
          Delays,       \* the values on_init gives set_delay_stop
          MinDelay,     \* the shortest delay for which a stop is delayed (10)
          Interval,     \* m_interval_ms
          Round,        \* get_next_expired is at most a round of the wheel ahead
          MaxTimeout,   \* get_max_timeout() of the timer manager
          MaxSignals,   \* bound: how many signals are delivered
          LastSignal,   \* bound: no signal is delivered later
          LastWork,     \* bound: from here on the loop's own steps take no time
          MaxNow,       \* bound: the clock stops here
          None

ASSUME LoopAssumption ==
    /\ Signals \subseteq {"TERM", "USR1"}
    /\ Delays \subseteq Nat /\ Delays # {}
    /\ MinDelay \in Nat \ {0} /\ Interval \in Nat \ {0} /\ Round \in Nat \ {0}
    /\ MaxTimeout \in Nat /\ MaxSignals \in Nat /\ LastSignal \in Nat
    /\ LastWork \in Nat /\ MaxNow \in Nat
    /\ None \notin Int

VARIABLES status,      \* m_status
          pc,          \* where start is
          delay,       \* m_delay_ms
          clock,       \* get_run_ms()
          sent,        \* how often each signal was delivered
          asked,       \* history: USR1 was delivered after the latest on_reload began
          releaseAt,   \* history: the time the latest delayed stop may end
          work,        \* history: time spent outside epoll_wait since now_ms was read
          deadline, served, now, phase    \* the timer manager

timerVars == <<deadline, served, now, phase>>
loopVars == <<status, pc, delay, clock, sent, asked, releaseAt, work>>
vars == <<loopVars, timerVars>>

\* m_timer and m_delay_timer.
LoopTimers == {"timer", "delayTimer"}

Timer == INSTANCE TimerService WITH
    Timers <- LoopTimers,
    StartTime <- 0,
    Times <- 0 .. MaxNow,
    NoDeadline <- None

Ended == {"exited", "failed"}

Delivered == SumFunction(sent)

Init ==
    /\ Timer!Init
    /\ status = "STOP"
    /\ pc = "init"
    /\ delay = 0
    /\ clock = 0
    /\ sent = [signo \in Signals |-> 0]
    /\ asked = FALSE
    /\ releaseAt = None
    /\ work = 0

\* Faults, each of which a property below must catch.
OnDelayTimeoutRuns ==
    /\ pc = "delayTimer"
    /\ pc' = "return"
    /\ UNCHANGED <<status, delay, clock, sent, asked, releaseAt, work, timerVars>>

WaitLimitAbsolute(e) == e + 2

CheckReloadMissed ==
    /\ pc = "check"
    /\ pc' = "checkPreStop"
    /\ UNCHANGED <<status, delay, clock, sent, asked, releaseAt, work, timerVars>>

CheckPreStopTicks ==
    /\ pc = "checkPreStop"
    /\ pc' = IF status = "PRE_STOP" THEN "preStop" ELSE "checkStop"
    /\ UNCHANGED <<status, delay, clock, sent, asked, releaseAt, work, timerVars>>

StopLaterStops ==
    /\ pc = "preStop"
    /\ delay >= MinDelay
    /\ status' = "STOP"
    /\ releaseAt' = clock + delay
    /\ pc' = "loop"
    /\ UNCHANGED <<delay, clock, sent, asked, work, timerVars>>

StopLaterUnarmed ==
    /\ pc = "preStop"
    /\ delay >= MinDelay
    /\ status' = "RUN"
    /\ releaseAt' = clock + delay
    /\ pc' = "loop"
    /\ UNCHANGED <<delay, clock, sent, asked, work, timerVars>>

\* on_signal, at any point of the program.
OnSignal(signo) ==
    /\ pc \notin Ended
    /\ Delivered < MaxSignals /\ clock <= LastSignal
    /\ sent' = [sent EXCEPT ![signo] = @ + 1]
    /\ status' = IF signo = "USR1" THEN "RELOAD" ELSE "PRE_STOP"
    /\ asked' = (asked \/ signo = "USR1")
    /\ UNCHANGED <<pc, delay, clock, releaseAt, work, timerVars>>

-----------------------------------------------------------------------------
\* on_init succeeds, start sets m_status and arms m_timer; or it fails and start
\* returns -1.
OnInit ==
    /\ pc = "init"
    /\ \/ /\ pc' = "loop"
          /\ status' = "RUN"
          /\ delay' \in Delays
          /\ Timer!Arm("timer", clock + Interval)
       \/ /\ pc' = "failed"
          /\ UNCHANGED <<status, delay, timerVars>>
    /\ UNCHANGED <<clock, sent, asked, releaseAt, work>>

\* now_ms is read, and run_until(now_ms) begins; a call at the time of the previous
\* one does nothing.
RunUntil ==
    /\ pc = "loop"
    /\ work' = 0
    /\ \/ /\ now < clock
          /\ \E c \in served .. clock : Timer!Begin(clock, c)
          /\ pc' = "timers"
       \/ /\ now = clock
          /\ pc' = "wait"
          /\ UNCHANGED timerVars
    /\ UNCHANGED <<status, delay, clock, sent, asked, releaseAt>>

\* Inside run_until: ticks pass, a timer is called back, run_until returns.
PassTicks ==
    /\ pc = "timers"
    /\ \E c \in served + 1 .. now : Timer!Advance(c)
    /\ UNCHANGED loopVars

CallBack(t) ==
    /\ pc = "timers"
    /\ Timer!Fire(t)
    /\ pc' = t
    /\ UNCHANGED <<status, delay, clock, sent, asked, releaseAt, work>>

\* on_timeout calls on_timer and arms m_timer again.
OnTimeout ==
    /\ pc = "timer"
    /\ Timer!Arm("timer", clock + Interval)
    /\ pc' = "return"
    /\ UNCHANGED <<status, delay, clock, sent, asked, releaseAt, work>>

OnDelayTimeout ==
    /\ pc = "delayTimer"
    /\ status' = "STOP"
    /\ pc' = "return"
    /\ UNCHANGED <<delay, clock, sent, asked, releaseAt, work, timerVars>>

CallBackReturns ==
    /\ pc = "return"
    /\ Timer!Return
    /\ pc' = "timers"
    /\ UNCHANGED <<status, delay, clock, sent, asked, releaseAt, work>>

RunReturns ==
    /\ pc = "timers"
    /\ Timer!End
    /\ pc' = "wait"
    /\ UNCHANGED <<status, delay, clock, sent, asked, releaseAt, work>>

-----------------------------------------------------------------------------
\* get_next_expired() may be anything that is not later than an armed timer; once
\* run_until has returned it is not earlier than now_ms (TimerManager: WakeUpInTime).
NextExpired(e) ==
    /\ now <= e /\ e <= served + Round
    /\ \A t \in Timer!Armed : e <= deadline[t]

\* The time run_once may block, computed from the now_ms that run_until was given.
WaitLimit(e) == e - now + 2

\* run_once(get_next_expired() - now_ms + 2) returns that time after it is called, or
\* earlier: for an event, or because a signal interrupted epoll_wait.
RunOnce ==
    /\ pc = "wait"
    /\ \E e \in now .. now + Round, c \in clock .. MaxNow :
         /\ NextExpired(e)
         /\ c <= clock + WaitLimit(e)
         /\ clock' = c
    /\ pc' = "check"
    /\ UNCHANGED <<status, delay, sent, asked, releaseAt, work, timerVars>>

\* Whatever the loop does besides waiting takes time: on_init, the callbacks of
\* timers and of events, on_reload, and an epoll_wait that returns late.
Work ==
    /\ pc \notin Ended
    /\ \E c \in clock + 1 .. LastWork :
         /\ clock' = c
         /\ work' = work + (c - clock)
    /\ UNCHANGED <<status, pc, delay, sent, asked, releaseAt, timerVars>>

\* The loop reads m_status once for each of its three tests.
CheckReload ==
    /\ pc = "check"
    /\ pc' = IF status = "RELOAD" THEN "reload" ELSE "checkPreStop"
    /\ asked' = (asked /\ status # "RELOAD")
    /\ UNCHANGED <<status, delay, clock, sent, releaseAt, work, timerVars>>

\* on_reload, here as gate_server has it, runs on_init again.  The loop does not
\* look at its result.
OnReload ==
    /\ pc = "reload"
    /\ delay' \in Delays \cup {delay}
    /\ pc' = "reloaded"
    /\ UNCHANGED <<status, clock, sent, asked, releaseAt, work, timerVars>>

ReloadReturns ==
    /\ pc = "reloaded"
    /\ status' = "RUN"
    /\ pc' = "loop"
    /\ UNCHANGED <<delay, clock, sent, asked, releaseAt, work, timerVars>>

CheckPreStop ==
    /\ pc = "checkPreStop"
    /\ IF status = "PRE_STOP"
       THEN /\ Timer!Cancel("timer")
            /\ pc' = "preStop"
       ELSE /\ pc' = "checkStop"
            /\ UNCHANGED timerVars
    /\ UNCHANGED <<status, delay, clock, sent, asked, releaseAt, work>>

\* on_delay_stop has returned: stop now, or arm m_delay_timer.
StopNow ==
    /\ pc = "preStop"
    /\ delay < MinDelay
    /\ status' = "STOP"
    /\ releaseAt' = clock
    /\ pc' = "loop"
    /\ UNCHANGED <<delay, clock, sent, asked, work, timerVars>>

StopLater ==
    /\ pc = "preStop"
    /\ delay >= MinDelay
    /\ status' = "RUN"
    /\ pc' = "loop"
    /\ IF deadline["delayTimer"] = None
       THEN /\ Timer!Arm("delayTimer", clock + delay)
            /\ releaseAt' = clock + delay
       ELSE /\ releaseAt' = deadline["delayTimer"]
            /\ UNCHANGED timerVars
    /\ UNCHANGED <<delay, clock, sent, asked, work>>

\* on_fini runs and start returns.
CheckStop ==
    /\ pc = "checkStop"
    /\ pc' = IF status = "STOP" THEN "exited" ELSE "loop"
    /\ UNCHANGED <<status, delay, clock, sent, asked, releaseAt, work, timerVars>>

LoopStep ==
    \/ OnInit
    \/ RunUntil \/ PassTicks \/ RunReturns
    \/ \E t \in LoopTimers : CallBack(t)
    \/ OnTimeout \/ OnDelayTimeout \/ CallBackReturns
    \/ CheckReload \/ OnReload \/ ReloadReturns
    \/ CheckPreStop \/ StopNow \/ StopLater
    \/ CheckStop

Next == LoopStep \/ RunOnce \/ Work \/ \E signo \in Signals : OnSignal(signo)

\* The thread runs, and epoll_wait does not return for ever without time passing.
SafetySpec == Init /\ [][Next]_vars

Spec ==
    /\ SafetySpec
    /\ WF_vars(LoopStep)
    /\ WF_vars(RunOnce)
    /\ SF_vars(RunOnce /\ clock' > clock)
-----------------------------------------------------------------------------
\* The type of every variable.
TypeOK ==
    /\ status \in {"STOP", "RUN", "RELOAD", "PRE_STOP"}
    /\ pc \in {"init", "loop", "timers", "timer", "delayTimer", "return", "wait",
               "check", "reload", "reloaded", "checkPreStop", "preStop", "checkStop",
               "exited", "failed"}
    /\ delay \in Nat
    /\ clock \in Nat
    /\ sent \in [Signals -> Nat]
    /\ asked \in BOOLEAN
    /\ releaseAt \in Nat \cup {None}
    /\ work \in Nat
    /\ deadline \in [LoopTimers -> Nat \cup {None}]
    /\ served \in Nat
    /\ now \in Nat
    /\ phase \in {"idle", "serving", "callback"}

\* The program ends only by a stop that was asked for, and never before the
\* delay of that stop has passed: whatever else reads and writes m_status, and
\* although STATUS_STOP is also its initial value (cpp:186, 208-219, h:47).
DelayKept == pc = "exited" => releaseAt # None /\ releaseAt <= clock

\* The loop never blocks past a timer: when it is about to run the timers again, none
\* is later than the 2 ms added to the timeout and the time that the loop has spent
\* outside epoll_wait since it read now_ms (cpp:200, 203).  That time counts in full,
\* as the timeout runs from the call and not from the reading.  It is so for a timer
\* armed after the wait was computed, too.
TimersOnTime == pc = "loop" => \A t \in Timer!Armed : clock <= deadline[t] + 2 + work

\* After on_delay_stop the minute timer is not called back any more, on_timeout
\* does not bring it back (cpp:99-105, 209).
NoTickWhileStopping == [][releaseAt # None => pc' # "timer"]_vars

\* A delayed stop under way ends the program, even with a reload in between,
\* provided no further signal is delivered.
StopFinishes ==
    (deadline["delayTimer"] # None /\ Delivered = MaxSignals) ~> pc = "exited"

\* A reload that the loop has not looked at yet is run, unless the program ends.
ReloadTaken ==
    (status = "RELOAD" /\ pc \notin {"init", "reload", "reloaded"} /\ Delivered = MaxSignals)
        ~> pc \in {"reload"} \cup Ended

\* Unless a USR1 is delivered, a stop signal after on_init ends the program, even
\* if it overwrites the status an earlier stop signal or the delay timer has set.
StopCompletes ==
    (status = "PRE_STOP" /\ pc \notin {"init", "failed"})
        ~> (pc = "exited" \/ sent["USR1"] > 0)

\* on_reload is "called when get USR1 signal" (application.h:74-77).
ReloadOnSignal == asked ~> (~asked \/ pc \in Ended)
=============================================================================
