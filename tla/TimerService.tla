---------------------------- MODULE TimerService ----------------------------
(***************************************************************************)
(* What framework/timer_manager.h promises its callers, without the wheel: *)
(* a timer armed with a deadline is called back once the main loop has     *)
(* reached a time later than the deadline, never before, in the order of   *)
(* the deadlines, and none is passed over.  TimerManager implements it.    *)
(***************************************************************************)
EXTENDS Integers

CONSTANTS Timers,        \* the base_timer objects
          MaxTimeout,    \* get_max_timeout(): the longest interval accepted
          StartTime,     \* the time given to init
          Times,         \* the clock readings run_until is called with
          NoDeadline     \* the deadline of a timer that is not armed

VARIABLES deadline,      \* the deadline of each armed timer
          served,        \* every deadline before this time has been served
          now,           \* the argument of the latest run_until
          phase          \* "idle", "serving" or "callback"

svars == <<deadline, served, now, phase>>

Armed == {t \in Timers : deadline[t] # NoDeadline}

\* No armed timer has a deadline before c: time may move on to c.
NoneBefore(c) == \A t \in Armed : deadline[t] >= c

Init ==
    /\ deadline = [t \in Timers |-> NoDeadline]
    /\ served = StartTime
    /\ now = StartTime
    /\ phase = "idle"

Arm(t, d) ==
    /\ phase \in {"idle", "callback"}
    /\ deadline[t] = NoDeadline
    /\ served < d /\ d <= served + MaxTimeout
    /\ deadline' = [deadline EXCEPT ![t] = d]
    /\ UNCHANGED <<served, now, phase>>

Cancel(t) ==
    /\ phase \in {"idle", "callback"}
    /\ deadline' = [deadline EXCEPT ![t] = NoDeadline]
    /\ UNCHANGED <<served, now, phase>>

\* The main loop reads a later clock; quiet time may be skipped at once.
Begin(n, c) ==
    /\ phase = "idle"
    /\ now < n
    /\ served <= c /\ c <= n
    /\ NoneBefore(c)
    /\ now' = n
    /\ served' = c
    /\ phase' = "serving"
    /\ UNCHANGED deadline

Advance(c) ==
    /\ phase = "serving"
    /\ served < c /\ c <= now
    /\ NoneBefore(c)
    /\ served' = c
    /\ UNCHANGED <<deadline, now, phase>>

Fire(t) ==
    /\ phase = "serving"
    /\ served < now
    /\ deadline[t] = served
    /\ deadline' = [deadline EXCEPT ![t] = NoDeadline]
    /\ phase' = "callback"
    /\ UNCHANGED <<served, now>>

Return ==
    /\ phase = "callback"
    /\ phase' = "serving"
    /\ UNCHANGED <<deadline, served, now>>

End ==
    /\ phase = "serving"
    /\ served = now
    /\ phase' = "idle"
    /\ UNCHANGED <<deadline, served, now>>

Next ==
    \/ \E t \in Timers : Cancel(t) \/ Fire(t)
    \/ \E t \in Timers, d \in served + 1 .. served + MaxTimeout : Arm(t, d)
    \/ \E n \in Times : \E c \in served .. n : Begin(n, c)
    \/ \E c \in served + 1 .. now : Advance(c)
    \/ Return
    \/ End

Spec == Init /\ [][Next]_svars
=============================================================================
