--------------------------- MODULE SimpleThread ---------------------------
(***************************************************************************)
(* framework/thread.{h,cpp}: a thread object, its owner that starts it,    *)
(* stops it, joins it and starts it again, and the thread, which loops     *)
(* while m_status is 1.  m_status is set by the new thread itself.         *)
(***************************************************************************)
EXTENDS Integers

VARIABLES tid,         \* m_tid # 0
          threadAt,    \* the thread: "none", "entry", "on_init", "test", "run_once", "on_fini",
                       \* "ended"
          threadRuns,  \* m_status = 1
          joining,     \* the owner is in pthread_join
          stopHeard    \* history: stop was called since this thread set m_status

threadVars == <<tid, threadAt, threadRuns, joining, stopHeard>>

ThreadInit ==
    /\ tid = FALSE
    /\ threadAt = "none"
    /\ threadRuns = FALSE
    /\ joining = FALSE
    /\ stopHeard = FALSE

\* start; a pthread_create that fails leaves m_tid alone.
StartThread ==
    /\ ~joining /\ ~tid
    /\ tid' = TRUE
    /\ threadAt' = "entry"
    /\ stopHeard' = FALSE
    /\ UNCHANGED <<threadRuns, joining>>

\* stop, by the owner or another thread at any time.
StopThread ==
    /\ threadRuns' = FALSE
    /\ stopHeard' = (stopHeard \/ threadAt \in {"on_init", "test", "run_once"})
    /\ UNCHANGED <<tid, threadAt, joining>>

JoinThread ==
    /\ ~joining /\ tid
    /\ joining' = TRUE
    /\ UNCHANGED <<tid, threadAt, threadRuns, stopHeard>>

Joined ==
    /\ joining /\ threadAt = "ended"
    /\ joining' = FALSE
    /\ tid' = FALSE /\ threadAt' = "none"
    /\ UNCHANGED <<threadRuns, stopHeard>>

\* run
RunThread ==
    /\ threadAt = "entry"
    /\ threadRuns' = TRUE
    /\ threadAt' = "on_init"
    /\ UNCHANGED <<tid, joining, stopHeard>>

\* A fault in the code that the property must catch: m_status is set after on_init.
InitThreadSets ==
    /\ threadAt = "on_init"
    /\ threadAt' \in {"test", "ended"}
    /\ threadRuns' = TRUE
    /\ UNCHANGED <<tid, joining, stopHeard>>

\* on_init returns 0 or not; m_status stays 1.
InitThread ==
    /\ threadAt = "on_init"
    /\ threadAt' \in {"test", "ended"}
    /\ UNCHANGED <<tid, threadRuns, joining, stopHeard>>

TestThread ==
    /\ threadAt = "test"
    /\ threadAt' = IF threadRuns THEN "run_once" ELSE "on_fini"
    /\ UNCHANGED <<tid, threadRuns, joining, stopHeard>>

RanOnce ==
    /\ threadAt = "run_once"
    /\ threadAt' = "test"
    /\ UNCHANGED <<tid, threadRuns, joining, stopHeard>>

FiniThread ==
    /\ threadAt = "on_fini"
    /\ threadAt' = "ended"
    /\ UNCHANGED <<tid, threadRuns, joining, stopHeard>>

ThreadSteps == RunThread \/ InitThread \/ TestThread \/ RanOnce \/ FiniThread

ThreadNext == StartThread \/ StopThread \/ JoinThread \/ Joined \/ ThreadSteps

\* The thread is scheduled and its callbacks return.
ThreadFairness == WF_threadVars(ThreadSteps)

ThreadSpec == ThreadInit /\ [][ThreadNext]_threadVars /\ ThreadFairness
-----------------------------------------------------------------------------
\* A thread that was told to stop after it set m_status, in on_init as well as in the
\* loop, ends (cpp:57-64).  A stop between start and that moment is overwritten.
StopEnds == stopHeard /\ threadAt # "none" ~> threadAt = "ended"
=============================================================================
