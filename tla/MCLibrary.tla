----------------------------- MODULE MCLibrary -----------------------------
(***************************************************************************)
(* The parts of framework/ and public/ that stand alone, and bench_client, *)
(* checked side by side: a behaviour is one of the part that subject names,*)
(* and the others stay in their initial states.  No state combines two of  *)
(* them, as no state of theirs is shared.                                  *)
(***************************************************************************)
EXTENDS DayRollLogger, ValueSaver, RingMemBuffer, FsmManager, SimpleThread, NotifyHandler,
        UnixConfig, UdpChannel, TcpConnection, Calendar, CircularQueue, BenchClient

VARIABLE subject

Subjects == {"log", "saver", "ring", "fsm", "thread", "notify", "config", "udp", "connection",
            "calendar", "queue", "bench"}

libraryVars ==
    <<subject, logVars, saverVars, ringVars, fsmVars, threadVars, notifyVars, configVars,
      udpVars, vars, calendarVars, queueVars, benchVars>>

LibraryInit ==
    /\ subject \in Subjects
    /\ LogInit /\ SaverInit /\ RingInit /\ FsmInit /\ ThreadInit /\ NotifyInit
    /\ ConfigInit /\ UdpInit /\ ConnInit /\ CalendarInit /\ QueueInit /\ BenchInit
    /\ subject # "log" => blockSize = CHOOSE size \in BlockSizes : TRUE
    /\ subject # "connection" => stream = CHOOSE s \in Streams : TRUE
    /\ subject # "bench" => ~serverUp

LibraryNext ==
    /\ UNCHANGED subject
    /\ IF subject = "log" THEN LogNext ELSE UNCHANGED logVars
    /\ IF subject = "saver" THEN SaverNext ELSE UNCHANGED saverVars
    /\ IF subject = "ring" THEN RingNext ELSE UNCHANGED ringVars
    /\ IF subject = "fsm" THEN FsmNext ELSE UNCHANGED fsmVars
    /\ IF subject = "thread" THEN ThreadNext ELSE UNCHANGED threadVars
    /\ IF subject = "notify" THEN NotifyNext ELSE UNCHANGED notifyVars
    /\ IF subject = "config" THEN ConfigNext ELSE UNCHANGED configVars
    /\ IF subject = "udp" THEN UdpNext ELSE UNCHANGED udpVars
    /\ IF subject = "connection" THEN ConnNext ELSE UNCHANGED vars
    /\ IF subject = "calendar" THEN CalendarNext ELSE UNCHANGED calendarVars
    /\ IF subject = "queue" THEN QueueNext ELSE UNCHANGED queueVars
    /\ IF subject = "bench" THEN BenchNext ELSE UNCHANGED benchVars

\* The fairness of bench_client is that of the behaviours in which it runs: its timer
\* never rests.  A thread that was not started has no step to be fair to.
LibrarySpec ==
    /\ LibraryInit /\ [][LibraryNext]_libraryVars
    /\ ThreadFairness
    /\ subject = "bench" => BenchFairness

\* unix_config: three keys in one of two buckets.
CONSTANTS k1, k2, k3

MCBucketOf == [k \in {k1, k2, k3} |-> 1]

\* tcp_connection: a packet that makes the buffer grow after a short one, and three
\* short ones.
MCStreams == {<<2, 7>>, <<1, 3, 4>>}
=============================================================================
