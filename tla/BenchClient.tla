---------------------------- MODULE BenchClient ----------------------------
(***************************************************************************)
(* bench_client: a load generator that keeps a fixed list of connections   *)
(* to the gate server.  Its periodic timer visits one connection of the    *)
(* list after the other and connects it if it is closed; each connection   *)
(* has a timer of its own that sends a login again and again.  The timer   *)
(* is not deleted when the connection closes: it goes on, sends into the   *)
(* closed connection, and outlives it into the next one.                   *)
(*                                                                         *)
(* Time is counted in periods of 1000 ms.  The timer wheel calls back at   *)
(* the time given (TimerManager); timers due at the same time in any order.*)
(* What a connection does with bytes is in TcpDataHandler.                 *)
(***************************************************************************)
EXTENDS Integers

CONSTANTS MaxCount,     \* m_max_count: the connections are 0 .. MaxCount - 1
          LoginAfter,   \* delay_ms of run, in periods
          LoginEvery    \* the 5000 ms of on_timeout, in periods

ASSUME BenchAssumption ==
    MaxCount \in Nat \ {0} /\ LoginAfter \in Nat \ {0} /\ LoginEvery \in Nat \ {0}

VARIABLES connected,   \* connected() of each connection
          status,      \* m_status: "ACC_LOGIN" or "PLAYER_LOGIN"
          timer,       \* time until m_timer is called back, or Unlinked
          curCount,    \* m_cur_count
          visited,     \* on_timer has been called in this period
          loggedIn,    \* history: a login was sent on this connection
          serverUp     \* external: connects succeed

benchVars == <<connected, status, timer, curCount, visited, loggedIn, serverUp>>

Conns == 0 .. MaxCount - 1

Unlinked == -1

\* on_init: nothing is connected, no timer linked.
BenchInit ==
    /\ connected = [c \in Conns |-> FALSE]
    /\ status = [c \in Conns |-> "ACC_LOGIN"]
    /\ timer = [c \in Conns |-> Unlinked]
    /\ curCount = 0
    /\ visited = FALSE
    /\ loggedIn = [c \in Conns |-> FALSE]
    /\ serverUp \in BOOLEAN

\* set_expired and add_timer, which both do nothing for a timer that is linked.
Armed(c, delay) == IF timer[c] = Unlinked THEN [timer EXCEPT ![c] = delay] ELSE timer

\* Faults in the code that the properties must catch: run leaves the status alone, run
\* leaves the timer to on_timeout, and m_cur_count passes only connections that are closed.
RunKeepsStatus(c) ==
    /\ connected' = [connected EXCEPT ![c] = TRUE]
    /\ loggedIn' = [loggedIn EXCEPT ![c] = FALSE]
    /\ timer' = Armed(c, LoginAfter)
    /\ UNCHANGED status

RunUnarmed(c) ==
    /\ connected' = [connected EXCEPT ![c] = TRUE]
    /\ loggedIn' = [loggedIn EXCEPT ![c] = FALSE]
    /\ status' = [status EXCEPT ![c] = "ACC_LOGIN"]
    /\ UNCHANGED timer

FollowingClosed == IF connected[curCount] THEN curCount ELSE (curCount + 1) % MaxCount

\* init succeeds, then run.
Run(c) ==
    /\ connected' = [connected EXCEPT ![c] = TRUE]
    /\ loggedIn' = [loggedIn EXCEPT ![c] = FALSE]
    /\ status' = [status EXCEPT ![c] = "ACC_LOGIN"]
    /\ timer' = Armed(c, LoginAfter)

\* The connection m_cur_count moves on to.
Following == (curCount + 1) % MaxCount

\* on_timer of the application.  connect does not wait: it may be under way to a server
\* that cannot be reached, and the connection is closed later.
OnTimer ==
    /\ ~visited
    /\ \/ ~connected[curCount] /\ Run(curCount)
       \/ /\ connected[curCount] \/ ~serverUp
          /\ UNCHANGED <<connected, status, timer, loggedIn>>
    /\ curCount' = Following
    /\ visited' = TRUE
    /\ UNCHANGED serverUp

\* on_event, and fini: the timer stays linked.
OnEvent(c) ==
    /\ connected' = [connected EXCEPT ![c] = FALSE]
    /\ status' = [status EXCEPT ![c] = "ACC_LOGIN"]
    /\ loggedIn' = [loggedIn EXCEPT ![c] = FALSE]

\* on_timeout: send_player_login.  send fails on a closed connection, and when its write
\* fails it closes the connection by on_event; the status is set in any case.
OnTimeout(c) ==
    /\ timer[c] = 0
    /\ \/ loggedIn' = [loggedIn EXCEPT ![c] = connected[c]] /\ UNCHANGED connected
       \/ /\ connected[c]
          /\ connected' = [connected EXCEPT ![c] = FALSE]
          /\ loggedIn' = [loggedIn EXCEPT ![c] = FALSE]
    /\ status' = [status EXCEPT ![c] = "PLAYER_LOGIN"]
    /\ timer' = [timer EXCEPT ![c] = LoginEvery]
    /\ UNCHANGED <<curCount, visited, serverUp>>

\* The server answers a login: process_player_login_response returns 1, or process_packet
\* -1 where no answer is due, and on_read closes the connection for either.
LoginAnswered(c) ==
    /\ connected[c] /\ loggedIn[c]
    /\ OnEvent(c)
    /\ UNCHANGED <<timer, curCount, visited, serverUp>>

\* The server closes or resets the connection.
ServerCloses(c) ==
    /\ connected[c]
    /\ OnEvent(c)
    /\ UNCHANGED <<timer, curCount, visited, serverUp>>

ServerChanges ==
    /\ serverUp' = ~serverUp
    /\ UNCHANGED <<connected, status, timer, curCount, visited, loggedIn>>

\* A period passes when all timers due have been called back.
PeriodPasses ==
    /\ visited
    /\ \A c \in Conns : timer[c] # 0
    /\ timer' = [c \in Conns |-> IF timer[c] = Unlinked THEN Unlinked ELSE timer[c] - 1]
    /\ visited' = FALSE
    /\ UNCHANGED <<connected, status, curCount, loggedIn, serverUp>>

BenchNext ==
    \/ OnTimer \/ PeriodPasses \/ ServerChanges
    \/ \E c \in Conns : OnTimeout(c) \/ LoginAnswered(c) \/ ServerCloses(c)

\* The main loop goes on and the timer wheel serves every timer (TimerManager's Served).
BenchFairness ==
    /\ WF_benchVars(OnTimer) /\ WF_benchVars(PeriodPasses)
    /\ \A c \in Conns : WF_benchVars(OnTimeout(c))

BenchSpec == BenchInit /\ [][BenchNext]_benchVars /\ BenchFairness
-----------------------------------------------------------------------------
BenchTypeOK ==
    /\ connected \in [Conns -> BOOLEAN]
    /\ status \in [Conns -> {"ACC_LOGIN", "PLAYER_LOGIN"}]
    /\ timer \in [Conns -> {Unlinked} \cup Nat]
    /\ curCount \in Conns
    /\ visited \in BOOLEAN
    /\ loggedIn \in [Conns -> BOOLEAN]
    /\ serverUp \in BOOLEAN

\* An open connection waits for the answer to a login exactly when it has sent one itself,
\* although the timer runs on, and sets the status, while the connection is closed; so the
\* answer to a login always finds it waiting (client_connection.cpp:36-133).
AnswerExpected == \A c \in Conns : connected[c] => (status[c] = "PLAYER_LOGIN" <=> loggedIn[c])

\* An open connection has its timer linked, for no more than the longer of the two delays.
LoginDue ==
    \A c \in Conns : connected[c] =>
        timer[c] \in 0 .. (IF LoginAfter > LoginEvery THEN LoginAfter ELSE LoginEvery)

\* A connection that stays open sends its login, also when its timer is the one that an
\* earlier connection left behind (client_connection.cpp:47-61, 128-133).
LoginFollows == \A c \in Conns : connected[c] ~> (loggedIn[c] \/ ~connected[c])

\* While the server can be reached every closed connection of the list is connected again
\* (client_application.cpp:103-119).
Reconnects == <>[]serverUp => \A c \in Conns : []<>connected[c]
=============================================================================
