-------------------------------- MODULE Gate --------------------------------
(***************************************************************************)
(* gate_server on top of the reactor: the acceptor, the connection objects *)
(* and their pool, the idle timer of every connection, reload, delayed     *)
(* stop and exit.  One thread; between two rounds of run_once the main     *)
(* loop runs timers, on_reload, on_delay_stop and on_fini.                 *)
(*                                                                         *)
(* What a connection does with the bytes is in TcpDataHandler; here a read *)
(* ends with the connection kept, with output left to write, or closed     *)
(* (from process_packet's own send, too).  No code calls set_status,       *)
(* on_player_login or on_acc_login, so that m_status stays STATUS_DEFAULT  *)
(* and m_uid 0: the idle timer closes, and the indices of users stay empty.*)
(***************************************************************************)
EXTENDS Integers, Sequences, FiniteSets, FiniteSetsExt, SequencesExt, EpollReactor

CONSTANTS Clients,      \* external: the peers
          Conns,        \* the addresses of ClientConnection objects
          MaxPool,      \* above this size of the pool, objects are deleted (100)
          MaxAccept,    \* MAX_ACCEPT_ONCE (32)
          NoFd          \* -1

ASSUME GateAssumption ==
    /\ Fds \subseteq Nat /\ Fds # {} /\ IsFiniteSet(Fds)
    /\ NoFd \notin Fds
    /\ MaxPool \in Nat /\ MaxAccept \in Nat \ {0}
    /\ NoHandler \notin Conns \cup Clients
    /\ "acceptor" \notin Conns \cup Clients \cup {NoHandler}

VARIABLES reactor,     \* the reactor's registrations
          batch,       \* what run_once has still to dispatch
          current,     \* the descriptor whose second event is due, or NoFd
          pc,          \* "loop", "events" in run_once, "accept" in on_read, "exited"
          tries,       \* calls of accept left in the acceptor's on_read
          closed,      \* history: the descriptors closed since epoll_wait returned
          acceptorFd,  \* m_client_acceptor.m_fd
          connFd,      \* m_id.fd of every connection object
          armed,       \* the objects whose idle timer is linked
          objects,     \* the objects that exist
          pool,        \* m_conn_pool
          stopping,    \* m_is_shuting_down
          sock,        \* external: what is behind a descriptor
          backlog,     \* external: clients that wait to be accepted
          link         \* external: what a client has done since it connected

loopVars == <<batch, current, pc, tries>>
connVars == <<connFd, armed, objects, pool>>
peerVars == <<backlog, link>>
vars == <<reactor, loopVars, closed, acceptorFd, connVars, stopping, sock, peerVars>>

Init ==
    /\ acceptorFd = Min(Fds)
    /\ reactor = AddHandler(EmptyReactor, acceptorFd, "acceptor", {"IN"})
    /\ sock = [fd \in Fds |-> IF fd = acceptorFd THEN "acceptor" ELSE NoHandler]
    /\ batch = NoEvents
    /\ current = NoFd
    /\ pc = "loop"
    /\ tries = 0
    /\ closed = {}
    /\ connFd = [o \in Conns |-> NoFd]
    /\ armed = {}
    /\ objects = {}
    /\ pool = << >>
    /\ stopping = FALSE
    /\ backlog = << >>
    /\ link = [c \in Clients |-> "away"]

-----------------------------------------------------------------------------
\* The peers.  "data" stands for anything to read, the end of the stream included.
\* Nothing shows of what a client does before it is accepted.
ClientConnects(c) ==
    /\ pc # "exited" /\ acceptorFd # NoFd
    /\ link[c] = "away"
    /\ link' = [link EXCEPT ![c] = "quiet"]
    /\ backlog' = Append(backlog, c)
    /\ UNCHANGED <<reactor, loopVars, closed, acceptorFd, connVars, stopping, sock>>

ClientActs(c) ==
    /\ pc # "exited"
    /\ link[c] \in {"quiet", "data"} /\ ~Contains(backlog, c)
    /\ link' \in {[link EXCEPT ![c] = s] : s \in {"data", "reset"} \ {link[c]}}
    /\ UNCHANGED <<reactor, loopVars, closed, acceptorFd, connVars, stopping, sock, backlog>>

-----------------------------------------------------------------------------
\* The descriptor a system call returns is the lowest one that is not in use.
FreeFds == {fd \in Fds : sock[fd] = NoHandler}

\* The history of descriptors closed in the batch under way.
NoteClosed(fds) == closed' = IF pc = "loop" THEN {} ELSE closed \cup fds

\* close(fd): whoever was connected there is gone.
CloseFd(fd) ==
    /\ sock' = [sock EXCEPT ![fd] = NoHandler]
    /\ link' = [c \in Clients |-> IF sock[fd] = c THEN "away" ELSE link[c]]
    /\ NoteClosed({fd})

\* Faults, each of which a property below must catch.
TimerOffNot(o) == armed

OnIdleTimeoutSpent(o) ==
    /\ pc = "loop"
    /\ o \in armed
    /\ armed' = armed \ {o}
    /\ UNCHANGED <<reactor, loopVars, closed, acceptorFd, connFd, objects, pool,
                   stopping, sock, peerVars>>

RefuseLeaks ==
    /\ pc = "accept" /\ tries > 0
    /\ acceptorFd # NoFd /\ backlog # << >> /\ FreeFds # {}
    /\ sock' = [sock EXCEPT ![Min(FreeFds)] = Head(backlog)]
    /\ backlog' = Tail(backlog)
    /\ tries' = tries - 1
    /\ UNCHANGED <<reactor, batch, current, pc, closed, acceptorFd, connVars, stopping, link>>

\* free_connection.
FreeConnection(o) ==
    IF Len(pool) > MaxPool
    THEN /\ objects' = objects \ {o}
         /\ UNCHANGED pool
    ELSE /\ pool' = Append(pool, o)
         /\ UNCHANGED objects

\* del_timer in reset, add_timer in on_connect.
TimerOff(o) == armed \ {o}

TimerOn(o) == armed \cup {o}

\* on_event of a connection: reset, fini, free_connection.
OnEvent(o) ==
    /\ armed' = TimerOff(o)
    /\ IF connFd[o] = NoFd
       THEN UNCHANGED <<reactor, connFd, sock, link, closed>>
       ELSE /\ reactor' = DelHandler(reactor, connFd[o])
            /\ CloseFd(connFd[o])
            /\ connFd' = [connFd EXCEPT ![o] = NoFd]
    /\ FreeConnection(o)
    /\ UNCHANGED <<acceptorFd, stopping, backlog>>

\* fini of the acceptor; clients that were not accepted are reset.
AcceptorFini ==
    IF acceptorFd = NoFd
    THEN UNCHANGED <<reactor, acceptorFd, sock, closed, peerVars>>
    ELSE /\ reactor' = DelHandler(reactor, acceptorFd)
         /\ sock' = [sock EXCEPT ![acceptorFd] = NoHandler]
         /\ NoteClosed({acceptorFd})
         /\ acceptorFd' = NoFd
         /\ link' = [c \in Clients |-> IF Contains(backlog, c) THEN "away" ELSE link[c]]
         /\ backlog' = << >>

-----------------------------------------------------------------------------
\* run_once: epoll_wait, which reports every descriptor that is ready (fewer than
\* MAX_EVENTS_ONCE).  A socket with output left is writable or not.
Condition(fd) ==
    CASE sock[fd] = "acceptor" /\ backlog # << >> -> {"IN"}
      [] sock[fd] \in Clients /\ link[sock[fd]] = "data" -> {"IN"}
      [] sock[fd] \in Clients /\ link[sock[fd]] = "reset" -> {"ERR"}
      [] OTHER -> {}

RunOnce ==
    /\ pc = "loop"
    /\ \E writable \in SUBSET Fds :
         batch' = [fd \in Fds |->
            Reported(reactor, fd, Condition(fd) \cup IF fd \in writable THEN {"OUT"} ELSE {})]
    /\ batch' # NoEvents
    /\ pc' = "events"
    /\ UNCHANGED <<reactor, current, tries, closed, acceptorFd, connVars, stopping, sock, peerVars>>

\* run_once is about to dispatch an event of this kind for fd.
Due(fd, event) ==
    /\ pc = "events"
    /\ current \in {NoFd, fd}
    /\ batch[fd] # {}
    /\ event = NextEvent(batch[fd])

\* ... and has done so.
Dispatched(fd) ==
    /\ batch' = [batch EXCEPT ![fd] = EventsAfter(@)]
    /\ current' = IF EventsAfter(batch[fd]) = {} THEN NoFd ELSE fd

\* The handler is gone: nothing is called.
SkipEvent(fd) ==
    /\ \E event \in {"ERR", "OUT", "IN"} : Due(fd, event)
    /\ reactor.handler[fd] = NoHandler
    /\ Dispatched(fd)
    /\ UNCHANGED <<reactor, pc, tries, closed, acceptorFd, connVars, stopping, sock, peerVars>>

\* on_error of a connection.
OnError(fd) ==
    /\ Due(fd, "ERR")
    /\ reactor.handler[fd] \in Conns
    /\ OnEvent(reactor.handler[fd])
    /\ Dispatched(fd)
    /\ UNCHANGED <<pc, tries>>

\* on_write: all sent, some left, or the connection failed since epoll_wait.
OnWrite(fd) ==
    /\ Due(fd, "OUT")
    /\ reactor.handler[fd] \in Conns
    /\ \/ /\ sock[fd] \in Clients /\ link[sock[fd]] # "reset"
          /\ reactor' \in {reactor, ModHandler(reactor, fd, reactor.handler[fd], {"IN"})}
          /\ UNCHANGED <<closed, acceptorFd, connVars, stopping, sock, peerVars>>
       \/ /\ sock[fd] \in Clients => link[sock[fd]] = "reset"
          /\ OnEvent(reactor.handler[fd])
    /\ Dispatched(fd)
    /\ UNCHANGED <<pc, tries>>

\* on_read of a connection: data that is consumed, with or without a reply that
\* stays queued, or that makes it close the connection, the reply's failure
\* included; nothing to read; or the end of the stream or an error.
OnRead(fd) ==
    /\ Due(fd, "IN")
    /\ reactor.handler[fd] \in Conns
    /\ LET o == reactor.handler[fd]
           state == IF sock[fd] \in Clients THEN link[sock[fd]] ELSE "reset"
       IN  \/ /\ state = "data"
              /\ link' = [link EXCEPT ![sock[fd]] = "quiet"]
              /\ reactor' \in {reactor, ModHandler(reactor, fd, o, {"IN"}),
                              ModHandler(reactor, fd, o, {"IN", "OUT"})}
              /\ UNCHANGED <<closed, acceptorFd, connVars, stopping, sock, backlog>>
           \/ /\ state = "quiet"
              /\ UNCHANGED <<reactor, closed, acceptorFd, connVars, stopping, sock, peerVars>>
           \/ /\ state \in {"data", "reset"}
              /\ OnEvent(o)
    /\ Dispatched(fd)
    /\ UNCHANGED <<pc, tries>>

EndOfBatch ==
    /\ pc = "events"
    /\ batch = NoEvents
    /\ pc' = "loop"
    /\ closed' = {}
    /\ UNCHANGED <<reactor, batch, current, tries, acceptorFd, connVars, stopping,
                   sock, peerVars>>

-----------------------------------------------------------------------------
\* A fault that PendingAnswered must catch: the count of the last loop stays spent.
AcceptorOnReadSpent(fd) ==
    /\ Due(fd, "IN")
    /\ reactor.handler[fd] = "acceptor"
    /\ Dispatched(fd)
    /\ pc' = "accept"
    /\ UNCHANGED <<reactor, tries, closed, acceptorFd, connVars, stopping, sock, peerVars>>

\* on_read of the acceptor: up to MaxAccept calls of accept.
AcceptorOnRead(fd) ==
    /\ Due(fd, "IN")
    /\ reactor.handler[fd] = "acceptor"
    /\ Dispatched(fd)
    /\ pc' = "accept"
    /\ tries' = MaxAccept
    /\ UNCHANGED <<reactor, closed, acceptorFd, connVars, stopping, sock, peerVars>>

CanAccept == pc = "accept" /\ tries > 0 /\ acceptorFd # NoFd /\ backlog # << >> /\ FreeFds # {}

\* alloc_connection: the latest object of the pool, or a new one.
Allocatable == IF pool = << >> THEN Conns \ objects ELSE {Last(pool)}

\* on_connection succeeds: init registers the descriptor, on_connect arms the timer.
OnConnection ==
    /\ CanAccept
    /\ \E o \in Allocatable :
         LET fd == Min(FreeFds)
         IN  /\ sock' = [sock EXCEPT ![fd] = Head(backlog)]
             /\ reactor' = AddHandler(reactor, fd, o, {"IN"})
             /\ connFd' = [connFd EXCEPT ![o] = fd]
             /\ armed' = TimerOn(o)
             /\ objects' = objects \cup {o}
    /\ pool' = IF pool = << >> THEN pool ELSE Front(pool)
    /\ backlog' = Tail(backlog)
    /\ tries' = tries - 1
    /\ UNCHANGED <<batch, current, pc, closed, acceptorFd, stopping, link>>

\* on_connection refuses the client, because of the online threshold or because
\* add_handler fails; the object of the latter goes (back) to the pool.  on_read
\* closes the descriptor.
Refuse ==
    /\ CanAccept
    /\ link' = [link EXCEPT ![Head(backlog)] = "away"]
    /\ NoteClosed({Min(FreeFds)})
    /\ backlog' = Tail(backlog)
    /\ tries' = tries - 1
    /\ \/ UNCHANGED <<objects, pool>>
       \/ \E o \in Allocatable :
            /\ objects' = objects \cup {o}
            /\ pool' = IF pool = << >> THEN <<o>> ELSE pool
    /\ UNCHANGED <<reactor, batch, current, pc, acceptorFd, connFd, armed, stopping, sock>>

\* accept fails with an error that on_read does not expect: on_error closes the
\* listener, and on_read goes on with descriptor -1.
AcceptFails ==
    /\ pc = "accept" /\ tries > 0
    /\ AcceptorFini
    /\ tries' = tries - 1
    /\ UNCHANGED <<batch, current, pc, connVars, stopping>>

\* on_read returns: no client is waiting, no descriptor is free (EMFILE), or the
\* loop has run out.
AcceptorReturns ==
    /\ pc = "accept"
    /\ \/ tries = 0
       \/ acceptorFd # NoFd /\ (backlog = << >> \/ FreeFds = {})
    /\ pc' = "events"
    /\ tries' = 0
    /\ UNCHANGED <<reactor, batch, current, closed, acceptorFd, connVars, stopping, sock, peerVars>>

-----------------------------------------------------------------------------
\* on_idle_timeout of a connection whose status is STATUS_DEFAULT.  run_until has
\* unlinked the timer.
OnIdleTimeout(o) ==
    /\ pc = "loop"
    /\ o \in armed
    /\ OnEvent(o)
    /\ UNCHANGED loopVars

\* on_reload: the acceptor is closed and on_init opens it again, unless it fails
\* before that; it may also fail after it.
OnReload ==
    /\ pc = "loop"
    /\ \/ AcceptorFini
       \/ LET unused == FreeFds \cup ({acceptorFd} \ {NoFd})
              fd == Min(unused)
              without == IF acceptorFd = NoFd THEN reactor ELSE DelHandler(reactor, acceptorFd)
          IN  /\ unused # {}
              /\ acceptorFd' = fd
              /\ reactor' = AddHandler(without, fd, "acceptor", {"IN"})
              /\ sock' = [f \in Fds |-> IF f = fd THEN "acceptor"
                                        ELSE IF f = acceptorFd THEN NoHandler ELSE sock[f]]
              /\ NoteClosed({acceptorFd} \ {NoFd})
              /\ link' = [c \in Clients |-> IF Contains(backlog, c) THEN "away" ELSE link[c]]
              /\ backlog' = << >>
    /\ UNCHANGED <<loopVars, connVars, stopping>>

\* on_delay_stop: a second call returns at once.
OnDelayStop ==
    /\ pc = "loop"
    /\ ~stopping
    /\ stopping' = TRUE
    /\ AcceptorFini
    /\ UNCHANGED <<loopVars, connVars>>

\* on_fini deletes the pooled objects, and the program ends.
OnFini ==
    /\ pc = "loop"
    /\ stopping
    /\ objects' = objects \ ToSet(pool)
    /\ pool' = << >>
    /\ pc' = "exited"
    /\ UNCHANGED <<reactor, batch, current, tries, closed, acceptorFd, connFd, armed,
                   stopping, sock, peerVars>>

ThreadStep ==
    \/ RunOnce \/ EndOfBatch
    \/ \E fd \in Fds : SkipEvent(fd) \/ OnError(fd) \/ OnWrite(fd) \/ OnRead(fd)
                       \/ AcceptorOnRead(fd)
    \/ OnConnection \/ Refuse \/ AcceptFails \/ AcceptorReturns

Next ==
    \/ ThreadStep
    \/ \E o \in Conns : OnIdleTimeout(o)
    \/ OnReload \/ OnDelayStop \/ OnFini
    \/ \E c \in Clients : ClientConnects(c) \/ ClientActs(c)

\* The thread runs, and the timer manager calls every timer that stays armed.
SafetySpec == Init /\ [][Next]_vars

Spec ==
    /\ SafetySpec
    /\ WF_vars(ThreadStep)
    /\ \A o \in Conns : SF_vars(OnIdleTimeout(o))
-----------------------------------------------------------------------------
\* The type of every variable.
TypeOK ==
    /\ reactor \in [handler : [Fds -> Conns \cup {"acceptor", NoHandler}],
                    watched : [Fds -> SUBSET {"IN", "OUT"}]]
    /\ batch \in [Fds -> SUBSET {"ERR", "IN", "OUT"}]
    /\ current \in Fds \cup {NoFd}
    /\ pc \in {"loop", "events", "accept", "exited"}
    /\ tries \in 0 .. MaxAccept
    /\ closed \subseteq Fds
    /\ acceptorFd \in Fds \cup {NoFd}
    /\ connFd \in [Conns -> Fds \cup {NoFd}]
    /\ armed \subseteq Conns
    /\ objects \subseteq Conns
    /\ pool \in Seq(Conns)
    /\ stopping \in BOOLEAN
    /\ sock \in [Fds -> Clients \cup {"acceptor", NoHandler}]
    /\ backlog \in Seq(Clients)
    /\ link \in [Clients -> {"away", "quiet", "data", "reset"}]

\* An object exists, is in use or in the pool but not both, and is in the pool
\* once, whichever of its callbacks ended the connection; its idle timer is linked
\* exactly while it is in use (gate_application.cpp:196-217, client_connection.cpp:51, 73-78).
PoolSafe ==
    /\ IsInjective(pool)
    /\ ToSet(pool) = {o \in objects : connFd[o] = NoFd}
    /\ armed = {o \in objects : connFd[o] # NoFd}

\* Every open descriptor belongs to the acceptor or to one living connection, to
\* which the reactor dispatches it, and every other descriptor is closed and
\* unknown to the reactor: none is leaked by a refusal or served by a wrong object
\* (tcp_acceptor.cpp:73, epoll_reactor.cpp:80-163).
DescriptorsOwned ==
    \A fd \in Fds :
        LET owners == {o \in objects : connFd[o] = fd}
        IN  /\ (sock[fd] \in Clients) <=>
                   (\E o \in objects : owners = {o} /\ reactor.handler[fd] = o)
            /\ (sock[fd] = "acceptor") <=> (acceptorFd = fd /\ reactor.handler[fd] = "acceptor")
            /\ (sock[fd] = NoHandler) <=> (reactor.handler[fd] = NoHandler)
            /\ (reactor.watched[fd] = {}) <=> (reactor.handler[fd] = NoHandler)

\* An event that is still to be dispatched never reaches a handler that was
\* registered for the same descriptor number later, although the batch names
\* descriptors and these are reused at once (epoll_reactor.cpp:169-191).
NoStaleEvent ==
    \A fd \in Fds : batch[fd] # {} /\ fd \in closed => reactor.handler[fd] = NoHandler

\* Every connection ends or the program does: a client that stays silent cannot
\* hold a descriptor for ever (client_connection.cpp:162-168, 209-210).
ConnectionEnds ==
    \A o \in Conns : connFd[o] # NoFd ~> (connFd[o] = NoFd \/ pc = "exited")

\* A client that has connected is accepted, refused or reset, also if all
\* descriptors are in use when its turn comes (tcp_acceptor.cpp:68-81).
PendingAnswered ==
    \A c \in Clients :
        Contains(backlog, c) ~> (~Contains(backlog, c) \/ pc = "exited")
=============================================================================
