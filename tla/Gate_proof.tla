----------------------------- MODULE Gate_proof -----------------------------
(***************************************************************************)
(* Proofs about Gate: its safety properties, for any numbers of clients,   *)
(* objects and descriptors, any limit of the pool and of one accept loop.  *)
(***************************************************************************)
EXTENDS Gate, SequenceTheorems, WellFoundedInduction, TLAPS

\* The two halves of the type invariant: what the handlers change, and where
\* run_once is.
TypeCore ==
    /\ reactor \in [handler : [Fds -> Conns \cup {"acceptor", NoHandler}],
                    watched : [Fds -> SUBSET {"IN", "OUT"}]]
    /\ closed \subseteq Fds
    /\ acceptorFd \in Fds \cup {NoFd}
    /\ connFd \in [Conns -> Fds \cup {NoFd}]
    /\ armed \subseteq Conns
    /\ objects \subseteq Conns
    /\ pool \in Seq(Conns)
    /\ stopping \in BOOLEAN
    /\ sock \in [Fds -> Clients \cup {"acceptor", NoHandler}]
    /\ backlog \in Seq(Clients)
    /\ link \in [Clients -> {"away", "quiet", "data", "reset"}]

TypeLoop ==
    /\ batch \in [Fds -> SUBSET {"ERR", "IN", "OUT"}]
    /\ current \in Fds \cup {NoFd}
    /\ pc \in {"loop", "events", "accept", "exited"}
    /\ tries \in 0 .. MaxAccept

\* Connections, sockets and registrations name each other.
Owned ==
    /\ \A o \in objects : connFd[o] # NoFd =>
          sock[connFd[o]] \in Clients /\ reactor.handler[connFd[o]] = o
    /\ \A o \in Conns \ objects : connFd[o] = NoFd
    /\ \A fd \in Fds : sock[fd] \in Clients =>
          /\ reactor.handler[fd] \in objects
          /\ connFd[reactor.handler[fd]] = fd
    /\ \A fd \in Fds : sock[fd] = "acceptor" <=> acceptorFd = fd
    /\ \A fd \in Fds : sock[fd] = "acceptor" =>
          reactor.handler[fd] = "acceptor" /\ reactor.watched[fd] = {"IN"}
    /\ \A fd \in Fds : sock[fd] = NoHandler <=> reactor.watched[fd] = {}
    /\ \A fd \in Fds : sock[fd] = NoHandler => reactor.handler[fd] = NoHandler

\* A handler closes only its own descriptor, so that of the events still to be
\* dispatched only the one of the current descriptor can be for a closed one; and
\* the acceptor runs when no such event is left.
BatchOrder ==
    /\ pc \in {"loop", "exited"} => batch = NoEvents /\ closed = {}
    /\ current # NoFd => pc = "events" /\ batch[current] = {"IN"}
    /\ \A fd \in Fds : batch[fd] # {} /\ sock[fd] = NoHandler => current = fd
    /\ \A fd \in Fds : batch[fd] # {} /\ fd \in closed => sock[fd] = NoHandler
    /\ acceptorFd # NoFd => batch[acceptorFd] \subseteq {"IN"}
    /\ pc = "accept" /\ acceptorFd # NoFd => batch[acceptorFd] = {}

Core == TypeCore /\ Owned /\ PoolSafe

\* The inductive invariant.
IInv == Core /\ TypeLoop /\ BatchOrder

-----------------------------------------------------------------------------
\* The least number of a set is in it.
LEMMA MinIsIn ==
    ASSUME NEW S \in SUBSET Nat, S # {}
    PROVE  Min(S) \in S
  <1>. DEFINE R == {ss \in Nat \X Nat : ss[1] < ss[2]}
  <1>1. IsWellFoundedOn(R, Nat)
    BY NatLessThanWellFounded DEF OpToRel
  <1>2. PICK x \in S : \A y \in S : ~(<<y, x>> \in R)
    <2>. HIDE DEF R
    <2>. QED
      BY <1>1, WFMin
  <1>3. ASSUME NEW y \in S, y < x
        PROVE  <<y, x>> \in R
    BY <1>3
  <1>4. \A y \in S : ~(y < x)
    <2>. HIDE DEF R
    <2>. QED
      BY <1>2, <1>3
  <1>5. \A y \in S : x =< y
    BY <1>4
  <1>. QED
    BY <1>5 DEF Min

LEMMA MinFreeFd ==
    ASSUME TypeCore, FreeFds # {}
    PROVE  Min(FreeFds) \in Fds /\ sock[Min(FreeFds)] = NoHandler
  BY MinIsIn, GateAssumption DEF FreeFds

-----------------------------------------------------------------------------
\* The pool after push_back of an object that is not in it, and after pop_back.
LEMMA PoolPush ==
    ASSUME pool \in Seq(Conns), IsInjective(pool), NEW o \in Conns, o \notin ToSet(pool)
    PROVE  /\ Append(pool, o) \in Seq(Conns)
           /\ IsInjective(Append(pool, o))
           /\ ToSet(Append(pool, o)) = ToSet(pool) \cup {o}
  BY DEF IsInjective, ToSet

LEMMA PoolPop ==
    ASSUME pool \in Seq(Conns), IsInjective(pool), pool # << >>
    PROVE  /\ Front(pool) \in Seq(Conns)
           /\ IsInjective(Front(pool))
           /\ Last(pool) \in ToSet(pool)
           /\ ToSet(Front(pool)) = ToSet(pool) \ {Last(pool)}
  <1>. DEFINE n == Len(pool)
  <1>1. n \in Nat /\ n > 0 /\ DOMAIN pool = 1 .. n /\ \A i \in 1 .. n : pool[i] \in Conns
    BY EmptySeq, LenProperties, ElementOfSeq
  <1>2. /\ Front(pool) \in Seq(Conns)
        /\ DOMAIN Front(pool) = 1 .. n - 1
        /\ \A i \in 1 .. n - 1 : Front(pool)[i] = pool[i]
    BY <1>1 DEF Front
  <1>3. IsInjective(Front(pool))
    BY <1>1, <1>2 DEF IsInjective
  <1>4. Last(pool) \in ToSet(pool)
    BY <1>1 DEF Last, ToSet
  <1>5. ToSet(Front(pool)) = {pool[i] : i \in 1 .. n - 1}
    BY <1>2 DEF ToSet
  <1>6. \A i \in 1 .. n - 1 : pool[i] # pool[n]
    BY <1>1 DEF IsInjective
  <1>7. ToSet(pool) = {pool[i] : i \in 1 .. n}
    BY <1>1 DEF ToSet
  <1>8. {pool[i] : i \in 1 .. n - 1} = {pool[i] : i \in 1 .. n} \ {pool[n]}
    <2>. HIDE DEF n
    <2>. QED
      BY <1>1, <1>6
  <1>. QED
    BY <1>2, <1>3, <1>4, <1>5, <1>7, <1>8 DEF Last

\* on_event of an open connection closes its descriptor and frees the object.
LEMMA OnEventKeeps ==
    ASSUME Core, NEW o \in objects, connFd[o] # NoFd, OnEvent(o)
    PROVE  /\ Core'
           /\ sock' = [sock EXCEPT ![connFd[o]] = NoHandler]
           /\ acceptorFd' = acceptorFd
           /\ closed' = IF pc = "loop" THEN {} ELSE closed \cup {connFd[o]}
  <1>. DEFINE fd == connFd[o]
  <1>. USE GateAssumption
  <1>1. /\ o \in Conns /\ fd \in Fds /\ sock[fd] \in Clients
        /\ o \notin ToSet(pool)
    BY DEF Core, TypeCore, Owned, PoolSafe
  <1>2. /\ armed' = armed \ {o}
        /\ reactor' = DelHandler(reactor, fd)
        /\ sock' = [sock EXCEPT ![fd] = NoHandler]
        /\ link' = [c \in Clients |-> IF sock[fd] = c THEN "away" ELSE link[c]]
        /\ closed' = IF pc = "loop" THEN {} ELSE closed \cup {fd}
        /\ connFd' = [connFd EXCEPT ![o] = NoFd]
        /\ acceptorFd' = acceptorFd /\ stopping' = stopping /\ backlog' = backlog
    BY DEF OnEvent, TimerOff, CloseFd, NoteClosed
  <1>3. \/ objects' = objects \ {o} /\ pool' = pool
        \/ objects' = objects /\ pool' = Append(pool, o)
    BY DEF OnEvent, FreeConnection
  <1>4. TypeCore'
    <2>1. objects' \subseteq Conns /\ pool' \in Seq(Conns)
      <3>1. Append(pool, o) \in Seq(Conns)
        BY <1>1, PoolPush DEF Core, TypeCore, PoolSafe
      <3>. QED
        BY <1>3, <3>1 DEF Core, TypeCore
    <2>2. reactor' \in [handler : [Fds -> Conns \cup {"acceptor", NoHandler}],
                        watched : [Fds -> SUBSET {"IN", "OUT"}]]
      BY <1>1, <1>2 DEF Core, TypeCore, DelHandler
    <2>3. link' \in [Clients -> {"away", "quiet", "data", "reset"}]
      BY <1>2 DEF Core, TypeCore
    <2>4. closed' \subseteq Fds
      BY <1>1, <1>2 DEF Core, TypeCore
    <2>5. connFd' \in [Conns -> Fds \cup {NoFd}]
      BY <1>2 DEF Core, TypeCore
    <2>6. sock' \in [Fds -> Clients \cup {"acceptor", NoHandler}]
      BY <1>2 DEF Core, TypeCore
    <2>7. armed' \subseteq Conns /\ acceptorFd' \in Fds \cup {NoFd}
          /\ stopping' \in BOOLEAN /\ backlog' \in Seq(Clients)
      BY <1>2 DEF Core, TypeCore
    <2>. QED
      BY <2>1, <2>2, <2>3, <2>4, <2>5, <2>6, <2>7 DEF TypeCore
  <1>5. Owned'
    <2>1. /\ reactor'.handler = [reactor.handler EXCEPT ![fd] = NoHandler]
          /\ reactor'.watched = [reactor.watched EXCEPT ![fd] = {}]
      BY <1>2 DEF DelHandler
    <2>2. \A p \in objects' : connFd'[p] # NoFd => p # o /\ connFd[p] = connFd'[p] /\ connFd[p] # fd
      BY <1>1, <1>2, <1>3 DEF Core, TypeCore, Owned
    <2>3. \A f \in Fds : f # fd => reactor.handler[f] # o \/ sock[f] \notin Clients
      BY <1>1 DEF Core, Owned
    <2>4. acceptorFd # fd
      BY <1>1 DEF Core, Owned
    <2>. QED
      BY <1>1, <1>2, <1>3, <2>1, <2>2, <2>3, <2>4 DEF Core, TypeCore, Owned
  <1>6. PoolSafe'
    <2>1. CASE objects' = objects \ {o} /\ pool' = pool
      BY <1>1, <1>2, <2>1 DEF Core, TypeCore, PoolSafe
    <2>2. CASE objects' = objects /\ pool' = Append(pool, o)
      BY <1>1, <1>2, <2>2, PoolPush DEF Core, TypeCore, PoolSafe
    <2>. QED
      BY <1>3, <2>1, <2>2
  <1>. QED
    BY <1>2, <1>4, <1>5, <1>6 DEF Core

\* Closing the acceptor.
LEMMA AcceptorFiniKeeps ==
    ASSUME Core, AcceptorFini, UNCHANGED <<connFd, armed, objects, pool>>, stopping' \in BOOLEAN
    PROVE  /\ Core'
           /\ acceptorFd' = NoFd
           /\ \A fd \in Fds : fd # acceptorFd => sock'[fd] = sock[fd]
           /\ acceptorFd # NoFd => sock'[acceptorFd] = NoHandler
           /\ \/ acceptorFd = NoFd /\ closed' = closed
              \/ closed' = IF pc = "loop" THEN {} ELSE closed \cup {acceptorFd}
  <1>. USE GateAssumption
  <1>1. CASE acceptorFd = NoFd
    <2>1. /\ UNCHANGED <<reactor, acceptorFd, sock, closed, backlog, link>>
          /\ UNCHANGED <<connFd, armed, objects, pool>>
      BY <1>1 DEF AcceptorFini, peerVars
    <2>2. TypeCore'
      BY <2>1 DEF Core, TypeCore
    <2>3. Owned'
      BY <2>1 DEF Core, Owned
    <2>4. PoolSafe'
      BY <2>1 DEF Core, PoolSafe
    <2>. QED
      BY <1>1, <2>1, <2>2, <2>3, <2>4 DEF Core
  <1>2. CASE acceptorFd # NoFd
    <2>1. acceptorFd \in Fds /\ sock[acceptorFd] = "acceptor"
      BY <1>2 DEF Core, TypeCore, Owned
    <2>2. /\ reactor' = DelHandler(reactor, acceptorFd)
          /\ sock' = [sock EXCEPT ![acceptorFd] = NoHandler]
          /\ closed' = IF pc = "loop" THEN {} ELSE closed \cup {acceptorFd}
          /\ acceptorFd' = NoFd
          /\ link' = [c \in Clients |-> IF Contains(backlog, c) THEN "away" ELSE link[c]]
          /\ backlog' = << >>
      BY <1>2 DEF AcceptorFini, NoteClosed
    <2>3. TypeCore'
      <3>1. reactor' \in [handler : [Fds -> Conns \cup {"acceptor", NoHandler}],
                          watched : [Fds -> SUBSET {"IN", "OUT"}]]
        BY <2>1, <2>2 DEF Core, TypeCore, DelHandler
      <3>2. link' \in [Clients -> {"away", "quiet", "data", "reset"}]
        BY <2>2 DEF Core, TypeCore
      <3>3. closed' \subseteq Fds
        BY <2>1, <2>2 DEF Core, TypeCore
      <3>4. sock' \in [Fds -> Clients \cup {"acceptor", NoHandler}]
        BY <2>1, <2>2 DEF Core, TypeCore
      <3>. QED
        BY <2>2, <3>1, <3>2, <3>3, <3>4, EmptySeq DEF Core, TypeCore
    <2>4. Owned'
      <3>1. /\ reactor'.handler = [reactor.handler EXCEPT ![acceptorFd] = NoHandler]
            /\ reactor'.watched = [reactor.watched EXCEPT ![acceptorFd] = {}]
        BY <2>2 DEF DelHandler
      <3>. QED
        BY <2>1, <2>2, <3>1 DEF Core, TypeCore, Owned
    <2>5. PoolSafe'
      BY DEF Core, PoolSafe
    <2>. QED
      BY <2>1, <2>2, <2>3, <2>4, <2>5 DEF Core, TypeCore
  <1>. QED
    BY <1>1, <1>2

-----------------------------------------------------------------------------
LEMMA InitEstablishes == Init => IInv
  <1>. SUFFICES ASSUME Init PROVE IInv
    OBVIOUS
  <1>. USE GateAssumption
  <1>1. acceptorFd \in Fds
    BY MinIsIn DEF Init
  <1>2. reactor = [handler |-> [[fd \in Fds |-> NoHandler] EXCEPT ![acceptorFd] = "acceptor"],
                   watched |-> [[fd \in Fds |-> {}] EXCEPT ![acceptorFd] = {"IN"}]]
    BY DEF Init, AddHandler, EmptyReactor
  <1>3. TypeCore
    <2>1. reactor \in [handler : [Fds -> Conns \cup {"acceptor", NoHandler}],
                       watched : [Fds -> SUBSET {"IN", "OUT"}]]
      BY <1>1, <1>2
    <2>2. pool \in Seq(Conns) /\ backlog \in Seq(Clients)
      BY EmptySeq DEF Init
    <2>. QED
      BY <1>1, <2>1, <2>2 DEF Init, TypeCore
  <1>4. Owned
    BY <1>1, <1>2 DEF Init, Owned
  <1>5. PoolSafe
    BY DEF Init, PoolSafe, IsInjective, ToSet
  <1>6. TypeLoop /\ BatchOrder
    BY <1>1 DEF Init, TypeLoop, BatchOrder, NoEvents
  <1>. QED
    BY <1>3, <1>4, <1>5, <1>6 DEF IInv, Core

\* Steps that leave the connections, the sockets and the registrations alone.
LEMMA CoreUnchanged ==
    ASSUME Core, UNCHANGED <<reactor, acceptorFd, connVars, sock>>,
           stopping' \in BOOLEAN, closed' \subseteq Fds, backlog' \in Seq(Clients),
           link' \in [Clients -> {"away", "quiet", "data", "reset"}]
    PROVE  Core'
  <1>1. TypeCore'
    BY DEF Core, TypeCore, connVars
  <1>2. Owned'
    BY DEF Core, Owned, connVars
  <1>3. PoolSafe'
    BY DEF Core, PoolSafe, connVars
  <1>. QED
    BY <1>1, <1>2, <1>3 DEF Core

\* What the main loop and the timers do between two rounds of run_once.
LEMMA LoopKeeps ==
    ASSUME BatchOrder, TypeLoop, pc = "loop", UNCHANGED loopVars, closed' = {}, TypeCore'
    PROVE  (TypeLoop /\ BatchOrder)'
  <1>1. TypeLoop'
    BY DEF loopVars, TypeLoop
  <1>2. current = NoFd
    BY DEF BatchOrder
  <1>3. batch = NoEvents /\ \A fd \in Fds : batch[fd] = {}
    BY DEF BatchOrder, NoEvents
  <1>4. BatchOrder'
    BY <1>2, <1>3 DEF BatchOrder, loopVars, NoEvents, TypeCore
  <1>. QED
    BY <1>1, <1>4

LEMMA PeerKeeps ==
    ASSUME IInv, NEW c \in Clients, ClientConnects(c) \/ ClientActs(c)
    PROVE  IInv'
  <1>1. /\ UNCHANGED <<reactor, loopVars, closed, acceptorFd, connVars, stopping, sock>>
        /\ backlog' \in {backlog, Append(backlog, c)}
        /\ \E s \in {"quiet", "data", "reset"} : link' = [link EXCEPT ![c] = s]
    BY DEF ClientConnects, ClientActs
  <1>2. /\ backlog' \in Seq(Clients)
        /\ link' \in [Clients -> {"away", "quiet", "data", "reset"}]
    <2>1. backlog \in Seq(Clients) /\ link \in [Clients -> {"away", "quiet", "data", "reset"}]
      BY DEF IInv, Core, TypeCore
    <2>2. Append(backlog, c) \in Seq(Clients)
      BY <2>1
    <2>3. PICK s \in {"quiet", "data", "reset"} : link' = [link EXCEPT ![c] = s]
      BY <1>1
    <2>4. link' \in [Clients -> {"away", "quiet", "data", "reset"}]
      BY <2>1, <2>3
    <2>. QED
      BY <1>1, <2>1, <2>2, <2>4
  <1>3. Core'
    BY <1>1, <1>2, CoreUnchanged DEF IInv, Core, TypeCore
  <1>4. TypeLoop' /\ BatchOrder'
    BY <1>1 DEF IInv, TypeLoop, BatchOrder, loopVars
  <1>. QED
    BY <1>3, <1>4 DEF IInv

LEMMA IdleTimeoutKeeps ==
    ASSUME IInv, NEW o \in Conns, OnIdleTimeout(o)
    PROVE  IInv'
  <1>1. pc = "loop" /\ OnEvent(o) /\ UNCHANGED loopVars /\ o \in objects /\ connFd[o] # NoFd
    BY DEF OnIdleTimeout, IInv, Core, PoolSafe
  <1>2. Core' /\ closed' = {}
    BY <1>1, OnEventKeeps DEF IInv
  <1>. QED
    BY <1>1, <1>2, LoopKeeps DEF IInv, Core

LEMMA StopKeeps ==
    ASSUME IInv, OnDelayStop \/ OnFini
    PROVE  IInv'
  <1>. USE GateAssumption
  <1>1. pc = "loop" /\ closed = {}
    BY DEF OnDelayStop, OnFini, IInv, BatchOrder
  <1>2. CASE OnDelayStop
    <2>1. AcceptorFini /\ UNCHANGED loopVars /\ UNCHANGED connVars /\ stopping' \in BOOLEAN
      BY <1>2 DEF OnDelayStop
    <2>2. Core' /\ closed' = {}
      BY <1>1, <2>1, AcceptorFiniKeeps DEF IInv, connVars
    <2>. QED
      BY <1>1, <2>1, <2>2, LoopKeeps DEF IInv, Core
  <1>3. CASE OnFini
    <2>1. /\ objects' = objects \ ToSet(pool) /\ pool' = << >> /\ pc' = "exited"
          /\ UNCHANGED <<reactor, batch, current, tries, closed, acceptorFd, connFd, armed,
                         stopping, sock, backlog, link>>
      BY <1>3 DEF OnFini, peerVars
    <2>2. TypeCore'
      BY <2>1, EmptySeq DEF IInv, Core, TypeCore
    <2>3. Owned'
      BY <2>1 DEF IInv, Core, TypeCore, Owned, PoolSafe
    <2>4. PoolSafe'
      BY <2>1 DEF IInv, Core, TypeCore, PoolSafe, IsInjective, ToSet
    <2>5. TypeLoop' /\ BatchOrder'
      BY <1>1, <2>1 DEF IInv, TypeLoop, BatchOrder, NoEvents
    <2>. QED
      BY <2>2, <2>3, <2>4, <2>5 DEF IInv, Core
  <1>. QED
    BY <1>2, <1>3

LEMMA ReloadKeeps ==
    ASSUME IInv, OnReload
    PROVE  IInv'
  <1>. USE GateAssumption
  <1>1. /\ pc = "loop" /\ closed = {} /\ UNCHANGED loopVars
        /\ UNCHANGED connVars /\ stopping' = stopping
    BY DEF OnReload, IInv, BatchOrder
  <1>2. CASE AcceptorFini
    <2>1. stopping' \in BOOLEAN /\ UNCHANGED <<connFd, armed, objects, pool>>
      BY <1>1 DEF IInv, Core, TypeCore, connVars
    <2>2. Core' /\ closed' = {}
      BY <1>1, <1>2, <2>1, AcceptorFiniKeeps DEF IInv
    <2>. QED
      BY <1>1, <2>2, LoopKeeps DEF IInv, Core
  <1>3. CASE ~AcceptorFini
    <2>. DEFINE unused == FreeFds \cup ({acceptorFd} \ {NoFd})
                fd == Min(unused)
                without == IF acceptorFd = NoFd THEN reactor ELSE DelHandler(reactor, acceptorFd)
    <2>1. /\ unused # {}
          /\ acceptorFd' = fd
          /\ reactor' = AddHandler(without, fd, "acceptor", {"IN"})
          /\ sock' = [f \in Fds |-> IF f = fd THEN "acceptor"
                                    ELSE IF f = acceptorFd THEN NoHandler ELSE sock[f]]
          /\ closed' = {}
          /\ link' = [c \in Clients |-> IF Contains(backlog, c) THEN "away" ELSE link[c]]
          /\ backlog' = << >>
      BY <1>1, <1>3 DEF OnReload, NoteClosed
    <2>2. fd \in Fds /\ (fd = acceptorFd \/ sock[fd] = NoHandler)
      <3>1. unused \in SUBSET Nat
        BY DEF FreeFds, IInv, Core, TypeCore
      <3>2. fd \in unused
        BY <2>1, <3>1, MinIsIn
      <3>. QED
        BY <3>2 DEF FreeFds, IInv, Core, TypeCore
    <2>3. /\ reactor'.handler = [f \in Fds |-> IF f = fd THEN "acceptor"
                                ELSE IF f = acceptorFd THEN NoHandler ELSE reactor.handler[f]]
          /\ reactor'.watched = [f \in Fds |-> IF f = fd THEN {"IN"}
                                ELSE IF f = acceptorFd THEN {} ELSE reactor.watched[f]]
          /\ reactor' \in [handler : [Fds -> Conns \cup {"acceptor", NoHandler}],
                           watched : [Fds -> SUBSET {"IN", "OUT"}]]
      <3>1. reactor \in [handler : [Fds -> Conns \cup {"acceptor", NoHandler}],
                         watched : [Fds -> SUBSET {"IN", "OUT"}]]
        BY DEF IInv, Core, TypeCore
      <3>2. CASE acceptorFd = NoFd
        <4>1. acceptorFd \notin Fds /\ reactor' = AddHandler(reactor, fd, "acceptor", {"IN"})
          BY <2>1, <3>2, GateAssumption
        <4>. HIDE DEF fd, unused, without
        <4>2. /\ reactor'.handler = [reactor.handler EXCEPT ![fd] = "acceptor"]
              /\ reactor'.watched = [reactor.watched EXCEPT ![fd] = {"IN"}]
              /\ reactor' = [handler |-> reactor'.handler, watched |-> reactor'.watched]
          BY <4>1 DEF AddHandler
        <4>3. /\ reactor.handler \in [Fds -> Conns \cup {"acceptor", NoHandler}]
              /\ reactor.watched \in [Fds -> SUBSET {"IN", "OUT"}]
          BY <3>1
        <4>4. \A f \in Fds : f # acceptorFd
          BY <4>1
        <4>5. reactor'.handler = [f \in Fds |-> IF f = fd THEN "acceptor"
                                 ELSE IF f = acceptorFd THEN NoHandler ELSE reactor.handler[f]]
          BY <4>2, <4>3, <4>4
        <4>6. reactor'.watched = [f \in Fds |-> IF f = fd THEN {"IN"}
                                 ELSE IF f = acceptorFd THEN {} ELSE reactor.watched[f]]
          BY <4>2, <4>3, <4>4
        <4>7. /\ reactor'.handler \in [Fds -> Conns \cup {"acceptor", NoHandler}]
              /\ reactor'.watched \in [Fds -> SUBSET {"IN", "OUT"}]
          BY <2>2, <4>2, <4>3
        <4>8. reactor' \in [handler : [Fds -> Conns \cup {"acceptor", NoHandler}],
                            watched : [Fds -> SUBSET {"IN", "OUT"}]]
          BY <4>2, <4>7
        <4>. QED
          BY <4>5, <4>6, <4>8
      <3>3. CASE acceptorFd # NoFd
        BY <2>1, <2>2, <3>1, <3>3 DEF AddHandler, DelHandler
      <3>. QED
        BY <3>2, <3>3
    <2>. HIDE DEF unused, fd, without
    <2>4. TypeCore'
      BY <1>1, <2>1, <2>2, <2>3, EmptySeq DEF IInv, Core, TypeCore, connVars
    <2>5. Owned'
      <3>1. \A f \in Fds : sock[f] \in Clients => f # fd /\ f # acceptorFd
        BY <2>2 DEF IInv, Core, TypeCore, Owned
      <3>2. \A f \in Fds : sock'[f] \in Clients =>
               sock[f] \in Clients /\ reactor'.handler[f] = reactor.handler[f]
        BY <2>1, <2>3, <3>1
      <3>3. \A f \in Fds : sock'[f] = "acceptor" <=> f = fd
        BY <2>1, <2>2 DEF IInv, Core, TypeCore, Owned
      <3>4. ASSUME NEW f \in Fds
            PROVE  /\ sock'[f] = NoHandler <=> reactor'.watched[f] = {}
                   /\ sock'[f] = NoHandler => reactor'.handler[f] = NoHandler
        <4>1. CASE f = fd
          BY <2>1, <2>3, <4>1
        <4>2. CASE f # fd /\ f = acceptorFd
          BY <2>1, <2>3, <4>2
        <4>3. CASE f # fd /\ f # acceptorFd
          BY <2>1, <2>3, <4>3 DEF IInv, Core, Owned
        <4>. QED
          BY <4>1, <4>2, <4>3
      <3>5. \A f \in Fds : sock[f] \in Clients =>
               sock'[f] = sock[f] /\ reactor'.handler[f] = reactor.handler[f]
        BY <2>1, <2>3, <3>1
      <3>6. \A o \in objects : connFd[o] # NoFd => connFd[o] \in Fds
        BY DEF IInv, Core, TypeCore
      <3>7. \A o \in objects' : connFd'[o] # NoFd =>
               sock'[connFd'[o]] \in Clients /\ reactor'.handler[connFd'[o]] = o
        BY <1>1, <3>5, <3>6 DEF IInv, Core, Owned, connVars
      <3>8. \A f \in Fds : sock'[f] \in Clients =>
               reactor'.handler[f] \in objects' /\ connFd'[reactor'.handler[f]] = f
        BY <1>1, <3>2 DEF IInv, Core, Owned, connVars
      <3>9. \A o \in Conns \ objects' : connFd'[o] = NoFd
        BY <1>1 DEF IInv, Core, Owned, connVars
      <3>10. reactor'.handler[fd] = "acceptor" /\ reactor'.watched[fd] = {"IN"}
        BY <2>2, <2>3
      <3>. QED
        BY <2>1, <3>3, <3>4, <3>7, <3>8, <3>9, <3>10 DEF Owned
    <2>6. PoolSafe'
      BY <1>1 DEF IInv, Core, PoolSafe, connVars
    <2>. QED
      BY <1>1, <2>1, <2>4, <2>5, <2>6, LoopKeeps DEF IInv, Core
  <1>. QED
    BY <1>2, <1>3

-----------------------------------------------------------------------------
\* What is left of a descriptor's events after a call.
LEMMA AfterEvent ==
    ASSUME TypeLoop, NEW fd \in Fds, NEW event, Due(fd, event), Dispatched(fd)
    PROVE  /\ pc = "events" /\ current \in {NoFd, fd} /\ batch[fd] # {}
           /\ batch' = [batch EXCEPT ![fd] = EventsAfter(batch[fd])]
           /\ current' \in {NoFd, fd}
           /\ batch'[fd] # {} <=> current' = fd
           /\ batch'[fd] \subseteq {"IN"}
           /\ event = "IN" \/ batch[fd] = {"IN"} => batch'[fd] = {}
           /\ batch' \in [Fds -> SUBSET {"ERR", "IN", "OUT"}]
           /\ \A f \in Fds : f # fd => batch'[f] = batch[f]
  <1>. USE GateAssumption
  <1>1. /\ pc = "events" /\ current \in {NoFd, fd} /\ batch[fd] # {}
        /\ event = NextEvent(batch[fd])
        /\ batch' = [batch EXCEPT ![fd] = EventsAfter(batch[fd])]
        /\ current' = IF EventsAfter(batch[fd]) = {} THEN NoFd ELSE fd
    BY DEF Due, Dispatched
  <1>2. batch[fd] \in SUBSET {"ERR", "IN", "OUT"}
    BY DEF TypeLoop
  <1>3. EventsAfter(batch[fd]) \subseteq {"IN"}
    BY <1>2 DEF EventsAfter, NextEvent
  <1>4. event = "IN" \/ batch[fd] = {"IN"} => EventsAfter(batch[fd]) = {}
    BY <1>1, <1>2 DEF EventsAfter, NextEvent
  <1>. QED
    BY <1>1, <1>3, <1>4 DEF TypeLoop

\* A call that closes no descriptor, or only its own, keeps the order of the batch.
LEMMA DispatchKeeps ==
    ASSUME IInv, NEW fd \in Fds, NEW event, Due(fd, event), Dispatched(fd),
           UNCHANGED <<pc, tries, acceptorFd>>,
           \/ UNCHANGED <<sock, closed>>
           \/ sock' = [sock EXCEPT ![fd] = NoHandler] /\ closed' = closed \cup {fd}
    PROVE  (TypeLoop /\ BatchOrder)'
  <1>. USE GateAssumption
  <1>1. /\ pc = "events" /\ current \in {NoFd, fd} /\ batch[fd] # {}
        /\ current' \in {NoFd, fd}
        /\ batch'[fd] # {} <=> current' = fd
        /\ batch'[fd] \subseteq {"IN"}
        /\ batch' \in [Fds -> SUBSET {"ERR", "IN", "OUT"}]
        /\ \A f \in Fds : f # fd => batch'[f] = batch[f]
    BY AfterEvent DEF IInv
  <1>2. TypeLoop'
    BY <1>1 DEF IInv, TypeLoop
  <1>3. sock \in [Fds -> Clients \cup {"acceptor", NoHandler}] /\ acceptorFd \in Fds \cup {NoFd}
    BY DEF IInv, Core, TypeCore
  <1>4. current' # NoFd => batch'[current'] = {"IN"}
    BY <1>1
  <1>5. ASSUME NEW f \in Fds, batch'[f] # {}, sock'[f] = NoHandler
        PROVE  current' = f
    BY <1>1, <1>3, <1>5 DEF IInv, BatchOrder
  <1>6. ASSUME NEW f \in Fds, batch'[f] # {}, f \in closed'
        PROVE  sock'[f] = NoHandler
    BY <1>1, <1>3, <1>6 DEF IInv, BatchOrder
  <1>7. acceptorFd' # NoFd => batch'[acceptorFd'] \subseteq {"IN"}
    BY <1>1, <1>3 DEF IInv, BatchOrder
  <1>. QED
    BY <1>1, <1>2, <1>4, <1>5, <1>6, <1>7 DEF BatchOrder

\* A connection object that the reactor calls owns the descriptor it is called for.
LEMMA HandlerIsOwner ==
    ASSUME Core, NEW fd \in Fds, reactor.handler[fd] \in Conns
    PROVE  /\ sock[fd] \in Clients
           /\ reactor.handler[fd] \in objects
           /\ connFd[reactor.handler[fd]] = fd
           /\ fd # NoFd
           /\ reactor.watched[fd] # {}
  BY GateAssumption DEF Core, TypeCore, Owned

\* A change of the events a connection is registered for.
LEMMA ModKeeps ==
    ASSUME Core, NEW fd \in Fds, reactor.handler[fd] \in Conns,
           NEW events \in SUBSET {"IN", "OUT"}, events # {},
           reactor' \in {reactor, ModHandler(reactor, fd, reactor.handler[fd], events)},
           UNCHANGED <<closed, acceptorFd, connVars, stopping, sock, backlog>>,
           link' \in [Clients -> {"away", "quiet", "data", "reset"}]
    PROVE  Core'
  <1>. USE GateAssumption
  <1>1. sock[fd] \in Clients /\ reactor.watched[fd] # {}
    BY HandlerIsOwner
  <1>2. /\ reactor' \in [handler : [Fds -> Conns \cup {"acceptor", NoHandler}],
                         watched : [Fds -> SUBSET {"IN", "OUT"}]]
        /\ reactor'.handler = reactor.handler
        /\ \A f \in Fds : f # fd => reactor'.watched[f] = reactor.watched[f]
        /\ reactor'.watched[fd] # {}
    <2>1. /\ reactor \in [handler : [Fds -> Conns \cup {"acceptor", NoHandler}],
                          watched : [Fds -> SUBSET {"IN", "OUT"}]]
      BY DEF Core, TypeCore
    <2>2. CASE reactor' = reactor
      BY <1>1, <2>1, <2>2
    <2>3. CASE reactor' = [handler |-> [reactor.handler EXCEPT ![fd] = reactor.handler[fd]],
                           watched |-> [reactor.watched EXCEPT ![fd] = events]]
      BY <2>1, <2>3
    <2>. QED
      BY <1>1, <2>2, <2>3 DEF ModHandler, AddHandler
  <1>3. TypeCore'
    BY <1>2 DEF Core, TypeCore, connVars
  <1>4. Owned'
    <2>1. \A f \in Fds : sock[f] = "acceptor" => f # fd
      BY <1>1
    <2>2. \A f \in Fds : sock'[f] = NoHandler <=> reactor'.watched[f] = {}
      BY <1>1, <1>2 DEF Core, Owned
    <2>. QED
      BY <1>2, <2>1, <2>2 DEF Core, Owned, connVars
  <1>5. PoolSafe'
    BY DEF Core, PoolSafe, connVars
  <1>. QED
    BY <1>3, <1>4, <1>5 DEF Core

LEMMA EventKeeps ==
    ASSUME IInv, NEW fd \in Fds, SkipEvent(fd) \/ OnError(fd) \/ OnWrite(fd) \/ OnRead(fd)
    PROVE  IInv'
  <1>. USE GateAssumption
  <1>1. PICK event : Due(fd, event)
    BY DEF SkipEvent, OnError, OnWrite, OnRead
  <1>2. Dispatched(fd) /\ UNCHANGED <<pc, tries>> /\ pc = "events"
    BY <1>1 DEF SkipEvent, OnError, OnWrite, OnRead, Due
  <1>3. ASSUME Core', UNCHANGED <<acceptorFd, sock, closed>>
        PROVE  IInv'
    BY <1>1, <1>2, <1>3, DispatchKeeps DEF IInv
  <1>4. ASSUME reactor.handler[fd] \in Conns, OnEvent(reactor.handler[fd])
        PROVE  IInv'
    <2>. DEFINE o == reactor.handler[fd]
    <2>1. o \in objects /\ connFd[o] = fd /\ fd # NoFd
      BY <1>4, HandlerIsOwner DEF IInv
    <2>2. /\ Core' /\ acceptorFd' = acceptorFd
          /\ sock' = [sock EXCEPT ![fd] = NoHandler]
          /\ closed' = closed \cup {fd}
      BY <1>2, <1>4, <2>1, OnEventKeeps DEF IInv
    <2>. QED
      BY <1>1, <1>2, <2>2, DispatchKeeps DEF IInv
  <1>5. CASE SkipEvent(fd)
    <2>1. UNCHANGED <<reactor, closed, acceptorFd, connVars, stopping, sock, backlog, link>>
      BY <1>5 DEF SkipEvent, peerVars
    <2>2. Core'
      BY <2>1, CoreUnchanged DEF IInv, Core, TypeCore
    <2>. QED
      BY <1>3, <2>1, <2>2
  <1>6. CASE OnError(fd)
    BY <1>4, <1>6 DEF OnError
  <1>7. CASE OnWrite(fd)
    <2>1. CASE OnEvent(reactor.handler[fd])
      BY <1>4, <1>7, <2>1 DEF OnWrite
    <2>2. CASE /\ reactor' \in {reactor, ModHandler(reactor, fd, reactor.handler[fd], {"IN"})}
               /\ UNCHANGED <<closed, acceptorFd, connVars, stopping, sock, peerVars>>
      <3>1. reactor.handler[fd] \in Conns
        BY <1>7 DEF OnWrite
      <3>2. link' \in [Clients -> {"away", "quiet", "data", "reset"}] /\ backlog' = backlog
        BY <2>2 DEF peerVars, IInv, Core, TypeCore
      <3>3. Core'
        BY <2>2, <3>1, <3>2, ModKeeps DEF IInv
      <3>. QED
        BY <1>3, <2>2, <3>3
    <2>. QED
      BY <1>7, <2>1, <2>2 DEF OnWrite
  <1>8. CASE OnRead(fd)
    <2>. DEFINE o == reactor.handler[fd]
    <2>1. o \in Conns
      BY <1>8 DEF OnRead
    <2>2. CASE OnEvent(o)
      BY <1>4, <2>1, <2>2
    <2>3. CASE /\ link' = [link EXCEPT ![sock[fd]] = "quiet"]
               /\ reactor' \in {reactor, ModHandler(reactor, fd, o, {"IN"}),
                                ModHandler(reactor, fd, o, {"IN", "OUT"})}
               /\ UNCHANGED <<closed, acceptorFd, connVars, stopping, sock, backlog>>
      <3>1. link' \in [Clients -> {"away", "quiet", "data", "reset"}]
        BY <2>3 DEF IInv, Core, TypeCore
      <3>2. CASE reactor' \in {reactor, ModHandler(reactor, fd, o, {"IN"})}
        <4>1. Core'
          BY <2>1, <2>3, <3>1, <3>2, ModKeeps DEF IInv
        <4>. QED
          BY <1>3, <2>3, <4>1
      <3>3. CASE reactor' \in {reactor, ModHandler(reactor, fd, o, {"IN", "OUT"})}
        <4>1. Core'
          BY <2>1, <2>3, <3>1, <3>3, ModKeeps DEF IInv
        <4>. QED
          BY <1>3, <2>3, <4>1
      <3>. QED
        BY <2>3, <3>2, <3>3
    <2>4. CASE UNCHANGED <<reactor, closed, acceptorFd, connVars, stopping, sock, peerVars>>
      <3>1. Core'
        BY <2>4, CoreUnchanged DEF IInv, Core, TypeCore, peerVars
      <3>. QED
        BY <1>3, <2>4, <3>1
    <2>. QED
      BY <1>8, <2>2, <2>3, <2>4 DEF OnRead
  <1>. QED
    BY <1>5, <1>6, <1>7, <1>8

LEMMA BatchKeeps ==
    ASSUME IInv, RunOnce \/ EndOfBatch
    PROVE  IInv'
  <1>. USE GateAssumption
  <1>1. UNCHANGED <<reactor, current, tries, acceptorFd, connVars, stopping, sock, backlog, link>>
    BY DEF RunOnce, EndOfBatch, peerVars
  <1>2. closed' \subseteq Fds
    BY DEF RunOnce, EndOfBatch, IInv, Core, TypeCore
  <1>3. Core'
    BY <1>1, <1>2, CoreUnchanged DEF IInv, Core, TypeCore
  <1>4. CASE RunOnce
    <2>1. pc = "loop" /\ pc' = "events" /\ closed = {} /\ closed' = {} /\ current = NoFd
      BY <1>4 DEF RunOnce, IInv, BatchOrder
    <2>2. PICK writable \in SUBSET Fds :
             batch' = [fd \in Fds |-> Reported(reactor, fd,
                         Condition(fd) \cup IF fd \in writable THEN {"OUT"} ELSE {})]
      BY <1>4 DEF RunOnce
    <2>3. ASSUME NEW fd \in Fds
          PROVE  /\ batch'[fd] \subseteq {"ERR", "IN", "OUT"}
                 /\ sock[fd] = NoHandler => batch'[fd] = {}
                 /\ sock[fd] = "acceptor" => batch'[fd] \subseteq {"IN"}
      <3>1. reactor.watched[fd] \subseteq {"IN", "OUT"}
        BY DEF IInv, Core, TypeCore
      <3>2. batch'[fd] \subseteq {"ERR"} \cup reactor.watched[fd]
        BY <2>2 DEF Reported
      <3>3. sock[fd] = NoHandler => batch'[fd] = {}
        BY <2>2 DEF Reported, IInv, Core, Owned
      <3>4. sock[fd] = "acceptor" => "ERR" \notin batch'[fd]
        BY <2>2 DEF Reported, Condition
      <3>. QED
        BY <3>1, <3>2, <3>3, <3>4 DEF IInv, Core, Owned
    <2>4. TypeLoop'
      <3>1. batch' \in [Fds -> SUBSET {"ERR", "IN", "OUT"}]
        BY <2>2, <2>3
      <3>. QED
        BY <1>1, <2>1, <3>1 DEF IInv, TypeLoop
    <2>5. BatchOrder'
      BY <1>1, <2>1, <2>3 DEF BatchOrder, IInv, Core, TypeCore, Owned
    <2>. QED
      BY <1>3, <2>4, <2>5 DEF IInv
  <1>5. CASE EndOfBatch
    <2>1. /\ pc = "events" /\ pc' = "loop" /\ batch = NoEvents /\ batch' = batch
          /\ closed' = {}
      BY <1>5 DEF EndOfBatch
    <2>2. TypeLoop'
      BY <1>1, <2>1 DEF IInv, TypeLoop
    <2>3. current = NoFd
      BY <2>1 DEF IInv, BatchOrder, TypeLoop, NoEvents
    <2>4. BatchOrder'
      BY <1>1, <2>1, <2>3 DEF BatchOrder, NoEvents, IInv, Core, TypeCore
    <2>. QED
      BY <1>3, <2>2, <2>4 DEF IInv
  <1>. QED
    BY <1>4, <1>5

-----------------------------------------------------------------------------
\* In the acceptor's loop nothing is left of its own event, and a free descriptor
\* has no event.
LEMMA AcceptState ==
    ASSUME IInv, pc = "accept"
    PROVE  /\ current = NoFd
           /\ \A fd \in Fds : sock[fd] = NoHandler => batch[fd] = {}
           /\ acceptorFd # NoFd => batch[acceptorFd] = {}
  <1>1. current = NoFd
    BY DEF IInv, BatchOrder
  <1>2. \A fd \in Fds : sock[fd] = NoHandler => batch[fd] = {}
    BY <1>1, GateAssumption DEF IInv, BatchOrder
  <1>. QED
    BY <1>1, <1>2 DEF IInv, BatchOrder

\* The descriptors that the acceptor's loop opens and closes have no event left.
LEMMA AcceptKeeps ==
    ASSUME IInv, pc = "accept", TypeCore',
           UNCHANGED <<batch, current>>,
           pc' \in {"accept", "events"}, tries' \in 0 .. MaxAccept,
           acceptorFd' \in {acceptorFd, NoFd},
           NEW F \in SUBSET Fds, \A fd \in F : batch[fd] = {},
           \A fd \in Fds \ F : sock'[fd] = sock[fd],
           closed' \subseteq closed \cup F
    PROVE  (TypeLoop /\ BatchOrder)'
  <1>. USE GateAssumption, AcceptState
  <1>1. TypeLoop'
    BY DEF IInv, TypeLoop
  <1>2. BatchOrder'
    BY DEF IInv, BatchOrder, Core, TypeCore
  <1>. QED
    BY <1>1, <1>2

LEMMA AcceptorOnReadKeeps ==
    ASSUME IInv, NEW fd \in Fds, AcceptorOnRead(fd)
    PROVE  IInv'
  <1>. USE GateAssumption
  <1>1. /\ Due(fd, "IN") /\ Dispatched(fd) /\ reactor.handler[fd] = "acceptor"
        /\ pc' = "accept" /\ tries' = MaxAccept
        /\ UNCHANGED <<reactor, closed, acceptorFd, connVars, stopping, sock, backlog, link>>
    BY DEF AcceptorOnRead, peerVars
  <1>2. Core'
    BY <1>1, CoreUnchanged DEF IInv, Core, TypeCore
  <1>3. /\ pc = "events" /\ current \in {NoFd, fd}
        /\ current' = NoFd /\ batch'[fd] = {}
        /\ batch' \in [Fds -> SUBSET {"ERR", "IN", "OUT"}]
        /\ \A f \in Fds : f # fd => batch'[f] = batch[f]
    BY <1>1, AfterEvent DEF IInv
  <1>4. acceptorFd = fd
    BY <1>1 DEF IInv, Core, TypeCore, Owned
  <1>5. TypeLoop'
    BY <1>1, <1>3 DEF IInv, TypeLoop
  <1>6. BatchOrder'
    BY <1>1, <1>3, <1>4 DEF IInv, BatchOrder
  <1>. QED
    BY <1>2, <1>5, <1>6 DEF IInv

\* The object alloc_connection returns is not in use.
LEMMA AllocatableIsIdle ==
    ASSUME Core, NEW o \in Allocatable
    PROVE  /\ o \in Conns /\ connFd[o] = NoFd
           /\ pool = << >> => o \notin objects
           /\ pool # << >> => o = Last(pool) /\ o \in ToSet(pool) /\ o \in objects
  <1>1. CASE pool = << >>
    BY <1>1 DEF Allocatable, Core, Owned
  <1>2. CASE pool # << >>
    <2>1. o = Last(pool) /\ Last(pool) \in ToSet(pool)
      BY <1>2, PoolPop DEF Allocatable, Core, TypeCore, PoolSafe
    <2>. QED
      BY <1>2, <2>1 DEF Core, TypeCore, PoolSafe
  <1>. QED
    BY <1>1, <1>2

LEMMA BacklogTail ==
    ASSUME TypeCore, backlog # << >>
    PROVE  Head(backlog) \in Clients /\ Tail(backlog) \in Seq(Clients)
  BY HeadTailProperties DEF TypeCore

LEMMA OnConnectionKeeps ==
    ASSUME IInv, OnConnection
    PROVE  IInv'
  <1>. DEFINE fd == Min(FreeFds)
  <1>. USE GateAssumption
  <1>1. /\ pc = "accept" /\ tries > 0 /\ backlog # << >> /\ FreeFds # {}
        /\ pc' = pc /\ tries' = tries - 1 /\ backlog' = Tail(backlog)
        /\ UNCHANGED <<batch, current, closed, acceptorFd, stopping, link>>
    BY DEF OnConnection, CanAccept
  <1>2. PICK o \in Allocatable :
           /\ sock' = [sock EXCEPT ![fd] = Head(backlog)]
           /\ reactor' = AddHandler(reactor, fd, o, {"IN"})
           /\ connFd' = [connFd EXCEPT ![o] = fd]
           /\ armed' = armed \cup {o}
           /\ objects' = objects \cup {o}
    BY DEF OnConnection, TimerOn
  <1>3. pool' = IF pool = << >> THEN pool ELSE Front(pool)
    BY DEF OnConnection
  <1>4. fd \in Fds /\ sock[fd] = NoHandler
    BY <1>1, MinFreeFd DEF IInv, Core
  <1>. HIDE DEF fd
  <1>5. o \in Conns /\ connFd[o] = NoFd
    BY AllocatableIsIdle DEF IInv
  <1>6. Head(backlog) \in Clients /\ Tail(backlog) \in Seq(Clients)
    BY <1>1, BacklogTail DEF IInv, Core
  <1>7. /\ reactor'.handler = [reactor.handler EXCEPT ![fd] = o]
        /\ reactor'.watched = [reactor.watched EXCEPT ![fd] = {"IN"}]
        /\ reactor' \in [handler : [Fds -> Conns \cup {"acceptor", NoHandler}],
                         watched : [Fds -> SUBSET {"IN", "OUT"}]]
    BY <1>2, <1>4, <1>5 DEF AddHandler, IInv, Core, TypeCore
  <1>8. TypeCore'
    <2>1. pool' \in Seq(Conns)
      BY <1>3, PoolPop DEF IInv, Core, TypeCore, PoolSafe
    <2>. QED
      BY <1>1, <1>2, <1>4, <1>5, <1>6, <1>7, <2>1 DEF IInv, Core, TypeCore
  <1>9. Owned'
    <2>1. ASSUME NEW p \in objects', connFd'[p] # NoFd
          PROVE  sock'[connFd'[p]] \in Clients /\ reactor'.handler[connFd'[p]] = p
      <3>1. CASE p = o
        BY <1>2, <1>4, <1>5, <1>6, <1>7, <3>1 DEF IInv, Core, TypeCore
      <3>2. CASE p # o
        BY <1>2, <1>4, <1>5, <1>6, <1>7, <2>1, <3>2 DEF IInv, Core, TypeCore, Owned
      <3>. QED
        BY <3>1, <3>2
    <2>2. \A p \in Conns \ objects' : connFd'[p] = NoFd
      BY <1>2, <1>5 DEF IInv, Core, TypeCore, Owned
    <2>3. ASSUME NEW f \in Fds, sock'[f] \in Clients
          PROVE  /\ reactor'.handler[f] \in objects'
                 /\ connFd'[reactor'.handler[f]] = f
      <3>1. CASE f = fd
        BY <1>2, <1>4, <1>5, <1>7, <3>1 DEF IInv, Core, TypeCore
      <3>2. CASE f # fd
        BY <1>2, <1>4, <1>5, <1>7, <2>3, <3>2 DEF IInv, Core, TypeCore, Owned
      <3>. QED
        BY <3>1, <3>2
    <2>4. ASSUME NEW f \in Fds
          PROVE  /\ sock'[f] = "acceptor" <=> acceptorFd' = f
                 /\ sock'[f] = "acceptor" =>
                       reactor'.handler[f] = "acceptor" /\ reactor'.watched[f] = {"IN"}
                 /\ sock'[f] = NoHandler <=> reactor'.watched[f] = {}
                 /\ sock'[f] = NoHandler => reactor'.handler[f] = NoHandler
      <3>1. CASE f = fd
        <4>1. sock'[f] \in Clients /\ reactor'.watched[f] = {"IN"}
          BY <1>2, <1>4, <1>6, <1>7, <3>1 DEF IInv, Core, TypeCore
        <4>2. acceptorFd # f
          BY <1>4, <3>1 DEF IInv, Core, Owned
        <4>. QED
          BY <1>1, <4>1, <4>2
      <3>2. CASE f # fd
        <4>1. /\ sock'[f] = sock[f]
              /\ reactor'.handler[f] = reactor.handler[f]
              /\ reactor'.watched[f] = reactor.watched[f]
          BY <1>2, <1>4, <1>7, <3>2 DEF IInv, Core, TypeCore
        <4>. QED
          BY <1>1, <4>1 DEF IInv, Core, Owned
      <3>. QED
        BY <3>1, <3>2
    <2>. QED
      BY <2>1, <2>2, <2>3, <2>4 DEF Owned
  <1>10. PoolSafe'
    <2>1. /\ IsInjective(pool')
          /\ ToSet(pool') = ToSet(pool) \ {o}
      <3>1. CASE pool = << >>
        BY <1>3, <3>1 DEF IsInjective, ToSet
      <3>2. CASE pool # << >>
        BY <1>3, <3>2, PoolPop, AllocatableIsIdle DEF IInv, Core, TypeCore, PoolSafe
      <3>. QED
        BY <3>1, <3>2
    <2>2. ToSet(pool') = {p \in objects' : connFd'[p] = NoFd}
      BY <1>2, <1>4, <1>5, <2>1 DEF IInv, Core, TypeCore, PoolSafe
    <2>3. armed' = {p \in objects' : connFd'[p] # NoFd}
      BY <1>2, <1>4, <1>5 DEF IInv, Core, TypeCore, PoolSafe
    <2>. QED
      BY <2>1, <2>2, <2>3 DEF PoolSafe
  <1>11. (TypeLoop /\ BatchOrder)'
    <2>. DEFINE F == {fd}
    <2>1. batch[fd] = {}
      BY <1>1, <1>4, AcceptState
    <2>2. \A f \in Fds \ F : sock'[f] = sock[f]
      BY <1>2 DEF IInv, Core, TypeCore
    <2>3. tries' \in 0 .. MaxAccept
      BY <1>1 DEF IInv, TypeLoop
    <2>4. /\ F \in SUBSET Fds /\ \A f \in F : batch[f] = {}
          /\ closed' \subseteq closed \cup F
      BY <1>1, <1>4, <2>1
    <2>. HIDE DEF F
    <2>. QED
      BY <1>1, <1>8, <2>2, <2>3, <2>4, AcceptKeeps
  <1>. QED
    BY <1>8, <1>9, <1>10, <1>11 DEF IInv, Core

LEMMA RefuseKeeps ==
    ASSUME IInv, Refuse
    PROVE  IInv'
  <1>. DEFINE fd == Min(FreeFds)
  <1>. USE GateAssumption
  <1>1. /\ pc = "accept" /\ tries > 0 /\ backlog # << >> /\ FreeFds # {}
        /\ pc' = pc /\ tries' = tries - 1 /\ backlog' = Tail(backlog)
        /\ link' = [link EXCEPT ![Head(backlog)] = "away"]
        /\ closed' = closed \cup {fd}
        /\ UNCHANGED <<reactor, batch, current, acceptorFd, connFd, armed, stopping, sock>>
    BY DEF Refuse, CanAccept, NoteClosed
  <1>2. fd \in Fds /\ sock[fd] = NoHandler
    BY <1>1, MinFreeFd DEF IInv, Core
  <1>. HIDE DEF fd
  <1>3. \/ objects' = objects /\ pool' = pool
        \/ \E o \in Allocatable :
             objects' = objects \cup {o} /\ pool' = IF pool = << >> THEN <<o>> ELSE pool
    BY DEF Refuse
  <1>4. /\ closed' \subseteq Fds
        /\ backlog' \in Seq(Clients)
        /\ link' \in [Clients -> {"away", "quiet", "data", "reset"}]
    BY <1>1, <1>2, BacklogTail DEF IInv, Core, TypeCore
  <1>5. Core'
    <2>1. CASE objects' = objects /\ pool' = pool
      BY <1>1, <1>4, <2>1, CoreUnchanged DEF IInv, Core, TypeCore, connVars
    <2>2. ASSUME NEW o \in Allocatable, objects' = objects \cup {o},
                 pool' = IF pool = << >> THEN <<o>> ELSE pool
          PROVE  Core'
      <3>1. /\ o \in Conns /\ connFd[o] = NoFd
            /\ pool # << >> => o \in objects
        BY AllocatableIsIdle DEF IInv
      <3>2. CASE pool # << >>
        BY <1>1, <1>4, <2>2, <3>1, <3>2, CoreUnchanged DEF IInv, Core, TypeCore, connVars
      <3>3. CASE pool = << >>
        <4>1. TypeCore'
          BY <1>1, <1>4, <2>2, <3>1, <3>3 DEF IInv, Core, TypeCore
        <4>2. Owned'
          BY <1>1, <2>2, <3>1 DEF IInv, Core, TypeCore, Owned
        <4>3. PoolSafe'
          <5>1. pool' = <<o>> /\ ToSet(pool) = {}
            BY <2>2, <3>3 DEF ToSet
          <5>2. IsInjective(pool') /\ ToSet(pool') = {o}
            BY <5>1 DEF IsInjective, ToSet
          <5>. QED
            BY <1>1, <2>2, <3>1, <5>1, <5>2 DEF IInv, Core, PoolSafe
        <4>. QED
          BY <4>1, <4>2, <4>3 DEF Core
      <3>. QED
        BY <3>2, <3>3
    <2>. QED
      BY <1>3, <2>1, <2>2
  <1>6. (TypeLoop /\ BatchOrder)'
    <2>. DEFINE F == {fd}
    <2>1. batch[fd] = {}
      BY <1>1, <1>2, AcceptState
    <2>2. tries' \in 0 .. MaxAccept
      BY <1>1 DEF IInv, TypeLoop
    <2>3. TypeCore'
      BY <1>5 DEF Core
    <2>4. /\ F \in SUBSET Fds /\ \A f \in F : batch[f] = {}
          /\ \A f \in Fds \ F : sock'[f] = sock[f]
          /\ closed' \subseteq closed \cup F
      BY <1>1, <1>2, <2>1
    <2>. HIDE DEF F
    <2>. QED
      BY <1>1, <2>2, <2>3, <2>4, AcceptKeeps
  <1>. QED
    BY <1>5, <1>6 DEF IInv

LEMMA AcceptFailsKeeps ==
    ASSUME IInv, AcceptFails
    PROVE  IInv'
  <1>. DEFINE F == {acceptorFd} \ {NoFd}
  <1>. USE GateAssumption
  <1>1. /\ pc = "accept" /\ tries > 0 /\ AcceptorFini
        /\ pc' = pc /\ tries' = tries - 1
        /\ UNCHANGED <<batch, current, connFd, armed, objects, pool, stopping>>
    BY DEF AcceptFails, connVars
  <1>2. stopping' \in BOOLEAN
    BY <1>1 DEF IInv, Core, TypeCore
  <1>3. /\ Core' /\ acceptorFd' = NoFd
        /\ \A fd \in Fds \ F : sock'[fd] = sock[fd]
        /\ closed' \subseteq closed \cup F
    BY <1>1, <1>2, AcceptorFiniKeeps DEF IInv, Core, TypeCore
  <1>4. F \in SUBSET Fds /\ \A fd \in F : batch[fd] = {}
    BY <1>1, AcceptState DEF IInv, Core, TypeCore
  <1>5. tries' \in 0 .. MaxAccept
    BY <1>1 DEF IInv, TypeLoop
  <1>. HIDE DEF F
  <1>6. TypeCore'
    BY <1>3 DEF Core
  <1>7. (TypeLoop /\ BatchOrder)'
    BY <1>1, <1>3, <1>4, <1>5, <1>6, AcceptKeeps
  <1>. QED
    BY <1>3, <1>7 DEF IInv

LEMMA AcceptorReturnsKeeps ==
    ASSUME IInv, AcceptorReturns
    PROVE  IInv'
  <1>. USE GateAssumption
  <1>1. /\ pc = "accept" /\ pc' = "events" /\ tries' = 0
        /\ UNCHANGED <<reactor, batch, current, closed, acceptorFd, connVars, stopping, sock,
                       backlog, link>>
    BY DEF AcceptorReturns, peerVars
  <1>2. Core'
    BY <1>1, CoreUnchanged DEF IInv, Core, TypeCore
  <1>3. TypeCore' /\ 0 \in 0 .. MaxAccept
    BY <1>2 DEF Core
  <1>4. (TypeLoop /\ BatchOrder)'
    <2>. DEFINE F == {}
    <2>1. /\ F \in SUBSET Fds /\ \A fd \in F : batch[fd] = {}
          /\ \A fd \in Fds \ F : sock'[fd] = sock[fd]
          /\ closed' \subseteq closed \cup F
      BY <1>1
    <2>. HIDE DEF F
    <2>. QED
      BY <1>1, <1>3, <2>1, AcceptKeeps
  <1>. QED
    BY <1>2, <1>4 DEF IInv

LEMMA StutterKeeps ==
    ASSUME IInv, UNCHANGED vars
    PROVE  IInv'
  <1>1. UNCHANGED <<reactor, batch, current, pc, tries, closed, acceptorFd, connVars, stopping,
                    sock, backlog, link>>
    BY DEF vars, loopVars, peerVars
  <1>2. Core'
    BY <1>1, CoreUnchanged DEF IInv, Core, TypeCore
  <1>3. TypeLoop' /\ BatchOrder'
    BY <1>1 DEF IInv, TypeLoop, BatchOrder
  <1>. QED
    BY <1>2, <1>3 DEF IInv

LEMMA StepKeeps == IInv /\ [Next]_vars => IInv'
  <1>. SUFFICES ASSUME IInv, [Next]_vars
                PROVE  IInv'
    OBVIOUS
  <1>1. CASE UNCHANGED vars
    BY <1>1, StutterKeeps
  <1>2. CASE ThreadStep
    <2>1. CASE RunOnce \/ EndOfBatch
      BY <2>1, BatchKeeps
    <2>2. ASSUME NEW fd \in Fds, SkipEvent(fd) \/ OnError(fd) \/ OnWrite(fd) \/ OnRead(fd)
          PROVE  IInv'
      BY <2>2, EventKeeps
    <2>3. ASSUME NEW fd \in Fds, AcceptorOnRead(fd)
          PROVE  IInv'
      BY <2>3, AcceptorOnReadKeeps
    <2>4. CASE OnConnection
      BY <2>4, OnConnectionKeeps
    <2>5. CASE Refuse
      BY <2>5, RefuseKeeps
    <2>6. CASE AcceptFails
      BY <2>6, AcceptFailsKeeps
    <2>7. CASE AcceptorReturns
      BY <2>7, AcceptorReturnsKeeps
    <2>. QED
      BY <1>2, <2>1, <2>2, <2>3, <2>4, <2>5, <2>6, <2>7 DEF ThreadStep
  <1>3. ASSUME NEW o \in Conns, OnIdleTimeout(o)
        PROVE  IInv'
    BY <1>3, IdleTimeoutKeeps
  <1>4. CASE OnReload
    BY <1>4, ReloadKeeps
  <1>5. CASE OnDelayStop \/ OnFini
    BY <1>5, StopKeeps
  <1>6. ASSUME NEW c \in Clients, ClientConnects(c) \/ ClientActs(c)
        PROVE  IInv'
    BY <1>6, PeerKeeps
  <1>. QED
    BY <1>1, <1>2, <1>3, <1>4, <1>5, <1>6 DEF Next

-----------------------------------------------------------------------------
\* What the inductive invariant says of the properties that the run checks.
LEMMA OwnedDescriptors ==
    ASSUME Core
    PROVE  DescriptorsOwned
  <1>. USE GateAssumption
  <1>1. SUFFICES ASSUME NEW fd \in Fds
                 PROVE  /\ (sock[fd] \in Clients) <=>
                              (\E o \in objects : {p \in objects : connFd[p] = fd} = {o}
                                                   /\ reactor.handler[fd] = o)
                        /\ (sock[fd] = "acceptor") <=>
                              (acceptorFd = fd /\ reactor.handler[fd] = "acceptor")
                        /\ (sock[fd] = NoHandler) <=> (reactor.handler[fd] = NoHandler)
                        /\ (reactor.watched[fd] = {}) <=> (reactor.handler[fd] = NoHandler)
    BY DEF DescriptorsOwned
  <1>2. \A o \in objects : connFd[o] = fd => sock[fd] \in Clients /\ reactor.handler[fd] = o
    BY DEF Core, Owned
  <1>3. sock[fd] \in Clients => reactor.handler[fd] \in objects
                                /\ connFd[reactor.handler[fd]] = fd
    BY DEF Core, Owned
  <1>4. sock[fd] \in Clients \/ sock[fd] = "acceptor" \/ sock[fd] = NoHandler
    BY DEF Core, TypeCore
  <1>5. NoHandler \notin objects
    BY DEF Core, TypeCore
  <1>6. /\ (sock[fd] = "acceptor") <=> (acceptorFd = fd)
        /\ sock[fd] = "acceptor" => reactor.handler[fd] = "acceptor"
        /\ (sock[fd] = NoHandler) <=> (reactor.watched[fd] = {})
        /\ sock[fd] = NoHandler => reactor.handler[fd] = NoHandler
    BY DEF Core, Owned
  <1>7. (sock[fd] \in Clients) <=>
          (\E o \in objects : {p \in objects : connFd[p] = fd} = {o}
                               /\ reactor.handler[fd] = o)
    BY <1>2, <1>3
  <1>8. (sock[fd] = NoHandler) <=> (reactor.handler[fd] = NoHandler)
    BY <1>3, <1>4, <1>5, <1>6
  <1>. QED
    BY <1>6, <1>7, <1>8

\* The type of every variable, in every reachable state (Gate's variables).
THEOREM TypeCorrect == Spec => []TypeOK
  <1>1. IInv => TypeOK
    BY DEF IInv, Core, TypeCore, TypeLoop, TypeOK
  <1>. QED
    BY <1>1, InitEstablishes, StepKeeps, PTL DEF Spec, SafetySpec

\* Whatever ends a connection, its object is freed once and its idle timer is
\* linked exactly while the object is in use (GateApplication::free_connection).
THEOREM PoolIsSafe == Spec => []PoolSafe
  <1>1. IInv => PoolSafe
    BY DEF IInv, Core
  <1>. QED
    BY <1>1, InitEstablishes, StepKeeps, PTL DEF Spec, SafetySpec

\* Every descriptor has one owner, to which the reactor dispatches it, or none and
\* is closed (TcpAcceptor::on_read, EpollReactor::add_handler and del_handler).
THEOREM DescriptorsAreOwned == Spec => []DescriptorsOwned
  <1>1. IInv => DescriptorsOwned
    BY OwnedDescriptors DEF IInv
  <1>. QED
    BY <1>1, InitEstablishes, StepKeeps, PTL DEF Spec, SafetySpec

\* No handler is called for an event of an earlier owner of its descriptor
\* (EpollReactor::run_once).
THEOREM NoEventIsStale == Spec => []NoStaleEvent
  <1>1. IInv => NoStaleEvent
    BY DEF IInv, Core, Owned, BatchOrder, NoStaleEvent
  <1>. QED
    BY <1>1, InitEstablishes, StepKeeps, PTL DEF Spec, SafetySpec
=============================================================================
