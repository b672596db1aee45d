---------------------------- MODULE EpollReactor ----------------------------
(***************************************************************************)
(* framework/epoll_reactor.{h,cpp}: the registrations of the reactor, as   *)
(* operators on a record of the handler table and of what the kernel       *)
(* watches.  The kernel side is epoll as the framework uses it: level-     *)
(* triggered, a closed descriptor is no longer watched.  A batch is what   *)
(* one epoll_wait reported and run_once has yet to dispatch; it names      *)
(* descriptors, not handlers.                                              *)
(***************************************************************************)
CONSTANTS Fds,          \* the descriptors below the maxfd of init
          NoHandler     \* NULL in m_handlers

EmptyReactor ==
    [handler |-> [fd \in Fds |-> NoHandler],
     watched |-> [fd \in Fds |-> {}]]

NoEvents == [fd \in Fds |-> {}]

\* A fault that a property of Gate must catch: del_handler leaves the table alone.
DelHandlerKeeps(r, fd) == [r EXCEPT !.watched[fd] = {}]

\* add_handler, when epoll_ctl takes the descriptor.  When it does not, nothing
\* changes: the table is written last.
AddHandler(r, fd, h, events) ==
    [handler |-> [r.handler EXCEPT ![fd] = h],
     watched |-> [r.watched EXCEPT ![fd] = events]]

\* mod_handler: epoll_ctl refuses a descriptor that is not watched.
ModHandler(r, fd, h, events) ==
    IF r.watched[fd] = {} THEN r ELSE AddHandler(r, fd, h, events)

DelHandler(r, fd) ==
    [handler |-> [r.handler EXCEPT ![fd] = NoHandler],
     watched |-> [r.watched EXCEPT ![fd] = {}]]

\* What epoll_wait reports of a descriptor in the given condition: failures always,
\* the rest as far as it is watched.
Reported(r, fd, condition) ==
    IF r.watched[fd] = {} THEN {} ELSE condition \cap ({"ERR"} \cup r.watched[fd])

\* The next call run_once makes for a descriptor: on_error instead of all others,
\* on_write before on_read.
NextEvent(events) ==
    IF "ERR" \in events THEN "ERR" ELSE IF "OUT" \in events THEN "OUT" ELSE "IN"

\* What is left to do for the descriptor after that call.
EventsAfter(events) ==
    IF "ERR" \in events THEN {} ELSE events \ {NextEvent(events)}
=============================================================================
