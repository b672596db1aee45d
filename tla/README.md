# A TLA+ model of the KingNet server framework

This directory specifies and verifies the C++ framework of this repository
(`framework/`) and the way its programs use it. The framework is a
single-threaded reactor: `application::start` runs timers, waits in epoll, lets
handlers read and write, and looks at a status byte that signal handlers set.
There are no tests in the repository; what a model checker adds is the order of
things: signals between any two statements, callbacks that change the structure
being walked, partial reads and writes, a connection closed under its own reader.

## Inventory

| component | state | operations | interacts through | what makes it correct |
|---|---|---|---|---|
| `timer_manager` | two slot arrays, current and next expiry, two positions | init, add_timer, del_timer, run_until | callbacks add and delete timers; the loop sleeps until `get_next_expired` | no timer early, late, lost, or called twice; next expiry never too late |
| `application` | `m_status`, stop delay, two timers | start, on_signal, set_delay_stop | signal handlers overwrite `m_status`; calls on_init, on_reload, on_delay_stop, on_fini | ends when asked to and not before the delay; no reload or stop lost |
| `epoll_reactor` | handler table, batch of ready events | add, mod, del_handler, run_once | calls on_read, on_write, on_error of handlers, which add and delete handlers | an event reaches only the handler it was reported for |
| `tcp_data_handler` | descriptor, two buffers, registered events | init, fini, on_read, on_write, on_error, send (two) | called by the reactor and the program; calls process_packet, on_event | bytes in order and once; whole packets; output watched; one end per connection |
| `buffer` | block, read and write pointer | init, resize, adjust, push/pop_data, clear | used by the handlers | content unchanged by resize and adjust |
| `circular_queue` | ring, two indices | push, pop, full, empty | one producer and one consumer thread, no lock | a FIFO |
| `notify_handler` | pipe | init, send_notify, on_read | wakes the reactor from other threads, whose items wait in a queue | no item waits without a wake-up to come |
| `tcp_connection` (with `packet_processor`) | as `tcp_data_handler`, of which it is an earlier form | the same | reactor | the same |
| `udp_data_handler`, `udp_server` | a send buffer; a receive buffer | send (two), on_write, fini; init, on_read, handle_error | reactor; a network that loses, repeats and reorders | packets come whole; in order if the network keeps the order |
| `tcp_acceptor` (with `tcp_service_handler`) | listening descriptor | init, fini, on_read | reactor; creates connections | listener open exactly when it should be |
| `simple_thread` | identifier, status | start, stop, join, run | the owner's thread starts, stops and joins it | a stop ends the thread |
| `fsm_manager` | table of objects, sequence | create_fsm, destroy_fsm, get_fsm, clear | programs keep pointers to the objects | get_fsm returns a living object of that identifier |
| `day_roll_logger` | file, block, date | init, prepare, the two writes, flush, fini | programs; disks fill up, midnight comes | no line lost, torn, repeated or in the wrong day's file |
| `unix_config` | buckets of chained nodes, file | get, set, remove, clear, two loads, save | `application` | a map |
| `time_util` | none | days, weeks and the wait for a time of the day | reads the clock, twice in one function | agrees with the calendar at every boundary |
| `gate_server` | connections, pool, indices by user and role | on_connection, process_packet, timers, on_reload, on_delay_stop | all of the above | pooled objects hold no timer or descriptor; indices name live connections |
| `bench_client` | a list of connections, a timer each | the visit of one connection per period, run, on_event, the login timer, answers | `tcp_data_handler`, `timer_manager`, the gate server | every connection logs in, its answer is expected, closed ones come back |
| `ring_mem_buffer` | ring, two positions | push_data, consume_all_data | a producer and a consumer thread, no lock | unread bytes kept |
| `namevalue_saver` | table, three files | load, save, set, clear | the program may crash between any two steps | what was saved is loaded |
| the rest of `framework/` and `public/`, `third_party/` | | | | see "Not modelled" |

The hard behaviours, at their lines, are the `hazards` of `PROJECT.json`.

## Modules

| module | models | state and actions |
|---|---|---|
| `TimerService` | what `timer_manager.h` promises, without a wheel | a deadline per timer; `Arm`, `Cancel`, `Begin`/`Advance`/`Fire`/`Return`/`End` of one run |
| `TimerManager` | `timer_manager.{h,cpp}` | `AddTimer`, `DelTimer`; `run_until` as `RunUntil` (the jump), `ExpireTimer` and `CallbackReturn` (a callback may add and delete in between), `NextTick` (with the cascade), `RunReturn` (the search for the next expiry). A linked list is the set of timers that name its slot |
| `MCTimerManager` | | the TLC instance |
| `Application` | `application.{h,cpp}` from on_init on | `pc` names where `start` is; `OnSignal` is enabled at every point, `Work` is the time that everything but the wait takes; the three tests of `m_status` are three steps; the timer manager is used through `TimerService` |
| `Buffer` | `buffer.{h,cpp}` | operators on records: capacity, read offset, content |
| `TcpDataHandler` | one connection of `tcp_data_handler.{h,cpp}` | `on_read` is `OnRead`, `RecvData`/`RecvEnds`/`RecvAgain`, `ParseBad`/`ParseWhole`/`ParsePartial`, `ProcessReturns`/`ProcessFails`; `AnswerPolicy` is gate_server's branch for the policy file; `OnWrite`, `OnError`, `Close`; `Send` is either send, from the loop or from process_packet |
| `MCTcpDataHandler` | | the TLC instance |
| `BoundedFifo` | what `circular_queue` promises | `Push`, `Pop` on a sequence |
| `CircularQueue` | `circular_queue.h` | three steps each of push and pop: check, access, publish |
| `EpollReactor` | `epoll_reactor.{h,cpp}` | operators on a record: the handler table and what the kernel watches; the order of the calls for one ready descriptor |
| `Gate` | `gate_server` on `run_once` and `tcp_acceptor` | `RunOnce` takes a batch; `SkipEvent`, `OnError`, `OnWrite`, `OnRead`, `AcceptorOnRead` are its calls, `OnConnection`, `Refuse`, `AcceptFails`, `AcceptorReturns` the accept loop call by call; between batches `OnIdleTimeout`, `OnReload`, `OnDelayStop`, `OnFini`; `ClientConnects` and `ClientActs` at any point |
| `DayRollLogger` | `day_roll_logger.{h,cpp}` | `OpenLog`, `OpenFails`, `CloseLog`; `WriteLine` is a write with the prepare before it and the flush after it, wherever the line ends; `Midnight` |
| `ValueSaver` | `namevalue_saver.{h,cpp}` | save is `Save`, `SaveCreate`, `SaveWrite`, `SaveReplace`, `SaveRemove`, one per step on the files, of which opening and writing may fail; load is `Load`, `LoadCopy`, `LoadUnlink`, `LoadRead`; `Crash` between any two |
| `RingMemBuffer` | `ring_mem_buffer.{h,cpp}` | `PushBegin`, `PushCopy`, `PushStore` of the producer; `ConsumeBegin`, `ConsumeHead`, `ConsumeTail`, `ConsumeStore`, `ConsumeThrows` of the consumer |
| `FsmManager` | `fsm_manager.{h,cpp}` | `CreateFsm`, `DestroyFsm`, `ClearFsm`; `GetFsm` |
| `SimpleThread` | `thread.{h,cpp}` | `StartThread`, `StopThread`, `JoinThread`, `Joined` of the owner; `RunThread`, `InitThread`, `TestThread`, `RanOnce`, `FiniThread` of the thread |
| `NotifyHandler` | `notify_handler.{h,cpp}` | `PutItem`, `SendNotify` of each sender; `ReadPipe`, `OnNotify` of the reactor's thread |
| `Dictionary` | what `unix_config` promises | `SetPair`, `RemoveKey`, `LoadPairs`, `ClearAll`, `SavePairs` on a function |
| `UnixConfig` | `unix_config.{h,cpp}` | `SetConfig`, `RemoveConfig`, `LoadText`, `LoadConfig`, `ClearConfig`, `SaveConfig` on chains and a file of lines |
| `UdpChannel` | `udp_data_handler.{h,cpp}`, `udp_server.{h,cpp}` | `UdpSend`, `UdpOnWrite`, `UdpFini`, `UdpReopen`; `Lose`, `Repeat`, `Reorder`; `ServerInit`, `UdpOnRead`, `UdpReadFails`, and the loop over packets as `CutPacket`, `CutEnds`, `CutBad` |
| `TcpConnection` | `tcp_connection.{h,cpp}`, `packet_processor.h` | the actions of `TcpDataHandler` with what differs: `ConnSpurious`, `ConnSend` |
| `Calendar` | `time_util.h` | `SameWeek`, `DaysBetween` as operators; `AskNearest`, `AddRestOfDay`, `NearestReturns` around the second reading of the clock, `ClockTicks` in between |
| `MCLibrary` | | the TLC instance of `CircularQueue`, of `DayRollLogger` and the nine parts after it, and of `BenchClient` |
| `BenchClient` | `bench_client/` | `OnTimer` (with `Run`), `OnEvent` as `ServerCloses`, `OnTimeout`, `LoginAnswered`; `ServerChanges`, `PeriodPasses` |
| `TimerManager_proof`, `Channels_proof`, `Application_proof`, `Gate_proof`, `TcpDataHandler_proof`, `Files_proof`, `Library_proof` | | theorems |
| `SequenceLemmas` | | lemmas on sequences and an induction that those modules share |

`Application` instantiates `TimerService`; `TimerManager` is checked and proved to
implement `TimerService`; `CircularQueue` is checked and proved to implement
`BoundedFifo`, `UnixConfig` to make of a map what `Dictionary` says. `TcpDataHandler`
and `UdpChannel` extend `Buffer`, `TcpConnection` extends `TcpDataHandler`, `Gate`
extends `EpollReactor`. `MCLibrary` extends the parts that share no state with
another and runs one of them in each behaviour: the variable `subject` says which, and
the others stay in their initial states, so its states are the sum of theirs and not the
product. Definitions that a comment calls a fault are plausible mistakes in the code;
each property is shown to catch one of them.

Abstractions. Time is in milliseconds and integers are unbounded: the wheel of the
programs is 2^14 slots and its longest interval 2^28 fits its `int32_t`
(`init` with 15 or more slot bits, which its range check admits, overflows the
`int16_t` size; no program does that). Callbacks are called one at a time, in any
order within one tick. Memory allocation succeeds. Bytes are numbered, not valued.
In `Application` every step may take time (`Work`), and `work` adds up what has passed
outside epoll_wait since the loop read the clock. In `CircularQueue` and
`RingMemBuffer` memory is sequentially consistent: the indices of the one are volatile
and x86 keeps the order of stores, and the other loads and stores its positions with
acquire and release, once for each call.

The streams of `TcpDataHandler` are given by the places where packets end, and the buffer
by the numbers of the bytes in it: no operation looks at a byte's value but
`get_packet_info`, which is a function of the place. Its `Connect` is both inits; a
connect under way is a link on which nothing arrives or is taken, a refused one a reset.
`NewBuffer` stands for resize, which takes any size, and for init, which refuses less than
8 bytes: the programs pass 1024 and more, and the few bytes of the runs are a scaled
image.

`get_packet_info` of gate_server has a branch of its own for a request for the policy file,
and so has the model: one packet of the stream may be that request (`request`). The branch
compares its 22 bytes whatever has come, takes everything in the buffer as the packet, and
process_packet answers it and leaves `m_policy_status` at 2. So a game packet that came in
the same recv goes with the request; a request of which only a part has come is taken as
well when the old bytes of the block behind it complete the text, and is otherwise read as a
header, which says more than the 10240 bytes allowed, or waits while it is shorter than one.
`skipped` records that more or less than the text was taken; from there no document says
what is due, and the properties claim only that the bytes themselves stay in order.
bench_client has no such branch.

In `UdpChannel` data that start in the middle of a packet give any size. The handler's
own `on_read` differs from the server's only in that it sees a failed read, and is left
out.

In `DayRollLogger` a byte names its line, its place and its date; a failed flush leaves
one NUL byte in front of the data, `Nul`. `overrun` records that bytes were written behind
the end of the block, `lost` what the last flush of a fini left. In `ValueSaver` a file is
a table that was saved or is `Torn`, and the times are `Never` and `Soon`, with one moment
at which what was to expire soon has expired; `spoilt` records that a file which save
could not open or write, or an incomplete copy of the old one, has taken the place of the
last whole file, until a save works again. In `UnixConfig` all lines are equally long, so
that a file that is not truncated keeps whole lines behind its new end. In `BenchClient`
what a connection does with bytes is reduced to answers and closes, and time to the
periods of its timers. In `Calendar` a day has a few seconds and the zone does not change.

In `Gate` a read consumes what there is and ends with the connection kept, with
output queued, or closed; what happens to the bytes is in `TcpDataHandler`. A batch
holds every ready descriptor, of which there are fewer than the 256 of one
`epoll_wait`, and is dispatched in any order. "data" includes the end of the stream.
The descriptors are those of the acceptor and the connections; others (the log file,
the epoll descriptor) are left out, and the lowest free number is used next. No code
gives a connection another status than `STATUS_DEFAULT` or a user, so the branches
for users never run and the idle timer always closes. A reply that fails inside
`process_packet` frees the object while its `on_read` runs; `Gate` ends `on_read`
with it, and when the pool is over its limit the object is deleted and yet read once
more by `on_read`, which no module models.

## What the runs check

`timer_manager` (432 thousand states). Two timers, 8 slots (the smallest wheel `init`
accepts), start in the middle of a round, delays 0 (refused), 1, 9 (into the high array)
and 64 (the longest; refused or not according to the skip), steps of the clock of 1, 7 and
9 (within a slot array and past it). `Placement`: the position formulas of `add_timer` and
of the cascade agree. `WakeUpInTime`: the loop does not sleep through a timer.
`RunReturns`, `Served`: run_until ends although callbacks re-arm timers, and each timer is
called. `ImplementsService`: refinement, which also says that no timer is called early or
passed over (proved apart as well, as `NeverEarly` and `NoneOverdue`). The bound on the
clock lets the low array wrap once; the wrap of the high array needs a longer run and is
covered by the proofs, which hold for every size.

`tcp_data_handler` (234 thousand states). Buffer of 4 bytes, streams with a packet larger
than the buffer, several packets in one recv, one that is refused, and a policy request
between others; two sends of 3 bytes, of which the second can find the send buffer too
small; every partial read and write; close and reset at every point; the two programs'
ways of using the class, chosen at each connect. `InputIntact`, `OutputIntact`: nothing
lost, duplicated or reordered across growth and compaction, and packets are cut where they
end, but for what a policy request took with it. `WatchesWrites`: output is watched
exactly while there is some. `SpaceToReceive`: recv never gets a size of 0. `OneEvent`:
one end per connection although a send in process_packet can close it under on_read.
`ArrivedIsDelivered`, `QueuedIsSent`: progress; the first with the same exception.

`application` (295 thousand states). Up to three signals, in any order and at any point until
time 5, delays 0 (stop at once) and 3, re-read at each reload; up to time 5 each step of the
loop may take any time. `DelayKept`. `TimersOnTime`: the loop comes to a timer no later than
the 2 ms it adds to the timeout and the time it spent outside epoll_wait since it read the
clock, which counts in full because the timeout runs from the later call.
`NoTickWhileStopping` and the liveness properties `StopFinishes`,
`ReloadTaken`, `StopCompletes`. The clock runs to 18: past the latest delay that
can be armed, so that each stop can complete within the bound.

`gate` (152 thousand states). Three clients, three descriptors of which the acceptor
uses one, two objects, a pool that holds one object before objects are deleted, two
calls of accept per event. So the third client waits for a descriptor, a refused or
closed descriptor is reused inside the batch that named it, and the acceptor finds
work after connections were closed before it. `PoolSafe`: an object is freed once,
and its timer follows its use. `DescriptorsOwned`: every descriptor has one owner.
`NoStaleEvent`: the events left in a batch never reach a later owner of their
descriptor. `ConnectionEnds`: no silent client keeps its descriptor.
`PendingAnswered`: a client that waits is answered, also when `accept` first finds
no descriptor free.

`library` (368 thousand states), the twelve parts of `MCLibrary`:

- log: three days, two line sizes, a block that buffers and one that does not, two faults,
  three lines. `LogIntact`: nothing is lost, repeated or torn by short and failed writes and
  across midnight; what the one flush of a fini leaves is missing, and exactly that; and
  without a fault there is room for the next line. Once a line was formatted over the end of
  the block nothing is claimed: failed flushes, or write_string in the smallest block, let
  it happen. `StampMatchesFile`: a line is in the file of its date, unless a short write
  kept it.
- saver: one name, three saves, two crashes. `OneCopyWhole`, `LoadsWhatWasSaved`: after a
  crash at any step of save or load, what load returns is what was saved last, or by a save
  begun since, also when it comes from the old file; two crashes reach a recovery that is
  itself interrupted. Three faults are left out, and named: a temporary file that cannot be
  opened or written, after which the last copy is removed all the same; an incomplete copy
  of the old file (`value_saver_doc`); and an expiration kept in the table from an earlier
  load, which goes on to count (`ExpiresEarly`).
- ring: four bytes, blocks of one to three, nine bytes: two rounds. `IntactWhileItFits`.
- fsm: four identifiers, three objects: the sequence comes round onto a living object.
  `FsmFound`.
- thread: `StopEnds`, for a stop that comes after the thread set `m_status`; an earlier one
  is overwritten (`thread.cpp:57`).
- notify: two senders, a pipe of three bytes, reads of two, six items: the pipe fills up and
  a read takes the bytes of both. `NotificationKept`.
- config: three keys in one bucket, so every position of a chain is replaced and removed;
  files of up to three lines. `ConfigIsMap`.
- udp: packets of one and three bytes, a buffer of four, datagrams of up to five: growth,
  packets that share a datagram, and a datagram that is cut off. `UdpWhole`.
- connection: as `tcp_data_handler`, with its own ways of failing. `ConnIntact`.
- calendar: days of three seconds, just over two weeks, every pair of times.
  `CalendarRight`: weeks, days and waits agree with the calendar but at three boundaries,
  where the code departs from its comments (three runs of their own, below).
- queue: a ring of 4 (the smallest `init` accepts), two values, all interleavings.
  `CheckStillHolds`: what a thread's check saw holds when it acts. `ImplementsFifo`:
  refinement.
- bench: three connections, the first login after one period and the others after two, so
  that a timer outlives its connection, meets the next one before and after its `run`, and
  sends into a closed one; answers and closes at any moment; a server that goes and comes.
  The program bounds everything itself, so nothing is cut off. `AnswerExpected`: a stale
  timer never makes a connection wait for an answer that it did not ask for, nor the
  reverse. `LoginFollows`: a connection that stays open sends its login. `Reconnects`:
  closed connections come back while the server can be reached.

Disagreements between code and documentation, one run each:

- `tcp_send_doc`: `send(packet)` returns 0 for a packet it has just dropped with the
  connection.
- `reload_signal_doc`: a USR1 during on_init or on_reload is overwritten. A stop signal
  during on_reload is lost in the same way.
- `value_saver_doc`: load recovers the old file, which it trusts, by a copy from an offset
  that nothing sets into a file it does not truncate.
- `ring_buffer_doc`: a push that does not wrap is not compared with the read position and
  overwrites what was not read.
- `calendar_weeks_doc`: `is_same_week` counts the first second of the next week in.
- `calendar_days_doc`: the day counts leave out a day when the end is exactly its midnight.
- `calendar_nearest_doc`: the wait for a time of the day is a day too long when midnight
  passes between its two readings of the clock.

Smaller ones are not runs: a failed on_reload does not end the program
(`application.h:76`, against `application.cpp:206`); `adjust` moves data at one half, not one
quarter as `buffer.h:42` says; `set_expired` returns -1 in every case
(`timer_manager.h:39, 45`); `unix_config` saves over its file without truncating it, so that
removed keys may come back; the days since the epoch are counted in UTC and from 0
(`time_util.h:275`).

Deadlock is not checked where the clock or the number of bytes, lines, saves or packets
is bounded, and in `Application`, which really ends: so in no run but `value_saver_doc`.

## Fairness

`TimerManager`: weak fairness of run_until's own steps, of the return of a callback, and
of the next call, which the endless loop of `start` makes. `TcpDataHandler`: weak fairness
of dispatch (epoll is level-triggered here) and of on_read's steps; strong fairness of a
write that makes progress, since a peer that keeps the connection reads. `Application`:
weak fairness of the thread's steps; strong fairness of a wait in which time passes.
`Gate`: weak fairness of the thread's steps, and strong fairness of each idle timer, since
the loop runs the timers before every wait and `TimerManager` shows that an armed timer is
called (`Served`). `BenchClient`: weak fairness of the periodic timer, of the passing of
time and of each login timer, for the same reason; in `library` this is asked of the
behaviours of that part alone. `SimpleThread`: weak fairness of the thread's steps, which
is scheduled and whose callbacks return. Neither clients, peers, the network nor signals
are fair.

## Proofs

`TimerManager_proof`, for every set of timers, wheel size, start time, delays and
steps: type correctness, `Placement`, `NoneOverdue`, `WakeUpInTime`, `NeverEarly`
and the refinement of `TimerService`, all from `WheelAssumption`. `Placement` alone
is not inductive. The invariant adds that the next expiry lies in the current
round or at its end (so a jump never crosses a cascade), that it bounds every
linked timer from below, and how the clock and the current tick are ordered at each
point of run_until. Arithmetic on rounds and positions is in lemmas of its own.

`Channels_proof` has the two ways data goes to another thread or another machine:

- The queue, for every size from 4 on and every set of elements: type correctness,
  `CheckStillHolds`, and the refinement of `BoundedFifo`. The invariant adds that published
  slots hold elements and what each thread carries between its accesses.
- UDP, for any buffers, packets, writes and datagrams that are lost, repeated or change
  places: `UdpWhole`, from `UdpAssumption`. The invariant says that the sender's buffer,
  each datagram and, as long as no error left data in it, the receiver's buffer hold whole
  packets that were sent, one behind the other (`Aligned`); and, while nothing was lost,
  repeated or changed places, that what the receiver has, what is under way and what the
  sender keeps are, in this order, all the packets behind the last one received (`Flow`).
  `UdpWhole` alone says nothing of packets that are still on their way.

`Application_proof`, for any number of signals at any points, any delays and any bounds:
type correctness, `DelayKept`, `TimersOnTime`, `NoTickWhileStopping`. The invariant adds
that from the reading of the clock to the wait only `work` moves it (`SinceReading`), how
late a timer may be after the wait, where STATUS_STOP can come from, that the delay timer
never fires before the stop it belongs to may end, and that m_timer stays deleted.

`Gate_proof`, for any clients, objects and descriptors, any limit of the pool and of
one accept loop: type correctness, `PoolSafe`, `DescriptorsOwned`, `NoStaleEvent`,
from `GateAssumption`. The invariant adds that objects, sockets and registrations
name each other (`Owned`), and why a batch cannot go stale (`BatchOrder`): a handler
closes only the descriptor it was called for, the acceptor's event is its last of
that descriptor, and a new connection takes a descriptor that was free, which has no
event left. The wait between two batches empties both sides.

`TcpDataHandler_proof`, for any stream of packets, sizes of buffers, messages and writes
and any schedule: type correctness, `OutputIntact`, `InputIntact`, `WatchesWrites`,
`SpaceToReceive`, `OneEvent`, from `HandlerAssumption` and `StreamAssumption`. The bytes
in a buffer are a run of numbers, and lemmas on runs under push, pop, resize and adjust
are the only ones that look into sequences. The invariant adds that the buffers hold no
more than their capacity and are rewound when empty (`Buffers`), what the receive buffer
holds at each point of on_read, that there is room for the rest of the packet that is due,
and that an open connection has reported nothing yet; that a packet starts where the last
one ended is part of it until a policy request was taken with other bytes (`skipped`).
`OneEvent` and `SpaceToReceive` alone are not inductive: both rest on where on_read is.

`ConnIntact` of `TcpConnection` is proved in the same module, from the same invariant: the
older class has different guards at two places, and each of its steps keeps what the
steps of the newer one keep.

`Files_proof` has the three components that write a file:

- `ValueSaver`, for any names and values and any number of saves and crashes:
  `OneCopyWhole`, `LoadsWhatWasSaved`. The first is not inductive: a save that starts moves
  the file onto the old one. `Kept` says which of the two holds the last table that was
  saved or one of a save begun since, and `SaveProgress` what save and load have done at
  each of their steps. The faults named under the run are exceptions here too.
- `DayRollLogger`, for any number of days, sizes of the block and of lines, and failed
  writes: `LogIntact`, `StampMatchesFile`, from `LoggerAssumption`, each until a line runs
  over the end of the block. The invariant adds that nothing is in the file of a day behind
  the one that is open or behind today (`Later`), so that a flush appends behind everything
  written; that the block is empty while no file is open; and that the bytes of the block
  carry the date of the file they will go to.
- `UnixConfig`, for any keys and values, any number of buckets, any function from keys to
  buckets and any lines in the file: the refinement of `Dictionary` (`ConfigIsMap`), from
  `ConfigAssumption`. The invariant is that each key is in the list of its bucket and in
  none of them twice. A load is proved by induction on the lines, and the file a save writes
  gives back the same map.

`Library_proof` has four components that stand alone and the load generator:

- `FsmManager` and `NotifyHandler`, for any identifiers and objects, and for any senders and
  sizes of the pipe: `FsmFound` (in its two halves, which are inductive together),
  `NotificationKept` (inductive with the types). As types are proved, no run checks them.
- `RingMemBuffer`, for every size and all blocks: `IntactWhileItFits`, from
  `RingAssumption`. The invariant adds that the positions tell the number of unread bytes,
  also with a block that is copied and not published (`Space`), that a position is 0 only
  before the first push (`Starts`: 0 and the size are the same place, and the code takes
  equal positions for an empty ring), and what is at each place, the copied block included
  (`Content`).
- `Calendar`, for every length of the day and every time of asking: `CalendarRight`, from
  `CalendarAssumption`, at all times but the three boundaries named above. Its three parts
  are arithmetic on quotients, and the invariant that a question without an answer is about
  a time of the next day.
- `BenchClient`, for any number of connections and delays: type correctness,
  `AnswerExpected`, and `LoginDue`, the bound behind `LoginFollows`. It needs that also the
  timers that earlier connections left behind are bounded.

`SequenceLemmas`: the library states induction for a predicate, which none of the provers
can take as a parameter, so `UpTheNumbers` states it for a set of numbers, from the
library's theorem on well-founded relations. What a recursive function makes of a
sequence, and what FlattenSeq makes of a sequence of sequences, follows from it, one
element after the other. So the definitions that these proofs are about are recursive
functions over numbers and not folds.

With this each invariant and each action property that a passing run checks is stated by
a theorem, for every value of the constants. Only model-checked: liveness, for which the
prover has no fairness and no ENABLED (`RunReturns`, `Served`, `ArrivedIsDelivered`,
`QueuedIsSent`, `StopFinishes`, `ReloadTaken`, `StopCompletes`, `ConnectionEnds`,
`PendingAnswered`, `LoginFollows`, `Reconnects`, `StopEnds`), and with it all of
`SimpleThread`; of `EpollReactor`, what `Gate` does not need; and the runs that find a
violation, which are about one behaviour each.

## Not modelled

The map covers about a seventh of the implementation, and little of the rest keeps a
state that steps could spoil:

- `public/*.pb.{cc,h}`, 6400 lines or four tenths of all: generated by protoc.
- `md5`, `str_util`, `encode_converter`, `combine_string_parser`, `aliased_buf`, the packet
  classes, `game_packet`: pure functions and layouts of bytes. A model would spell out
  strings and have nothing to say of their order in time. The packets matter to the handlers
  by their sizes, which are modelled.
- `lru_map_container`, `object_pool`, `rw_container`, `threshold`, `average_counter`,
  `singleton`: templates over one container or counter, called by one thread, without
  callbacks or failures: every sequence of calls that matters is a unit test of a few lines.
  The pool of `gate_server` is in `Gate`. `id_counter` is the text of SQL.
- `network_util`, `system_util`, `atomic_int`, the clocks and the formatting in `time_util`:
  wrappers of system calls. The models of their callers choose among the results.
- In `application`: the options, `daemon_init`, the lock on the pid file, which run once
  before the loop. In `notify_handler`: an error of the pipe, after which no code of the
  repository would open it again. In `circular_queue`: `init` and `fini`, which run before
  and after the threads. In `gate_server`: the branches for users, which nothing reaches.
- `third_party/`: vendored.

## Plan

Done, in the order of importance: the loop, the timers, one connection, the queue, the
reactor and the gate; then the classes that stand alone, the older connection, UDP, and
the load generator; proofs of every safety property that the runs check.

What could follow: the composition of `BenchClient` with `Gate` and a `TcpDataHandler`
between them; a program with a second thread, if one comes to use `circular_queue` and
`notify_handler` together.
