--------------------------- MODULE NotifyHandler ---------------------------
(***************************************************************************)
(* framework/notify_handler.{h,cpp}: a pipe that wakes the reactor of a    *)
(* thread up when other threads have put items into its queue.  A sender   *)
(* puts its item into the queue and then a byte into the pipe; the         *)
(* reactor reports the pipe as long as it is not empty; on_read takes up   *)
(* to 16 bytes and calls on_notify once, which takes items until it finds  *)
(* the queue empty.  Senders and on_notify are the concrete class's.       *)
(***************************************************************************)
EXTENDS Integers

CONSTANTS Senders,
          PipeSize,   \* bytes the pipe holds
          ReadSize,   \* sizeof(buf)
          MaxItems    \* bound: items that are put into the queue

ASSUME NotifyAssumption ==
    /\ PipeSize \in Nat \ {0} /\ ReadSize \in Nat \ {0} /\ MaxItems \in Nat

VARIABLES pipe,      \* bytes in the pipe
          items,     \* items in the queue
          put,       \* history: items put into the queue
          sending,   \* the senders that have yet to call send_notify
          notified   \* the reactor's thread is in on_notify

notifyVars == <<pipe, items, put, sending, notified>>

NotifyInit ==
    /\ pipe = 0 /\ items = 0 /\ put = 0 /\ sending = {} /\ notified = FALSE

PutItem(s) ==
    /\ s \notin sending
    /\ put < MaxItems
    /\ items' = items + 1 /\ put' = put + 1
    /\ sending' = sending \cup {s}
    /\ UNCHANGED <<pipe, notified>>

\* write fails when the pipe is full, which its callers need not know.
SendNotify(s) ==
    /\ s \in sending
    /\ pipe' = IF pipe < PipeSize THEN pipe + 1 ELSE pipe
    /\ sending' = sending \ {s}
    /\ UNCHANGED <<items, put, notified>>

\* A fault in the code that the property must catch: on_notify is called only for a buffer
\* that was filled.
ReadPipeFull ==
    /\ ~notified /\ pipe > 0
    /\ pipe' = IF pipe > ReadSize THEN pipe - ReadSize ELSE 0
    /\ notified' = (pipe >= ReadSize)
    /\ UNCHANGED <<items, put, sending>>

\* on_read, when read returns something.
ReadPipe ==
    /\ ~notified /\ pipe > 0
    /\ pipe' = IF pipe > ReadSize THEN pipe - ReadSize ELSE 0
    /\ notified' = TRUE
    /\ UNCHANGED <<items, put, sending>>

OnNotify ==
    /\ notified
    /\ IF items > 0 THEN items' = items - 1 /\ UNCHANGED notified
       ELSE notified' = FALSE /\ items' = items
    /\ UNCHANGED <<pipe, put, sending>>

NotifyNext ==
    \/ \E s \in Senders : PutItem(s) \/ SendNotify(s)
    \/ ReadPipe \/ OnNotify

NotifySpec == NotifyInit /\ [][NotifyNext]_notifyVars
-----------------------------------------------------------------------------
\* No item waits without somebody to come for it: on_notify is running and will look
\* again, a byte is in the pipe, or a sender has yet to put one there; also when the pipe
\* is full and when on_read takes the bytes of several senders at once (cpp:18-54).
NotificationKept == items > 0 => notified \/ pipe > 0 \/ sending # {}
=============================================================================
