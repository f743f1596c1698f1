------------------------------ MODULE Consumer ------------------------------
(***************************************************************************)
(* The documented loop of a consumer of src/group.rs: it reads until       *)
(* EAGAIN and then waits with wait_readable; any other error of a read,    *)
(* and every error of a wait, EINTR included, ends it.  Events are queued, *)
(* and the group ends, in Group, which composes this loop with the         *)
(* descriptor.                                                             *)
(*                                                                         *)
(* External: poll, its clock and the event queue, by the rules of poll(2)  *)
(* and fanotify(7).                                                        *)
(***************************************************************************)
EXTENDS Integers, Sequences

CONSTANTS
  Durations,    \* timeouts a caller passes, in ticks
  TicksPerMs,   \* ticks of the clock in a millisecond
  MaxMs,        \* i32::MAX
  BatchMax,     \* how many events fit the read buffer
  MaxEvents     \* how many events are raised at most

ASSUME ClockAssumption ==
  TicksPerMs \in Nat \ {0} /\ MaxMs \in Nat \ {0} /\ Durations \subseteq Nat
ASSUME LoopAssumption == BatchMax \in Nat \ {0} /\ MaxEvents \in Nat

None == -1

VARIABLES
  queue,      \* the events that were queued, by number
  raised,     \* how many events were raised
  loop,       \* where the consumer is
  asked,      \* the timeout of its wait, None for none
  timeout,    \* timeout_ms
  elapsed,    \* the time the wait lasted so far
  waited,     \* what the last wait returned: "none", "ready", "timeout"
  failure     \* the errno of the read or of the wait that ended the loop

events == <<queue, raised>>
consumer == <<loop, asked, timeout, elapsed, waited, failure>>

(* The types of the queue and of the consumer. *)
ConsumerTypeOK ==
  /\ queue \in Seq(1..MaxEvents)
  /\ raised \in 0..MaxEvents
  /\ loop \in {"idle", "read", "wait", "poll", "stopped"}
  /\ asked \in Durations \cup {None}
  /\ timeout \in -1..MaxMs
  /\ elapsed \in Nat
  /\ waited \in {"none", "ready", "timeout"}
  /\ failure \in {"none", "EAGAIN", "EINTR", "errno"}

ConsumerInit ==
  /\ queue = <<>> /\ raised = 0
  /\ loop = "idle"
  /\ asked = None /\ timeout = -1 /\ elapsed = 0 /\ waited = "none"
  /\ failure = "none"

-----------------------------------------------------------------------------
Start ==
  /\ loop = "idle"
  /\ loop' = "read"
  /\ UNCHANGED <<events, asked, timeout, elapsed, waited, failure>>

ReadEvents ==
  /\ loop = "read"
  /\ queue # <<>>
  /\ \E k \in 1..BatchMax :
       k <= Len(queue) /\ queue' = SubSeq(queue, k + 1, Len(queue))
  /\ loop' \in {"read", "idle"}
  /\ waited' = "none"
  /\ UNCHANGED <<raised, asked, timeout, elapsed, failure>>

(* The definitions named Wrong_... are faulty variants of the definition   *)
(* they precede; nothing uses them but the mutation checks.                *)
Wrong_IsWouldBlock_OfWrite(op, errno) == op = "Write" /\ errno = "EAGAIN"

(* FanotifyError::is_would_block. *)
IsWouldBlock(op, errno) == op = "Read" /\ errno = "EAGAIN"

(* A read that fails: EAGAIN on an empty queue sends the loop to the wait, *)
(* any other error ends it.                                                *)
ReadFails(errno) ==
  /\ loop = "read"
  /\ errno = "EAGAIN" <=> queue = <<>>
  /\ IF IsWouldBlock("Read", errno)
     THEN loop' = "wait" /\ UNCHANGED failure
     ELSE loop' = "stopped" /\ failure' = errno
  /\ waited' = "none"
  /\ UNCHANGED <<events, asked, timeout, elapsed>>

Wrong_TimeoutMs_Wraps(d) == IF d = None THEN -1 ELSE (d \div TicksPerMs) % (MaxMs + 1)

(* wait_readable's timeout_ms: whole milliseconds, at most i32::MAX. *)
TimeoutMs(d) ==
  IF d = None THEN -1
  ELSE LET ms == d \div TicksPerMs IN IF ms <= MaxMs THEN ms ELSE MaxMs

WaitReadable(d) ==
  /\ loop = "wait"
  /\ asked' = d
  /\ timeout' = TimeoutMs(d)
  /\ elapsed' = 0
  /\ waited' = "none"
  /\ loop' = "poll"
  /\ UNCHANGED <<events, failure>>

Due == timeout >= 0 /\ elapsed >= timeout * TicksPerMs

(* Time passes while poll waits; it is not counted when nothing ends it. *)
Tick ==
  /\ loop = "poll"
  /\ timeout >= 0 /\ ~Due
  /\ elapsed' = elapsed + 1
  /\ UNCHANGED <<events, loop, asked, timeout, waited, failure>>

Poll(outcome) ==
  /\ loop = "poll"
  /\ waited' = outcome
  /\ loop' = "read"
  /\ UNCHANGED <<events, asked, timeout, elapsed, failure>>

PollReady == queue # <<>> /\ Poll("ready")
PollTimesOut == queue = <<>> /\ Due /\ Poll("timeout")

(* A poll that fails is reported and not retried, and the loop returns the *)
(* error.  A signal ends poll with EINTR only when nothing is ready.       *)
PollFails(errno) ==
  /\ loop = "poll"
  /\ errno = "EINTR" => queue = <<>>
  /\ loop' = "stopped"
  /\ failure' = errno
  /\ UNCHANGED <<events, asked, timeout, elapsed, waited>>

-----------------------------------------------------------------------------
(* What the loop does by itself, time included. *)
LoopStep ==
  \/ ReadEvents
  \/ ReadFails("EAGAIN")
  \/ \E d \in Durations \cup {None} : WaitReadable(d)
  \/ Tick
  \/ PollReady
  \/ PollTimesOut

-----------------------------------------------------------------------------
(***************************************************************************)
(* Properties.                                                             *)
(***************************************************************************)

(* What wait_readable returns is true when it returns: after "ready" there *)
(* is something to read, and "timeout" comes less than one millisecond     *)
(* before the time that was asked for, which is cut to milliseconds, or at *)
(* the longest wait poll can express; never for a wait without a timeout.  *)
WaitIsHonest ==
  loop = "read" =>
    /\ waited = "ready" => queue # <<>>
    /\ waited = "timeout" =>
         /\ asked # None
         /\ elapsed > asked - TicksPerMs \/ elapsed = MaxMs * TicksPerMs
         /\ elapsed <= asked

(* An event that was queued is read, also when it arrives between EAGAIN   *)
(* and the poll or when the descriptor changes hands, unless the group is  *)
(* closed or the loop returned an error: of a read, which an empty queue   *)
(* is not, or of a wait, which a signal is and a timeout is not.           *)
Queued(n) == \E i \in DOMAIN queue : queue[i] = n

EventsAreRead ==
  \A n \in 1..MaxEvents : Queued(n) ~> (~Queued(n) \/ failure \in {"EINTR", "errno"})
=============================================================================
