------------------------------ MODULE FdReader ------------------------------
(***************************************************************************)
(* Reading a descriptor group: the FdEventReader of src/group.rs and the   *)
(* stateless read_fd_events of src/fd.rs, the adoption of the descriptors  *)
(* the kernel installed, and the answers to permission events.             *)
(*                                                                         *)
(* Each thread runs one read loop on the group; the threads share the      *)
(* process's descriptor table with each other and with threads that open   *)
(* and close unrelated files, so a number that is closed can be somebody   *)
(* else's file at the next step.  A descriptor number is an opaque value:  *)
(* the kernel may install any number that is free.                         *)
(*                                                                         *)
(* External: the kernel's event queue, its list of permission events that  *)
(* wait for an answer, and the descriptor table, modelled from how the     *)
(* crate uses read(2), write(2) and close(2).                              *)
(***************************************************************************)
EXTENDS Integers, Sequences, FiniteSets

CONSTANTS
  Readers,      \* threads that own an FdEventReader
  Stateless,    \* threads that call Fanotify::read_fd_events
  Fds,          \* descriptor numbers
  NoFd,         \* any negative fd field: FAN_NOFD or -errno
  Events,       \* the events that may be raised, each at most once
  Perm,         \* the ones that are permission events
  NoObject,     \* the ones that name no object (a queue overflow)
  Closed,       \* a number that is not open
  Elsewhere,    \* a file another part of the process opened
  Process,      \* a pidfd
  BatchMax,     \* how many events fit the read buffer
  Versions,     \* whether a batch's first header has the known version
  AllowRepeat,  \* whether an event without a descriptor may repeat a number
  ReportPidfd,  \* FAN_REPORT_PIDFD on the group
  Disciplined   \* the caller answers a batch before it reads the next

Threads == Readers \cup Stateless
Objects == Events \cup {Elsewhere, Process}

ASSUME ThreadsAssumption == Readers \cap Stateless = {}
ASSUME EventsAssumption ==
  /\ Perm \subseteq Events
  /\ NoObject \subseteq Events
  /\ Perm \cap NoObject = {}
ASSUME SentinelsAssumption ==
  /\ NoFd \notin Fds
  /\ Closed \notin Objects
  /\ Elsewhere \notin Events
  /\ Process \notin Events
  /\ Elsewhere # Process
ASSUME BatchMaxAssumption == BatchMax \in Nat \ {0}
ASSUME FlagsAssumption ==
  /\ Versions \subseteq BOOLEAN
  /\ AllowRepeat \in BOOLEAN
  /\ ReportPidfd \in BOOLEAN
  /\ Disciplined \in BOOLEAN

VARIABLES
  table,    \* the descriptor table: what each number is open on
  queue,    \* the group's event queue
  raised,   \* the events that were raised so far
  pending,  \* permission events delivered under a number and not yet answered
  answers,  \* the answers written: the event meant and the event it resolved
  pc,       \* per thread: where it is in its loop
  bytes,    \* per thread: what the last read(2) left in the read buffer
  slots,    \* per thread: the Vec<FdEvent>
  at,       \* per thread: the slot the clear or the adopt loop is at
  adopted,  \* per thread: the scratch list of numbers adopted in this buffer
  inflight, \* per thread: numbers the kernel installed and no OwnedFd holds yet
  stop,     \* per thread: ParseReport::stop of the last parse
  result,   \* per thread: what the last read returned
  held      \* OwnedFds the callers took out of events or duplicated

kernel == <<table, queue, raised, pending, answers>>
thread == <<pc, bytes, slots, at, adopted, inflight, stop, result>>
vars == <<kernel, thread, held>>

(* A header in the read buffer; an FdEvent, `owns` saying whether its fd   *)
(* is Some; a descriptor that lives outside the batch.                     *)
Header == [ev : Events, fd : Fds \cup {NoFd}]
FdEvent == [ev : Events, fd_field : Fds \cup {NoFd}, owns : BOOLEAN, replied : BOOLEAN]
OwnedFd == [ev : Events, fd : Fds]

(* The type invariant: an event owns a descriptor only under a number that *)
(* can be one.                                                             *)
TypeOK ==
  /\ table \in [Fds -> Objects \cup {Closed}]
  /\ queue \in Seq(Events)
  /\ raised \in SUBSET Events
  /\ pending \in SUBSET OwnedFd
  /\ answers \in SUBSET [meant : Events, hit : Events]
  /\ pc \in [Threads -> {"idle", "wait", "clear", "read", "parse", "adopt"}]
  /\ bytes \in [Threads -> Seq(Header)]
  /\ slots \in [Threads -> Seq(FdEvent)]
  /\ at \in [Threads -> Nat]
  /\ adopted \in [Threads -> SUBSET Fds]
  /\ inflight \in [Threads -> SUBSET Fds]
  /\ stop \in [Threads -> {"End", "UnknownVersion"}]
  /\ result \in [Threads -> {"none", "ok", "EAGAIN", "errno", "UnknownEventVersion"}]
  /\ held \in SUBSET OwnedFd

Init ==
  /\ table = [n \in Fds |-> Closed]
  /\ queue = <<>>
  /\ raised = {}
  /\ pending = {}
  /\ answers = {}
  /\ pc = [t \in Threads |-> "idle"]
  /\ bytes = [t \in Threads |-> <<>>]
  /\ slots = [t \in Threads |-> <<>>]
  /\ at = [t \in Threads |-> 1]
  /\ adopted = [t \in Threads |-> {}]
  /\ inflight = [t \in Threads |-> {}]
  /\ stop = [t \in Threads |-> "End"]
  /\ result = [t \in Threads |-> "none"]
  /\ held = {}

-----------------------------------------------------------------------------
(***************************************************************************)
(* The rest of the world: events are raised, other code opens and closes   *)
(* files of its own.                                                       *)
(***************************************************************************)
Raise(e) ==
  /\ e \notin raised
  /\ raised' = raised \cup {e}
  /\ queue' = Append(queue, e)
  /\ UNCHANGED <<table, pending, answers, thread, held>>

OpenElsewhere(n) ==
  /\ table[n] = Closed
  /\ table' = [table EXCEPT ![n] = Elsewhere]
  /\ UNCHANGED <<queue, raised, pending, answers, thread, held>>

CloseElsewhere(n) ==
  /\ table[n] = Elsewhere
  /\ table' = [table EXCEPT ![n] = Closed]
  /\ UNCHANGED <<queue, raised, pending, answers, thread, held>>

-----------------------------------------------------------------------------
(***************************************************************************)
(* One read.  FdEventReader::read_reported forgets the bytes and drops the *)
(* events of the previous batch before the read; a stateless caller drops  *)
(* its Vec, and its byte buffer keeps its contents until read(2) returns.  *)
(***************************************************************************)
(* The definitions named Wrong_... are faulty variants of the definition   *)
(* they precede; nothing uses them but the mutation checks.                *)
Wrong_Unanswered_Ignored(t) == {}

Unanswered(t) ==
  {i \in DOMAIN slots[t] : slots[t][i].owns /\ slots[t][i].ev \in Perm /\ ~slots[t][i].replied}

Wrong_BeginRead_NoClear(t) ==
  /\ pc[t] = "idle"
  /\ Disciplined => Unanswered(t) = {}
  /\ pc' = [pc EXCEPT ![t] = "read"]
  /\ UNCHANGED <<kernel, bytes, slots, at, adopted, inflight, stop, result, held>>

BeginRead(t) ==
  /\ pc[t] = "idle"
  /\ Disciplined => Unanswered(t) = {}
  /\ pc' = [pc EXCEPT ![t] = "clear"]
  /\ at' = [at EXCEPT ![t] = 1]
  /\ bytes' = [bytes EXCEPT ![t] = IF t \in Readers THEN <<>> ELSE @]
  /\ UNCHANGED <<kernel, slots, adopted, inflight, stop, result, held>>

(* `events.clear()` drops one event after the other; an OwnedFd closes its *)
(* number whatever the number is open on by then.                          *)
DropSlot(t) ==
  /\ pc[t] = "clear"
  /\ at[t] <= Len(slots[t])
  /\ table' = IF slots[t][at[t]].owns
              THEN [table EXCEPT ![slots[t][at[t]].fd_field] = Closed]
              ELSE table
  /\ slots' = [slots EXCEPT ![t][at[t]].owns = FALSE]
  /\ at' = [at EXCEPT ![t] = @ + 1]
  /\ UNCHANGED <<queue, raised, pending, answers, pc, bytes, adopted, inflight,
                 stop, result, held>>

EndClear(t) ==
  /\ pc[t] = "clear"
  /\ at[t] > Len(slots[t])
  /\ pc' = [pc EXCEPT ![t] = "read"]
  /\ slots' = [slots EXCEPT ![t] = <<>>]
  /\ UNCHANGED <<kernel, bytes, at, adopted, inflight, stop, result, held>>

(* read(2) fails: EAGAIN on an empty queue, or any other errno (EINTR is   *)
(* retried, so it is not one of them).  Nothing was transferred.           *)
ReadFails(t, errno) ==
  /\ pc[t] = "read"
  /\ errno = "EAGAIN" <=> queue = <<>>
  /\ pc' = [pc EXCEPT ![t] = IF errno = "EAGAIN" THEN "wait" ELSE "idle"]
  /\ bytes' = [bytes EXCEPT ![t] = <<>>]
  /\ result' = [result EXCEPT ![t] = errno]
  /\ UNCHANGED <<kernel, slots, at, adopted, inflight, stop, held>>

EndWait(t) ==
  /\ pc[t] = "wait"
  /\ pc' = [pc EXCEPT ![t] = "idle"]
  /\ UNCHANGED <<kernel, bytes, slots, at, adopted, inflight, stop, result, held>>

(* wait_readable(None) returns once there is something to read, or fails   *)
(* at any time: with EINTR, which it does not retry, or another errno.     *)
(* The documented loop returns the error, as it does one of a read, and    *)
(* the thread may call the loop again.                                     *)
WaitReadable(t) == queue # <<>> /\ EndWait(t)
WaitFails(t) == EndWait(t)

(* The numbers the kernel may write for a batch: a free number for every   *)
(* event with an object, each number once, or NoFd when the object could   *)
(* not be opened.  An event without a descriptor may repeat a number of    *)
(* the batch only in a stream that is not what it claims (AllowRepeat).    *)
FreshIn(batch, f) == {i \in DOMAIN batch : batch[i] \notin NoObject /\ f[i] # NoFd}

Installs(batch, f) ==
  LET fresh == FreshIn(batch, f)
  IN /\ \A i \in fresh : table[f[i]] = Closed
     /\ \A i, j \in fresh : i # j => f[i] # f[j]
     /\ \A i \in DOMAIN batch \ fresh :
          f[i] = NoFd \/ (AllowRepeat /\ \E j \in fresh : j < i /\ f[i] = f[j])

(* read(2) delivers the next k events: the descriptors are installed and   *)
(* the permission events begin to wait under their numbers; one whose      *)
(* object could not be opened is denied by the kernel itself.  A group     *)
(* with FAN_REPORT_PIDFD installs a pidfd for the event as well.           *)
ReadBatch(t, k, f, pidfds) ==
  LET batch == SubSeq(queue, 1, k)
      fresh == FreshIn(batch, f)
      new == {f[i] : i \in fresh}
  IN /\ pc[t] = "read"
     /\ k <= Len(queue)
     /\ Installs(batch, f)
     /\ pidfds \cap new = {} /\ \A n \in pidfds : table[n] = Closed
     /\ pidfds # {} => ReportPidfd
     /\ Cardinality(pidfds) <= k
     /\ table' = [n \in Fds |->
          IF n \in new THEN batch[CHOOSE i \in fresh : f[i] = n]
          ELSE IF n \in pidfds THEN Process ELSE table[n]]
     /\ queue' = SubSeq(queue, k + 1, Len(queue))
     /\ pending' = pending \cup
          {[ev |-> batch[i], fd |-> f[i]] : i \in {j \in fresh : batch[j] \in Perm}}
     /\ bytes' = [bytes EXCEPT ![t] = [i \in 1..k |-> [ev |-> batch[i], fd |-> f[i]]]]
     /\ inflight' = [inflight EXCEPT ![t] = @ \cup new \cup pidfds]
     /\ pc' = [pc EXCEPT ![t] = "parse"]
     /\ UNCHANGED <<raised, answers, slots, at, adopted, stop, result, held>>

(* parse_fd_events_into over the buffer: one event per header, adopting    *)
(* nothing and skipping whatever follows a header; an unknown version in   *)
(* the first header stops the walk there.  read_fd_events raises it, while *)
(* FdEventReader::read drops the report.  The truncation FdEventReader     *)
(* makes next never drops an event (EventWalk, TruncationDropsNothing).    *)
Unadopted(h) == [ev |-> h.ev, fd_field |-> h.fd, owns |-> FALSE, replied |-> FALSE]

Wrong_Parse_KeepsAdopted(t, known) ==
  /\ pc[t] = "parse"
  /\ slots' = [slots EXCEPT ![t] =
       IF known THEN [i \in 1..Len(bytes[t]) |-> Unadopted(bytes[t][i])] ELSE <<>>]
  /\ stop' = [stop EXCEPT ![t] = IF known THEN "End" ELSE "UnknownVersion"]
  /\ at' = [at EXCEPT ![t] = 1]
  /\ pc' = [pc EXCEPT ![t] = "adopt"]
  /\ UNCHANGED <<kernel, bytes, adopted, inflight, result, held>>

Parse(t, known) ==
  /\ pc[t] = "parse"
  /\ slots' = [slots EXCEPT ![t] =
       IF known THEN [i \in 1..Len(bytes[t]) |-> Unadopted(bytes[t][i])] ELSE <<>>]
  /\ stop' = [stop EXCEPT ![t] = IF known THEN "End" ELSE "UnknownVersion"]
  /\ adopted' = [adopted EXCEPT ![t] = {}]
  /\ at' = [at EXCEPT ![t] = 1]
  /\ pc' = [pc EXCEPT ![t] = "adopt"]
  /\ UNCHANGED <<kernel, bytes, inflight, result, held>>

Wrong_Adoptable_Repeats(t, ev) == ~ev.owns /\ ev.fd_field # NoFd
Wrong_Adoptable_Negative(t, ev) == ~ev.owns /\ ev.fd_field \notin adopted[t]

(* FdEvent::adopt_reported: a number that is not negative and that no      *)
(* earlier event of this buffer adopted becomes an OwnedFd.                *)
Adoptable(t, ev) ==
  /\ ~ev.owns
  /\ ev.fd_field # NoFd
  /\ ev.fd_field \notin adopted[t]

Adopt(t) ==
  LET ev == slots[t][at[t]]
  IN /\ pc[t] = "adopt"
     /\ at[t] <= Len(slots[t])
     /\ \/ /\ Adoptable(t, ev)
           /\ slots' = [slots EXCEPT ![t][at[t]].owns = TRUE]
           /\ adopted' = [adopted EXCEPT ![t] = @ \cup {ev.fd_field}]
           /\ inflight' = [inflight EXCEPT ![t] = @ \ {ev.fd_field}]
        \/ /\ ~Adoptable(t, ev)
           /\ UNCHANGED <<slots, adopted, inflight>>
     /\ at' = [at EXCEPT ![t] = @ + 1]
     /\ UNCHANGED <<kernel, pc, bytes, stop, result, held>>

EndRead(t) ==
  /\ pc[t] = "adopt"
  /\ at[t] > Len(slots[t])
  /\ pc' = [pc EXCEPT ![t] = "idle"]
  /\ result' = [result EXCEPT ![t] =
       IF stop[t] = "UnknownVersion" /\ t \in Stateless THEN "UnknownEventVersion" ELSE "ok"]
  /\ UNCHANGED <<kernel, bytes, slots, at, adopted, inflight, stop, held>>

-----------------------------------------------------------------------------
(***************************************************************************)
(* What a caller does with a batch between two reads.                      *)
(***************************************************************************)

(* send_response with the descriptor the event holds: the kernel resolves  *)
(* an event that waits under that number, or reports ENOENT.               *)
Respond(t, i) ==
  LET ev == slots[t][i]
      waiting == {p \in pending : p.fd = ev.fd_field}
  IN /\ pc[t] = "idle"
     /\ ev.owns /\ ev.ev \in Perm /\ ~ev.replied
     /\ \/ \E p \in waiting :
             /\ pending' = pending \ {p}
             /\ answers' = answers \cup {[meant |-> ev.ev, hit |-> p.ev]}
        \/ /\ waiting = {}
           /\ UNCHANGED <<pending, answers>>
     /\ slots' = [slots EXCEPT ![t][i].replied = TRUE]
     /\ UNCHANGED <<table, queue, raised, pc, bytes, at, adopted, inflight, stop,
                    result, held>>

Wrong_IntoFd_KeepsOwner(t, i) ==
  LET ev == slots[t][i]
  IN /\ pc[t] = "idle"
     /\ t \in Stateless
     /\ ev.owns
     /\ held' = held \cup {[ev |-> ev.ev, fd |-> ev.fd_field]}
     /\ UNCHANGED <<kernel, thread>>

(* FdEvent::into_fd, which needs the event itself and so the stateless     *)
(* read: FdEventReader only lends its events.                              *)
IntoFd(t, i) ==
  LET ev == slots[t][i]
  IN /\ pc[t] = "idle"
     /\ t \in Stateless
     /\ ev.owns
     /\ Disciplined => i \notin Unanswered(t)
     /\ held' = held \cup {[ev |-> ev.ev, fd |-> ev.fd_field]}
     /\ slots' = [slots EXCEPT ![t][i].owns = FALSE]
     /\ UNCHANGED <<kernel, pc, bytes, at, adopted, inflight, stop, result>>

(* Duplicating a borrowed descriptor (BorrowedFd::try_clone_to_owned). *)
TryClone(t, i, n) ==
  LET ev == slots[t][i]
  IN /\ pc[t] = "idle"
     /\ ev.owns
     /\ table[n] = Closed
     /\ table' = [table EXCEPT ![n] = table[ev.fd_field]]
     /\ held' = held \cup {[ev |-> ev.ev, fd |-> n]}
     /\ UNCHANGED <<queue, raised, pending, answers, thread>>

DropHeld(h) ==
  /\ table' = [table EXCEPT ![h.fd] = Closed]
  /\ held' = held \ {h}
  /\ UNCHANGED <<queue, raised, pending, answers, thread>>

-----------------------------------------------------------------------------
ReadStep(t) ==
  \/ BeginRead(t)
  \/ DropSlot(t)
  \/ EndClear(t)
  \/ ReadFails(t, "EAGAIN")
  \/ WaitReadable(t)
  \/ \E k \in 1..BatchMax : \E f \in [1..k -> Fds \cup {NoFd}], pidfds \in SUBSET Fds :
       ReadBatch(t, k, f, pidfds)
  \/ \E known \in Versions : Parse(t, known)
  \/ Adopt(t)
  \/ EndRead(t)

CallerStep(t) ==
  \E i \in DOMAIN slots[t] :
    \/ Respond(t, i)
    \/ IntoFd(t, i)
    \/ \E n \in Fds : TryClone(t, i, n)

Next ==
  \/ \E e \in Events : Raise(e)
  \/ \E n \in Fds : OpenElsewhere(n) \/ CloseElsewhere(n)
  \/ \E t \in Threads : ReadStep(t) \/ ReadFails(t, "errno") \/ WaitFails(t) \/ CallerStep(t)
  \/ \E h \in held : DropHeld(h)

Spec == Init /\ [][Next]_vars

(* A thread runs the documented loop, and runs it again when it returned   *)
(* an error, which the loop does not do itself: it answers what it was     *)
(* given and then reads again.  Nothing is assumed of the other threads,   *)
(* of the files they open, or of failing reads and waits.                  *)
FairSpec ==
  /\ Spec
  /\ \A t \in Threads :
       /\ WF_vars(ReadStep(t))
       /\ \A i \in 1..BatchMax : WF_vars(i \in DOMAIN slots[t] /\ Respond(t, i))
       /\ SF_vars(\E k \in 1..BatchMax : \E f \in [1..k -> Fds \cup {NoFd}],
                    pidfds \in SUBSET Fds : ReadBatch(t, k, f, pidfds))

-----------------------------------------------------------------------------
(***************************************************************************)
(* Properties.                                                             *)
(***************************************************************************)

(* The slots of a batch that hold an OwnedFd, and the numbers they hold. *)
OwningSlots(t) == {i \in DOMAIN slots[t] : slots[t][i].owns}
Owned(t) == {slots[t][i].fd_field : i \in OwningSlots(t)}

(* A descriptor has one owner: no number is held by two events of a batch, *)
(* by the batches of two threads, by a batch and a caller, or by two       *)
(* callers, so that no number is closed twice.                             *)
SingleOwner ==
  /\ \A t, u \in Threads : \A i \in OwningSlots(t), j \in OwningSlots(u) :
       slots[t][i].fd_field = slots[u][j].fd_field => t = u /\ i = j
  /\ \A t \in Threads : \A h \in held : h.fd \notin Owned(t)
  /\ \A g, h \in held : g.fd = h.fd => g = h

(* What is owned is open, on the object the event was about and not on a   *)
(* file that took over the number: closing it, answering with it or        *)
(* reading its path never touches anything else.                           *)
OwnedIsItsObject ==
  /\ \A t \in Threads : \A i \in OwningSlots(t) :
       table[slots[t][i].fd_field] = slots[t][i].ev
  /\ \A h \in held : table[h.fd] = h.ev

(* Nothing the kernel installed is lost: after a read every number that is *)
(* open on an event's object is held by an event or by a caller.           *)
NothingLeaks ==
  \A n \in Fds :
    table[n] \notin {Closed, Elsewhere} =>
      \/ \E t \in Threads : n \in Owned(t)
      \/ \E t \in Threads : pc[t] \in {"parse", "adopt"} /\ n \in inflight[t]
      \/ \E h \in held : h.fd = n

(* SPEC 3.2.6: a read that fails leaves no event, no descriptor and no     *)
(* byte of the previous batch behind.                                      *)
FailedReadLeavesNothing ==
  \A t \in Threads :
    pc[t] \in {"idle", "wait"} /\ result[t] \in {"EAGAIN", "errno"} =>
      slots[t] = <<>> /\ bytes[t] = <<>>

(* A caller that answers before it reads again always answers the event it *)
(* means, although the kernel matches answers by number and numbers are    *)
(* reused.                                                                 *)
AnswerHitsItsEvent ==
  Disciplined => \A a \in answers : a.meant = a.hit

(* A permission event that was raised does not block its file operation    *)
(* for ever: it is answered, or denied by the kernel.                      *)
Blocked(e) ==
  \/ \E i \in DOMAIN queue : queue[i] = e
  \/ \E p \in pending : p.ev = e

PermissionIsResolved == \A e \in Perm : Blocked(e) ~> ~Blocked(e)

(* An unknown metadata version is raised by the read that met it, as       *)
(* Fanotify::read_fd_events does.                                          *)
UnknownVersionIsRaised ==
  \A t \in Threads :
    pc[t] = "idle" /\ stop[t] = "UnknownVersion" /\ result[t] \notin {"EAGAIN", "errno"} =>
      result[t] = "UnknownEventVersion"
=============================================================================
