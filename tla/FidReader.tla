----------------------------- MODULE FidReader -----------------------------
(***************************************************************************)
(* Reading a FID group: the EventReader and the stateless read_events of   *)
(* src/group.rs, the adoption of the pidfds the kernel installed, and what *)
(* the callers do with a pidfd: they clone events, take pidfds out, put    *)
(* others in, and turn a shared one into an OwnedFd.                       *)
(*                                                                         *)
(* A Pidfd::Fd is an Arc<OwnedFd>: copies of an event share it, and the    *)
(* last one to be dropped closes the number, in whatever thread that       *)
(* happens, while other code of the process opens and closes files under   *)
(* the same numbers.                                                       *)
(*                                                                         *)
(* External: the kernel's event queue and the descriptor table.            *)
(***************************************************************************)
EXTENDS Integers, Sequences, FiniteSets

CONSTANTS
  Readers,      \* threads that own an EventReader
  Stateless,    \* threads that call Fanotify::read_events
  Fds,          \* descriptor numbers
  NoFd,         \* any negative number: FAN_NOPIDFD, FAN_EPIDFD, an errno
  Events,       \* the events that may be raised, each at most once
  Closed,       \* a number that is not open
  Elsewhere,    \* a file another part of the process opened
  Streams,      \* what the group may deliver: "fid", "fd", "unknown"
  AllowRepeat,  \* whether a record may repeat a number of its buffer
  BatchMax,     \* how many events fit the read buffer
  MaxCopies     \* how many copies of one pidfd the callers hold at most

Threads == Readers \cup Stateless

ASSUME ThreadsAssumption ==
  /\ Readers \cap Stateless = {}
  /\ IsFiniteSet(Readers \cup Stateless)
ASSUME SentinelsAssumption ==
  NoFd \notin Fds /\ Closed \notin Events /\ Elsewhere \notin Events /\ Closed # Elsewhere
ASSUME BoundsAssumption == BatchMax \in Nat \ {0} /\ MaxCopies \in Nat
ASSUME StreamsAssumption == Streams \subseteq {"fid", "fd", "unknown"} /\ AllowRepeat \in BOOLEAN

VARIABLES
  stream,   \* what this group delivers
  table,    \* the descriptor table: the event whose process a number is a pidfd of
  queue,    \* the group's event queue
  raised,   \* the events raised so far
  pc,       \* per thread: where it is in its loop
  bytes,    \* per thread: what the last read(2) left in the read buffer
  slots,    \* per thread: the Vec<FidEvent>
  at,       \* per thread: the slot the clear or the adopt loop is at
  adopted,  \* per thread: the scratch list of numbers adopted in this buffer
  inflight, \* per thread: numbers the kernel installed and nothing owns yet
  result,   \* per thread: what the last read returned
  copies,   \* per Arc: how many copies of it the callers hold outside a batch
  sharing,  \* per Arc: the into_fd calls that found it shared
  owned     \* the OwnedFds the callers took out of a Pidfd

kernel == <<stream, table, queue, raised>>
thread == <<pc, bytes, slots, at, adopted, inflight, result>>
callers == <<copies, sharing, owned>>
vars == <<kernel, thread, callers>>

(* An Arc is named by the number it holds and the event that number was    *)
(* installed for, and an OwnedFd likewise.                                 *)
Arcs == [ev : Events, fd : Fds]

(* Pidfd. *)
Absent == [kind |-> "Absent"]
Unavailable(raw) == [kind |-> "Unavailable", raw |-> raw]
Fd(a) == [kind |-> "Fd", arc |-> a]
Pidfd == {Absent} \cup {Unavailable(raw) : raw \in Fds \cup {NoFd}} \cup {Fd(a) : a \in Arcs}

(* The type invariant. *)
TypeOK ==
  /\ stream \in Streams
  /\ table \in [Fds -> Events \cup {Closed, Elsewhere}]
  /\ queue \in Seq(Events)
  /\ raised \in SUBSET Events
  /\ pc \in [Threads -> {"idle", "clear", "read", "parse", "adopt"}]
  /\ bytes \in [Threads -> Seq([ev : Events, raw : Fds \cup {NoFd}])]
  /\ slots \in [Threads -> Seq([ev : Events, pidfd : Pidfd])]
  /\ at \in [Threads -> Nat \ {0}]
  /\ adopted \in [Threads -> SUBSET Fds]
  /\ inflight \in [Threads -> SUBSET Fds]
  /\ result \in [Threads -> {"none", "ok", "errno", "UnknownEventVersion"}]
  /\ copies \in [Arcs -> 0..MaxCopies]
  /\ sharing \in [Arcs -> 0..MaxCopies]
  /\ owned \in SUBSET Arcs

Init ==
  /\ stream \in Streams
  /\ table = [n \in Fds |-> Closed]
  /\ queue = <<>>
  /\ raised = {}
  /\ pc = [t \in Threads |-> "idle"]
  /\ bytes = [t \in Threads |-> <<>>]
  /\ slots = [t \in Threads |-> <<>>]
  /\ at = [t \in Threads |-> 1]
  /\ adopted = [t \in Threads |-> {}]
  /\ inflight = [t \in Threads |-> {}]
  /\ result = [t \in Threads |-> "none"]
  /\ copies = [a \in Arcs |-> 0]
  /\ sharing = [a \in Arcs |-> 0]
  /\ owned = {}

-----------------------------------------------------------------------------
(***************************************************************************)
(* The rest of the world.                                                  *)
(***************************************************************************)
Raise(e) ==
  /\ e \notin raised
  /\ raised' = raised \cup {e}
  /\ queue' = Append(queue, e)
  /\ UNCHANGED <<stream, table, thread, callers>>

OpenElsewhere(n) ==
  /\ table[n] = Closed
  /\ table' = [table EXCEPT ![n] = Elsewhere]
  /\ UNCHANGED <<stream, queue, raised, thread, callers>>

CloseElsewhere(n) ==
  /\ table[n] = Elsewhere
  /\ table' = [table EXCEPT ![n] = Closed]
  /\ UNCHANGED <<stream, queue, raised, thread, callers>>

-----------------------------------------------------------------------------
(***************************************************************************)
(* Arcs.  Whoever drops a reference closes the number if it was the last.  *)
(***************************************************************************)
Holds(t, i, a) == i \in DOMAIN slots[t] /\ slots[t][i].pidfd = Fd(a)
HoldingSlots(a) == {x \in Threads \X (1..BatchMax) : Holds(x[1], x[2], a)}
Refs(a) == Cardinality(HoldingSlots(a)) + copies[a] + sharing[a]

(* The definitions named Wrong_... are faulty variants of the definition   *)
(* they precede; nothing uses them but the mutation checks.                *)
Wrong_ReleaseRef_Always(a) == [table EXCEPT ![a.fd] = Closed]

ReleaseRef(a) == IF Refs(a) = 1 THEN [table EXCEPT ![a.fd] = Closed] ELSE table

Release(p) == IF p.kind = "Fd" THEN ReleaseRef(p.arc) ELSE table

-----------------------------------------------------------------------------
(***************************************************************************)
(* One read.  EventReader::read_reported forgets the bytes and drops the   *)
(* events of the previous batch before the read; a stateless caller drops  *)
(* its Vec, which borrows the buffer it is about to lend again.            *)
(***************************************************************************)
BeginRead(t) ==
  /\ pc[t] = "idle"
  /\ pc' = [pc EXCEPT ![t] = "clear"]
  /\ at' = [at EXCEPT ![t] = 1]
  /\ bytes' = [bytes EXCEPT ![t] = IF t \in Readers THEN <<>> ELSE @]
  /\ UNCHANGED <<kernel, slots, adopted, inflight, result, callers>>

Wrong_DropSlot_Forgets(t) ==
  /\ pc[t] = "clear"
  /\ at[t] \in DOMAIN slots[t]
  /\ slots' = [slots EXCEPT ![t][at[t]].pidfd = Absent]
  /\ at' = [at EXCEPT ![t] = @ + 1]
  /\ UNCHANGED <<kernel, pc, bytes, adopted, inflight, result, callers>>

DropSlot(t) ==
  /\ pc[t] = "clear"
  /\ at[t] \in DOMAIN slots[t]
  /\ table' = Release(slots[t][at[t]].pidfd)
  /\ slots' = [slots EXCEPT ![t][at[t]].pidfd = Absent]
  /\ at' = [at EXCEPT ![t] = @ + 1]
  /\ UNCHANGED <<stream, queue, raised, pc, bytes, adopted, inflight, result, callers>>

EndClear(t) ==
  /\ pc[t] = "clear"
  /\ at[t] \notin DOMAIN slots[t]
  /\ pc' = [pc EXCEPT ![t] = "read"]
  /\ slots' = [slots EXCEPT ![t] = <<>>]
  /\ UNCHANGED <<kernel, bytes, at, adopted, inflight, result, callers>>

(* read(2) fails, EAGAIN on an empty queue included: nothing was           *)
(* transferred, and read_events empties the caller's buffer.               *)
ReadFails(t) ==
  /\ pc[t] = "read"
  /\ pc' = [pc EXCEPT ![t] = "idle"]
  /\ bytes' = [bytes EXCEPT ![t] = <<>>]
  /\ result' = [result EXCEPT ![t] = "errno"]
  /\ UNCHANGED <<kernel, slots, at, adopted, inflight, callers>>

(* The numbers a read may report: a pidfd under a free number for each     *)
(* event, or a negative number when there is none.  A record may repeat a  *)
(* number only in a stream that is not what it claims (AllowRepeat); the   *)
(* kernel installs nothing for it.                                         *)
Fresh(k, f) == {i \in 1..k : f[i] # NoFd /\ \A j \in 1..(i - 1) : f[j] # f[i]}

Installs(k, f) ==
  /\ \A i \in Fresh(k, f) : table[f[i]] = Closed
  /\ AllowRepeat \/ \A i \in 1..k : f[i] = NoFd \/ i \in Fresh(k, f)

(* read(2) delivers the next k events.  On a group of the fd format the    *)
(* numbers are in the fd fields of the headers and name the object.        *)
ReadBatch(t, k, f) ==
  LET new == {f[i] : i \in Fresh(k, f)}
  IN /\ pc[t] = "read"
     /\ k <= Len(queue)
     /\ Installs(k, f)
     /\ table' = [n \in Fds |-> IF n \in new
                                THEN queue[CHOOSE i \in Fresh(k, f) : f[i] = n] ELSE table[n]]
     /\ queue' = SubSeq(queue, k + 1, Len(queue))
     /\ bytes' = [bytes EXCEPT ![t] = [i \in 1..k |-> [ev |-> queue[i], raw |-> f[i]]]]
     /\ inflight' = [inflight EXCEPT ![t] = @ \cup new]
     /\ pc' = [pc EXCEPT ![t] = "parse"]
     /\ UNCHANGED <<stream, raised, slots, at, adopted, result, callers>>

(* parse_fid_events_into over the buffer: the number of a pidfd record     *)
(* becomes Unavailable, whatever its sign; an fd field that is not         *)
(* negative is dropped; a header of an unknown version ends the walk.      *)
Unadopted(h) ==
  [ev |-> h.ev, pidfd |-> IF stream = "fid" THEN Unavailable(h.raw) ELSE Absent]

Parse(t) ==
  /\ pc[t] = "parse"
  /\ slots' = [slots EXCEPT ![t] =
       IF stream = "unknown" THEN <<>> ELSE [i \in DOMAIN bytes[t] |-> Unadopted(bytes[t][i])]]
  /\ adopted' = [adopted EXCEPT ![t] = {}]
  /\ at' = [at EXCEPT ![t] = 1]
  /\ pc' = [pc EXCEPT ![t] = "adopt"]
  /\ UNCHANGED <<kernel, bytes, inflight, result, callers>>

(* adopt_reported_pidfd: a number that is not negative and that no earlier *)
(* record of this buffer had becomes an Arc<OwnedFd> with one reference.   *)
Adoptable(t, p) ==
  /\ p.kind = "Unavailable"
  /\ p.raw # NoFd
  /\ p.raw \notin adopted[t]

Adopt(t) ==
  /\ pc[t] = "adopt"
  /\ at[t] \in DOMAIN slots[t]
  /\ LET ev == slots[t][at[t]]
     IN \/ /\ Adoptable(t, ev.pidfd)
           /\ slots' = [slots EXCEPT ![t][at[t]].pidfd =
                          Fd([ev |-> ev.ev, fd |-> ev.pidfd.raw])]
           /\ adopted' = [adopted EXCEPT ![t] = @ \cup {ev.pidfd.raw}]
           /\ inflight' = [inflight EXCEPT ![t] = @ \ {ev.pidfd.raw}]
        \/ /\ ~Adoptable(t, ev.pidfd)
           /\ UNCHANGED <<slots, adopted, inflight>>
  /\ at' = [at EXCEPT ![t] = @ + 1]
  /\ UNCHANGED <<kernel, pc, bytes, result, callers>>

(* read and read_events raise the version the report names. *)
EndRead(t) ==
  /\ pc[t] = "adopt"
  /\ at[t] \notin DOMAIN slots[t]
  /\ pc' = [pc EXCEPT ![t] = "idle"]
  /\ result' = [result EXCEPT ![t] =
                  IF stream = "unknown" THEN "UnknownEventVersion" ELSE "ok"]
  /\ UNCHANGED <<kernel, bytes, slots, at, adopted, inflight, callers>>

-----------------------------------------------------------------------------
(***************************************************************************)
(* What the callers do with a pidfd, in any thread.                        *)
(***************************************************************************)

(* event.clone().into_owned(): the copy shares the Arc and outlives the    *)
(* batch.                                                                  *)
CloneEvent(t, i) ==
  LET p == slots[t][i].pidfd
  IN /\ pc[t] = "idle"
     /\ p.kind = "Fd"
     /\ copies[p.arc] < MaxCopies
     /\ copies' = [copies EXCEPT ![p.arc] = @ + 1]
     /\ UNCHANGED <<kernel, thread, sharing, owned>>

(* take_pidfd, or into_owned on the event itself: the reference moves. *)
TakePidfd(t, i) ==
  LET p == slots[t][i].pidfd
  IN /\ pc[t] = "idle"
     /\ p.kind = "Fd"
     /\ copies[p.arc] < MaxCopies
     /\ slots' = [slots EXCEPT ![t][i].pidfd = Absent]
     /\ copies' = [copies EXCEPT ![p.arc] = @ + 1]
     /\ UNCHANGED <<kernel, pc, bytes, at, adopted, inflight, result, sharing, owned>>

(* set_pidfd(Pidfd::from(h)): a new Arc takes the descriptor, and the      *)
(* assignment drops the Pidfd that was there.                              *)
SetPidfd(t, i, h) ==
  /\ pc[t] = "idle"
  /\ table' = Release(slots[t][i].pidfd)
  /\ slots' = [slots EXCEPT ![t][i].pidfd = Fd(h)]
  /\ owned' = owned \ {h}
  /\ UNCHANGED <<stream, queue, raised, pc, bytes, at, adopted, inflight, result,
                 copies, sharing>>

DropCopy(a) ==
  /\ copies[a] > 0
  /\ table' = ReleaseRef(a)
  /\ copies' = [copies EXCEPT ![a] = @ - 1]
  /\ UNCHANGED <<stream, queue, raised, thread, sharing, owned>>

(* Pidfd::into_fd on a copy: Arc::try_unwrap gives the descriptor to the   *)
(* only holder.  Otherwise the call goes on holding its reference ...      *)
IntoFd(a) ==
  /\ copies[a] > 0
  /\ copies' = [copies EXCEPT ![a] = @ - 1]
  /\ IF Refs(a) = 1
     THEN owned' = owned \cup {a} /\ UNCHANGED sharing
     ELSE /\ sharing[a] < MaxCopies
          /\ sharing' = [sharing EXCEPT ![a] = @ + 1]
          /\ UNCHANGED owned
  /\ UNCHANGED <<kernel, thread>>

(* ... and duplicates the descriptor under a free number, n, or fails to   *)
(* (NoFd); either way its reference is dropped, and may be the last by now. *)
DuplicateShared(a, n) ==
  /\ sharing[a] > 0
  /\ sharing' = [sharing EXCEPT ![a] = @ - 1]
  /\ IF n = NoFd
     THEN table' = ReleaseRef(a) /\ UNCHANGED owned
     ELSE /\ table[n] = Closed
          /\ table' = [ReleaseRef(a) EXCEPT ![n] = table[a.fd]]
          /\ owned' = owned \cup {[ev |-> a.ev, fd |-> n]}
  /\ UNCHANGED <<stream, queue, raised, thread, copies>>

DropOwned(h) ==
  /\ table' = [table EXCEPT ![h.fd] = Closed]
  /\ owned' = owned \ {h}
  /\ UNCHANGED <<stream, queue, raised, thread, copies, sharing>>

-----------------------------------------------------------------------------
ReadStep(t) ==
  \/ BeginRead(t)
  \/ DropSlot(t)
  \/ EndClear(t)
  \/ ReadFails(t)
  \/ \E k \in 1..BatchMax : \E f \in [1..k -> Fds \cup {NoFd}] : ReadBatch(t, k, f)
  \/ Parse(t)
  \/ Adopt(t)
  \/ EndRead(t)

BatchStep(t) ==
  \E i \in DOMAIN slots[t] :
    \/ CloneEvent(t, i)
    \/ TakePidfd(t, i)
    \/ \E h \in owned : SetPidfd(t, i, h)

CopyStep(a) ==
  \/ DropCopy(a)
  \/ IntoFd(a)
  \/ \E n \in Fds \cup {NoFd} : DuplicateShared(a, n)

Next ==
  \/ \E e \in Events : Raise(e)
  \/ \E n \in Fds : OpenElsewhere(n) \/ CloseElsewhere(n)
  \/ \E t \in Threads : ReadStep(t) \/ BatchStep(t)
  \/ \E a \in Arcs : CopyStep(a)
  \/ \E h \in owned : DropOwned(h)

Spec == Init /\ [][Next]_vars

-----------------------------------------------------------------------------
(***************************************************************************)
(* Properties.                                                             *)
(***************************************************************************)
Live(a) == Refs(a) > 0

(* However the copies of an event are spread over threads, what an Arc or  *)
(* an OwnedFd holds is the pidfd of the process it was installed for, and  *)
(* not a file that took over the number: neither a signal sent through it  *)
(* nor its close reaches anything else.  So no two of them hold the same   *)
(* number, and a descriptor that into_fd gave away has left its Arc.       *)
OwnedIsItsProcess ==
  /\ \A a \in Arcs : Live(a) \/ a \in owned => table[a.fd] = a.ev
  /\ \A a \in owned : ~Live(a)

(* Every pidfd the kernel installed has an owner, or is about to get one   *)
(* in the adopt loop; a stream of an unknown version, which is never       *)
(* interpreted, is the exception.                                          *)
NothingLeaks ==
  stream # "unknown" =>
    \A n \in Fds :
      table[n] \in Events =>
        \/ \E a \in Arcs : a.fd = n /\ (Live(a) \/ a \in owned)
        \/ \E t \in Threads : pc[t] \in {"parse", "adopt"} /\ n \in inflight[t]

(* "A buffer that is not FID events at all is refused": no read of a group *)
(* of the fd format succeeds.                                              *)
OtherFormatsAreRefused == stream = "fd" => \A t \in Threads : result[t] # "ok"
=============================================================================
