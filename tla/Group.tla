------------------------------- MODULE Group -------------------------------
(***************************************************************************)
(* A Fanotify of src/group.rs from its creation to its end: marks by path  *)
(* and by descriptor, flush_marks and the hand-over of the descriptor,     *)
(* while a Consumer reads and waits.                                       *)
(*                                                                         *)
(* External: fanotify_init, fanotify_mark and what queues an event, by the *)
(* rules of fanotify_init(2) and fanotify_mark(2).  All objects are on one *)
(* mount of one filesystem.                                                *)
(***************************************************************************)
EXTENDS Consumer

CONSTANTS
  Objects,
  Paths,
  Nothing,      \* a path that names no object, a descriptor that is not open
  Bits,         \* event bits of a mask
  MaxChanges    \* how many marks and renames are made at most

ASSUME NothingAssumption == Nothing \notin Objects
ASSUME ChangesAssumption == MaxChanges \in Nat

Anchors == {"inode", "mount", "filesystem"}

VARIABLES
  owner,      \* who owns the group's descriptor: "nobody", "Fanotify", "OwnedFd"
  privileged, \* CAP_SYS_ADMIN
  where,      \* the object a path names
  opened,     \* the object the marking thread's descriptor is open on
  marks,      \* the kernel's marks: a mask per object, for the mount, for the filesystem
  returned,   \* the last call of init, mark or flush, and "Ok" or its errno
  changes     \* how many marks and renames were made

setup == <<owner, privileged, where, opened, marks, returned, changes>>
vars == <<setup, events, consumer>>

(* What a mark can be on: an object, the mount, the filesystem. *)
Connectors == Objects \cup {"mount", "filesystem"}
Connector(anchor, o) == IF anchor = "inode" THEN o ELSE anchor
NoMarks == [c \in Connectors |-> {}]

Calls == {"none", "fanotify_init", "mark", "flush_marks"}
Errors == {"Ok", "EPERM", "EINVAL", "ENOENT", "EBADF"}
Returned(call, error) == [call |-> call, error |-> error]

(* The type invariant. *)
TypeOK ==
  /\ owner \in {"nobody", "Fanotify", "OwnedFd"}
  /\ privileged \in BOOLEAN
  /\ where \in [Paths -> Objects \cup {Nothing}]
  /\ opened \in Objects \cup {Nothing}
  /\ marks \in [Connectors -> SUBSET Bits]
  /\ returned \in [call : Calls, error : Errors]
  /\ changes \in 0..MaxChanges
  /\ ConsumerTypeOK

Init ==
  /\ owner = "nobody"
  /\ privileged \in BOOLEAN
  /\ where \in [Paths -> Objects \cup {Nothing}]
  /\ \A p, q \in Paths : where[p] = where[q] => p = q \/ where[p] = Nothing
  /\ opened = Nothing
  /\ marks = NoMarks
  /\ returned = Returned("none", "Ok")
  /\ changes = 0
  /\ ConsumerInit

-----------------------------------------------------------------------------
(***************************************************************************)
(* The group and its descriptor.                                           *)
(***************************************************************************)

(* fanotify_init: the privilege is checked before the combination.  A      *)
(* behaviour follows one group that has events.                            *)
FanotifyInit(adminOnly, legal) ==
  /\ owner = "nobody"
  /\ raised = 0
  /\ returned' = Returned("fanotify_init",
                   IF adminOnly /\ ~privileged THEN "EPERM" ELSE IF ~legal THEN "EINVAL" ELSE "Ok")
  /\ owner' = IF returned'.error = "Ok" THEN "Fanotify" ELSE owner
  /\ UNCHANGED <<privileged, where, opened, marks, changes, events, consumer>>

(* into_inner and from_fd: the descriptor stays open, and with it marks    *)
(* and queue.  Both need the Fanotify itself, which the loop borrows.      *)
IntoInner ==
  /\ owner = "Fanotify" /\ loop = "idle"
  /\ owner' = "OwnedFd"
  /\ UNCHANGED <<privileged, where, opened, marks, returned, changes, events, consumer>>

FromFd ==
  /\ owner = "OwnedFd"
  /\ owner' = "Fanotify"
  /\ UNCHANGED <<privileged, where, opened, marks, returned, changes, events, consumer>>

(* The last close of the descriptor ends the group. *)
Drop ==
  /\ owner # "nobody" /\ loop \in {"idle", "stopped"}
  /\ owner' = "nobody"
  /\ marks' = NoMarks
  /\ queue' = <<>>
  /\ UNCHANGED <<privileged, where, opened, returned, changes, raised, consumer>>

-----------------------------------------------------------------------------
(***************************************************************************)
(* Marks, made by another thread than the consumer's while others rename.  *)
(***************************************************************************)
Change(fields) ==
  /\ changes < MaxChanges
  /\ changes' = changes + 1
  /\ UNCHANGED <<fields, owner, privileged, events, consumer>>

(* Two paths exchange their objects. *)
Rename(p, q) ==
  /\ where[p] # where[q]
  /\ where' = [where EXCEPT ![p] = where[q], ![q] = where[p]]
  /\ Change(<<opened, marks, returned>>)

OpenObject(p) ==
  /\ where[p] # Nothing
  /\ opened' = where[p]
  /\ Change(<<where, marks, returned>>)

(* What the kernel answers to FAN_MARK_ADD and FAN_MARK_REMOVE: only inode *)
(* marks without the privilege, and no removal from a mark that is not     *)
(* there; `missing` is the errno when nothing is named.                    *)
MarkErrno(o, add, anchor, missing) ==
  IF o = Nothing THEN missing
  ELSE IF anchor # "inode" /\ ~privileged THEN "EPERM"
  ELSE IF ~add /\ marks[Connector(anchor, o)] = {} THEN "ENOENT"
  ELSE "Ok"

FanotifyMark(o, add, anchor, bits, missing) ==
  /\ owner = "Fanotify"
  /\ returned' = Returned("mark", MarkErrno(o, add, anchor, missing))
  /\ marks' = IF returned'.error # "Ok" THEN marks
              ELSE [marks EXCEPT ![Connector(anchor, o)] = IF add THEN @ \cup bits ELSE @ \ bits]
  /\ Change(<<where, opened>>)

(* mark: the path is walked at the time of the call. *)
Mark(p, add, anchor, bits) == FanotifyMark(where[p], add, anchor, bits, "ENOENT")

(* mark_at with the path ".": walked from the directory's descriptor. *)
MarkAt(add, anchor, bits) == FanotifyMark(opened, add, anchor, bits, "EBADF")

(* A path with an interior NUL never reaches the kernel. *)
MarkNul ==
  /\ owner = "Fanotify"
  /\ returned' = Returned("mark", "EINVAL")
  /\ Change(<<where, opened, marks>>)

(* mark_fd: the object is the one the descriptor is open on. *)
MarkFd(add, anchor, bits) == FanotifyMark(opened, add, anchor, bits, "EBADF")

(* flush_marks passes FAN_MARK_FLUSH alone, whose anchor is the inode: the *)
(* kernel drops the marks of the anchor the flags name.                    *)
FlushMarks ==
  /\ owner = "Fanotify"
  /\ marks' = [c \in Connectors |-> IF c \in Objects THEN {} ELSE marks[c]]
  /\ returned' = Returned("flush_marks", "Ok")
  /\ Change(<<where, opened>>)

(* Something happens to an object; a mark on it, on its mount or on its    *)
(* filesystem queues the event.                                            *)
Covered(o, bit) == \E a \in Anchors : bit \in marks[Connector(a, o)]

Raise(o, bit) ==
  /\ owner # "nobody" /\ Covered(o, bit)
  /\ raised < MaxEvents
  /\ raised' = raised + 1
  /\ queue' = Append(queue, raised')
  /\ UNCHANGED <<setup, consumer>>

-----------------------------------------------------------------------------
(* The loop borrows the Fanotify. *)
StartLoop == owner = "Fanotify" /\ Start /\ UNCHANGED setup

ConsumerStep == StartLoop \/ (LoopStep /\ UNCHANGED setup)

Masks == SUBSET Bits \ {{}}

Next ==
  \/ \E adminOnly, legal \in BOOLEAN : FanotifyInit(adminOnly, legal)
  \/ IntoInner \/ FromFd \/ Drop
  \/ \E p, q \in Paths : Rename(p, q)
  \/ \E p \in Paths : OpenObject(p)
  \/ \E add \in BOOLEAN, anchor \in Anchors, bits \in Masks :
       \/ \E p \in Paths : Mark(p, add, anchor, bits)
       \/ MarkAt(add, anchor, bits)
       \/ MarkFd(add, anchor, bits)
  \/ MarkNul
  \/ FlushMarks
  \/ \E o \in Objects, bit \in Bits : Raise(o, bit)
  \/ ConsumerStep
  \/ ReadFails("errno") /\ UNCHANGED setup
  \/ \E errno \in {"EINTR", "errno"} : PollFails(errno) /\ UNCHANGED setup

Spec == Init /\ [][Next]_vars

(* The consumer runs its loop, time passes, and a descriptor that was      *)
(* handed over is used.  Nothing is assumed of marks and events, nor that  *)
(* a read or a wait ever fails.                                            *)
FairSpec == Spec /\ WF_vars(ConsumerStep) /\ WF_vars(FromFd) /\ SF_vars(StartLoop)

-----------------------------------------------------------------------------
(***************************************************************************)
(* Properties.                                                             *)
(***************************************************************************)

(* "Marks of every anchor - inode, mount, filesystem - go": when the last  *)
(* call was a flush_marks that returned Ok, the group has no marks.        *)
FlushRemovesEverything ==
  returned = Returned("flush_marks", "Ok") => marks = NoMarks
=============================================================================
