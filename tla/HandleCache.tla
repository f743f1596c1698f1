---------------------------- MODULE HandleCache ----------------------------
(***************************************************************************)
(* HandleCache of src/handle.rs, shared by several threads: a map of two   *)
(* levels behind an RwLock, with_path lending the path it finds to a       *)
(* closure while the read guard is held, and every write in the steps the  *)
(* code makes under the write guard.                                       *)
(*                                                                         *)
(* Module PathMemo is what the cache promises.  External: the RwLock, which *)
(* lets in readers together or one writer; nothing is assumed about whom   *)
(* it prefers.  A closure never calls the store it borrows from, as the    *)
(* resolver's closures do not.  No write can panic half way (an allocation *)
(* that fails aborts), so a poisoned lock guards a whole map.              *)
(***************************************************************************)
EXTENDS Integers, FiniteSets

CONSTANTS Threads, Fsids, Handles, Paths, Unknown,
          NoThread,  \* no thread holds the write guard
          MaxCalls   \* how many calls are made in a behaviour

ASSUME NoThreadAssumption == NoThread \notin Threads
ASSUME UnknownAssumption == Unknown \notin Paths
ASSUME MaxCallsAssumption == MaxCalls \in Nat

VARIABLES
  levels,   \* the keys of the outer map
  known,    \* the inner maps, by handle
  readers,  \* the threads that hold a read guard
  writer,   \* the thread that holds the write guard
  pc,       \* per thread: where it is in its call
  call,     \* per thread: the call
  lent,     \* per thread: the path with_path lends to its closure
  answer,   \* per thread: what the call answers
  calls     \* how many calls were made

lock == <<readers, writer>>
map == <<levels, known>>
vars == <<levels, known, readers, writer, pc, call, lent, answer, calls>>

Holds(f, h) == f \in levels /\ known[f][h] # Unknown

(* The refinement mapping: the map somebody outside sees, and how far a    *)
(* call has got.  A call has answered once its effect can be seen.         *)
AbstractStore ==
  [f \in Fsids |-> [h \in Handles |-> IF f \in levels THEN known[f][h] ELSE Unknown]]

PhaseOf(label) ==
  CASE label = "idle" -> "idle"
    [] label \in {"pruning", "release"} -> "answered"
    [] OTHER -> "called"

AbstractPhase == [t \in Threads |-> PhaseOf(pc[t])]

Memo == INSTANCE PathMemo WITH store <- AbstractStore, phase <- AbstractPhase

(* The type invariant. *)
TypeOK ==
  /\ levels \in SUBSET Fsids
  /\ known \in Memo!Stores
  /\ readers \in SUBSET Threads
  /\ writer \in Threads \cup {NoThread}
  /\ pc \in [Threads -> {"idle", "start", "reading", "lent", "writing", "inserting",
                         "pruning", "release"}]
  /\ call \in [Threads -> Memo!Calls \cup {Memo!NoCall}]
  /\ lent \in [Threads -> Paths \cup {Unknown}]
  /\ calls \in 0..MaxCalls

(* A cache is new and knows nothing, or is a clone, which copies the map   *)
(* of another cache under that cache's read guard.                         *)
Init ==
  /\ known \in Memo!Stores
  /\ levels = Memo!Filesystems(known)
  /\ readers = {}
  /\ writer = NoThread
  /\ pc = [t \in Threads |-> "idle"]
  /\ call = [t \in Threads |-> Memo!NoCall]
  /\ lent = [t \in Threads |-> Unknown]
  /\ answer = [t \in Threads |-> <<>>]
  /\ calls = 0

-----------------------------------------------------------------------------
Invoke(t, c) ==
  /\ pc[t] = "idle"
  /\ calls < MaxCalls
  /\ calls' = calls + 1
  /\ call' = [call EXCEPT ![t] = c]
  /\ pc' = [pc EXCEPT ![t] = "start"]
  /\ UNCHANGED <<map, lock, lent, answer>>

Read(t) ==
  /\ pc[t] = "start"
  /\ call[t] \in Memo!Reads
  /\ writer = NoThread
  /\ readers' = readers \cup {t}
  /\ pc' = [pc EXCEPT ![t] = "reading"]
  /\ UNCHANGED <<map, writer, call, lent, answer, calls>>

Write(t) ==
  /\ pc[t] = "start"
  /\ call[t] \notin Memo!Reads
  /\ writer = NoThread
  /\ readers = {}
  /\ writer' = t
  /\ pc' = [pc EXCEPT ![t] = "writing"]
  /\ UNCHANGED <<map, readers, call, lent, answer, calls>>

(* The guard goes when the call returns. *)
Release(t) ==
  /\ pc[t] = "release"
  /\ readers' = readers \ {t}
  /\ writer' = IF writer = t THEN NoThread ELSE writer
  /\ pc' = [pc EXCEPT ![t] = "idle"]
  /\ call' = [call EXCEPT ![t] = Memo!NoCall]
  /\ answer' = [answer EXCEPT ![t] = <<>>]
  /\ UNCHANGED <<map, lent, calls>>

-----------------------------------------------------------------------------
(* Under the read guard, which lives for the call.  with_path: a miss      *)
(* answers at once, a hit lends the entry to the closure ...               *)
(* The definitions named Wrong_... are faulty variants of the definition   *)
(* they precede; nothing uses them but the mutation checks.  Here the path *)
(* is copied, and the guard dropped before the closure has run.            *)
Wrong_LookUp_CopiesOut(t) ==
  LET c == call[t]
  IN /\ pc[t] = "reading"
     /\ c.op = "with_path"
     /\ \/ /\ Holds(c.fsid, c.handle)
           /\ lent' = [lent EXCEPT ![t] = known[c.fsid][c.handle]]
           /\ readers' = readers \ {t}
           /\ pc' = [pc EXCEPT ![t] = "lent"]
           /\ UNCHANGED answer
        \/ /\ ~Holds(c.fsid, c.handle)
           /\ answer' = [answer EXCEPT ![t] = <<c.op, Unknown>>]
           /\ pc' = [pc EXCEPT ![t] = "release"]
           /\ UNCHANGED <<lent, readers>>
     /\ UNCHANGED <<map, writer, call, calls>>

LookUp(t) ==
  LET c == call[t]
  IN /\ pc[t] = "reading"
     /\ c.op = "with_path"
     /\ \/ /\ Holds(c.fsid, c.handle)
           /\ lent' = [lent EXCEPT ![t] = known[c.fsid][c.handle]]
           /\ pc' = [pc EXCEPT ![t] = "lent"]
           /\ UNCHANGED answer
        \/ /\ ~Holds(c.fsid, c.handle)
           /\ answer' = [answer EXCEPT ![t] = <<c.op, Unknown>>]
           /\ pc' = [pc EXCEPT ![t] = "release"]
           /\ UNCHANGED lent
     /\ UNCHANGED <<map, lock, call, calls>>

(* ... which reads it through the borrow, whenever it runs. *)
RunClosure(t) ==
  /\ pc[t] = "lent"
  /\ answer' = [answer EXCEPT ![t] = <<call[t].op, known[call[t].fsid][call[t].handle]>>]
  /\ lent' = [lent EXCEPT ![t] = Unknown]
  /\ pc' = [pc EXCEPT ![t] = "release"]
  /\ UNCHANGED <<map, lock, call, calls>>

(* len, is_empty, filesystems and entries. *)
CountOf(op) ==
  CASE op = "len"         -> <<op, Cardinality({e \in levels \X Handles : Holds(e[1], e[2])})>>
    [] op = "is_empty"    -> <<op, \A f \in levels, h \in Handles : ~Holds(f, h)>>
    [] op = "filesystems" -> <<op, Cardinality(levels)>>
    [] op = "entries"     -> <<op, [f \in Fsids |-> IF f \in levels THEN known[f] ELSE Memo!Nothing[f]]>>

Count(t) ==
  /\ pc[t] = "reading"
  /\ call[t] \in Memo!Counts
  /\ answer' = [answer EXCEPT ![t] = CountOf(call[t].op)]
  /\ pc' = [pc EXCEPT ![t] = "release"]
  /\ UNCHANGED <<map, lock, call, lent, calls>>

-----------------------------------------------------------------------------
(* Under the write guard.  Done(t, next) ends a call or its first half. *)
Done(t, next) ==
  /\ pc' = [pc EXCEPT ![t] = next]
  /\ answer' = [answer EXCEPT ![t] = <<call[t].op>>]
  /\ UNCHANGED <<lock, call, lent, calls>>

(* remember: entry(fsid).or_default() makes the level ... *)
RememberLevel(t) ==
  LET c == call[t]
  IN /\ pc[t] = "writing"
     /\ c.op = "remember"
     /\ levels' = levels \cup {c.fsid}
     /\ known' = IF c.fsid \in levels THEN known
                 ELSE [known EXCEPT ![c.fsid] = Memo!Nothing[c.fsid]]
     /\ pc' = [pc EXCEPT ![t] = "inserting"]
     /\ UNCHANGED <<lock, call, lent, answer, calls>>

(* ... and insert fills it. *)
RememberEntry(t) ==
  LET c == call[t]
  IN /\ pc[t] = "inserting"
     /\ known' = [known EXCEPT ![c.fsid][c.handle] = c.path]
     /\ UNCHANGED levels
     /\ Done(t, "release")

(* forget: nothing for a filesystem without a level; otherwise the entry   *)
(* goes ...                                                                *)
Forget(t) ==
  LET c == call[t]
  IN /\ pc[t] = "writing"
     /\ c.op = "forget"
     /\ UNCHANGED levels
     /\ \/ /\ c.fsid \notin levels
           /\ UNCHANGED known
           /\ Done(t, "release")
        \/ /\ c.fsid \in levels
           /\ known' = [known EXCEPT ![c.fsid][c.handle] = Unknown]
           /\ Done(t, "pruning")

Wrong_Prune_Never(t) ==
  /\ pc[t] = "pruning"
  /\ pc' = [pc EXCEPT ![t] = "release"]
  /\ UNCHANGED <<map, lock, call, lent, answer, calls>>

(* ... and the level with it when it was the last. *)
Prune(t) ==
  LET f == call[t].fsid
  IN /\ pc[t] = "pruning"
     /\ levels' = IF \A h \in Handles : known[f][h] = Unknown THEN levels \ {f} ELSE levels
     /\ UNCHANGED known
     /\ pc' = [pc EXCEPT ![t] = "release"]
     /\ UNCHANGED <<lock, call, lent, answer, calls>>

ForgetFilesystem(t) ==
  /\ pc[t] = "writing"
  /\ call[t].op = "forget_filesystem"
  /\ levels' = levels \ {call[t].fsid}
  /\ UNCHANGED known
  /\ Done(t, "release")

Clear(t) ==
  /\ pc[t] = "writing"
  /\ call[t].op = "clear"
  /\ levels' = {}
  /\ UNCHANGED known
  /\ Done(t, "release")

-----------------------------------------------------------------------------
Step(t) ==
  \/ Read(t) \/ Write(t) \/ Release(t)
  \/ LookUp(t) \/ RunClosure(t) \/ Count(t)
  \/ RememberLevel(t) \/ RememberEntry(t)
  \/ Forget(t) \/ Prune(t)
  \/ ForgetFilesystem(t) \/ Clear(t)

Next == \E t \in Threads : (\E c \in Memo!Calls : Invoke(t, c)) \/ Step(t)

Spec == Init /\ [][Next]_vars

(* A thread that is not blocked goes on: the scheduler runs it, the lock   *)
(* wakes it, and a closure ends.  The number of calls is finite, so a      *)
(* thread waits for finitely many others.                                  *)
FairSpec == Spec /\ \A t \in Threads : WF_vars(Step(t))

-----------------------------------------------------------------------------
(***************************************************************************)
(* Properties.                                                             *)
(***************************************************************************)

(* What with_path lends to a closure is the store's entry for as long as   *)
(* the closure runs, because the guard outlives the borrow: whatever other *)
(* threads remember, forget or clear, no closure works on a path that the  *)
(* store has replaced or given up.                                         *)
LentPathStays ==
  \A t \in Threads :
    pc[t] = "lent" =>
      /\ Holds(call[t].fsid, call[t].handle)
      /\ known[call[t].fsid][call[t].handle] = lent[t]

(* The two levels, the guards and the steps under them are one atomic map  *)
(* to everybody outside, `filesystems` counts the filesystems with an      *)
(* entry although it counts levels, and every call returns.                *)
ImplementsPathMemo == Memo!Spec
=============================================================================
