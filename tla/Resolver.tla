------------------------------ MODULE Resolver ------------------------------
(***************************************************************************)
(* Turning the handles of FID events into paths: the PathResolver of       *)
(* src/resolve.rs over a HandleCache that several threads share, and the   *)
(* walk over the registered mounts of src/handle.rs, while other processes *)
(* rename and delete what the handles stand for.                           *)
(*                                                                         *)
(* Each store operation is one step (it runs under the cache's lock), and  *)
(* each system call is one step; between two of them any other thread may  *)
(* run.  The memo a call teaches is the store the resolver reads.          *)
(*                                                                         *)
(* External: the filesystems, and what open_by_handle_at(2) and readlink   *)
(* of /proc/self/fd answer.  A filesystem is identified with its fsid.     *)
(***************************************************************************)
EXTENDS Integers, Sequences, FiniteSets

CONSTANTS
  Threads,     \* threads that resolve batches
  Filesystems, \* filesystems, each standing for its fsid
  Objects,     \* files and directories
  Dirs,        \* the ones that are directories
  Handles,     \* the bytes of a file handle
  Names,       \* names that are one path component
  BadNames,    \* names with a '/' or a NUL, and ".."
  Dot,         \* "." and the empty name
  Deleted,     \* the " (deleted)" marker of the kernel
  None,        \* an absent value
  Unknown,     \* the fsid of a mount whose probe failed
  FsOf,        \* the filesystem an object is on
  HandleOf,    \* the handle of an object, unique on its filesystem only
  Home,        \* where an object is at first
  Visible,     \* the objects the process can open by their path
  Mounts,      \* the registered descriptors, in order: filesystem, known fsid
  Batches,     \* the batches of events a caller resolves
  Ops,         \* the calls it makes
  Fallbacks,   \* the settings of PathResolver::syscall_fallback in use
  MaxChanges   \* bound: renames, deletions and evictions

(* A path starts with the filesystem's mount point; its other components   *)
(* are names, and what the kernel's marker adds counts as one.             *)
Path == Seq(Filesystems \cup Names \cup {Deleted})
Side == [handle : Handles, name : Names \cup BadNames \cup {Dot}]
FidEvent ==
  [fsid : Filesystems \cup {None}, dfid_name : Side \cup {None},
   rename_source : Side \cup {None}, self_handle : Handles \cup {None}]

(* Where an object is: its path, and the directories on the way. *)
Location == [path : Path, above : SUBSET Dirs]
IsOn(where, fs) ==
  /\ where.path # <<>>
  /\ where.path[1] = fs
  /\ \A dir \in where.above : FsOf[dir] = fs

ASSUME SentinelsAssumption ==
  /\ None \notin Filesystems \cup Handles \cup Path
  /\ Unknown \notin Filesystems
  /\ Dot \notin Names \cup BadNames
  /\ Names \cap BadNames = {}
  /\ Objects \cap Filesystems = {}
ASSUME ObjectsAssumption ==
  /\ Dirs \subseteq Objects
  /\ Visible \subseteq Objects
  /\ FsOf \in [Objects -> Filesystems]
  /\ HandleOf \in [Objects -> Handles]
  /\ Home \in [Objects -> Location]
  /\ \A o \in Objects : IsOn(Home[o], FsOf[o])
  /\ \A o, p \in Objects : FsOf[o] = FsOf[p] /\ HandleOf[o] = HandleOf[p] => o = p
ASSUME MountsAssumption ==
  /\ Mounts \in Seq([on : Filesystems, fsid : Filesystems \cup {Unknown}])
  /\ \A i \in DOMAIN Mounts : Mounts[i].fsid \in {Mounts[i].on, Unknown}
ASSUME CallsAssumption ==
  /\ Batches \subseteq Seq(FidEvent)
  /\ Ops \subseteq {"resolve_events", "resolve_event_memo", "resolve_events_memo"}
  /\ Fallbacks \subseteq BOOLEAN
  /\ MaxChanges \in Nat

Keys == Filesystems \X Handles

VARIABLES
  loc,        \* where each object is, or was last
  fate,       \* each object: "linked", "unlinked", or "evicted"
  changes,    \* how many changes there were
  store,      \* the HandleCache: the path under each fsid and handle, or None
  pc,         \* per thread: where it is
  op,         \* per thread: the call it makes
  fallback,   \* per thread: the syscall_fallback of the resolver it calls
  batch,      \* per thread: the events, as parsed
  paths,      \* per thread: the path of each event, or None
  at,         \* per thread: the event it is at
  attempt,    \* per thread: the shape of the event it tries
  mount,      \* per thread: the candidate it is at
  opened,     \* per thread: what open_by_handle_at opened, or None
  found,      \* per thread: the path an attempt found, or None
  pass,       \* per thread: the counts of this pass, as a Resolution
  best,       \* per thread: the Resolution of the last pass that did work
  report,     \* per thread: the Resolution it returned, or None
  landed,     \* history: how many events this call gave a path
  taught,     \* history: keys this call recorded and nobody forgot since
  forgotten,  \* history: keys forgotten since `found` was read
  late        \* history: keys that hold an answer older than their forget

filesystem == <<loc, fate, changes>>
walk == <<at, attempt, mount, opened, found>>
counts == <<pass, best, report, landed>>
vars == <<filesystem, store, pc, op, fallback, batch, paths, walk, counts, taught, forgotten, late>>

-----------------------------------------------------------------------------
(***************************************************************************)
(* Paths of objects and, of filesystems, the path of their mount point.    *)
(***************************************************************************)
PathOf(x) == IF x \in Filesystems THEN <<x>> ELSE loc[x].path

(* The directories above what is created in x. *)
Above(x) == IF x \in Filesystems THEN {} ELSE loc[x].above \cup {x}

(* What the link of a descriptor says: the path at that moment, marked if  *)
(* the object was unlinked.                                                *)
LinkText(o) == IF fate[o] = "linked" THEN PathOf(o) ELSE Append(PathOf(o), Deleted)

(* `PathBuf::push` of one component; "." and "" are the directory itself.  *)
Join(dir, name) == IF name = Dot THEN dir ELSE Append(dir, name)

(***************************************************************************)
(* Changes by other processes.                                             *)
(***************************************************************************)
Change ==
  /\ changes < MaxChanges
  /\ changes' = changes + 1
  /\ UNCHANGED <<store, pc, op, fallback, batch, paths, walk, counts, taught, forgotten, late>>

(* What is below a directory moves with it, unlinked objects too. *)
Moved(p, o, dir, name) ==
  LET to == Append(PathOf(dir), name)
  IN IF p = o THEN [path |-> to, above |-> Above(dir)]
     ELSE [path |-> to \o SubSeq(loc[p].path, Len(loc[o].path) + 1, Len(loc[p].path)),
           above |-> Above(dir) \cup (loc[p].above \ loc[o].above)]

Rename(o, dir, name) ==
  /\ fate[o] = "linked"
  /\ dir \in Dirs => fate[dir] = "linked" /\ FsOf[dir] = FsOf[o]
  /\ dir \in Filesystems => dir = FsOf[o]
  /\ o \notin Above(dir)
  /\ \A p \in Objects : fate[p] = "linked" => loc[p].path # Append(PathOf(dir), name)
  /\ loc' = [p \in Objects |->
               IF p = o \/ o \in loc[p].above THEN Moved(p, o, dir, name) ELSE loc[p]]
  /\ UNCHANGED fate
  /\ Change

Unlink(o) ==
  /\ fate[o] = "linked"
  /\ \A p \in Objects : fate[p] = "linked" => o \notin loc[p].above
  /\ fate' = [fate EXCEPT ![o] = "unlinked"]
  /\ UNCHANGED loc
  /\ Change

(* The inode goes once nothing holds it open; its handle is stale then. *)
Evict(o) ==
  /\ fate[o] = "unlinked"
  /\ \A t \in Threads : opened[t] # o
  /\ fate' = [fate EXCEPT ![o] = "evicted"]
  /\ UNCHANGED loc
  /\ Change

-----------------------------------------------------------------------------
(***************************************************************************)
(* Events.  An event carries a fsid, a DFID_NAME record, the source side   *)
(* of a rename and its own handle, each possibly absent.                   *)
(***************************************************************************)

(* The shapes of an event in the order they are tried, and what the memo   *)
(* form records when one answers: the object's own handle, never for a     *)
(* rename.  A name that is not one component is refused before anything is *)
(* looked up, which leaves the next shape.                                 *)
(* The definitions named Wrong_... are faulty variants of the definition   *)
(* they precede; nothing uses them but the mutation checks.                *)
Wrong_Shape_AnyName(handle, name, learns) ==
  <<[handle |-> handle, name |-> name, learns |-> learns]>>

Shape(handle, name, learns) ==
  IF name \in BadNames THEN <<>> ELSE <<[handle |-> handle, name |-> name, learns |-> learns]>>

Attempts(ev) ==
  (IF ev.dfid_name = None THEN <<>>
   ELSE Shape(ev.dfid_name.handle, ev.dfid_name.name, ev.self_handle)) \o
  (IF ev.rename_source = None THEN <<>>
   ELSE Shape(ev.rename_source.handle, ev.rename_source.name, None)) \o
  (IF ev.self_handle = None THEN <<>>
   ELSE Shape(ev.self_handle, Dot, ev.self_handle))

Event(t) == batch[t][at[t]]
Attempt(t) == Attempts(Event(t))[attempt[t]]
Key(t) == <<Event(t).fsid, Attempt(t).handle>>

Wrong_HasPath_Never(t) == FALSE
(* FidEvent::has_path *)
HasPath(t) == paths[t][at[t]] # None

Memo(t) == op[t] \in {"resolve_event_memo", "resolve_events_memo"}

Zero == [resolved |-> 0, already_resolved |-> 0, unresolved |-> 0, passes |-> 0]

Init ==
  /\ loc = Home
  /\ fate = [o \in Objects |-> "linked"]
  /\ changes = 0
  /\ store = [k \in Keys |-> None]
  /\ pc = [t \in Threads |-> "idle"]
  /\ op = [t \in Threads |-> "resolve_events"]
  /\ fallback = [t \in Threads |-> TRUE]
  /\ batch = [t \in Threads |-> <<>>]
  /\ paths = [t \in Threads |-> <<>>]
  /\ at = [t \in Threads |-> 1]
  /\ attempt = [t \in Threads |-> 1]
  /\ mount = [t \in Threads |-> 1]
  /\ opened = [t \in Threads |-> None]
  /\ found = [t \in Threads |-> None]
  /\ pass = [t \in Threads |-> Zero]
  /\ best = [t \in Threads |-> Zero]
  /\ report = [t \in Threads |-> None]
  /\ landed = [t \in Threads |-> 0]
  /\ taught = [t \in Threads |-> {}]
  /\ forgotten = [t \in Threads |-> {}]
  /\ late = {}

-----------------------------------------------------------------------------
(***************************************************************************)
(* A call: a fresh batch, or the batch of the last call once more.         *)
(***************************************************************************)
Begin(t, o, evs, fb) ==
  /\ pc[t] = "idle"
  /\ o = "resolve_event_memo" => Len(evs) = 1
  /\ pc' = [pc EXCEPT ![t] = "event"]
  /\ op' = [op EXCEPT ![t] = o]
  /\ fallback' = [fallback EXCEPT ![t] = fb]
  /\ batch' = [batch EXCEPT ![t] = evs]
  /\ \/ paths' = [paths EXCEPT ![t] = [i \in DOMAIN evs |-> None]]
     \/ evs = batch[t] /\ UNCHANGED paths
  /\ at' = [at EXCEPT ![t] = 1]
  /\ pass' = [pass EXCEPT ![t] = Zero]
  /\ best' = [best EXCEPT ![t] = Zero]
  /\ report' = [report EXCEPT ![t] = None]
  /\ landed' = [landed EXCEPT ![t] = 0]
  /\ taught' = [taught EXCEPT ![t] = {}]
  /\ UNCHANGED <<filesystem, store, attempt, mount, opened, found, forgotten, late>>

Counted(r, outcome) ==
  CASE outcome = "Resolved" -> [r EXCEPT !.resolved = @ + 1]
    [] outcome = "AlreadyResolved" -> [r EXCEPT !.already_resolved = @ + 1]
    [] OTHER -> [r EXCEPT !.unresolved = @ + 1]

(* The event is done with this pass: count it and take the next. *)
Settle(t, outcome) ==
  /\ pc' = [pc EXCEPT ![t] = "event"]
  /\ at' = [at EXCEPT ![t] = @ + 1]
  /\ attempt' = [attempt EXCEPT ![t] = 1]
  /\ mount' = [mount EXCEPT ![t] = 1]
  /\ found' = [found EXCEPT ![t] = None]
  /\ forgotten' = [forgotten EXCEPT ![t] = {}]
  /\ pass' = [pass EXCEPT ![t] = Counted(@, outcome)]
  /\ UNCHANGED <<filesystem, op, fallback, batch, opened, best, report>>

SkipEvent(t) ==
  /\ pc[t] = "event"
  /\ at[t] <= Len(batch[t])
  /\ \/ HasPath(t) /\ Settle(t, "AlreadyResolved")
     \/ ~HasPath(t) /\ Event(t).fsid = None /\ Settle(t, "NothingToResolve")
  /\ UNCHANGED <<store, paths, landed, taught, late>>

StartEvent(t) ==
  /\ pc[t] = "event"
  /\ at[t] <= Len(batch[t])
  /\ ~HasPath(t)
  /\ Event(t).fsid # None
  /\ pc' = [pc EXCEPT ![t] = "try"]
  /\ UNCHANGED <<filesystem, store, op, fallback, batch, paths, walk, counts, taught, forgotten, late>>

(* No shape is left. *)
GiveUp(t) ==
  /\ pc[t] = "try"
  /\ attempt[t] > Len(Attempts(Event(t)))
  /\ Settle(t, "Unresolvable")
  /\ UNCHANGED <<store, paths, landed, taught, late>>

(* An attempt found its path: the closure of with_path, or a readlink. *)
Find(t, dir) ==
  /\ pc' = [pc EXCEPT ![t] = "land"]
  /\ found' = [found EXCEPT ![t] = Join(dir, Attempt(t).name)]
  /\ forgotten' = [forgotten EXCEPT ![t] = {}]
  /\ opened' = [opened EXCEPT ![t] = None]

(* An attempt failed: the next shape. *)
Fail(t) ==
  /\ pc' = [pc EXCEPT ![t] = "try"]
  /\ attempt' = [attempt EXCEPT ![t] = @ + 1]
  /\ mount' = [mount EXCEPT ![t] = 1]

(* The store lookup of resolve_dir and resolve_handle. *)
Lookup(t) ==
  /\ pc[t] = "try"
  /\ attempt[t] <= Len(Attempts(Event(t)))
  /\ \/ /\ store[Key(t)] # None
        /\ Find(t, store[Key(t)])
        /\ UNCHANGED <<attempt, mount>>
     \/ /\ store[Key(t)] = None
        /\ fallback[t]
        /\ pc' = [pc EXCEPT ![t] = "mount"]
        /\ UNCHANGED <<attempt, mount, opened, found, forgotten>>
     \/ /\ store[Key(t)] = None
        /\ ~fallback[t]
        /\ Fail(t)
        /\ UNCHANGED <<opened, found, forgotten>>
  /\ UNCHANGED <<filesystem, store, op, fallback, batch, paths, at, counts, taught, late>>

Wrong_WantedFilesystem_Always(known, wanted) == TRUE

(* wanted_filesystem: a mount whose fsid is unknown matches every event.  *)
WantedFilesystem(known, wanted) == known = Unknown \/ known = wanted

(* What a handle's bytes stand for on a filesystem, while it has an inode. *)
Decodable(fs, handle) ==
  {o \in Objects : FsOf[o] = fs /\ HandleOf[o] = handle /\ fate[o] # "evicted"}

(* The loop of resolve_file_handle_in: skip a candidate of another         *)
(* filesystem, and one whose open fails (a stale handle, no capability, no *)
(* descriptor left).                                                       *)
PassCandidate(t) ==
  /\ pc[t] = "mount"
  /\ mount[t] <= Len(Mounts)
  /\ mount' = [mount EXCEPT ![t] = @ + 1]
  /\ UNCHANGED <<filesystem, store, pc, op, fallback, batch, paths, at, attempt, opened, found,
                 counts, taught, forgotten, late>>

OpenByHandle(t) ==
  /\ pc[t] = "mount"
  /\ mount[t] <= Len(Mounts)
  /\ WantedFilesystem(Mounts[mount[t]].fsid, Event(t).fsid)
  /\ \E o \in Decodable(Mounts[mount[t]].on, Attempt(t).handle) :
       opened' = [opened EXCEPT ![t] = o]
  /\ pc' = [pc EXCEPT ![t] = "link"]
  /\ UNCHANGED <<filesystem, store, op, fallback, batch, paths, at, attempt, mount, found, counts,
                 taught, forgotten, late>>

ReadLink(t) ==
  /\ pc[t] = "link"
  /\ Find(t, LinkText(opened[t]))
  /\ UNCHANGED <<filesystem, store, op, fallback, batch, paths, at, attempt, mount, counts,
                 taught, late>>

Wrong_ReadLinkFails_Retries(t) ==
  /\ pc[t] = "link"
  /\ pc' = [pc EXCEPT ![t] = "mount"]
  /\ opened' = [opened EXCEPT ![t] = None]
  /\ UNCHANGED <<filesystem, store, op, fallback, batch, paths, at, attempt, mount, found,
                 counts, taught, forgotten, late>>

ReadLinkFails(t) ==
  /\ pc[t] = "link"
  /\ pc' = [pc EXCEPT ![t] = "mount"]
  /\ mount' = [mount EXCEPT ![t] = @ + 1]
  /\ opened' = [opened EXCEPT ![t] = None]
  /\ UNCHANGED <<filesystem, store, op, fallback, batch, paths, at, attempt, found, counts,
                 taught, forgotten, late>>

NoCandidateLeft(t) ==
  /\ pc[t] = "mount"
  /\ mount[t] > Len(Mounts)
  /\ Fail(t)
  /\ UNCHANGED <<filesystem, store, op, fallback, batch, paths, at, opened, found, counts,
                 taught, forgotten, late>>

(* The answer lands on the event; the memo form first records it under the *)
(* object's own handle, replacing what is there.                           *)
Remember(t, key, path) ==
  /\ store' = [store EXCEPT ![key] = path]
  /\ taught' = [taught EXCEPT ![t] = @ \cup {key}]
  /\ late' = IF key \in forgotten[t] THEN late \cup {key} ELSE late \ {key}

Land(t) ==
  /\ pc[t] = "land"
  /\ paths' = [paths EXCEPT ![t][at[t]] = found[t]]
  /\ landed' = [landed EXCEPT ![t] = @ + 1]
  /\ \/ /\ Memo(t) /\ Attempt(t).learns # None
        /\ Remember(t, <<Event(t).fsid, Attempt(t).learns>>, found[t])
     \/ /\ ~(Memo(t) /\ Attempt(t).learns # None)
        /\ UNCHANGED <<store, taught, late>>
  /\ Settle(t, "Resolved")

Wrong_RunsAgain_AfterTwo(t, this) == op[t] = "resolve_events_memo" /\ this.resolved > 1
Wrong_Reported_LastPass(t, this) == this

(* The end of a pass: the looping form repeats after a pass that resolved  *)
(* something, and returns the account of the last one that did.            *)
RunsAgain(t, this) == op[t] = "resolve_events_memo" /\ this.resolved > 0

Reported(t, this) == IF this.passes = 1 THEN this ELSE best[t]

EndPass(t) ==
  LET this == [pass[t] EXCEPT !.passes = @ + 1]
  IN /\ pc[t] = "event"
     /\ at[t] > Len(batch[t])
     /\ \/ /\ RunsAgain(t, this)
           /\ best' = [best EXCEPT ![t] = this]
           /\ pass' = [pass EXCEPT ![t] = [Zero EXCEPT !.passes = this.passes]]
           /\ at' = [at EXCEPT ![t] = 1]
           /\ UNCHANGED <<pc, report>>
        \/ /\ ~RunsAgain(t, this)
           /\ report' = [report EXCEPT ![t] = Reported(t, this)]
           /\ pass' = [pass EXCEPT ![t] = this]
           /\ pc' = [pc EXCEPT ![t] = "idle"]
           /\ UNCHANGED <<at, best>>
     /\ UNCHANGED <<filesystem, store, op, fallback, batch, paths, attempt, mount, opened, found,
                    landed, taught, forgotten, late>>

-----------------------------------------------------------------------------
(***************************************************************************)
(* What a caller does to the cache itself, from any thread: it records an  *)
(* object it can see (handle_from_fd on a path it opened, then remember),  *)
(* or drops a handle, a filesystem, everything.                            *)
(***************************************************************************)
Teach(o) ==
  LET key == <<FsOf[o], HandleOf[o]>>
  IN /\ o \in Visible
     /\ fate[o] = "linked"
     /\ store' = [store EXCEPT ![key] = PathOf(o)]
     /\ late' = late \ {key}
     /\ UNCHANGED <<filesystem, pc, op, fallback, batch, paths, walk, counts, taught, forgotten>>

Drop(keys) ==
  /\ store' = [k \in Keys |-> IF k \in keys THEN None ELSE store[k]]
  /\ taught' = [t \in Threads |-> taught[t] \ keys]
  /\ forgotten' = [t \in Threads |-> IF found[t] = None THEN {} ELSE forgotten[t] \cup keys]
  /\ late' = late \ keys
  /\ UNCHANGED <<filesystem, pc, op, fallback, batch, paths, walk, counts>>

Forget(k) == Drop({k})
ForgetFilesystem(fs) == Drop({fs} \X Handles)
Clear == Drop(Keys)

-----------------------------------------------------------------------------
Work(t) ==
  \/ SkipEvent(t) \/ StartEvent(t) \/ GiveUp(t) \/ Lookup(t)
  \/ PassCandidate(t) \/ OpenByHandle(t) \/ ReadLink(t) \/ ReadLinkFails(t)
  \/ NoCandidateLeft(t) \/ Land(t) \/ EndPass(t)

Next ==
  \/ \E t \in Threads :
       Work(t) \/ \E o \in Ops, evs \in Batches, fb \in Fallbacks : Begin(t, o, evs, fb)
  \/ \E k \in Keys : Forget(k)
  \/ \E fs \in Filesystems : ForgetFilesystem(fs)
  \/ Clear
  \/ \E o \in Objects :
       \/ Teach(o)
       \/ Unlink(o)
       \/ Evict(o)
       \/ \E dir \in Dirs \cup Filesystems, name \in Names : Rename(o, dir, name)

Spec == Init /\ [][Next]_vars

(* A call that was begun keeps running; nothing is assumed of the others.  *)
FairSpec == Spec /\ \A t \in Threads : WF_vars(Work(t))

-----------------------------------------------------------------------------
(***************************************************************************)
(* Properties.                                                             *)
(***************************************************************************)
Resolution == [resolved : Nat, already_resolved : Nat, unresolved : Nat, passes : Nat]

(* The type invariant: in particular every path is made of single          *)
(* components, whatever names the events carry.                            *)
TypeOK ==
  /\ loc \in [Objects -> Location]
  /\ fate \in [Objects -> {"linked", "unlinked", "evicted"}]
  /\ changes \in 0..MaxChanges
  /\ store \in [Keys -> Path \cup {None}]
  /\ pc \in [Threads -> {"idle", "event", "try", "mount", "link", "land"}]
  /\ op \in [Threads -> Ops \cup {"resolve_events"}]
  /\ fallback \in [Threads -> BOOLEAN]
  /\ batch \in [Threads -> Seq(FidEvent)]
  /\ paths \in [Threads -> Seq(Path \cup {None})]
  /\ at \in [Threads -> Nat \ {0}]
  /\ attempt \in [Threads -> Nat \ {0}]
  /\ mount \in [Threads -> Nat \ {0}]
  /\ opened \in [Threads -> Objects \cup {None}]
  /\ found \in [Threads -> Path \cup {None}]
  /\ pass \in [Threads -> Resolution]
  /\ best \in [Threads -> Resolution]
  /\ report \in [Threads -> Resolution \cup {None}]
  /\ landed \in [Threads -> Nat]
  /\ taught \in [Threads -> SUBSET Keys]
  /\ forgotten \in [Threads -> SUBSET Keys]
  /\ late \in SUBSET Keys

(* A path never strays to another filesystem: what an event or the store   *)
(* holds under a fsid was read there, although the same handle bytes may   *)
(* open a different, existing file elsewhere.                              *)
PathsStayOnTheirFilesystem ==
  /\ \A k \in Keys : store[k] # None => store[k][1] = k[1]
  /\ \A t \in Threads : \A i \in DOMAIN batch[t] :
       paths[t][i] # None => paths[t][i][1] = batch[t][i].fsid

(* resolve_events_memo returns at a fixed point: no event it leaves        *)
(* without a path has a shape that something this call taught the store,   *)
(* and nobody forgot, would answer, whatever the order of the batch.       *)
FixedPoint ==
  \A t \in Threads :
    pc[t] = "idle" /\ op[t] = "resolve_events_memo" =>
      \A i \in DOMAIN batch[t] :
        paths[t][i] = None =>
          \A a \in DOMAIN Attempts(batch[t][i]) :
            <<batch[t][i].fsid, Attempts(batch[t][i])[a].handle>> \notin taught[t]

(* The loop makes at most one pass more than there are events. *)
PassBound ==
  \A t \in Threads : pass[t].passes <= Len(batch[t]) + 1

(* What a call reports is the state it leaves: `unresolved` is how many    *)
(* events have no path, every event is counted once, and `resolved` is     *)
(* zero exactly when the call changed no event's path.                     *)
ReportIsTheBatch ==
  \A t \in Threads :
    report[t] # None =>
      /\ report[t].unresolved = Cardinality({i \in DOMAIN batch[t] : paths[t][i] = None})
      /\ report[t].resolved + report[t].already_resolved + report[t].unresolved
           = Len(batch[t])
      /\ report[t].resolved = 0 <=> landed[t] = 0

(* A call returns, however the filesystem and the store change under it. *)
CallReturns == \A t \in Threads : pc[t] # "idle" ~> pc[t] = "idle"

(* PathMemo::forget: "Drop what is known about this handle, so the next    *)
(* lookup asks the filesystem again": the store holds no answer that was   *)
(* found before the last forget of its handle.                             *)
ForgetIsFinal == late = {}
=============================================================================
