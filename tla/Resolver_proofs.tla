-------------------------- MODULE Resolver_proofs ---------------------------
(***************************************************************************)
(* Proofs about Resolver, for any threads, filesystems, objects, handles,  *)
(* mounts and batches, and whatever other processes rename and delete: the *)
(* report of a call is the state it leaves, the looping form stops, at a   *)
(* fixed point, and paths stay on their filesystem.                        *)
(***************************************************************************)
EXTENDS Resolver, FiniteSetTheorems, TLAPS

(***************************************************************************)
(* The inductive invariants.                                               *)
(***************************************************************************)
(* What a call holds in the phases of an attempt. *)
ThreadInv(t) ==
  /\ DOMAIN paths[t] = DOMAIN batch[t]
  /\ pc[t] \in {"idle", "event"} => attempt[t] = 1
  /\ pc[t] # "idle" => at[t] <= Len(batch[t]) + 1
  /\ pc[t] \in {"try", "mount", "link", "land"} =>
       at[t] <= Len(batch[t]) /\ ~HasPath(t) /\ Event(t).fsid # None
  /\ pc[t] \in {"mount", "link", "land"} => attempt[t] \in DOMAIN Attempts(Event(t))
  /\ pc[t] = "link" => opened[t] \in Objects
  /\ pc[t] = "land" => found[t] \in Path

ResolverInv ==
  /\ TypeOK
  /\ \A o \in Objects : IsOn(loc[o], FsOf[o])
  /\ \A t \in Threads : ThreadInv(t)

(* The events without a path, of the ones before n. *)
Missing(t, n) == {i \in DOMAIN batch[t] : i < n /\ paths[t][i] = None}
AllMissing(t) == {i \in DOMAIN batch[t] : paths[t][i] = None}

(* A pass counts the n - 1 events it is past, m of them without a path; a  *)
(* path that landed is one event less without a path, and every pass       *)
(* before this one landed some; the last account is what the batch was     *)
(* when this pass began.                                                   *)
Accounts(o, this, last, n, len, land, m, all) ==
  /\ this.resolved + this.already_resolved + this.unresolved = n - 1
  /\ this.unresolved = m
  /\ this.passes + this.resolved <= land
  /\ land + all <= len
  /\ this.passes = 0 => land = this.resolved
  /\ this.passes # 0 =>
       /\ last.resolved # 0
       /\ last.resolved + last.already_resolved + last.unresolved = len
       /\ last.unresolved = all + this.resolved
       /\ o = "resolve_events_memo"

CountInv(t) ==
  /\ pc[t] # "idle" =>
       /\ report[t] = None
       /\ Accounts(op[t], pass[t], best[t], at[t], Len(batch[t]), landed[t],
                   Cardinality(Missing(t, at[t])), Cardinality(AllMissing(t)))
  /\ pc[t] = "idle" => pass[t].passes <= Len(batch[t]) + 1

ReportOf(t) ==
  report[t] # None =>
    /\ report[t].unresolved = Cardinality(AllMissing(t))
    /\ report[t].resolved + report[t].already_resolved + report[t].unresolved = Len(batch[t])
    /\ report[t].resolved = 0 <=> landed[t] = 0

ReportInv == \A t \in Threads : CountInv(t) /\ ReportOf(t)

(* What the call taught is in the store.  So a shape that was looked up in *)
(* vain is not among it, and a pass that has resolved nothing yet has      *)
(* taught nothing since: the shapes it is past stay untaught.              *)
TriedInVain(t, i, a) == <<batch[t][i].fsid, Attempts(batch[t][i])[a].handle>> \notin taught[t]
Untaught(t, i) == \A a \in DOMAIN Attempts(batch[t][i]) : TriedInVain(t, i, a)
UntaughtBefore(t, n) ==
  \A a \in DOMAIN Attempts(batch[t][at[t]]) : a < n => TriedInVain(t, at[t], a)

FixedInv(t) ==
  /\ \A k \in taught[t] : store[k] # None
  /\ op[t] = "resolve_events_memo" =>
       /\ pc[t] = "idle" =>
            \A i \in DOMAIN batch[t] : paths[t][i] = None => Untaught(t, i)
       /\ pc[t] # "idle" /\ pass[t].resolved = 0 =>
            /\ \A i \in DOMAIN batch[t] : i < at[t] /\ paths[t][i] = None => Untaught(t, i)
            /\ pc[t] = "try" => UntaughtBefore(t, attempt[t])
            /\ pc[t] \in {"mount", "link"} => UntaughtBefore(t, attempt[t] + 1)

(* What a path under a fsid starts with. *)
Starts(path, fs) == path # <<>> /\ path[1] = fs

ThreadStay(t) ==
  /\ \A i \in DOMAIN batch[t] : paths[t][i] # None => Starts(paths[t][i], batch[t][i].fsid)
  /\ pc[t] = "link" => FsOf[opened[t]] = Event(t).fsid
  /\ pc[t] = "land" => Starts(found[t], Event(t).fsid)

StayInv ==
  /\ \A k \in Keys : store[k] # None => Starts(store[k], k[1])
  /\ \A t \in Threads : ThreadStay(t)
-----------------------------------------------------------------------------
(***************************************************************************)
(* Lemmas: the shapes of an event, paths, and the kernel's answers.        *)
(***************************************************************************)
Try == [handle : Handles, name : Names \cup {Dot}, learns : Handles \cup {None}]

(* What is tried has a name of one component. *)
LEMMA AttemptsTyped ==
  ASSUME NEW ev \in FidEvent
  PROVE  Attempts(ev) \in Seq(Try)
<1>1. ASSUME NEW h \in Handles, NEW name \in Names \cup BadNames \cup {Dot},
             NEW learns \in Handles \cup {None}
      PROVE  Shape(h, name, learns) \in Seq(Try)
  <2>1. <<>> \in Seq(Try)
    OBVIOUS
  <2>2. CASE name \in BadNames
    BY <2>1, <2>2 DEF Shape
  <2>3. CASE name \notin BadNames
    <3>1. [handle |-> h, name |-> name, learns |-> learns] \in Try
      BY <2>3 DEF Try
    <3> QED BY <2>3, <3>1 DEF Shape
  <2> QED BY <2>2, <2>3
<1>2. /\ ev.dfid_name \in Side \cup {None} /\ ev.rename_source \in Side \cup {None}
      /\ ev.self_handle \in Handles \cup {None}
  BY DEF FidEvent
<1> DEFINE A == IF ev.dfid_name = None THEN <<>>
                ELSE Shape(ev.dfid_name.handle, ev.dfid_name.name, ev.self_handle)
           B == IF ev.rename_source = None THEN <<>>
                ELSE Shape(ev.rename_source.handle, ev.rename_source.name, None)
           C == IF ev.self_handle = None THEN <<>> ELSE Shape(ev.self_handle, Dot, ev.self_handle)
<1>3. <<>> \in Seq(Try)
  OBVIOUS
<1>4. A \in Seq(Try)
  BY <1>1, <1>2, <1>3 DEF Side
<1>5. B \in Seq(Try)
  BY <1>1, <1>2, <1>3 DEF Side
<1>6. C \in Seq(Try)
  BY <1>1, <1>2, <1>3
<1> HIDE DEF A, B, C
<1>7. (A \o B) \o C \in Seq(Try)
  BY <1>4, <1>5, <1>6
<1> QED BY <1>7 DEF Attempts, A, B, C

(* One component more. *)
LEMMA JoinTyped ==
  ASSUME NEW dir \in Path, NEW name \in Names \cup {Dot}
  PROVE  /\ Join(dir, name) \in Path
         /\ \A fs : Starts(dir, fs) => Starts(Join(dir, name), fs)
<1>1. CASE name = Dot
  BY <1>1 DEF Join
<1>2. CASE name # Dot
  <2>1. Join(dir, name) = Append(dir, name) /\ name \in Filesystems \cup Names \cup {Deleted}
    BY <1>2 DEF Join
  <2> QED BY <2>1 DEF Path, Starts
<1> QED BY <1>1, <1>2

(* The path of an object, and what the link of its descriptor says. *)
LEMMA LinkTyped ==
  ASSUME TypeOK, NEW o \in Objects, IsOn(loc[o], FsOf[o])
  PROVE  /\ PathOf(o) \in Path /\ Starts(PathOf(o), FsOf[o])
         /\ LinkText(o) \in Path /\ Starts(LinkText(o), FsOf[o])
<1>1. loc[o] \in Location /\ o \notin Filesystems
  BY SentinelsAssumption DEF TypeOK
<1>2. PathOf(o) = loc[o].path /\ PathOf(o) \in Path /\ Starts(PathOf(o), FsOf[o])
  BY <1>1 DEF PathOf, Location, IsOn, Starts
<1>3. Append(PathOf(o), Deleted) \in Path /\ Starts(Append(PathOf(o), Deleted), FsOf[o])
  BY <1>2 DEF Path, Starts
<1> QED BY <1>2, <1>3 DEF LinkText

(* A rename leaves every object on its filesystem. *)
LEMMA MovedTyped ==
  ASSUME TypeOK, \A q \in Objects : IsOn(loc[q], FsOf[q]),
         NEW o \in Objects, NEW dir \in Dirs \cup Filesystems, NEW name \in Names,
         dir \in Dirs => FsOf[dir] = FsOf[o], dir \in Filesystems => dir = FsOf[o],
         NEW p \in Objects, p = o \/ o \in loc[p].above
  PROVE  Moved(p, o, dir, name) \in Location /\ IsOn(Moved(p, o, dir, name), FsOf[p])
<1> DEFINE to == Append(PathOf(dir), name)
           rest == SubSeq(loc[p].path, Len(loc[o].path) + 1, Len(loc[p].path))
<1>1. /\ loc[p] \in Location /\ loc[o] \in Location
      /\ loc[p].path \in Path /\ loc[p].above \subseteq Dirs /\ loc[o].path \in Path
  BY DEF TypeOK, Location
<1>2. FsOf[p] = FsOf[o]
  BY DEF IsOn
<1>3. /\ PathOf(dir) \in Path /\ Starts(PathOf(dir), FsOf[o]) /\ Above(dir) \subseteq Dirs
      /\ \A q \in Above(dir) : FsOf[q] = FsOf[o]
  <2>1. CASE dir \in Filesystems
    BY <2>1 DEF PathOf, Above, Path, Starts
  <2>2. CASE dir \notin Filesystems
    <3>1. dir \in Objects /\ dir \in Dirs /\ IsOn(loc[dir], FsOf[o]) /\ loc[dir] \in Location
      BY <2>2, ObjectsAssumption DEF TypeOK
    <3> QED BY <2>2, <3>1 DEF PathOf, Above, IsOn, Location, Starts
  <2> QED BY <2>1, <2>2
<1>4. to \in Path /\ Starts(to, FsOf[o])
  BY <1>3 DEF Path, Starts
<1>5. CASE p = o
  <2>1. Moved(p, o, dir, name) = [path |-> to, above |-> Above(dir)]
    BY <1>5 DEF Moved
  <2> HIDE DEF to
  <2> QED BY <1>2, <1>3, <1>4, <2>1 DEF Location, IsOn, Starts
<1>6. CASE p # o
  <2>1. Moved(p, o, dir, name) =
          [path |-> to \o rest, above |-> Above(dir) \cup (loc[p].above \ loc[o].above)]
    BY <1>6 DEF Moved
  <2> HIDE DEF to
  <2>2. rest \in Path
    BY <1>1 DEF Path
  <2> HIDE DEF rest
  <2>3. to \o rest \in Path /\ Starts(to \o rest, FsOf[o])
    BY <1>4, <2>2 DEF Path, Starts
  <2>4. /\ Above(dir) \cup (loc[p].above \ loc[o].above) \subseteq Dirs
        /\ \A q \in Above(dir) \cup (loc[p].above \ loc[o].above) : FsOf[q] = FsOf[o]
    BY <1>1, <1>2, <1>3 DEF IsOn
  <2> QED BY <1>2, <2>1, <2>3, <2>4 DEF Location, IsOn, Starts
<1> QED BY <1>5, <1>6

(* Counting one event. *)
LEMMA Counts ==
  ASSUME NEW r \in Resolution
  PROVE  /\ r.resolved \in Nat /\ r.already_resolved \in Nat /\ r.unresolved \in Nat /\ r.passes \in Nat
         /\ [r EXCEPT !.resolved = r.resolved + 1] \in Resolution
         /\ [r EXCEPT !.already_resolved = r.already_resolved + 1] \in Resolution
         /\ [r EXCEPT !.unresolved = r.unresolved + 1] \in Resolution
         /\ [r EXCEPT !.passes = r.passes + 1] \in Resolution
BY DEF Resolution

LEMMA ZeroTyped ==
  /\ Zero \in Resolution
  /\ Zero.resolved = 0 /\ Zero.already_resolved = 0 /\ Zero.unresolved = 0 /\ Zero.passes = 0
BY DEF Zero, Resolution

-----------------------------------------------------------------------------
(***************************************************************************)
(* Lemmas: what a step of one thread leaves to the others.                 *)
(***************************************************************************)
OthersStay(t) ==
  \A u \in Threads \ {t} :
    /\ pc'[u] = pc[u] /\ op'[u] = op[u] /\ batch'[u] = batch[u] /\ paths'[u] = paths[u]
    /\ at'[u] = at[u] /\ attempt'[u] = attempt[u] /\ opened'[u] = opened[u] /\ found'[u] = found[u]
    /\ pass'[u] = pass[u] /\ best'[u] = best[u] /\ report'[u] = report[u] /\ landed'[u] = landed[u]
    /\ taught'[u] = taught[u]

LEMMA ThreadStays ==
  ASSUME NEW u \in Threads, ThreadInv(u),
         pc'[u] = pc[u], batch'[u] = batch[u], paths'[u] = paths[u], at'[u] = at[u],
         attempt'[u] = attempt[u], opened'[u] = opened[u], found'[u] = found[u]
  PROVE  ThreadInv(u)'
BY DEF ThreadInv, HasPath, Event

LEMMA ThreadSteps ==
  ASSUME ResolverInv, NEW t \in Threads, TypeOK', loc' = loc, OthersStay(t), ThreadInv(t)'
  PROVE  ResolverInv'
<1>1. \A u \in Threads : u # t => ThreadInv(u)'
  BY ThreadStays DEF ResolverInv, OthersStay
<1> QED BY <1>1 DEF ResolverInv

(* A step of no call. *)
LEMMA WorldSteps ==
  ASSUME ResolverInv, TypeOK', \A o \in Objects : IsOn(loc'[o], FsOf[o]),
         UNCHANGED <<pc, op, batch, paths, walk, counts>>
  PROVE  ResolverInv'
<1>1. \A u \in Threads : ThreadInv(u)'
  BY ThreadStays DEF ResolverInv, walk
<1> QED BY <1>1 DEF ResolverInv

(* The event a thread is at, its shapes and the one it tries. *)
LEMMA EventTyped ==
  ASSUME ResolverInv, NEW t \in Threads, pc[t] # "idle", at[t] <= Len(batch[t])
  PROVE  /\ at[t] \in DOMAIN batch[t] /\ at[t] \in DOMAIN paths[t] /\ Event(t) \in FidEvent
         /\ Event(t) = batch[t][at[t]]
         /\ Attempts(Event(t)) \in Seq(Try)
         /\ attempt[t] \in DOMAIN Attempts(Event(t)) => Attempt(t) \in Try
<1>1. batch[t] \in Seq(FidEvent) /\ at[t] \in Nat \ {0} /\ DOMAIN paths[t] = DOMAIN batch[t]
  BY DEF ResolverInv, TypeOK, ThreadInv
<1>2. at[t] \in DOMAIN batch[t] /\ at[t] \in DOMAIN paths[t]
  BY <1>1
<1>3. Event(t) \in FidEvent
  BY <1>1, <1>2 DEF Event
<1>4. Attempts(Event(t)) \in Seq(Try)
  BY <1>3, AttemptsTyped
<1>5. ASSUME attempt[t] \in DOMAIN Attempts(Event(t))
      PROVE  Attempt(t) \in Try
  BY <1>4, <1>5 DEF Attempt
<1> QED BY <1>2, <1>3, <1>4, <1>5 DEF Event

Outcomes == {"Resolved", "AlreadyResolved", "NothingToResolve", "Unresolvable"}

LEMMA SettleDoes ==
  ASSUME TypeOK, NEW t \in Threads, NEW outcome \in Outcomes, Settle(t, outcome)
  PROVE  /\ pc' \in [Threads -> {"idle", "event", "try", "mount", "link", "land"}]
         /\ at' \in [Threads -> Nat \ {0}] /\ attempt' \in [Threads -> Nat \ {0}]
         /\ mount' \in [Threads -> Nat \ {0}] /\ found' \in [Threads -> Path \cup {None}]
         /\ forgotten' \in [Threads -> SUBSET Keys] /\ pass' \in [Threads -> Resolution]
         /\ pc'[t] = "event" /\ at'[t] = at[t] + 1 /\ attempt'[t] = 1
         /\ pass'[t].passes = pass[t].passes
         /\ pass'[t].resolved = pass[t].resolved + (IF outcome = "Resolved" THEN 1 ELSE 0)
         /\ pass'[t].already_resolved =
              pass[t].already_resolved + (IF outcome = "AlreadyResolved" THEN 1 ELSE 0)
         /\ pass'[t].unresolved =
              pass[t].unresolved + (IF outcome \in {"NothingToResolve", "Unresolvable"} THEN 1 ELSE 0)
         /\ \A u \in Threads : u # t =>
              /\ pc'[u] = pc[u] /\ at'[u] = at[u] /\ attempt'[u] = attempt[u]
              /\ found'[u] = found[u] /\ pass'[u] = pass[u]
         /\ UNCHANGED <<filesystem, op, fallback, batch, opened, best, report>>
<1> DEFINE r == pass[t]
           new == Counted(r, outcome)
<1>1. /\ pc' = [pc EXCEPT ![t] = "event"] /\ at' = [at EXCEPT ![t] = at[t] + 1]
      /\ attempt' = [attempt EXCEPT ![t] = 1] /\ mount' = [mount EXCEPT ![t] = 1]
      /\ found' = [found EXCEPT ![t] = None] /\ forgotten' = [forgotten EXCEPT ![t] = {}]
      /\ pass' = [pass EXCEPT ![t] = new]
      /\ UNCHANGED <<filesystem, op, fallback, batch, opened, best, report>>
  BY DEF Settle
<1>2. r \in Resolution
  BY DEF TypeOK
<1> HIDE DEF r
<1>3. /\ new \in Resolution /\ new.passes = r.passes
      /\ new.resolved = r.resolved + (IF outcome = "Resolved" THEN 1 ELSE 0)
      /\ new.already_resolved = r.already_resolved + (IF outcome = "AlreadyResolved" THEN 1 ELSE 0)
      /\ new.unresolved = r.unresolved + (IF outcome \in {"NothingToResolve", "Unresolvable"} THEN 1 ELSE 0)
  <2>1. CASE outcome = "Resolved"
    BY <1>2, <2>1, Counts DEF Resolution, Counted
  <2>2. CASE outcome = "AlreadyResolved"
    BY <1>2, <2>2, Counts DEF Resolution, Counted
  <2>3. CASE outcome \in {"NothingToResolve", "Unresolvable"}
    BY <1>2, <2>3, Counts DEF Resolution, Counted
  <2> QED BY <2>1, <2>2, <2>3 DEF Outcomes
<1> HIDE DEF new
<1>4. pass' \in [Threads -> Resolution] /\ pass'[t] = new /\ \A u \in Threads : u # t => pass'[u] = pass[u]
  BY <1>1, <1>3 DEF TypeOK
<1>5. /\ pc' \in [Threads -> {"idle", "event", "try", "mount", "link", "land"}]
      /\ at' \in [Threads -> Nat \ {0}] /\ attempt' \in [Threads -> Nat \ {0}]
      /\ mount' \in [Threads -> Nat \ {0}] /\ found' \in [Threads -> Path \cup {None}]
      /\ forgotten' \in [Threads -> SUBSET Keys]
  BY <1>1 DEF TypeOK
<1>6. pc'[t] = "event" /\ at'[t] = at[t] + 1 /\ attempt'[t] = 1
  BY <1>1 DEF TypeOK
<1>7. \A u \in Threads : u # t =>
        /\ pc'[u] = pc[u] /\ at'[u] = at[u] /\ attempt'[u] = attempt[u] /\ found'[u] = found[u]
  BY <1>1 DEF TypeOK
<1> QED BY <1>1, <1>3, <1>4, <1>5, <1>6, <1>7 DEF r

-----------------------------------------------------------------------------
(***************************************************************************)
(* The steps keep ResolverInv.                                             *)
(***************************************************************************)
LEMMA ResolverInit == Init => ResolverInv
<1> SUFFICES ASSUME Init PROVE ResolverInv
  OBVIOUS
<1>1. <<>> \in Seq(FidEvent) /\ <<>> \in Seq(Path \cup {None})
  OBVIOUS
<1>2. TypeOK
  BY <1>1, ObjectsAssumption, CallsAssumption, ZeroTyped DEF Init, TypeOK
<1>3. \A t \in Threads : ThreadInv(t)
  BY DEF Init, ThreadInv
<1>4. \A o \in Objects : IsOn(loc[o], FsOf[o])
  BY ObjectsAssumption DEF Init
<1> QED BY <1>2, <1>3, <1>4 DEF ResolverInv

(* A fresh batch has no paths yet. *)
LEMMA FreshPaths ==
  ASSUME NEW evs \in Seq(FidEvent)
  PROVE  LET fresh == [i \in DOMAIN evs |-> None]
         IN fresh \in Seq(Path \cup {None}) /\ DOMAIN fresh = DOMAIN evs /\ \A i \in DOMAIN evs : fresh[i] = None
OBVIOUS

(* A call begins. *)
LEMMA BeginDoes ==
  ASSUME ResolverInv, NEW t \in Threads, NEW o \in Ops, NEW evs \in Batches, NEW fb \in Fallbacks,
         Begin(t, o, evs, fb)
  PROVE  /\ TypeOK' /\ loc' = loc /\ OthersStay(t) /\ ThreadInv(t)'
         /\ pc[t] = "idle" /\ pc'[t] = "event" /\ batch'[t] = evs /\ at'[t] = 1
         /\ pass'[t] = Zero /\ report'[t] = None /\ landed'[t] = 0 /\ taught'[t] = {} /\ store' = store
         /\ \/ \A i \in DOMAIN evs : paths'[t][i] = None
            \/ evs = batch[t] /\ paths'[t] = paths[t]
<1> DEFINE fresh == [i \in DOMAIN evs |-> None]
<1>1. /\ pc[t] = "idle" /\ pc' = [pc EXCEPT ![t] = "event"] /\ op' = [op EXCEPT ![t] = o]
      /\ fallback' = [fallback EXCEPT ![t] = fb] /\ batch' = [batch EXCEPT ![t] = evs]
      /\ \/ paths' = [paths EXCEPT ![t] = fresh]
         \/ evs = batch[t] /\ UNCHANGED paths
      /\ at' = [at EXCEPT ![t] = 1] /\ pass' = [pass EXCEPT ![t] = Zero]
      /\ best' = [best EXCEPT ![t] = Zero] /\ report' = [report EXCEPT ![t] = None]
      /\ landed' = [landed EXCEPT ![t] = 0] /\ taught' = [taught EXCEPT ![t] = {}]
      /\ UNCHANGED <<filesystem, store, attempt, mount, opened, found, forgotten, late>>
  BY DEF Begin
<1>2. evs \in Seq(FidEvent) /\ fb \in BOOLEAN
  BY CallsAssumption
<1>3. fresh \in Seq(Path \cup {None}) /\ DOMAIN fresh = DOMAIN evs /\ \A i \in DOMAIN evs : fresh[i] = None
  BY <1>2, FreshPaths
<1> HIDE DEF fresh
<1>4. /\ paths' \in [Threads -> Seq(Path \cup {None})]
      /\ (paths'[t] = fresh) \/ (evs = batch[t] /\ paths'[t] = paths[t])
      /\ \A u \in Threads : u # t => paths'[u] = paths[u]
  <2>1. paths \in [Threads -> Seq(Path \cup {None})]
    BY DEF ResolverInv, TypeOK
  <2>2. CASE paths' = [paths EXCEPT ![t] = fresh]
    <3>1. paths'[t] = fresh /\ \A u \in Threads : u # t => paths'[u] = paths[u]
      BY <2>1, <2>2
    <3>2. paths' \in [Threads -> Seq(Path \cup {None})]
      BY <1>3, <2>1, <2>2
    <3> QED BY <3>1, <3>2
  <2>3. CASE evs = batch[t] /\ paths' = paths
    BY <2>1, <2>3
  <2> QED BY <1>1, <2>2, <2>3
<1>5. /\ pc' \in [Threads -> {"idle", "event", "try", "mount", "link", "land"}]
      /\ op' \in [Threads -> Ops \cup {"resolve_events"}] /\ fallback' \in [Threads -> BOOLEAN]
      /\ batch' \in [Threads -> Seq(FidEvent)] /\ at' \in [Threads -> Nat \ {0}]
      /\ pass' \in [Threads -> Resolution] /\ best' \in [Threads -> Resolution]
      /\ report' \in [Threads -> Resolution \cup {None}] /\ landed' \in [Threads -> Nat]
      /\ taught' \in [Threads -> SUBSET Keys]
  <2>1. /\ pc' \in [Threads -> {"idle", "event", "try", "mount", "link", "land"}]
        /\ op' \in [Threads -> Ops \cup {"resolve_events"}] /\ fallback' \in [Threads -> BOOLEAN]
        /\ at' \in [Threads -> Nat \ {0}] /\ landed' \in [Threads -> Nat]
        /\ taught' \in [Threads -> SUBSET Keys]
    BY <1>1, <1>2 DEF ResolverInv, TypeOK
  <2>2. /\ pass' \in [Threads -> Resolution] /\ best' \in [Threads -> Resolution]
        /\ report' \in [Threads -> Resolution \cup {None}]
    BY <1>1, ZeroTyped DEF ResolverInv, TypeOK
  <2>3. batch' \in [Threads -> Seq(FidEvent)]
    BY <1>1, <1>2 DEF ResolverInv, TypeOK
  <2> QED BY <2>1, <2>2, <2>3
<1>6. TypeOK'
  BY <1>1, <1>4, <1>5 DEF ResolverInv, TypeOK, filesystem
<1>7. OthersStay(t)
  BY <1>1, <1>4 DEF OthersStay, ResolverInv, TypeOK
<1>8. /\ pc'[t] = "event" /\ batch'[t] = evs /\ at'[t] = 1 /\ pass'[t] = Zero /\ report'[t] = None
      /\ landed'[t] = 0 /\ taught'[t] = {} /\ attempt'[t] = attempt[t]
  BY <1>1 DEF ResolverInv, TypeOK
<1>9. ThreadInv(t)'
  <2>1. DOMAIN paths'[t] = DOMAIN batch'[t]
    BY <1>3, <1>4, <1>8 DEF ResolverInv, ThreadInv
  <2>2. Len(evs) \in Nat /\ 1 <= Len(evs) + 1
    BY <1>2
  <2> QED BY <1>1, <1>8, <2>1, <2>2 DEF ResolverInv, ThreadInv
<1> QED BY <1>1, <1>3, <1>4, <1>6, <1>7, <1>8, <1>9 DEF filesystem

(* An event is settled, and its path did not change. *)
LEMMA UnlandedDoes ==
  ASSUME ResolverInv, NEW t \in Threads, NEW outcome \in Outcomes, Settle(t, outcome),
         pc[t] # "idle", at[t] <= Len(batch[t]), UNCHANGED <<store, paths, landed, taught, late>>
  PROVE  TypeOK' /\ loc' = loc /\ OthersStay(t) /\ ThreadInv(t)'
<1>1. /\ pc' \in [Threads -> {"idle", "event", "try", "mount", "link", "land"}]
      /\ at' \in [Threads -> Nat \ {0}] /\ attempt' \in [Threads -> Nat \ {0}]
      /\ mount' \in [Threads -> Nat \ {0}] /\ found' \in [Threads -> Path \cup {None}]
      /\ forgotten' \in [Threads -> SUBSET Keys] /\ pass' \in [Threads -> Resolution]
      /\ pc'[t] = "event" /\ at'[t] = at[t] + 1 /\ attempt'[t] = 1
      /\ \A u \in Threads : u # t =>
              /\ pc'[u] = pc[u] /\ at'[u] = at[u] /\ attempt'[u] = attempt[u]
              /\ found'[u] = found[u] /\ pass'[u] = pass[u]
      /\ UNCHANGED <<filesystem, op, fallback, batch, opened, best, report>>
  BY SettleDoes DEF ResolverInv
<1>2. TypeOK'
  BY <1>1 DEF ResolverInv, TypeOK, filesystem
<1>3. OthersStay(t)
  BY <1>1 DEF OthersStay
<1>4. ThreadInv(t)'
  <2>1. batch[t] \in Seq(FidEvent) /\ at[t] \in Nat
    BY DEF ResolverInv, TypeOK
  <2>2. at[t] + 1 <= Len(batch[t]) + 1
    BY <2>1
  <2> QED BY <1>1, <2>2 DEF ResolverInv, ThreadInv
<1> QED BY <1>1, <1>2, <1>3, <1>4 DEF filesystem

LEMMA GiveUpTyped ==
  ASSUME ResolverInv, NEW t \in Threads, SkipEvent(t) \/ GiveUp(t)
  PROVE  TypeOK' /\ loc' = loc /\ OthersStay(t) /\ ThreadInv(t)'
<1>1. /\ pc[t] # "idle" /\ at[t] <= Len(batch[t]) /\ UNCHANGED <<store, paths, landed, taught, late>>
      /\ \E outcome \in Outcomes : Settle(t, outcome)
  BY DEF SkipEvent, GiveUp, Outcomes, ResolverInv, ThreadInv
<1> QED BY <1>1, UnlandedDoes

LEMMA StartTyped ==
  ASSUME ResolverInv, NEW t \in Threads, StartEvent(t)
  PROVE  TypeOK' /\ loc' = loc /\ OthersStay(t) /\ ThreadInv(t)'
<1>1. /\ pc[t] = "event" /\ at[t] <= Len(batch[t]) /\ ~HasPath(t) /\ Event(t).fsid # None
      /\ pc' = [pc EXCEPT ![t] = "try"]
      /\ UNCHANGED <<filesystem, store, op, fallback, batch, paths, walk, counts, taught, forgotten, late>>
  BY DEF StartEvent
<1>2. TypeOK' /\ OthersStay(t) /\ pc'[t] = "try"
  BY <1>1 DEF ResolverInv, TypeOK, OthersStay, filesystem, walk, counts
<1>3. ThreadInv(t)'
  BY <1>1, <1>2 DEF ResolverInv, ThreadInv, walk, HasPath, Event
<1> QED BY <1>1, <1>2, <1>3 DEF filesystem

(* The answer of a lookup or of a link is found. *)
LEMMA FindTyped ==
  ASSUME ResolverInv, NEW t \in Threads, NEW dir \in Path, Find(t, dir),
         pc[t] \in {"try", "link"}, attempt[t] \in DOMAIN Attempts(Event(t)),
         UNCHANGED <<filesystem, store, op, fallback, batch, paths, at, attempt, mount, counts, taught, late>>
  PROVE  /\ TypeOK' /\ loc' = loc /\ OthersStay(t) /\ ThreadInv(t)'
         /\ pc'[t] = "land" /\ found'[t] = Join(dir, Attempt(t).name) /\ found'[t] \in Path
<1>1. /\ pc' = [pc EXCEPT ![t] = "land"]
      /\ found' = [found EXCEPT ![t] = Join(dir, Attempt(t).name)]
      /\ forgotten' = [forgotten EXCEPT ![t] = {}]
      /\ opened' = [opened EXCEPT ![t] = None]
  BY DEF Find
<1>2. at[t] <= Len(batch[t]) /\ ~HasPath(t) /\ Event(t).fsid # None
  BY DEF ResolverInv, ThreadInv
<1>3. Attempt(t) \in Try
  BY <1>2, EventTyped
<1>4. Join(dir, Attempt(t).name) \in Path
  BY <1>3, JoinTyped DEF Try
<1>5. /\ pc' \in [Threads -> {"idle", "event", "try", "mount", "link", "land"}]
      /\ found' \in [Threads -> Path \cup {None}]
      /\ forgotten' \in [Threads -> SUBSET Keys] /\ opened' \in [Threads -> Objects \cup {None}]
      /\ pc'[t] = "land" /\ found'[t] = Join(dir, Attempt(t).name)
  BY <1>1, <1>4 DEF ResolverInv, TypeOK
<1>6. TypeOK'
  BY <1>5 DEF ResolverInv, TypeOK, filesystem, counts
<1>7. OthersStay(t)
  BY <1>1 DEF OthersStay, ResolverInv, TypeOK, counts
<1>8. ThreadInv(t)'
  <2>1. Event(t)' = Event(t) /\ HasPath(t)' = HasPath(t) /\ batch' = batch /\ at' = at /\ paths' = paths
    BY DEF Event, HasPath
  <2>2. attempt'[t] \in DOMAIN Attempts(Event(t))'
    BY <2>1
  <2> QED BY <1>2, <1>4, <1>5, <2>1, <2>2 DEF ResolverInv, ThreadInv
<1> QED BY <1>4, <1>5, <1>6, <1>7, <1>8 DEF filesystem

(* The next shape. *)
LEMMA FailTyped ==
  ASSUME ResolverInv, NEW t \in Threads, Fail(t), pc[t] \in {"try", "mount"},
         UNCHANGED <<filesystem, store, op, fallback, batch, paths, at, opened, found, counts, taught,
                     forgotten, late>>
  PROVE  /\ TypeOK' /\ loc' = loc /\ OthersStay(t) /\ ThreadInv(t)'
         /\ pc'[t] = "try" /\ attempt'[t] = attempt[t] + 1
<1>1. /\ pc' = [pc EXCEPT ![t] = "try"] /\ attempt' = [attempt EXCEPT ![t] = attempt[t] + 1]
      /\ mount' = [mount EXCEPT ![t] = 1]
  BY DEF Fail
<1>2. /\ pc' \in [Threads -> {"idle", "event", "try", "mount", "link", "land"}]
      /\ attempt' \in [Threads -> Nat \ {0}] /\ mount' \in [Threads -> Nat \ {0}]
      /\ pc'[t] = "try" /\ attempt'[t] = attempt[t] + 1
  BY <1>1 DEF ResolverInv, TypeOK
<1>3. TypeOK'
  BY <1>2 DEF ResolverInv, TypeOK, filesystem, counts
<1>4. OthersStay(t)
  BY <1>1 DEF OthersStay, ResolverInv, TypeOK, counts
<1>5. ThreadInv(t)'
  BY <1>2 DEF ResolverInv, ThreadInv, HasPath, Event
<1> QED BY <1>2, <1>3, <1>4, <1>5 DEF filesystem

(* The walk over the mounts: its cursor, and what it has open. *)
LEMMA MountTyped ==
  ASSUME ResolverInv, NEW t \in Threads, pc[t] \in {"try", "mount", "link"},
         attempt[t] \in DOMAIN Attempts(Event(t)),
         pc' \in [Threads -> {"idle", "event", "try", "mount", "link", "land"}],
         mount' \in [Threads -> Nat \ {0}], opened' \in [Threads -> Objects \cup {None}],
         pc'[t] \in {"mount", "link"}, pc'[t] = "link" => opened'[t] \in Objects,
         \A u \in Threads : u # t => pc'[u] = pc[u] /\ opened'[u] = opened[u],
         UNCHANGED <<filesystem, store, op, fallback, batch, paths, at, attempt, found, counts, taught,
                     forgotten, late>>
  PROVE  TypeOK' /\ loc' = loc /\ OthersStay(t) /\ ThreadInv(t)'
<1>1. TypeOK'
  BY DEF ResolverInv, TypeOK, filesystem, counts
<1>2. OthersStay(t)
  BY DEF OthersStay, counts
<1>3. ThreadInv(t)'
  BY DEF ResolverInv, ThreadInv, HasPath, Event
<1> QED BY <1>1, <1>2, <1>3 DEF filesystem

LEMMA LookupTyped ==
  ASSUME ResolverInv, NEW t \in Threads, Lookup(t)
  PROVE  TypeOK' /\ loc' = loc /\ OthersStay(t) /\ ThreadInv(t)'
<1>1. /\ pc[t] = "try" /\ attempt[t] <= Len(Attempts(Event(t)))
      /\ UNCHANGED <<filesystem, store, op, fallback, batch, paths, at, counts, taught, late>>
  BY DEF Lookup
<1>2. /\ Attempts(Event(t)) \in Seq(Try) /\ at[t] <= Len(batch[t]) /\ Event(t).fsid # None
      /\ Event(t) \in FidEvent
  BY <1>1, EventTyped DEF ResolverInv, ThreadInv
<1>3. attempt[t] \in DOMAIN Attempts(Event(t))
  BY <1>1, <1>2 DEF ResolverInv, TypeOK
<1>4. Key(t) \in Keys
  <2>1. Attempt(t) \in Try
    BY <1>1, <1>2, <1>3, EventTyped
  <2> QED BY <1>2, <2>1 DEF Key, Keys, Try, FidEvent
<1>5. CASE store[Key(t)] # None /\ Find(t, store[Key(t)]) /\ UNCHANGED <<attempt, mount>>
  <2>1. store[Key(t)] \in Path
    BY <1>4, <1>5 DEF ResolverInv, TypeOK
  <2> QED BY <1>1, <1>3, <1>5, <2>1, FindTyped
<1>6. CASE pc' = [pc EXCEPT ![t] = "mount"] /\ UNCHANGED <<attempt, mount, opened, found, forgotten>>
  <2>1. /\ pc' \in [Threads -> {"idle", "event", "try", "mount", "link", "land"}]
        /\ pc'[t] = "mount" /\ \A u \in Threads : u # t => pc'[u] = pc[u]
    BY <1>6 DEF ResolverInv, TypeOK
  <2>2. mount' \in [Threads -> Nat \ {0}] /\ opened' \in [Threads -> Objects \cup {None}]
    BY <1>6 DEF ResolverInv, TypeOK
  <2> QED BY <1>1, <1>3, <1>6, <2>1, <2>2, MountTyped
<1>7. CASE Fail(t) /\ UNCHANGED <<opened, found, forgotten>>
  BY <1>1, <1>7, FailTyped
<1> QED BY <1>5, <1>6, <1>7 DEF Lookup

LEMMA WalkTyped ==
  ASSUME ResolverInv, NEW t \in Threads, PassCandidate(t) \/ OpenByHandle(t) \/ ReadLinkFails(t)
  PROVE  TypeOK' /\ loc' = loc /\ OthersStay(t) /\ ThreadInv(t)'
<1>1. /\ pc[t] \in {"mount", "link"}
      /\ UNCHANGED <<filesystem, store, op, fallback, batch, paths, at, attempt, found, counts, taught,
                     forgotten, late>>
  BY DEF PassCandidate, OpenByHandle, ReadLinkFails
<1>2. attempt[t] \in DOMAIN Attempts(Event(t))
  BY <1>1 DEF ResolverInv, ThreadInv
<1>3. CASE PassCandidate(t)
  <2>1. pc[t] = "mount" /\ mount' = [mount EXCEPT ![t] = mount[t] + 1] /\ UNCHANGED <<pc, opened>>
    BY <1>3 DEF PassCandidate
  <2>2. /\ pc' \in [Threads -> {"idle", "event", "try", "mount", "link", "land"}]
        /\ mount' \in [Threads -> Nat \ {0}] /\ opened' \in [Threads -> Objects \cup {None}]
    BY <2>1 DEF ResolverInv, TypeOK
  <2> QED BY <1>1, <1>2, <2>1, <2>2, MountTyped
<1>4. CASE OpenByHandle(t)
  <2>1. PICK o \in Objects : opened' = [opened EXCEPT ![t] = o]
    BY <1>4 DEF OpenByHandle, Decodable
  <2>2. pc' = [pc EXCEPT ![t] = "link"] /\ mount' = mount
    BY <1>4 DEF OpenByHandle
  <2>3. /\ pc' \in [Threads -> {"idle", "event", "try", "mount", "link", "land"}]
        /\ mount' \in [Threads -> Nat \ {0}] /\ opened' \in [Threads -> Objects \cup {None}]
        /\ pc'[t] = "link" /\ opened'[t] = o
        /\ \A u \in Threads : u # t => pc'[u] = pc[u] /\ opened'[u] = opened[u]
    BY <2>1, <2>2 DEF ResolverInv, TypeOK
  <2> QED BY <1>1, <1>2, <2>3, MountTyped
<1>5. CASE ReadLinkFails(t)
  <2>1. /\ pc' = [pc EXCEPT ![t] = "mount"] /\ mount' = [mount EXCEPT ![t] = mount[t] + 1]
        /\ opened' = [opened EXCEPT ![t] = None]
    BY <1>5 DEF ReadLinkFails
  <2>2. /\ pc' \in [Threads -> {"idle", "event", "try", "mount", "link", "land"}]
        /\ mount' \in [Threads -> Nat \ {0}] /\ opened' \in [Threads -> Objects \cup {None}]
        /\ pc'[t] = "mount"
        /\ \A u \in Threads : u # t => pc'[u] = pc[u] /\ opened'[u] = opened[u]
    BY <2>1 DEF ResolverInv, TypeOK
  <2> QED BY <1>1, <1>2, <2>2, MountTyped
<1> QED BY <1>3, <1>4, <1>5

LEMMA ReadLinkTyped ==
  ASSUME ResolverInv, NEW t \in Threads, ReadLink(t)
  PROVE  TypeOK' /\ loc' = loc /\ OthersStay(t) /\ ThreadInv(t)'
<1>1. /\ pc[t] = "link" /\ Find(t, LinkText(opened[t]))
      /\ UNCHANGED <<filesystem, store, op, fallback, batch, paths, at, attempt, mount, counts, taught, late>>
  BY DEF ReadLink
<1>2. opened[t] \in Objects /\ attempt[t] \in DOMAIN Attempts(Event(t))
  BY <1>1 DEF ResolverInv, ThreadInv
<1>3. LinkText(opened[t]) \in Path
  BY <1>2, LinkTyped DEF ResolverInv
<1> QED BY <1>1, <1>2, <1>3, FindTyped

LEMMA NoneLeftTyped ==
  ASSUME ResolverInv, NEW t \in Threads, NoCandidateLeft(t)
  PROVE  TypeOK' /\ loc' = loc /\ OthersStay(t) /\ ThreadInv(t)'
<1>1. /\ pc[t] = "mount" /\ Fail(t)
      /\ UNCHANGED <<filesystem, store, op, fallback, batch, paths, at, opened, found, counts, taught,
                     forgotten, late>>
  BY DEF NoCandidateLeft
<1> QED BY <1>1, FailTyped

(* One event gets its path. *)
LandPath(t) == paths' = [paths EXCEPT ![t][at[t]] = found[t]]

LEMMA PathsDo ==
  ASSUME ResolverInv, NEW t \in Threads, pc[t] = "land", LandPath(t)
  PROVE  /\ paths' \in [Threads -> Seq(Path \cup {None})]
         /\ DOMAIN paths'[t] = DOMAIN paths[t]
         /\ at[t] \in DOMAIN batch[t] /\ DOMAIN paths[t] = DOMAIN batch[t]
         /\ paths[t][at[t]] = None /\ paths'[t][at[t]] = found[t] /\ found[t] \in Path /\ found[t] # None
         /\ \A i \in DOMAIN paths[t] : i # at[t] => paths'[t][i] = paths[t][i]
         /\ \A u \in Threads : u # t => paths'[u] = paths[u]
<1> DEFINE s == [paths[t] EXCEPT ![at[t]] = found[t]]
<1>1. /\ found[t] \in Path /\ at[t] <= Len(batch[t]) /\ ~HasPath(t) /\ DOMAIN paths[t] = DOMAIN batch[t]
  BY DEF ResolverInv, ThreadInv
<1>2. at[t] \in DOMAIN paths[t] /\ at[t] \in DOMAIN batch[t]
  BY <1>1, EventTyped
<1>3. paths \in [Threads -> Seq(Path \cup {None})] /\ paths[t] \in Seq(Path \cup {None})
  BY DEF ResolverInv, TypeOK
<1>4. /\ s \in Seq(Path \cup {None}) /\ DOMAIN s = DOMAIN paths[t] /\ s[at[t]] = found[t]
      /\ \A i \in DOMAIN paths[t] : i # at[t] => s[i] = paths[t][i]
  BY <1>1, <1>2, <1>3
<1>5. paths' = [paths EXCEPT ![t] = s]
  BY DEF LandPath
<1> HIDE DEF s
<1>6. paths' \in [Threads -> Seq(Path \cup {None})] /\ paths'[t] = s /\ \A u \in Threads : u # t => paths'[u] = paths[u]
  BY <1>3, <1>4, <1>5
<1>7. found[t] # None
  BY <1>1, SentinelsAssumption
<1> QED BY <1>1, <1>2, <1>4, <1>6, <1>7 DEF HasPath

LEMMA LandDoes ==
  ASSUME ResolverInv, NEW t \in Threads, Land(t)
  PROVE  /\ TypeOK' /\ loc' = loc /\ OthersStay(t) /\ ThreadInv(t)'
         /\ pc[t] = "land" /\ LandPath(t) /\ Settle(t, "Resolved") /\ landed'[t] = landed[t] + 1
         /\ \/ \E k \in Keys :
                 /\ k[1] = Event(t).fsid
                 /\ store' = [store EXCEPT ![k] = found[t]] /\ taught'[t] = taught[t] \cup {k}
            \/ UNCHANGED <<store, taught>>
<1>1. /\ pc[t] = "land" /\ LandPath(t) /\ Settle(t, "Resolved")
      /\ landed' = [landed EXCEPT ![t] = landed[t] + 1]
  BY DEF Land, LandPath
<1>2. /\ paths' \in [Threads -> Seq(Path \cup {None})]
      /\ DOMAIN paths'[t] = DOMAIN paths[t] /\ found[t] \in Path
      /\ \A u \in Threads : u # t => paths'[u] = paths[u]
  BY <1>1, PathsDo
<1>3. at[t] <= Len(batch[t]) /\ Event(t).fsid # None /\ attempt[t] \in DOMAIN Attempts(Event(t))
  BY <1>1 DEF ResolverInv, ThreadInv
<1>4. Event(t) \in FidEvent /\ Attempt(t) \in Try
  BY <1>1, <1>3, EventTyped
<1>5. /\ store' \in [Keys -> Path \cup {None}] /\ taught' \in [Threads -> SUBSET Keys]
      /\ late' \in SUBSET Keys /\ \A u \in Threads : u # t => taught'[u] = taught[u]
      /\ \/ \E k \in Keys :
              /\ k[1] = Event(t).fsid
              /\ store' = [store EXCEPT ![k] = found[t]] /\ taught'[t] = taught[t] \cup {k}
         \/ UNCHANGED <<store, taught>>
  <2>1. CASE Attempt(t).learns # None /\ Remember(t, <<Event(t).fsid, Attempt(t).learns>>, found[t])
    <3>1. PICK k : k = <<Event(t).fsid, Attempt(t).learns>>
      OBVIOUS
    <3>2. k \in Keys /\ k[1] = Event(t).fsid
      BY <1>3, <1>4, <2>1, <3>1 DEF Keys, FidEvent, Try
    <3>3. /\ store' = [store EXCEPT ![k] = found[t]]
          /\ taught' = [taught EXCEPT ![t] = taught[t] \cup {k}]
          /\ late' = IF k \in forgotten[t] THEN late \cup {k} ELSE late \ {k}
      BY <2>1, <3>1 DEF Remember
    <3>4. late' \in SUBSET Keys /\ store' \in [Keys -> Path \cup {None}]
      BY <1>2, <3>2, <3>3 DEF ResolverInv, TypeOK
    <3>5. taught' \in [Threads -> SUBSET Keys] /\ taught'[t] = taught[t] \cup {k}
          /\ \A u \in Threads : u # t => taught'[u] = taught[u]
      BY <3>2, <3>3 DEF ResolverInv, TypeOK
    <3> QED BY <3>2, <3>3, <3>4, <3>5
  <2>2. CASE UNCHANGED <<store, taught, late>>
    BY <2>2 DEF ResolverInv, TypeOK
  <2> QED BY <2>1, <2>2 DEF Land
<1>6. landed' \in [Threads -> Nat] /\ landed'[t] = landed[t] + 1 /\ \A u \in Threads : u # t => landed'[u] = landed[u]
  BY <1>1 DEF ResolverInv, TypeOK
<1>7. /\ pc' \in [Threads -> {"idle", "event", "try", "mount", "link", "land"}]
      /\ at' \in [Threads -> Nat \ {0}] /\ attempt' \in [Threads -> Nat \ {0}]
      /\ mount' \in [Threads -> Nat \ {0}] /\ found' \in [Threads -> Path \cup {None}]
      /\ forgotten' \in [Threads -> SUBSET Keys] /\ pass' \in [Threads -> Resolution]
      /\ pc'[t] = "event" /\ at'[t] = at[t] + 1 /\ attempt'[t] = 1
      /\ \A u \in Threads : u # t =>
              /\ pc'[u] = pc[u] /\ at'[u] = at[u] /\ attempt'[u] = attempt[u]
              /\ found'[u] = found[u] /\ pass'[u] = pass[u]
      /\ UNCHANGED <<filesystem, op, fallback, batch, opened, best, report>>
  BY <1>1, SettleDoes DEF ResolverInv, Outcomes
<1>8. TypeOK'
  BY <1>2, <1>5, <1>6, <1>7 DEF ResolverInv, TypeOK, filesystem
<1>9. OthersStay(t)
  BY <1>2, <1>5, <1>6, <1>7 DEF OthersStay
<1>10. ThreadInv(t)'
  <2>1. batch[t] \in Seq(FidEvent) /\ at[t] \in Nat
    BY DEF ResolverInv, TypeOK
  <2>2. at[t] + 1 <= Len(batch[t]) + 1
    BY <1>3, <2>1
  <2> QED BY <1>2, <1>7, <2>2 DEF ResolverInv, ThreadInv
<1> QED BY <1>1, <1>5, <1>6, <1>7, <1>8, <1>9, <1>10 DEF filesystem

(* The end of a pass. *)
LEMMA EndPassDoes ==
  ASSUME ResolverInv, NEW t \in Threads, EndPass(t)
  PROVE  /\ TypeOK' /\ loc' = loc /\ OthersStay(t) /\ ThreadInv(t)'
         /\ pc[t] = "event" /\ at[t] > Len(batch[t])
         /\ UNCHANGED <<store, op, batch, paths, landed, taught>>
         /\ \E this \in Resolution :
              /\ this.resolved = pass[t].resolved /\ this.already_resolved = pass[t].already_resolved
              /\ this.unresolved = pass[t].unresolved /\ this.passes = pass[t].passes + 1
              /\ \/ /\ RunsAgain(t, this) /\ pc'[t] = "event" /\ at'[t] = 1 /\ best'[t] = this
                    /\ pass'[t] \in Resolution /\ pass'[t].passes = this.passes /\ pass'[t].resolved = 0
                    /\ pass'[t].already_resolved = 0 /\ pass'[t].unresolved = 0
                    /\ report'[t] = report[t]
                 \/ /\ ~RunsAgain(t, this) /\ pc'[t] = "idle" /\ pass'[t] = this
                    /\ report'[t] = Reported(t, this)
<1>1. pass[t] \in Resolution /\ best[t] \in Resolution /\ at[t] \in Nat /\ Len(batch[t]) \in Nat
  <2>1. batch[t] \in Seq(FidEvent)
    BY DEF ResolverInv, TypeOK
  <2> QED BY <2>1 DEF ResolverInv, TypeOK
<1>2. PICK this : this = [pass[t] EXCEPT !.passes = pass[t].passes + 1]
  OBVIOUS
<1>3. /\ this \in Resolution
      /\ this.resolved = pass[t].resolved /\ this.already_resolved = pass[t].already_resolved
      /\ this.unresolved = pass[t].unresolved /\ this.passes = pass[t].passes + 1
  BY <1>1, <1>2, Counts DEF Resolution
<1>4. PICK next : next = [Zero EXCEPT !.passes = this.passes]
  OBVIOUS
<1>5. /\ next \in Resolution /\ next.passes = this.passes /\ next.resolved = 0
      /\ next.already_resolved = 0 /\ next.unresolved = 0
  BY <1>3, <1>4 DEF Zero, Resolution
<1>6. /\ pc[t] = "event" /\ at[t] > Len(batch[t])
      /\ \/ /\ RunsAgain(t, this) /\ best' = [best EXCEPT ![t] = this]
            /\ pass' = [pass EXCEPT ![t] = next] /\ at' = [at EXCEPT ![t] = 1]
            /\ UNCHANGED <<pc, report>>
         \/ /\ ~RunsAgain(t, this) /\ report' = [report EXCEPT ![t] = Reported(t, this)]
            /\ pass' = [pass EXCEPT ![t] = this] /\ pc' = [pc EXCEPT ![t] = "idle"]
            /\ UNCHANGED <<at, best>>
      /\ UNCHANGED <<filesystem, store, op, fallback, batch, paths, attempt, mount, opened, found,
                     landed, taught, forgotten, late>>
  BY <1>2, <1>4 DEF EndPass
<1>7. CASE /\ RunsAgain(t, this) /\ best' = [best EXCEPT ![t] = this]
           /\ pass' = [pass EXCEPT ![t] = next] /\ at' = [at EXCEPT ![t] = 1]
           /\ UNCHANGED <<pc, report>>
  <2>1. /\ best' \in [Threads -> Resolution] /\ pass' \in [Threads -> Resolution]
        /\ at' \in [Threads -> Nat \ {0}] /\ best'[t] = this /\ pass'[t] = next /\ at'[t] = 1
    BY <1>3, <1>5, <1>7 DEF ResolverInv, TypeOK
  <2>2. TypeOK'
    BY <1>6, <1>7, <2>1 DEF ResolverInv, TypeOK, filesystem
  <2>3. OthersStay(t)
    BY <1>6, <1>7 DEF OthersStay, ResolverInv, TypeOK
  <2>4. ThreadInv(t)'
    BY <1>1, <1>6, <1>7, <2>1 DEF ResolverInv, ThreadInv
  <2> QED BY <1>3, <1>5, <1>6, <1>7, <2>1, <2>2, <2>3, <2>4 DEF filesystem
<1>8. CASE /\ ~RunsAgain(t, this) /\ report' = [report EXCEPT ![t] = Reported(t, this)]
           /\ pass' = [pass EXCEPT ![t] = this] /\ pc' = [pc EXCEPT ![t] = "idle"]
           /\ UNCHANGED <<at, best>>
  <2>1. Reported(t, this) \in Resolution
    BY <1>1, <1>3 DEF Reported
  <2>2. /\ report' \in [Threads -> Resolution \cup {None}] /\ pass' \in [Threads -> Resolution]
        /\ pc' \in [Threads -> {"idle", "event", "try", "mount", "link", "land"}]
        /\ report'[t] = Reported(t, this) /\ pass'[t] = this /\ pc'[t] = "idle"
    BY <1>3, <1>8, <2>1 DEF ResolverInv, TypeOK
  <2>3. TypeOK'
    BY <1>6, <1>8, <2>2 DEF ResolverInv, TypeOK, filesystem
  <2>4. OthersStay(t)
    BY <1>6, <1>8 DEF OthersStay, ResolverInv, TypeOK
  <2>5. ThreadInv(t)'
    BY <1>6, <1>8, <2>2 DEF ResolverInv, ThreadInv
  <2> QED BY <1>3, <1>6, <1>8, <2>2, <2>3, <2>4, <2>5 DEF filesystem
<1> QED BY <1>6, <1>7, <1>8

(* Other processes change the filesystem, other code the store. *)
WorldStep ==
  \/ \E k \in Keys : Forget(k)
  \/ \E fs \in Filesystems : ForgetFilesystem(fs)
  \/ Clear
  \/ \E o \in Objects :
       \/ Teach(o)
       \/ Unlink(o)
       \/ Evict(o)
       \/ \E dir \in Dirs \cup Filesystems, name \in Names : Rename(o, dir, name)

LEMMA ChangeDoes ==
  ASSUME ResolverInv, NEW o \in Objects,
         Unlink(o) \/ Evict(o) \/ \E dir \in Dirs \cup Filesystems, name \in Names : Rename(o, dir, name)
  PROVE  /\ TypeOK' /\ \A q \in Objects : IsOn(loc'[q], FsOf[q])
         /\ UNCHANGED <<store, pc, op, batch, paths, walk, counts, taught>>
<1>1. /\ changes < MaxChanges /\ changes' = changes + 1
      /\ UNCHANGED <<store, pc, op, fallback, batch, paths, walk, counts, taught, forgotten, late>>
  BY DEF Unlink, Evict, Rename, Change
<1>2. changes' \in 0..MaxChanges
  BY <1>1, CallsAssumption DEF ResolverInv, TypeOK
<1>3. fate' \in [Objects -> {"linked", "unlinked", "evicted"}]
  BY DEF Unlink, Evict, Rename, ResolverInv, TypeOK
<1>4. loc' \in [Objects -> Location] /\ \A q \in Objects : IsOn(loc'[q], FsOf[q])
  <2>1. CASE loc' = loc
    BY <2>1 DEF ResolverInv, TypeOK
  <2>2. ASSUME NEW dir \in Dirs \cup Filesystems, NEW name \in Names, Rename(o, dir, name)
        PROVE  loc' \in [Objects -> Location] /\ \A q \in Objects : IsOn(loc'[q], FsOf[q])
    <3>1. /\ dir \in Dirs => FsOf[dir] = FsOf[o]
          /\ dir \in Filesystems => dir = FsOf[o]
          /\ loc' = [p \in Objects |->
                       IF p = o \/ o \in loc[p].above THEN Moved(p, o, dir, name) ELSE loc[p]]
      BY <2>2 DEF Rename
    <3>2. ASSUME NEW p \in Objects
          PROVE  loc'[p] \in Location /\ IsOn(loc'[p], FsOf[p])
      <4>1. CASE p = o \/ o \in loc[p].above
        <5>1. loc'[p] = Moved(p, o, dir, name)
          BY <3>1, <4>1
        <5>2. Moved(p, o, dir, name) \in Location /\ IsOn(Moved(p, o, dir, name), FsOf[p])
          BY <3>1, <4>1, MovedTyped DEF ResolverInv
        <5> QED BY <5>1, <5>2
      <4>2. CASE ~(p = o \/ o \in loc[p].above)
        <5>1. loc'[p] = loc[p]
          BY <3>1, <4>2
        <5> QED BY <5>1 DEF ResolverInv, TypeOK
      <4> QED BY <4>1, <4>2
    <3>3. loc' = [p \in Objects |-> loc'[p]]
      BY <3>1
    <3> QED BY <3>2, <3>3
  <2> QED BY <2>1, <2>2 DEF Unlink, Evict
<1>5. TypeOK'
  BY <1>1, <1>2, <1>3, <1>4 DEF ResolverInv, TypeOK, walk, counts
<1> QED BY <1>1, <1>4, <1>5

LEMMA TeachDoes ==
  ASSUME ResolverInv, NEW o \in Objects, Teach(o)
  PROVE  /\ TypeOK' /\ loc' = loc
         /\ UNCHANGED <<pc, op, batch, paths, walk, counts, taught>>
         /\ \A k \in Keys : store'[k] = store[k] \/ (store'[k] # None /\ Starts(store'[k], k[1]))
<1>1. PICK k : k = <<FsOf[o], HandleOf[o]>>
  OBVIOUS
<1>2. k \in Keys /\ k[1] = FsOf[o]
  BY <1>1, ObjectsAssumption DEF Keys
<1>3. PathOf(o) \in Path /\ Starts(PathOf(o), FsOf[o])
  BY LinkTyped DEF ResolverInv
<1>4. /\ store' = [store EXCEPT ![k] = PathOf(o)] /\ late' = late \ {k}
      /\ UNCHANGED <<filesystem, pc, op, fallback, batch, paths, walk, counts, taught, forgotten>>
  BY <1>1 DEF Teach
<1>5. /\ store' \in [Keys -> Path \cup {None}] /\ store'[k] = PathOf(o)
      /\ \A j \in Keys : j # k => store'[j] = store[j]
  BY <1>2, <1>3, <1>4 DEF ResolverInv, TypeOK
<1>6. TypeOK'
  BY <1>4, <1>5 DEF ResolverInv, TypeOK, filesystem, walk, counts
<1>7. PathOf(o) # None
  BY <1>3, SentinelsAssumption
<1> QED BY <1>2, <1>3, <1>4, <1>5, <1>6, <1>7 DEF filesystem

LEMMA DropDoes ==
  ASSUME ResolverInv, NEW keys \in SUBSET Keys, Drop(keys)
  PROVE  /\ TypeOK' /\ loc' = loc
         /\ UNCHANGED <<pc, op, batch, paths, walk, counts>>
         /\ \A k \in Keys : store'[k] = None \/ store'[k] = store[k]
         /\ \A k \in Keys : k \notin keys => store'[k] = store[k]
         /\ \A t \in Threads : taught'[t] = taught[t] \ keys
<1>1. /\ store' = [k \in Keys |-> IF k \in keys THEN None ELSE store[k]]
      /\ taught' = [t \in Threads |-> taught[t] \ keys]
      /\ forgotten' = [t \in Threads |-> IF found[t] = None THEN {} ELSE forgotten[t] \cup keys]
      /\ late' = late \ keys
      /\ UNCHANGED <<filesystem, pc, op, fallback, batch, paths, walk, counts>>
  BY DEF Drop
<1>2. /\ store' \in [Keys -> Path \cup {None}] /\ late' \in SUBSET Keys
      /\ taught' \in [Threads -> SUBSET Keys] /\ forgotten' \in [Threads -> SUBSET Keys]
  BY <1>1 DEF ResolverInv, TypeOK
<1>3. TypeOK'
  BY <1>1, <1>2 DEF ResolverInv, TypeOK, filesystem, walk, counts
<1> QED BY <1>1, <1>3 DEF filesystem

LEMMA WorldDoes ==
  ASSUME ResolverInv, WorldStep
  PROVE  /\ TypeOK' /\ \A q \in Objects : IsOn(loc'[q], FsOf[q])
         /\ UNCHANGED <<pc, op, batch, paths, walk, counts>>
         /\ \A t \in Threads : taught'[t] \subseteq taught[t]
         /\ \A t \in Threads : \A k \in taught'[t] : store[k] # None => store'[k] # None
         /\ \A k \in Keys : store'[k] \in {None, store[k]} \/ Starts(store'[k], k[1])
<1>1. CASE \E o \in Objects :
             Unlink(o) \/ Evict(o) \/ \E dir \in Dirs \cup Filesystems, name \in Names : Rename(o, dir, name)
  BY <1>1, ChangeDoes
<1>2. CASE \E o \in Objects : Teach(o)
  <2>1. \A t \in Threads : taught[t] \subseteq Keys
    BY DEF ResolverInv, TypeOK
  <2> QED BY <1>2, <2>1, TeachDoes DEF ResolverInv
<1>3. CASE \E keys \in SUBSET Keys : Drop(keys)
  <2>1. PICK keys \in SUBSET Keys : Drop(keys)
    BY <1>3
  <2>2. \A t \in Threads : taught[t] \subseteq Keys
    BY DEF ResolverInv, TypeOK
  <2> QED BY <2>1, <2>2, DropDoes DEF ResolverInv
<1>4. (\E k \in Keys : Forget(k)) \/ (\E fs \in Filesystems : ForgetFilesystem(fs)) \/ Clear
        => \E keys \in SUBSET Keys : Drop(keys)
  BY DEF Forget, ForgetFilesystem, Clear, Keys
<1> QED BY <1>1, <1>2, <1>3, <1>4 DEF WorldStep

(* The steps of a call that pass the phases of an attempt. *)
TryStep(t) ==
  \/ StartEvent(t) \/ Lookup(t) \/ PassCandidate(t) \/ OpenByHandle(t) \/ ReadLink(t)
  \/ ReadLinkFails(t) \/ NoCandidateLeft(t)

BeginStep(t) == \E o \in Ops, evs \in Batches, fb \in Fallbacks : Begin(t, o, evs, fb)

LEMMA NextCases ==
  Next <=> \/ WorldStep
           \/ \E t \in Threads : TryStep(t) \/ SkipEvent(t) \/ GiveUp(t) \/ Land(t) \/ EndPass(t) \/ BeginStep(t)
BY DEF Next, WorldStep, Work, TryStep, BeginStep

LEMMA TryTyped ==
  ASSUME ResolverInv, NEW t \in Threads, TryStep(t)
  PROVE  TypeOK' /\ loc' = loc /\ OthersStay(t) /\ ThreadInv(t)'
BY StartTyped, LookupTyped, WalkTyped, ReadLinkTyped, NoneLeftTyped DEF TryStep

(* What the steps of one call leave to the others. *)
LEMMA CallStep ==
  ASSUME ResolverInv, NEW t \in Threads,
         TryStep(t) \/ SkipEvent(t) \/ GiveUp(t) \/ Land(t) \/ EndPass(t) \/ BeginStep(t)
  PROVE  TypeOK' /\ loc' = loc /\ OthersStay(t) /\ ThreadInv(t)'
<1>1. CASE BeginStep(t)
  BY <1>1, BeginDoes DEF BeginStep
<1>2. CASE Land(t)
  BY <1>2, LandDoes
<1>3. CASE EndPass(t)
  BY <1>3, EndPassDoes
<1>4. CASE TryStep(t) \/ SkipEvent(t) \/ GiveUp(t)
  BY <1>4, TryTyped, GiveUpTyped
<1> QED BY <1>1, <1>2, <1>3, <1>4

LEMMA StutterDoes ==
  ASSUME UNCHANGED vars
  PROVE  UNCHANGED <<loc, fate, changes, store, pc, op, fallback, batch, paths, at, attempt, mount, opened,
                     found, pass, best, report, landed, taught, forgotten, late>>
BY DEF vars, filesystem, walk, counts

LEMMA ResolverStep ==
  ASSUME ResolverInv, [Next]_vars
  PROVE  ResolverInv'
<1>1. CASE WorldStep
  BY <1>1, WorldDoes, WorldSteps
<1>2. ASSUME NEW t \in Threads,
             TryStep(t) \/ SkipEvent(t) \/ GiveUp(t) \/ Land(t) \/ EndPass(t) \/ BeginStep(t)
      PROVE  ResolverInv'
  <2>1. TypeOK' /\ loc' = loc /\ OthersStay(t) /\ ThreadInv(t)'
    BY <1>2, CallStep
  <2> QED BY <2>1, ThreadSteps
<1>3. CASE UNCHANGED vars
  <2>1. UNCHANGED <<loc, fate, changes, store, pc, op, fallback, batch, paths, at, attempt, mount, opened,
                     found, pass, best, report, landed, taught, forgotten, late>>
    BY <1>3, StutterDoes
  <2>2. TypeOK'
    BY <2>1 DEF ResolverInv, TypeOK
  <2>3. UNCHANGED <<pc, op, batch, paths, walk, counts>>
    BY <2>1 DEF walk, counts
  <2>4. \A o \in Objects : IsOn(loc'[o], FsOf[o])
    BY <2>1 DEF ResolverInv
  <2> QED BY <2>2, <2>3, <2>4, WorldSteps
<1> QED BY <1>1, <1>2, <1>3, NextCases

LEMMA ResolverInvariant == Spec => []ResolverInv
<1>1. ResolverInv /\ [Next]_vars => ResolverInv'
  BY ResolverStep
<1> QED BY ResolverInit, <1>1, PTL DEF Spec

(* Every state of a resolver is well typed: in particular the paths it     *)
(* gives are made of single components, whatever names the events carry.   *)
THEOREM ResolverTypeCorrect == Spec => []TypeOK
<1>1. ResolverInv => TypeOK
  BY DEF ResolverInv
<1> QED BY ResolverInvariant, <1>1, PTL

-----------------------------------------------------------------------------
(***************************************************************************)
(* The counts.                                                             *)
(***************************************************************************)
(* A batch has finitely many events, so finitely many without a path. *)
LEMMA MissingFinite ==
  ASSUME NEW s \in Seq(FidEvent), NEW P \in SUBSET DOMAIN s
  PROVE  IsFiniteSet(P) /\ Cardinality(P) \in Nat /\ Cardinality(P) <= Len(s)
<1>1. IsFiniteSet(1..Len(s)) /\ Cardinality(1..Len(s)) = Len(s)
  BY FS_Interval, Len(s) \in Nat
<1>2. P \subseteq 1..Len(s)
  OBVIOUS
<1> QED BY <1>1, <1>2, FS_Subset, FS_CardinalityType

LEMMA CountStays ==
  ASSUME NEW u \in Threads, CountInv(u), ReportOf(u),
         pc'[u] = pc[u], op'[u] = op[u], batch'[u] = batch[u], paths'[u] = paths[u], at'[u] = at[u],
         pass'[u] = pass[u], best'[u] = best[u], report'[u] = report[u], landed'[u] = landed[u]
  PROVE  CountInv(u)' /\ ReportOf(u)'
BY DEF CountInv, ReportOf, Missing, AllMissing

(* The numbers a thread counts with. *)
LEMMA CountTyped ==
  ASSUME ResolverInv, NEW t \in Threads
  PROVE  /\ batch[t] \in Seq(FidEvent) /\ Len(batch[t]) \in Nat /\ at[t] \in Nat \ {0}
         /\ DOMAIN batch[t] = 1..Len(batch[t]) /\ landed[t] \in Nat
         /\ pass[t].resolved \in Nat /\ pass[t].already_resolved \in Nat
         /\ pass[t].unresolved \in Nat /\ pass[t].passes \in Nat
         /\ best[t].resolved \in Nat /\ best[t].already_resolved \in Nat /\ best[t].unresolved \in Nat
<1>1. batch[t] \in Seq(FidEvent) /\ pass[t] \in Resolution /\ best[t] \in Resolution
  BY DEF ResolverInv, TypeOK
<1>2. Len(batch[t]) \in Nat /\ at[t] \in Nat \ {0} /\ landed[t] \in Nat /\ DOMAIN batch[t] = 1..Len(batch[t])
  BY <1>1 DEF ResolverInv, TypeOK
<1> QED BY <1>1, <1>2, Counts

(* One event more is counted: it got a path, had one, or stays without. *)
LEMMA AccountsNext ==
  ASSUME NEW o, NEW this \in Resolution, NEW next, NEW last \in Resolution, NEW n \in Nat, NEW len \in Nat,
         NEW land \in Nat, NEW m \in Nat, NEW all \in Nat, Accounts(o, this, last, n, len, land, m, all),
         NEW r \in {0, 1}, NEW a \in {0, 1}, NEW u \in {0, 1}, r + a + u = 1,
         next.resolved = this.resolved + r, next.already_resolved = this.already_resolved + a,
         next.unresolved = this.unresolved + u, next.passes = this.passes
  PROVE  Accounts(o, next, last, n + 1, len, land + r, m + u, all - r)
<1>1. /\ this.resolved \in Nat /\ this.already_resolved \in Nat /\ this.unresolved \in Nat /\ this.passes \in Nat
      /\ last.resolved \in Nat /\ last.already_resolved \in Nat /\ last.unresolved \in Nat
  BY Counts
<1>2. next.resolved + next.already_resolved + next.unresolved = n + 1 - 1 /\ next.unresolved = m + u
  BY <1>1 DEF Accounts
<1>3. next.passes + next.resolved <= land + r /\ land + r + (all - r) <= len
  BY <1>1 DEF Accounts
<1>4. next.passes = 0 => land + r = next.resolved
  BY <1>1 DEF Accounts
<1>5. next.passes # 0 =>
        /\ last.resolved # 0
        /\ last.resolved + last.already_resolved + last.unresolved = len
        /\ last.unresolved = all - r + next.resolved
        /\ o = "resolve_events_memo"
  BY <1>1 DEF Accounts
<1> QED BY <1>2, <1>3, <1>4, <1>5 DEF Accounts

(* It got one. *)
LEMMA AccountsLanded ==
  ASSUME NEW o, NEW this \in Resolution, NEW next, NEW last \in Resolution, NEW n \in Nat, NEW len \in Nat,
         NEW land \in Nat, NEW m \in Nat, NEW all \in Nat, Accounts(o, this, last, n, len, land, m, all),
         next.resolved = this.resolved + 1, next.already_resolved = this.already_resolved,
         next.unresolved = this.unresolved, next.passes = this.passes
  PROVE  Accounts(o, next, last, n + 1, len, land + 1, m, all - 1)
<1>1. this.resolved \in Nat /\ this.already_resolved \in Nat /\ this.unresolved \in Nat
  BY Counts
<1>2. /\ next.resolved = this.resolved + 1 /\ next.already_resolved = this.already_resolved + 0
      /\ next.unresolved = this.unresolved + 0
  BY <1>1
<1>3. Accounts(o, next, last, n + 1, len, land + 1, m + 0, all - 1)
  BY <1>2, AccountsNext, 1 \in {0, 1}, 0 \in {0, 1}, 0 \in {0, 1}, 1 + 0 + 0 = 1
<1> QED BY <1>3

(* It had one. *)
LEMMA AccountsSkipped ==
  ASSUME NEW o, NEW this \in Resolution, NEW next, NEW last \in Resolution, NEW n \in Nat, NEW len \in Nat,
         NEW land \in Nat, NEW m \in Nat, NEW all \in Nat, Accounts(o, this, last, n, len, land, m, all),
         next.resolved = this.resolved, next.already_resolved = this.already_resolved + 1,
         next.unresolved = this.unresolved, next.passes = this.passes
  PROVE  Accounts(o, next, last, n + 1, len, land, m, all)
<1>1. this.resolved \in Nat /\ this.already_resolved \in Nat /\ this.unresolved \in Nat
  BY Counts
<1>2. /\ next.resolved = this.resolved + 0 /\ next.already_resolved = this.already_resolved + 1
      /\ next.unresolved = this.unresolved + 0
  BY <1>1
<1>3. Accounts(o, next, last, n + 1, len, land + 0, m + 0, all - 0)
  BY <1>2, AccountsNext, 0 \in {0, 1}, 1 \in {0, 1}, 0 \in {0, 1}, 0 + 1 + 0 = 1
<1> QED BY <1>3

(* It stays without. *)
LEMMA AccountsLeft ==
  ASSUME NEW o, NEW this \in Resolution, NEW next, NEW last \in Resolution, NEW n \in Nat, NEW len \in Nat,
         NEW land \in Nat, NEW m \in Nat, NEW all \in Nat, Accounts(o, this, last, n, len, land, m, all),
         next.resolved = this.resolved, next.already_resolved = this.already_resolved,
         next.unresolved = this.unresolved + 1, next.passes = this.passes
  PROVE  Accounts(o, next, last, n + 1, len, land, m + 1, all)
<1>1. this.resolved \in Nat /\ this.already_resolved \in Nat /\ this.unresolved \in Nat
  BY Counts
<1>2. /\ next.resolved = this.resolved + 0 /\ next.already_resolved = this.already_resolved + 0
      /\ next.unresolved = this.unresolved + 1
  BY <1>1
<1>3. Accounts(o, next, last, n + 1, len, land + 0, m + 1, all - 0)
  BY <1>2, AccountsNext, 0 \in {0, 1}, 0 \in {0, 1}, 1 \in {0, 1}, 0 + 0 + 1 = 1
<1> QED BY <1>3

LEMMA BeginCounts ==
  ASSUME ResolverInv, NEW t \in Threads, BeginStep(t)
  PROVE  CountInv(t)' /\ ReportOf(t)'
<1>1. PICK evs \in Batches :
        /\ pc'[t] = "event" /\ batch'[t] = evs /\ at'[t] = 1
        /\ pass'[t] = Zero /\ report'[t] = None /\ landed'[t] = 0
  BY BeginDoes DEF BeginStep
<1>2. evs \in Seq(FidEvent)
  BY CallsAssumption
<1>3. Missing(t, at[t])' = {}
  BY <1>1, <1>2 DEF Missing
<1>4. AllMissing(t)' \in SUBSET DOMAIN evs
  BY <1>1 DEF AllMissing
<1>5. Cardinality(AllMissing(t)') \in Nat /\ Cardinality(AllMissing(t)') <= Len(evs)
  BY <1>2, <1>4, MissingFinite
<1>6. Cardinality(Missing(t, at[t])') = 0
  BY <1>3, FS_EmptySet
<1>7. Accounts(op'[t], Zero, best'[t], 1, Len(evs), 0, 0, Cardinality(AllMissing(t)'))
  BY <1>2, <1>5, ZeroTyped DEF Accounts
<1> QED BY <1>1, <1>6, <1>7 DEF CountInv, ReportOf

LEMMA TryLeaves ==
  ASSUME ResolverInv, NEW t \in Threads, TryStep(t)
  PROVE  /\ pc[t] # "idle" /\ pc'[t] # "idle"
         /\ UNCHANGED <<op, batch, paths, at, pass, best, report, landed, taught, store>>
BY DEF TryStep, StartEvent, Lookup, PassCandidate, OpenByHandle, ReadLink, ReadLinkFails,
       NoCandidateLeft, Find, Fail, walk, counts, ResolverInv, TypeOK

LEMMA TryCounts ==
  ASSUME ResolverInv, NEW t \in Threads, TryStep(t), CountInv(t), ReportOf(t)
  PROVE  CountInv(t)' /\ ReportOf(t)'
<1>1. /\ pc[t] # "idle" /\ pc'[t] # "idle"
      /\ UNCHANGED <<op, batch, paths, at, pass, best, report, landed, taught, store>>
  BY TryLeaves
<1> QED BY <1>1 DEF CountInv, ReportOf, Missing, AllMissing

(* An event that stays without a path, or had one. *)
LEMMA SettleCounts ==
  ASSUME ResolverInv, NEW t \in Threads, SkipEvent(t) \/ GiveUp(t), CountInv(t), ReportOf(t)
  PROVE  CountInv(t)' /\ ReportOf(t)'
<1>1. /\ pc[t] # "idle" /\ at[t] <= Len(batch[t]) /\ UNCHANGED <<paths, landed>>
      /\ \/ HasPath(t) /\ Settle(t, "AlreadyResolved")
         \/ ~HasPath(t) /\ (Settle(t, "NothingToResolve") \/ Settle(t, "Unresolvable"))
  BY DEF SkipEvent, GiveUp, ResolverInv, ThreadInv
<1>2. at[t] \in DOMAIN batch[t]
  BY <1>1, EventTyped
<1>3. /\ pc'[t] = "event" /\ at'[t] = at[t] + 1 /\ pass'[t].passes = pass[t].passes
      /\ pass'[t].resolved = pass[t].resolved
      /\ HasPath(t) => /\ pass'[t].already_resolved = pass[t].already_resolved + 1
                       /\ pass'[t].unresolved = pass[t].unresolved
      /\ ~HasPath(t) => /\ pass'[t].already_resolved = pass[t].already_resolved
                        /\ pass'[t].unresolved = pass[t].unresolved + 1
      /\ UNCHANGED <<op, batch, best, report>>
  <2>1. CASE HasPath(t) /\ Settle(t, "AlreadyResolved")
    BY <2>1, CountTyped, SettleDoes DEF ResolverInv, Outcomes
  <2>2. CASE ~HasPath(t) /\ Settle(t, "NothingToResolve")
    BY <2>2, CountTyped, SettleDoes DEF ResolverInv, Outcomes
  <2>3. CASE ~HasPath(t) /\ Settle(t, "Unresolvable")
    BY <2>3, CountTyped, SettleDoes DEF ResolverInv, Outcomes
  <2> QED BY <1>1, <2>1, <2>2, <2>3
<1>4. AllMissing(t)' = AllMissing(t) /\ Missing(t, at[t])' = Missing(t, at[t] + 1)
  BY <1>1, <1>3 DEF AllMissing, Missing
<1>5. Missing(t, at[t] + 1) = IF HasPath(t) THEN Missing(t, at[t]) ELSE Missing(t, at[t]) \cup {at[t]}
  BY <1>2, CountTyped DEF Missing, HasPath
<1>6. at[t] \notin Missing(t, at[t]) /\ Missing(t, at[t]) \in SUBSET DOMAIN batch[t]
  BY CountTyped DEF Missing
<1>7. Cardinality(Missing(t, at[t] + 1)) = Cardinality(Missing(t, at[t])) + (IF HasPath(t) THEN 0 ELSE 1)
  <2>1. IsFiniteSet(Missing(t, at[t])) /\ Cardinality(Missing(t, at[t])) \in Nat
    BY <1>6, CountTyped, MissingFinite
  <2>2. Cardinality(Missing(t, at[t]) \cup {at[t]}) = Cardinality(Missing(t, at[t])) + 1
    BY <1>6, <2>1, FS_AddElement
  <2>3. CASE HasPath(t)
    BY <1>5, <2>1, <2>3
  <2>4. CASE ~HasPath(t)
    BY <1>5, <2>2, <2>4
  <2> QED BY <2>3, <2>4
<1>8. Cardinality(Missing(t, at[t]))' = Cardinality(Missing(t, at[t] + 1))
  BY <1>4
<1>9. Cardinality(Missing(t, at[t])) \in Nat /\ Cardinality(AllMissing(t)) \in Nat
  <2>1. AllMissing(t) \in SUBSET DOMAIN batch[t]
    BY DEF AllMissing
  <2> QED BY <1>6, <2>1, CountTyped, MissingFinite
<1>10. Accounts(op[t], pass'[t], best[t], at[t] + 1, Len(batch[t]), landed[t],
                Cardinality(Missing(t, at[t] + 1)), Cardinality(AllMissing(t)))
  <2>1. Accounts(op[t], pass[t], best[t], at[t], Len(batch[t]), landed[t],
                 Cardinality(Missing(t, at[t])), Cardinality(AllMissing(t)))
    BY <1>1 DEF CountInv
  <2>4. pass[t] \in Resolution /\ best[t] \in Resolution
    BY DEF ResolverInv, TypeOK
  <2>2. CASE HasPath(t)
    <3>1. Accounts(op[t], pass'[t], best[t], at[t] + 1, Len(batch[t]), landed[t],
                   Cardinality(Missing(t, at[t])), Cardinality(AllMissing(t)))
      BY <1>3, <1>9, <2>1, <2>2, <2>4, CountTyped, AccountsSkipped
    <3> QED BY <1>7, <1>9, <2>2, <3>1, CountTyped
  <2>3. CASE ~HasPath(t)
    <3>1. Accounts(op[t], pass'[t], best[t], at[t] + 1, Len(batch[t]), landed[t],
                   Cardinality(Missing(t, at[t])) + 1, Cardinality(AllMissing(t)))
      BY <1>3, <1>9, <2>1, <2>3, <2>4, CountTyped, AccountsLeft
    <3> QED BY <1>7, <1>9, <2>3, <3>1, CountTyped
  <2> QED BY <2>2, <2>3
<1>11. Cardinality(AllMissing(t))' = Cardinality(AllMissing(t))
  BY <1>4
<1>12. report[t] = None
  BY <1>1 DEF CountInv
<1>13. CountInv(t)'
  BY <1>1, <1>3, <1>8, <1>10, <1>11, <1>12 DEF CountInv
<1> QED BY <1>3, <1>12, <1>13 DEF ReportOf

(* A path lands: one event less without one. *)
LEMMA LandCounts ==
  ASSUME ResolverInv, NEW t \in Threads, Land(t), CountInv(t), ReportOf(t)
  PROVE  CountInv(t)' /\ ReportOf(t)'
<1>1. pc[t] = "land" /\ LandPath(t) /\ Settle(t, "Resolved") /\ landed'[t] = landed[t] + 1
  BY LandDoes
<1>2. /\ pc'[t] = "event" /\ at'[t] = at[t] + 1 /\ pass'[t].passes = pass[t].passes
      /\ pass'[t].resolved = pass[t].resolved + 1
      /\ pass'[t].already_resolved = pass[t].already_resolved /\ pass'[t].unresolved = pass[t].unresolved
      /\ UNCHANGED <<op, batch, best, report>>
  BY <1>1, CountTyped, SettleDoes DEF ResolverInv, Outcomes
<1>3. /\ DOMAIN paths'[t] = DOMAIN paths[t] /\ DOMAIN paths[t] = DOMAIN batch[t]
      /\ at[t] \in DOMAIN batch[t] /\ paths[t][at[t]] = None /\ paths'[t][at[t]] # None
      /\ \A i \in DOMAIN paths[t] : i # at[t] => paths'[t][i] = paths[t][i]
  BY <1>1, PathsDo
<1>4. Missing(t, at[t])' = Missing(t, at[t])
  <2>1. \A i \in DOMAIN batch[t] : i < at[t] + 1 <=> i < at[t] \/ i = at[t]
    BY CountTyped
  <2>2. \A i \in DOMAIN batch[t] : i < at[t] => i # at[t]
    BY CountTyped
  <2> QED BY <1>2, <1>3, <2>1, <2>2 DEF Missing
<1>5. AllMissing(t)' = AllMissing(t) \ {at[t]} /\ at[t] \in AllMissing(t) /\ AllMissing(t) \in SUBSET DOMAIN batch[t]
  BY <1>2, <1>3 DEF AllMissing
<1>6. IsFiniteSet(AllMissing(t)) /\ Cardinality(AllMissing(t)) \in Nat
  BY <1>5, CountTyped, MissingFinite
<1>7. Cardinality(AllMissing(t)') = Cardinality(AllMissing(t)) - 1
  BY <1>5, <1>6, FS_RemoveElement
<1>8. Cardinality(Missing(t, at[t])') = Cardinality(Missing(t, at[t]))
  BY <1>4
<1>9. Cardinality(Missing(t, at[t])) \in Nat
  <2>1. Missing(t, at[t]) \in SUBSET DOMAIN batch[t]
    BY DEF Missing
  <2> QED BY <2>1, CountTyped, MissingFinite
<1>10. Accounts(op[t], pass'[t], best[t], at[t] + 1, Len(batch[t]), landed[t] + 1,
                Cardinality(Missing(t, at[t])), Cardinality(AllMissing(t)'))
  <2>1. Accounts(op[t], pass[t], best[t], at[t], Len(batch[t]), landed[t],
                 Cardinality(Missing(t, at[t])), Cardinality(AllMissing(t)))
    BY <1>1 DEF CountInv
  <2>2. pass[t] \in Resolution /\ best[t] \in Resolution
    BY DEF ResolverInv, TypeOK
  <2>3. Accounts(op[t], pass'[t], best[t], at[t] + 1, Len(batch[t]), landed[t] + 1,
                 Cardinality(Missing(t, at[t])), Cardinality(AllMissing(t)) - 1)
    BY <1>2, <1>6, <1>9, <2>1, <2>2, CountTyped, AccountsLanded
  <2> QED BY <1>7, <1>9, <2>3
<1>11. report[t] = None
  BY <1>1 DEF CountInv
<1>12. CountInv(t)'
  BY <1>1, <1>2, <1>8, <1>10, <1>11 DEF CountInv
<1> QED BY <1>2, <1>11, <1>12 DEF ReportOf

(* At the end of a pass every event was counted. *)
LEMMA EndCounts ==
  ASSUME ResolverInv, NEW t \in Threads, EndPass(t), CountInv(t), ReportOf(t)
  PROVE  CountInv(t)' /\ ReportOf(t)'
<1>1. PICK this \in Resolution :
        /\ this.resolved = pass[t].resolved /\ this.already_resolved = pass[t].already_resolved
        /\ this.unresolved = pass[t].unresolved /\ this.passes = pass[t].passes + 1
        /\ \/ /\ RunsAgain(t, this) /\ pc'[t] = "event" /\ at'[t] = 1 /\ best'[t] = this
              /\ pass'[t] \in Resolution /\ pass'[t].passes = this.passes /\ pass'[t].resolved = 0
              /\ pass'[t].already_resolved = 0 /\ pass'[t].unresolved = 0
              /\ report'[t] = report[t]
           \/ /\ ~RunsAgain(t, this) /\ pc'[t] = "idle" /\ pass'[t] = this
              /\ report'[t] = Reported(t, this)
  BY EndPassDoes
<1>2. /\ pc[t] = "event" /\ at[t] > Len(batch[t])
      /\ UNCHANGED <<store, op, batch, paths, landed, taught>>
  BY EndPassDoes
<1>3. at[t] = Len(batch[t]) + 1
  BY <1>2, CountTyped DEF ResolverInv, ThreadInv
<1>4. Missing(t, at[t]) = AllMissing(t)
  <2>1. \A i \in DOMAIN batch[t] : i < at[t]
    BY <1>3, CountTyped
  <2> QED BY <2>1 DEF Missing, AllMissing
<1>5. AllMissing(t)' = AllMissing(t)
  BY <1>2 DEF AllMissing
<1>6. Cardinality(AllMissing(t)) \in Nat /\ Cardinality(AllMissing(t)') = Cardinality(AllMissing(t))
  <2>1. AllMissing(t) \in SUBSET DOMAIN batch[t]
    BY DEF AllMissing
  <2> QED BY <1>5, <2>1, CountTyped, MissingFinite
<1>7. /\ report[t] = None
      /\ this.resolved + this.already_resolved + this.unresolved = Len(batch[t])
      /\ this.unresolved = Cardinality(AllMissing(t))
      /\ pass[t].passes + this.resolved <= landed[t]
      /\ landed[t] + Cardinality(AllMissing(t)) <= Len(batch[t])
      /\ pass[t].passes = 0 => landed[t] = this.resolved
      /\ pass[t].passes # 0 =>
           /\ best[t].resolved # 0
           /\ best[t].resolved + best[t].already_resolved + best[t].unresolved = Len(batch[t])
           /\ best[t].unresolved = Cardinality(AllMissing(t)) + this.resolved
           /\ op[t] = "resolve_events_memo"
  BY <1>1, <1>2, <1>3, <1>4, CountTyped DEF CountInv, Accounts
<1>8. /\ this.resolved \in Nat /\ this.already_resolved \in Nat /\ this.unresolved \in Nat
      /\ this.passes \in Nat
  BY Counts
<1>9. CASE RunsAgain(t, this) /\ pc'[t] = "event"
  <2>1. this.resolved > 0 /\ op[t] = "resolve_events_memo"
    BY <1>9 DEF RunsAgain
  <2>2. Missing(t, at[t])' = {}
    BY <1>1, <1>2, <1>9, CountTyped DEF Missing
  <2>3. Cardinality(Missing(t, at[t])') = 0
    BY <2>2, FS_EmptySet
  <2>4. Accounts(op[t], pass'[t], this, 1, Len(batch[t]), landed[t], 0, Cardinality(AllMissing(t)))
    <3>1. /\ pass'[t].passes = this.passes /\ pass'[t].resolved = 0
          /\ pass'[t].already_resolved = 0 /\ pass'[t].unresolved = 0
      BY <1>1, <1>9
    <3> QED BY <1>1, <1>6, <1>7, <1>8, <2>1, <3>1, CountTyped DEF Accounts
  <2>5. at'[t] = 1 /\ best'[t] = this /\ report'[t] = None
    BY <1>1, <1>7, <1>9
  <2>6. CountInv(t)'
    BY <1>2, <1>6, <1>9, <2>3, <2>4, <2>5 DEF CountInv
  <2> QED BY <2>5, <2>6 DEF ReportOf
<1>10. CASE ~RunsAgain(t, this) /\ pc'[t] = "idle"
  <2>1. pass'[t] = this /\ report'[t] = IF this.passes = 1 THEN this ELSE best[t]
    BY <1>1, <1>10 DEF Reported
  <2>2. op[t] = "resolve_events_memo" => this.resolved = 0
    BY <1>8, <1>10 DEF RunsAgain
  <2>3. CountInv(t)'
    <3>1. this.passes <= Len(batch[t]) + 1
      <4>1. pass[t].passes <= landed[t]
        BY <1>7, <1>8, CountTyped
      <4>2. landed[t] <= Len(batch[t])
        BY <1>6, <1>7, CountTyped
      <4>3. this.passes = pass[t].passes + 1
        BY <1>1
      <4> QED BY <4>1, <4>2, <4>3, CountTyped
    <3> QED BY <1>2, <1>10, <2>1, <3>1 DEF CountInv
  <2>4. CASE this.passes = 1
    <3>1. pass[t].passes = 0
      BY <1>1, <2>4, CountTyped
    <3> QED BY <1>2, <1>6, <1>7, <2>1, <2>3, <2>4, <3>1 DEF ReportOf
  <2>5. CASE this.passes # 1
    <3>1. pass[t].passes # 0 /\ landed[t] # 0 /\ this.resolved = 0
      BY <1>1, <1>7, <2>2, <2>5, CountTyped
    <3> QED BY <1>2, <1>6, <1>7, <2>1, <2>3, <2>5, <3>1, CountTyped DEF ReportOf
  <2> QED BY <2>4, <2>5
<1> QED BY <1>1, <1>9, <1>10

LEMMA ReportStep ==
  ASSUME ResolverInv, ReportInv, [Next]_vars
  PROVE  ReportInv'
<1>1. CASE WorldStep \/ UNCHANGED vars
  <2>1. UNCHANGED <<pc, op, batch, paths, at, pass, best, report, landed>>
    BY <1>1, WorldDoes, StutterDoes DEF walk, counts
  <2> QED BY <2>1, CountStays DEF ReportInv
<1>2. ASSUME NEW t \in Threads,
             TryStep(t) \/ SkipEvent(t) \/ GiveUp(t) \/ Land(t) \/ EndPass(t) \/ BeginStep(t)
      PROVE  ReportInv'
  <2>1. OthersStay(t)
    BY <1>2, CallStep
  <2>2. \A u \in Threads : u # t => CountInv(u)' /\ ReportOf(u)'
    BY <2>1, CountStays DEF ReportInv, OthersStay
  <2>3. CountInv(t)' /\ ReportOf(t)'
    BY <1>2, BeginCounts, TryCounts, SettleCounts, LandCounts, EndCounts DEF ReportInv
  <2> QED BY <2>2, <2>3 DEF ReportInv
<1> QED BY <1>1, <1>2, NextCases

LEMMA ReportInvariant == Spec => []ReportInv
<1>1. Init => ReportInv
  BY ZeroTyped DEF Init, ReportInv, CountInv, ReportOf
<1>2. ResolverInv /\ ReportInv /\ [Next]_vars => ReportInv'
  BY ReportStep
<1> QED BY ResolverInvariant, <1>1, <1>2, PTL DEF Spec

(* Whatever the other threads teach and forget between two passes, the     *)
(* Resolution a call returns is the state of its batch: `unresolved`       *)
(* events have no path, every event counts once, and `resolved` is zero    *)
(* exactly when the call gave no event a path.                             *)
THEOREM ReportCorrect == Spec => []ReportIsTheBatch
<1>1. ReportInv => ReportIsTheBatch
  BY DEF ReportInv, ReportOf, AllMissing, ReportIsTheBatch
<1> QED BY ReportInvariant, <1>1, PTL

(* resolve_events_memo makes at most one pass more than there are events:  *)
(* every pass but the last gave some event a path, which none lose.        *)
THEOREM PassesAreBounded == Spec => []PassBound
<1>1. ResolverInv /\ ReportInv => PassBound
  <2> SUFFICES ASSUME ResolverInv, ReportInv, NEW t \in Threads
               PROVE  pass[t].passes <= Len(batch[t]) + 1
    BY DEF PassBound
  <2>1. AllMissing(t) \in SUBSET DOMAIN batch[t]
    BY DEF AllMissing
  <2>2. Cardinality(AllMissing(t)) \in Nat
    BY <2>1, CountTyped, MissingFinite
  <2>3. CountInv(t)
    BY DEF ReportInv
  <2> QED BY <2>2, <2>3, CountTyped DEF CountInv, Accounts
<1> QED BY ResolverInvariant, ReportInvariant, <1>1, PTL


-----------------------------------------------------------------------------
(***************************************************************************)
(* The fixed point.                                                        *)
(***************************************************************************)
LEMMA FixedStays ==
  ASSUME NEW u \in Threads, FixedInv(u),
         pc'[u] = pc[u], op'[u] = op[u], batch'[u] = batch[u], paths'[u] = paths[u], at'[u] = at[u],
         attempt'[u] = attempt[u], pass'[u] = pass[u], taught'[u] \subseteq taught[u],
         \A k \in taught'[u] : store'[k] # None
  PROVE  FixedInv(u)'
BY DEF FixedInv, TriedInVain, Untaught, UntaughtBefore

(* What a step of an attempt does to the shape it is at. *)
LEMMA TryMoves ==
  ASSUME ResolverInv, NEW t \in Threads, TryStep(t)
  PROVE  \/ /\ pc[t] = "event" /\ pc'[t] = "try" /\ attempt'[t] = attempt[t] /\ at[t] <= Len(batch[t])
         \/ /\ pc[t] = "try" /\ pc'[t] = "mount" /\ attempt'[t] = attempt[t] /\ store[Key(t)] = None
         \/ /\ pc[t] = "try" /\ pc'[t] = "try" /\ attempt'[t] = attempt[t] + 1 /\ store[Key(t)] = None
         \/ pc[t] \in {"try", "link"} /\ pc'[t] = "land"
         \/ pc[t] \in {"mount", "link"} /\ pc'[t] \in {"mount", "link"} /\ attempt'[t] = attempt[t]
         \/ pc[t] = "mount" /\ pc'[t] = "try" /\ attempt'[t] = attempt[t] + 1
<1>1. CASE StartEvent(t)
  BY <1>1 DEF StartEvent, walk, ResolverInv, TypeOK
<1>2. CASE Lookup(t)
  BY <1>2 DEF Lookup, Find, Fail, ResolverInv, TypeOK
<1>3. CASE PassCandidate(t) \/ OpenByHandle(t) \/ ReadLinkFails(t)
  BY <1>3 DEF PassCandidate, OpenByHandle, ReadLinkFails, ResolverInv, TypeOK
<1>4. CASE ReadLink(t)
  BY <1>4 DEF ReadLink, Find, ResolverInv, TypeOK
<1>5. CASE NoCandidateLeft(t)
  BY <1>5 DEF NoCandidateLeft, Fail, ResolverInv, TypeOK
<1> QED BY <1>1, <1>2, <1>3, <1>4, <1>5 DEF TryStep

(* A shape the store does not answer is not among what the call taught. *)
LEMMA TryFixed ==
  ASSUME ResolverInv, NEW t \in Threads, TryStep(t), FixedInv(t)
  PROVE  FixedInv(t)'
<1>1. /\ pc[t] # "idle" /\ pc'[t] # "idle"
      /\ UNCHANGED <<op, batch, paths, at, pass, best, report, landed, taught, store>>
  BY TryLeaves
<1>2. store[Key(t)] = None => TriedInVain(t, at[t], attempt[t])
  BY DEF FixedInv, Key, Event, Attempt, TriedInVain
<1>3. at[t] <= Len(batch[t])
  BY TryMoves DEF ResolverInv, ThreadInv
<1>4. attempt[t] \in Nat \ {0} /\ \A a \in DOMAIN Attempts(batch[t][at[t]]) : a \in Nat \ {0}
  <2>1. Attempts(batch[t][at[t]]) \in Seq(Try)
    BY <1>1, <1>3, EventTyped
  <2> QED BY <2>1 DEF ResolverInv, TypeOK
<1>5. TriedInVain(t, at[t], attempt[t]) /\ UntaughtBefore(t, attempt[t]) => UntaughtBefore(t, attempt[t] + 1)
  <2>1. \A a \in DOMAIN Attempts(batch[t][at[t]]) : a < attempt[t] + 1 => a < attempt[t] \/ a = attempt[t]
    BY <1>4
  <2> QED BY <2>1 DEF UntaughtBefore
<1>6. UntaughtBefore(t, 1)
  BY <1>4 DEF UntaughtBefore
<1>7. ASSUME op[t] = "resolve_events_memo", pass[t].resolved = 0
      PROVE  /\ pc'[t] = "try" => UntaughtBefore(t, attempt'[t])
             /\ pc'[t] \in {"mount", "link"} => UntaughtBefore(t, attempt'[t] + 1)
  <2>1. /\ pc[t] = "event" => attempt[t] = 1
        /\ pc[t] = "try" => UntaughtBefore(t, attempt[t])
        /\ pc[t] \in {"mount", "link"} => UntaughtBefore(t, attempt[t] + 1)
    BY <1>1, <1>7 DEF FixedInv, ResolverInv, ThreadInv
  <2> QED BY <1>2, <1>5, <1>6, <2>1, TryMoves
<1>8. /\ pc'[t] = "try" => (UntaughtBefore(t, attempt'[t]) <=> UntaughtBefore(t, attempt[t])')
      /\ UntaughtBefore(t, attempt'[t] + 1) <=> UntaughtBefore(t, attempt[t] + 1)'
      /\ \A i \in DOMAIN batch[t] : Untaught(t, i) <=> Untaught(t, i)'
  BY <1>1 DEF UntaughtBefore, Untaught, TriedInVain
<1> QED BY <1>1, <1>7, <1>8 DEF FixedInv

(* An event that stays without a path has no shape that was taught. *)
LEMMA SettleFixed ==
  ASSUME ResolverInv, NEW t \in Threads, SkipEvent(t) \/ GiveUp(t), FixedInv(t)
  PROVE  FixedInv(t)'
<1>1. /\ pc[t] # "idle" /\ at[t] <= Len(batch[t]) /\ UNCHANGED <<store, paths, taught>>
      /\ \/ HasPath(t) /\ Settle(t, "AlreadyResolved")
         \/ Event(t).fsid = None /\ Settle(t, "NothingToResolve")
         \/ /\ pc[t] = "try" /\ attempt[t] > Len(Attempts(Event(t))) /\ Settle(t, "Unresolvable")
  BY DEF SkipEvent, GiveUp, ResolverInv, ThreadInv
<1>2. pc'[t] = "event" /\ at'[t] = at[t] + 1 /\ pass'[t].resolved = pass[t].resolved /\ UNCHANGED <<op, batch>>
  BY <1>1, SettleDoes, CountTyped DEF ResolverInv, Outcomes
<1>3. ASSUME op[t] = "resolve_events_memo", pass[t].resolved = 0, paths[t][at[t]] = None
      PROVE  Untaught(t, at[t])
  <2>1. taught[t] \subseteq Keys /\ attempt[t] \in Nat
    BY DEF ResolverInv, TypeOK
  <2>2. Attempts(batch[t][at[t]]) \in Seq(Try) /\ Event(t) = batch[t][at[t]]
    BY <1>1, EventTyped
  <2>3. CASE Event(t).fsid = None
    BY <2>1, <2>2, <2>3, SentinelsAssumption DEF Untaught, TriedInVain, Keys
  <2>4. CASE pc[t] = "try" /\ attempt[t] > Len(Attempts(Event(t)))
    <3>1. UntaughtBefore(t, attempt[t])
      BY <1>3, <2>4 DEF FixedInv
    <3>2. \A a \in DOMAIN Attempts(batch[t][at[t]]) : a < attempt[t]
      BY <2>1, <2>2, <2>4
    <3> QED BY <3>1, <3>2 DEF UntaughtBefore, Untaught
  <2> QED BY <1>1, <1>3, <2>3, <2>4 DEF HasPath
<1>4. ASSUME op[t] = "resolve_events_memo", pass[t].resolved = 0, NEW i \in DOMAIN batch[t],
             i < at[t] + 1, paths[t][i] = None
      PROVE  Untaught(t, i)
  <2>1. i < at[t] \/ i = at[t]
    BY <1>4, CountTyped
  <2> QED BY <1>1, <1>3, <1>4, <2>1 DEF FixedInv
<1>5. \A i \in DOMAIN batch[t] : Untaught(t, i) <=> Untaught(t, i)'
  BY <1>1, <1>2 DEF Untaught, TriedInVain
<1> QED BY <1>1, <1>2, <1>4, <1>5 DEF FixedInv

LEMMA LandFixed ==
  ASSUME ResolverInv, NEW t \in Threads, Land(t), \A u \in Threads : FixedInv(u)
  PROVE  \A u \in Threads : FixedInv(u)'
<1>1. /\ pc[t] = "land" /\ LandPath(t) /\ Settle(t, "Resolved") /\ OthersStay(t)
      /\ \/ \E k \in Keys :
              store' = [store EXCEPT ![k] = found[t]] /\ taught'[t] = taught[t] \cup {k}
         \/ UNCHANGED <<store, taught>>
  BY LandDoes
<1>2. found[t] # None
  BY <1>1, PathsDo
<1>3. store \in [Keys -> Path \cup {None}] /\ \A u \in Threads : taught[u] \subseteq Keys
  BY DEF ResolverInv, TypeOK
<1>4. /\ \A k \in Keys : store[k] # None => store'[k] # None
      /\ \A k \in taught'[t] : store'[k] # None
  BY <1>1, <1>2, <1>3 DEF FixedInv
<1>5. FixedInv(t)'
  <2>1. pc'[t] = "event" /\ pass'[t].resolved = pass[t].resolved + 1
    BY <1>1, SettleDoes DEF ResolverInv, Outcomes
  <2>2. pass'[t].resolved # 0
    BY <2>1, CountTyped
  <2> QED BY <1>4, <2>1, <2>2 DEF FixedInv
<1>6. ASSUME NEW u \in Threads, u # t
      PROVE  FixedInv(u)'
  <2>1. \A k \in taught'[u] : store'[k] # None
    BY <1>1, <1>3, <1>4, <1>6 DEF FixedInv, OthersStay
  <2> QED BY <1>1, <1>6, <2>1, FixedStays DEF OthersStay
<1> QED BY <1>5, <1>6

(* The pass that ends a call resolved nothing, so all of it was in vain. *)
LEMMA EndFixed ==
  ASSUME ResolverInv, NEW t \in Threads, EndPass(t), FixedInv(t)
  PROVE  FixedInv(t)'
<1>1. /\ pc[t] = "event" /\ at[t] > Len(batch[t]) /\ UNCHANGED <<store, op, batch, paths, taught>>
  BY EndPassDoes
<1>2. PICK this \in Resolution :
        /\ this.resolved = pass[t].resolved
        /\ \/ RunsAgain(t, this) /\ pc'[t] = "event" /\ at'[t] = 1
           \/ ~RunsAgain(t, this) /\ pc'[t] = "idle"
  BY EndPassDoes
<1>3. \A i \in DOMAIN batch[t] : Untaught(t, i) <=> Untaught(t, i)'
  BY <1>1 DEF Untaught, TriedInVain
<1>4. CASE pc'[t] = "event" /\ at'[t] = 1
  <2>1. \A i \in DOMAIN batch[t] : ~(i < 1)
    BY CountTyped
  <2> QED BY <1>1, <1>4, <2>1 DEF FixedInv
<1>5. CASE ~RunsAgain(t, this) /\ pc'[t] = "idle"
  <2>1. op[t] = "resolve_events_memo" => pass[t].resolved = 0
    BY <1>2, <1>5, CountTyped DEF RunsAgain
  <2>2. \A i \in DOMAIN batch[t] : i < at[t]
    BY <1>1, CountTyped
  <2> QED BY <1>1, <1>3, <1>5, <2>1, <2>2 DEF FixedInv
<1> QED BY <1>2, <1>4, <1>5

LEMMA BeginFixed ==
  ASSUME ResolverInv, NEW t \in Threads, BeginStep(t)
  PROVE  FixedInv(t)'
<1>1. PICK evs \in Batches : pc'[t] = "event" /\ batch'[t] = evs /\ at'[t] = 1 /\ taught'[t] = {}
  BY BeginDoes DEF BeginStep
<1>2. \A i \in DOMAIN evs : ~(i < 1)
  <2>1. evs \in Seq(FidEvent)
    BY CallsAssumption
  <2> QED BY <2>1
<1> QED BY <1>1, <1>2 DEF FixedInv

LEMMA FixedStep ==
  ASSUME ResolverInv, \A u \in Threads : FixedInv(u), [Next]_vars
  PROVE  \A u \in Threads : FixedInv(u)'
<1>1. CASE WorldStep
  <2>1. /\ UNCHANGED <<pc, op, batch, paths, at, attempt, pass>>
        /\ \A u \in Threads : taught'[u] \subseteq taught[u]
        /\ \A u \in Threads : \A k \in taught'[u] : store[k] # None => store'[k] # None
    BY <1>1, WorldDoes DEF walk, counts
  <2>2. \A u \in Threads : \A k \in taught'[u] : store'[k] # None
    BY <2>1 DEF FixedInv
  <2> QED BY <2>1, <2>2, FixedStays
<1>2. CASE UNCHANGED vars
  <2>1. UNCHANGED <<pc, op, batch, paths, at, attempt, pass, taught, store>>
    BY <1>2, StutterDoes
  <2>2. \A u \in Threads : \A k \in taught'[u] : store'[k] # None
    BY <2>1 DEF FixedInv
  <2> QED BY <2>1, <2>2, FixedStays
<1>3. ASSUME NEW t \in Threads, Land(t)
      PROVE  \A u \in Threads : FixedInv(u)'
  BY <1>3, LandFixed
<1>4. ASSUME NEW t \in Threads, TryStep(t) \/ SkipEvent(t) \/ GiveUp(t) \/ EndPass(t) \/ BeginStep(t)
      PROVE  \A u \in Threads : FixedInv(u)'
  <2>1. OthersStay(t)
    BY <1>4, CallStep
  <2>2. store' = store
    <3>1. CASE TryStep(t)
      BY <3>1, TryLeaves
    <3>2. CASE SkipEvent(t) \/ GiveUp(t)
      BY <3>2 DEF SkipEvent, GiveUp
    <3>3. CASE EndPass(t)
      BY <3>3, EndPassDoes
    <3>4. CASE BeginStep(t)
      BY <3>4, BeginDoes DEF BeginStep
    <3> QED BY <1>4, <3>1, <3>2, <3>3, <3>4
  <2>3. \A u \in Threads : u # t => FixedInv(u)'
    <3>1. \A u \in Threads : u # t => \A k \in taught'[u] : store'[k] # None
      BY <2>1, <2>2 DEF OthersStay, FixedInv
    <3> QED BY <2>1, <3>1, FixedStays DEF OthersStay
  <2>4. FixedInv(t)'
    BY <1>4, TryFixed, SettleFixed, EndFixed, BeginFixed
  <2> QED BY <2>3, <2>4
<1> QED BY <1>1, <1>2, <1>3, <1>4, NextCases

(* resolve_events_memo returns at a fixed point, whatever the order of the *)
(* batch and whatever else is taught and forgotten meanwhile: no event it  *)
(* leaves without a path has a shape that the call taught the store.       *)
THEOREM FixedPointReached == Spec => []FixedPoint
<1> DEFINE I == \A u \in Threads : FixedInv(u)
<1>1. Init => I
  BY DEF Init, FixedInv
<1>2. ResolverInv /\ I /\ [Next]_vars => I'
  BY FixedStep
<1>3. I => FixedPoint
  BY DEF FixedInv, FixedPoint, Untaught, TriedInVain
<1> HIDE DEF I
<1> QED BY ResolverInvariant, <1>1, <1>2, <1>3, PTL DEF Spec

-----------------------------------------------------------------------------
(***************************************************************************)
(* Paths stay on their filesystem, when every mount's fsid is known: a     *)
(* mount whose fsid could not be probed serves events of every filesystem. *)
(***************************************************************************)
AllKnown == \A i \in DOMAIN Mounts : Mounts[i].fsid # Unknown

LEMMA StayStays ==
  ASSUME NEW u \in Threads, ThreadStay(u),
         pc'[u] = pc[u], batch'[u] = batch[u], paths'[u] = paths[u], at'[u] = at[u],
         opened'[u] = opened[u], found'[u] = found[u]
  PROVE  ThreadStay(u)'
BY DEF ThreadStay, Event

(* What a handle opens on a mount of the event's filesystem is on it. *)
LEMMA OpenStays ==
  ASSUME AllKnown, ResolverInv, NEW t \in Threads, OpenByHandle(t)
  PROVE  FsOf[opened'[t]] = Event(t).fsid
<1>1. mount[t] \in DOMAIN Mounts
  BY MountsAssumption DEF OpenByHandle, ResolverInv, TypeOK
<1>2. Mounts[mount[t]].on = Event(t).fsid
  BY <1>1, MountsAssumption DEF OpenByHandle, WantedFilesystem, AllKnown
<1>3. PICK o \in Decodable(Mounts[mount[t]].on, Attempt(t).handle) : opened' = [opened EXCEPT ![t] = o]
  BY DEF OpenByHandle
<1>4. opened'[t] = o
  BY <1>3 DEF ResolverInv, TypeOK
<1> QED BY <1>2, <1>3, <1>4 DEF Decodable

LEMMA TryStays ==
  ASSUME AllKnown, ResolverInv, StayInv, NEW t \in Threads, TryStep(t)
  PROVE  ThreadStay(t)'
<1>1. /\ pc[t] # "idle" /\ pc'[t] # "idle" /\ UNCHANGED <<batch, paths, at, store>>
  BY TryLeaves
<1>2. Event(t)' = Event(t)
  BY <1>1 DEF Event
<1>3. \A i \in DOMAIN batch[t] : paths[t][i] # None => Starts(paths[t][i], batch[t][i].fsid)
  BY DEF StayInv, ThreadStay
<1>4. CASE StartEvent(t)
  <2>1. pc'[t] = "try"
    BY <1>4 DEF StartEvent, ResolverInv, TypeOK
  <2> QED BY <1>1, <1>3, <2>1 DEF ThreadStay
<1>5. ASSUME NEW dir \in Path, Starts(dir, Event(t).fsid), Find(t, dir), at[t] <= Len(batch[t]),
             attempt[t] \in DOMAIN Attempts(Event(t))
      PROVE  ThreadStay(t)'
  <2>1. Attempt(t) \in Try
    BY <1>1, <1>5, EventTyped
  <2>2. pc'[t] = "land" /\ found'[t] = Join(dir, Attempt(t).name)
    BY <1>5 DEF Find, ResolverInv, TypeOK
  <2>3. Starts(found'[t], Event(t).fsid)
    BY <1>5, <2>1, <2>2, JoinTyped DEF Try
  <2> QED BY <1>1, <1>2, <1>3, <2>2, <2>3 DEF ThreadStay
<1>6. CASE Lookup(t)
  <2>1. /\ pc[t] = "try" /\ at[t] <= Len(batch[t]) /\ Event(t).fsid # None
        /\ attempt[t] <= Len(Attempts(Event(t)))
    BY <1>6 DEF Lookup, ResolverInv, ThreadInv
  <2>2. Attempts(Event(t)) \in Seq(Try) /\ Event(t) \in FidEvent
    BY <1>1, <2>1, EventTyped
  <2>3. attempt[t] \in DOMAIN Attempts(Event(t))
    BY <2>1, <2>2 DEF ResolverInv, TypeOK
  <2>4. Key(t) \in Keys /\ Key(t)[1] = Event(t).fsid
    <3>1. Attempt(t) \in Try
      BY <1>1, <2>1, <2>3, EventTyped
    <3> QED BY <2>1, <2>2, <3>1 DEF Key, Keys, Try, FidEvent
  <2>5. CASE store[Key(t)] # None /\ Find(t, store[Key(t)])
    <3>1. store[Key(t)] \in Path /\ Starts(store[Key(t)], Event(t).fsid)
      BY <2>4, <2>5 DEF ResolverInv, TypeOK, StayInv, ThreadStay
    <3> QED BY <1>5, <2>1, <2>3, <2>5, <3>1
  <2>6. CASE pc'[t] \in {"mount", "try"}
    BY <1>1, <1>3, <2>6 DEF ThreadStay
  <2> QED BY <1>6, <2>5, <2>6 DEF Lookup, Fail, ResolverInv, TypeOK
<1>7. CASE ReadLink(t)
  <2>1. /\ pc[t] = "link" /\ opened[t] \in Objects /\ at[t] <= Len(batch[t])
        /\ attempt[t] \in DOMAIN Attempts(Event(t)) /\ Find(t, LinkText(opened[t]))
    BY <1>7 DEF ReadLink, ResolverInv, ThreadInv
  <2>2. LinkText(opened[t]) \in Path /\ Starts(LinkText(opened[t]), Event(t).fsid)
    BY <2>1, LinkTyped DEF ResolverInv, StayInv, ThreadStay
  <2> QED BY <1>5, <2>1, <2>2
<1>8. CASE OpenByHandle(t)
  <2>1. pc'[t] = "link"
    BY <1>8 DEF OpenByHandle, ResolverInv, TypeOK
  <2> QED BY <1>1, <1>2, <1>3, <1>8, <2>1, OpenStays DEF ThreadStay
<1>9. CASE PassCandidate(t) \/ ReadLinkFails(t) \/ NoCandidateLeft(t)
  <2>1. pc'[t] \in {"mount", "try"}
    BY <1>9 DEF PassCandidate, ReadLinkFails, NoCandidateLeft, Fail, ResolverInv, TypeOK
  <2> QED BY <1>1, <1>3, <2>1 DEF ThreadStay
<1> QED BY <1>4, <1>6, <1>7, <1>8, <1>9 DEF TryStep

LEMMA LandStays ==
  ASSUME ResolverInv, StayInv, NEW t \in Threads, Land(t)
  PROVE  /\ \A k \in Keys : store'[k] # None => Starts(store'[k], k[1])
         /\ ThreadStay(t)'
<1>1. /\ pc[t] = "land" /\ LandPath(t) /\ Settle(t, "Resolved")
      /\ \/ \E k \in Keys : k[1] = Event(t).fsid /\ store' = [store EXCEPT ![k] = found[t]]
         \/ UNCHANGED store
  BY LandDoes
<1>2. Starts(found[t], Event(t).fsid) /\ Event(t) = batch[t][at[t]]
  BY <1>1 DEF StayInv, ThreadStay, Event
<1>3. pc'[t] = "event" /\ batch' = batch
  BY <1>1, SettleDoes DEF ResolverInv, Outcomes
<1>4. \A k \in Keys : store'[k] # None => Starts(store'[k], k[1])
  BY <1>1, <1>2 DEF StayInv, ResolverInv, TypeOK
<1>5. \A i \in DOMAIN batch[t] : paths'[t][i] # None => Starts(paths'[t][i], batch[t][i].fsid)
  <2>1. /\ DOMAIN paths[t] = DOMAIN batch[t] /\ paths'[t][at[t]] = found[t]
        /\ \A i \in DOMAIN paths[t] : i # at[t] => paths'[t][i] = paths[t][i]
    BY <1>1, PathsDo
  <2> QED BY <1>2, <2>1 DEF StayInv, ThreadStay
<1> QED BY <1>3, <1>4, <1>5 DEF ThreadStay

LEMMA RestStays ==
  ASSUME ResolverInv, StayInv, NEW t \in Threads, SkipEvent(t) \/ GiveUp(t) \/ EndPass(t) \/ BeginStep(t)
  PROVE  UNCHANGED store /\ ThreadStay(t)'
<1>1. \A i \in DOMAIN batch[t] : paths[t][i] # None => Starts(paths[t][i], batch[t][i].fsid)
  BY DEF StayInv, ThreadStay
<1>2. CASE SkipEvent(t) \/ GiveUp(t)
  <2>1. UNCHANGED <<store, paths>> /\ \E outcome \in Outcomes : Settle(t, outcome)
    BY <1>2 DEF SkipEvent, GiveUp, Outcomes
  <2>2. pc'[t] = "event" /\ batch' = batch
    BY <2>1, SettleDoes DEF ResolverInv
  <2> QED BY <1>1, <2>1, <2>2 DEF ThreadStay
<1>3. CASE EndPass(t)
  <2>1. UNCHANGED <<store, batch, paths>> /\ pc'[t] \in {"event", "idle"}
    BY <1>3, EndPassDoes
  <2> QED BY <1>1, <2>1 DEF ThreadStay
<1>4. CASE BeginStep(t)
  <2>1. PICK evs \in Batches :
          /\ store' = store /\ pc'[t] = "event" /\ batch'[t] = evs
          /\ \/ \A i \in DOMAIN evs : paths'[t][i] = None
             \/ evs = batch[t] /\ paths'[t] = paths[t]
    BY <1>4, BeginDoes DEF BeginStep
  <2> QED BY <1>1, <2>1 DEF ThreadStay
<1> QED BY <1>2, <1>3, <1>4

LEMMA StayStep ==
  ASSUME AllKnown, ResolverInv, StayInv, [Next]_vars
  PROVE  StayInv'
<1>1. /\ \A k \in Keys : store[k] # None => Starts(store[k], k[1])
      /\ \A u \in Threads : ThreadStay(u)
  BY DEF StayInv, ThreadStay
<1>2. SUFFICES /\ \A k \in Keys : store'[k] # None => Starts(store'[k], k[1])
               /\ \A u \in Threads : ThreadStay(u)'
  BY DEF StayInv, ThreadStay
<1>3. CASE WorldStep
  <2>1. /\ UNCHANGED <<pc, batch, paths, at, opened, found>>
        /\ \A k \in Keys : store'[k] \in {None, store[k]} \/ Starts(store'[k], k[1])
    BY <1>3, WorldDoes DEF walk
  <2> QED BY <1>1, <2>1, StayStays
<1>4. CASE UNCHANGED vars
  <2>1. UNCHANGED <<store, pc, batch, paths, at, opened, found>>
    BY <1>4, StutterDoes
  <2> QED BY <1>1, <2>1, StayStays
<1>5. ASSUME NEW t \in Threads,
             TryStep(t) \/ SkipEvent(t) \/ GiveUp(t) \/ Land(t) \/ EndPass(t) \/ BeginStep(t)
      PROVE  /\ \A k \in Keys : store'[k] # None => Starts(store'[k], k[1])
             /\ \A u \in Threads : ThreadStay(u)'
  <2>1. \A u \in Threads : u # t => ThreadStay(u)'
    BY <1>1, <1>5, CallStep, StayStays DEF OthersStay
  <2>2. ThreadStay(t)' /\ \A k \in Keys : store'[k] # None => Starts(store'[k], k[1])
    <3>1. CASE TryStep(t)
      BY <1>1, <3>1, TryStays, TryLeaves
    <3>2. CASE Land(t)
      BY <3>2, LandStays
    <3>3. CASE SkipEvent(t) \/ GiveUp(t) \/ EndPass(t) \/ BeginStep(t)
      BY <1>1, <3>3, RestStays
    <3> QED BY <1>5, <3>1, <3>2, <3>3
  <2> QED BY <2>1, <2>2
<1> QED BY <1>3, <1>4, <1>5, NextCases

(* What an event or the store holds under a fsid was read on that          *)
(* filesystem, although the same handle bytes open other files elsewhere   *)
(* and other processes rename and delete between the open and the          *)
(* readlink; every registered mount's fsid is known.                       *)
THEOREM PathsStayCorrect ==
  ASSUME \A i \in DOMAIN Mounts : Mounts[i].fsid # Unknown
  PROVE  Spec => []PathsStayOnTheirFilesystem
<1>1. AllKnown
  BY DEF AllKnown
<1>2. Init => StayInv
  BY SentinelsAssumption DEF Init, StayInv, ThreadStay
<1>3. ResolverInv /\ StayInv /\ [Next]_vars => StayInv'
  BY <1>1, StayStep
<1>4. StayInv => PathsStayOnTheirFilesystem
  BY DEF StayInv, ThreadStay, Starts, PathsStayOnTheirFilesystem
<1> QED BY ResolverInvariant, <1>2, <1>3, <1>4, PTL DEF Spec
=============================================================================
