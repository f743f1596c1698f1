------------------------- MODULE HandleCache_proofs -------------------------
(***************************************************************************)
(* Theorems about module HandleCache, for any number of threads, calls,    *)
(* filesystems and handles: type correctness, that a lent path stays while *)
(* it is borrowed, and that the locked two-level map is the atomic map of  *)
(* module PathMemo.                                                        *)
(***************************************************************************)
EXTENDS HandleCache, TLAPS

UnderRead == {"reading", "lent"}
UnderWrite == {"writing", "inserting", "pruning"}

(* The guards: who holds the read guard, who holds the write guard, and    *)
(* never both.                                                             *)
GuardsHeld ==
  /\ \A t \in Threads :
       /\ pc[t] \in UnderRead => t \in readers
       /\ pc[t] \in UnderWrite => writer = t
  /\ writer # NoThread => readers = {}

(* Where a thread is says what it was called for; a level that a call is   *)
(* working on is there.                                                    *)
CallFits ==
  \A t \in Threads :
    /\ pc[t] # "idle" => call[t] \in Memo!Calls
    /\ pc[t] = "reading" => call[t] \in Memo!Reads
    /\ pc[t] = "lent" => call[t] \in Memo!Lookups
    /\ pc[t] = "writing" => call[t] \notin Memo!Reads
    /\ pc[t] = "inserting" => call[t] \in Memo!Remembers /\ call[t].fsid \in levels
    /\ pc[t] = "pruning" => call[t] \in Memo!Forgets /\ call[t].fsid \in levels

CacheInv == TypeOK /\ GuardsHeld /\ CallFits /\ LentPathStays

-----------------------------------------------------------------------------
(* The kinds of calls are told apart by their operation. *)
LEMMA CallKinds ==
  ASSUME NEW c \in Memo!Calls
  PROVE  /\ c.op = "with_path" <=> c \in Memo!Lookups
         /\ c.op \in {"len", "is_empty", "filesystems", "entries"} <=> c \in Memo!Counts
         /\ c.op = "remember" <=> c \in Memo!Remembers
         /\ c.op = "forget" <=> c \in Memo!Forgets
         /\ c.op = "forget_filesystem" => c \in [op : {"forget_filesystem"}, fsid : Fsids]
BY DEF Memo!Calls, Memo!Reads, Memo!Lookups, Memo!Counts, Memo!Remembers, Memo!Forgets, Memo!Drops

(* An entry of a well-typed store can be set. *)
LEMMA StoreSet ==
  ASSUME NEW s \in Memo!Stores, NEW f \in Fsids, NEW h \in Handles,
         NEW p \in Paths \cup {Unknown}
  PROVE  [s EXCEPT ![f][h] = p] \in Memo!Stores
BY DEF Memo!Stores

(* The type invariant is kept. *)
LEMMA TypeStep ==
  ASSUME CacheInv, [Next]_vars
  PROVE  TypeOK'
<1> USE DEF CacheInv
<1>1. ASSUME NEW t \in Threads, NEW c \in Memo!Calls, Invoke(t, c)
      PROVE  TypeOK'
  BY <1>1, MaxCallsAssumption DEF TypeOK, Invoke, map, lock
<1>2. ASSUME NEW t \in Threads, Read(t) \/ Write(t)
      PROVE  TypeOK'
  BY <1>2 DEF TypeOK, Read, Write, map
<1>3. ASSUME NEW t \in Threads, Release(t)
      PROVE  TypeOK'
  BY <1>3 DEF TypeOK, Release, map
<1>4. ASSUME NEW t \in Threads, LookUp(t)
      PROVE  TypeOK'
  <2>1. call[t] \in Memo!Lookups
    BY <1>4, CallKinds DEF LookUp, CallFits
  <2>2. known[call[t].fsid][call[t].handle] \in Paths \cup {Unknown}
    BY <2>1 DEF TypeOK, Memo!Lookups, Memo!Stores
  <2> QED BY <1>4, <2>2 DEF TypeOK, LookUp, map, lock
<1>5. ASSUME NEW t \in Threads, RunClosure(t) \/ Count(t)
      PROVE  TypeOK'
  BY <1>5 DEF TypeOK, RunClosure, Count, map, lock
<1>6. ASSUME NEW t \in Threads, RememberLevel(t)
      PROVE  TypeOK'
  <2>1. call[t] \in Memo!Remembers
    BY <1>6, CallKinds DEF RememberLevel, CallFits
  <2>2. call[t].fsid \in Fsids
    BY <2>1 DEF Memo!Remembers
  <2>3. Memo!Nothing[call[t].fsid] \in [Handles -> Paths \cup {Unknown}]
    BY <2>2 DEF Memo!Nothing
  <2>4. known' \in Memo!Stores
    BY <1>6, <2>2, <2>3 DEF RememberLevel, TypeOK, Memo!Stores
  <2> QED BY <1>6, <2>2, <2>4 DEF TypeOK, RememberLevel, lock
<1>7. ASSUME NEW t \in Threads, RememberEntry(t)
      PROVE  TypeOK'
  <2>1. call[t] \in Memo!Remembers
    BY <1>7 DEF RememberEntry, CallFits
  <2>2. call[t].fsid \in Fsids /\ call[t].handle \in Handles /\ call[t].path \in Paths
    BY <2>1 DEF Memo!Remembers
  <2>3. known' \in Memo!Stores
    BY <1>7, <2>2, StoreSet DEF RememberEntry, TypeOK
  <2> QED BY <1>7, <2>3 DEF TypeOK, RememberEntry, Done, lock
<1>8. ASSUME NEW t \in Threads, Forget(t)
      PROVE  TypeOK'
  <2>1. call[t] \in Memo!Forgets
    BY <1>8, CallKinds DEF Forget, CallFits
  <2>2. call[t].fsid \in Fsids /\ call[t].handle \in Handles
    BY <2>1 DEF Memo!Forgets
  <2>3. known' \in Memo!Stores
    BY <1>8, <2>2, StoreSet DEF Forget, TypeOK
  <2> QED BY <1>8, <2>3 DEF TypeOK, Forget, Done, lock
<1>9. ASSUME NEW t \in Threads, Prune(t) \/ ForgetFilesystem(t) \/ Clear(t)
      PROVE  TypeOK'
  BY <1>9 DEF TypeOK, Prune, ForgetFilesystem, Clear, Done, lock
<1>10. CASE UNCHANGED vars
  BY <1>10 DEF TypeOK, vars
<1> QED
  BY <1>1, <1>2, <1>3, <1>4, <1>5, <1>6, <1>7, <1>8, <1>9, <1>10 DEF Next, Step

-----------------------------------------------------------------------------
(* A thread under the write guard works alone. *)
LEMMA Exclusive ==
  ASSUME TypeOK, GuardsHeld, NEW t \in Threads, NEW u \in Threads, t # u,
         pc[t] \in UnderWrite
  PROVE  pc[u] \notin UnderRead \cup UnderWrite
<1>1. writer = t /\ writer # NoThread
  BY NoThreadAssumption DEF GuardsHeld
<1>2. u \notin readers /\ writer # u
  BY <1>1 DEF GuardsHeld
<1> QED BY <1>2 DEF GuardsHeld

(* The guards exclude each other after every step. *)
LEMMA GuardStep ==
  ASSUME CacheInv, [Next]_vars
  PROVE  GuardsHeld'
<1> USE DEF CacheInv, UnderRead, UnderWrite
<1>1. ASSUME NEW t \in Threads, NEW c \in Memo!Calls, Invoke(t, c)
      PROVE  GuardsHeld'
  BY <1>1 DEF TypeOK, GuardsHeld, Invoke, lock
<1>2. ASSUME NEW t \in Threads, Read(t)
      PROVE  GuardsHeld'
  BY <1>2 DEF TypeOK, GuardsHeld, Read
<1>3. ASSUME NEW t \in Threads, Write(t)
      PROVE  GuardsHeld'
  BY <1>3, NoThreadAssumption DEF TypeOK, GuardsHeld, Write
<1>4. ASSUME NEW t \in Threads, Release(t)
      PROVE  GuardsHeld'
  BY <1>4 DEF TypeOK, GuardsHeld, Release
<1>5. ASSUME NEW t \in Threads, LookUp(t) \/ RunClosure(t) \/ Count(t)
      PROVE  GuardsHeld'
  BY <1>5 DEF TypeOK, GuardsHeld, LookUp, RunClosure, Count, lock
<1>6. ASSUME NEW t \in Threads,
             \/ RememberLevel(t) \/ RememberEntry(t) \/ Forget(t)
             \/ Prune(t) \/ ForgetFilesystem(t) \/ Clear(t)
      PROVE  GuardsHeld'
  BY <1>6 DEF TypeOK, GuardsHeld, RememberLevel, RememberEntry, Forget, Prune,
              ForgetFilesystem, Clear, Done, lock
<1>7. CASE UNCHANGED vars
  BY <1>7 DEF GuardsHeld, vars
<1> QED BY <1>1, <1>2, <1>3, <1>4, <1>5, <1>6, <1>7 DEF Next, Step

(* The steps under the write guard, and the rest, which leave the map. *)
WriteStep(t) ==
  \/ RememberLevel(t) \/ RememberEntry(t) \/ Forget(t)
  \/ Prune(t) \/ ForgetFilesystem(t) \/ Clear(t)

(* What such a step leaves alone: the calls, what is lent, and where the   *)
(* others are, none of whom is under a guard.                              *)
LEMMA WriteStepAlone ==
  ASSUME CacheInv, NEW t \in Threads, WriteStep(t)
  PROVE  /\ UNCHANGED <<call, lent>>
         /\ pc'[t] \in {"inserting", "pruning", "release"}
         /\ \A u \in Threads \ {t} : pc'[u] = pc[u] /\ pc[u] \notin UnderRead \cup UnderWrite
<1>1. pc[t] \in UnderWrite
  BY DEF UnderWrite, WriteStep, RememberLevel, RememberEntry, Forget, Prune, ForgetFilesystem, Clear
<1>2. \A u \in Threads \ {t} : pc[u] \notin UnderRead \cup UnderWrite
  BY <1>1, Exclusive DEF CacheInv
<1>3. /\ UNCHANGED <<call, lent>>
      /\ \E next \in {"inserting", "pruning", "release"} : pc' = [pc EXCEPT ![t] = next]
  BY DEF WriteStep, RememberLevel, RememberEntry, Forget, Prune, ForgetFilesystem, Clear, Done
<1> QED BY <1>2, <1>3 DEF CacheInv, TypeOK

(* The calls go on fitting, and the levels they work on stay. *)
LEMMA CallStep ==
  ASSUME CacheInv, [Next]_vars
  PROVE  CallFits'
<1>1. ASSUME NEW t \in Threads, NEW c \in Memo!Calls, Invoke(t, c)
      PROVE  CallFits'
  BY <1>1 DEF CacheInv, TypeOK, CallFits, Invoke, map
<1>2. ASSUME NEW t \in Threads, Read(t) \/ Write(t) \/ Release(t)
      PROVE  CallFits'
  BY <1>2 DEF CacheInv, TypeOK, CallFits, Read, Write, Release, map
<1>3. ASSUME NEW t \in Threads, LookUp(t) \/ RunClosure(t) \/ Count(t)
      PROVE  CallFits'
  BY <1>3, CallKinds DEF CacheInv, TypeOK, CallFits, LookUp, RunClosure, Count, map
<1>4. ASSUME NEW t \in Threads, WriteStep(t)
      PROVE  CallFits'
  <2>1. ASSUME NEW u \in Threads \ {t}
        PROVE  pc'[u] = pc[u] /\ call'[u] = call[u] /\ pc[u] \in {"idle", "start", "release"}
    BY <1>4, WriteStepAlone DEF UnderRead, UnderWrite, CacheInv, TypeOK
  <2>2. pc'[t] = "inserting" => call[t] \in Memo!Remembers /\ call[t].fsid \in levels'
    BY <1>4, CallKinds DEF CacheInv, TypeOK, CallFits, WriteStep, RememberLevel, RememberEntry,
       Forget, Prune, ForgetFilesystem, Clear, Done
  <2>3. pc'[t] = "pruning" => call[t] \in Memo!Forgets /\ call[t].fsid \in levels'
    BY <1>4, CallKinds DEF CacheInv, TypeOK, CallFits, WriteStep, RememberLevel, RememberEntry,
       Forget, Prune, ForgetFilesystem, Clear, Done
  <2>4. call[t] \in Memo!Calls
    BY <1>4 DEF CacheInv, CallFits, WriteStep, RememberLevel, RememberEntry,
       Forget, Prune, ForgetFilesystem, Clear
  <2> QED BY <1>4, <2>1, <2>2, <2>3, <2>4, WriteStepAlone DEF CacheInv, CallFits
<1>5. CASE UNCHANGED vars
  BY <1>5 DEF CacheInv, CallFits, vars
<1> QED BY <1>1, <1>2, <1>3, <1>4, <1>5 DEF Next, Step, WriteStep

(* What is lent stays lent: only a step under the write guard changes the  *)
(* map, and then nothing is lent.                                          *)
LEMMA LentStep ==
  ASSUME CacheInv, [Next]_vars
  PROVE  LentPathStays'
<1>1. ASSUME NEW t \in Threads, NEW c \in Memo!Calls, Invoke(t, c)
      PROVE  LentPathStays'
  BY <1>1 DEF CacheInv, TypeOK, LentPathStays, Holds, Invoke, map
<1>2. ASSUME NEW t \in Threads, Read(t) \/ Write(t) \/ Release(t)
      PROVE  LentPathStays'
  BY <1>2 DEF CacheInv, TypeOK, LentPathStays, Holds, Read, Write, Release, map
<1>3. ASSUME NEW t \in Threads, LookUp(t) \/ RunClosure(t) \/ Count(t)
      PROVE  LentPathStays'
  BY <1>3 DEF CacheInv, TypeOK, LentPathStays, Holds, LookUp, RunClosure, Count, map
<1>4. ASSUME NEW t \in Threads, WriteStep(t)
      PROVE  LentPathStays'
  BY <1>4, WriteStepAlone DEF LentPathStays, UnderRead
<1>5. CASE UNCHANGED vars
  BY <1>5 DEF CacheInv, LentPathStays, Holds, vars
<1> QED BY <1>1, <1>2, <1>3, <1>4, <1>5 DEF Next, Step, WriteStep

LEMMA CacheInvInit == Init => CacheInv
BY NoThreadAssumption, MaxCallsAssumption
   DEF Init, CacheInv, TypeOK, GuardsHeld, CallFits, LentPathStays, UnderRead, UnderWrite,
       Memo!Filesystems

LEMMA CacheInvStep == CacheInv /\ [Next]_vars => CacheInv'
BY TypeStep, GuardStep, CallStep, LentStep DEF CacheInv

(* Type correctness of the cache, for every instance. *)
THEOREM CacheTypeCorrect == Spec => []TypeOK
<1>1. CacheInv => TypeOK
  BY DEF CacheInv
<1> QED BY <1>1, CacheInvInit, CacheInvStep, PTL DEF Spec

(* The path with_path lends to a closure is the store's entry for as long  *)
(* as the closure runs, whatever the other threads remember, forget and    *)
(* clear meanwhile.                                                        *)
THEOREM LentPathKept == Spec => []LentPathStays
<1>1. CacheInv => LentPathStays
  BY DEF CacheInv
<1> QED BY <1>1, CacheInvInit, CacheInvStep, PTL DEF Spec

-----------------------------------------------------------------------------
(***************************************************************************)
(* Nobody waits for nobody.  GuardsHeld says that who works holds a guard; *)
(* the converse is that a guard is held by a call at work, so no guard     *)
(* outlives its call and no call waits for a guard while it holds one.     *)
(***************************************************************************)
AtWork(t) == pc[t] \in UnderRead \cup UnderWrite \cup {"release"}

GuardsAreAtWork ==
  /\ \A t \in readers : AtWork(t)
  /\ writer # NoThread => AtWork(writer)

CanTakeItsGuard(t) == writer = NoThread /\ (call[t] \in Memo!Reads \/ readers = {})

SomebodyCanGoOn ==
  \A t \in Threads : pc[t] = "start" => CanTakeItsGuard(t) \/ \E u \in Threads : AtWork(u)

LEMMA AtWorkStep ==
  ASSUME CacheInv, GuardsAreAtWork, [Next]_vars
  PROVE  GuardsAreAtWork'
<1> USE DEF CacheInv, TypeOK, GuardsAreAtWork, AtWork, UnderRead, UnderWrite
<1>1. ASSUME NEW t \in Threads, NEW c \in Memo!Calls, Invoke(t, c)
      PROVE  GuardsAreAtWork'
  BY <1>1 DEF Invoke, lock
<1>2. ASSUME NEW t \in Threads, Read(t) \/ Write(t)
      PROVE  GuardsAreAtWork'
  BY <1>2 DEF Read, Write
<1>3. ASSUME NEW t \in Threads, Release(t)
      PROVE  GuardsAreAtWork'
  BY <1>3 DEF Release
<1>4. ASSUME NEW t \in Threads, LookUp(t) \/ RunClosure(t) \/ Count(t)
      PROVE  GuardsAreAtWork'
  BY <1>4 DEF LookUp, RunClosure, Count, lock
<1>5. ASSUME NEW t \in Threads, WriteStep(t)
      PROVE  GuardsAreAtWork'
  <2>1. readers' = readers /\ writer' = writer
    BY <1>5 DEF WriteStep, RememberLevel, RememberEntry, Forget, Prune, ForgetFilesystem, Clear,
                Done, lock
  <2> QED BY <1>5, <2>1, WriteStepAlone
<1>6. CASE UNCHANGED vars
  BY <1>6 DEF vars
<1> QED BY <1>1, <1>2, <1>3, <1>4, <1>5, <1>6 DEF Next, Step, WriteStep

(* The lock of the cache never leaves everyone waiting on everyone: while  *)
(* a call waits for its guard, the guard can be taken, or a call that has  *)
(* one and waits for nothing is at work, whatever the others do.           *)
THEOREM NobodyWaitsForNobody == Spec => []SomebodyCanGoOn
<1>1. Init => GuardsAreAtWork
  BY DEF Init, GuardsAreAtWork
<1>2. CacheInv /\ GuardsAreAtWork => SomebodyCanGoOn
  BY DEF CacheInv, TypeOK, GuardsAreAtWork, SomebodyCanGoOn, CanTakeItsGuard
<1> QED BY <1>1, <1>2, CacheInvInit, CacheInvStep, AtWorkStep, PTL DEF Spec

-----------------------------------------------------------------------------
(***************************************************************************)
(* The refinement.  `filesystems` counts levels, so it is right only       *)
(* because no empty level is left behind: a level without an entry is one  *)
(* that a call under the write guard is working on.                        *)
(***************************************************************************)
NoEmptyLevel ==
  \A f \in levels :
    \/ \E h \in Handles : known[f][h] # Unknown
    \/ \E t \in Threads : pc[t] \in {"inserting", "pruning"} /\ call[t].fsid = f

RefinementInv == CacheInv /\ NoEmptyLevel

LEMMA NoEmptyLevelStep ==
  ASSUME RefinementInv, [Next]_vars
  PROVE  NoEmptyLevel'
<1>1. ASSUME NEW t \in Threads, NEW c \in Memo!Calls, Invoke(t, c)
      PROVE  NoEmptyLevel'
  BY <1>1 DEF RefinementInv, CacheInv, TypeOK, NoEmptyLevel, Invoke, map
<1>2. ASSUME NEW t \in Threads, Read(t) \/ Write(t) \/ Release(t)
      PROVE  NoEmptyLevel'
  BY <1>2 DEF RefinementInv, CacheInv, TypeOK, NoEmptyLevel, Read, Write, Release, map
<1>3. ASSUME NEW t \in Threads, LookUp(t) \/ RunClosure(t) \/ Count(t)
      PROVE  NoEmptyLevel'
  BY <1>3 DEF RefinementInv, CacheInv, TypeOK, NoEmptyLevel, LookUp, RunClosure, Count, map
<1>4. ASSUME NEW t \in Threads, WriteStep(t)
      PROVE  NoEmptyLevel'
  <2>1. /\ UNCHANGED <<call, lent>>
        /\ \A u \in Threads \ {t} : pc'[u] = pc[u] /\ pc[u] \notin UnderRead \cup UnderWrite
    BY <1>4, WriteStepAlone DEF RefinementInv
  <2>2. \A f \in levels :
          \/ \E h \in Handles : known[f][h] # Unknown
          \/ pc[t] \in {"inserting", "pruning"} /\ call[t].fsid = f
    <3>1. \A u \in Threads : pc[u] \in {"inserting", "pruning"} => u = t
      BY <2>1 DEF UnderWrite
    <3> QED BY <3>1 DEF RefinementInv, NoEmptyLevel
  <2>3. CASE RememberLevel(t)
    <3>1. pc'[t] = "inserting"
      BY <2>3 DEF RememberLevel, RefinementInv, CacheInv, TypeOK
    <3>2. \A f \in levels : f # call[t].fsid => known'[f] = known[f] /\ f \in Fsids
      BY <2>3 DEF RememberLevel, RefinementInv, CacheInv, TypeOK, Memo!Stores
    <3>3. levels' = levels \cup {call[t].fsid} /\ pc[t] = "writing"
      BY <2>3 DEF RememberLevel
    <3> QED BY <2>1, <2>2, <3>1, <3>2, <3>3 DEF NoEmptyLevel
  <2>4. CASE RememberEntry(t)
    <3>1. /\ call[t].fsid \in Fsids /\ call[t].handle \in Handles
          /\ call[t].path \in Paths /\ call[t].path # Unknown
      BY <2>4, UnknownAssumption DEF RememberEntry, RefinementInv, CacheInv, CallFits, Memo!Remembers
    <3>2. /\ known'[call[t].fsid][call[t].handle] # Unknown
          /\ \A f \in levels : f # call[t].fsid => known'[f] = known[f]
      BY <2>4, <3>1 DEF RememberEntry, RefinementInv, CacheInv, TypeOK, Memo!Stores
    <3>3. levels' = levels
      BY <2>4 DEF RememberEntry
    <3> QED BY <2>2, <3>1, <3>2, <3>3 DEF NoEmptyLevel
  <2>5. CASE Forget(t)
    <3>1. call[t].fsid \notin levels => UNCHANGED <<levels, known>> /\ pc[t] = "writing"
      BY <2>5 DEF Forget
    <3>2. call[t].fsid \in levels =>
            /\ pc'[t] = "pruning" /\ levels' = levels /\ pc[t] = "writing"
            /\ \A f \in levels : f # call[t].fsid => known'[f] = known[f]
      BY <2>5 DEF Forget, Done, RefinementInv, CacheInv, TypeOK, Memo!Stores
    <3> QED BY <2>1, <2>2, <3>1, <3>2 DEF NoEmptyLevel
  <2>6. CASE Prune(t)
    <3>1. known' = known /\ levels' \subseteq levels
      BY <2>6 DEF Prune
    <3>2. call[t].fsid \in levels' => \E h \in Handles : known[call[t].fsid][h] # Unknown
      BY <2>6 DEF Prune
    <3> QED BY <2>2, <3>1, <3>2 DEF NoEmptyLevel
  <2>7. CASE ForgetFilesystem(t) \/ Clear(t)
    BY <2>2, <2>7 DEF ForgetFilesystem, Clear, NoEmptyLevel
  <2> QED BY <1>4, <2>3, <2>4, <2>5, <2>6, <2>7 DEF WriteStep
<1>5. CASE UNCHANGED vars
  BY <1>5 DEF RefinementInv, NoEmptyLevel, vars
<1> QED BY <1>1, <1>2, <1>3, <1>4, <1>5 DEF Next, Step, WriteStep

-----------------------------------------------------------------------------
(* What the abstract store says of an entry. *)
LEMMA StoreAt ==
  ASSUME NEW f \in Fsids, NEW h \in Handles
  PROVE  AbstractStore[f][h] = IF f \in levels THEN known[f][h] ELSE Unknown
BY DEF AbstractStore

(* A thread that goes on moves its own phase only. *)
LEMMA PhaseSet ==
  ASSUME TypeOK, NEW t \in Threads, NEW label, pc' = [pc EXCEPT ![t] = label]
  PROVE  AbstractPhase' = [AbstractPhase EXCEPT ![t] = PhaseOf(label)]
BY DEF TypeOK, AbstractPhase

(* A step that leaves the map, the calls and the answers, and goes on      *)
(* within a phase, is invisible.                                           *)
LEMMA Invisible ==
  ASSUME TypeOK, NEW t \in Threads, NEW label, pc' = [pc EXCEPT ![t] = label],
         PhaseOf(label) = PhaseOf(pc[t]), UNCHANGED <<call, answer>>,
         AbstractStore' = AbstractStore
  PROVE  UNCHANGED Memo!vars
<1>1. AbstractPhase' = [AbstractPhase EXCEPT ![t] = AbstractPhase[t]]
  BY PhaseSet DEF AbstractPhase
<1>2. AbstractPhase' = AbstractPhase
  BY <1>1 DEF AbstractPhase
<1> QED BY <1>2 DEF Memo!vars

(* A step that ends the work of a call is the moment the call takes        *)
(* effect.                                                                 *)
LEMMA TakesEffect ==
  ASSUME TypeOK, NEW t \in Threads, NEW label \in {"pruning", "release"},
         pc[t] \in {"reading", "lent", "writing", "inserting"},
         pc' = [pc EXCEPT ![t] = label], UNCHANGED call,
         answer' = [answer EXCEPT ![t] = Memo!AnswerOf(call[t], AbstractStore)],
         AbstractStore' = Memo!Effect(call[t], AbstractStore)
  PROVE  Memo!TakeEffect(t)
<1>1. AbstractPhase[t] = "called" /\ PhaseOf(label) = "answered"
  BY DEF AbstractPhase, PhaseOf
<1>2. AbstractPhase' = [AbstractPhase EXCEPT ![t] = "answered"]
  BY <1>1, PhaseSet
<1> QED BY <1>1, <1>2 DEF Memo!TakeEffect

LEMMA CardinalitySame == ASSUME NEW S PROVE Memo!Cardinality(S) = Cardinality(S)
BY Zenon DEF Memo!Cardinality, Cardinality

(* What the counting calls answer is what the abstract store holds. *)
LEMMA CountsAgree ==
  ASSUME RefinementInv, NEW t \in Threads, pc[t] = "reading", call[t] \in Memo!Counts
  PROVE  CountOf(call[t].op) = Memo!AnswerOf(call[t], AbstractStore)
<1> DEFINE op == call[t].op
<1>1. levels \subseteq Fsids /\ known \in Memo!Stores
  BY DEF RefinementInv, CacheInv, TypeOK
<1>2. op \in {"len", "is_empty", "filesystems", "entries"}
  BY DEF Memo!Counts
<1>3. {e \in levels \X Handles : Holds(e[1], e[2])} = Memo!Entries(AbstractStore)
  <2>1. ASSUME NEW e \in Fsids \X Handles
        PROVE  e \in levels \X Handles /\ Holds(e[1], e[2]) <=> e \in Memo!Entries(AbstractStore)
    BY StoreAt DEF Holds, Memo!Entries
  <2>2. Memo!Entries(AbstractStore) \subseteq Fsids \X Handles
    BY DEF Memo!Entries
  <2>3. levels \X Handles \subseteq Fsids \X Handles
    BY <1>1
  <2> QED BY <2>1, <2>2, <2>3
<1>4. levels = Memo!Filesystems(AbstractStore)
  <2>1. \A u \in Threads : pc[u] \notin {"inserting", "pruning"}
    BY Exclusive DEF RefinementInv, CacheInv, UnderRead, UnderWrite
  <2>2. \A f \in levels : \E h \in Handles : known[f][h] # Unknown
    BY <2>1 DEF RefinementInv, NoEmptyLevel
  <2>3. \A f \in Fsids : f \in levels <=> f \in Memo!Filesystems(AbstractStore)
    BY <2>2, StoreAt DEF Memo!Filesystems
  <2> QED BY <1>1, <2>3 DEF Memo!Filesystems
<1>5. CASE op = "len"
  BY <1>3, <1>5, CardinalitySame DEF CountOf, Memo!AnswerOf
<1>6. CASE op = "is_empty"
  <2>1. (\A f \in levels, h \in Handles : ~Holds(f, h)) = (Memo!Entries(AbstractStore) = {})
    <3>1. (\A f \in levels, h \in Handles : ~Holds(f, h))
            <=> {e \in levels \X Handles : Holds(e[1], e[2])} = {}
      <4>1. ASSUME NEW f \in levels, NEW h \in Handles, Holds(f, h)
            PROVE  <<f, h>> \in {e \in levels \X Handles : Holds(e[1], e[2])}
        BY <4>1
      <4>2. ASSUME NEW e \in levels \X Handles, Holds(e[1], e[2])
            PROVE  \E f \in levels, h \in Handles : Holds(f, h)
        BY <4>2
      <4> QED BY <4>1, <4>2
    <3> QED BY <1>3, <3>1
  <2> QED BY <1>6, <2>1 DEF CountOf, Memo!AnswerOf
<1>7. CASE op = "filesystems"
  BY <1>4, <1>7, CardinalitySame DEF CountOf, Memo!AnswerOf
<1>8. CASE op = "entries"
  <2>1. [f \in Fsids |-> IF f \in levels THEN known[f] ELSE Memo!Nothing[f]] = AbstractStore
    <3>1. ASSUME NEW f \in Fsids
          PROVE  (IF f \in levels THEN known[f] ELSE Memo!Nothing[f])
                   = [h \in Handles |-> IF f \in levels THEN known[f][h] ELSE Unknown]
      BY <1>1 DEF Memo!Stores, Memo!Nothing
    <3> QED BY <3>1 DEF AbstractStore
  <2> QED BY <1>8, <2>1 DEF CountOf, Memo!AnswerOf
<1> QED BY <1>2, <1>5, <1>6, <1>7, <1>8

(* A read leaves the abstract store, and a write answers its name only. *)
LEMMA ReadsAndWrites ==
  ASSUME NEW c \in Memo!Calls, NEW s
  PROVE  /\ c \in Memo!Reads => Memo!Effect(c, s) = s
         /\ c \notin Memo!Reads => Memo!AnswerOf(c, s) = <<c.op>>
<1>1. c \in Memo!Reads => c.op \in {"with_path", "len", "is_empty", "filesystems", "entries"}
  BY DEF Memo!Reads, Memo!Lookups, Memo!Counts
<1>2. c \notin Memo!Reads => c.op \notin {"with_path", "len", "is_empty", "filesystems", "entries"}
  BY CallKinds DEF Memo!Reads
<1> QED BY <1>1, <1>2 DEF Memo!Effect, Memo!AnswerOf

LEMMA AbstractStoreType ==
  ASSUME TypeOK
  PROVE  AbstractStore \in Memo!Stores
BY DEF TypeOK, AbstractStore, Memo!Stores

(* The steps of a read: a hit is invisible until its closure ran. *)
LEMMA ReadSimulation ==
  ASSUME RefinementInv, NEW t \in Threads, LookUp(t) \/ RunClosure(t) \/ Count(t)
  PROVE  Memo!TakeEffect(t) \/ UNCHANGED Memo!vars
<1>1. TypeOK /\ CallFits /\ LentPathStays
  BY DEF RefinementInv, CacheInv
<1>2. call[t] \in Memo!Reads /\ call[t] \in Memo!Calls /\ pc[t] \in {"reading", "lent"}
  BY <1>1 DEF LookUp, RunClosure, Count, CallFits, Memo!Reads
<1>3. AbstractStore' = AbstractStore /\ UNCHANGED call
  BY DEF LookUp, RunClosure, Count, map, AbstractStore
<1>4. Memo!Effect(call[t], AbstractStore) = AbstractStore
  BY <1>2, ReadsAndWrites
<1>5. ASSUME call[t] \in Memo!Lookups
      PROVE  /\ Memo!AnswerOf(call[t], AbstractStore)
                  = <<call[t].op, AbstractStore[call[t].fsid][call[t].handle]>>
             /\ call[t].fsid \in Fsids /\ call[t].handle \in Handles
  BY <1>5 DEF Memo!Lookups, Memo!AnswerOf
<1>6. CASE LookUp(t)
  <2>1. call[t] \in Memo!Lookups
    BY <1>2, <1>6, CallKinds DEF LookUp
  <2>2. CASE Holds(call[t].fsid, call[t].handle)
    <3>1. pc' = [pc EXCEPT ![t] = "lent"] /\ UNCHANGED answer /\ pc[t] = "reading"
      BY <1>6, <2>2 DEF LookUp
    <3>2. PhaseOf("lent") = PhaseOf("reading")
      BY DEF PhaseOf
    <3> QED BY <1>1, <1>3, <3>1, <3>2, Invisible
  <2>3. CASE ~Holds(call[t].fsid, call[t].handle)
    <3>1. /\ pc' = [pc EXCEPT ![t] = "release"] /\ pc[t] = "reading"
          /\ answer' = [answer EXCEPT ![t] = <<call[t].op, Unknown>>]
      BY <1>6, <2>3 DEF LookUp
    <3>2. AbstractStore[call[t].fsid][call[t].handle] = Unknown
      BY <1>5, <2>1, <2>3, StoreAt DEF Holds
    <3> QED BY <1>1, <1>3, <1>4, <1>5, <2>1, <3>1, <3>2, TakesEffect
  <2> QED BY <2>2, <2>3
<1>7. CASE RunClosure(t)
  <2>1. call[t] \in Memo!Lookups /\ Holds(call[t].fsid, call[t].handle)
    BY <1>1, <1>7 DEF RunClosure, CallFits, LentPathStays
  <2>2. AbstractStore[call[t].fsid][call[t].handle] = known[call[t].fsid][call[t].handle]
    BY <1>5, <2>1, StoreAt DEF Holds
  <2>3. /\ pc' = [pc EXCEPT ![t] = "release"] /\ pc[t] = "lent"
        /\ answer' = [answer EXCEPT ![t] = <<call[t].op, known[call[t].fsid][call[t].handle]>>]
    BY <1>7 DEF RunClosure
  <2> QED BY <1>1, <1>3, <1>4, <1>5, <2>1, <2>2, <2>3, TakesEffect
<1>8. CASE Count(t)
  <2>1. /\ pc' = [pc EXCEPT ![t] = "release"] /\ pc[t] = "reading"
        /\ answer' = [answer EXCEPT ![t] = CountOf(call[t].op)]
        /\ call[t] \in Memo!Counts
    BY <1>8 DEF Count
  <2> QED BY <1>1, <1>3, <1>4, <2>1, CountsAgree, TakesEffect
<1> QED BY <1>6, <1>7, <1>8

(* The steps of a write: making an empty level and removing one are        *)
(* invisible, the rest is the effect of the call.                          *)
LEMMA WriteSimulation ==
  ASSUME RefinementInv, NEW t \in Threads, WriteStep(t)
  PROVE  Memo!TakeEffect(t) \/ UNCHANGED Memo!vars
<1>1. /\ TypeOK /\ CallFits /\ levels \subseteq Fsids /\ known \in Memo!Stores
      /\ AbstractStore \in Memo!Stores
  BY AbstractStoreType DEF RefinementInv, CacheInv, TypeOK
<1>2. call[t] \in Memo!Calls /\ call[t] \notin Memo!Reads /\ UNCHANGED call
  BY <1>1, CallKinds DEF WriteStep, RememberLevel, RememberEntry, Forget, Prune, ForgetFilesystem, Clear,
     Done, CallFits, Memo!Reads, Memo!Lookups, Memo!Counts, Memo!Remembers, Memo!Forgets
<1>3. Memo!AnswerOf(call[t], AbstractStore) = <<call[t].op>>
  BY <1>2, ReadsAndWrites
<1>4. AbstractStore' = [f \in Fsids |-> [h \in Handles |-> IF f \in levels' THEN known'[f][h] ELSE Unknown]]
  BY DEF AbstractStore
<1>5. CASE RememberLevel(t)
  <2>1. /\ pc' = [pc EXCEPT ![t] = "inserting"] /\ UNCHANGED answer /\ pc[t] = "writing"
        /\ levels' = levels \cup {call[t].fsid}
        /\ known' = IF call[t].fsid \in levels THEN known
                    ELSE [known EXCEPT ![call[t].fsid] = Memo!Nothing[call[t].fsid]]
    BY <1>5 DEF RememberLevel
  <2>2. call[t].fsid \in Fsids
    BY <1>2, <1>5, CallKinds DEF RememberLevel, Memo!Remembers
  <2>3. ASSUME NEW f \in Fsids, NEW h \in Handles
        PROVE  (IF f \in levels' THEN known'[f][h] ELSE Unknown)
                 = (IF f \in levels THEN known[f][h] ELSE Unknown)
    BY <1>1, <2>1, <2>2 DEF Memo!Stores, Memo!Nothing
  <2>4. AbstractStore' = AbstractStore
    BY <1>4, <2>3 DEF AbstractStore
  <2>5. PhaseOf("inserting") = PhaseOf("writing")
    BY DEF PhaseOf
  <2> QED BY <1>1, <1>2, <2>1, <2>4, <2>5, Invisible
<1>6. CASE RememberEntry(t)
  <2>1. /\ pc' = [pc EXCEPT ![t] = "release"] /\ pc[t] = "inserting"
        /\ answer' = [answer EXCEPT ![t] = <<call[t].op>>]
        /\ levels' = levels
        /\ known' = [known EXCEPT ![call[t].fsid][call[t].handle] = call[t].path]
    BY <1>6 DEF RememberEntry, Done
  <2>2. /\ call[t].fsid \in Fsids /\ call[t].fsid \in levels /\ call[t].handle \in Handles
        /\ call[t].path \in Paths /\ call[t].op = "remember"
    BY <1>1, <2>1 DEF CallFits, Memo!Remembers
  <2>3. Memo!Effect(call[t], AbstractStore)
          = [AbstractStore EXCEPT ![call[t].fsid][call[t].handle] = call[t].path]
    BY <2>2 DEF Memo!Effect
  <2>4. AbstractStore' = [AbstractStore EXCEPT ![call[t].fsid][call[t].handle] = call[t].path]
    BY <1>1, <1>4, <2>1, <2>2 DEF AbstractStore, Memo!Stores
  <2> QED BY <1>1, <1>2, <1>3, <2>1, <2>3, <2>4, TakesEffect
<1>7. CASE Forget(t)
  <2>1. /\ call[t].fsid \in Fsids /\ call[t].handle \in Handles
        /\ call[t].op = "forget" /\ pc[t] = "writing"
    BY <1>2, <1>7, CallKinds DEF Forget, Memo!Forgets
  <2>2. /\ answer' = [answer EXCEPT ![t] = <<call[t].op>>]
        /\ \E label \in {"pruning", "release"} : pc' = [pc EXCEPT ![t] = label]
        /\ levels' = levels
        /\ known' = IF call[t].fsid \in levels
                    THEN [known EXCEPT ![call[t].fsid][call[t].handle] = Unknown] ELSE known
    BY <1>7 DEF Forget, Done
  <2>3. Memo!Effect(call[t], AbstractStore)
          = [AbstractStore EXCEPT ![call[t].fsid][call[t].handle] = Unknown]
    BY <2>1 DEF Memo!Effect
  <2>4. AbstractStore' = [AbstractStore EXCEPT ![call[t].fsid][call[t].handle] = Unknown]
    BY <1>1, <1>4, <2>1, <2>2 DEF AbstractStore, Memo!Stores
  <2> QED BY <1>1, <1>2, <1>3, <2>1, <2>2, <2>3, <2>4, TakesEffect
<1>8. CASE Prune(t)
  <2>1. /\ pc' = [pc EXCEPT ![t] = "release"] /\ UNCHANGED <<answer, known>> /\ pc[t] = "pruning"
        /\ levels' = IF \A h \in Handles : known[call[t].fsid][h] = Unknown
                     THEN levels \ {call[t].fsid} ELSE levels
    BY <1>8 DEF Prune
  <2>2. ASSUME NEW f \in Fsids, NEW h \in Handles
        PROVE  (IF f \in levels' THEN known'[f][h] ELSE Unknown)
                 = (IF f \in levels THEN known[f][h] ELSE Unknown)
    BY <2>1
  <2>3. AbstractStore' = AbstractStore
    BY <1>4, <2>2 DEF AbstractStore
  <2>4. PhaseOf("release") = PhaseOf("pruning")
    BY DEF PhaseOf
  <2> QED BY <1>1, <1>2, <2>1, <2>3, <2>4, Invisible
<1>9. CASE ForgetFilesystem(t)
  <2>1. /\ call[t].fsid \in Fsids /\ call[t].op = "forget_filesystem" /\ pc[t] = "writing"
    BY <1>2, <1>9, CallKinds DEF ForgetFilesystem
  <2>2. /\ pc' = [pc EXCEPT ![t] = "release"]
        /\ answer' = [answer EXCEPT ![t] = <<call[t].op>>]
        /\ levels' = levels \ {call[t].fsid} /\ known' = known
    BY <1>9 DEF ForgetFilesystem, Done
  <2>3. Memo!Effect(call[t], AbstractStore)
          = [AbstractStore EXCEPT ![call[t].fsid] = Memo!Nothing[call[t].fsid]]
    BY <2>1 DEF Memo!Effect
  <2>4. AbstractStore' = [AbstractStore EXCEPT ![call[t].fsid] = Memo!Nothing[call[t].fsid]]
    BY <1>4, <2>1, <2>2 DEF AbstractStore, Memo!Nothing
  <2> QED BY <1>1, <1>2, <1>3, <2>1, <2>2, <2>3, <2>4, TakesEffect
<1>10. CASE Clear(t)
  <2>1. /\ pc' = [pc EXCEPT ![t] = "release"] /\ pc[t] = "writing" /\ call[t].op = "clear"
        /\ answer' = [answer EXCEPT ![t] = <<call[t].op>>] /\ levels' = {}
    BY <1>10 DEF Clear, Done
  <2>2. Memo!Effect(call[t], AbstractStore) = Memo!Nothing
    BY <2>1 DEF Memo!Effect
  <2>3. AbstractStore' = Memo!Nothing
    BY <1>4, <2>1 DEF Memo!Nothing
  <2> QED BY <1>1, <1>2, <1>3, <2>1, <2>2, <2>3, TakesEffect
<1> QED BY <1>5, <1>6, <1>7, <1>8, <1>9, <1>10 DEF WriteStep

-----------------------------------------------------------------------------
(* Every step of the cache is a step of the atomic map or a stutter. *)
LEMMA Simulation ==
  ASSUME RefinementInv, [Next]_vars
  PROVE  [Memo!Next]_(Memo!vars)
<1>1. TypeOK
  BY DEF RefinementInv, CacheInv
<1>2. ASSUME NEW t \in Threads, NEW c \in Memo!Calls, Invoke(t, c)
      PROVE  Memo!Invoke(t, c)
  <2>1. AbstractPhase[t] = "idle" /\ PhaseOf("start") = "called"
    BY <1>2 DEF Invoke, AbstractPhase, PhaseOf
  <2>2. AbstractPhase' = [AbstractPhase EXCEPT ![t] = "called"]
    BY <1>1, <1>2, <2>1, PhaseSet DEF Invoke
  <2> QED BY <1>2, <2>1, <2>2 DEF Invoke, map, AbstractStore, Memo!Invoke
<1>3. ASSUME NEW t \in Threads, Read(t) \/ Write(t)
      PROVE  UNCHANGED Memo!vars
  <2>1. PICK label \in {"reading", "writing"} : pc' = [pc EXCEPT ![t] = label]
    BY <1>3 DEF Read, Write
  <2>2. PhaseOf(label) = PhaseOf(pc[t])
    BY <1>3 DEF Read, Write, PhaseOf
  <2> QED BY <1>1, <1>3, <2>1, <2>2, Invisible DEF Read, Write, map, AbstractStore
<1>4. ASSUME NEW t \in Threads, Release(t)
      PROVE  Memo!Return(t)
  <2>1. AbstractPhase[t] = "answered" /\ PhaseOf("idle") = "idle"
    BY <1>4 DEF Release, AbstractPhase, PhaseOf
  <2>2. AbstractPhase' = [AbstractPhase EXCEPT ![t] = "idle"]
    BY <1>1, <1>4, <2>1, PhaseSet DEF Release
  <2> QED BY <1>4, <2>1, <2>2 DEF Release, map, AbstractStore, Memo!Return
<1>5. ASSUME NEW t \in Threads, LookUp(t) \/ RunClosure(t) \/ Count(t) \/ WriteStep(t)
      PROVE  Memo!TakeEffect(t) \/ UNCHANGED Memo!vars
  BY <1>5, ReadSimulation, WriteSimulation
<1>6. CASE UNCHANGED vars
  BY <1>6 DEF vars, AbstractStore, AbstractPhase, Memo!vars
<1> QED
  BY <1>2, <1>3, <1>4, <1>5, <1>6 DEF Next, Step, WriteStep, Memo!Next

(* The safety half of ImplementsPathMemo, for any number of threads and    *)
(* calls: the RwLock, the two levels and the steps under the guards are    *)
(* one atomic map to everybody outside.                                    *)
THEOREM CacheIsAtomic == Spec => Memo!Atomic
<1>1. Init => RefinementInv
  <2>1. Init => NoEmptyLevel
    BY DEF Init, NoEmptyLevel, Memo!Filesystems
  <2> QED BY <2>1, CacheInvInit DEF RefinementInv
<1>2. RefinementInv /\ [Next]_vars => RefinementInv'
  BY CacheInvStep, NoEmptyLevelStep DEF RefinementInv
<1>3. Init => Memo!Init
  <2>1. Init => AbstractPhase = [t \in Threads |-> "idle"]
    BY DEF Init, AbstractPhase, PhaseOf
  <2>2. Init => AbstractStore \in Memo!Stores
    BY CacheInvInit, AbstractStoreType DEF CacheInv
  <2> QED BY <2>1, <2>2 DEF Init, Memo!Init
<1>4. RefinementInv /\ [Next]_vars => [Memo!Next]_(Memo!vars)
  BY Simulation
<1> QED BY <1>1, <1>2, <1>3, <1>4, PTL DEF Spec, Memo!Atomic
=============================================================================
