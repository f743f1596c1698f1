---------------------------- MODULE Mounts_proofs ----------------------------
(***************************************************************************)
(* Proofs about Mounts, for any filesystems, objects, names and registry,  *)
(* and any number of renames and deletions between the system calls.       *)
(***************************************************************************)
EXTENDS Mounts, FiniteSetTheorems, TLAPS

Path == Seq(Name) \ {<<>>}
Looping == pc \in {"candidate", "filter", "open", "readlink"}
Outcomes == Errnos \cup {"ESTALE", "EPERM"}

WorldInv ==
  /\ name \in [Objects -> Path]
  /\ linked \in [Objects -> BOOLEAN]
  /\ inode \in [Objects -> BOOLEAN]
  /\ privileged \in BOOLEAN

(* An fsid on record is the one of the descriptor it stands beside. *)
RegistryInv ==
  /\ entries \in Seq([fs : Filesystems, fsid : Filesystems \cup {Unknown}])
  /\ \A i \in DOMAIN entries : entries[i].fsid \in {entries[i].fs, Unknown}

CallInv ==
  /\ pc \in {"idle", "candidate", "filter", "open", "readlink", "fid", "plain", "done"}
  /\ Looping => call \in Reported
  /\ pc \in {"idle", "fid", "plain"} => ~Resolving
  /\ pc = "done" /\ Resolving => call \in Reported

(* What was seen of an object is its name and the link that name had; and  *)
(* while a call runs, what is true now was seen.                           *)
FactShape(m) ==
  /\ m.object \in Objects /\ m.name \in Path
  /\ m.link = IF m.linked THEN m.name ELSE AddMarker(m.name)

SeenInv ==
  /\ \A m \in seen : FactShape(m)
  /\ Running => Facts \subseteq seen

(* What the loop holds: the candidate's fsid is the right one if it is     *)
(* known, it passed the filter, and the open object has the call's bytes   *)
(* on the candidate's filesystem.                                          *)
CandidateInv ==
  /\ Looping => at \in 1..(Len(entries) + 1)
  /\ pc \in {"filter", "open", "readlink"} =>
       /\ at <= Len(entries)
       /\ known \in {entries[at].fs, Unknown}
       /\ call.form = "registry" => known = entries[at].fsid
  /\ pc \in {"open", "readlink"} => WantedFilesystem(known, call.wanted)
  /\ pc = "readlink" =>
       /\ opened \in Objects
       /\ FsOf[opened] = entries[at].fs /\ BytesOf[opened] = BytesOf[call.object]

(* The loop's account of the candidates before `n`: each that could answer *)
(* was tried, and as long as the object exists, on a filesystem that       *)
(* decodes handles, each that a privileged caller tried failed for a       *)
(* reason of its own, which has nothing to do with the object.             *)
Answering(n) == {i \in 1..n : i \in DOMAIN entries /\ CanAnswer(i)}
Selected(n) == {i \in 1..n : i \in OnFilesystem(call.wanted)}
OwnFailures == {i \in DOMAIN tried : tried[i] \in Errnos}

TriedInv ==
  /\ tried \in Seq(Outcomes)
  /\ Looping =>
       /\ last = IF tried = <<>> THEN "EXDEV" ELSE tried[Len(tried)]
       /\ attempted <=> (tried # <<>> \/ pc \in {"open", "readlink"})
       /\ Len(tried) >= Cardinality(Answering(at - 1))
       /\ call.form = "registry" => Len(tried) = Cardinality(Selected(at - 1))
       /\ stayed => inode[call.object]
       /\ stayed /\ privileged /\ FsOf[call.object] \notin FidOnly =>
            Cardinality(OwnFailures) >= Cardinality(Answering(at - 1))

BaseInv == WorldInv /\ RegistryInv /\ CallInv /\ SeenInv /\ CandidateInv
MountsInv == BaseInv /\ PathIsTheObjects /\ TriedInv /\ FailureIsEarned

USE HandlesAssumption, UnknownAssumption, NamesAssumption, ErrnosAssumption
  DEF HandlesAssumption, UnknownAssumption, NamesAssumption, ErrnosAssumption

-----------------------------------------------------------------------------
(***************************************************************************)
(* Lemmas about paths and the marker.                                      *)
(***************************************************************************)

(* A marker more leaves a component a component. *)
LEMMA ComponentMarked ==
  ASSUME NEW c \in Name
  PROVE  /\ c.markers \in Nat /\ c.base \in Bases /\ c # Component("", 0)
         /\ c = Component(c.base, c.markers)
         /\ [c EXCEPT !.markers = c.markers + 1] = Component(c.base, c.markers + 1)
         /\ Component(c.base, c.markers + 1) \in Name
<1>1. c \in [base : Bases, markers : Nat] /\ c # Component("", 0)
  BY DEF Name
<1>2. c.markers \in Nat /\ c.base \in Bases /\ c = Component(c.base, c.markers)
  BY <1>1 DEF Component
<1>3. [c EXCEPT !.markers = c.markers + 1] = Component(c.base, c.markers + 1)
  <2>1. \A b \in Bases, k \in Nat :
          [[base |-> b, markers |-> k] EXCEPT !.markers = k + 1] = [base |-> b, markers |-> k + 1]
    OBVIOUS
  <2> QED BY <1>2, <2>1 DEF Component
<1>4. Component(c.base, c.markers + 1) \in [base : Bases, markers : Nat]
  BY <1>2 DEF Component
<1>5. Component(c.base, c.markers + 1).markers # Component("", 0).markers
  BY <1>2 DEF Component
<1> QED BY <1>1, <1>2, <1>3, <1>4, <1>5 DEF Name

(* The marker behind a path leaves it a path, of which the last component  *)
(* is marked and loses the marker again.                                   *)
LEMMA MarkerAdded ==
  ASSUME NEW p \in Path
  PROVE  /\ AddMarker(p) \in Path
         /\ Len(AddMarker(p)) = Len(p)
         /\ AddMarker(p)[Len(p)] = Component(p[Len(p)].base, p[Len(p)].markers + 1)
         /\ \A i \in 1..Len(p) : i # Len(p) => AddMarker(p)[i] = p[i]
<1>1. PICK n \in Nat : n = Len(p) /\ n > 0 /\ p \in Seq(Name)
  BY DEF Path
<1>2. PICK c \in Name : c = p[n]
  BY <1>1
<1>3. PICK d \in Name : d = Component(c.base, c.markers + 1)
  BY ComponentMarked
<1>4. AddMarker(p) = [p EXCEPT ![n] = d]
  BY <1>1, <1>2, <1>3, ComponentMarked DEF AddMarker
<1>5. AddMarker(p) \in Seq(Name) /\ Len(AddMarker(p)) = n
  BY <1>1, <1>3, <1>4
<1>6. AddMarker(p)[n] = d /\ \A i \in 1..n : i # n => AddMarker(p)[i] = p[i]
  BY <1>1, <1>4
<1> QED BY <1>1, <1>2, <1>3, <1>5, <1>6 DEF Path

(* A link is a path, and a fact of now has the shape of what was seen. *)
LEMMA FactsShaped ==
  ASSUME WorldInv
  PROVE  /\ \A o \in Objects : LinkText(o) \in Path
         /\ \A m \in Facts : FactShape(m)
<1>1. \A o \in Objects : name[o] \in Path /\ LinkText(o) \in Path
  BY MarkerAdded DEF WorldInv, LinkText
<1> QED BY <1>1 DEF Facts, FactShape, LinkText

-----------------------------------------------------------------------------
(***************************************************************************)
(* What a call holds at each step.                                         *)
(***************************************************************************)
(* Nothing is registered and no call runs. *)
LEMMA InitEstablishes == Init => MountsInv
<1> SUFFICES ASSUME Init PROVE MountsInv
  OBVIOUS
<1>1. WorldInv
  <2>1. \A o \in Objects : name[o] \in Path
    BY DEF Init, Path
  <2>2. name \in [Objects -> Path]
    BY <2>1 DEF Init
  <2> QED BY <2>2 DEF Init, WorldInv
<1>2. RegistryInv /\ CallInv /\ SeenInv /\ CandidateInv
  BY DEF Init, RegistryInv, CallInv, SeenInv, CandidateInv, Looping, Running, Resolving
<1>3. PathIsTheObjects /\ TriedInv /\ FailureIsEarned
  BY DEF Init, PathIsTheObjects, TriedInv, FailureIsEarned, Looping
<1> QED BY <1>1, <1>2, <1>3 DEF MountsInv, BaseInv

(* Renames, deletions and evictions: whatever else they change, a running  *)
(* call sees what is true afterwards, and an open object stays.            *)
LEMMA WorldTyped ==
  ASSUME WorldInv,
         \/ \E o \in Objects : (\E p \in Names[FsOf[o]] : Rename(o, p)) \/ Unlink(o) \/ Evict(o)
  PROVE  WorldInv' /\ Change
<1>1. ASSUME NEW o \in Objects, NEW p \in Names[FsOf[o]], Rename(o, p) PROVE WorldInv'
  <2>1. p \in Path
    BY DEF Path
  <2> QED BY <1>1, <2>1 DEF Rename, Change, WorldInv
<1>2. ASSUME NEW o \in Objects, Unlink(o) \/ Evict(o) PROVE WorldInv'
  BY <1>2 DEF Unlink, Evict, Change, WorldInv
<1> QED BY <1>1, <1>2 DEF Rename, Unlink, Evict

(* The same of the facts a step leaves. *)
LEMMA FactsShapedNext ==
  ASSUME WorldInv'
  PROVE  \A m \in Facts' : FactShape(m)
<1>1. \A o \in Objects : name'[o] \in Path /\ LinkText(o)' \in Path
  BY MarkerAdded DEF WorldInv, LinkText
<1> QED BY <1>1 DEF Facts, FactShape, LinkText

(* The call and the registry are not touched, and the new facts are seen.  *)
LEMMA WorldBase ==
  ASSUME BaseInv, WorldInv', Change
  PROVE  BaseInv'
<1>1. RegistryInv' /\ CallInv' /\ CandidateInv'
  BY DEF BaseInv, Change, RegistryInv, CallInv, CandidateInv, Looping, Resolving, walk, outcome,
    WantedFilesystem
<1>2. SeenInv'
  <2>1. \A m \in seen' : FactShape(m)
    BY FactsShapedNext DEF BaseInv, Change, SeenInv
  <2>2. Running' => Facts' \subseteq seen'
    BY DEF Change, Running
  <2> QED BY <2>1, <2>2 DEF SeenInv
<1> QED BY <1>1, <1>2 DEF BaseInv

(* A step that leaves the objects alone leaves what is true of them.       *)
LEMMA SeenStays ==
  ASSUME BaseInv, UNCHANGED <<world, seen>>, Running' => Running
  PROVE  WorldInv' /\ SeenInv'
<1>1. WorldInv'
  BY DEF BaseInv, WorldInv, world
<1>2. Facts' = Facts
  BY DEF Facts, LinkText, world
<1> QED BY <1>1, <1>2 DEF BaseInv, SeenInv

(* A registration is of a descriptor and its own fsid, or of none. *)
LEMMA PushBase ==
  ASSUME BaseInv, NEW fs \in Filesystems, NEW fsid \in {fs, Unknown}, Push(Entry(fs, fsid))
  PROVE  BaseInv'
<1> USE DEF Push
<1>1. WorldInv' /\ SeenInv'
  BY SeenStays DEF history, Running
<1>2. RegistryInv'
  BY DEF BaseInv, RegistryInv, Entry
<1>3. CallInv' /\ CandidateInv'
  BY DEF BaseInv, CallInv, CandidateInv, Looping, Resolving, walk
<1> QED BY <1>1, <1>2, <1>3 DEF BaseInv

(* A registry that is dropped is empty. *)
LEMMA WithFdBase ==
  ASSUME BaseInv, WithFdFails
  PROVE  BaseInv'
<1> USE DEF WithFdFails
<1>1. WorldInv' /\ SeenInv'
  BY SeenStays DEF history, Running
<1>2. RegistryInv'
  BY DEF RegistryInv
<1>3. CallInv' /\ CandidateInv'
  BY DEF BaseInv, CallInv, CandidateInv, Looping, Resolving, walk
<1> QED BY <1>1, <1>2, <1>3 DEF BaseInv

(* A call starts with what is true now as the only thing seen.             *)
LEMMA SeenStarts ==
  ASSUME BaseInv, UNCHANGED world, seen' = Facts
  PROVE  WorldInv' /\ SeenInv'
<1>1. WorldInv'
  BY DEF BaseInv, WorldInv, world
<1>2. Facts' = Facts
  BY DEF Facts, LinkText, world
<1> QED BY <1>1, <1>2, FactsShaped DEF BaseInv, SeenInv

(* The checks before the loop. *)
LEMMA ResolveBase ==
  ASSUME BaseInv, NEW c \in Reported, Resolve(c)
  PROVE  BaseInv'
<1> USE DEF Resolve, Finish
<1>1. WorldInv' /\ SeenInv'
  BY SeenStarts
<1>2. RegistryInv'
  BY DEF BaseInv, RegistryInv
<1>3. CallInv'
  BY DEF CallInv, Looping, Reported, Resolving
<1>4. CandidateInv'
  BY DEF BaseInv, RegistryInv, CandidateInv, Looping
<1> QED BY <1>1, <1>2, <1>3, <1>4 DEF BaseInv

(* The candidate's fsid, on record or probed now. *)
LEMMA CandidateBase ==
  ASSUME BaseInv, Candidates \/ \E probed \in BOOLEAN : ProbedCandidates(probed)
  PROVE  BaseInv'
<1>1. PICK fsid : /\ NextCandidate(fsid) /\ at <= Len(entries)
                  /\ fsid \in {entries[at].fs, Unknown}
                  /\ call.form = "registry" => fsid = entries[at].fsid
  <2>1. CASE Candidates
    <3>1. at \in DOMAIN entries
      BY <2>1 DEF Candidates, NextCandidate, BaseInv, CandidateInv, Looping, RegistryInv
    <3> QED BY <2>1, <3>1 DEF Candidates, BaseInv, RegistryInv
  <2>2. CASE \E probed \in BOOLEAN : ProbedCandidates(probed)
    BY <2>2 DEF ProbedCandidates, FsidOfFd
  <2> QED BY <2>1, <2>2
<1> USE DEF NextCandidate
<1>2. WorldInv' /\ SeenInv'
  BY <1>1, SeenStays DEF history, Running
<1>3. RegistryInv' /\ CallInv'
  BY <1>1 DEF BaseInv, RegistryInv, CallInv, Looping, Resolving
<1>4. CandidateInv'
  BY <1>1 DEF BaseInv, CandidateInv, Looping
<1> QED BY <1>2, <1>3, <1>4 DEF BaseInv

(* What is opened passed the filter. *)
LEMMA FilterBase ==
  ASSUME BaseInv, Filter
  PROVE  BaseInv'
<1> USE DEF Filter
<1>1. WorldInv' /\ SeenInv'
  BY SeenStays DEF history, Running
<1>2. RegistryInv' /\ CallInv'
  BY DEF BaseInv, RegistryInv, CallInv, Looping, Resolving
<1>3. CandidateInv'
  BY DEF BaseInv, RegistryInv, CandidateInv, Looping, WantedFilesystem
<1> QED BY <1>1, <1>2, <1>3 DEF BaseInv

(* What was opened has the bytes of the call, where the candidate is. *)
LEMMA OpenBase ==
  ASSUME BaseInv, Open
  PROVE  BaseInv'
<1> USE DEF Open
<1>1. WorldInv' /\ SeenInv'
  BY SeenStays DEF history, Running
<1>2. RegistryInv' /\ CallInv'
  BY DEF BaseInv, RegistryInv, CallInv, Looping, Resolving
<1>3. CandidateInv'
  BY DEF BaseInv, CandidateInv, Looping, WantedFilesystem, Decoded
<1> QED BY <1>1, <1>2, <1>3 DEF BaseInv

(* A failure goes on with the next candidate. *)
LEMMA FailedBase ==
  ASSUME BaseInv, pc \in {"open", "readlink"}, NEW errno, Failed(errno)
  PROVE  BaseInv'
<1> USE DEF Failed
<1>1. WorldInv' /\ SeenInv'
  BY SeenStays DEF Running
<1>2. RegistryInv' /\ CallInv'
  BY DEF BaseInv, RegistryInv, CallInv, Looping, Resolving
<1>3. CandidateInv'
  BY DEF BaseInv, RegistryInv, CandidateInv, Looping
<1> QED BY <1>1, <1>2, <1>3 DEF BaseInv

(* The ways out of the loop. *)
LEMMA ReturnBase ==
  ASSUME BaseInv, ReadLink \/ NoCandidateLeft
  PROVE  BaseInv'
<1> USE DEF ReadLink, NoCandidateLeft, Finish
<1>1. WorldInv' /\ SeenInv'
  BY SeenStays DEF Running, history
<1>2. RegistryInv' /\ CallInv' /\ CandidateInv'
  BY DEF BaseInv, RegistryInv, CallInv, CandidateInv, Looping, Resolving, walk
<1> QED BY <1>1, <1>2 DEF BaseInv

(* Encoding is not resolving. *)
LEMMA BeginEncodeBase ==
  ASSUME BaseInv, NEW c, BeginEncode(c), c.form \notin {"slice", "registry"}
  PROVE  BaseInv'
<1> USE DEF BeginEncode
<1>1. WorldInv' /\ SeenInv'
  BY SeenStarts
<1>2. RegistryInv' /\ CallInv' /\ CandidateInv'
  BY DEF BaseInv, RegistryInv, CallInv, CandidateInv, Looping, Resolving
<1> QED BY <1>1, <1>2 DEF BaseInv

(* An attempt to encode changes nothing but the outcome. *)
LEMMA EncodeBase ==
  ASSUME BaseInv, EncodeFid \/ EncodeRetry \/ EncodePlain
  PROVE  BaseInv'
<1>1. /\ pc \in {"fid", "plain"} /\ pc' \in {"plain", "done"}
      /\ UNCHANGED <<world, entries, walk, history>>
  BY DEF EncodeFid, EncodeRetry, EncodePlain, Encode, Finish
<1>2. WorldInv' /\ SeenInv'
  BY <1>1, SeenStays DEF Running, history
<1>3. RegistryInv' /\ CallInv' /\ CandidateInv'
  BY <1>1 DEF BaseInv, RegistryInv, CallInv, CandidateInv, Looping, Resolving, walk
<1> QED BY <1>2, <1>3 DEF BaseInv

(* The caller is done with the outcome. *)
LEMMA ClearBase ==
  ASSUME BaseInv, ClearPath
  PROVE  BaseInv'
<1> USE DEF ClearPath
<1>1. WorldInv' /\ RegistryInv' /\ CallInv' /\ CandidateInv'
  BY DEF BaseInv, WorldInv, RegistryInv, CallInv, CandidateInv, Looping, Resolving, world
<1>2. SeenInv'
  BY DEF SeenInv, Running
<1> QED BY <1>1, <1>2 DEF BaseInv

(* What a call holds is preserved by every step. *)
LEMMA BaseStep == BaseInv /\ [Next]_vars => BaseInv'
<1> SUFFICES ASSUME BaseInv, [Next]_vars PROVE BaseInv'
  OBVIOUS
<1>1. CASE \E o \in Objects : (\E p \in Names[FsOf[o]] : Rename(o, p)) \/ Unlink(o) \/ Evict(o)
  BY <1>1, WorldTyped, WorldBase DEF BaseInv
<1>2. ASSUME NEW fs \in Filesystems, NEW probed \in BOOLEAN, Add(fs, probed) \/ AddWithFsid(fs)
      PROVE  BaseInv'
  BY <1>2, PushBase DEF Add, AddWithFsid, FsidOfFd
<1>3. CASE WithFdFails
  BY <1>3, WithFdBase
<1>4. ASSUME NEW c \in Reported, Resolve(c) PROVE BaseInv'
  BY <1>4, ResolveBase
<1>5. CASE Candidates \/ \E probed \in BOOLEAN : ProbedCandidates(probed)
  BY <1>5, CandidateBase
<1>6. CASE Filter
  BY <1>6, FilterBase
<1>7. CASE Open
  BY <1>7, OpenBase
<1>8. CASE OpenFails \/ ReadLinkFails
  BY <1>8, FailedBase DEF OpenFails, ReadLinkFails
<1>9. CASE ReadLink \/ NoCandidateLeft
  BY <1>9, ReturnBase
<1>10. ASSUME NEW fs \in Filesystems, NEW p \in Names[fs], NameToHandleAt(p) PROVE BaseInv'
  BY <1>10, BeginEncodeBase DEF NameToHandleAt
<1>11. ASSUME NEW o \in Objects, HandleFromFd(o) PROVE BaseInv'
  BY <1>11, BeginEncodeBase DEF HandleFromFd
<1>12. CASE EncodeFid \/ EncodeRetry \/ EncodePlain
  BY <1>12, EncodeBase
<1>13. CASE ClearPath
  BY <1>13, ClearBase
<1>14. CASE UNCHANGED vars
  <2>1. WorldInv' /\ SeenInv'
    BY <1>14, SeenStays DEF vars, history, Running
  <2> QED BY <1>14, <2>1 DEF vars, walk, BaseInv, RegistryInv, CallInv, CandidateInv, Looping,
        Resolving, WantedFilesystem
<1> QED BY <1>1, <1>2, <1>3, <1>4, <1>5, <1>6, <1>7, <1>8, <1>9, <1>10, <1>11, <1>12, <1>13, <1>14
      DEF Next

-----------------------------------------------------------------------------
(***************************************************************************)
(* The account of what was tried.                                          *)
(***************************************************************************)

(* One candidate more: it counts, or it does not. *)
LEMMA OneMore ==
  ASSUME NEW n \in Nat, NEW S \in SUBSET (1..n), NEW T \in SUBSET S,
         n \notin T, \A i \in S : i # n => i \in T
  PROVE  /\ Cardinality(S) \in Nat /\ Cardinality(T) \in Nat
         /\ n \in S => Cardinality(S) = Cardinality(T) + 1
         /\ n \notin S => S = T
<1>1. IsFiniteSet(1..n)
  BY FS_Interval
<1>2. IsFiniteSet(S)
  BY <1>1, FS_Subset
<1>3. IsFiniteSet(T)
  BY <1>2, FS_Subset
<1>4. Cardinality(S) \in Nat /\ Cardinality(T) \in Nat
  BY <1>2, <1>3, FS_CardinalityType
<1>5. n \notin S => S = T
  OBVIOUS
<1>6. ASSUME n \in S PROVE Cardinality(S) = Cardinality(T) + 1
  <2>1. S = T \cup {n}
    BY <1>6
  <2> QED BY <1>3, <2>1, FS_AddElement
<1> QED BY <1>4, <1>5, <1>6

(* The two accounts at the next candidate. *)
LEMMA NextAccount ==
  ASSUME BaseInv, pc \in {"filter", "open", "readlink"}
  PROVE  /\ Cardinality(Answering(at)) \in Nat /\ Cardinality(Answering(at - 1)) \in Nat
         /\ Cardinality(Selected(at)) \in Nat /\ Cardinality(Selected(at - 1)) \in Nat
         /\ CanAnswer(at) => /\ Cardinality(Answering(at)) = Cardinality(Answering(at - 1)) + 1
                             /\ WantedFilesystem(known, call.wanted)
         /\ ~CanAnswer(at) => Answering(at) = Answering(at - 1)
         /\ WantedFilesystem(entries[at].fsid, call.wanted) =>
              Cardinality(Selected(at)) = Cardinality(Selected(at - 1)) + 1
         /\ ~WantedFilesystem(entries[at].fsid, call.wanted) => Selected(at) = Selected(at - 1)
<1>1. at \in Nat \ {0} /\ at \in DOMAIN entries
  BY DEF BaseInv, CandidateInv, RegistryInv, Looping
<1>2. at \in Answering(at) <=> CanAnswer(at)
  BY <1>1 DEF Answering
<1>3. Answering(at) \in SUBSET (1..at)
      /\ Answering(at - 1) \in SUBSET Answering(at) /\ at \notin Answering(at - 1)
      /\ \A i \in Answering(at) : i # at => i \in Answering(at - 1)
  BY <1>1 DEF Answering
<1>4. at \in Selected(at) <=> WantedFilesystem(entries[at].fsid, call.wanted)
  BY <1>1 DEF Selected, OnFilesystem
<1>5. Selected(at) \in SUBSET (1..at)
      /\ Selected(at - 1) \in SUBSET Selected(at) /\ at \notin Selected(at - 1)
      /\ \A i \in Selected(at) : i # at => i \in Selected(at - 1)
  BY <1>1 DEF Selected
<1>6. CanAnswer(at) => WantedFilesystem(known, call.wanted)
  BY DEF CanAnswer, WantedFilesystem, BaseInv, CallInv, CandidateInv, Looping, Reported
<1> HIDE DEF CanAnswer
<1>7. /\ Cardinality(Answering(at)) \in Nat /\ Cardinality(Answering(at - 1)) \in Nat
      /\ CanAnswer(at) => Cardinality(Answering(at)) = Cardinality(Answering(at - 1)) + 1
      /\ ~CanAnswer(at) => Answering(at) = Answering(at - 1)
  BY <1>1, <1>2, <1>3, OneMore
<1>8. /\ Cardinality(Selected(at)) \in Nat /\ Cardinality(Selected(at - 1)) \in Nat
      /\ at \in Selected(at) => Cardinality(Selected(at)) = Cardinality(Selected(at - 1)) + 1
      /\ at \notin Selected(at) => Selected(at) = Selected(at - 1)
  BY <1>1, <1>5, OneMore
<1> QED BY <1>4, <1>6, <1>7, <1>8

(* The sets depend on the call and the registry alone. *)
LEMMA AccountFrame ==
  ASSUME UNCHANGED <<entries, call>>
  PROVE  \A n : Answering(n)' = Answering(n) /\ Selected(n)' = Selected(n)
BY DEF Answering, Selected, CanAnswer, OnFilesystem, WantedFilesystem

(* A step that only moves the call on keeps the account. *)
LEMMA TriedFrame ==
  ASSUME TriedInv, UNCHANGED <<entries, call, at, last, tried, privileged>>,
         Looping' => Looping,
         Looping' => (attempted' <=> (tried # <<>> \/ pc' \in {"open", "readlink"})),
         Looping' /\ stayed' => stayed /\ inode'[call.object]
  PROVE  TriedInv'
<1>1. \A n : Answering(n)' = Answering(n) /\ Selected(n)' = Selected(n)
  BY AccountFrame
<1>2. Answering(at - 1)' = Answering(at - 1) /\ Selected(at - 1)' = Selected(at - 1)
  BY <1>1
<1> QED BY <1>2 DEF TriedInv, OwnFailures

(* An eviction of the call's object is noticed. *)
LEMMA WorldTried ==
  ASSUME BaseInv, TriedInv,
         \/ \E o \in Objects : (\E p \in Names[FsOf[o]] : Rename(o, p)) \/ Unlink(o) \/ Evict(o)
  PROVE  TriedInv'
<1>1. Change
  BY DEF Rename, Unlink, Evict
<1>2. Looping /\ stayed' => stayed /\ inode'[call.object]
  <2>1. CASE UNCHANGED <<inode, stayed>>
    BY <2>1 DEF TriedInv
  <2>2. ASSUME NEW o \in Objects, Evict(o) PROVE Looping /\ stayed' => stayed /\ inode'[call.object]
    BY <2>2 DEF Evict, TriedInv, BaseInv, CallInv, WorldInv, Looping, Running, Resolving, Reported,
      Resolutions
  <2> QED BY <2>1, <2>2 DEF Rename, Unlink
<1> QED BY <1>1, <1>2, TriedFrame DEF Change, walk, TriedInv, Looping

(* A call starts with nothing tried and nothing passed. *)
LEMMA ResolveTried ==
  ASSUME BaseInv, TriedInv, NEW c \in Reported, Resolve(c)
  PROVE  TriedInv'
<1>1. at' = 1 /\ tried' = <<>> /\ last' = "EXDEV" /\ attempted' = FALSE
      /\ (stayed' => inode'[call'.object]) /\ pc' \in {"done", "candidate"}
  BY DEF Resolve, Finish, world
<1>2. Answering(at - 1)' = {} /\ Selected(at - 1)' = {}
  BY <1>1 DEF Answering, Selected
<1>3. Cardinality(Answering(at - 1)') = 0 /\ Cardinality(Selected(at - 1)') = 0
  BY <1>2, FS_EmptySet
<1>4. Cardinality(OwnFailures') = 0
  <2>1. OwnFailures' = {}
    BY <1>1 DEF OwnFailures
  <2> QED BY <2>1, FS_EmptySet
<1> QED BY <1>1, <1>2, <1>3, <1>4 DEF TriedInv, Looping

(* Passing a candidate over leaves the account as it is. *)
LEMMA FilterTried ==
  ASSUME BaseInv, TriedInv, Filter
  PROVE  TriedInv'
<1>1. CASE WantedFilesystem(known, call.wanted)
  <2>1. attempted' = TRUE /\ pc' = "open" /\ UNCHANGED <<at, world, entries, call, last, history>>
    BY <1>1 DEF Filter
  <2> QED BY <2>1, TriedFrame DEF Filter, world, history, TriedInv, Looping
<1>2. CASE ~WantedFilesystem(known, call.wanted)
  <2>1. /\ at' = at + 1 /\ pc = "filter" /\ pc' = "candidate"
        /\ UNCHANGED <<world, entries, call, last, attempted, history>>
    BY <1>2 DEF Filter
  <2>2. Answering(at) = Answering(at - 1)
    BY <1>2, <2>1, NextAccount
  <2>3. call.form = "registry" => Selected(at) = Selected(at - 1)
    BY <1>2, <2>1, NextAccount DEF BaseInv, CandidateInv
  <2>4. \A n : Answering(n)' = Answering(n) /\ Selected(n)' = Selected(n)
    BY <2>1, AccountFrame
  <2>5. at' - 1 = at
    BY <2>1 DEF BaseInv, CandidateInv, Looping
  <2>6. /\ Answering(at - 1)' = Answering(at - 1)
        /\ call.form = "registry" => Selected(at - 1)' = Selected(at - 1)
    BY <2>2, <2>3, <2>4, <2>5 DEF Answering, Selected
  <2>7. OwnFailures' = OwnFailures
    BY <2>1 DEF OwnFailures, history
  <2> QED BY <2>1, <2>6, <2>7 DEF world, history, TriedInv, Looping
<1> QED BY <1>1, <1>2

(* A failure is one attempt more; when the candidate could answer and the  *)
(* object is still there, it failed for a reason of its own.               *)
LEMMA FailedTried ==
  ASSUME BaseInv, TriedInv, OpenFails \/ ReadLinkFails
  PROVE  TriedInv'
<1> DEFINE there == stayed /\ privileged /\ FsOf[call.object] \notin FidOnly
<1>1. PICK errno \in Outcomes :
         /\ Failed(errno) /\ pc \in {"open", "readlink"}
         /\ there /\ CanAnswer(at) => errno \in Errnos
  <2>1. CASE ReadLinkFails
    BY <2>1 DEF ReadLinkFails, Outcomes
  <2>2. CASE OpenFails
    <3>1. there /\ CanAnswer(at) => call.object \in Decoded
      BY <2>2 DEF OpenFails, TriedInv, BaseInv, CallInv, Looping, Reported, Resolutions, CanAnswer, Decoded
    <3> QED BY <2>2, <3>1 DEF OpenFails, Outcomes
  <2> QED BY <2>1, <2>2
<1>2. /\ at' = at + 1 /\ pc' = "candidate" /\ last' = errno /\ tried' = Append(tried, errno)
      /\ UNCHANGED <<world, entries, call, attempted, stayed>>
  BY <1>1 DEF Failed
<1>3. /\ tried' \in Seq(Outcomes) /\ Len(tried') = Len(tried) + 1 /\ tried' # <<>>
      /\ tried'[Len(tried')] = errno
      /\ \A i \in DOMAIN tried : i \in DOMAIN tried' /\ tried'[i] = tried[i]
      /\ Len(tried) + 1 \in DOMAIN tried' /\ tried'[Len(tried) + 1] = errno
  BY <1>2 DEF TriedInv
<1>4. at' - 1 = at
  BY <1>1, <1>2 DEF BaseInv, CandidateInv, Looping
<1>5. Answering(at - 1)' = Answering(at) /\ Selected(at - 1)' = Selected(at)
  <2>1. \A n : Answering(n)' = Answering(n) /\ Selected(n)' = Selected(n)
    BY <1>2, AccountFrame
  <2> QED BY <1>4, <2>1 DEF Answering, Selected
<1>6. WantedFilesystem(known, call.wanted)
  BY <1>1 DEF BaseInv, CandidateInv
<1>7. Len(tried') >= Cardinality(Answering(at - 1)')
  BY <1>1, <1>3, <1>5, NextAccount DEF TriedInv, Looping
<1>8. call.form = "registry" => Len(tried') = Cardinality(Selected(at - 1)')
  <2>1. call.form = "registry" => WantedFilesystem(entries[at].fsid, call.wanted)
    BY <1>1, <1>6 DEF BaseInv, CandidateInv
  <2> QED BY <1>1, <1>3, <1>5, <2>1, NextAccount DEF TriedInv, Looping
<1>9. there => Cardinality(OwnFailures') >= Cardinality(Answering(at - 1)')
  <2>1. PICK n \in Nat : n = Len(tried) + 1
    BY DEF TriedInv
  <2>2. DOMAIN tried = 1..(n - 1) /\ DOMAIN tried' = 1..n
    BY <1>3, <2>1 DEF TriedInv
  <2>3. /\ OwnFailures' \in SUBSET (1..n) /\ OwnFailures \in SUBSET OwnFailures' /\ n \notin OwnFailures
        /\ \A i \in OwnFailures' : i # n => i \in OwnFailures
        /\ n \in OwnFailures' <=> errno \in Errnos
    BY <1>3, <2>1, <2>2 DEF OwnFailures
  <2>4. /\ Cardinality(OwnFailures) \in Nat /\ Cardinality(OwnFailures') \in Nat
        /\ n \in OwnFailures' => Cardinality(OwnFailures') = Cardinality(OwnFailures) + 1
        /\ n \notin OwnFailures' => OwnFailures' = OwnFailures
    BY <2>1, <2>3, OneMore
  <2>5. there => Cardinality(OwnFailures) >= Cardinality(Answering(at - 1))
    BY <1>1 DEF TriedInv, Looping
  <2>6. CASE CanAnswer(at)
    BY <1>1, <1>5, <2>3, <2>4, <2>5, <2>6, NextAccount
  <2>7. CASE ~CanAnswer(at)
    BY <1>1, <1>5, <2>4, <2>5, <2>7, NextAccount
  <2> QED BY <2>6, <2>7
<1>10. attempted /\ (stayed => inode[call.object])
  BY <1>1 DEF TriedInv, Looping
<1> QED BY <1>2, <1>3, <1>7, <1>8, <1>9, <1>10 DEF TriedInv, Looping, world

(* The account is preserved by every step. *)
LEMMA TriedStep == BaseInv /\ TriedInv /\ [Next]_vars => TriedInv'
<1> SUFFICES ASSUME BaseInv, TriedInv, [Next]_vars PROVE TriedInv'
  OBVIOUS
<1>1. CASE \E o \in Objects : (\E p \in Names[FsOf[o]] : Rename(o, p)) \/ Unlink(o) \/ Evict(o)
  BY <1>1, WorldTried
<1>2. ASSUME NEW c \in Reported, Resolve(c) PROVE TriedInv'
  BY <1>2, ResolveTried
<1>3. CASE Filter
  BY <1>3, FilterTried
<1>4. CASE OpenFails \/ ReadLinkFails
  BY <1>4, FailedTried
<1>5. CASE Candidates \/ \E probed \in BOOLEAN : ProbedCandidates(probed)
  <2>1. pc' = "filter" /\ pc = "candidate"
        /\ UNCHANGED <<world, entries, call, at, attempted, last, history>>
    BY <1>5 DEF Candidates, ProbedCandidates, NextCandidate
  <2> QED BY <2>1, TriedFrame DEF TriedInv, Looping, world, history
<1>6. CASE Open
  BY <1>6, TriedFrame DEF Open, TriedInv, Looping, world, history
<1>7. ASSUME tried' \in {tried, <<>>}, ~Looping' PROVE TriedInv'
  <2>1. tried \in Seq(Outcomes) /\ <<>> \in Seq(Outcomes)
    BY DEF TriedInv
  <2> QED BY <1>7, <2>1 DEF TriedInv
<1>8. CASE UNCHANGED vars
  BY <1>8, TriedFrame DEF vars, world, walk, history, TriedInv, Looping
<1>9. ASSUME NEW fs, NEW probed, Add(fs, probed) \/ AddWithFsid(fs) PROVE TriedInv'
  BY <1>7, <1>9 DEF Add, AddWithFsid, Push, history, Looping
<1>10. CASE WithFdFails
  BY <1>7, <1>10 DEF WithFdFails, history, Looping
<1>11. CASE ReadLink \/ NoCandidateLeft
  BY <1>7, <1>11 DEF ReadLink, NoCandidateLeft, Finish, history, Looping
<1>12. ASSUME NEW p, NameToHandleAt(p) \/ HandleFromFd(p) PROVE TriedInv'
  BY <1>7, <1>12 DEF NameToHandleAt, HandleFromFd, BeginEncode, Looping
<1>13. CASE EncodeFid \/ EncodeRetry \/ EncodePlain
  BY <1>7, <1>13 DEF EncodeFid, EncodeRetry, EncodePlain, Encode, Finish, history, Looping
<1>14. CASE ClearPath
  BY <1>7, <1>14 DEF ClearPath, Looping
<1> QED BY <1>1, <1>2, <1>3, <1>4, <1>5, <1>6, <1>8, <1>9, <1>10, <1>11, <1>12, <1>13, <1>14 DEF Next

-----------------------------------------------------------------------------
(***************************************************************************)
(* What a call returns.                                                    *)
(***************************************************************************)

(* The end of the loop: every candidate was passed. *)
LEMMA LoopEnds ==
  ASSUME BaseInv, TriedInv, NoCandidateLeft
  PROVE  FailureIsEarned' /\ result' # "ok"
<1>1. /\ pc = "candidate" /\ UNCHANGED <<entries, call, tried, stayed, privileged>>
      /\ result' = IF attempted THEN last ELSE "EXDEV"
  BY DEF NoCandidateLeft, Finish, walk, history, world
<1>2. at - 1 = Len(entries)
  BY <1>1 DEF NoCandidateLeft, BaseInv, CandidateInv, Looping
<1>3. Answering(at - 1) = {i \in DOMAIN entries : CanAnswer(i)}
  BY <1>2 DEF Answering, BaseInv, RegistryInv
<1>4. Selected(at - 1) = OnFilesystem(call.wanted)
  BY <1>2 DEF Selected, OnFilesystem, BaseInv, RegistryInv
<1>5. tried # <<>> => Last(tried) \in Outcomes /\ last = Last(tried)
  BY <1>1 DEF TriedInv, Last, Looping
<1>6. result' = IF tried = <<>> THEN "EXDEV" ELSE Last(tried)
  BY <1>1, <1>5 DEF TriedInv, Looping
<1>7. result' # "ok"
  BY <1>5, <1>6 DEF Outcomes
<1>8. /\ Len(tried) >= Answers
      /\ call.form = "registry" => Len(tried) = Cardinality(OnFilesystem(call.wanted))
      /\ stayed /\ privileged /\ FsOf[call.object] \notin FidOnly => Cardinality(OwnFailures) >= Answers
  BY <1>1, <1>3, <1>4 DEF TriedInv, Looping, Answers
<1>9. /\ Answers' = Answers
      /\ OnFilesystem(call.wanted)' = OnFilesystem(call.wanted)
  BY <1>1 DEF Answers, CanAnswer, OnFilesystem, WantedFilesystem
<1> QED BY <1>1, <1>6, <1>7, <1>8, <1>9 DEF FailureIsEarned, OwnFailures

(* What a call returned stays true while its outcome is looked at. *)
LEMMA OutcomeFrame ==
  ASSUME FailureIsEarned, PathIsTheObjects, BaseInv,
         UNCHANGED <<entries, privileged, walk, outcome, tried>>, pc' = pc,
         pc = "done" => seen' = seen /\ (stayed' => stayed)
  PROVE  FailureIsEarned' /\ PathIsTheObjects'
<1>1. FailureIsEarned'
  BY DEF FailureIsEarned, Answers, Refused, CanAnswer, OnFilesystem, WantedFilesystem, Resolving, walk, outcome
<1>2. PathIsTheObjects'
  BY DEF PathIsTheObjects, Moments, Filtered, Resolving, walk, outcome
<1> QED BY <1>1, <1>2

(* The link is the event's object's, if the filters could tell. *)
LEMMA ReadLinkOutcome ==
  ASSUME BaseInv, ReadLink
  PROVE  FailureIsEarned' /\ PathIsTheObjects'
<1>1. /\ pc = "readlink" /\ result' = "ok" /\ pc' = "done"
      /\ path' = LinkText(opened) \o call.child
      /\ UNCHANGED <<call, known, seen, entries>>
  BY DEF ReadLink, Finish, history
<1>2. FailureIsEarned'
  BY <1>1 DEF FailureIsEarned
<1>3. call \in Reported /\ Resolving
  BY <1>1 DEF BaseInv, CallInv, Looping, Reported, Resolutions, Resolving
<1>4. ASSUME Filtered PROVE opened = call.object /\ opened \in Objects
  <2>1. known = FsOf[call.object] /\ known = FsOf[opened]
    BY <1>1, <1>3, <1>4 DEF Filtered, BaseInv, CandidateInv, WantedFilesystem, Reported
  <2> QED BY <1>1, <1>3, <2>1 DEF BaseInv, CandidateInv, Reported, Resolutions
<1>5. Filtered => Moments' # {}
  <2> SUFFICES ASSUME Filtered PROVE Moments' # {}
    OBVIOUS
  <2> DEFINE m == [object |-> opened, name |-> name[opened], linked |-> linked[opened],
                   link |-> LinkText(opened)]
  <2>1. m \in seen
    BY <1>1, <1>4 DEF BaseInv, SeenInv, Running, Facts
  <2>2. m.object = call.object /\ path' = m.link \o call.child
    BY <1>1, <1>4
  <2> HIDE DEF m
  <2> QED BY <1>1, <2>1, <2>2 DEF Moments
<1> QED BY <1>1, <1>2, <1>3, <1>5 DEF PathIsTheObjects, Filtered, Resolving

(* The handle is of the object that has the path now, or of the descriptor. *)
LEMMA EncodeOutcome ==
  ASSUME BaseInv, EncodeFid \/ EncodeRetry \/ EncodePlain
  PROVE  FailureIsEarned' /\ PathIsTheObjects'
<1>1. /\ pc \in {"fid", "plain"} /\ UNCHANGED <<walk, history>> /\ ~Resolving
  BY DEF EncodeFid, EncodeRetry, EncodePlain, Encode, BaseInv, CallInv
<1>2. ~Resolving' /\ call' = call /\ opened' = opened /\ seen' = seen
  BY <1>1 DEF Resolving, walk, history
<1>3. ASSUME pc' = "done", result' = "ok"
      PROVE  /\ handle' \in Objects
             /\ IF call.form = "encode_fd" THEN handle' = opened
                ELSE linked[handle'] /\ name[handle'] = call.path
  BY <1>3 DEF EncodeFid, EncodeRetry, EncodePlain, Encode, Finish
<1>4. ASSUME pc' = "done", result' = "ok", call.form = "encode"
      PROVE  \E m \in seen : m.object = handle' /\ m.linked /\ m.name = call.path
  <2> DEFINE m == [object |-> handle', name |-> name[handle'], linked |-> linked[handle'],
                   link |-> LinkText(handle')]
  <2>1. m \in Facts
    BY <1>3, <1>4 DEF Facts
  <2>2. m \in seen
    BY <1>1, <2>1 DEF BaseInv, SeenInv, Running
  <2>3. m.object = handle' /\ m.linked /\ m.name = call.path
    BY <1>3, <1>4
  <2> HIDE DEF m
  <2> QED BY <2>2, <2>3
<1> QED BY <1>2, <1>3, <1>4 DEF FailureIsEarned, PathIsTheObjects, Filtered

(* What a call returns is right when it returns, and stays so. *)
LEMMA OutcomeStep ==
  MountsInv /\ [Next]_vars => FailureIsEarned' /\ PathIsTheObjects'
<1> SUFFICES ASSUME MountsInv, [Next]_vars PROVE FailureIsEarned' /\ PathIsTheObjects'
  OBVIOUS
<1> USE DEF MountsInv
<1>1. CASE \E o \in Objects : (\E p \in Names[FsOf[o]] : Rename(o, p)) \/ Unlink(o) \/ Evict(o)
  <2>1. pc = "done" => seen' = seen /\ (stayed' => stayed)
    BY <1>1 DEF Rename, Unlink, Evict, Change, Running
  <2> QED BY <1>1, <2>1, OutcomeFrame DEF Rename, Unlink, Evict, Change
<1>2. CASE UNCHANGED vars
  BY <1>2, OutcomeFrame DEF vars, world, history
<1>3. ASSUME pc' # "done" PROVE FailureIsEarned' /\ PathIsTheObjects'
  BY <1>3 DEF FailureIsEarned, PathIsTheObjects
<1>4. ASSUME NEW c \in Reported, Resolve(c) PROVE FailureIsEarned' /\ PathIsTheObjects'
  <2>1. pc' # "done" \/ (Refused' /\ result' # "ok")
    BY <1>4 DEF Resolve, Finish, Refused
  <2> QED BY <2>1 DEF FailureIsEarned, PathIsTheObjects
<1>5. CASE ReadLink
  BY <1>5, ReadLinkOutcome
<1>6. CASE NoCandidateLeft
  BY <1>6, LoopEnds DEF PathIsTheObjects
<1>7. CASE EncodeFid \/ EncodeRetry \/ EncodePlain
  BY <1>7, EncodeOutcome
<1>8. ASSUME NEW fs, NEW probed, Add(fs, probed) \/ AddWithFsid(fs) PROVE pc' # "done"
  BY <1>8 DEF Add, AddWithFsid, Push
<1>9. CASE WithFdFails
  BY <1>3, <1>9 DEF WithFdFails
<1>10. CASE Candidates \/ \E probed \in BOOLEAN : ProbedCandidates(probed)
  BY <1>3, <1>10 DEF Candidates, ProbedCandidates, NextCandidate
<1>11. CASE Filter \/ Open \/ OpenFails \/ ReadLinkFails
  BY <1>3, <1>11 DEF Filter, Open, OpenFails, ReadLinkFails, Failed
<1>12. ASSUME NEW p, NameToHandleAt(p) \/ HandleFromFd(p) PROVE pc' # "done"
  BY <1>12 DEF NameToHandleAt, HandleFromFd, BeginEncode
<1>13. CASE ClearPath
  BY <1>3, <1>13 DEF ClearPath
<1> QED BY <1>1, <1>2, <1>3, <1>4, <1>5, <1>6, <1>7, <1>8, <1>9, <1>10, <1>11, <1>12, <1>13 DEF Next

(* The invariant of the registry and the calls is inductive. *)
LEMMA StepPreserves == MountsInv /\ [Next]_vars => MountsInv'
BY BaseStep, TriedStep, OutcomeStep DEF MountsInv

(* Whatever is renamed, deleted or evicted while it runs, a call keeps     *)
(* what it holds and its account of the candidates.                        *)
THEOREM MountsCorrect == Spec => []MountsInv
BY InitEstablishes, StepPreserves, PTL DEF Spec

(* The path that resolve_file_handle(_in) returns was the path of the      *)
(* object the event named, at some moment of the call, whatever was        *)
(* renamed between the open and the read of the link; and a handle that is *)
(* returned is of an object that had the path, or of the descriptor's.     *)
THEOREM PathCorrect == Spec => []PathIsTheObjects
<1>1. MountsInv => PathIsTheObjects
  BY DEF MountsInv
<1> QED BY <1>1, MountsCorrect, PTL

(* The error that resolve_file_handle(_in) returns is the last candidate's *)
(* after all that could answer were tried, and EXDEV if none was; when the *)
(* object exists, where handles are decoded, and the caller is privileged, *)
(* every one of those descriptors failed for a reason of its own.          *)
THEOREM FailureCorrect == Spec => []FailureIsEarned
<1>1. MountsInv => FailureIsEarned
  BY DEF MountsInv
<1> QED BY <1>1, MountsCorrect, PTL

-----------------------------------------------------------------------------
(***************************************************************************)
(* The deleted marker of an event's path.                                  *)
(***************************************************************************)

(* A path of which no component is removed keeps its length and its order. *)
LEMMA NothingRemoved ==
  ASSUME NEW p \in Seq(Name), NEW q \in Seq(Name), Len(p) = Len(q),
         \A i \in 1..Len(p) : Strip(p[i]) = q[i]
  PROVE  WithoutDeletedSuffix(p) = q
<1> DEFINE n == Len(p)
           kept == {i \in DOMAIN p : Strip(p[i]) # Component("", 0)}
           nth(k) == CHOOSE i \in kept : Cardinality(kept \cap 1..i) = k
<1>1. kept = 1..n /\ n \in Nat
  <2>1. n \in Nat /\ DOMAIN p = 1..n
    OBVIOUS
  <2>2. \A i \in 1..n : Strip(p[i]) # Component("", 0)
    <3> SUFFICES ASSUME NEW i \in 1..n PROVE Strip(p[i]) # Component("", 0)
      OBVIOUS
    <3>1. q[i] \in Name
      OBVIOUS
    <3> QED BY <3>1, ComponentMarked
  <2> QED BY <2>1, <2>2
<1>2. kept = 1..n /\ \A i \in 1..n : i \in Nat \ {0} /\ kept \cap 1..i = 1..i
  <2> HIDE DEF kept, n
  <2> QED BY <1>1
<1>3. \A i \in 1..n : Cardinality(kept \cap 1..i) = i
  <2> HIDE DEF kept, n
  <2> SUFFICES ASSUME NEW i \in 1..n PROVE Cardinality(kept \cap 1..i) = i
    OBVIOUS
  <2>1. i \in Nat \ {0} /\ kept \cap 1..i = 1..i
    BY <1>2
  <2>2. \A j \in Nat \ {0} : Cardinality(1..j) = j
    BY FS_Interval
  <2> QED BY <2>1, <2>2
<1>4. \A k \in 1..n : nth(k) = k
  <2> HIDE DEF kept, n
  <2> SUFFICES ASSUME NEW k \in 1..n PROVE nth(k) = k
    OBVIOUS
  <2>1. k \in kept /\ Cardinality(kept \cap 1..k) = k
    BY <1>1, <1>3
  <2>2. nth(k) \in kept /\ Cardinality(kept \cap 1..nth(k)) = k
    BY <2>1
  <2> HIDE DEF nth
  <2> QED BY <1>1, <1>3, <2>2
<1>5. Cardinality(kept) = n
  <2> HIDE DEF kept, n
  <2> QED BY <1>1, FS_Interval
<1>6. WithoutDeletedSuffix(p) = [k \in 1..Cardinality(kept) |-> Strip(p[nth(k)])]
  BY DEF WithoutDeletedSuffix
<1>7. WithoutDeletedSuffix(p) = [k \in 1..n |-> q[k]]
  <2> HIDE DEF nth, kept
  <2> QED BY <1>4, <1>5, <1>6
<1>8. q = [k \in 1..n |-> q[k]]
  OBVIOUS
<1> QED BY <1>7, <1>8

(* A child joined to a path. *)
LEMMA Joined ==
  ASSUME NEW p \in Seq(Name), NEW child \in Seq(Name)
  PROVE  /\ p \o child \in Seq(Name)
         /\ Len(p \o child) = Len(p) + Len(child)
OBVIOUS

(* Without its last marker the link of a path is the path again, and of a  *)
(* path without a marker nothing is removed.                               *)
LEMMA MarkerRemoved ==
  ASSUME NEW p \in Path, NEW child \in {<<>>, <<Child>>},
         ~CarriesDeletedMarker(p \o child)
  PROVE  /\ WithoutDeletedSuffix(p \o child) = p \o child
         /\ WithoutDeletedSuffix(AddMarker(p) \o child) = p \o child
<1>1. child \in Seq(Name) /\ p \in Seq(Name) /\ AddMarker(p) \in Seq(Name) /\ Len(AddMarker(p)) = Len(p)
  <2>1. <<>> \in Seq(Name) /\ <<Child>> \in Seq(Name)
    OBVIOUS
  <2> QED BY <2>1, MarkerAdded DEF Path
<1>2. PICK q \in Seq(Name) : q = p \o child /\ Len(q) = Len(p) + Len(child)
  BY <1>1, Joined
<1>3. PICK l \in Seq(Name) : l = AddMarker(p) \o child /\ Len(l) = Len(p) + Len(child)
  <2>1. PICK a \in Seq(Name) : a = AddMarker(p) /\ Len(a) = Len(p)
    BY <1>1
  <2>2. a \o child \in Seq(Name) /\ Len(a \o child) = Len(p) + Len(child)
    BY <1>1, <2>1, Joined
  <2> QED BY <2>1, <2>2
<1>4. \A i \in 1..Len(q) : q[i] \in Name /\ q[i].markers = 0
  <2> SUFFICES ASSUME NEW i \in 1..Len(q) PROVE q[i] \in Name /\ q[i].markers = 0
    OBVIOUS
  <2>1. q[i] \in Name /\ i \in DOMAIN q
    OBVIOUS
  <2>2. ~(q[i].markers > 0)
    BY <1>2, <2>1 DEF CarriesDeletedMarker, Marked
  <2>3. q[i].markers \in Nat
    BY <2>1, ComponentMarked
  <2> QED BY <2>1, <2>2, <2>3
<1>5. \A i \in 1..Len(q) : Strip(q[i]) = q[i]
  BY <1>4 DEF Strip, Marked
<1>. DEFINE n == Len(p)
<1>. n \in Nat /\ Len(child) \in Nat /\ n \in 1..Len(q)
  BY <1>1, <1>2 DEF Path
<1>6. PICK a \in Seq(Name) :
        /\ a = AddMarker(p) /\ Len(a) = n
        /\ a[n] = Component(p[n].base, p[n].markers + 1)
        /\ \A i \in 1..n : i # n => a[i] = p[i]
  BY <1>1, MarkerAdded
<1>7. /\ \A i \in 1..n : q[i] = p[i] /\ l[i] = a[i]
      /\ \A i \in 1..Len(q) : i > n => q[i] = child[i - n] /\ l[i] = child[i - n]
  BY <1>1, <1>2, <1>3, <1>6
<1>8. Strip(l[n]) = q[n]
  <2>1. PICK c \in Name : c = q[n] /\ c = p[n] /\ c.markers = 0
    BY <1>4, <1>7
  <2>2. c = Component(c.base, 0)
    BY <2>1, ComponentMarked
  <2>3. l[n] = Component(c.base, 0 + 1)
    BY <1>6, <1>7, <2>1, <2>2
  <2> QED BY <2>1, <2>2, <2>3 DEF Strip, Marked, Component
<1>9. ASSUME NEW i \in 1..Len(q)
      PROVE  Strip(l[i]) = q[i]
  <2>1. CASE i = n
    BY <1>8, <2>1
  <2>2. CASE i # n
    <3>1. l[i] = q[i]
      BY <1>2, <1>6, <1>7, <2>2
    <3> QED BY <1>5, <3>1
  <2> QED BY <2>1, <2>2
<1>10. WithoutDeletedSuffix(q) = q
  BY <1>5, NothingRemoved
<1>11. WithoutDeletedSuffix(l) = q
  BY <1>2, <1>3, <1>9, NothingRemoved
<1> QED BY <1>2, <1>3, <1>10, <1>11

(* The link of an object that lost its path carries a marker. *)
LEMMA LostIsMarked ==
  ASSUME NEW p \in Path, NEW child \in {<<>>, <<Child>>}
  PROVE  CarriesDeletedMarker(AddMarker(p) \o child)
<1>1. PICK n \in Nat : n = Len(p) /\ n > 0 /\ p \in Seq(Name)
  BY DEF Path
<1>2. PICK c \in Name : c = p[n]
  BY <1>1
<1>3. PICK l \in Seq(Name) : l = AddMarker(p) /\ Len(l) = n /\ l[n] = Component(c.base, c.markers + 1)
  BY <1>1, <1>2, MarkerAdded DEF Path
<1>4. n \in DOMAIN (l \o child) /\ (l \o child)[n] = l[n]
  BY <1>1, <1>3
<1>5. Marked(l[n])
  <2>1. c.markers \in Nat
    BY ComponentMarked
  <2>2. l[n].markers = c.markers + 1
    BY <1>3 DEF Component
  <2> QED BY <2>1, <2>2 DEF Marked
<1> QED BY <1>3, <1>4, <1>5 DEF CarriesDeletedMarker

(* is_deleted and without_deleted_suffix are honest: a path without a      *)
(* marker was a real path of the object at some moment of the call, and    *)
(* whenever its name carried no marker, the cleaned path is that name.     *)
THEOREM MarkerCorrect == Spec => []MarkerIsHonest
<1>1. MountsInv => MarkerIsHonest
  <2> SUFFICES ASSUME MountsInv, pc = "done", result = "ok", Filtered
               PROVE  /\ IsDeleted \/ \E m \in Moments : m.linked
                      /\ \A m \in Moments :
                           ~CarriesDeletedMarker(m.name \o call.child) =>
                             WithoutDeletedSuffix(path) = m.name \o call.child
    BY DEF MarkerIsHonest
  <2>1. call.child \in {<<>>, <<Child>>}
    BY DEF Filtered, MountsInv, BaseInv, CallInv, Reported, Resolutions
  <2>2. ASSUME NEW m \in Moments
        PROVE  /\ m.linked \/ IsDeleted
               /\ ~CarriesDeletedMarker(m.name \o call.child) =>
                    WithoutDeletedSuffix(path) = m.name \o call.child
    <3>1. FactShape(m) /\ path = m.link \o call.child
      BY DEF Moments, MountsInv, BaseInv, SeenInv
    <3>2. m.linked \/ IsDeleted
      BY <2>1, <3>1, LostIsMarked DEF FactShape, IsDeleted
    <3> QED BY <2>1, <3>1, <3>2, MarkerRemoved DEF FactShape
  <2>3. Moments # {}
    BY DEF MountsInv, PathIsTheObjects
  <2> QED BY <2>2, <2>3
<1> QED BY <1>1, MountsCorrect, PTL
=============================================================================
