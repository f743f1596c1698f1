------------------------------- MODULE Mounts -------------------------------
(***************************************************************************)
(* From a file handle to a path: the Mounts registry of src/handle.rs, the *)
(* handle of an object, resolve_file_handle and resolve_file_handle_in one *)
(* system call at a time, and the marker of a deleted object in src/fid.rs. *)
(* While a handle is resolved, other processes rename and delete.          *)
(*                                                                         *)
(* External: filesystems, handles and /proc/self/fd.  Handle bytes are     *)
(* unique in one filesystem only.                                          *)
(***************************************************************************)
EXTENDS Integers, Sequences, FiniteSets, SequencesExt

CONSTANTS
  Filesystems,
  Objects,
  FsOf,         \* the filesystem of an object
  BytesOf,      \* the handle bytes of an object
  Bases,        \* the base names
  Names,        \* the paths on each filesystem, as sequences of components
  Child,        \* the name a DFID_NAME record adds to its directory
  Unknown,      \* an fsid that is not known, or None for the wanted one
  FidOnly,      \* the filesystems without fh_to_dentry: a handle is only a FID
  Errnos,       \* what a system call may fail with whatever the object is
  MaxMounts,    \* how many descriptors are registered at most
  MaxChanges    \* how many renames and deletions happen at most

ASSUME HandlesAssumption ==
  /\ FsOf \in [Objects -> Filesystems]
  /\ \A o, p \in Objects : FsOf[o] = FsOf[p] /\ BytesOf[o] = BytesOf[p] => o = p
ASSUME UnknownAssumption == Unknown \notin Filesystems
ASSUME FidOnlyAssumption == FidOnly \subseteq Filesystems
ASSUME ErrnosAssumption == Errnos \cap {"ok", "ESTALE", "EPERM"} = {}
ASSUME BoundsAssumption == MaxMounts \in Nat /\ MaxChanges \in Nat

(* A component is a base name and the number of " (deleted)" markers at    *)
(* its end; an empty base is a name that is nothing but markers.           *)
Component(base, markers) == [base |-> base, markers |-> markers]

Name == {c \in [base : Bases, markers : Nat] : c # Component("", 0)}

ASSUME NamesAssumption ==
  /\ Names \in [Filesystems -> SUBSET (Seq(Name) \ {<<>>})]
  /\ Child \in Name

VARIABLES
  name,       \* per object: the path it has, or had last
  linked,     \* per object: whether it still has it
  inode,      \* per object: whether it still exists
  changes,    \* how many changes happened
  privileged, \* CAP_DAC_READ_SEARCH
  entries,    \* Mounts::entries: a descriptor and the fsid learned for it
  pc,         \* where the caller is
  call,       \* the call and its arguments
  at,         \* the candidate the loop is at
  known,      \* the fsid that candidate has
  attempted,  \* `attempted`
  last,       \* `last`
  opened,     \* the object the O_PATH descriptor names
  result,     \* what the resolution returned
  path,       \* FidEvent::path
  handle,     \* the object whose handle name_to_handle_at returned
  tried,      \* history: the errno of every attempt, in order
  seen,       \* history: what was true of the objects' paths since the call
  stayed      \* history: the object existed ever since the call

world == <<name, linked, inode, changes, privileged>>
walk == <<call, at, known, attempted, last, opened>>
history == <<tried, seen, stayed>>
outcome == <<result, path, handle>>
vars == <<world, entries, pc, walk, outcome, history>>

-----------------------------------------------------------------------------
(***************************************************************************)
(* The deleted marker.                                                     *)
(***************************************************************************)
Marked(c) == c.markers > 0

(* The definitions named Wrong_... are faulty variants of the definition   *)
(* they precede; nothing uses them but the mutation checks.                *)
Wrong_CarriesDeletedMarker_Last(p) == Marked(Last(p))

(* carries_deleted_marker, and is_deleted, which is false when no path was *)
(* resolved.                                                               *)
CarriesDeletedMarker(p) == \E i \in DOMAIN p : Marked(p[i])

IsDeleted == CarriesDeletedMarker(path)

(* without_deleted_suffix: each marked component loses one marker, and one *)
(* that was the marker alone disappears, because an empty name is pushed.  *)
Strip(c) == IF Marked(c) THEN Component(c.base, c.markers - 1) ELSE c

WithoutDeletedSuffix(p) ==
  LET kept == {i \in DOMAIN p : Strip(p[i]) # Component("", 0)}
      nth(k) == CHOOSE i \in kept : Cardinality(kept \cap 1..i) = k
  IN [k \in 1..Cardinality(kept) |-> Strip(p[nth(k)])]

(* What /proc/self/fd says of an object: its path, and the marker behind   *)
(* it once the object has lost that path.                                  *)
AddMarker(p) == [p EXCEPT ![Len(p)].markers = @ + 1]
LinkText(o) == IF linked[o] THEN name[o] ELSE AddMarker(name[o])
Facts == {[object |-> o, name |-> name[o], linked |-> linked[o], link |-> LinkText(o)] : o \in Objects}

-----------------------------------------------------------------------------
Init ==
  /\ name \in [Objects -> UNION {Names[fs] : fs \in Filesystems}]
  /\ \A o \in Objects : name[o] \in Names[FsOf[o]]
  /\ \A o, p \in Objects : name[o] = name[p] => o = p
  /\ linked = [o \in Objects |-> TRUE]
  /\ inode = [o \in Objects |-> TRUE]
  /\ changes = 0
  /\ privileged \in BOOLEAN
  /\ entries = <<>>
  /\ pc = "idle"
  /\ call = [form |-> "none"]
  /\ at = 1
  /\ known = Unknown
  /\ attempted = FALSE
  /\ last = "EXDEV"
  /\ opened = "none"
  /\ result = "none"
  /\ path = <<>>
  /\ handle = "none"
  /\ tried = <<>> /\ seen = {} /\ stayed = TRUE

Running == pc \notin {"idle", "done"}
Resolving == call.form \in {"slice", "registry"}

Change ==
  /\ changes < MaxChanges
  /\ changes' = changes + 1
  /\ seen' = IF Running THEN seen \cup Facts' ELSE seen
  /\ UNCHANGED <<privileged, entries, pc, walk, outcome, tried>>

Rename(o, p) ==
  /\ linked[o]
  /\ p \in Names[FsOf[o]] /\ \A q \in Objects : linked[q] => name[q] # p
  /\ name' = [name EXCEPT ![o] = p]
  /\ UNCHANGED <<linked, inode, stayed>>
  /\ Change

Unlink(o) ==
  /\ linked[o]
  /\ linked' = [linked EXCEPT ![o] = FALSE]
  /\ UNCHANGED <<name, inode, stayed>>
  /\ Change

(* The last reference to a deleted object goes. *)
Evict(o) ==
  /\ ~linked[o] /\ inode[o] /\ opened # o
  /\ inode' = [inode EXCEPT ![o] = FALSE]
  /\ stayed' = (stayed /\ ~(Running /\ Resolving /\ o = call.object))
  /\ UNCHANGED <<name, linked>>
  /\ Change

-----------------------------------------------------------------------------
(***************************************************************************)
(* The registry, edited while nothing borrows it.                          *)
(***************************************************************************)
Entry(fs, fsid) == [fs |-> fs, fsid |-> fsid]

(* fsid_of_fd(fd).ok(): the probe may fail. *)
FsidOfFd(fs, probed) == IF probed THEN fs ELSE Unknown

Push(entry) ==
  /\ pc = "idle"
  /\ Len(entries) < MaxMounts
  /\ entries' = Append(entries, entry)
  /\ UNCHANGED <<world, pc, walk, outcome, history>>

(* Mounts::add, and add_with_fsid with the fsid the caller probed.  When   *)
(* the duplicate fails, nothing was pushed and the registry is as it was.  *)
Add(fs, probed) == Push(Entry(fs, FsidOfFd(fs, probed)))
AddWithFsid(fs) == Push(Entry(fs, fs))

(* Mounts::with_fd owns the registry: when it fails, everything registered *)
(* so far is dropped with it.                                              *)
WithFdFails ==
  /\ pc = "idle"
  /\ entries # <<>>
  /\ entries' = <<>>
  /\ UNCHANGED <<world, pc, walk, outcome, history>>

-----------------------------------------------------------------------------
(***************************************************************************)
(* One resolution.  `object` is what the event is about, `wanted` the fsid *)
(* it reported, or Unknown for None; `sized` says that the handle has the  *)
(* length of a file_handle; "slice" is resolve_file_handle, which asks for *)
(* each descriptor's fsid again, "registry" resolve_file_handle_in over    *)
(* Mounts::candidates; `child` is the name to join, or <<>>.               *)
(***************************************************************************)
Resolutions ==
  [object : Objects, wanted : Filesystems \cup {Unknown}, sized : BOOLEAN,
   form : {"slice", "registry"}, child : {<<>>, <<Child>>}]

(* A wanted fsid is the one of the object's filesystem. *)
Reported == {r \in Resolutions : r.wanted \in {FsOf[r.object], Unknown}}

Finish(r) ==
  /\ result' = r
  /\ pc' = "done"

(* The checks before the loop: an empty slice, then the handle's length. *)
Resolve(c) ==
  /\ pc = "idle"
  /\ call' = c
  /\ at' = 1
  /\ known' = Unknown
  /\ attempted' = FALSE
  /\ last' = "EXDEV"
  /\ tried' = <<>>
  /\ seen' = Facts
  /\ stayed' = inode[c.object]
  /\ LET empty == c.form = "slice" /\ entries = <<>>
     IN \/ empty /\ Finish("EINVAL")
        \/ ~empty /\ ~c.sized /\ Finish("InvalidInput")
        \/ ~empty /\ c.sized /\ pc' = "candidate" /\ UNCHANGED result
  /\ UNCHANGED <<world, entries, opened, path, handle>>

(* The iterator's next candidate, with the fsid on record (candidates) or  *)
(* probed now (resolve_file_handle).                                       *)
NextCandidate(fsid) ==
  /\ pc = "candidate"
  /\ known' = fsid
  /\ pc' = "filter"
  /\ UNCHANGED <<world, entries, call, at, attempted, last, opened, outcome, history>>

Candidates ==
  /\ call.form = "registry" /\ at <= Len(entries)
  /\ NextCandidate(entries[at].fsid)

ProbedCandidates(probed) ==
  /\ call.form = "slice" /\ at <= Len(entries)
  /\ NextCandidate(FsidOfFd(entries[at].fs, probed))

Wrong_WantedFilesystem_Always(on, wanted) == TRUE

WantedFilesystem(on, wanted) == on = Unknown \/ wanted = Unknown \/ on = wanted

(* on_filesystem and matching: the descriptors a caller is told may answer *)
(* for a filesystem, as indexes.                                           *)
OnFilesystem(fsid) == {i \in DOMAIN entries : WantedFilesystem(entries[i].fsid, fsid)}

Filter ==
  /\ pc = "filter"
  /\ \/ /\ WantedFilesystem(known, call.wanted)
        /\ attempted' = TRUE
        /\ pc' = "open"
        /\ UNCHANGED at
     \/ /\ ~WantedFilesystem(known, call.wanted)
        /\ at' = at + 1
        /\ pc' = "candidate"
        /\ UNCHANGED attempted
  /\ UNCHANGED <<world, entries, call, known, last, opened, outcome, history>>

(* open_by_handle_at decodes the bytes on the filesystem of the mount      *)
(* descriptor, whatever object they were reported for; a filesystem that   *)
(* has no fh_to_dentry decodes nothing.                                    *)
Decoded ==
  {o \in Objects : /\ inode[o] /\ entries[at].fs \notin FidOnly
                   /\ FsOf[o] = entries[at].fs /\ BytesOf[o] = BytesOf[call.object]}

Open ==
  /\ pc = "open"
  /\ privileged
  /\ \E o \in Decoded : opened' = o
  /\ pc' = "readlink"
  /\ UNCHANGED <<world, entries, call, at, known, attempted, last, outcome, history>>

Wrong_Failed_GivesUp(errno) ==
  /\ last' = errno
  /\ tried' = Append(tried, errno)
  /\ at' = Len(entries) + 1
  /\ pc' = "candidate"
  /\ opened' = "none"
  /\ UNCHANGED <<world, entries, call, known, attempted, outcome, seen, stayed>>

(* An attempt that fails leaves its errno in `last` and the loop goes on. *)
Failed(errno) ==
  /\ last' = errno
  /\ tried' = Append(tried, errno)
  /\ at' = at + 1
  /\ pc' = "candidate"
  /\ opened' = "none"
  /\ UNCHANGED <<world, entries, call, known, attempted, outcome, seen, stayed>>

(* Without the privilege, because nothing can be decoded, or for a reason  *)
(* that has nothing to do with the handle: no free descriptor, no memory.  *)
OpenFails ==
  /\ pc = "open"
  /\ \/ ~privileged /\ Failed("EPERM")
     \/ privileged /\ Decoded = {} /\ Failed("ESTALE")
     \/ \E errno \in Errnos : Failed(errno)

(* The link is read at a later moment than the open; the answer, with the  *)
(* child's name joined to it, is put on the event.                         *)
ReadLink ==
  /\ pc = "readlink"
  /\ path' = LinkText(opened) \o call.child
  /\ opened' = "none"
  /\ Finish("ok")
  /\ UNCHANGED <<world, entries, call, at, known, attempted, last, handle, history>>

(* /proc is not mounted, or out of memory. *)
ReadLinkFails ==
  /\ pc = "readlink"
  /\ \E errno \in Errnos : Failed(errno)

NoCandidateLeft ==
  /\ pc = "candidate"
  /\ at > Len(entries)
  /\ Finish(IF attempted THEN last ELSE "EXDEV")
  /\ UNCHANGED <<world, entries, walk, path, handle, history>>

-----------------------------------------------------------------------------
(***************************************************************************)
(* name_to_handle_at and handle_from_fd: an attempt for a FID, and on      *)
(* EINVAL, which is how an old kernel answers the flag, one without it.    *)
(* Each attempt walks the path anew, or encodes the descriptor's object;   *)
(* nothing else about it can be EINVAL, its capacity being fixed.          *)
(***************************************************************************)
BeginEncode(c) ==
  /\ pc = "idle"
  /\ call' = c
  /\ seen' = Facts
  /\ pc' = "fid"
  /\ UNCHANGED <<world, entries, at, known, attempted, last, outcome, tried, stayed>>

NameToHandleAt(p) == BeginEncode([form |-> "encode", path |-> p]) /\ UNCHANGED opened

HandleFromFd(o) == inode[o] /\ BeginEncode([form |-> "encode_fd", path |-> <<>>]) /\ opened' = o

(* One name_to_handle_at call, with the filesystems that do not encode     *)
(* what is asked for.                                                      *)
Encode(attempt, refused) ==
  LET named == {o \in Objects : IF call.form = "encode_fd" THEN o = opened
                                ELSE linked[o] /\ name[o] = call.path}
  IN /\ pc = attempt
     /\ \/ /\ named = {}
           /\ Finish("ENOENT") /\ UNCHANGED handle
        \/ \E o \in named :
             \/ FsOf[o] \in refused /\ Finish("EOPNOTSUPP") /\ UNCHANGED handle
             \/ FsOf[o] \notin refused /\ Finish("ok") /\ handle' = o
        \/ \E errno \in Errnos \ {"EINVAL"} : Finish(errno) /\ UNCHANGED handle
     /\ UNCHANGED <<world, entries, walk, path, history>>

(* A kernel that knows AT_HANDLE_FID encodes, another one answers EINVAL.  *)
EncodeFid == Encode("fid", {})

EncodeRetry ==
  /\ pc = "fid"
  /\ pc' = "plain"
  /\ UNCHANGED <<world, entries, walk, outcome, history>>

EncodePlain == Encode("plain", FidOnly)

(* The caller looks at the outcome, closes what it holds and clears the    *)
(* path for another event.                                                 *)
ClearPath ==
  /\ pc = "done"
  /\ pc' = "idle"
  /\ result' = "none"
  /\ path' = <<>>
  /\ handle' = "none"
  /\ call' = [form |-> "none"]
  /\ at' = 1 /\ known' = Unknown /\ attempted' = FALSE /\ last' = "EXDEV"
  /\ opened' = "none"
  /\ tried' = <<>> /\ seen' = {} /\ stayed' = TRUE
  /\ UNCHANGED <<world, entries>>

-----------------------------------------------------------------------------
Next ==
  \/ \E o \in Objects : (\E p \in Names[FsOf[o]] : Rename(o, p)) \/ Unlink(o) \/ Evict(o)
  \/ \E fs \in Filesystems, probed \in BOOLEAN : Add(fs, probed)
  \/ WithFdFails
  \/ \E fs \in Filesystems : AddWithFsid(fs)
  \/ \E c \in Reported : Resolve(c)
  \/ Candidates
  \/ \E probed \in BOOLEAN : ProbedCandidates(probed)
  \/ Filter \/ Open \/ OpenFails \/ ReadLink \/ ReadLinkFails \/ NoCandidateLeft
  \/ \E fs \in Filesystems : \E p \in Names[fs] : NameToHandleAt(p)
  \/ \E o \in Objects : HandleFromFd(o)
  \/ EncodeFid \/ EncodeRetry \/ EncodePlain
  \/ ClearPath

Spec == Init /\ [][Next]_vars

-----------------------------------------------------------------------------
(***************************************************************************)
(* Properties.                                                             *)
(***************************************************************************)

(* The moments of the call at which the event's object had this link. *)
Moments == {m \in seen : m.object = call.object /\ path = m.link \o call.child}

(* The filesystems were known: a descriptor whose fsid could not be read,  *)
(* or a caller that names no fsid, may answer for another filesystem.      *)
Filtered == Resolving /\ call.wanted # Unknown /\ known # Unknown

(* A path that is returned was the path of the object the event named, at  *)
(* some moment of the call, although the descriptor was opened and its     *)
(* link read at two moments and the same bytes name another object         *)
(* elsewhere; and a handle that is returned is of an object that had the   *)
(* path at some moment of the call, or of the descriptor's object.         *)
PathIsTheObjects ==
  pc = "done" /\ result = "ok" =>
    /\ Filtered => Moments # {}
    /\ call.form = "encode" =>
         \E m \in seen : m.object = handle /\ m.linked /\ m.name = call.path
    /\ call.form = "encode_fd" => handle = opened

(* A failure is the caller's to act on.  EXDEV if nothing was tried, and   *)
(* otherwise the errno of the last descriptor, after every descriptor that *)
(* could be on the event's filesystem was tried; the registry tried the    *)
(* selection it shows to its callers, no less and no more.  An object that *)
(* exists, on a filesystem that decodes handles, is only missed by a       *)
(* privileged caller when each descriptor of its filesystem failed for a   *)
(* reason of its own: if they all said ESTALE, the object was gone.        *)
CanAnswer(i) == entries[i].fs = FsOf[call.object]
Answers == Cardinality({i \in DOMAIN entries : CanAnswer(i)})
Refused == ~call.sized \/ (call.form = "slice" /\ entries = <<>>)

FailureIsEarned ==
  pc = "done" /\ Resolving /\ result # "ok" /\ ~Refused =>
    /\ IF tried = <<>> THEN result = "EXDEV" ELSE result = Last(tried)
    /\ Len(tried) >= Answers
    /\ call.form = "registry" => Len(tried) = Cardinality(OnFilesystem(call.wanted))
    /\ stayed /\ privileged /\ FsOf[call.object] \notin FidOnly =>
         Cardinality({i \in DOMAIN tried : tried[i] \in Errnos}) >= Answers

(* A path that is not called deleted was a real path of the object at some *)
(* moment of the call, wherever a marker may stand; and whenever the       *)
(* object's name carried no marker of its own, the cleaned path is it.     *)
MarkerIsHonest ==
  pc = "done" /\ result = "ok" /\ Filtered =>
    /\ IsDeleted \/ \E m \in Moments : m.linked
    /\ \A m \in Moments :
         ~CarriesDeletedMarker(m.name \o call.child) =>
           WithoutDeletedSuffix(path) = m.name \o call.child
=============================================================================
