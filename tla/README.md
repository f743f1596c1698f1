# A TLA+ model of fanotify-fid

fanotify-fid is a Rust crate over Linux fanotify. It reads event buffers from
the kernel, parses two wire formats, owns the descriptors the kernel installs,
answers permission events, turns file handles into paths, and manages marks and
waits. This directory models the parts of it that have state and control flow,
checks them with TLC and proves the central facts about them with TLAPS.

Paths below are relative to the repository (`src/fd.rs` and so on);
`PROJECT.json` gives the exact lines behind every definition. An item's lines
include the rustdoc attached to it, where the rules a definition follows are
written down.

## Inventory

| component | state | operations | interacts with |
|---|---|---|---|
| event walk (`src/fd.rs`, `src/parse.rs`) | `offset`, `parsed`, `version_checked`, the caller's `Vec` | `parse_fd_events_into` | fills the batch of the descriptor reader |
| FID parser (`src/fid.rs`) | the same, and `header_at`, `event_end`, the fields of each event | `parse_fid_events_into`, `parse_one_event` | fills the batch a resolver works on |
| descriptor reader (`src/group.rs`, `src/fd.rs`, `src/sys.rs`) | read buffer, `Vec<FdEvent>`, scratch list of adopted numbers | `read`, `read_reported`, `read_fd_events`, `into_fd`, `send_response`, `wait_readable` | the process's descriptor table, the kernel's queue and its list of waiting permission events |
| path resolver (`src/resolve.rs`) | none of its own; locals of a call | `resolve_event(_memo)`, `resolve_events(_memo)`, `resolve_dir`, `resolve_handle(_memo)` | store, mounts, the filesystems |
| handle cache (`src/handle.rs`) | a map from fsid and handle to path, in two levels, under an `RwLock` | `with_path`, `remember`, `forget`, `forget_filesystem`, `clear`, `len`, `is_empty`, `filesystems`, `entries`, `clone` | shared by every thread that resolves |
| mount registry (`src/handle.rs`) | descriptors and what is known of their fsid | `add`, `add_with_fsid`, `with_fd`, `candidates`, `on_filesystem`, `matching`, `resolve_file_handle(_in)` | read by the resolver; asks the filesystems |
| handle encoding (`src/handle.rs`) | none | `name_to_handle_at`, `handle_from_fd`, `fsid_of_fd` | the filesystems |
| deleted marker (`src/fid.rs`) | the path of an event | `is_deleted`, `without_deleted_suffix` | reads what the kernel put behind a link |
| FID reader (`src/group.rs`, `src/fid.rs`) | read buffer, `Vec<FidEvent>`, pidfds shared through an `Arc` | `EventReader::read`, `Fanotify::read_events`, `clone`, `take_pidfd`, `set_pidfd`, `Pidfd::into_fd` | FID parser, descriptor table |
| responses (`src/response.rs`) | a response under construction, the wire buffer of a send | `allow`, `deny`, `deny_errno`, `raw`, `info`, `audit_rule`, `with_fd`, `send_response` | the kernel's list of waiting permission events |
| group setup (`src/group.rs`) | the group's descriptor; the kernel's marks and queue behind it | `init`, `mark`, `mark_at`, `mark_fd`, `flush_marks`, `from_fd`, `into_inner`, `wait_readable` | kernel; the consumer's loop |
| errors, constants | none | `is_would_block` | the consumer's loop |

What is hard in this code:

* *arbitrary bytes*: the parsers are public, so every length field may hold
  anything, and two unaligned reads rest on hand-written bounds checks;
* *reuse*: events are parsed into slots that held other events;
* *numbers*: a descriptor number is free for everybody in the process the moment
  it is closed, and the kernel matches answers by number;
* *failure*: a read may fail after the previous batch was given up;
* *sharing*: threads teach and empty one handle cache while others are between
  their lookup and their write, and the filesystem changes meanwhile;
* *termination*: two loops advance by a length they just read, a third repeats
  until a pass learns nothing;
* *two moments*: a handle is opened and its link read in two system calls, a handle
  is encoded in up to two, and objects move and go in between;
* *waiting*: an event may arrive between `EAGAIN` and the poll, a signal is an error
  that ends the documented loop, and a timeout is cut to milliseconds.

`PROJECT.json` lists each of these as a hazard at the line where it bites.

## Modules

| module | models | used by |
|---|---|---|
| `EventWalk` | `parse_fd_events_into` | `MC_EventWalk`, `EventWalk_proofs`, and as the abstract specification of `FidParser` |
| `FidParser` | `parse_fid_events_into`, `parse_one_event` | `MC_FidParser`, `FidParser_proofs` |
| `FdReader` | `FdEventReader`, `read_fd_events`, adoption, answers | `MC_FdReader`, `FdReader_proofs` |
| `FidReader` | `EventReader`, `read_events`, `Pidfd` and its sharing | `MC_FidReader`, `FidReader_proofs` |
| `Resolver` | `PathResolver` over a store and mounts | `MC_Resolver`, `Resolver_proofs` |
| `PathMemo` | the trait of that name: what a store promises | abstract specification of `HandleCache` |
| `HandleCache` | the cache, its lock and its two levels | `MC_HandleCache`, `HandleCache_proofs` |
| `Mounts` | the registry, `resolve_file_handle(_in)`, encoding, the deleted marker | `MC_Mounts`, `Mounts_proofs` |
| `Group` | init, marks, flush, hand-over, composed with a `Consumer` | `MC_Group`, `Response_proofs` |
| `Consumer` | the read-and-wait loop, `wait_readable` | `Group`, `Response_proofs` |
| `Response` | `FanotifyResponse`, `WireBuffer`, `encode_response`, `write_response` | `MC_Response`, `Response_proofs` |
| the eight `..._proofs` | theorems about the module of that name; `Response_proofs` also those about `Group` | |

The operators named `Wrong_...` are faulty variants of the definition that
follows them. Nothing uses them but the mutation checks: with one of them in the
place of the original, TLC has to find the property violated that
`PROJECT.json` pairs it with.

### EventWalk

One action per way the loop can go: `StopAtTail` (no header fits), `StopAtHeader`
(version, `event_len`, `metadata_len` refused, in the order of the code),
`ParseEvent` (the slot is taken and the offset advanced). `Call` starts the next
buffer with the `Vec` the last call left. The bytes are chosen at the step that
reads them; because the walk reads each header once, this is the same as fixing
them in advance. `spans` records which bytes each event was parsed from and is
what "no byte is skipped or read twice" is stated over.

### FidParser

The same loop again, because the code repeats it, and inside it the record loop:
`BeginEvent` takes a slot and enters it, `WalkRecord` handles a record whose
length fits (`Interpret` is the match on the record type), `BadRecord` one whose
length does not, `EndRecords` returns to the event loop. A field holds where it
came from (the call and the offset of its record), which is all that "stale",
"lost" and "first wins" need. `SetPath` is what a resolver does to an event
between two calls. `unknown_info_records` is a sequence, as in the code, so that a
record kept twice or out of order is seen. `seen` is a history of the records of the
current event.

The fsid of an event is the one of its first handle record (`event.fsid.or`), which is
what `HandleHasFsid` says. That a later handle is of the same filesystem, which
`FidEvent::fsid` takes for granted (`src/fid.rs:588`), is nothing the parser checks: a
buffer with two fsids in one event files the second handle under the first. The kernel
reports one filesystem per event.

`Walk` is the refinement mapping to `EventWalk`: an event counts as walked once
its header is accepted, so the records are walked inside a span the abstract
machine has already passed.

### FdReader

Each thread goes through one read in the steps of the code: `BeginRead` forgets
the bytes, `DropSlot`/`EndClear` are `events.clear()` one descriptor at a time,
`ReadBatch` or `ReadFails` is `read(2)`, `Parse`, then `Adopt` one event at a
time, `EndRead`. Between reads the caller answers (`Respond`), takes descriptors
out (`IntoFd`, possible only for the stateless form, because the reader lends
its events), duplicates them (`TryClone`) and drops them. `OpenElsewhere` and
`CloseElsewhere` are the rest of the process: any free number may become another
file between any two steps.

External and modelled from their use: the kernel's queue, the descriptor table,
and the list of permission events that wait under a number. The kernel gives a
fresh number per event with an object, none when it cannot open it, and denies a
permission event in that case itself. `AllowRepeat` adds streams in which an
event without a descriptor repeats a number of its batch, which is what the
duplicate check of `adopt_reported` is for.

The documented loop returns an error of a read or of a wait to its caller
(`src/group.rs:949-951`). `ReadFails` with another errno than `EAGAIN` and `WaitFails` end
it, and the thread may run it again.

`FdEventReader::new` fills its `Vec` with empty slots; they hold no descriptor
and the first read clears them, so the model starts with an empty `Vec`.

### Resolver

A call goes through its events (`SkipEvent`, `StartEvent`), the shapes of an
event in the order of the code (`Attempts`: DFID_NAME, the source of a rename,
the object's own handle), the store (`Lookup`), then the mounts (`PassCandidate`,
`OpenByHandle`, `ReadLink`, `ReadLinkFails`, `NoCandidateLeft`), and lands the
path (`Land`, which in the memo form remembers it first). `EndPass` is the end of
a pass over the batch: the looping form repeats while a pass resolved something.
Each store operation is one step because it runs under one lock, each system call
is one step, and everything else may happen between two of them: renames,
deletions, evictions of an inode, other threads, `Forget`, `ForgetFilesystem`,
`Clear`, and `Teach` (a caller that records a directory it can see).

A path is a sequence whose first element is the filesystem, so that a path on
the wrong filesystem is visible. An object has its path and the set of directories
above it (`loc`); a rename replaces the beginning of the path of all that is below
(`Moved`). A handle is unique on its filesystem only, and
the instances give two objects on different filesystems the same handle bytes.
`resolve_handle_memo` is the call on an event that carries nothing but its own
handle. `taught`, `landed`, `forgotten` and `late` are histories.

Here the store is one atomic map, which is what `HandleCache` is shown to be, and
the mounts are a constant; `Mounts` has the registry and the errnos.

### FidReader

The reading half has the steps of `FdReader`. What is new is ownership: an
adopted pidfd is an `Arc<OwnedFd>`, so an event may be cloned and the copies may
go to any thread. `Refs` is the count of an `Arc`: the slots of a batch, the copies
the callers hold (`CloneEvent`, `TakePidfd`, `DropCopy`), and the `into_fd` calls
that found it shared and still hold their reference. `IntoFd` and
`DuplicateShared` are the two halves of that call, `try_unwrap` and the duplicate;
between them the other holders may go, so the reference the second half drops may
be the last. `SetPidfd` puts a descriptor into an event and drops what was there.
`Parse` takes from `FidParser` what it promises: a number of a record is reported
and owned by nobody.

### HandleCache and PathMemo

`PathMemo` is an atomic map: a call is invoked, takes effect at one moment, and
returns. `HandleCache` is the code: the guard is taken (`Read`, `Write`), the call
does its work in the steps the code makes (`RememberLevel` then `RememberEntry`,
`Forget` then `Prune`, `LookUp` then `RunClosure`), and the guard goes (`Release`).
`levels` are the keys of the outer map and `known` the inner maps; the content of
an inner map outside `levels` means nothing. The refinement maps a call to
"answered" at the step that makes its effect visible; `Prune` comes after it and
stutters, because an empty level and no level are the same map. A clone copies the
map under the guard of its source and is an initial state with any content.

### Mounts

A resolution goes through the checks before the loop (`Resolve`), each candidate
(`Candidates` with the fsid on record, `ProbedCandidates` with one asked for now,
for the form that takes a slice), `Filter`, `Open`, `ReadLink`, and the failures of
each, whose errno becomes `last`. Encoding is `EncodeFid`, or on an old kernel, which
answers `EINVAL`, the retry (`EncodeRetry`, `EncodePlain`); either kernel may be the one
that is asked. `Rename`, `Unlink` and `Evict` may come
between any two steps. The kernel decodes bytes on the filesystem of the mount
descriptor it is given, whatever they were reported for; a filesystem without
`fh_to_dentry` (`FidOnly`) decodes nothing. An open fails with `EPERM` without the
privilege, with `ESTALE` when nothing decodes, and with any of `Errnos` (no free
descriptor, no memory) whatever the object is; the read of the link and the encoding
fail with any of `Errnos` too.

A path is a sequence of components, a component (`Name`) a base and the number of
" (deleted)" markers at its end, so that a real name that ends in the marker, or
is nothing else, is in the model; only the empty name is not one. `WithoutDeletedSuffix`
takes a marker off each component and drops the ones that were the marker alone; it is
written by positions, not as a fold over the path, so that it can be reasoned about for
paths of any length. `seen`, `tried` and `stayed` are histories of one
call.

### Group and Consumer

The kernel's marks are a mask per object, one for the mount and one for the
filesystem. `Mark` walks its path at the time of the call, `MarkAt` and `MarkFd`
start from a descriptor that was opened earlier, while `Rename` moves objects.
`FlushMarks` is the one call the code makes, with the meaning fanotify_mark(2)
gives it. `returned` is the last of these calls and what it returned. `Consumer` is the
documented loop: read until `EAGAIN`, wait, read. Any other error of a read and every
error of a wait end it (`ReadFails`, `PollFails`), `EINTR` included, because the loop
passes what `wait_readable` returns on with `?` and `wait_readable` does not retry. `Group`
composes the two: it queues events and closes the group, and every step of the loop
leaves the group's own state alone (`UNCHANGED setup`).
`TimeoutMs` is the conversion to whole milliseconds with its cap. The clock is in
ticks smaller than a millisecond, so that a cut timeout is visible.

### Response

A writer builds a response with one of the constructors (`Allow`, `Deny`,
`DenyErrno`, `Raw`, `WithInfo`, `AuditRule`), may attach a descriptor (`WithFd`),
and sends it: `Encode` is `write_response` up to the system call, `WriteFails` and
`WriteReturns` are the call and the test for a short count. `Again` is a second
send of the same response, which `send_response` only borrows.

A 32-bit word is the set of its bit positions, so `|`, `&` and a shift that loses
what leaves the word are set operations and no width is lost; an `i32` errno is
the set of bits of its cast. The bytes of a send are the slices appended to the
`WireBuffer`, each with its offset and its size: the model keeps the real sizes
(32 inline bytes, 16-bit lengths) without spelling out bytes.

External: `fanotify_write`, by the rules in the module documentation of
`src/response.rs` and the error texts of `src/error.rs`. The kernel may refuse any
packed errno; a kernel may know records or not (`knows_info`); it consumes a
record only when the word announces one. `hit` is a history: the descriptor the
last send answered.

## Runs

| run | instance | checks |
|---|---|---|
| `event_walk` | header of 3 units, buffers of 0 to 11, every length 0 to 12, two calls | `TypeOK`, `EventsTileConsumed`, `StopIsTruthful`, `ReturnsWhatItWalked`, `TruncationDropsNothing`, `CallReturns` |
| `fid_parser` | all ten record types, headers of 2 units, buffers of 3 and 7, lengths 0 to 8, two calls, paths set in between | `TypeOK`, `WalkInBounds`, `RecordsAccountedFor`, `HandleHasFsid`, `NothingStale`, `CallReturns`, `WalksLikeFdParser` |
| `fd_reader` | one reader, one stateless caller, two numbers, three events, batches of two, no discipline | `TypeOK`, `SingleOwner`, `OwnedIsItsObject`, `NothingLeaks`, `FailedReadLeavesNothing` |
| `fd_answers` | one reader running the documented loop | `AnswerHitsItsEvent`, `PermissionIsResolved` |
| `fid_reader` | one reader, one stateless caller, two numbers, two events, two copies, known and unknown streams | `OwnedIsItsProcess`, `NothingLeaks` |
| `resolver` | one thread, three objects on two filesystems, four batches, all calls, both fallback settings, two changes | `TypeOK`, `PathsStayOnTheirFilesystem`, `ReportIsTheBatch`, `PassBound`, `CallReturns` |
| `resolver_shared` | two threads on one cache, a caller that teaches | `FixedPoint` |
| `handle_cache` | two threads, two filesystems, two handles, two paths, any initial content, any two calls | `LentPathStays`, `ImplementsPathMemo` |
| `mounts` | two objects on one filesystem and one on another without `fh_to_dentry`, with the handle bytes of one of the two, one errno besides `EPERM` and `ESTALE`, registries of up to two entries, two changes | `PathIsTheObjects`, `FailureIsEarned`, `MarkerIsHonest` |
| `group` | two objects, two paths, two changes, two events, four timeouts and none, failing reads and waits | `WaitIsHonest`, `EventsAreRead` |
| `response` | two writers, two blocked operations, four errnos, payload sizes 12, 20, 21, 65531, 65532, every group and kernel | `TypeOK`, `WireIsTheResponse`, `ResultIsTheVerdict`, `OwnFormsAreAccepted`, `OperationSeesTheDecision` |
| `group_flush` | as `group`, with one event and one timeout | `FlushRemovesEverything`, violated |

Why the bounds are enough to be interesting. In `event_walk` the longest buffer
holds three whole events and a cut one, and the length fields reach one past it;
the second call meets a `Vec` that is longer, as long, or shorter. In
`fid_parser` a buffer of 7 holds an event with two records and a rest, or three
events, so a first and a repeated record, a cut one, and a `Vec` that is longer
than the second call fills all occur; the sizes inside a record are scaled to units
of which every record type needs a different number or none. In `fd_reader` and
`fid_reader` two numbers are fewer than the descriptors in play, so numbers are
reused at once, by every actor; numbers and events are symmetric. In `resolver` the
batches contain a child before the event that teaches its parent, an event with a
name that is refused, a rename, and an event without a fsid; two changes allow a
deletion followed by the eviction of the inode. In `handle_cache` two calls are what
it takes for one to meet another under the lock, and the initial content stands for
the calls before them: every one of the 81 stores is a start. In `mounts` the two
changes are a rename and a deletion, two renames, or a deletion and its eviction;
two entries are a wrong one before the right one, or the reverse; and two changes can
move one object away and another to its path, between the two attempts of an encoding. In
`group` the
timeouts are zero, below a millisecond, between two, and above the longest wait; two
events are one that is read while another arrives. In `response` the errnos are zero,
an ordinary one, one past the errno field and -1; the sizes are the audit rule's, the
two around the inline limit and the two around the 16-bit limit; two writers may race
for one operation, miss each other's, or send twice. The runs that bound the number of
calls or events allow the system to stop, and say so with `CHECK_DEADLOCK FALSE`; the
others check deadlock.

## Disagreements between text and code

Run `group_flush`: `flush_marks` passes `FAN_MARK_FLUSH` alone. The anchor flag of
an inode mark is zero, so this is the request to flush inode marks, and marks on
the mount or the filesystem stay, while the documentation says "Marks of every
anchor - inode, mount, filesystem - go" (`src/group.rs:317`; `SPEC.md:275`). In the trace
the group marks the mount, then flushes (`returned` is `flush_marks` with `Ok`), and the
mark is still there.

The next five are stated in the modules and fail under the constants given here;
the passing runs exclude the case.

* `NothingLeaks` of `FdReader` with `ReportPidfd = TRUE`: on a descriptor group with
  `FAN_REPORT_PIDFD` the kernel installs a pidfd per event and names it in a record.
  The fd-format parser skips everything behind the header ("There are no info
  records in this format", `src/fd.rs:21`), so nobody owns or closes the pidfds.
* `UnknownVersionIsRaised` of `FdReader` with `Versions = {TRUE, FALSE}`:
  `FdEventReader::read` drops the parse report (`src/group.rs:1044`), so a stream of
  an unknown version is an empty batch; its documentation promises the errors of
  `Fanotify::read_fd_events`, which returns `UnknownEventVersion`. The descriptors of
  such a batch have no owner, in either form.
* `PathsStayOnTheirFilesystem` of `Resolver` with `Mounts <- MC_UnknownMounts`: a
  mount whose fsid could not be read matches every event, and the first readable
  answer wins (`src/handle.rs:801`). `SPEC.md:129` says the cost is "never a wrong
  path"; it is one when the bytes of the handle exist there too. `PathIsTheObjects`
  of `Mounts` has the same premise (`Filtered`).
* `ForgetIsFinal` of `Resolver`: a `forget` between the lookup and the `remember` of
  a resolution (`src/resolve.rs:400`) is undone by the `remember`, although `forget`
  is documented to make the next lookup ask the filesystem again
  (`src/handle.rs:248`). With one thread that resolves and one that forgets this
  takes three steps.
* `OtherFormatsAreRefused` of `FidReader` with `Streams = {"fd"}`: "A buffer that is
  not FID events at all is refused" (`src/group.rs:441`), but both formats have one
  header version and a read of a descriptor group succeeds. The same source warns of
  the mix-up at `src/group.rs:332`. The descriptors in the fd fields have no owner.

Smaller divergences that were met on the way:

* `src/group.rs:1083` calls the division `bytes_consumed / METADATA_SIZE` exact
  and its result the number of live slots. For an event longer than its header it
  is neither; it is only ever too large, so the truncation is harmless. That is
  `TruncationDropsNothing`, checked and proved.
* `SPEC.md:128` and the comment at `src/resolve.rs:378` say that a resolution
  with a memo records the parent directory. The code records the object's own
  handle only.
* `src/resolve.rs:513` says the loop cannot run more often than there are events.
  It runs once more, for the pass that finds nothing: `PassBound`.
* `SPEC.md:131` says the directory half is resolved before the name is validated;
  `resolve_dir` validates first, and the model follows the code.
* `HandleCache::clone` (`src/handle.rs:299`) is documented as sharing the map and
  copies it.
* `Pidfd::eq` (`src/fid.rs:240`) is documented to compare processes and compares
  descriptor numbers.
* `src/handle.rs:621` lists `EXDEV` among the errnos of `open_by_handle_at`, and
  `resolve_file_handle_in` documents `EXDEV` for "when nothing was tried"
  (`src/handle.rs:825`). If the kernel does return it, the two cannot be told apart.
* `src/group.rs:210` says removing a mark that is not there is not an error; the
  kernel answers `ENOENT` and the call returns it.
* A timeout below one millisecond becomes a poll that does not wait
  (`src/group.rs:593`), so a loop with such a timeout spins. `WaitIsHonest` states
  exactly how early a wait may end.

## Fairness

Safety properties are checked of specifications without fairness. For
termination, `EventWalk` and `FidParser` assume weak fairness of the walk, and
`Resolver` weak fairness of each thread's own steps: a call is straight-line code
that is not left half-way. Nothing is assumed of callers, of other threads or of
the filesystem. `FdReader` assumes that a thread running the documented loop
keeps running it, and runs it again after it returned an error (weak fairness of its
steps and of answering each event): the loop itself does not, so `PermissionIsResolved`
is a promise to a program that does, and one that gives up after an error may leave
an operation waiting. It also assumes strong fairness of a successful `read(2)`: reads may fail any number of times,
but a read that is tried for ever on a queue that is not empty succeeds at some
time. Without that last assumption a group that only ever returns an error would
leave every permission event waiting. `HandleCache` assumes weak fairness of each
thread's steps: a thread that can go on does, the lock included; the number of
calls is finite, so no preference of the lock is needed. `Group` assumes that the
consumer runs its loop and time passes (weak fairness), that an `OwnedFd` that was
taken out is put back (weak), and strong fairness of starting the loop, which can
be disabled for a while whenever the descriptor changes hands. Marks, signals and
other errors of `read(2)` and `poll(2)` are not assumed to happen or not to happen. A loop
that returned an error is not started again, and `EventsAreRead` claims nothing after
one: a program that wants its events in spite of signals has to retry `EINTR`.

## Proofs

The theorems hold for every value of the constants: any number of threads,
descriptors, objects, events, calls and batches, any sizes and any bytes. What they
assume is stated in the modules as named `ASSUME`s, which TLC evaluates in every run:
sizes are natural numbers, and positive where a loop advances by them; an absent value
is no value (`SentinelsAssumption` and the like); the batches and mounts are sequences
of their type; the threads of `FidReader` are finitely many, because `Refs` counts them.
Three theorems have a hypothesis of their own, each the case that a section above
gives as a disagreement: `NothingLeaksCorrect` of `FdReader` (`ReportPidfd = FALSE` and
`Versions = {TRUE}`), `NoPidfdLeaks` of `FidReader` (no stream of a descriptor group),
and `PathsStayCorrect` of `Resolver` (every mount's fsid is known). That of
`GroupTypeCorrect` only repeats an assumption of its module.

Every inductive invariant below was first checked by TLC as an invariant of the
instances of the runs.

`EventWalk_proofs`. The inductive invariant is `WalkInv`: the types, the tiling
of the consumed prefix, the truth of the last report, and `LoopState`. The first
three are not inductive together: `StopIsTruthful` claims that an unknown version
is only reported before the first event, which needs that there is no event while
`version_checked` is false. The heart is `TilesExtend`: a span that begins where
a tiling ends extends it. From `WalkInv`:

* `WalkTypeCorrect`, `WalkTiles`, `WalkReportsTruthfully` are its conjuncts;
* `WalkReturnsItsEvents` adds `CountInv` (the Vec is never shorter than `parsed`
  inside the loop, and `parsed` is the number of spans, which needs the tiling:
  a new span is not an old one);
* `TruncationIsHarmless` counts a header's worth of bytes per event;
* `WalkAdvances` is the variant of the loop: `Remaining` is at most the length of the
  buffer and one, and every step decreases it. It is what of `CallReturns` can be
  proved here, and it rests on the lower bound of `event_len`.

`FidParser_proofs`. The inductive invariant is `ParserInv`: the types, the bounds
of both walks (`WalkInBounds`), and that the slot being written exists
(`SlotInv`). `ParserTypeCorrect` and `ParserInBounds` follow. `ParserInBounds` is
what the SAFETY comments of both `read_unaligned` calls claim.
`ParserImplementsWalk` is the refinement `Spec => Walk!Spec`: initial states map
to initial states, accepting a header maps to `ParseEvent`, returning and stopping
map to themselves, and every step of the record loop is a stutter because it
changes no span. So what is proved of `EventWalk` holds of the event loop of the
FID parser as well.

`ContentInv` is about what the events hold. In the middle of an event
a field, a preserved range and a path stem from the records walked so far
(`LiveInv`, `CurrentInv`), each of them is accounted for exactly once, and
their offsets lie behind the header and before `header_at`; that a repeated record
is later than the one it meets is what makes "first wins" and "last wins" come out, that
the fsid is the first handle record's, and that what is kept is in the buffer's order.
It needs `ParserInv` for the slot and the bounds. `ParserNothingStale`,
`ParserAccountsForRecords` and `ParserHandleHasFsid` follow. `ParserAdvances` is the
variant of the two nested loops: one number, at most twice the length of the buffer and
one, that every step of either decreases.

`FdReader_proofs`. A number the kernel installed passes from `inflight` to a slot of
the thread that read it and from there to a caller. `FdInv` says that these numbers
are open on their objects (`OwnedInv`), that no two slots, threads or callers have the
same one (`ApartInv`, `HeldInv`), and what is left to do in each phase (`PhaseInv`:
before `at` the slots are adopted, or already closed). That others cannot break it is
that they take only free numbers and close only their own. It gives
`FdReaderTypeCorrect`, `SingleOwnerCorrect`, `OwnedObjectCorrect` and
`FailedReadCorrect`. `LeakInv` is the other direction, every installed number has
somebody: it needs that what is inflight is exactly what the adopt loop has
before it, duplicates within a batch included (`ToCome`, `Fresh`).
`PendingInv` says that an operation waits under a number that its event still
claims; it is what `AnswersCorrect` needs, since the kernel matches an answer by number
alone.

`FidReader_proofs`. `FidInv` has the same shape with holders instead of owners: an
`Arc` with a positive count, or an `OwnedFd`, names a process the table has under its
number (`OwnedIsItsProcess`), and nothing inflight is in an `Arc` (`InflightInv`). The
steps that drop a reference rest on `Count`, a lemma on when a sum of a cardinality
and two counts is zero or one, since the last holder closes. `OwnedPidfdCorrect` and,
with `LeakInv`, `NoPidfdLeaks` follow.

`Resolver_proofs`. `ResolverInv` has the types, what a thread holds in each phase of an
attempt (`ThreadInv`), and that every object is on its filesystem together with all
directories above it (`IsOn`), which a rename keeps only because it may not leave the
filesystem (`MovedTyped`). Three invariants stand on it. `ReportInv`: a pass counts the
events it is past, and `Accounts` relates these counts, the number of paths that
landed and the number of events without a path; what is found when the last, vain pass
ends makes the account of the pass before it true of the state the call leaves. It
gives `ReportCorrect` and `PassesAreBounded`. `FixedInv`: what the call taught is in the store
unless it was forgotten, so a shape looked up in vain was not taught, and while a pass
has resolved nothing nothing has been taught since; so at the end of a vain pass no
shape of any event without a path was taught (`FixedPointReached`), whatever other
threads do meanwhile. `StayInv`: the store, the events, the opened object and the found
path belong to the fsid they are filed under (`PathsStayCorrect`).

`Response_proofs`. `DenyErrnoWordIsADenial` is about the word alone: for every
32-bit errno it is a denial, sets none of the other flags, and holds the low eight
bits where the kernel reads them. `ExtendAppends` says that appending to a
`WireBuffer` appends to the bytes it stands for in each of its three branches, the
spill included; five applications of it give `EncodingIsTheResponse`, the layout of
every response whose record length fits 16 bits. The inductive invariant `AnswerInv`
has the types, that an operation is not waiting and answered at once, and of each
writer that its response still is what its constructor built (`FormInv`), that the
bytes about to be written are that response, and what a send that returned did
(`Returned`). The last is stable because an operation is answered once: whoever
loses the race for it is told so and changes nothing. From it `ResponseTypeCorrect`,
`WireCorrect`, `ResultCorrect`, `OwnFormsCorrect` and `DecisionCorrect` follow.

The last part of `Response_proofs` is about `Group`, the group the responses are written
to, which it takes as an instance `Gr` with constants and variables of its own. The
consumer's are the ones of `Consumer`: `GroupStep` says that every step of the
group is, to its consumer, a step of the consumer's loop, an event more, an emptied queue while it is idle
or stopped, or nothing (`ConsumerNext`), and all that follows is about these.
`WaitHonest` is `WaitIsHonest` for every clock, cap and timeout. `WaitIsHonest` speaks
of the moment after a wait only. The inductive invariant `WaitInv` adds what holds
while poll waits (`PollState`: the timeout is the one computed, and the wait is not
longer than it) and that an outcome does not outlive the read that follows it
(`OutcomeIsFresh`), without which nothing excludes an old "ready" when the loop
starts again. `TimeoutBound` is the arithmetic of the conversion: the cut is less than
one millisecond, the cap aside. `GroupTypeCorrect` is type correctness; its hypothesis
is `ChangesAssumption`, which `Group` makes of its bound and an instance has to repeat.

`Mounts_proofs`. The inductive invariant `MountsInv` relates what a resolution holds
between two system calls to a world that changes in between. Of the world: every fsid
on record is the one of the descriptor it stands beside (`RegistryInv`). Of the
history: what was seen of an object is a name and the link that name had, and while a
call runs what is true now was seen (`SeenInv`), so the link read from an open
descriptor is a link its object has at a moment of the call. Of the loop
(`CandidateInv`): a candidate that passed the filter has the wanted fsid if both are
known, and what its descriptor opened is the object with the event's bytes on the
candidate's filesystem, which is the event's object when the filesystems are
known, because bytes are unique on their own filesystem (`HandlesAssumption`). That gives
`PathCorrect` (`ReadLinkOutcome`, `EncodeOutcome`). `FailureCorrect` needs an account
of the candidates the loop is past (`TriedInv`): each that could answer left
an errno, the form that reads the registry left exactly one for each candidate it
selected, `last` is the last of them, `attempted` says whether there is one, and while
the object exists, on a filesystem that decodes, each descriptor of that filesystem that
a privileged caller tried in vain failed for a reason other than the handle. The counts are by
`NextAccount`, and at the end of the loop by `LoopEnds`. `MarkerCorrect` is about the path
that came out: `LostIsMarked` says that the link of a lost path carries a marker, with a
child behind it or not, and `MarkerRemoved` that taking one marker off gives back every
path that carried none. The assumption on the names (`NamesAssumption`) is the file
system's: a path has at least one component and no component is empty.

`HandleCache_proofs`. The inductive invariant `CacheInv` has the types, who holds
which guard (`GuardsHeld`), what a thread was called for (`CallFits`) and
`LentPathStays`; the last is not inductive alone, because it takes the guards to
know that nobody writes while something is lent (`Exclusive`, `WriteStepAlone`).
`CacheTypeCorrect` and `LentPathKept` follow. `CacheIsAtomic` is the refinement
`Spec => Memo!Atomic`, the safety half of `ImplementsPathMemo`, for any number of
threads and calls. It needs one more fact, `NoEmptyLevel`: a level without an entry
is one that a call under the write guard is working on, so that `filesystems`, which
counts levels, counts filesystems with entries. `NobodyWaitsForNobody` is about the lock:
`GuardsAreAtWork`, the converse of `GuardsHeld`, says that a guard is held by a call at
work only, so while somebody waits the guard is free or its holder can go on.

Only model-checked:

* every liveness property, since liveness under fairness is out of the prover's reach:
  `CallReturns` of three modules, `PermissionIsResolved`, `EventsAreRead`, and the
  liveness half of `ImplementsPathMemo`. Proved of them are the variants of the parsers
  (`WalkAdvances`, `ParserAdvances`), the bound on the passes of the resolver
  (`PassesAreBounded`) and that the lock of the cache closes no cycle of waiting
  (`NobodyWaitsForNobody`). Every safety property of a passing run is proved;
* that `WithoutDeletedSuffix` is the code's loop over the components of a path: proving it of a
  recursive form would be an induction over data.

## Not modelled

* The bytes of names and of handles: a name is a component, a refused one, or
  "the directory itself". The bytes of a response payload are one opaque body. The
  size clamp of `name_to_handle_at` goes with them.
* Error wording, flag tables and re-exports: pure data.
* Of the kernel's side of a mark: ignore masks, evictable marks, mount namespaces,
  and which masks a notification class accepts. The crate passes these on unread.
* `resolve_rename_target` (the same `resolve_dir` without an effect on the event),
  `fsid_of_path` (`fsid_of_fd` on a path), `Pidfd::eq`, `NoCache` (no state).
* A closure of `with_path` that calls the store it borrows from: it would wait for
  its own guard, and nothing in the code prevents it. The resolver's closures do not.

## Plan

1. Done: all modules above and their runs.
2. Done: the safety properties of all modules, proved.
3. A composition of reader, parser and resolver as in
   `examples/batch_to_worker.rs`: batches handed to a worker while the reader goes
   on. The ownership half of it is in `FidReader` (copies in any thread), the cache
   half in `HandleCache`.
