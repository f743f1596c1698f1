------------------------------ MODULE EventWalk ------------------------------
(***************************************************************************)
(* The walk over a buffer of fanotify events that both parsers of the      *)
(* crate make: `parse_fd_events_into` (src/fd.rs) is exactly this machine, *)
(* and `parse_fid_events_into` (src/fid.rs), which repeats the same loop   *)
(* and walks the records of every event inside it, implements it (module   *)
(* FidParser).                                                             *)
(*                                                                         *)
(* The bytes of the buffer are arbitrary: a field is given any value of    *)
(* its range at the step that reads it.  The walk reads every header once, *)
(* so this is the same as fixing arbitrary bytes before the call.          *)
(***************************************************************************)
EXTENDS Integers, FiniteSets

CONSTANTS
  MetadataSize, \* METADATA_SIZE, size_of::<EventMetadata>()
  LenField,     \* the values event_len and metadata_len may hold
  BufLens,      \* the lengths of the buffers a caller parses
  MaxCalls      \* bound: how many buffers one Vec of events is reused for

ASSUME MetadataSizeAssumption == MetadataSize \in Nat \ {0}
ASSUME LenFieldAssumption == LenField \subseteq Nat
ASSUME BufLensAssumption == BufLens \subseteq Nat
ASSUME MaxCallsAssumption == MaxCalls \in Nat

VARIABLES
  pc,              \* "idle" between two calls, "event" in the loop
  call,            \* how many calls were made so far
  buf_len,         \* buf.len()
  offset,          \* the local `offset`
  parsed,          \* the local `parsed`
  version_checked, \* the local `version_checked`
  spans,           \* the bytes each event of this call was parsed from
  events_len,      \* events.len()
  stop             \* ParseReport::stop of the last call, or "none"

vars ==
  <<pc, call, buf_len, offset, parsed, version_checked, spans, events_len, stop>>

(* The reasons of `EventStop`. *)
EventStop == {"End", "ShortHeader", "BadEventLen", "BadMetadataLen", "UnknownVersion"}

Span == [at : Nat, end : Nat]

(* The type invariant: what each local of the walk and the length of the   *)
(* Vec may hold.                                                           *)
TypeOK ==
  /\ pc \in {"idle", "event"}
  /\ call \in Nat
  /\ buf_len \in Nat
  /\ offset \in Nat
  /\ parsed \in Nat
  /\ version_checked \in BOOLEAN
  /\ spans \in SUBSET Span
  /\ events_len \in Nat
  /\ stop \in EventStop \cup {"none"}

Init ==
  /\ pc = "idle"
  /\ call = 0
  /\ buf_len = 0
  /\ offset = 0
  /\ parsed = 0
  /\ version_checked = FALSE
  /\ spans = {}
  /\ events_len = 0
  /\ stop = "none"

-----------------------------------------------------------------------------
(***************************************************************************)
(* Conditions of the loop.                                                 *)
(***************************************************************************)

(* The definitions named Wrong_... are faulty variants of the definition   *)
(* they precede; nothing uses them but the mutation checks.                *)
Wrong_HeaderFits_Strict == offset + MetadataSize < buf_len

(* The bounds check that makes reading a header sound. *)
HeaderFits == offset + MetadataSize <= buf_len

(* The version is looked at in the first header only. *)
VersionAccepted(known) == version_checked \/ known

Wrong_EventLenFits_NoUpper(event_len) == event_len >= MetadataSize

(* `event_len < METADATA_SIZE || event_len > buf.len() - offset` *)
EventLenFits(event_len) ==
  /\ event_len >= MetadataSize
  /\ event_len <= buf_len - offset

(* `usize::from(meta.metadata_len).max(METADATA_SIZE)` *)
RecordsStart(metadata_len) ==
  IF metadata_len >= MetadataSize THEN metadata_len ELSE MetadataSize

-----------------------------------------------------------------------------
(***************************************************************************)
(* Actions.                                                                *)
(***************************************************************************)

Wrong_Call_KeepsParsed(n) ==
  /\ pc = "idle"
  /\ call < MaxCalls
  /\ pc' = "event"
  /\ call' = call + 1
  /\ buf_len' = n
  /\ offset' = 0
  /\ version_checked' = FALSE
  /\ spans' = {}
  /\ stop' = "none"
  /\ UNCHANGED <<events_len, parsed>>

Call(n) ==
  /\ pc = "idle"
  /\ call < MaxCalls
  /\ pc' = "event"
  /\ call' = call + 1
  /\ buf_len' = n
  /\ offset' = 0
  /\ parsed' = 0
  /\ version_checked' = FALSE
  /\ spans' = {}
  /\ stop' = "none"
  /\ UNCHANGED events_len

Wrong_Return_NoTruncate(why) ==
  /\ pc' = "idle"
  /\ stop' = why
  /\ UNCHANGED <<call, buf_len, offset, parsed, spans, events_len>>

Wrong_Return_OffByOne(why) ==
  /\ pc' = "idle"
  /\ stop' = why
  /\ events_len' = parsed - 1
  /\ UNCHANGED <<call, buf_len, offset, parsed, spans>>

(* Leaving the loop: truncate the Vec to what was parsed and report. *)
Return(why) ==
  /\ pc' = "idle"
  /\ stop' = why
  /\ events_len' = IF events_len > parsed THEN parsed ELSE events_len
  /\ UNCHANGED <<call, buf_len, offset, parsed, spans>>

Wrong_StopAtTail_Spins ==
  /\ pc = "event"
  /\ offset = buf_len
  /\ Return("End")
  /\ UNCHANGED version_checked

(* Fewer bytes left than a header. *)
StopAtTail ==
  /\ pc = "event"
  /\ ~HeaderFits
  /\ Return(IF offset = buf_len THEN "End" ELSE "ShortHeader")
  /\ UNCHANGED version_checked

(* A header that cannot be one: its version, its length, its records. *)
StopAtHeader(known, event_len, metadata_len) ==
  /\ pc = "event"
  /\ HeaderFits
  /\ version_checked' = TRUE
  /\ \/ /\ ~VersionAccepted(known)
        /\ Return("UnknownVersion")
     \/ /\ VersionAccepted(known)
        /\ ~EventLenFits(event_len)
        /\ Return("BadEventLen")
     \/ /\ VersionAccepted(known)
        /\ EventLenFits(event_len)
        /\ RecordsStart(metadata_len) > event_len
        /\ Return("BadMetadataLen")

(* A whole event: it takes the next slot of the Vec. *)
ParseEvent(known, event_len, metadata_len) ==
  /\ pc = "event"
  /\ HeaderFits
  /\ VersionAccepted(known)
  /\ EventLenFits(event_len)
  /\ RecordsStart(metadata_len) <= event_len
  /\ version_checked' = TRUE
  /\ spans' = spans \cup {[at |-> offset, end |-> offset + event_len]}
  /\ events_len' = IF parsed < events_len THEN events_len ELSE events_len + 1
  /\ parsed' = parsed + 1
  /\ offset' = offset + event_len
  /\ UNCHANGED <<pc, call, buf_len, stop>>

Step ==
  \/ StopAtTail
  \/ \E known \in BOOLEAN, event_len, metadata_len \in LenField :
       \/ StopAtHeader(known, event_len, metadata_len)
       \/ ParseEvent(known, event_len, metadata_len)

Next == Step \/ \E n \in BufLens : Call(n)

Spec == Init /\ [][Next]_vars

(* The walk is one call of straight-line code: it is not left half-way. *)
FairSpec == Spec /\ WF_vars(Step)

-----------------------------------------------------------------------------
(***************************************************************************)
(* Properties.                                                             *)
(***************************************************************************)

(* Every byte from lo up to hi belongs to exactly one span of S, and the   *)
(* spans of S reach no byte outside.                                       *)
Tiles(S, lo, hi) ==
  /\ \A s \in S : lo <= s.at /\ s.at < s.end /\ s.end <= hi
  /\ \A i \in lo..(hi - 1) : \E s \in S : s.at <= i /\ i < s.end
  /\ \A s, t \in S : s # t => s.end <= t.at \/ t.end <= s.at

(* The events tile the consumed prefix of the buffer: no byte before       *)
(* bytes_consumed is skipped or read as part of two events, and no event   *)
(* reaches past it (the `offset += event_len` walk of both parsers).       *)
EventsTileConsumed ==
  /\ Tiles(spans, 0, offset)
  /\ offset <= buf_len

(* What the report says of the bytes that are left is true: End means none *)
(* are left, ShortHeader that the start of a header is, and every other    *)
(* reason that a whole header was there to be refused.                     *)
StopIsTruthful ==
  pc = "idle" /\ call > 0 =>
    /\ stop # "none"
    /\ stop = "End" <=> offset = buf_len
    /\ stop = "ShortHeader" <=> (offset < buf_len /\ buf_len - offset < MetadataSize)
    /\ stop = "UnknownVersion" => spans = {}

(* A call returns exactly the events it walked, however many slots the Vec *)
(* held from an earlier and longer buffer.                                 *)
ReturnsWhatItWalked ==
  pc = "idle" => events_len = parsed /\ parsed = Cardinality(spans)

(* No input makes the walk loop forever: every call returns. *)
CallReturns == pc = "event" ~> pc = "idle"

(* The truncation to bytes_consumed / METADATA_SIZE slots that             *)
(* FdEventReader::read_reported makes after the parse drops no event.      *)
TruncationDropsNothing == parsed * MetadataSize <= offset
=============================================================================
