------------------------------ MODULE FidParser ------------------------------
(***************************************************************************)
(* `parse_fid_events_into` and `parse_one_event` of src/fid.rs: the walk   *)
(* over the events of a buffer, the walk over the records of each event,   *)
(* and the Vec<FidEvent> whose slots are reused from call to call.         *)
(*                                                                         *)
(* The bytes are arbitrary, chosen at the step that reads them (every      *)
(* header is read once).  What a field of an event holds is abstracted to  *)
(* where it came from: the call and the offset of the record (or, for the  *)
(* fields of the metadata, of the event) whose bytes it borrows.           *)
(***************************************************************************)
EXTENDS Integers, Sequences, FiniteSets, SequencesExt

CONSTANTS
  MetadataSize,   \* METADATA_SIZE
  InfoHeaderSize, \* INFO_HEADER_SIZE
  FsidSize,       \* FSID_SIZE
  HandleHeaderSize, \* handle::FILE_HANDLE_HEADER_SIZE
  MaxHandleSize,  \* MAX_HANDLE_SZ
  WordSize,       \* the four bytes of a u32 field; a u64 field is two words
  LenField,       \* the values a length field of the buffer may hold
  InfoTypes,      \* the record types that occur
  BufLens,        \* the lengths of the buffers a caller parses
  MaxCalls        \* bound: how many buffers one Vec of events is reused for

(* The record types parse_one_event distinguishes; "OTHER" is any byte it  *)
(* does not know.                                                          *)
RecordTypes ==
  {"DFID_NAME", "FID", "DFID", "OLD_DFID_NAME", "NEW_DFID_NAME",
   "PIDFD", "ERROR", "RANGE", "MNT", "OTHER"}

ASSUME SizesAssumption ==
  /\ MetadataSize \in Nat \ {0}
  /\ InfoHeaderSize \in Nat \ {0}
  /\ FsidSize \in Nat
  /\ HandleHeaderSize \in Nat
  /\ MaxHandleSize \in Nat
  /\ WordSize \in Nat
ASSUME LenFieldAssumption == LenField \subseteq Nat
ASSUME BufLensAssumption == BufLens \subseteq Nat
ASSUME InfoTypesAssumption == InfoTypes \subseteq RecordTypes
ASSUME MaxCallsAssumption == MaxCalls \in Nat

VARIABLES
  pc,              \* "idle", "event" in the event loop, "record" in the record loop
  call,            \* how many calls were made so far
  buf_len,         \* buf.len()
  offset,          \* the local `offset`
  parsed,          \* the local `parsed`
  version_checked, \* the local `version_checked`
  header_at,       \* parse_one_event's `header_at`
  event_end,       \* parse_one_event's `event_end`
  events,          \* the caller's Vec<FidEvent>
  seen,            \* the records of the current event walked so far
  stop             \* ParseReport::stop of the last call, or "none"

vars == <<pc, call, buf_len, offset, parsed, version_checked, header_at,
          event_end, events, seen, stop>>

-----------------------------------------------------------------------------
(***************************************************************************)
(* Events and their fields.                                                *)
(***************************************************************************)

(* The fields a record can set.  dfid_name stands for dfid_name_handle and *)
(* dfid_name_name, which are only ever set together.                       *)
Fields ==
  {"fsid", "dfid_name", "self_handle", "rename_source", "rename_target",
   "pidfd", "fs_error", "access_range", "mnt_id"}

(* Where a field's value came from; call 0 is the None of a fresh event.   *)
Origin == [call : Nat, at : Nat]
None == [call |-> 0, at |-> 0]

(* An entry of unknown_info_records: the bytes at..end-1, header included. *)
Preserved == [call : Nat, at : Nat, end : Nat]

(* A slot: the bytes its mask, pid and fd_error were read for, its fields, *)
(* the records kept verbatim, and whether a resolver set its path.         *)
FidEvent ==
  [head : Origin, end : Nat, field : [Fields -> Origin],
   unknown_info_records : Seq(Preserved), path : BOOLEAN]

(* The definitions named Wrong_... are faulty variants of a definition     *)
(* below; nothing uses them but the mutation checks.                       *)

(* FidEvent::new, and what FidEvent::reset returns a slot to. *)
NewEvent ==
  [head |-> None, end |-> 0, field |-> [f \in Fields |-> None],
   unknown_info_records |-> <<>>, path |-> FALSE]
Wrong_Reset_KeepsPath(ev) == [NewEvent EXCEPT !.path = ev.path]
Reset(ev) == NewEvent

(* The field a record of each type lands in. *)
FieldOf(type) ==
  CASE type = "DFID_NAME" -> "dfid_name"
    [] type \in {"FID", "DFID"} -> "self_handle"
    [] type = "OLD_DFID_NAME" -> "rename_source"
    [] type = "NEW_DFID_NAME" -> "rename_target"
    [] type = "PIDFD" -> "pidfd"
    [] type = "ERROR" -> "fs_error"
    [] type = "RANGE" -> "access_range"
    [] type = "MNT" -> "mnt_id"

(* Types whose payload starts with an fsid and a file handle. *)
HandleTypes == {"DFID_NAME", "FID", "DFID", "OLD_DFID_NAME", "NEW_DFID_NAME"}

(* Types of which the first record wins and a repeat is kept verbatim; a   *)
(* repeat of any other type replaces the earlier value.                    *)
FirstWins == {"DFID_NAME", "PIDFD"}

(* split_fsid_handle and split_fsid_handle_name: the fsid, the handle      *)
(* header and the handle_bytes it announces all fit the payload.  The name *)
(* is whatever follows, possibly nothing.                                  *)
HandleFits(payload_len, handle_bytes) ==
  /\ handle_bytes <= MaxHandleSize
  /\ FsidSize + HandleHeaderSize + handle_bytes <= payload_len

(* Whether the payload of a record can be interpreted under its type. *)
PayloadFits(type, payload_len, handle_bytes) ==
  \/ type \in HandleTypes /\ HandleFits(payload_len, handle_bytes)
  \/ type = "PIDFD" /\ payload_len >= WordSize
  \/ type \in {"ERROR", "MNT"} /\ payload_len >= 2 * WordSize
  \/ type = "RANGE" /\ payload_len >= 4 * WordSize

(* FidEvent::preserve *)
Preserve(ev, at, end) ==
  [ev EXCEPT !.unknown_info_records = Append(@, [call |-> call, at |-> at, end |-> end])]

Wrong_Land_LastFsid(ev, type, at) ==
  LET here == [call |-> call, at |-> at]
  IN [ev EXCEPT !.field = [f \in Fields |->
        IF f = FieldOf(type) \/ (f = "fsid" /\ type \in HandleTypes) THEN here
        ELSE ev.field[f]]]

(* The fields after a record that is interpreted; fsid keeps the first     *)
(* value (`event.fsid.or(Some(fsid))`).                                    *)
Land(ev, type, at) ==
  LET here == [call |-> call, at |-> at]
  IN [ev EXCEPT !.field = [f \in Fields |->
        IF f = FieldOf(type) THEN here
        ELSE IF f = "fsid" /\ type \in HandleTypes /\ ev.field[f] = None THEN here
        ELSE ev.field[f]]]

Wrong_Interpret_DropsRepeat(ev, type, at, end, handle_bytes) ==
  IF ~PayloadFits(type, end - at - InfoHeaderSize, handle_bytes) THEN Preserve(ev, at, end)
  ELSE IF type \in FirstWins /\ ev.field[FieldOf(type)] # None THEN ev
  ELSE Land(ev, type, at)

(* The match on info_type for a record whose length is trusted. *)
Interpret(ev, type, at, end, handle_bytes) ==
  IF /\ PayloadFits(type, end - at - InfoHeaderSize, handle_bytes)
     /\ type \in FirstWins => ev.field[FieldOf(type)] = None
  THEN Land(ev, type, at)
  ELSE Preserve(ev, at, end)

-----------------------------------------------------------------------------
Init ==
  /\ pc = "idle"
  /\ call = 0
  /\ buf_len = 0
  /\ offset = 0
  /\ parsed = 0
  /\ version_checked = FALSE
  /\ header_at = 0
  /\ event_end = 0
  /\ events = <<>>
  /\ seen = {}
  /\ stop = "none"

(***************************************************************************)
(* The caller: parse a buffer into the Vec it kept, or set the path of an  *)
(* event of the last call (what a resolver does).                          *)
(***************************************************************************)
Call(n) ==
  /\ pc = "idle"
  /\ call < MaxCalls
  /\ pc' = "event"
  /\ call' = call + 1
  /\ buf_len' = n
  /\ offset' = 0
  /\ parsed' = 0
  /\ version_checked' = FALSE
  /\ stop' = "none"
  /\ UNCHANGED <<header_at, event_end, events, seen>>

SetPath(i) ==
  /\ pc = "idle"
  /\ call < MaxCalls \* only a later call can tell
  /\ ~events[i].path
  /\ events' = [events EXCEPT ![i].path = TRUE]
  /\ UNCHANGED <<pc, call, buf_len, offset, parsed, version_checked, header_at,
                 event_end, seen, stop>>

(***************************************************************************)
(* The event loop of parse_fid_events_into.                                *)
(***************************************************************************)
HeaderFits == offset + MetadataSize <= buf_len

Wrong_VersionAccepted_EveryHeader(known) == known

VersionAccepted(known) == version_checked \/ known

EventLenFits(event_len) ==
  /\ event_len >= MetadataSize
  /\ event_len <= buf_len - offset

RecordsStart(metadata_len) ==
  IF metadata_len >= MetadataSize THEN metadata_len ELSE MetadataSize

(* `events.truncate(parsed)` *)
Truncate(evs, n) == SubSeq(evs, 1, IF Len(evs) > n THEN n ELSE Len(evs))

Return(why) ==
  /\ pc' = "idle"
  /\ stop' = why
  /\ events' = Truncate(events, parsed)
  /\ UNCHANGED <<call, buf_len, offset, parsed, header_at, event_end, seen>>

StopAtTail ==
  /\ pc = "event"
  /\ ~HeaderFits
  /\ Return(IF offset = buf_len THEN "End" ELSE "ShortHeader")
  /\ UNCHANGED version_checked

StopAtHeader(known, event_len, metadata_len) ==
  /\ pc = "event"
  /\ HeaderFits
  /\ version_checked' = TRUE
  /\ \/ /\ ~VersionAccepted(known)
        /\ Return("UnknownVersion")
     \/ /\ VersionAccepted(known)
        /\ ~EventLenFits(event_len)
        /\ Return("BadEventLen")
     \/ /\ VersionAccepted(known)
        /\ EventLenFits(event_len)
        /\ RecordsStart(metadata_len) > event_len
        /\ Return("BadMetadataLen")

(* The mask, pid and fd_error of the metadata at the given bytes. *)
Headed(ev, at, end) ==
  [ev EXCEPT !.head = [call |-> call, at |-> at], !.end = end]

(* The slot of the next event: a leftover one reset, or a new one. *)
TakeSlot(evs, i, at, end) ==
  IF i <= Len(evs)
  THEN [evs EXCEPT ![i] = Headed(Reset(@), at, end)]
  ELSE Append(evs, Headed(NewEvent, at, end))

BeginEvent(known, event_len, metadata_len) ==
  /\ pc = "event"
  /\ HeaderFits
  /\ VersionAccepted(known)
  /\ EventLenFits(event_len)
  /\ RecordsStart(metadata_len) <= event_len
  /\ version_checked' = TRUE
  /\ pc' = "record"
  /\ event_end' = offset + event_len
  /\ header_at' = offset + RecordsStart(metadata_len)
  /\ events' = TakeSlot(events, parsed + 1, offset, offset + event_len)
  /\ seen' = {}
  /\ UNCHANGED <<call, buf_len, offset, parsed, stop>>

(***************************************************************************)
(* The record loop of parse_one_event.                                     *)
(***************************************************************************)
RecordHeaderFits == header_at + InfoHeaderSize <= event_end

Wrong_RecordLenFits_NoUpper(record_len) == record_len >= InfoHeaderSize

RecordLenFits(record_len) ==
  /\ record_len >= InfoHeaderSize
  /\ record_len <= event_end - header_at

Wrong_EndRecords_Spins ==
  /\ pc = "record"
  /\ header_at = event_end
  /\ pc' = "event"
  /\ parsed' = parsed + 1
  /\ offset' = event_end
  /\ header_at' = 0
  /\ event_end' = 0
  /\ seen' = {}
  /\ UNCHANGED <<call, buf_len, version_checked, events, stop>>

Wrong_EndRecords_Relative ==
  /\ pc = "record"
  /\ ~RecordHeaderFits
  /\ pc' = "event"
  /\ parsed' = parsed + 1
  /\ offset' = event_end
  /\ header_at' = header_at - event_end
  /\ event_end' = 0
  /\ seen' = {}
  /\ UNCHANGED <<call, buf_len, version_checked, events, stop>>

(* parse_one_event returns, its locals end, and the event loop moves on. *)
EndRecords ==
  /\ pc = "record"
  /\ ~RecordHeaderFits
  /\ pc' = "event"
  /\ parsed' = parsed + 1
  /\ offset' = event_end
  /\ header_at' = 0
  /\ event_end' = 0
  /\ seen' = {}
  /\ UNCHANGED <<call, buf_len, version_checked, events, stop>>

(* A length that cannot be walked past: the rest of the event is kept and  *)
(* the loop left, with nothing of the event still to walk.                 *)
BadRecord(record_len) ==
  /\ pc = "record"
  /\ RecordHeaderFits
  /\ ~RecordLenFits(record_len)
  /\ events' = [events EXCEPT ![parsed + 1] = Preserve(@, header_at, event_end)]
  /\ seen' = seen \cup {[type |-> "OTHER", at |-> header_at, end |-> event_end, fits |-> FALSE]}
  /\ header_at' = event_end
  /\ UNCHANGED <<pc, call, buf_len, offset, parsed, version_checked, event_end, stop>>

WalkRecord(type, record_len, handle_bytes) ==
  LET record_end == header_at + record_len
  IN /\ pc = "record"
     /\ RecordHeaderFits
     /\ RecordLenFits(record_len)
     /\ events' = [events EXCEPT ![parsed + 1] =
                     Interpret(@, type, header_at, record_end, handle_bytes)]
     /\ seen' = seen \cup {[type |-> type, at |-> header_at, end |-> record_end,
                            fits |-> PayloadFits(type, record_len - InfoHeaderSize, handle_bytes)]}
     /\ header_at' = record_end
     /\ UNCHANGED <<pc, call, buf_len, offset, parsed, version_checked, event_end, stop>>

Step ==
  \/ StopAtTail
  \/ \E known \in BOOLEAN, event_len, metadata_len \in LenField :
       \/ StopAtHeader(known, event_len, metadata_len)
       \/ BeginEvent(known, event_len, metadata_len)
  \/ EndRecords
  \/ \E record_len \in LenField :
       \/ BadRecord(record_len)
       \/ \E type \in InfoTypes, handle_bytes \in LenField :
            WalkRecord(type, record_len, handle_bytes)

Next ==
  \/ Step
  \/ \E n \in BufLens : Call(n)
  \/ \E i \in DOMAIN events : SetPath(i)

Spec == Init /\ [][Next]_vars

(* Parsing is straight-line code inside one call. *)
FairSpec == Spec /\ WF_vars(Step)

-----------------------------------------------------------------------------
(***************************************************************************)
(* The type invariant and the safety properties.                           *)
(***************************************************************************)
EventStop == {"End", "ShortHeader", "BadEventLen", "BadMetadataLen", "UnknownVersion"}

Record == [type : RecordTypes, fits : BOOLEAN, at : Nat, end : Nat]

(* The type invariant: the locals of both loops and the slots of the Vec,  *)
(* each field of which names bytes it was read from.                       *)
TypeOK ==
  /\ pc \in {"idle", "event", "record"}
  /\ call \in Nat
  /\ buf_len \in Nat
  /\ offset \in Nat
  /\ parsed \in Nat
  /\ version_checked \in BOOLEAN
  /\ header_at \in Nat
  /\ event_end \in Nat
  /\ events \in Seq(FidEvent)
  /\ seen \in SUBSET Record
  /\ stop \in EventStop \cup {"none"}

(* The slots that hold events of the current call. *)
LiveCount == IF pc = "record" THEN parsed + 1 ELSE parsed
Live == 1..LiveCount

(* The record walk stays inside its event, the event inside the buffer,    *)
(* and never returns into the metadata header: the premises of both        *)
(* read_unaligned calls.                                                   *)
WalkInBounds ==
  /\ offset <= buf_len
  /\ pc = "record" =>
       /\ offset + MetadataSize <= header_at
       /\ header_at <= event_end
       /\ event_end <= buf_len

(* A slot taken over from an earlier call carries nothing of it: every     *)
(* field, every preserved range and the path of a live event stem from     *)
(* this call, and from inside the event's own bytes.                       *)
NothingStale ==
  \A i \in Live :
    LET ev == events[i] IN
    /\ ev.head.call = call
    /\ pc # "idle" => ~ev.path
    /\ \A f \in Fields :
         ev.field[f] # None =>
           /\ ev.field[f].call = call
           /\ ev.head.at + MetadataSize <= ev.field[f].at
           /\ ev.field[f].at < ev.end
    /\ \A r \in ToSet(ev.unknown_info_records) :
         /\ r.call = call
         /\ ev.head.at + MetadataSize <= r.at
         /\ r.at + InfoHeaderSize <= r.end
         /\ r.end <= ev.end

(* No record vanishes: each record walked is kept verbatim, or is the one  *)
(* a field was read from, or was replaced by a later record of a type      *)
(* whose last record wins; never two of these at once.  What is kept is    *)
(* kept in the order of the buffer, and no byte of it twice.               *)
RecordsAccountedFor ==
  pc = "record" =>
    LET ev == events[parsed + 1]
        kept == ev.unknown_info_records
        Kept(r) == \E p \in ToSet(kept) : p.at = r.at /\ p.end = r.end
        Held(r) == r.fits /\ ev.field[FieldOf(r.type)].at = r.at
        Replaced(r) ==
          /\ r.fits
          /\ r.type \notin FirstWins
          /\ ev.field[FieldOf(r.type)].at > r.at
    IN /\ \A r \in seen :
            /\ Kept(r) \/ Held(r) \/ Replaced(r)
            /\ ~(Kept(r) /\ (Held(r) \/ Replaced(r)))
       /\ \A i, j \in DOMAIN kept : i < j => kept[i].end <= kept[j].at

(* An event that reports a handle reports an fsid, so a resolver that has  *)
(* a handle always has something to look it up under; and it is the fsid   *)
(* of the first record with a handle that could be read, whatever the      *)
(* records behind it say.                                                  *)
HandleFields == {"dfid_name", "self_handle", "rename_source", "rename_target"}

HandleHasFsid ==
  /\ \A i \in Live : \A f \in HandleFields :
       LET fsid == events[i].field["fsid"] IN
       events[i].field[f] # None => fsid # None /\ fsid.at <= events[i].field[f].at
  /\ pc = "record" =>
       LET fsid == events[parsed + 1].field["fsid"]
           handles == {r \in seen : r.fits /\ r.type \in HandleTypes}
           First(r) == \A q \in handles : r.at <= q.at
       IN /\ handles = {} => fsid = None
          /\ \A r \in handles : First(r) => fsid = [call |-> call, at |-> r.at]

(* Every call of the parser returns, whatever the bytes. *)
CallReturns == pc # "idle" ~> pc = "idle"

(* The walk over the events is the one the fd-format parser makes: the two *)
(* copies of the loop accept the same events, stop for the same reasons    *)
(* and truncate alike.                                                     *)
Walk == INSTANCE EventWalk WITH
  pc <- IF pc = "idle" THEN "idle" ELSE "event",
  offset <- IF pc = "record" THEN event_end ELSE offset,
  parsed <- LiveCount,
  spans <- {[at |-> events[i].head.at, end |-> events[i].end] : i \in Live},
  events_len <- Len(events)

WalksLikeFdParser == Walk!Spec
=============================================================================
