--------------------------- MODULE FidParser_proofs ---------------------------
(***************************************************************************)
(* Proofs about FidParser, for any sizes, any buffers and any bytes: the   *)
(* types, the bounds of the two nested walks, and that the walk over the   *)
(* events is the one of EventWalk.                                         *)
(***************************************************************************)
EXTENDS FidParser, TLAPS

USE SizesAssumption, LenFieldAssumption, BufLensAssumption, InfoTypesAssumption,
    MaxCallsAssumption

(* There is a slot for the event being parsed, and for every parsed one. *)
SlotInv ==
  /\ parsed <= Len(events)
  /\ pc = "record" => parsed + 1 <= Len(events)

ParserInv == TypeOK /\ WalkInBounds /\ SlotInv

-----------------------------------------------------------------------------
(***************************************************************************)
(* Lemmas about the operators on events and on the Vec of events.          *)
(***************************************************************************)
(* A fresh event is an event. *)
LEMMA NewEventType == NewEvent \in FidEvent
<1>1. None \in Origin
  BY DEF None, Origin
<1> QED BY <1>1 DEF NewEvent, FidEvent

(* Writing the metadata of an event types it and sets its span. *)
LEMMA HeadedType ==
  ASSUME NEW ev \in FidEvent, NEW at \in Nat, NEW end \in Nat, call \in Nat
  PROVE  /\ Headed(ev, at, end) \in FidEvent
         /\ Headed(ev, at, end).head.at = at
         /\ Headed(ev, at, end).end = end
<1>1. [call |-> call, at |-> at] \in Origin
  BY DEF Origin
<1> QED BY <1>1 DEF Headed, FidEvent

(* Interpreting or preserving a record keeps the event's span. *)
LEMMA PreserveType ==
  ASSUME NEW ev \in FidEvent, NEW at \in Nat, NEW end \in Nat, call \in Nat
  PROVE  /\ Preserve(ev, at, end) \in FidEvent
         /\ Preserve(ev, at, end).head = ev.head
         /\ Preserve(ev, at, end).end = ev.end
<1>1. PICK range \in Preserved : range = [call |-> call, at |-> at, end |-> end]
  BY DEF Preserved
<1>2. PICK kept \in Seq(Preserved) : kept = Append(ev.unknown_info_records, range)
  <2>1. PICK old \in Seq(Preserved) : old = ev.unknown_info_records
    BY DEF FidEvent
  <2>2. Append(old, range) \in Seq(Preserved)
    OBVIOUS
  <2> QED BY <2>1, <2>2
<1>3. Preserve(ev, at, end) = [ev EXCEPT !.unknown_info_records = kept]
  BY <1>1, <1>2 DEF Preserve
<1> QED BY <1>3 DEF FidEvent

(* Reading a record into its field, and its fsid into an event without     *)
(* one, keeps the type and the span.                                       *)
LEMMA LandType ==
  ASSUME NEW ev \in FidEvent, NEW type, NEW at \in Nat, call \in Nat
  PROVE  /\ Land(ev, type, at) \in FidEvent
         /\ Land(ev, type, at).head = ev.head
         /\ Land(ev, type, at).end = ev.end
<1> DEFINE here == [call |-> call, at |-> at]
           land == [f \in Fields |->
              IF f = FieldOf(type) THEN here
              ELSE IF f = "fsid" /\ type \in HandleTypes /\ ev.field[f] = None THEN here
              ELSE ev.field[f]]
<1>1. here \in Origin
  BY DEF Origin
<1>2. land \in [Fields -> Origin]
  <2>1. ev.field \in [Fields -> Origin]
    BY DEF FidEvent
  <2> HIDE DEF here
  <2> QED BY <1>1, <2>1
<1>3. Land(ev, type, at) = [ev EXCEPT !.field = land]
  BY DEF Land
<1> HIDE DEF land
<1> QED BY <1>2, <1>3 DEF FidEvent

(* The match on the record type, either way it goes. *)
LEMMA InterpretType ==
  ASSUME NEW ev \in FidEvent, NEW type, NEW at \in Nat, NEW end \in Nat,
         NEW handle_bytes, call \in Nat
  PROVE  /\ Interpret(ev, type, at, end, handle_bytes) \in FidEvent
         /\ Interpret(ev, type, at, end, handle_bytes).head = ev.head
         /\ Interpret(ev, type, at, end, handle_bytes).end = ev.end
BY LandType, PreserveType DEF Interpret

(* Replacing a slot in place. *)
LEMMA ReplaceSlot ==
  ASSUME NEW evs \in Seq(FidEvent), NEW i \in 1..Len(evs), NEW ev \in FidEvent
  PROVE  LET new == [evs EXCEPT ![i] = ev]
         IN /\ new \in Seq(FidEvent)
            /\ Len(new) = Len(evs)
            /\ new[i] = ev
            /\ \A j \in 1..Len(evs) : j # i => new[j] = evs[j]
OBVIOUS

(* Taking a slot leaves the others alone and grows the Vec only when all   *)
(* leftover slots are used up.                                             *)
LEMMA TakeSlotFacts ==
  ASSUME NEW evs \in Seq(FidEvent), NEW i \in 1..(Len(evs) + 1),
         NEW at \in Nat, NEW end \in Nat, call \in Nat
  PROVE  LET new == TakeSlot(evs, i, at, end)
         IN /\ new \in Seq(FidEvent)
            /\ Len(new) = IF i <= Len(evs) THEN Len(evs) ELSE Len(evs) + 1
            /\ new[i].head.at = at
            /\ new[i].end = end
            /\ \A j \in 1..(i - 1) : new[j] = evs[j]
<1> DEFINE fresh == Headed(NewEvent, at, end)
<1>1. fresh \in FidEvent /\ fresh.head.at = at /\ fresh.end = end
  BY NewEventType, HeadedType
<1>2. CASE i <= Len(evs)
  <2>1. TakeSlot(evs, i, at, end) = [evs EXCEPT ![i] = fresh]
    BY <1>2 DEF TakeSlot, Reset
  <2> HIDE DEF fresh
  <2> QED BY <1>1, <1>2, <2>1, ReplaceSlot
<1>3. CASE i = Len(evs) + 1
  <2>1. TakeSlot(evs, i, at, end) = Append(evs, fresh)
    BY <1>3 DEF TakeSlot
  <2> HIDE DEF fresh
  <2> QED BY <1>1, <1>3, <2>1
<1> QED BY <1>2, <1>3

(* Truncating keeps the prefix. *)
LEMMA TruncateFacts ==
  ASSUME NEW evs \in Seq(FidEvent), NEW n \in Nat
  PROVE  LET new == Truncate(evs, n)
         IN /\ new \in Seq(FidEvent)
            /\ Len(new) = IF Len(evs) > n THEN n ELSE Len(evs)
            /\ \A j \in 1..Len(new) : new[j] = evs[j]
BY DEF Truncate

-----------------------------------------------------------------------------
(***************************************************************************)
(* The invariant.                                                          *)
(***************************************************************************)
(* The invariant holds before the first call. *)
LEMMA InitEstablishes == Init => ParserInv
<1> SUFFICES ASSUME Init PROVE ParserInv
  OBVIOUS
<1>1. events \in Seq(FidEvent) /\ Len(events) = 0 /\ seen \in SUBSET Record
  BY DEF Init
<1>2. TypeOK
  BY <1>1 DEF Init, TypeOK
<1>3. WalkInBounds /\ SlotInv
  BY <1>1 DEF Init, WalkInBounds, SlotInv
<1> QED BY <1>2, <1>3 DEF ParserInv

(* A call keeps the Vec and starts at its first slot. *)
LEMMA CallPreserves ==
  ASSUME ParserInv, NEW n \in BufLens, Call(n)
  PROVE  ParserInv'
<1>1. n \in Nat
  OBVIOUS
<1>2. TypeOK'
  <2>1. version_checked' \in BOOLEAN
    BY DEF Call
  <2> QED BY <1>1, <2>1 DEF ParserInv, TypeOK, Call
<1>3. WalkInBounds' /\ SlotInv'
  BY <1>1 DEF ParserInv, TypeOK, Call, WalkInBounds, SlotInv
<1> QED BY <1>2, <1>3 DEF ParserInv

(* A resolver that sets the path of an event leaves the rest alone. *)
LEMMA SetPathPreserves ==
  ASSUME ParserInv, NEW i \in DOMAIN events, SetPath(i)
  PROVE  ParserInv'
<1>1. i \in 1..Len(events)
  BY DEF ParserInv, TypeOK
<1>2. events[i] \in FidEvent
  BY <1>1 DEF ParserInv, TypeOK
<1>3. [events[i] EXCEPT !.path = TRUE] \in FidEvent
  BY <1>2 DEF FidEvent
<1>4. events' = [events EXCEPT ![i] = [events[i] EXCEPT !.path = TRUE]]
  BY DEF SetPath
<1>5. events' \in Seq(FidEvent) /\ Len(events') = Len(events)
  BY <1>1, <1>3, <1>4, ReplaceSlot DEF ParserInv, TypeOK
<1>6. TypeOK'
  BY <1>5 DEF ParserInv, TypeOK, SetPath
<1>7. WalkInBounds' /\ SlotInv'
  BY <1>5 DEF ParserInv, SetPath, WalkInBounds, SlotInv
<1> QED BY <1>6, <1>7 DEF ParserInv

(* Truncating the Vec and reporting a reason. *)
LEMMA ReturnPreserves ==
  ASSUME ParserInv, pc = "event", NEW why \in EventStop, Return(why),
         version_checked' \in BOOLEAN
  PROVE  ParserInv'
<1>1. events' \in Seq(FidEvent) /\ Len(events') = IF Len(events) > parsed THEN parsed ELSE Len(events)
  BY TruncateFacts DEF ParserInv, TypeOK, Return
<1>2. TypeOK'
  BY <1>1 DEF ParserInv, TypeOK, Return
<1>3. WalkInBounds' /\ SlotInv'
  BY <1>1 DEF ParserInv, TypeOK, Return, WalkInBounds, SlotInv
<1> QED BY <1>2, <1>3 DEF ParserInv

(* Leaving the loop at the tail of the buffer. *)
LEMMA TailPreserves ==
  ASSUME ParserInv, StopAtTail
  PROVE  ParserInv'
<1>1. pc = "event" /\ \E why \in EventStop : Return(why)
  BY DEF StopAtTail, EventStop
<1>2. version_checked' \in BOOLEAN
  BY DEF StopAtTail, ParserInv, TypeOK
<1> QED BY <1>1, <1>2, ReturnPreserves

(* Leaving the loop at a header that is refused. *)
LEMMA HeaderPreserves ==
  ASSUME ParserInv, NEW known \in BOOLEAN, NEW event_len \in LenField,
         NEW metadata_len \in LenField, StopAtHeader(known, event_len, metadata_len)
  PROVE  ParserInv'
<1>1. pc = "event" /\ \E why \in EventStop : Return(why)
  BY DEF StopAtHeader, EventStop
<1>2. version_checked' \in BOOLEAN
  BY DEF StopAtHeader
<1> QED BY <1>1, <1>2, ReturnPreserves

(* The bounds that BeginEvent checks are the ones the record walk needs. *)
LEMMA BeginPreserves ==
  ASSUME ParserInv, NEW known \in BOOLEAN, NEW event_len \in LenField,
         NEW metadata_len \in LenField, BeginEvent(known, event_len, metadata_len)
  PROVE  ParserInv'
<1>1. event_len \in Nat /\ metadata_len \in Nat
  OBVIOUS
<1>2. events' \in Seq(FidEvent) /\ parsed + 1 <= Len(events')
  BY <1>1, TakeSlotFacts DEF ParserInv, TypeOK, SlotInv, BeginEvent
<1>3. header_at' \in Nat /\ event_end' \in Nat /\ WalkInBounds'
  BY <1>1 DEF ParserInv, TypeOK, WalkInBounds, BeginEvent, EventLenFits, RecordsStart, HeaderFits
<1>4. version_checked' \in BOOLEAN
  BY DEF BeginEvent
<1>5. TypeOK'
  BY <1>2, <1>3, <1>4 DEF ParserInv, TypeOK, BeginEvent
<1>6. SlotInv'
  BY <1>2 DEF ParserInv, TypeOK, SlotInv, BeginEvent
<1> QED BY <1>3, <1>5, <1>6 DEF ParserInv

(* The event loop moves on to the end of the event, inside the buffer. *)
LEMMA EndPreserves ==
  ASSUME ParserInv, EndRecords
  PROVE  ParserInv'
<1>1. TypeOK'
  BY DEF ParserInv, TypeOK, EndRecords
<1>2. WalkInBounds' /\ SlotInv'
  BY DEF ParserInv, TypeOK, EndRecords, WalkInBounds, SlotInv
<1> QED BY <1>1, <1>2 DEF ParserInv

(* The event being parsed is one of the Vec's. *)
LEMMA CurrentEvent ==
  ASSUME ParserInv, pc = "record"
  PROVE  parsed + 1 \in 1..Len(events) /\ events[parsed + 1] \in FidEvent
BY DEF ParserInv, TypeOK, SlotInv

(* A record whose length cannot be trusted is kept up to the end of the    *)
(* event.                                                                  *)
LEMMA BadRecordPreserves ==
  ASSUME ParserInv, NEW record_len \in LenField, BadRecord(record_len)
  PROVE  ParserInv'
<1>1. Preserve(events[parsed + 1], header_at, event_end) \in FidEvent
  BY CurrentEvent, PreserveType DEF BadRecord, ParserInv, TypeOK
<1>2. events' = [events EXCEPT ![parsed + 1] = Preserve(events[parsed + 1], header_at, event_end)]
  BY DEF BadRecord
<1>3. events' \in Seq(FidEvent) /\ Len(events') = Len(events)
  BY <1>1, <1>2, CurrentEvent, ReplaceSlot DEF BadRecord, ParserInv, TypeOK
<1>4. seen' \in SUBSET Record
  <2>1. FALSE \in BOOLEAN /\ "OTHER" \in RecordTypes
    BY DEF RecordTypes
  <2>2. seen' = seen \cup {[type |-> "OTHER", at |-> header_at, end |-> event_end, fits |-> FALSE]}
    BY DEF BadRecord
  <2>3. ASSUME NEW b \in BOOLEAN
        PROVE  [type |-> "OTHER", at |-> header_at, end |-> event_end, fits |-> b] \in Record
    BY <2>1 DEF ParserInv, TypeOK, Record
  <2>4. [type |-> "OTHER", at |-> header_at, end |-> event_end, fits |-> FALSE] \in Record
    BY <2>1, <2>3, Zenon
  <2> QED BY <2>2, <2>4, Zenon DEF ParserInv, TypeOK
<1>5. TypeOK'
  BY <1>3, <1>4 DEF BadRecord, ParserInv, TypeOK
<1>6. WalkInBounds' /\ SlotInv'
  BY <1>3 DEF BadRecord, ParserInv, TypeOK, WalkInBounds, SlotInv
<1> QED BY <1>5, <1>6 DEF ParserInv

(* A record whose length fits ends inside the event. *)
LEMMA WalkRecordPreserves ==
  ASSUME ParserInv, NEW type \in InfoTypes, NEW record_len \in LenField,
         NEW handle_bytes \in LenField, WalkRecord(type, record_len, handle_bytes)
  PROVE  ParserInv'
<1> DEFINE record_end == header_at + record_len
<1>1. record_len \in Nat /\ record_end \in Nat
  BY DEF ParserInv, TypeOK
<1>2. Interpret(events[parsed + 1], type, header_at, record_end, handle_bytes) \in FidEvent
  BY <1>1, CurrentEvent, InterpretType DEF WalkRecord, ParserInv, TypeOK
<1>3. events' = [events EXCEPT ![parsed + 1] =
                   Interpret(events[parsed + 1], type, header_at, record_end, handle_bytes)]
  BY DEF WalkRecord
<1>4. events' \in Seq(FidEvent) /\ Len(events') = Len(events)
  BY <1>2, <1>3, CurrentEvent, ReplaceSlot DEF WalkRecord, ParserInv, TypeOK
<1>5. seen' \in SUBSET Record
  <2>1. PayloadFits(type, record_len - InfoHeaderSize, handle_bytes) \in BOOLEAN
    BY Zenon DEF PayloadFits
  <2>2. type \in RecordTypes
    OBVIOUS
  <2> QED BY <1>1, <2>1, <2>2 DEF WalkRecord, ParserInv, TypeOK, Record
<1>6. TypeOK'
  BY <1>1, <1>4, <1>5 DEF WalkRecord, ParserInv, TypeOK
<1>7. WalkInBounds' /\ SlotInv'
  BY <1>1, <1>4 DEF WalkRecord, RecordLenFits, ParserInv, TypeOK, WalkInBounds, SlotInv
<1> QED BY <1>6, <1>7 DEF ParserInv

(* The invariant of the parser is inductive. *)
LEMMA StepPreserves == ParserInv /\ [Next]_vars => ParserInv'
<1> SUFFICES ASSUME ParserInv, [Next]_vars PROVE ParserInv'
  OBVIOUS
<1>1. CASE UNCHANGED vars
  BY <1>1 DEF vars, ParserInv, TypeOK, WalkInBounds, SlotInv
<1> QED BY <1>1, CallPreserves, SetPathPreserves, TailPreserves, HeaderPreserves,
           BeginPreserves, EndPreserves, BadRecordPreserves, WalkRecordPreserves
        DEF Next, Step

(* The FID parser keeps its invariant, whatever the bytes: types, bounds,  *)
(* and a slot for every event it writes.                                   *)
THEOREM ParserCorrect == Spec => []ParserInv
BY InitEstablishes, StepPreserves, PTL DEF Spec

(* Every variable keeps its type. *)
THEOREM ParserTypeCorrect == Spec => []TypeOK
<1>1. ParserInv => TypeOK
  BY DEF ParserInv
<1> QED BY <1>1, ParserCorrect, PTL

(* The bounds that make the unaligned reads of both loops sound, for every *)
(* buffer: the record walk stays inside its event and the event inside the *)
(* buffer.                                                                 *)
THEOREM ParserInBounds == Spec => []WalkInBounds
<1>1. ParserInv => WalkInBounds
  BY DEF ParserInv
<1> QED BY <1>1, ParserCorrect, PTL

-----------------------------------------------------------------------------
(***************************************************************************)
(* The refinement: an event is one step of EventWalk, taken when its       *)
(* header is accepted; the walk over its records is invisible there.       *)
(***************************************************************************)
Spans(evs, n) == {[at |-> evs[i].head.at, end |-> evs[i].end] : i \in 1..n}

(* Two Vecs that agree on the spans of the first n events. *)
LEMMA SpansAgree ==
  ASSUME NEW n \in Nat, NEW evs, NEW new,
         \A i \in 1..n : new[i].head.at = evs[i].head.at /\ new[i].end = evs[i].end
  PROVE  Spans(new, n) = Spans(evs, n)
BY DEF Spans

(* One more live event adds its span. *)
LEMMA SpansGrow ==
  ASSUME NEW n \in Nat, NEW evs
  PROVE  Spans(evs, n + 1) =
           Spans(evs, n) \cup {[at |-> evs[n + 1].head.at, end |-> evs[n + 1].end]}
<1>1. 1..(n + 1) = (1..n) \cup {n + 1}
  OBVIOUS
<1> QED BY <1>1 DEF Spans

(* Initial states map to initial states of EventWalk. *)
LEMMA WalkInit == Init => Walk!Init
<1> SUFFICES ASSUME Init PROVE Walk!Init
  OBVIOUS
<1>1. Live = {} /\ LiveCount = 0 /\ Len(events) = 0
  BY DEF Init, Live, LiveCount
<1> QED BY <1>1 DEF Init, Walk!Init

(* A call is a call. *)
LEMMA CallWalks ==
  ASSUME ParserInv, NEW n \in BufLens, Call(n)
  PROVE  Walk!Call(n)
<1>1. Live' = {} /\ LiveCount' = 0
  BY DEF Call, Live, LiveCount
<1> QED BY <1>1 DEF Call, Walk!Call

(* Leaving the loop truncates and reports alike. *)
LEMMA ReturnWalks ==
  ASSUME ParserInv, pc = "event", NEW why, Return(why)
  PROVE  Walk!Return(why)
<1>1. Len(events') = (IF Len(events) > parsed THEN parsed ELSE Len(events))
  BY TruncateFacts DEF ParserInv, TypeOK, Return
<1>2. Spans(events', parsed) = Spans(events, parsed)
  <2>1. \A i \in 1..parsed : events'[i] = events[i]
    BY <1>1, TruncateFacts DEF ParserInv, TypeOK, SlotInv, Return
  <2> QED BY <2>1, SpansAgree DEF ParserInv, TypeOK
<1>3. LiveCount' = parsed /\ LiveCount = parsed /\ Live' = 1..parsed /\ Live = 1..parsed
  BY DEF Return, Live, LiveCount
<1> QED BY <1>1, <1>2, <1>3 DEF Return, Walk!Return, Spans

(* Stopping at the tail is stopping at the tail. *)
LEMMA TailWalks ==
  ASSUME ParserInv, StopAtTail
  PROVE  Walk!StopAtTail
BY ReturnWalks DEF StopAtTail, Walk!StopAtTail, HeaderFits, Walk!HeaderFits

(* A header refused here is refused there, for the same reason. *)
LEMMA HeaderWalks ==
  ASSUME ParserInv, NEW known \in BOOLEAN, NEW event_len \in LenField,
         NEW metadata_len \in LenField, StopAtHeader(known, event_len, metadata_len)
  PROVE  Walk!StopAtHeader(known, event_len, metadata_len)
BY ReturnWalks DEF StopAtHeader, Walk!StopAtHeader, HeaderFits, Walk!HeaderFits,
  VersionAccepted, Walk!VersionAccepted, EventLenFits, Walk!EventLenFits,
  RecordsStart, Walk!RecordsStart

(* Accepting the header of an event is parsing the event: the records are  *)
(* inside its span.                                                        *)
LEMMA BeginWalks ==
  ASSUME ParserInv, NEW known \in BOOLEAN, NEW event_len \in LenField,
         NEW metadata_len \in LenField, BeginEvent(known, event_len, metadata_len)
  PROVE  Walk!ParseEvent(known, event_len, metadata_len)
<1> DEFINE span == [at |-> offset, end |-> offset + event_len]
<1>1. /\ Len(events') = IF parsed < Len(events) THEN Len(events) ELSE Len(events) + 1
      /\ events'[parsed + 1].head.at = offset
      /\ events'[parsed + 1].end = offset + event_len
      /\ \A j \in 1..parsed : events'[j] = events[j]
  <2>1. parsed + 1 \in 1..(Len(events) + 1) /\ offset + event_len \in Nat
    BY DEF ParserInv, TypeOK, SlotInv
  <2> QED BY <2>1, TakeSlotFacts DEF ParserInv, TypeOK, BeginEvent
<1>2. Spans(events', parsed + 1) = Spans(events, parsed) \cup {span}
  BY <1>1, SpansAgree, SpansGrow DEF ParserInv, TypeOK
<1>3. /\ Live = 1..parsed /\ LiveCount = parsed
      /\ Live' = 1..(parsed + 1) /\ LiveCount' = parsed + 1
  BY DEF BeginEvent, Live, LiveCount
<1>4. {[at |-> events[i].head.at, end |-> events[i].end] : i \in Live}' =
        {[at |-> events[i].head.at, end |-> events[i].end] : i \in Live} \cup {span}
  BY <1>2, <1>3 DEF Spans
<1> QED BY <1>1, <1>3, <1>4
        DEF BeginEvent, Walk!ParseEvent, HeaderFits, Walk!HeaderFits, VersionAccepted,
            Walk!VersionAccepted, EventLenFits, Walk!EventLenFits, RecordsStart,
            Walk!RecordsStart

(* A step that changes one event but not its span is invisible. *)
LEMMA SameSpansStutter ==
  ASSUME ParserInv, NEW i \in 1..Len(events), NEW ev \in FidEvent,
         events' = [events EXCEPT ![i] = ev],
         ev.head = events[i].head, ev.end = events[i].end,
         UNCHANGED <<pc, call, buf_len, offset, parsed, version_checked, event_end, stop>>
  PROVE  UNCHANGED Walk!vars
<1>1. LiveCount' = LiveCount /\ Live' = Live /\ LiveCount \in Nat /\ Live = 1..LiveCount
      /\ LiveCount <= Len(events)
  BY DEF Live, LiveCount, ParserInv, TypeOK, SlotInv
<1>2. Len(events') = Len(events) /\ events'[i] = ev
      /\ \A j \in 1..Len(events) : j # i => events'[j] = events[j]
  BY ReplaceSlot DEF ParserInv, TypeOK
<1>3. Spans(events', LiveCount) = Spans(events, LiveCount)
  <2>1. \A j \in 1..LiveCount :
           events'[j].head.at = events[j].head.at /\ events'[j].end = events[j].end
    BY <1>1, <1>2 DEF ParserInv, TypeOK
  <2> QED BY <1>1, <2>1, SpansAgree
<1> QED BY <1>1, <1>2, <1>3 DEF Walk!vars, Spans

(* Setting a path is invisible. *)
LEMMA SetPathWalks ==
  ASSUME ParserInv, NEW i \in DOMAIN events, SetPath(i)
  PROVE  UNCHANGED Walk!vars
<1>1. i \in 1..Len(events) /\ events[i] \in FidEvent
  BY DEF ParserInv, TypeOK
<1> DEFINE ev == [events[i] EXCEPT !.path = TRUE]
<1>2. ev \in FidEvent /\ ev.head = events[i].head /\ ev.end = events[i].end
  BY <1>1 DEF FidEvent
<1>3. events' = [events EXCEPT ![i] = ev]
  BY DEF SetPath
<1> QED BY <1>1, <1>2, <1>3, SameSpansStutter DEF SetPath

(* Giving up on the records of an event is invisible. *)
LEMMA BadRecordWalks ==
  ASSUME ParserInv, NEW record_len \in LenField, BadRecord(record_len)
  PROVE  UNCHANGED Walk!vars
<1> DEFINE ev == Preserve(events[parsed + 1], header_at, event_end)
<1>1. parsed + 1 \in 1..Len(events) /\ events[parsed + 1] \in FidEvent
  BY CurrentEvent DEF BadRecord
<1>2. ev \in FidEvent /\ ev.head = events[parsed + 1].head /\ ev.end = events[parsed + 1].end
  <2>1. header_at \in Nat /\ event_end \in Nat /\ call \in Nat
    BY DEF ParserInv, TypeOK
  <2> DEFINE old == events[parsed + 1]
  <2>2. old \in FidEvent
    BY <1>1
  <2> HIDE DEF old
  <2>3. /\ Preserve(old, header_at, event_end) \in FidEvent
        /\ Preserve(old, header_at, event_end).head = old.head
        /\ Preserve(old, header_at, event_end).end = old.end
    BY <2>1, <2>2, PreserveType
  <2> QED BY <2>3 DEF old
<1>3. events' = [events EXCEPT ![parsed + 1] = ev]
  BY DEF BadRecord
<1> HIDE DEF ev
<1> QED BY <1>1, <1>2, <1>3, SameSpansStutter DEF BadRecord

(* Reading a record is invisible. *)
LEMMA WalkRecordWalks ==
  ASSUME ParserInv, NEW type \in InfoTypes, NEW record_len \in LenField,
         NEW handle_bytes \in LenField, WalkRecord(type, record_len, handle_bytes)
  PROVE  UNCHANGED Walk!vars
<1> DEFINE ev == Interpret(events[parsed + 1], type, header_at, header_at + record_len, handle_bytes)
<1>1. parsed + 1 \in 1..Len(events) /\ events[parsed + 1] \in FidEvent
  BY CurrentEvent DEF WalkRecord
<1>2. ev \in FidEvent /\ ev.head = events[parsed + 1].head /\ ev.end = events[parsed + 1].end
  BY <1>1, InterpretType DEF ParserInv, TypeOK
<1>3. events' = [events EXCEPT ![parsed + 1] = ev]
  BY DEF WalkRecord
<1> HIDE DEF ev
<1> QED BY <1>1, <1>2, <1>3, SameSpansStutter DEF WalkRecord

(* The end of the records is where EventWalk already is. *)
LEMMA EndWalks ==
  ASSUME ParserInv, EndRecords
  PROVE  UNCHANGED Walk!vars
<1>1. LiveCount' = LiveCount /\ Live' = Live
  BY DEF EndRecords, Live, LiveCount
<1> QED BY <1>1 DEF EndRecords, Walk!vars

(* Every step of the parser is a step or a stutter of EventWalk. *)
LEMMA StepWalks == ParserInv /\ [Next]_vars => [Walk!Next]_Walk!vars
<1> SUFFICES ASSUME ParserInv, [Next]_vars PROVE [Walk!Next]_Walk!vars
  OBVIOUS
<1>1. CASE UNCHANGED vars
  BY <1>1 DEF vars, Walk!vars, Live, LiveCount
<1>2. CASE StopAtTail
  BY <1>2, TailWalks DEF Walk!Next, Walk!Step
<1>3. ASSUME NEW known \in BOOLEAN, NEW event_len \in LenField, NEW metadata_len \in LenField,
             StopAtHeader(known, event_len, metadata_len)
      PROVE  Walk!Next
  BY <1>3, HeaderWalks DEF Walk!Next, Walk!Step
<1>4. ASSUME NEW known \in BOOLEAN, NEW event_len \in LenField, NEW metadata_len \in LenField,
             BeginEvent(known, event_len, metadata_len)
      PROVE  Walk!Next
  BY <1>4, BeginWalks DEF Walk!Next, Walk!Step
<1>5. ASSUME NEW n \in BufLens, Call(n) PROVE Walk!Next
  BY <1>5, CallWalks DEF Walk!Next
<1> QED BY <1>1, <1>2, <1>3, <1>4, <1>5, SetPathWalks, EndWalks, BadRecordWalks, WalkRecordWalks
        DEF Next, Step

(* The fid-format parser walks the events of a buffer as the fd-format one *)
(* does, for every buffer: what EventWalk_proofs shows of that walk holds  *)
(* of both copies of the loop.                                             *)
THEOREM ParserImplementsWalk == Spec => WalksLikeFdParser
<1>1. Spec => Walk!Spec
  BY WalkInit, StepWalks, ParserCorrect, PTL DEF Spec, Walk!Spec
<1> QED BY <1>1 DEF WalksLikeFdParser

-----------------------------------------------------------------------------
(***************************************************************************)
(* What the events hold.  A field is never anything but None or the bytes  *)
(* of a record the current call has walked, and of each record walked the  *)
(* event holds exactly one trace.                                          *)
(***************************************************************************)
(* Everything an event holds was read in call c, inside its own bytes. *)
ReadIn(ev, c) ==
  /\ ev.head.call = c
  /\ \A f \in Fields :
       ev.field[f] # None =>
         /\ ev.field[f].call = c
         /\ ev.head.at + MetadataSize <= ev.field[f].at
         /\ ev.field[f].at < ev.end
  /\ \A r \in ToSet(ev.unknown_info_records) :
       /\ r.call = c
       /\ ev.head.at + MetadataSize <= r.at
       /\ r.at + InfoHeaderSize <= r.end
       /\ r.end <= ev.end

(* A handle comes with an fsid that was read no later. *)
HasFsid(ev) ==
  \A f \in HandleFields :
    ev.field[f] # None =>
      ev.field["fsid"] # None /\ ev.field["fsid"].at <= ev.field[f].at

(* The fsid is the one of the first handle record among `records`. *)
HandlesIn(records) == {r \in records : r.fits /\ r.type \in HandleTypes}
FirstFsid(ev, records) ==
  /\ HandlesIn(records) = {} => ev.field["fsid"] = None
  /\ HandlesIn(records) # {} => ev.field["fsid"] # None
  /\ \A r \in HandlesIn(records) :
       (\A q \in HandlesIn(records) : r.at <= q.at) => ev.field["fsid"] = [call |-> call, at |-> r.at]

(* The three ways an event can account for a record. *)
KeptIn(ev, r) == \E p \in ToSet(ev.unknown_info_records) : p.at = r.at /\ p.end = r.end
HeldIn(ev, r) == r.fits /\ ev.field[FieldOf(r.type)].at = r.at
ReplacedIn(ev, r) ==
  r.fits /\ r.type \notin FirstWins /\ ev.field[FieldOf(r.type)].at > r.at

(* A record that was walked before `here`, and its one trace: only a       *)
(* record that is not read, or the repeat of a first-wins one, is kept.    *)
Accounted(ev, r, here) ==
  /\ offset + MetadataSize <= r.at
  /\ r.at < here
  /\ r.fits => r.type # "OTHER"
  /\ KeptIn(ev, r) => ~r.fits \/ r.type \in FirstWins
  /\ KeptIn(ev, r) \/ HeldIn(ev, r) \/ ReplacedIn(ev, r)
  /\ ~(KeptIn(ev, r) /\ (HeldIn(ev, r) \/ ReplacedIn(ev, r)))

(* What was kept is in the order of the buffer, and nothing twice. *)
InOrder(kept) == \A i, j \in DOMAIN kept : i < j => kept[i].end <= kept[j].at

(* The event whose records are being walked has nothing from `here` on. *)
WalkedTo(ev, here) ==
  /\ ev.head.at = offset
  /\ ev.end = event_end
  /\ \A f \in Fields : ev.field[f] # None => ev.field[f].at < here
  /\ \A p \in ToSet(ev.unknown_info_records) : p.at < here /\ p.end <= here
  /\ InOrder(ev.unknown_info_records)

LiveInv ==
  \A i \in Live :
    /\ ReadIn(events[i], call)
    /\ HasFsid(events[i])
    /\ pc # "idle" => ~events[i].path

CurrentInv ==
  pc = "record" =>
    /\ WalkedTo(events[parsed + 1], header_at)
    /\ \A r \in seen : Accounted(events[parsed + 1], r, header_at)
    /\ FirstFsid(events[parsed + 1], seen)

ContentInv ==
  /\ pc # "idle" => call >= 1
  /\ LiveInv
  /\ CurrentInv

(* A field is set by one type, first-wins types share theirs with no other, *)
(* and the fields that hold a handle are the ones of the handle types; no   *)
(* type lands in fsid.                                                      *)
LEMMA FieldOfType ==
  ASSUME NEW type \in RecordTypes \ {"OTHER"}
  PROVE  /\ FieldOf(type) \in Fields \ {"fsid"}
         /\ FieldOf(type) \in HandleFields <=> type \in HandleTypes
         /\ \A other \in RecordTypes \ {"OTHER"} :
              other \in FirstWins /\ FieldOf(other) = FieldOf(type) => other = type
<1>1. /\ FieldOf("DFID_NAME") = "dfid_name"
      /\ FieldOf("FID") = "self_handle"
      /\ FieldOf("DFID") = "self_handle"
      /\ FieldOf("OLD_DFID_NAME") = "rename_source"
      /\ FieldOf("NEW_DFID_NAME") = "rename_target"
      /\ FieldOf("PIDFD") = "pidfd"
      /\ FieldOf("ERROR") = "fs_error"
      /\ FieldOf("RANGE") = "access_range"
      /\ FieldOf("MNT") = "mnt_id"
  BY DEF FieldOf
<1> QED BY <1>1 DEF RecordTypes, Fields, HandleFields, HandleTypes, FirstWins

(* A payload of an unknown type is never read. *)
LEMMA OtherNeverFits ==
  ASSUME NEW payload_len, NEW handle_bytes
  PROVE  ~PayloadFits("OTHER", payload_len, handle_bytes)
BY DEF PayloadFits, HandleTypes

(* What reading a record changes: its field, and fsid if there was none.   *)
LEMMA LandFields ==
  ASSUME NEW ev \in FidEvent, NEW type, NEW at
  PROVE  LET here == [call |-> call, at |-> at]
             new == Land(ev, type, at)
         IN /\ \A f \in Fields :
                 new.field[f] =
                   IF f = FieldOf(type) THEN here
                   ELSE IF f = "fsid" /\ type \in HandleTypes /\ ev.field[f] = None THEN here
                   ELSE ev.field[f]
            /\ new.unknown_info_records = ev.unknown_info_records
            /\ ~ev.path => ~new.path
            /\ new.head = ev.head
            /\ new.end = ev.end
BY DEF Land, FidEvent

(* A range appended behind all others is one element more, and in order. *)
LEMMA AppendRange ==
  ASSUME NEW kept \in Seq(Preserved), NEW range \in Preserved
  PROVE  /\ ToSet(Append(kept, range)) = ToSet(kept) \cup {range}
         /\ InOrder(kept) /\ (\A p \in ToSet(kept) : p.end <= range.at) =>
              InOrder(Append(kept, range))
<1> DEFINE new == Append(kept, range)
           n == Len(kept)
<1>1. /\ n \in Nat /\ DOMAIN kept = 1..n /\ DOMAIN new = 1..(n + 1)
      /\ new[n + 1] = range /\ \A i \in 1..n : new[i] = kept[i]
  OBVIOUS
<1>2. \A i \in 1..n : kept[i] \in ToSet(kept)
  BY <1>1 DEF ToSet
<1> HIDE DEF new, n
<1>3. ToSet(new) = ToSet(kept) \cup {range}
  BY <1>1 DEF ToSet
<1>4. ASSUME InOrder(kept), \A p \in ToSet(kept) : p.end <= range.at
      PROVE  InOrder(new)
  BY <1>1, <1>2, <1>4 DEF InOrder
<1> QED BY <1>3, <1>4 DEF new

(* What keeping a record changes: one more preserved range. *)
LEMMA PreserveFields ==
  ASSUME NEW ev \in FidEvent, NEW at \in Nat, NEW end \in Nat, call \in Nat
  PROVE  LET new == Preserve(ev, at, end)
             kept == ev.unknown_info_records
         IN /\ ToSet(new.unknown_info_records) =
                 ToSet(kept) \cup {[call |-> call, at |-> at, end |-> end]}
            /\ InOrder(kept) /\ (\A p \in ToSet(kept) : p.end <= at) =>
                 InOrder(new.unknown_info_records)
            /\ new.field = ev.field
            /\ ~ev.path => ~new.path
            /\ new.head = ev.head
            /\ new.end = ev.end
<1> DEFINE range == [call |-> call, at |-> at, end |-> end]
<1>1. range \in Preserved /\ range.at = at
  BY DEF Preserved
<1>2. ev.unknown_info_records \in Seq(Preserved)
  BY DEF FidEvent
<1>3. /\ Preserve(ev, at, end).unknown_info_records = Append(ev.unknown_info_records, range)
      /\ Preserve(ev, at, end).field = ev.field
      /\ ~ev.path => ~Preserve(ev, at, end).path
      /\ Preserve(ev, at, end).head = ev.head
      /\ Preserve(ev, at, end).end = ev.end
  BY DEF Preserve, FidEvent
<1> HIDE DEF range
<1> QED BY <1>1, <1>2, <1>3, AppendRange DEF range

(* An event fresh from new() or reset() holds nothing but its metadata. *)
LEMMA FreshEvent ==
  ASSUME NEW at \in Nat, NEW end \in Nat, call \in Nat
  PROVE  LET new == Headed(NewEvent, at, end)
         IN /\ new.head.call = call
            /\ new.head.at = at
            /\ new.end = end
            /\ ~new.path
            /\ \A f \in Fields : new.field[f] = None
            /\ new.unknown_info_records = <<>>
BY DEF Headed, NewEvent

(* The slot taken for an event holds such an event, left over or not. *)
LEMMA TakeSlotFresh ==
  ASSUME NEW evs \in Seq(FidEvent), NEW i \in 1..(Len(evs) + 1),
         NEW at \in Nat, NEW end \in Nat, call \in Nat
  PROVE  TakeSlot(evs, i, at, end)[i] = Headed(NewEvent, at, end)
<1> DEFINE fresh == Headed(NewEvent, at, end)
<1>1. fresh \in FidEvent
  BY NewEventType, HeadedType
<1>2. CASE i <= Len(evs)
  <2>1. TakeSlot(evs, i, at, end) = [evs EXCEPT ![i] = fresh]
    BY <1>2 DEF TakeSlot, Reset
  <2> HIDE DEF fresh
  <2>2. TakeSlot(evs, i, at, end)[i] = fresh
    BY <1>1, <1>2, <2>1, ReplaceSlot
  <2> QED BY <2>2 DEF fresh
<1>3. CASE i = Len(evs) + 1
  <2>1. TakeSlot(evs, i, at, end) = Append(evs, fresh)
    BY <1>3 DEF TakeSlot
  <2> HIDE DEF fresh
  <2>2. TakeSlot(evs, i, at, end)[i] = fresh
    BY <1>1, <1>3, <2>1
  <2> QED BY <2>2 DEF fresh
<1> QED BY <1>2, <1>3

(* Keeping the bytes from `here` to `end` of the event being walked: what  *)
(* was read stays read, and the record has one trace.                      *)
LEMMA PreserveContent ==
  ASSUME NEW ev \in FidEvent, NEW here \in Nat, NEW end \in Nat, call \in Nat, offset \in Nat,
         ReadIn(ev, call), HasFsid(ev), WalkedTo(ev, here),
         offset + MetadataSize <= here, here + InfoHeaderSize <= end, end <= event_end
  PROVE  LET new == Preserve(ev, here, end)
         IN /\ ReadIn(new, call)
            /\ HasFsid(new)
            /\ WalkedTo(new, end)
            /\ \A r \in Record : Accounted(ev, r, here) => Accounted(new, r, end)
            /\ \A r \in Record :
                 /\ r.at = here
                 /\ r.end = end
                 /\ r.fits => /\ r.type \in FirstWins
                              /\ ev.field[FieldOf(r.type)] # None
                 => Accounted(new, r, end)
<1> DEFINE new == Preserve(ev, here, end)
           range == [call |-> call, at |-> here, end |-> end]
<1>1. /\ ToSet(new.unknown_info_records) = ToSet(ev.unknown_info_records) \cup {range}
      /\ InOrder(new.unknown_info_records)
      /\ new.field = ev.field
      /\ new.head = ev.head
      /\ new.end = ev.end
  BY PreserveFields DEF WalkedTo
<1>2. range.call = call /\ range.at = here /\ range.end = end
  OBVIOUS
<1>3. here < end /\ ev.head.at = offset /\ ev.end = event_end
  BY DEF WalkedTo
<1> HIDE DEF new, range
<1>4. ReadIn(new, call)
  BY <1>1, <1>2, <1>3 DEF ReadIn
<1>5. HasFsid(new)
  BY <1>1 DEF HasFsid
<1>6. WalkedTo(new, end)
  <2>1. ev.field \in [Fields -> Origin] /\ ToSet(ev.unknown_info_records) \subseteq Preserved
    BY DEF FidEvent, ToSet
  <2>2. \A f \in Fields : ev.field[f].at \in Nat
    BY <2>1 DEF Origin
  <2>3. \A p \in ToSet(ev.unknown_info_records) : p.at \in Nat /\ p.end \in Nat
    BY <2>1 DEF Preserved
  <2> QED BY <1>1, <1>2, <1>3, <2>2, <2>3 DEF WalkedTo
<1>7. ASSUME NEW r \in Record, Accounted(ev, r, here)
      PROVE  Accounted(new, r, end)
  <2>1. r.at \in Nat /\ r.at < here
    BY <1>7 DEF Accounted, Record
  <2>2. KeptIn(new, r) <=> KeptIn(ev, r)
    BY <1>1, <1>2, <2>1 DEF KeptIn
  <2>3. HeldIn(new, r) <=> HeldIn(ev, r)
    BY <1>1 DEF HeldIn
  <2>4. ReplacedIn(new, r) <=> ReplacedIn(ev, r)
    BY <1>1 DEF ReplacedIn
  <2> QED BY <1>3, <1>7, <2>1, <2>2, <2>3, <2>4 DEF Accounted
<1>8. ASSUME NEW r \in Record, r.at = here, r.end = end,
             r.fits => r.type \in FirstWins /\ ev.field[FieldOf(r.type)] # None
      PROVE  Accounted(new, r, end)
  <2>1. KeptIn(new, r)
    BY <1>1, <1>2, <1>8 DEF KeptIn
  <2>2. ~ReplacedIn(new, r)
    BY <1>8 DEF ReplacedIn
  <2>3. ~HeldIn(new, r) /\ (r.fits => r.type # "OTHER")
    <3>1. r.fits => r.type \in RecordTypes \ {"OTHER"}
      BY <1>8 DEF Record, RecordTypes, FirstWins
    <3>2. r.fits => FieldOf(r.type) \in Fields
      BY <3>1, FieldOfType
    <3>3. r.fits => ev.field[FieldOf(r.type)].at < here /\ ev.field[FieldOf(r.type)] \in Origin
      BY <1>8, <3>2 DEF WalkedTo, FidEvent
    <3> QED BY <1>1, <1>8, <3>1, <3>3 DEF HeldIn, Origin
  <2> QED BY <1>3, <1>8, <2>1, <2>2, <2>3 DEF Accounted
<1> QED BY <1>4, <1>5, <1>6, <1>7, <1>8 DEF new

(* Reading the record at `here` into an event: what the event held stays   *)
(* accounted for, and so is the record.                                    *)
LEMMA LandContent ==
  ASSUME NEW ev \in FidEvent, NEW type \in RecordTypes \ {"OTHER"},
         NEW here \in Nat, NEW end \in Nat, call \in Nat, call >= 1, offset \in Nat, event_end \in Nat,
         ReadIn(ev, call), HasFsid(ev), WalkedTo(ev, here),
         type \in FirstWins => ev.field[FieldOf(type)] = None,
         offset + MetadataSize <= here, here < end, end <= event_end
  PROVE  LET new == Land(ev, type, here)
         IN /\ ReadIn(new, call)
            /\ HasFsid(new)
            /\ WalkedTo(new, end)
            /\ \A r \in Record : Accounted(ev, r, here) => Accounted(new, r, end)
            /\ \A r \in Record :
                 r.type = type /\ r.at = here /\ r.fits => Accounted(new, r, end)
<1> DEFINE new == Land(ev, type, here)
           origin == [call |-> call, at |-> here]
<1>1. /\ new.unknown_info_records = ev.unknown_info_records
      /\ new.head = ev.head
      /\ new.end = ev.end
      /\ \A f \in Fields :
           new.field[f] =
             IF f = FieldOf(type) THEN origin
             ELSE IF f = "fsid" /\ type \in HandleTypes /\ ev.field[f] = None THEN origin
             ELSE ev.field[f]
  BY LandFields
<1>2. origin.call = call /\ origin.at = here /\ origin # None /\ None.at = 0
  BY DEF None
<1>3. ev.head.at = offset /\ ev.end = event_end
  BY DEF WalkedTo
<1>4. /\ ev.field \in [Fields -> Origin]
      /\ \A f \in Fields : ev.field[f].at \in Nat
      /\ \A p \in ToSet(ev.unknown_info_records) : p.at \in Nat /\ p.end \in Nat
  <2>1. ev.field \in [Fields -> Origin] /\ ToSet(ev.unknown_info_records) \subseteq Preserved
    BY DEF FidEvent, ToSet
  <2> QED BY <2>1 DEF Origin, Preserved
<1> HIDE DEF new, origin
<1>5. ReadIn(new, call)
  BY <1>1, <1>2, <1>3 DEF ReadIn
<1>6. HasFsid(new)
  <2>1. "fsid" \in Fields /\ HandleFields \subseteq Fields \ {"fsid"}
    BY DEF Fields, HandleFields
  <2>2. FieldOf(type) # "fsid" /\ (FieldOf(type) \in HandleFields => type \in HandleTypes)
    BY FieldOfType
  <2> SUFFICES ASSUME NEW f \in HandleFields, new.field[f] # None
               PROVE  new.field["fsid"] # None /\ new.field["fsid"].at <= new.field[f].at
    BY DEF HasFsid
  <2>3. CASE f = FieldOf(type)
    <3>1. CASE ev.field["fsid"] = None
      BY <1>1, <1>2, <2>1, <2>2, <2>3, <3>1
    <3>2. CASE ev.field["fsid"] # None
      <4>1. ev.field["fsid"].at < here
        BY <2>1, <3>2 DEF WalkedTo
      <4> QED BY <1>1, <1>2, <1>4, <2>1, <2>2, <2>3, <3>2, <4>1
    <3> QED BY <3>1, <3>2
  <2>4. CASE f # FieldOf(type)
    <3>1. new.field[f] = ev.field[f]
      BY <1>1, <2>1, <2>4
    <3>2. ev.field["fsid"] # None /\ ev.field["fsid"].at <= ev.field[f].at
      BY <3>1 DEF HasFsid
    <3> QED BY <1>1, <2>1, <2>2, <3>1, <3>2
  <2> QED BY <2>3, <2>4
<1>7. WalkedTo(new, end)
  <2>1. \A f \in Fields : new.field[f] # None => new.field[f].at < end
    BY <1>1, <1>2, <1>4 DEF WalkedTo
  <2>2. \A p \in ToSet(new.unknown_info_records) : p.at < end /\ p.end <= end
    BY <1>1, <1>4 DEF WalkedTo
  <2> QED BY <1>1, <2>1, <2>2 DEF WalkedTo
<1>8. ASSUME NEW r \in Record, Accounted(ev, r, here)
      PROVE  Accounted(new, r, end)
  <2>1. r.at \in Nat /\ r.at < here /\ 0 < r.at /\ (r.fits => r.type \in RecordTypes \ {"OTHER"})
    BY <1>8 DEF Accounted, Record
  <2>2. KeptIn(new, r) <=> KeptIn(ev, r)
    BY <1>1 DEF KeptIn
  <2>3. CASE ~r.fits \/ FieldOf(r.type) # FieldOf(type)
    <3>1. r.fits => FieldOf(r.type) \in Fields \ {"fsid"}
      BY <2>1, FieldOfType
    <3>2. r.fits => new.field[FieldOf(r.type)] = ev.field[FieldOf(r.type)]
      BY <1>1, <2>3, <3>1
    <3>3. HeldIn(new, r) <=> HeldIn(ev, r)
      BY <3>2 DEF HeldIn
    <3>4. ReplacedIn(new, r) <=> ReplacedIn(ev, r)
      BY <3>2 DEF ReplacedIn
    <3> QED BY <1>8, <2>1, <2>2, <3>3, <3>4 DEF Accounted
  <2>4. CASE r.fits /\ FieldOf(r.type) = FieldOf(type)
    <3>1. new.field[FieldOf(r.type)].at = here
      BY <1>1, <1>2, <2>4, FieldOfType
    <3>2. ~HeldIn(new, r)
      BY <2>1, <3>1 DEF HeldIn
    <3>3. CASE r.type \in FirstWins
      <4>1. r.type = type /\ ev.field[FieldOf(r.type)].at = 0
        BY <1>2, <2>1, <2>4, <3>3, FieldOfType
      <4>2. ~HeldIn(ev, r) /\ ~ReplacedIn(ev, r) /\ ~ReplacedIn(new, r)
        BY <2>1, <3>3, <4>1 DEF HeldIn, ReplacedIn
      <4> QED BY <1>8, <2>1, <2>2, <3>2, <3>3, <4>2 DEF Accounted
    <3>4. CASE r.type \notin FirstWins
      <4>1. ReplacedIn(new, r)
        BY <2>1, <2>4, <3>1, <3>4 DEF ReplacedIn
      <4>2. ~KeptIn(ev, r)
        BY <1>8, <2>4, <3>4 DEF Accounted
      <4> QED BY <1>8, <2>1, <2>2, <3>2, <4>1, <4>2 DEF Accounted
    <3> QED BY <3>3, <3>4
  <2> QED BY <2>3, <2>4
<1>9. ASSUME NEW r \in Record, r.type = type, r.at = here, r.fits
      PROVE  Accounted(new, r, end)
  <2>1. HeldIn(new, r)
    BY <1>1, <1>2, <1>9, FieldOfType DEF HeldIn
  <2>2. ~KeptIn(new, r)
    BY <1>1, <1>4, <1>9 DEF KeptIn, WalkedTo
  <2> QED BY <1>9, <2>1, <2>2 DEF Accounted
<1> QED BY <1>5, <1>6, <1>7, <1>8, <1>9 DEF new

(* One record more, behind all others: the fsid becomes its, if it has one *)
(* and there was none.                                                     *)
LEMMA FirstFsidKept ==
  ASSUME NEW ev, NEW new, NEW records \in SUBSET Record, NEW record \in Record,
         call \in Nat, call >= 1, FirstFsid(ev, records),
         \A r \in records : r.at < record.at,
         new.field["fsid"] = IF /\ record.fits /\ record.type \in HandleTypes
                                /\ ev.field["fsid"] = None
                             THEN [call |-> call, at |-> record.at] ELSE ev.field["fsid"]
  PROVE  FirstFsid(new, records \cup {record})
<1> DEFINE old == HandlesIn(records)
           now == HandlesIn(records \cup {record})
<1>1. \A r \in Record : r.at \in Nat /\ [call |-> call, at |-> r.at] # None
  BY DEF Record, None
<1>2. old \subseteq records /\ now \subseteq records \cup {record}
  BY DEF HandlesIn
<1>3. CASE record.fits /\ record.type \in HandleTypes
  <2>1. now = old \cup {record}
    BY <1>3 DEF HandlesIn
  <2>2. CASE old = {}
    BY <1>1, <1>3, <2>1, <2>2 DEF FirstFsid
  <2>3. CASE old # {}
    <3>1. new.field["fsid"] = ev.field["fsid"] /\ ev.field["fsid"] # None
      BY <1>3, <2>3 DEF FirstFsid
    <3> HIDE DEF old, now
    <3>2. ASSUME NEW r \in now, \A q \in now : r.at <= q.at
          PROVE  r \in old /\ \A q \in old : r.at <= q.at
      <4>1. PICK q \in old : q \in Record /\ q.at < record.at
        BY <1>2, <2>3
      <4>2. r # record
        BY <1>1, <2>1, <3>2, <4>1
      <4> QED BY <2>1, <3>2, <4>2
    <3> QED BY <2>1, <3>1, <3>2 DEF FirstFsid, old, now
  <2> QED BY <2>2, <2>3
<1>4. CASE ~(record.fits /\ record.type \in HandleTypes)
  <2>1. now = old
    BY <1>4 DEF HandlesIn
  <2> QED BY <1>4, <2>1 DEF FirstFsid
<1> QED BY <1>3, <1>4

(* The invariant about the contents, and what it says of a step that       *)
(* replaces the event being walked and moves on to `here`.                 *)
LEMMA CurrentReplaced ==
  ASSUME ParserInv, ContentInv, pc = "record",
         NEW ev \in FidEvent, NEW record \in Record,
         events' = [events EXCEPT ![parsed + 1] = ev],
         ReadIn(ev, call), HasFsid(ev), ~ev.path, WalkedTo(ev, header_at'),
         \A r \in seen : Accounted(ev, r, header_at'), Accounted(ev, record, header_at'),
         FirstFsid(ev, seen'),
         seen' = seen \cup {record},
         UNCHANGED <<pc, call, parsed, offset, event_end>>
  PROVE  ContentInv'
<1>1. parsed + 1 \in 1..Len(events) /\ LiveCount = parsed + 1 /\ LiveCount' = parsed + 1
      /\ parsed \in Nat
  BY CurrentEvent DEF LiveCount, ParserInv, TypeOK
<1>2. events'[parsed + 1] = ev /\ \A j \in 1..Len(events) : j # parsed + 1 => events'[j] = events[j]
  BY <1>1, ReplaceSlot DEF ParserInv, TypeOK
<1>3. LiveInv'
  <2> SUFFICES ASSUME NEW i \in 1..(parsed + 1)
               PROVE  ReadIn(events'[i], call) /\ HasFsid(events'[i]) /\ ~events'[i].path
    BY <1>1 DEF LiveInv, Live, ReadIn, HasFsid
  <2>1. CASE i = parsed + 1
    BY <1>2, <2>1
  <2>2. CASE i # parsed + 1
    <3>1. events'[i] = events[i] /\ i \in Live
      BY <1>1, <1>2, <2>2 DEF Live
    <3> QED BY <3>1 DEF ContentInv, LiveInv
  <2> QED BY <2>1, <2>2
<1>4. CurrentInv'
  <2>1. \A r \in seen' : Accounted(ev, r, header_at')
    OBVIOUS
  <2>2. events'[parsed' + 1] = ev
    BY <1>2
  <2>3. WalkedTo(events[parsed + 1], header_at)'
    BY <2>2 DEF WalkedTo
  <2>4. \A r \in seen' : Accounted(events[parsed + 1], r, header_at)'
    BY <2>1, <2>2 DEF Accounted, KeptIn, HeldIn, ReplacedIn
  <2>5. FirstFsid(events[parsed + 1], seen)'
    BY <2>2 DEF FirstFsid
  <2> QED BY <2>3, <2>4, <2>5 DEF CurrentInv
<1> QED BY <1>3, <1>4 DEF ContentInv

(* Before the first call there are no events to hold anything. *)
LEMMA ContentInit == Init => ContentInv
<1> SUFFICES ASSUME Init PROVE ContentInv
  OBVIOUS
<1>1. Live = {} /\ pc = "idle"
  BY DEF Init, Live, LiveCount
<1> QED BY <1>1 DEF ContentInv, LiveInv, CurrentInv

(* Two events that hold the same, whatever their path. *)
SameContent(new, old) ==
  /\ new.head = old.head
  /\ new.end = old.end
  /\ new.field = old.field
  /\ new.unknown_info_records = old.unknown_info_records

(* A step that changes no live event, but for a path set between calls,    *)
(* and starts no record walk.                                              *)
LEMMA LiveKept ==
  ASSUME ParserInv, ContentInv,
         pc' # "record", pc' # "idle" => call' >= 1 /\ (pc # "idle" \/ LiveCount' = 0),
         call' = call \/ LiveCount' = 0, LiveCount' <= LiveCount, LiveCount' \in Nat,
         \A i \in 1..LiveCount' : \/ events'[i] = events[i]
                                  \/ pc' = "idle" /\ SameContent(events'[i], events[i])
  PROVE  ContentInv'
<1>1. ASSUME NEW i \in 1..LiveCount'
      PROVE  /\ ReadIn(events'[i], call')
             /\ HasFsid(events'[i])
             /\ pc' # "idle" => ~events'[i].path
  <2>1. i \in Live /\ events[i] \in FidEvent /\ call' = call
    BY DEF Live, LiveCount, ParserInv, TypeOK, SlotInv
  <2>2. ReadIn(events[i], call) /\ HasFsid(events[i]) /\ (pc # "idle" => ~events[i].path)
    BY <2>1 DEF ContentInv, LiveInv
  <2>3. CASE events'[i] = events[i]
    BY <2>1, <2>2, <2>3
  <2>4. CASE pc' = "idle" /\ SameContent(events'[i], events[i])
    <3>1. ReadIn(events'[i], call) /\ HasFsid(events'[i])
      BY <2>2, <2>4 DEF ReadIn, HasFsid, SameContent
    <3> QED BY <2>1, <2>4, <3>1
  <2> QED BY <2>3, <2>4
<1>2. LiveInv'
  <2>1. Live' = 1..LiveCount'
    BY DEF Live
  <2> QED BY <1>1, <2>1 DEF LiveInv, ReadIn, HasFsid
<1>3. CurrentInv'
  BY DEF CurrentInv
<1> QED BY <1>2, <1>3 DEF ContentInv

(* A call starts with no live event. *)
LEMMA CallContent ==
  ASSUME ParserInv, ContentInv, NEW n \in BufLens, Call(n)
  PROVE  ContentInv'
<1>1. LiveCount' = 0 /\ LiveCount \in Nat /\ pc' = "event" /\ call' >= 1
  BY DEF Call, LiveCount, ParserInv, TypeOK
<1> QED BY <1>1, LiveKept DEF Call

(* Only between two calls does a live event get a path. *)
LEMMA SetPathContent ==
  ASSUME ParserInv, ContentInv, NEW i \in DOMAIN events, SetPath(i)
  PROVE  ContentInv'
<1>1. i \in 1..Len(events) /\ events[i] \in FidEvent
  BY DEF ParserInv, TypeOK
<1> DEFINE ev == [events[i] EXCEPT !.path = TRUE]
<1>2. ev \in FidEvent /\ SameContent(ev, events[i])
  BY <1>1 DEF FidEvent, SameContent
<1>3. events' = [events EXCEPT ![i] = ev]
  BY DEF SetPath
<1> HIDE DEF ev
<1>4. events'[i] = ev /\ \A j \in 1..Len(events) : j # i => events'[j] = events[j]
  BY <1>1, <1>2, <1>3, ReplaceSlot DEF ParserInv, TypeOK
<1>5. LiveCount' = LiveCount /\ LiveCount \in Nat /\ LiveCount <= Len(events)
      /\ pc = "idle" /\ pc' = "idle" /\ call' = call
  BY DEF SetPath, LiveCount, ParserInv, TypeOK, SlotInv
<1>6. \A j \in 1..LiveCount' : \/ events'[j] = events[j]
                               \/ pc' = "idle" /\ SameContent(events'[j], events[j])
  BY <1>1, <1>2, <1>4, <1>5 DEF ParserInv, TypeOK
<1> QED BY <1>5, <1>6, LiveKept

(* Truncation keeps every live event. *)
LEMMA ReturnContent ==
  ASSUME ParserInv, ContentInv, pc = "event", NEW why, Return(why)
  PROVE  ContentInv'
<1>1. LiveCount = parsed /\ LiveCount' = parsed /\ pc' = "idle" /\ call' = call /\ parsed \in Nat
  BY DEF Return, LiveCount, ParserInv, TypeOK
<1>2. \A i \in 1..parsed : events'[i] = events[i]
  BY TruncateFacts DEF ParserInv, TypeOK, SlotInv, Return
<1> QED BY <1>1, <1>2, LiveKept

(* The events already parsed stay, and the slot of the next one is empty.  *)
LEMMA BeginContent ==
  ASSUME ParserInv, ContentInv, NEW known \in BOOLEAN, NEW event_len \in LenField,
         NEW metadata_len \in LenField, BeginEvent(known, event_len, metadata_len)
  PROVE  ContentInv'
<1> DEFINE fresh == Headed(NewEvent, offset, offset + event_len)
<1>1. /\ parsed \in Nat /\ call \in Nat /\ offset \in Nat /\ offset + event_len \in Nat
      /\ parsed + 1 \in 1..(Len(events) + 1) /\ events \in Seq(FidEvent)
      /\ LiveCount = parsed /\ LiveCount' = parsed + 1 /\ call' = call /\ call >= 1
      /\ parsed' = parsed /\ offset' = offset /\ event_end' = offset + event_len
      /\ pc' = "record" /\ pc = "event"
  BY DEF BeginEvent, LiveCount, ParserInv, TypeOK, SlotInv, ContentInv
<1>2. events'[parsed + 1] = fresh /\ \A j \in 1..parsed : events'[j] = events[j]
  <2>1. events' = TakeSlot(events, parsed + 1, offset, offset + event_len)
    BY DEF BeginEvent
  <2>2. \A j \in 1..parsed : events'[j] = events[j]
    BY <1>1, <2>1, TakeSlotFacts
  <2> QED BY <1>1, <2>1, <2>2, TakeSlotFresh
<1>3. /\ fresh.head.call = call /\ fresh.head.at = offset /\ fresh.end = offset + event_len
      /\ ~fresh.path /\ fresh.unknown_info_records = <<>>
      /\ \A f \in Fields : fresh.field[f] = None
  BY <1>1, FreshEvent
<1> HIDE DEF fresh
<1>4. ReadIn(fresh, call) /\ HasFsid(fresh)
  <2>1. HandleFields \subseteq Fields
    BY DEF HandleFields, Fields
  <2> QED BY <1>3, <2>1 DEF ReadIn, HasFsid, ToSet
<1>5. LiveInv'
  <2> SUFFICES ASSUME NEW i \in 1..(parsed + 1)
               PROVE  ReadIn(events'[i], call) /\ HasFsid(events'[i]) /\ ~events'[i].path
    BY <1>1 DEF LiveInv, Live, ReadIn, HasFsid
  <2>1. CASE i = parsed + 1
    BY <1>2, <1>3, <1>4, <2>1
  <2>2. CASE i # parsed + 1
    <3>1. events'[i] = events[i] /\ i \in Live
      BY <1>1, <1>2, <2>2 DEF Live
    <3> QED BY <1>1, <3>1 DEF ContentInv, LiveInv
  <2> QED BY <2>1, <2>2
<1>6. CurrentInv'
  <2>1. seen' = {}
    BY DEF BeginEvent
  <2>2. FirstFsid(events[parsed + 1], seen)'
    BY <1>1, <1>2, <1>3, <2>1 DEF FirstFsid, HandlesIn, Fields
  <2>3. WalkedTo(events[parsed + 1], header_at)'
    <3>1. ToSet(fresh.unknown_info_records) = {} /\ InOrder(fresh.unknown_info_records)
      BY <1>3 DEF ToSet, InOrder
    <3> QED BY <1>1, <1>2, <1>3, <3>1 DEF WalkedTo
  <2> QED BY <1>1, <1>2, <2>1, <2>2, <2>3 DEF CurrentInv
<1> QED BY <1>1, <1>5, <1>6 DEF ContentInv

(* The event whose records end is now one of the parsed ones. *)
LEMMA EndContent ==
  ASSUME ParserInv, ContentInv, EndRecords
  PROVE  ContentInv'
<1>1. LiveCount' = LiveCount /\ LiveCount \in Nat /\ pc = "record" /\ pc' = "event"
      /\ call' = call /\ events' = events
  BY DEF EndRecords, LiveCount, ParserInv, TypeOK
<1> QED BY <1>1, LiveKept DEF ContentInv

(* The rest of an event that cannot be walked is kept verbatim. *)
LEMMA BadRecordContent ==
  ASSUME ParserInv, ContentInv, NEW record_len \in LenField, BadRecord(record_len)
  PROVE  ContentInv'
<1> DEFINE old == events[parsed + 1]
           ev == Preserve(old, header_at, event_end)
           record == [type |-> "OTHER", at |-> header_at, end |-> event_end, fits |-> FALSE]
<1>1. /\ pc = "record" /\ old \in FidEvent /\ header_at \in Nat /\ event_end \in Nat
      /\ call \in Nat /\ offset \in Nat /\ header_at' = event_end
      /\ offset + MetadataSize <= header_at /\ header_at + InfoHeaderSize <= event_end
      /\ seen' = seen \cup {record} /\ seen \in SUBSET Record
      /\ UNCHANGED <<pc, call, parsed, offset, event_end>>
      /\ events' = [events EXCEPT ![parsed + 1] = ev]
  BY CurrentEvent DEF BadRecord, RecordHeaderFits, ParserInv, TypeOK, WalkInBounds
<1>2. /\ ReadIn(old, call) /\ HasFsid(old) /\ ~old.path /\ WalkedTo(old, header_at)
      /\ \A r \in seen : Accounted(old, r, header_at)
      /\ FirstFsid(old, seen)
  BY <1>1 DEF ContentInv, LiveInv, CurrentInv, Live, LiveCount, ParserInv, TypeOK
<1>3. record \in Record /\ record.at = header_at /\ record.end = event_end /\ ~record.fits
  <2>1. FALSE \in BOOLEAN /\ "OTHER" \in RecordTypes
    BY DEF RecordTypes
  <2>2. ASSUME NEW b \in BOOLEAN
        PROVE  [type |-> "OTHER", at |-> header_at, end |-> event_end, fits |-> b] \in Record
    BY <1>1, <2>1 DEF Record
  <2> QED BY <2>1, <2>2, Zenon
<1> HIDE DEF old, record
<1>4. ev \in FidEvent /\ ~ev.path
  BY <1>1, <1>2, PreserveType, PreserveFields
<1>5. /\ ReadIn(ev, call) /\ HasFsid(ev) /\ WalkedTo(ev, event_end)
      /\ \A r \in Record : Accounted(old, r, header_at) => Accounted(ev, r, event_end)
      /\ Accounted(ev, record, event_end)
  BY <1>1, <1>2, <1>3, PreserveContent
<1>6. FirstFsid(ev, seen')
  <2>1. ev.field = old.field /\ call >= 1
    BY <1>1, PreserveFields DEF ContentInv
  <2>2. \A r \in seen : r.at < record.at
    BY <1>2, <1>3 DEF Accounted
  <2> HIDE DEF ev
  <2> QED BY <1>1, <1>2, <1>3, <2>1, <2>2, FirstFsidKept
<1> HIDE DEF ev
<1> QED BY <1>1, <1>2, <1>3, <1>4, <1>5, <1>6, CurrentReplaced

(* A record walked is read into its field, or kept when it cannot be read  *)
(* or repeats one whose first wins.                                        *)
LEMMA WalkRecordContent ==
  ASSUME ParserInv, ContentInv, NEW type \in InfoTypes, NEW record_len \in LenField,
         NEW handle_bytes \in LenField, WalkRecord(type, record_len, handle_bytes)
  PROVE  ContentInv'
<1> DEFINE old == events[parsed + 1]
           end == header_at + record_len
           fits == PayloadFits(type, record_len - InfoHeaderSize, handle_bytes)
           reads == fits /\ (type \in FirstWins => old.field[FieldOf(type)] = None)
           ev == Interpret(old, type, header_at, end, handle_bytes)
           record == [type |-> type, at |-> header_at, end |-> end, fits |-> fits]
<1>1. /\ pc = "record" /\ old \in FidEvent /\ header_at \in Nat /\ event_end \in Nat
      /\ call \in Nat /\ call >= 1 /\ offset \in Nat /\ end \in Nat /\ header_at' = end
      /\ offset + MetadataSize <= header_at /\ header_at + InfoHeaderSize <= end
      /\ header_at < end /\ end <= event_end
      /\ UNCHANGED <<pc, call, parsed, offset, event_end>>
  BY CurrentEvent DEF WalkRecord, RecordLenFits, ParserInv, TypeOK, WalkInBounds, ContentInv
<1>2. /\ seen' = seen \cup {record} /\ seen \in SUBSET Record
      /\ events' = [events EXCEPT ![parsed + 1] = ev]
  BY DEF WalkRecord, ParserInv, TypeOK
<1>3. /\ ReadIn(old, call) /\ HasFsid(old) /\ ~old.path /\ WalkedTo(old, header_at)
      /\ \A r \in seen : Accounted(old, r, header_at)
      /\ FirstFsid(old, seen)
  BY <1>1 DEF ContentInv, LiveInv, CurrentInv, Live, LiveCount, ParserInv, TypeOK
<1>4. record \in Record /\ record.at = header_at /\ record.end = end
      /\ record.type = type /\ record.fits = fits
  <2>1. fits \in BOOLEAN
    BY Zenon DEF PayloadFits
  <2>2. type \in RecordTypes
    OBVIOUS
  <2> HIDE DEF fits
  <2> QED BY <1>1, <2>1, <2>2 DEF Record
<1>5. ev = IF reads THEN Land(old, type, header_at) ELSE Preserve(old, header_at, end)
  <2>1. end - header_at - InfoHeaderSize = record_len - InfoHeaderSize
    BY <1>1
  <2> QED BY <2>1 DEF Interpret
<1>6. fits => type \in RecordTypes \ {"OTHER"}
  BY OtherNeverFits
<1> HIDE DEF old, end, fits, record, ev
<1>7. /\ ev \in FidEvent /\ ~ev.path
      /\ ReadIn(ev, call) /\ HasFsid(ev) /\ WalkedTo(ev, end)
      /\ \A r \in Record : Accounted(old, r, header_at) => Accounted(ev, r, end)
      /\ Accounted(ev, record, end)
  <2>1. CASE reads
    <3>1. ev = Land(old, type, header_at) /\ type \in RecordTypes \ {"OTHER"}
          /\ record.fits /\ (type \in FirstWins => old.field[FieldOf(type)] = None)
      BY <1>4, <1>5, <1>6, <2>1
    <3>2. ev \in FidEvent /\ ~ev.path
      BY <1>1, <1>3, <3>1, LandType, LandFields
    <3> QED BY <1>1, <1>3, <1>4, <3>1, <3>2, LandContent
  <2>2. CASE ~reads
    <3>1. ev = Preserve(old, header_at, end)
          /\ (record.fits => /\ record.type \in FirstWins
                             /\ old.field[FieldOf(record.type)] # None)
      BY <1>4, <1>5, <2>2
    <3>2. ev \in FidEvent /\ ~ev.path
      BY <1>1, <1>3, <3>1, PreserveType, PreserveFields
    <3> QED BY <1>1, <1>3, <1>4, <3>1, <3>2, PreserveContent
  <2> QED BY <2>1, <2>2
<1>8. FirstFsid(ev, seen')
  <2>1. \A r \in seen : r.at < record.at
    BY <1>3, <1>4 DEF Accounted
  <2>2. CASE reads
    <3>1. FieldOf(type) # "fsid" /\ "fsid" \in Fields
      BY <1>6, <2>2, FieldOfType DEF Fields
    <3>2. ev.field["fsid"] = IF type \in HandleTypes /\ old.field["fsid"] = None
                             THEN [call |-> call, at |-> header_at] ELSE old.field["fsid"]
      BY <1>1, <1>5, <2>2, <3>1, LandFields
    <3> QED BY <1>1, <1>2, <1>3, <1>4, <2>1, <2>2, <3>2, FirstFsidKept
  <2>3. CASE ~reads
    <3>1. ev.field = old.field
      BY <1>1, <1>5, <2>3, PreserveFields
    <3>2. fits /\ type \in HandleTypes => old.field["fsid"] # None
      <4>1. fits /\ type \in HandleTypes => type = "DFID_NAME" /\ old.field[FieldOf(type)] # None
        BY <2>3 DEF HandleTypes, FirstWins
      <4>2. FieldOf("DFID_NAME") = "dfid_name" /\ "dfid_name" \in HandleFields
        BY DEF FieldOf, HandleFields
      <4> QED BY <1>3, <4>1, <4>2 DEF HasFsid
    <3> QED BY <1>1, <1>2, <1>3, <1>4, <2>1, <3>1, <3>2, FirstFsidKept
  <2> QED BY <2>2, <2>3
<1> QED BY <1>1, <1>2, <1>3, <1>4, <1>7, <1>8, CurrentReplaced

(* What the events hold is kept by every step. *)
LEMMA ContentStep == ParserInv /\ ContentInv /\ [Next]_vars => ContentInv'
<1> SUFFICES ASSUME ParserInv, ContentInv, [Next]_vars PROVE ContentInv'
  OBVIOUS
<1>1. CASE UNCHANGED vars
  BY <1>1 DEF vars, ContentInv, LiveInv, CurrentInv, Live, LiveCount, ReadIn, HasFsid,
    WalkedTo, Accounted, KeptIn, HeldIn, ReplacedIn, FirstFsid
<1>2. CASE StopAtTail
  BY <1>2, ReturnContent DEF StopAtTail
<1>3. ASSUME NEW known \in BOOLEAN, NEW event_len \in LenField, NEW metadata_len \in LenField,
             StopAtHeader(known, event_len, metadata_len)
      PROVE  ContentInv'
  BY <1>3, ReturnContent DEF StopAtHeader
<1> QED BY <1>1, <1>2, <1>3, CallContent, SetPathContent, BeginContent, EndContent,
           BadRecordContent, WalkRecordContent
        DEF Next, Step

(* What the events hold is what the records of this call said. *)
LEMMA ContentKept == Spec => []ContentInv
BY ContentInit, ContentStep, ParserCorrect, PTL DEF Spec

(* A slot reused from an earlier call carries nothing of it, for every     *)
(* buffer and every record: the fields, the preserved ranges and the path  *)
(* of a live event stem from this call and from the event's own bytes.     *)
THEOREM ParserNothingStale == Spec => []NothingStale
<1>1. ContentInv => NothingStale
  BY DEF ContentInv, LiveInv, ReadIn, NothingStale
<1> QED BY <1>1, ContentKept, PTL

(* Every record the parser walks leaves exactly one trace in its event,    *)
(* and what is kept verbatim is kept in order, no byte twice.              *)
THEOREM ParserAccountsForRecords == Spec => []RecordsAccountedFor
<1>1. ContentInv => RecordsAccountedFor
  BY DEF ContentInv, CurrentInv, Accounted, KeptIn, HeldIn, ReplacedIn, WalkedTo, InOrder,
    RecordsAccountedFor
<1> QED BY <1>1, ContentKept, PTL

(* An event with a handle has an fsid, and it is the one of the first      *)
(* handle record that could be read, however many follow.                  *)
THEOREM ParserHandleHasFsid == Spec => []HandleHasFsid
<1>1. ContentInv => HandleHasFsid
  BY DEF ContentInv, LiveInv, CurrentInv, HasFsid, FirstFsid, HandlesIn, HandleHasFsid
<1> QED BY <1>1, ContentKept, PTL


-----------------------------------------------------------------------------
(***************************************************************************)
(* Why a call returns: each step of the two nested loops takes it closer   *)
(* to its end.  Entering an event costs a header, leaving it nothing,      *)
(* which is what the factor is for.                                        *)
(***************************************************************************)
Remaining ==
  CASE pc = "idle"   -> 0
    [] pc = "event"  -> 2 * (buf_len - offset) + 1
    [] pc = "record" -> 2 * (buf_len - header_at) + 2

LEMMA RemainingAt ==
  /\ pc = "idle" => Remaining = 0
  /\ pc = "event" => Remaining = 2 * (buf_len - offset) + 1
  /\ pc = "record" => Remaining = 2 * (buf_len - header_at) + 2
BY DEF Remaining

LEMMA StepAdvances ==
  ASSUME ParserInv, Step
  PROVE  Remaining' < Remaining
<1> USE DEF SizesAssumption, LenFieldAssumption
<1>1. /\ offset \in Nat /\ buf_len \in Nat /\ header_at \in Nat /\ event_end \in Nat
      /\ offset <= buf_len
      /\ pc = "record" => header_at <= event_end /\ event_end <= buf_len
  BY DEF ParserInv, TypeOK, WalkInBounds
<1>2. ASSUME NEW why, Return(why), pc = "event"
      PROVE  Remaining' < Remaining
  BY <1>1, <1>2 DEF Return, Remaining
<1>3. CASE StopAtTail
  BY <1>2, <1>3 DEF StopAtTail
<1>4. ASSUME NEW known \in BOOLEAN, NEW event_len \in LenField, NEW metadata_len \in LenField,
             StopAtHeader(known, event_len, metadata_len)
      PROVE  Remaining' < Remaining
  BY <1>2, <1>4 DEF StopAtHeader
<1>5. ASSUME NEW known \in BOOLEAN, NEW event_len \in LenField, NEW metadata_len \in LenField,
             BeginEvent(known, event_len, metadata_len)
      PROVE  Remaining' < Remaining
  <2>1. RecordsStart(metadata_len) \in Nat \ {0}
    BY DEF RecordsStart
  <2>2. /\ pc = "event" /\ pc' = "record" /\ buf_len' = buf_len
        /\ header_at' = offset + RecordsStart(metadata_len)
    BY <1>5 DEF BeginEvent
  <2> QED BY <1>1, <2>1, <2>2 DEF Remaining
<1>6. CASE EndRecords
  BY <1>1, <1>6 DEF EndRecords, Remaining
<1>7. ASSUME NEW record_len \in LenField, BadRecord(record_len)
      PROVE  Remaining' < Remaining
  <2>1. /\ pc = "record" /\ pc' = pc /\ buf_len' = buf_len
        /\ header_at' = event_end /\ header_at + InfoHeaderSize <= event_end
    BY <1>7 DEF BadRecord, RecordHeaderFits
  <2> QED BY <1>1, <2>1 DEF Remaining
<1>8. ASSUME NEW record_len \in LenField, NEW type \in InfoTypes, NEW handle_bytes \in LenField,
             WalkRecord(type, record_len, handle_bytes)
      PROVE  Remaining' < Remaining
  <2>1. /\ pc = "record" /\ pc' = pc /\ buf_len' = buf_len
        /\ header_at' = header_at + record_len
        /\ record_len \in Nat /\ record_len >= InfoHeaderSize
        /\ header_at + record_len <= event_end
    BY <1>1, <1>8 DEF WalkRecord, RecordLenFits
  <2> QED BY <1>1, <2>1 DEF Remaining
<1> QED BY <1>3, <1>4, <1>5, <1>6, <1>7, <1>8 DEF Step

(* No bytes make the parser spin: each step of either loop decreases a     *)
(* number that is at most twice the length of the buffer and one, so a     *)
(* call takes at most as many steps.  A record or an event of length zero  *)
(* is what would break it.                                                 *)
THEOREM ParserAdvances ==
  Spec => /\ [](Remaining \in 0..(2 * buf_len + 1))
          /\ [][Step => Remaining' < Remaining]_vars
<1>1. ParserInv => Remaining \in 0..(2 * buf_len + 1)
  <2> SUFFICES ASSUME ParserInv PROVE Remaining \in 0..(2 * buf_len + 1)
    OBVIOUS
  <2>1. /\ pc \in {"idle", "event", "record"}
        /\ offset \in Nat /\ buf_len \in Nat /\ header_at \in Nat /\ event_end \in Nat
        /\ offset <= buf_len
        /\ pc = "record" => header_at >= 1 /\ header_at <= buf_len
    BY DEF ParserInv, TypeOK, WalkInBounds, SizesAssumption
  <2> QED BY <2>1, RemainingAt
<1>2. ParserInv /\ [Next]_vars => [Step => Remaining' < Remaining]_vars
  BY StepAdvances
<1> QED BY <1>1, <1>2, ParserCorrect, PTL DEF Spec
=============================================================================
