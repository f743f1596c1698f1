--------------------------- MODULE EventWalk_proofs ---------------------------
(***************************************************************************)
(* Proofs about EventWalk, for headers of any size, buffers of any length  *)
(* and any bytes in them.                                                  *)
(***************************************************************************)
EXTENDS EventWalk, FiniteSetTheorems, TLAPS

(* What the loop needs to know of the version check to report truthfully:  *)
(* before the first header was looked at there is no event, and a reason   *)
(* is only given on return.                                                *)
LoopState ==
  /\ pc = "event" => stop = "none"
  /\ pc = "event" /\ ~version_checked => spans = {}

WalkInv == TypeOK /\ EventsTileConsumed /\ LoopState /\ StopIsTruthful

USE MetadataSizeAssumption, LenFieldAssumption, BufLensAssumption, MaxCallsAssumption
  DEF MetadataSizeAssumption, LenFieldAssumption, BufLensAssumption, MaxCallsAssumption

(* A span that begins where a tiling ends extends the tiling: what         *)
(* `offset += event_len` does.                                             *)
LEMMA TilesExtend ==
  ASSUME NEW S \in SUBSET Span, NEW hi \in Nat, NEW len \in Nat \ {0}, Tiles(S, 0, hi)
  PROVE  Tiles(S \cup {[at |-> hi, end |-> hi + len]}, 0, hi + len)
<1> DEFINE new == [at |-> hi, end |-> hi + len]
<1>1. \A s \in S : s.at \in Nat /\ s.end \in Nat
  BY DEF Span
<1>2. \A s \in S \cup {new} : 0 <= s.at /\ s.at < s.end /\ s.end <= hi + len
  BY <1>1 DEF Tiles
<1>3. \A i \in 0..(hi + len - 1) : \E s \in S \cup {new} : s.at <= i /\ i < s.end
  <2> SUFFICES ASSUME NEW i \in 0..(hi + len - 1)
               PROVE  \E s \in S \cup {new} : s.at <= i /\ i < s.end
    OBVIOUS
  <2>1. CASE i < hi
    BY <2>1 DEF Tiles
  <2>2. CASE i >= hi
    <3>1. new.at <= i /\ i < new.end
      BY <2>2
    <3> QED BY <3>1
  <2> QED BY <2>1, <2>2
<1>4. \A s, t \in S \cup {new} : s # t => s.end <= t.at \/ t.end <= s.at
  BY <1>1 DEF Tiles
<1> QED BY <1>2, <1>3, <1>4 DEF Tiles

(* Before the first call nothing is consumed and nothing is claimed. *)
LEMMA InitEstablishes == Init => WalkInv
<1> SUFFICES ASSUME Init PROVE WalkInv
  OBVIOUS
<1>1. TypeOK
  BY DEF Init, TypeOK, Span
<1>2. Tiles({}, 0, 0)
  BY DEF Tiles
<1> QED BY <1>1, <1>2 DEF Init, WalkInv, EventsTileConsumed, LoopState, StopIsTruthful

(* A call starts from an empty tiling of an empty prefix, whatever Vec it  *)
(* is given.                                                               *)
LEMMA CallPreserves ==
  ASSUME WalkInv, NEW n \in BufLens, Call(n)
  PROVE  WalkInv'
<1>1. Tiles({}, 0, 0)
  BY DEF Tiles
<1>2. TypeOK'
  <2>1. n \in Nat
    OBVIOUS
  <2>2. call' \in Nat /\ buf_len' \in Nat /\ offset' \in Nat /\ parsed' \in Nat /\ events_len' \in Nat
    BY <2>1 DEF WalkInv, TypeOK, Call
  <2>3. spans' \in SUBSET Span
    BY DEF Call
  <2>4. version_checked' \in BOOLEAN
    BY DEF Call
  <2>5. pc' \in {"idle", "event"} /\ stop' \in EventStop \cup {"none"}
    BY DEF Call
  <2> QED BY <2>2, <2>3, <2>4, <2>5 DEF TypeOK
<1>3. EventsTileConsumed'
  BY <1>1 DEF WalkInv, TypeOK, Call, EventsTileConsumed
<1>4. LoopState' /\ StopIsTruthful'
  BY DEF WalkInv, TypeOK, Call, LoopState, StopIsTruthful
<1> QED BY <1>2, <1>3, <1>4 DEF WalkInv

(* Truncating the Vec and reporting a reason keeps the types. *)
LEMMA ReturnKeepsTypes ==
  ASSUME TypeOK, NEW why \in EventStop, Return(why), version_checked' \in BOOLEAN
  PROVE  TypeOK'
<1>1. events_len' \in Nat
  BY DEF TypeOK, Return
<1>2. pc' \in {"idle", "event"} /\ stop' \in EventStop \cup {"none"}
  BY DEF Return
<1>3. call' \in Nat /\ buf_len' \in Nat /\ offset' \in Nat /\ parsed' \in Nat /\ spans' \in SUBSET Span
  BY DEF TypeOK, Return
<1> QED BY <1>1, <1>2, <1>3 DEF TypeOK

(* Leaving the loop at the tail of the buffer. *)
LEMMA TailPreserves ==
  ASSUME WalkInv, StopAtTail
  PROVE  WalkInv'
<1>1. TypeOK'
  <2>1. \E why \in EventStop : Return(why)
    BY DEF StopAtTail, EventStop
  <2>2. version_checked' \in BOOLEAN
    BY DEF WalkInv, TypeOK, StopAtTail
  <2> QED BY <2>1, <2>2, ReturnKeepsTypes DEF WalkInv
<1> USE DEF WalkInv, StopAtTail, Return
<1>2. EventsTileConsumed'
  BY DEF EventsTileConsumed
<1>3. LoopState' /\ StopIsTruthful'
  BY DEF TypeOK, LoopState, StopIsTruthful, EventsTileConsumed, HeaderFits
<1> QED BY <1>1, <1>2, <1>3

(* Refusing a header: at least a header was left, so the reason is neither *)
(* End nor ShortHeader, and an unknown version is only met before the      *)
(* first event.                                                            *)
LEMMA HeaderPreserves ==
  ASSUME WalkInv, NEW known \in BOOLEAN, NEW event_len \in LenField,
         NEW metadata_len \in LenField, StopAtHeader(known, event_len, metadata_len)
  PROVE  WalkInv'
<1>1. \E why \in {"UnknownVersion", "BadEventLen", "BadMetadataLen"} :
         Return(why) /\ (why = "UnknownVersion" => ~version_checked)
  BY DEF StopAtHeader, VersionAccepted
<1>2. PICK why \in {"UnknownVersion", "BadEventLen", "BadMetadataLen"} :
         Return(why) /\ (why = "UnknownVersion" => ~version_checked)
  BY <1>1
<1>3. pc = "event" /\ HeaderFits /\ version_checked' = TRUE
  BY DEF StopAtHeader
<1>4. TypeOK'
  <2>1. why \in EventStop
    BY DEF EventStop
  <2>2. version_checked' \in BOOLEAN
    BY <1>3
  <2> QED BY <1>2, <2>1, <2>2, ReturnKeepsTypes DEF WalkInv
<1> USE <1>2, <1>3 DEF WalkInv, Return
<1>5. EventsTileConsumed'
  BY DEF EventsTileConsumed
<1>6. LoopState' /\ StopIsTruthful'
  BY DEF TypeOK, LoopState, StopIsTruthful, HeaderFits
<1> QED BY <1>4, <1>5, <1>6

(* Accepting an event: the checked event_len is the next tile. *)
LEMMA EventPreserves ==
  ASSUME WalkInv, NEW known \in BOOLEAN, NEW event_len \in LenField,
         NEW metadata_len \in LenField, ParseEvent(known, event_len, metadata_len)
  PROVE  WalkInv'
<1> USE DEF WalkInv, ParseEvent, EventLenFits
<1>1. event_len \in Nat \ {0}
  OBVIOUS
<1>2. TypeOK'
  BY <1>1 DEF TypeOK, Span
<1>3. EventsTileConsumed'
  <2>1. Tiles(spans \cup {[at |-> offset, end |-> offset + event_len]}, 0, offset + event_len)
    BY <1>1, TilesExtend DEF TypeOK, EventsTileConsumed
  <2> QED BY <1>1, <2>1 DEF TypeOK, EventsTileConsumed
<1>4. LoopState' /\ StopIsTruthful'
  BY DEF TypeOK, LoopState, StopIsTruthful
<1> QED BY <1>2, <1>3, <1>4

(* The invariant of the walk is inductive. *)
LEMMA StepPreserves == WalkInv /\ [Next]_vars => WalkInv'
<1> SUFFICES ASSUME WalkInv, [Next]_vars PROVE WalkInv'
  OBVIOUS
<1>1. CASE StopAtTail
  BY <1>1, TailPreserves
<1>2. ASSUME NEW known \in BOOLEAN, NEW event_len \in LenField, NEW metadata_len \in LenField,
             StopAtHeader(known, event_len, metadata_len)
      PROVE  WalkInv'
  BY <1>2, HeaderPreserves
<1>3. ASSUME NEW known \in BOOLEAN, NEW event_len \in LenField, NEW metadata_len \in LenField,
             ParseEvent(known, event_len, metadata_len)
      PROVE  WalkInv'
  BY <1>3, EventPreserves
<1>4. ASSUME NEW n \in BufLens, Call(n) PROVE WalkInv'
  BY <1>4, CallPreserves
<1>5. CASE UNCHANGED vars
  BY <1>5 DEF vars, WalkInv, TypeOK, EventsTileConsumed, LoopState, StopIsTruthful, Tiles
<1> QED BY <1>1, <1>2, <1>3, <1>4, <1>5 DEF Next, Step

(* The walk of both parsers keeps its invariant, whatever the bytes. *)
THEOREM WalkCorrect == Spec => []WalkInv
BY InitEstablishes, StepPreserves, PTL DEF Spec

(* Every variable keeps its type. *)
THEOREM WalkTypeCorrect == Spec => []TypeOK
<1>1. WalkInv => TypeOK
  BY DEF WalkInv
<1> QED BY <1>1, WalkCorrect, PTL

(* The events tile the consumed bytes: `offset += event_len` neither skips *)
(* a byte nor reads one twice, and never leaves the buffer.                *)
THEOREM WalkTiles == Spec => []EventsTileConsumed
<1>1. WalkInv => EventsTileConsumed
  BY DEF WalkInv
<1> QED BY <1>1, WalkCorrect, PTL

(* ParseReport::stop tells the truth about the bytes that are left. *)
THEOREM WalkReportsTruthfully == Spec => []StopIsTruthful
<1>1. WalkInv => StopIsTruthful
  BY DEF WalkInv
<1> QED BY <1>1, WalkCorrect, PTL

-----------------------------------------------------------------------------
(* How many slots are live: `parsed` counts the spans, and the Vec is      *)
(* never shorter than `parsed` inside the loop.                            *)
CountInv ==
  /\ IsFiniteSet(spans)
  /\ parsed = Cardinality(spans)
  /\ pc = "event" => events_len >= parsed
  /\ pc = "idle" => events_len = parsed

(* An empty Vec for no span. *)
LEMMA CountInit == Init => CountInv
BY FS_EmptySet DEF Init, CountInv

(* An accepted event is a new span, and takes a slot that exists           *)
(* afterwards.                                                             *)
LEMMA CountEvent ==
  ASSUME WalkInv, CountInv, NEW known \in BOOLEAN, NEW event_len \in LenField,
         NEW metadata_len \in LenField, ParseEvent(known, event_len, metadata_len)
  PROVE  CountInv'
<1> DEFINE new == [at |-> offset, end |-> offset + event_len]
<1>1. spans' = spans \cup {new} /\ parsed' = parsed + 1 /\ pc' = pc /\ pc = "event"
  BY DEF ParseEvent
<1>2. new \notin spans
  <2>1. \A s \in spans : s.at < s.end /\ s.end <= offset /\ s.at \in Nat /\ s.end \in Nat
    BY DEF WalkInv, TypeOK, Span, EventsTileConsumed, Tiles
  <2>2. SUFFICES ASSUME new \in spans PROVE FALSE
    OBVIOUS
  <2>3. new.at < new.end /\ new.end <= offset /\ new.at = offset
    BY <2>1, <2>2
  <2> QED BY <2>3 DEF WalkInv, TypeOK
<1>3. IsFiniteSet(spans') /\ Cardinality(spans') = Cardinality(spans) + 1
  BY <1>1, <1>2, FS_AddElement DEF CountInv
<1>4. events_len' >= parsed'
  BY <1>1 DEF ParseEvent, CountInv, WalkInv, TypeOK
<1> QED BY <1>1, <1>3, <1>4 DEF CountInv

(* The count of live slots is preserved by every step. *)
LEMMA CountStep == WalkInv /\ CountInv /\ [Next]_vars => CountInv'
<1> SUFFICES ASSUME WalkInv, CountInv, [Next]_vars PROVE CountInv'
  OBVIOUS
<1>1. ASSUME NEW why, Return(why), pc = "event" PROVE CountInv'
  BY <1>1 DEF Return, CountInv, WalkInv, TypeOK
<1>2. CASE StopAtTail
  BY <1>1, <1>2 DEF StopAtTail
<1>3. ASSUME NEW known \in BOOLEAN, NEW event_len \in LenField, NEW metadata_len \in LenField,
             StopAtHeader(known, event_len, metadata_len)
      PROVE  CountInv'
  BY <1>1, <1>3 DEF StopAtHeader
<1>4. ASSUME NEW known \in BOOLEAN, NEW event_len \in LenField, NEW metadata_len \in LenField,
             ParseEvent(known, event_len, metadata_len)
      PROVE  CountInv'
  BY <1>4, CountEvent
<1>5. ASSUME NEW n \in BufLens, Call(n) PROVE CountInv'
  BY <1>5, FS_EmptySet DEF Call, CountInv, WalkInv, TypeOK
<1>6. CASE UNCHANGED vars
  BY <1>6 DEF vars, CountInv
<1> QED BY <1>2, <1>3, <1>4, <1>5, <1>6 DEF Next, Step

(* A call returns one event per span, although the Vec it is given may     *)
(* hold more slots than the buffer has events (`events.truncate(parsed)`). *)
THEOREM WalkReturnsItsEvents == Spec => []ReturnsWhatItWalked
<1>1. CountInv => ReturnsWhatItWalked
  BY DEF CountInv, ReturnsWhatItWalked
<1> QED BY <1>1, WalkCorrect, CountInit, CountStep, PTL DEF Spec

-----------------------------------------------------------------------------
(* Every event accounts for at least a header of the consumed bytes. *)
LEMMA TruncationStep ==
  WalkInv /\ TruncationDropsNothing /\ [Next]_vars => TruncationDropsNothing'
<1> SUFFICES ASSUME WalkInv, TruncationDropsNothing, [Next]_vars
             PROVE  TruncationDropsNothing'
  OBVIOUS
<1>1. ASSUME NEW known \in BOOLEAN, NEW event_len \in LenField, NEW metadata_len \in LenField,
             ParseEvent(known, event_len, metadata_len)
      PROVE  TruncationDropsNothing'
  <2>1. parsed' = parsed + 1 /\ offset' = offset + event_len /\ event_len >= MetadataSize
    BY <1>1 DEF ParseEvent, EventLenFits
  <2>2. parsed \in Nat /\ offset \in Nat /\ event_len \in Nat /\ MetadataSize \in Nat
    BY <1>1 DEF WalkInv, TypeOK
  <2>3. (parsed + 1) * MetadataSize = parsed * MetadataSize + MetadataSize
    BY <2>2
  <2> QED BY <2>1, <2>2, <2>3 DEF TruncationDropsNothing
<1>2. ASSUME NEW n \in BufLens, Call(n) PROVE TruncationDropsNothing'
  BY <1>2 DEF Call, TruncationDropsNothing
<1>3. CASE UNCHANGED <<parsed, offset>>
  BY <1>3 DEF TruncationDropsNothing
<1> QED BY <1>1, <1>2, <1>3 DEF Next, Step, StopAtTail, StopAtHeader, Return, vars

(* The second truncation of FdEventReader::read_reported, by the number of *)
(* headers that would fit the consumed bytes, never drops a parsed event.  *)
THEOREM TruncationIsHarmless == Spec => []TruncationDropsNothing
<1>1. Init => TruncationDropsNothing
  BY DEF Init, TruncationDropsNothing
<1> QED BY <1>1, WalkCorrect, TruncationStep, PTL DEF Spec

-----------------------------------------------------------------------------
(***************************************************************************)
(* Why a call returns: each step of the walk takes it closer to its end.   *)
(***************************************************************************)
Remaining == IF pc = "idle" THEN 0 ELSE buf_len - offset + 1

LEMMA StepAdvances ==
  ASSUME WalkInv, Step
  PROVE  Remaining' < Remaining
<1>1. /\ offset \in Nat /\ buf_len \in Nat /\ offset <= buf_len
      /\ pc = "event"
  BY DEF WalkInv, TypeOK, EventsTileConsumed, Step, StopAtTail, StopAtHeader, ParseEvent
<1>2. ASSUME NEW known \in BOOLEAN, NEW event_len \in LenField, NEW metadata_len \in LenField,
             ParseEvent(known, event_len, metadata_len)
      PROVE  Remaining' < Remaining
  <2>1. event_len \in Nat /\ event_len >= MetadataSize /\ MetadataSize \in Nat \ {0}
    BY <1>2 DEF ParseEvent, EventLenFits
  <2> QED BY <1>1, <1>2, <2>1 DEF ParseEvent, Remaining
<1>3. CASE \E why \in EventStop : Return(why)
  BY <1>1, <1>3 DEF Return, Remaining
<1> QED BY <1>2, <1>3 DEF Step, StopAtTail, StopAtHeader, EventStop

(* No bytes make the walk spin: each step decreases a number that is at    *)
(* most the length of the buffer and one, so a call takes at most as many  *)
(* steps.  A length field of zero is what would break it.                  *)
THEOREM WalkAdvances ==
  Spec => /\ [](Remaining \in 0..(buf_len + 1))
          /\ [][Step => Remaining' < Remaining]_vars
<1>1. WalkInv => Remaining \in 0..(buf_len + 1)
  BY DEF WalkInv, TypeOK, EventsTileConsumed, Remaining
<1>2. WalkInv /\ [Next]_vars => [Step => Remaining' < Remaining]_vars
  BY StepAdvances
<1> QED BY <1>1, <1>2, WalkCorrect, PTL DEF Spec
=============================================================================
