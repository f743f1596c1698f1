--------------------------- MODULE FdReader_proofs ---------------------------
(***************************************************************************)
(* Proofs about FdReader, for any number of reading threads, descriptors   *)
(* and events, any batch size and whatever else the process opens: a       *)
(* descriptor has one owner and is open on its event's object, a failed    *)
(* read leaves nothing behind, no descriptor is lost, and an answer hits   *)
(* the event it is meant for.                                              *)
(***************************************************************************)
EXTENDS FdReader, TLAPS

(***************************************************************************)
(* The inductive invariant.  A number the kernel installed passes from     *)
(* inflight to a slot of its thread and from there to a caller; while it   *)
(* is on its way nobody else has it and it stays open on its event, which  *)
(* is why it can be adopted without looking at the table.                  *)
(***************************************************************************)
(* The numbers a thread is responsible for. *)
Mine(t) == Owned(t) \cup inflight[t]

(* A number other code of the process may open or close. *)
Foreign(n) == table[n] \in {Closed, Elsewhere}

(* The slots of one thread hold different numbers, open on their events,   *)
(* none of which still waits to be adopted.                                *)
OwnedInv(t) ==
  /\ \A i \in OwningSlots(t) :
       /\ slots[t][i].fd_field \in Fds
       /\ slots[t][i].fd_field \notin inflight[t]
       /\ table[slots[t][i].fd_field] = slots[t][i].ev
  /\ \A i, j \in OwningSlots(t) : slots[t][i].fd_field = slots[t][j].fd_field => i = j
  /\ \A n \in inflight[t] : ~Foreign(n)

(* A header of the buffer the kernel installed a descriptor for. *)
Fresh(h) == h.ev \notin NoObject /\ h.fd # NoFd

(* The headers of a batch: a number is installed once, and repeated only   *)
(* after the header it was installed for.                                  *)
BatchInv(t) ==
  /\ \A i, j \in DOMAIN bytes[t] :
       Fresh(bytes[t][i]) /\ Fresh(bytes[t][j]) /\ bytes[t][i].fd = bytes[t][j].fd => i = j
  /\ \A i \in DOMAIN bytes[t] :
       \/ Fresh(bytes[t][i])
       \/ bytes[t][i].fd = NoFd
       \/ \E j \in DOMAIN bytes[t] :
            j < i /\ Fresh(bytes[t][j]) /\ bytes[t][j].fd = bytes[t][i].fd

(* From slot i on nothing is adopted, and what is to be adopted is there.  *)
ToAdopt(t, i) ==
  \A j \in DOMAIN bytes[t] : j >= i /\ Fresh(bytes[t][j]) =>
    /\ bytes[t][j].fd \in inflight[t]
    /\ table[bytes[t][j].fd] = bytes[t][j].ev

(* The slots of a parsed batch: the headers, adopted up to at. *)
SlotsInv(t) ==
  /\ DOMAIN slots[t] = DOMAIN bytes[t]
  /\ \A i \in DOMAIN slots[t] :
       /\ slots[t][i].ev = bytes[t][i].ev
       /\ slots[t][i].fd_field = bytes[t][i].fd
       /\ i >= at[t] => ~slots[t][i].owns /\ ~slots[t][i].replied
  /\ adopted[t] = {bytes[t][j].fd : j \in {i \in DOMAIN bytes[t] : i < at[t] /\ Fresh(bytes[t][i])}}

PhaseInv(t) ==
  /\ pc[t] \in {"read", "parse", "wait"} => slots[t] = <<>>
  /\ pc[t] = "wait" => bytes[t] = <<>>
  /\ pc[t] = "idle" /\ result[t] \in {"EAGAIN", "errno"} => slots[t] = <<>> /\ bytes[t] = <<>>
  /\ pc[t] = "clear" => \A i \in DOMAIN slots[t] : i < at[t] => ~slots[t][i].owns
  /\ pc[t] = "parse" => BatchInv(t) /\ ToAdopt(t, 1)
  /\ pc[t] = "adopt" =>
       slots[t] = <<>> \/ (BatchInv(t) /\ SlotsInv(t) /\ ToAdopt(t, at[t]))

ThreadInv(t) == OwnedInv(t) /\ PhaseInv(t)

(* Nobody is responsible for another's number. *)
HeldInv ==
  /\ \A h \in held : table[h.fd] = h.ev
  /\ \A g, h \in held : g.fd = h.fd => g = h
  /\ \A t \in Threads, h \in held : h.fd \notin Mine(t)

ApartInv == \A t, u \in Threads : t # u => Mine(t) \cap Mine(u) = {}

Bounded == \A t \in Threads : at[t] >= 1

FdInv ==
  /\ TypeOK
  /\ Bounded
  /\ \A t \in Threads : ThreadInv(t)
  /\ HeldInv
  /\ ApartInv

(* Somebody is responsible for a number. *)
Kept(n) == (\E t \in Threads : n \in Mine(t)) \/ (\E h \in held : h.fd = n)

(* What waits to be adopted is what the batch still names. *)
ToCome(t, i) == {bytes[t][j].fd : j \in {m \in DOMAIN bytes[t] : m >= i /\ Fresh(bytes[t][m])}}

LeakThread(t) ==
  /\ pc[t] \notin {"parse", "adopt"} => inflight[t] = {}
  /\ pc[t] = "parse" => inflight[t] = ToCome(t, 1)
  /\ pc[t] = "adopt" => SlotsInv(t) /\ inflight[t] = ToCome(t, at[t])

(* Where the group reports no pidfd and every buffer has the known version *)
(* the readers adopt all the kernel ever installed.                        *)
LeakInv ==
  /\ \A n \in Fds : ~Foreign(n) => Kept(n)
  /\ \A t \in Threads : LeakThread(t)

(* What a disciplined caller adds: an event waits for its answer under a   *)
(* number that is still its own, since nobody closes it unanswered.        *)
ClaimedBy(t, n) ==
  \/ n \in inflight[t]
  \/ \E i \in OwningSlots(t) : slots[t][i].fd_field = n /\ ~slots[t][i].replied

PendingInv ==
  /\ \A p \in pending :
       p.ev \in Perm /\ table[p.fd] = p.ev /\ \E t \in Threads : ClaimedBy(t, p.fd)
  /\ \A t \in Threads : pc[t] = "clear" => Unanswered(t) = {}
  /\ \A a \in answers : a.meant = a.hit

-----------------------------------------------------------------------------
(***************************************************************************)
(* Lemmas: slots, and what a step of one party leaves to the others.       *)
(***************************************************************************)
(* Nothing foreign is anybody's object. *)
LEMMA ObjectsNotForeign ==
  /\ \A e \in Events : e # Closed /\ e # Elsewhere
  /\ Process # Closed /\ Process # Elsewhere
BY SentinelsAssumption DEF Objects

(* Changing one field of one slot. *)
LEMMA SlotSet ==
  ASSUME slots \in [Threads -> Seq(FdEvent)], NEW t \in Threads, NEW i \in DOMAIN slots[t],
         NEW ev \in FdEvent, slots' = [slots EXCEPT ![t] = [slots[t] EXCEPT ![i] = ev]]
  PROVE  /\ slots' \in [Threads -> Seq(FdEvent)]
         /\ \A u \in Threads : u # t => slots'[u] = slots[u]
         /\ DOMAIN slots'[t] = DOMAIN slots[t]
         /\ slots'[t][i] = ev
         /\ \A j \in DOMAIN slots[t] : j # i => slots'[t][j] = slots[t][j]
<1>1. slots[t] \in Seq(FdEvent) /\ i \in 1..Len(slots[t])
  OBVIOUS
<1> DEFINE s == [slots[t] EXCEPT ![i] = ev]
<1>2. /\ s \in Seq(FdEvent) /\ DOMAIN s = DOMAIN slots[t] /\ s[i] = ev
      /\ \A j \in DOMAIN slots[t] : j # i => s[j] = slots[t][j]
  BY <1>1
<1>3. slots' = [slots EXCEPT ![t] = s]
  OBVIOUS
<1> HIDE DEF s
<1> QED BY <1>2, <1>3

(* An event with its owner set or taken. *)
LEMMA OwnsSet ==
  ASSUME NEW ev \in FdEvent, NEW b \in BOOLEAN
  PROVE  LET new == [ev EXCEPT !.owns = b]
         IN /\ new \in FdEvent
            /\ new.owns <=> b
            /\ new.ev = ev.ev
            /\ new.fd_field = ev.fd_field
            /\ new.replied <=> ev.replied
BY DEF FdEvent

(* An event whose answer was sent. *)
LEMMA RepliedSet ==
  ASSUME NEW ev \in FdEvent
  PROVE  LET new == [ev EXCEPT !.replied = TRUE]
         IN /\ new \in FdEvent
            /\ new.replied
            /\ new.ev = ev.ev
            /\ new.fd_field = ev.fd_field
            /\ new.owns <=> ev.owns
BY DEF FdEvent

(* One event gives up its descriptor, or is marked as answered. *)
Disown(t, i) == slots' = [slots EXCEPT ![t][i].owns = FALSE]
Reply(t, i) == slots' = [slots EXCEPT ![t][i].replied = TRUE]

(* An event gives up its descriptor. *)
LEMMA Disowns ==
  ASSUME slots \in [Threads -> Seq(FdEvent)], NEW t \in Threads, NEW i \in DOMAIN slots[t],
         Disown(t, i)
  PROVE  /\ slots' \in [Threads -> Seq(FdEvent)]
         /\ \A u \in Threads : u # t => slots'[u] = slots[u]
         /\ DOMAIN slots'[t] = DOMAIN slots[t]
         /\ ~slots'[t][i].owns
         /\ \A j \in DOMAIN slots[t] : j # i => slots'[t][j] = slots[t][j]
         /\ OwningSlots(t)' = OwningSlots(t) \ {i}
<1> DEFINE ev == slots[t][i]
           new == [ev EXCEPT !.owns = FALSE]
<1>1. ev \in FdEvent
  <2>1. slots[t] \in Seq(FdEvent)
    OBVIOUS
  <2> QED BY <2>1
<1>2. slots' = [slots EXCEPT ![t] = [slots[t] EXCEPT ![i] = new]]
  BY DEF Disown
<1>3. new \in FdEvent /\ ~new.owns
  <2> HIDE DEF ev
  <2> QED BY <1>1, OwnsSet
<1> HIDE DEF ev, new
<1>4. /\ slots' \in [Threads -> Seq(FdEvent)]
      /\ \A u \in Threads : u # t => slots'[u] = slots[u]
      /\ DOMAIN slots'[t] = DOMAIN slots[t]
      /\ slots'[t][i] = new
      /\ \A j \in DOMAIN slots[t] : j # i => slots'[t][j] = slots[t][j]
  BY <1>2, <1>3, SlotSet
<1>5. OwningSlots(t)' = OwningSlots(t) \ {i}
  BY <1>3, <1>4 DEF OwningSlots
<1> QED BY <1>3, <1>4, <1>5

(* An event is answered. *)
LEMMA Replies ==
  ASSUME slots \in [Threads -> Seq(FdEvent)], NEW t \in Threads, NEW i \in DOMAIN slots[t],
         Reply(t, i)
  PROVE  /\ slots' \in [Threads -> Seq(FdEvent)]
         /\ \A u \in Threads : u # t => slots'[u] = slots[u]
         /\ DOMAIN slots'[t] = DOMAIN slots[t]
         /\ slots'[t][i].ev = slots[t][i].ev
         /\ slots'[t][i].fd_field = slots[t][i].fd_field
         /\ slots'[t][i].owns <=> slots[t][i].owns
         /\ slots'[t][i].replied
         /\ \A j \in DOMAIN slots[t] : j # i => slots'[t][j] = slots[t][j]
         /\ OwningSlots(t)' = OwningSlots(t)
<1> DEFINE ev == slots[t][i]
           new == [ev EXCEPT !.replied = TRUE]
<1>1. ev \in FdEvent
  <2>1. slots[t] \in Seq(FdEvent)
    OBVIOUS
  <2> QED BY <2>1
<1>2. slots' = [slots EXCEPT ![t] = [slots[t] EXCEPT ![i] = new]]
  BY DEF Reply
<1>3. /\ new \in FdEvent /\ new.ev = ev.ev /\ new.fd_field = ev.fd_field
      /\ new.owns <=> ev.owns
      /\ new.replied
  <2> HIDE DEF ev
  <2> QED BY <1>1, RepliedSet
<1> HIDE DEF new
<1>4. /\ slots' \in [Threads -> Seq(FdEvent)]
      /\ \A u \in Threads : u # t => slots'[u] = slots[u]
      /\ DOMAIN slots'[t] = DOMAIN slots[t]
      /\ slots'[t][i] = new
      /\ \A j \in DOMAIN slots[t] : j # i => slots'[t][j] = slots[t][j]
  <2> HIDE DEF ev
  <2> QED BY <1>2, <1>3, SlotSet
<1>5. OwningSlots(t)' = OwningSlots(t)
  BY <1>3, <1>4 DEF OwningSlots
<1> QED BY <1>3, <1>4, <1>5

(* A thread that does not step keeps its part of the invariant as long as  *)
(* the numbers it is responsible for stay what they are open on.           *)
LEMMA ThreadKept ==
  ASSUME NEW t \in Threads, ThreadInv(t),
         pc'[t] = pc[t], bytes'[t] = bytes[t], slots'[t] = slots[t], at'[t] = at[t],
         adopted'[t] = adopted[t], inflight'[t] = inflight[t], result'[t] = result[t],
         \A n \in Mine(t) : table'[n] = table[n]
  PROVE  ThreadInv(t)' /\ Mine(t)' = Mine(t)
<1>1. OwningSlots(t)' = OwningSlots(t)
  BY DEF OwningSlots
<1>2. Owned(t)' = Owned(t) /\ Mine(t)' = Mine(t)
  BY <1>1 DEF Owned, Mine
<1>3. OwnedInv(t)'
  <2>1. \A i \in OwningSlots(t) : slots[t][i].fd_field \in Mine(t)
    BY DEF Owned, Mine
  <2>2. \A n \in inflight[t] : n \in Mine(t)
    BY DEF Mine
  <2>3. OwnedInv(t)
    BY DEF ThreadInv
  <2> QED BY <1>1, <2>1, <2>2, <2>3 DEF OwnedInv, Foreign
<1>4. BatchInv(t) => BatchInv(t)'
  BY DEF BatchInv
<1>5. SlotsInv(t) => SlotsInv(t)'
  BY DEF SlotsInv
<1>6. /\ ToAdopt(t, 1) => ToAdopt(t, 1)'
      /\ ToAdopt(t, at[t]) => ToAdopt(t, at[t])'
  BY DEF ToAdopt, Mine
<1>7. PhaseInv(t)'
  BY <1>4, <1>5, <1>6 DEF ThreadInv, PhaseInv
<1> QED BY <1>2, <1>3, <1>7 DEF ThreadInv

(* A slot of a batch. *)
LEMMA SlotType ==
  ASSUME TypeOK, NEW t \in Threads, NEW i \in DOMAIN slots[t]
  PROVE  slots[t][i] \in FdEvent
<1>1. slots[t] \in Seq(FdEvent)
  BY DEF TypeOK
<1> QED BY <1>1

(* A number somebody has is open on an object of this group. *)
LEMMA MineNotForeign ==
  ASSUME FdInv
  PROVE  /\ \A t \in Threads : \A n \in Mine(t) : ~Foreign(n)
         /\ \A h \in held : ~Foreign(h.fd)
<1>1. ASSUME NEW t \in Threads, NEW n \in Mine(t)
      PROVE  ~Foreign(n)
  <2>1. ThreadInv(t)
    BY DEF FdInv
  <2>2. CASE n \in inflight[t]
    BY <2>1, <2>2 DEF ThreadInv, OwnedInv
  <2>3. CASE n \in Owned(t)
    <3>1. PICK i \in OwningSlots(t) : slots[t][i].fd_field = n
      BY <2>3 DEF Owned
    <3>2. slots[t][i].ev \in Events
      BY SlotType DEF FdInv, FdEvent, OwningSlots
    <3> QED BY <2>1, <3>1, <3>2, ObjectsNotForeign DEF ThreadInv, OwnedInv, Foreign
  <2> QED BY <2>2, <2>3 DEF Mine
<1>2. \A h \in held : ~Foreign(h.fd)
  BY ObjectsNotForeign DEF FdInv, TypeOK, OwnedFd, HeldInv, Foreign
<1> QED BY <1>1, <1>2

(* The other threads, when one steps. *)
OthersStay(t) ==
  \A u \in Threads \ {t} :
    /\ pc'[u] = pc[u] /\ bytes'[u] = bytes[u] /\ slots'[u] = slots[u] /\ at'[u] = at[u]
    /\ adopted'[u] = adopted[u] /\ inflight'[u] = inflight[u] /\ result'[u] = result[u]

(* A step of one thread that takes only numbers that were closed.          *)
LEMMA ThreadSteps ==
  ASSUME FdInv, NEW t \in Threads, TypeOK', Bounded', OthersStay(t), ThreadInv(t)', held' = held,
         \A u \in Threads \ {t} : \A n \in Mine(u) : table'[n] = table[n],
         \A h \in held : table'[h.fd] = table[h.fd],
         \A n \in Mine(t)' : n \in Mine(t) \/ table[n] = Closed
  PROVE  FdInv'
<1>1. ASSUME NEW u \in Threads \ {t}
      PROVE  ThreadInv(u)' /\ Mine(u)' = Mine(u)
  <2>1. ThreadInv(u)
    BY DEF FdInv
  <2> QED BY <2>1, ThreadKept DEF OthersStay
<1>2. ASSUME NEW u \in Threads, NEW n \in Mine(u)
      PROVE  table[n] # Closed
  BY MineNotForeign DEF Foreign
<1>3. \A h \in held : table[h.fd] # Closed
  BY MineNotForeign DEF Foreign
<1>4. ApartInv'
  BY <1>1, <1>2 DEF FdInv, ApartInv
<1>5. HeldInv'
  <2>1. \A h \in held' : table'[h.fd] = h.ev
    BY DEF FdInv, HeldInv
  <2>2. \A g, h \in held' : g.fd = h.fd => g = h
    BY DEF FdInv, HeldInv
  <2>3. ASSUME NEW u \in Threads, NEW h \in held'
        PROVE  h.fd \notin Mine(u)'
    <3>1. CASE u = t
      BY <1>3, <3>1 DEF FdInv, HeldInv
    <3>2. CASE u # t
      BY <1>1, <3>2 DEF FdInv, HeldInv
    <3> QED BY <3>1, <3>2
  <2> QED BY <2>1, <2>2, <2>3 DEF HeldInv
<1> QED BY <1>1, <1>4, <1>5 DEF FdInv

(* A step of nobody's thread that leaves alone what the threads have.      *)
LEMMA WorldSteps ==
  ASSUME FdInv, TypeOK', UNCHANGED thread,
         \A t \in Threads : \A n \in Mine(t) : table'[n] = table[n],
         \A h \in held' : table'[h.fd] = h.ev,
         \A g, h \in held' : g.fd = h.fd => g = h,
         \A t \in Threads, h \in held' : h.fd \notin Mine(t)
  PROVE  FdInv'
<1>1. ASSUME NEW t \in Threads
      PROVE  ThreadInv(t)' /\ Mine(t)' = Mine(t)
  <2>1. ThreadInv(t)
    BY DEF FdInv
  <2> QED BY <2>1, ThreadKept DEF thread
<1>2. Bounded' /\ ApartInv' /\ HeldInv'
  BY <1>1 DEF FdInv, Bounded, ApartInv, HeldInv, thread
<1> QED BY <1>1, <1>2 DEF FdInv

-----------------------------------------------------------------------------
(***************************************************************************)
(* The steps keep the invariant.                                           *)
(***************************************************************************)
(* Nobody is responsible for anything before the first read. *)
LEMMA FdInit == Init => FdInv
<1> SUFFICES ASSUME Init PROVE FdInv
  OBVIOUS
<1>1. TypeOK /\ Bounded
  BY DEF Init, TypeOK, Bounded
<1>2. ASSUME NEW t \in Threads
      PROVE  ThreadInv(t) /\ Mine(t) = {}
  <2>1. pc[t] = "idle" /\ result[t] = "none" /\ slots[t] = <<>> /\ inflight[t] = {}
    BY DEF Init
  <2>2. OwningSlots(t) = {} /\ Owned(t) = {}
    BY <2>1 DEF OwningSlots, Owned
  <2> QED BY <2>1, <2>2 DEF ThreadInv, OwnedInv, PhaseInv, Mine
<1>3. HeldInv /\ ApartInv
  BY <1>2 DEF Init, HeldInv, ApartInv
<1> QED BY <1>1, <1>2, <1>3 DEF FdInv

(* The rest of the world touches only what nobody here has. *)
LEMMA WorldKeeps ==
  ASSUME FdInv,
         \/ \E e \in Events : Raise(e)
         \/ \E n \in Fds : OpenElsewhere(n) \/ CloseElsewhere(n)
  PROVE  FdInv'
<1>1. UNCHANGED thread /\ held' = held
  BY DEF Raise, OpenElsewhere, CloseElsewhere
<1>2. \A n \in Fds : ~Foreign(n) => table'[n] = table[n]
  BY DEF FdInv, TypeOK, Foreign, Raise, OpenElsewhere, CloseElsewhere
<1>3. Elsewhere \in Objects
  BY DEF Objects
<1>4. TypeOK'
  <2>1. table' \in [Fds -> Objects \cup {Closed}]
    BY <1>3 DEF FdInv, TypeOK, Raise, OpenElsewhere, CloseElsewhere
  <2>2. queue' \in Seq(Events) /\ raised' \in SUBSET Events
    <3>1. ASSUME NEW e \in Events, Raise(e)
          PROVE  queue' \in Seq(Events) /\ raised' \in SUBSET Events
      BY <3>1 DEF FdInv, TypeOK, Raise
    <3>2. ASSUME NEW n \in Fds, OpenElsewhere(n) \/ CloseElsewhere(n)
          PROVE  queue' = queue /\ raised' = raised
      BY <3>2 DEF OpenElsewhere, CloseElsewhere
    <3> QED BY <3>1, <3>2 DEF FdInv, TypeOK
  <2>3. UNCHANGED <<pending, answers>>
    BY DEF Raise, OpenElsewhere, CloseElsewhere
  <2> QED BY <1>1, <2>1, <2>2, <2>3 DEF FdInv, TypeOK, thread
<1>5. \A t \in Threads : \A n \in Mine(t) : n \in Fds /\ table'[n] = table[n]
  <2> SUFFICES ASSUME NEW t \in Threads, NEW n \in Mine(t) PROVE n \in Fds
    BY <1>2, MineNotForeign
  <2>1. OwnedInv(t)
    BY DEF FdInv, ThreadInv
  <2> QED BY <2>1 DEF FdInv, TypeOK, Mine, Owned, OwnedInv
<1>6. \A h \in held : table'[h.fd] = h.ev
  BY <1>2, MineNotForeign DEF FdInv, TypeOK, OwnedFd, HeldInv
<1>7. /\ \A g, h \in held : g.fd = h.fd => g = h
      /\ \A t \in Threads, h \in held : h.fd \notin Mine(t)
  BY DEF FdInv, HeldInv
<1> QED BY <1>1, <1>4, <1>5, <1>6, <1>7, WorldSteps

(* A step of a thread that leaves the table and its own numbers alone, but *)
(* may forget slots.                                                       *)
LEMMA QuietStep ==
  ASSUME FdInv, NEW t \in Threads, TypeOK', Bounded', OthersStay(t), held' = held, table' = table,
         inflight'[t] = inflight[t], slots'[t] = slots[t] \/ slots'[t] = <<>>, PhaseInv(t)'
  PROVE  FdInv'
<1>1. OwningSlots(t)' \subseteq OwningSlots(t)
      /\ \A i \in OwningSlots(t)' : slots'[t][i] = slots[t][i]
  BY DEF OwningSlots
<1>2. OwnedInv(t)
  BY DEF FdInv, ThreadInv
<1>3. OwnedInv(t)'
  BY <1>1, <1>2 DEF OwnedInv, Foreign
<1>4. \A n \in Mine(t)' : n \in Mine(t)
  BY <1>1 DEF Mine, Owned
<1> QED BY <1>3, <1>4, ThreadSteps DEF ThreadInv

(* A read begins. *)
LEMMA BeginReadKeeps ==
  ASSUME FdInv, NEW t \in Threads, BeginRead(t)
  PROVE  FdInv'
<1>1. <<>> \in Seq(Header)
  OBVIOUS
<1>2. TypeOK' /\ Bounded' /\ OthersStay(t)
  BY <1>1 DEF FdInv, TypeOK, Bounded, OthersStay, BeginRead, kernel
<1>3. pc'[t] = "clear" /\ at'[t] = 1
  BY DEF FdInv, TypeOK, BeginRead
<1>4. PhaseInv(t)'
  <2>1. \A i \in DOMAIN slots'[t] : ~(i < 1)
    BY DEF FdInv, TypeOK, BeginRead
  <2> QED BY <1>3, <2>1 DEF PhaseInv
<1> QED BY <1>2, <1>4, QuietStep DEF BeginRead, kernel

(* The last slot was dropped. *)
LEMMA EndClearKeeps ==
  ASSUME FdInv, NEW t \in Threads, EndClear(t)
  PROVE  FdInv'
<1>1. <<>> \in Seq(FdEvent)
  OBVIOUS
<1>2. TypeOK' /\ Bounded' /\ OthersStay(t)
  BY <1>1 DEF FdInv, TypeOK, Bounded, OthersStay, EndClear, kernel
<1>3. pc'[t] = "read" /\ slots'[t] = <<>>
  BY DEF FdInv, TypeOK, EndClear
<1>4. PhaseInv(t)'
  BY <1>3 DEF PhaseInv
<1> QED BY <1>2, <1>3, <1>4, QuietStep DEF EndClear, kernel

(* read(2) fails, with nothing in the buffer and in the batch. *)
LEMMA ReadFailsKeeps ==
  ASSUME FdInv, NEW t \in Threads, NEW errno \in {"EAGAIN", "errno"}, ReadFails(t, errno)
  PROVE  FdInv'
<1>1. <<>> \in Seq(Header)
  OBVIOUS
<1>2. TypeOK' /\ Bounded' /\ OthersStay(t)
  BY <1>1 DEF FdInv, TypeOK, Bounded, OthersStay, ReadFails, kernel
<1>3. pc'[t] \in {"wait", "idle"} /\ slots'[t] = <<>> /\ bytes'[t] = <<>>
  BY DEF FdInv, TypeOK, ThreadInv, PhaseInv, ReadFails
<1>4. PhaseInv(t)'
  BY <1>3 DEF PhaseInv
<1> QED BY <1>2, <1>4, QuietStep DEF ReadFails, kernel

(* A wait ended: the group became readable, or poll failed. *)
LEMMA EndWaitKeeps ==
  ASSUME FdInv, NEW t \in Threads, EndWait(t)
  PROVE  FdInv'
<1>2. TypeOK' /\ Bounded' /\ OthersStay(t)
  BY DEF FdInv, TypeOK, Bounded, OthersStay, EndWait, kernel
<1>3. pc'[t] = "idle" /\ slots'[t] = <<>> /\ bytes'[t] = <<>>
  BY DEF FdInv, TypeOK, ThreadInv, PhaseInv, EndWait
<1>4. PhaseInv(t)'
  BY <1>3 DEF PhaseInv
<1> QED BY <1>2, <1>4, QuietStep DEF EndWait, kernel

(* A batch was adopted to its end. *)
LEMMA EndReadKeeps ==
  ASSUME FdInv, NEW t \in Threads, EndRead(t)
  PROVE  FdInv'
<1>2. TypeOK' /\ Bounded' /\ OthersStay(t)
  BY DEF FdInv, TypeOK, Bounded, OthersStay, EndRead, kernel
<1>3. pc'[t] = "idle" /\ result'[t] \in {"ok", "UnknownEventVersion"}
  BY DEF FdInv, TypeOK, EndRead
<1>4. PhaseInv(t)'
  BY <1>3 DEF PhaseInv
<1> QED BY <1>2, <1>4, QuietStep DEF EndRead, kernel

(* One event is dropped, and its number closed if it owned one. *)
LEMMA DropSlotKeeps ==
  ASSUME FdInv, NEW t \in Threads, DropSlot(t)
  PROVE  FdInv'
<1> DEFINE i == at[t]
           ev == slots[t][i]
<1>1. i \in DOMAIN slots[t] /\ pc[t] = "clear" /\ pc'[t] = "clear" /\ at'[t] = i + 1 /\ i \in Nat
  BY DEF FdInv, TypeOK, Bounded, DropSlot
<1>2. ev \in FdEvent
  BY <1>1, SlotType DEF FdInv
<1>5. /\ slots' \in [Threads -> Seq(FdEvent)]
      /\ \A u \in Threads : u # t => slots'[u] = slots[u]
      /\ DOMAIN slots'[t] = DOMAIN slots[t]
      /\ ~slots'[t][i].owns
      /\ \A j \in DOMAIN slots[t] : j # i => slots'[t][j] = slots[t][j]
      /\ OwningSlots(t)' = OwningSlots(t) \ {i}
  <2>1. Disown(t, i)
    BY DEF DropSlot, Disown
  <2> QED BY <1>1, <2>1, Disowns DEF FdInv, TypeOK
<1> HIDE DEF ev
<1>6. table' = IF ev.owns THEN [table EXCEPT ![ev.fd_field] = Closed] ELSE table
  BY DEF DropSlot, ev
<1>7. UNCHANGED <<queue, raised, pending, answers, pc, bytes, adopted, inflight, stop, result, held>>
  BY DEF DropSlot
<1>8. at' = [at EXCEPT ![t] = i + 1]
  BY DEF DropSlot
<1>9. TypeOK' /\ Bounded' /\ OthersStay(t)
  <2>1. table' \in [Fds -> Objects \cup {Closed}]
    BY <1>6 DEF FdInv, TypeOK
  <2>2. at' \in [Threads -> Nat] /\ \A u \in Threads : at'[u] >= 1 /\ (u # t => at'[u] = at[u])
    BY <1>1, <1>8 DEF FdInv, TypeOK, Bounded
  <2>3. TypeOK'
    BY <1>5, <1>7, <2>1, <2>2 DEF FdInv, TypeOK
  <2> QED BY <1>5, <1>7, <2>2, <2>3 DEF Bounded, OthersStay
<1>10. OwningSlots(t)' = OwningSlots(t) \ {i} /\ \A j \in OwningSlots(t)' : slots'[t][j] = slots[t][j]
  BY <1>5 DEF OwningSlots
<1>11. OwnedInv(t) /\ PhaseInv(t)
  BY DEF FdInv, ThreadInv
<1>12. ev.owns => i \in OwningSlots(t) /\ ev.fd_field \in Owned(t) /\ ev.fd_field \in Fds
  BY <1>1, <1>11 DEF OwningSlots, Owned, OwnedInv, ev
<1>13. \A n \in Fds : ~(ev.owns /\ n = ev.fd_field) => table'[n] = table[n]
  BY <1>6 DEF FdInv, TypeOK
<1>14. OwnedInv(t)'
  <2>1. \A j \in OwningSlots(t)' : /\ slots[t][j].fd_field \in Fds
                                   /\ ~(ev.owns /\ slots[t][j].fd_field = ev.fd_field)
    BY <1>10, <1>11, <1>12 DEF OwnedInv, ev
  <2>2. \A n \in inflight[t] : n \in Fds /\ ~(ev.owns /\ n = ev.fd_field)
    BY <1>11, <1>12 DEF OwnedInv, FdInv, TypeOK, ev
  <2> QED BY <1>7, <1>10, <1>11, <1>13, <2>1, <2>2 DEF OwnedInv, Foreign
<1>15. PhaseInv(t)'
  <2>1. \A j \in DOMAIN slots'[t] : j < i + 1 => ~slots'[t][j].owns
    <3>1. \A j \in DOMAIN slots[t] : j < i => ~slots[t][j].owns
      BY <1>1, <1>11 DEF PhaseInv
    <3>2. DOMAIN slots[t] \subseteq Nat
      BY DEF FdInv, TypeOK
    <3> QED BY <1>1, <1>5, <3>1, <3>2
  <2> QED BY <1>1, <2>1 DEF PhaseInv
<1>16. \A n \in Mine(t)' : n \in Mine(t)
  BY <1>7, <1>10 DEF Mine, Owned
<1>17. ASSUME NEW u \in Threads \ {t}, NEW n \in Mine(u)
       PROVE  table'[n] = table[n]
  <2>1. n \in Fds
    BY DEF FdInv, ThreadInv, OwnedInv, TypeOK, Mine, Owned
  <2>2. n \notin Mine(t)
    BY DEF FdInv, ApartInv
  <2> QED BY <1>12, <1>13, <2>1, <2>2 DEF Mine
<1>18. \A h \in held : table'[h.fd] = table[h.fd]
  BY <1>12, <1>13 DEF FdInv, HeldInv, Mine, TypeOK, OwnedFd
<1> QED BY <1>7, <1>9, <1>14, <1>15, <1>16, <1>17, <1>18, ThreadSteps DEF ThreadInv

(* What a read does to the descriptor table: each installed number was     *)
(* free and is open on the event it was installed for, and no open number  *)
(* is touched.                                                             *)
LEMMA ReadInstalls ==
  ASSUME TypeOK, NEW t \in Threads, NEW k \in 1..BatchMax, NEW f \in [1..k -> Fds \cup {NoFd}],
         NEW pidfds \in SUBSET Fds, ReadBatch(t, k, f, pidfds)
  PROVE  LET batch == SubSeq(queue, 1, k)
             fresh == FreshIn(batch, f)
             new == {f[i] : i \in fresh}
         IN /\ batch \in Seq(Events) /\ Len(batch) = k
            /\ fresh \subseteq 1..k
            /\ table' \in [Fds -> Objects \cup {Closed}]
            /\ \A i \in fresh : f[i] \in Fds /\ table'[f[i]] = batch[i]
            /\ \A n \in new \cup pidfds : n \in Fds /\ table[n] = Closed /\ table'[n] \in Events \cup {Process}
            /\ \A n \in Fds : table[n] # Closed => table'[n] = table[n]
<1> DEFINE batch == SubSeq(queue, 1, k)
           fresh == FreshIn(batch, f)
           new == {f[i] : i \in fresh}
<1>1. batch \in Seq(Events) /\ Len(batch) = k /\ DOMAIN batch = 1..k
  <2>1. k \in Nat /\ k <= Len(queue) /\ queue \in Seq(Events)
    BY BatchMaxAssumption DEF TypeOK, ReadBatch
  <2> QED BY <2>1
<1>2. /\ Installs(batch, f)
      /\ pidfds \cap new = {} /\ \A n \in pidfds : table[n] = Closed
      /\ table' = [n \in Fds |->
           IF n \in new THEN batch[CHOOSE i \in fresh : f[i] = n]
           ELSE IF n \in pidfds THEN Process ELSE table[n]]
  BY DEF ReadBatch
<1> HIDE DEF batch
<1>3. \A i \in fresh : i \in 1..k /\ f[i] \in Fds /\ batch[i] \in Events
  BY <1>1 DEF FreshIn
<1>4. /\ \A i \in fresh : table[f[i]] = Closed
      /\ \A i, j \in fresh : i # j => f[i] # f[j]
  BY <1>2 DEF Installs
<1> HIDE DEF fresh
<1>5. ASSUME NEW i \in fresh
      PROVE  table'[f[i]] = batch[i]
  <2>1. f[i] \in new /\ f[i] \in Fds
    BY <1>3
  <2>2. (CHOOSE j \in fresh : f[j] = f[i]) = i
    BY <1>4
  <2> HIDE DEF new
  <2> QED BY <1>2, <2>1, <2>2
<1>6. \A n \in new : \E i \in fresh : n = f[i]
  OBVIOUS
<1>7. ASSUME NEW n \in new \cup pidfds
      PROVE  n \in Fds /\ table[n] = Closed /\ table'[n] \in Events \cup {Process}
  <2>1. CASE n \in new
    BY <1>3, <1>4, <1>5, <1>6, <2>1
  <2>2. CASE n \notin new
    <3> HIDE DEF new
    <3> QED BY <1>2, <2>2
  <2> QED BY <2>1, <2>2
<1>8. ASSUME NEW n \in Fds, table[n] # Closed
      PROVE  table'[n] = table[n]
  <2>1. n \notin new \cup pidfds
    BY <1>7, <1>8
  <2> HIDE DEF new
  <2> QED BY <1>2, <2>1
<1>9. table' \in [Fds -> Objects \cup {Closed}]
  <2>1. \A n \in Fds : table'[n] \in Objects \cup {Closed}
    <3>1. ASSUME NEW n \in Fds PROVE table'[n] \in Objects \cup {Closed}
      <4>1. CASE n \in new \cup pidfds
        BY <1>7, <4>1 DEF Objects
      <4>2. CASE n \notin new \cup pidfds
        <5> HIDE DEF new
        <5> QED BY <1>2, <4>2 DEF TypeOK
      <4> QED BY <4>1, <4>2
    <3> QED BY <3>1
  <2>2. DOMAIN table' = Fds /\ table' = [n \in Fds |-> table'[n]]
    <3> HIDE DEF new
    <3> QED BY <1>2
  <2> QED BY <2>1, <2>2
<1> QED BY <1>1, <1>3, <1>5, <1>7, <1>8, <1>9 DEF batch, fresh

(* The kernel's batch arrives: new numbers, in the reader's hands only. *)
LEMMA ReadBatchKeeps ==
  ASSUME FdInv, NEW t \in Threads, NEW k \in 1..BatchMax, NEW f \in [1..k -> Fds \cup {NoFd}],
         NEW pidfds \in SUBSET Fds, ReadBatch(t, k, f, pidfds)
  PROVE  FdInv'
<1> DEFINE batch == SubSeq(queue, 1, k)
           fresh == FreshIn(batch, f)
           new == {f[i] : i \in fresh}
           read == [i \in 1..k |-> [ev |-> batch[i], fd |-> f[i]]]
<1>1. /\ batch \in Seq(Events) /\ Len(batch) = k
      /\ fresh \subseteq 1..k
      /\ table' \in [Fds -> Objects \cup {Closed}]
      /\ \A i \in fresh : f[i] \in Fds /\ table'[f[i]] = batch[i]
      /\ \A n \in new \cup pidfds : n \in Fds /\ table[n] = Closed /\ table'[n] \in Events \cup {Process}
      /\ \A n \in Fds : table[n] # Closed => table'[n] = table[n]
  BY ReadInstalls DEF FdInv
<1>2. /\ pc[t] = "read" /\ Installs(batch, f)
      /\ queue' = SubSeq(queue, k + 1, Len(queue))
      /\ pending' = pending \cup
           {[ev |-> batch[i], fd |-> f[i]] : i \in {j \in fresh : batch[j] \in Perm}}
      /\ bytes' = [bytes EXCEPT ![t] = read]
      /\ inflight' = [inflight EXCEPT ![t] = @ \cup new \cup pidfds]
      /\ pc' = [pc EXCEPT ![t] = "parse"]
      /\ UNCHANGED <<raised, answers, slots, at, adopted, stop, result, held>>
  BY DEF ReadBatch
<1>3. k \in Nat /\ DOMAIN batch = 1..k
  BY <1>1, BatchMaxAssumption
<1>4. queue' \in Seq(Events)
  <2>1. k + 1 \in 1..(Len(queue) + 1) /\ queue \in Seq(Events)
    BY <1>3 DEF FdInv, TypeOK, ReadBatch
  <2> QED BY <1>2, <2>1
<1> HIDE DEF batch
<1>5. pending' \in SUBSET OwnedFd
  <2>1. \A i \in fresh : [ev |-> batch[i], fd |-> f[i]] \in OwnedFd
    BY <1>1, <1>3 DEF OwnedFd
  <2> HIDE DEF fresh
  <2> QED BY <1>2, <2>1 DEF FdInv, TypeOK
<1>6. /\ read \in Seq(Header) /\ DOMAIN read = 1..k
      /\ \A i \in 1..k : read[i].ev = batch[i] /\ read[i].fd = f[i]
  <2>1. \A i \in 1..k : [ev |-> batch[i], fd |-> f[i]] \in Header
    BY <1>1, <1>3 DEF Header
  <2> QED BY <1>3, <2>1
<1>7. \A i \in 1..k : i \in fresh <=> Fresh(read[i])
  BY <1>3, <1>6 DEF FreshIn, Fresh
<1> HIDE DEF read
<1>8. /\ \A i, j \in fresh : i # j => f[i] # f[j]
      /\ \A i \in 1..k : \/ i \in fresh \/ f[i] = NoFd
                         \/ \E j \in fresh : j < i /\ f[i] = f[j]
  BY <1>2, <1>3 DEF Installs
<1>9. \A i \in fresh : f[i] \in new
  OBVIOUS
<1> HIDE DEF fresh, new
<1>10. /\ pc'[t] = "parse" /\ bytes'[t] = read /\ inflight'[t] = inflight[t] \cup new \cup pidfds
       /\ slots'[t] = slots[t] /\ slots[t] = <<>>
       /\ inflight' \in [Threads -> SUBSET Fds] /\ bytes' \in [Threads -> Seq(Header)]
       /\ pc' \in [Threads -> {"idle", "wait", "clear", "read", "parse", "adopt"}]
       /\ OthersStay(t)
  <2>1. slots[t] = <<>>
    BY <1>2 DEF FdInv, ThreadInv, PhaseInv
  <2>2. new \in SUBSET Fds
    BY <1>1
  <2> QED BY <1>2, <1>6, <2>1, <2>2 DEF FdInv, TypeOK, OthersStay
<1>11. TypeOK' /\ Bounded'
  BY <1>1, <1>2, <1>4, <1>5, <1>10 DEF FdInv, TypeOK, Bounded
<1>12. Owned(t) = {} /\ OwningSlots(t)' = {} /\ Mine(t)' = inflight[t] \cup new \cup pidfds
  BY <1>10 DEF Owned, OwningSlots, Mine
<1>13. ASSUME NEW u \in Threads, NEW n \in Mine(u)
       PROVE  table'[n] = table[n]
  <2>1. n \in Fds
    BY DEF FdInv, ThreadInv, OwnedInv, TypeOK, Mine, Owned
  <2> QED BY <1>1, <2>1, MineNotForeign DEF Foreign
<1>14. \A h \in held : table'[h.fd] = table[h.fd]
  BY <1>1, MineNotForeign DEF Foreign, FdInv, TypeOK, OwnedFd
<1>15. OwnedInv(t)'
  <2>1. \A n \in inflight[t] : ~Foreign(n) /\ table'[n] = table[n]
    BY <1>13, MineNotForeign DEF Mine
  <2>2. \A n \in inflight'[t] : ~Foreign(n)'
    BY <1>1, <1>10, <2>1, ObjectsNotForeign DEF Foreign
  <2> QED BY <1>12, <2>2 DEF OwnedInv
<1>16. BatchInv(t)'
  <2>1. \A i, j \in 1..k : Fresh(read[i]) /\ Fresh(read[j]) /\ read[i].fd = read[j].fd => i = j
    BY <1>6, <1>7, <1>8
  <2>2. \A i \in 1..k : \/ Fresh(read[i])
                        \/ read[i].fd = NoFd
                        \/ \E j \in 1..k : j < i /\ Fresh(read[j]) /\ read[j].fd = read[i].fd
    BY <1>1, <1>6, <1>7, <1>8
  <2> QED BY <1>6, <1>10, <2>1, <2>2 DEF BatchInv
<1>17. ToAdopt(t, 1)'
  BY <1>1, <1>6, <1>7, <1>9, <1>10 DEF ToAdopt
<1>18. PhaseInv(t)'
  BY <1>10, <1>16, <1>17 DEF PhaseInv
<1>19. \A n \in Mine(t)' : n \in Mine(t) \/ table[n] = Closed
  BY <1>1, <1>12 DEF Mine
<1> QED BY <1>2, <1>10, <1>11, <1>13, <1>14, <1>15, <1>18, <1>19, ThreadSteps DEF ThreadInv

(* The buffer is parsed: nothing owned yet, nothing adopted. *)
LEMMA ParseKeeps ==
  ASSUME FdInv, NEW t \in Threads, NEW known \in BOOLEAN, Parse(t, known)
  PROVE  FdInv'
<1> DEFINE new == [i \in 1..Len(bytes[t]) |-> Unadopted(bytes[t][i])]
<1>1. /\ pc[t] = "parse" /\ slots' = [slots EXCEPT ![t] = IF known THEN new ELSE <<>>]
      /\ stop' = [stop EXCEPT ![t] = IF known THEN "End" ELSE "UnknownVersion"]
      /\ adopted' = [adopted EXCEPT ![t] = {}]
      /\ at' = [at EXCEPT ![t] = 1]
      /\ pc' = [pc EXCEPT ![t] = "adopt"]
      /\ UNCHANGED <<kernel, bytes, inflight, result, held>>
  BY DEF Parse
<1>2. bytes[t] \in Seq(Header)
  BY DEF FdInv, TypeOK
<1>3. /\ new \in Seq(FdEvent) /\ DOMAIN new = DOMAIN bytes[t]
      /\ \A i \in DOMAIN new : /\ new[i].ev = bytes[t][i].ev
                               /\ new[i].fd_field = bytes[t][i].fd
                               /\ ~new[i].owns /\ ~new[i].replied
  <2>1. \A h \in Header : /\ Unadopted(h) \in FdEvent
                          /\ Unadopted(h).ev = h.ev /\ Unadopted(h).fd_field = h.fd
                          /\ ~Unadopted(h).owns /\ ~Unadopted(h).replied
    BY DEF Header, FdEvent, Unadopted
  <2>2. \A i \in 1..Len(bytes[t]) : bytes[t][i] \in Header
    BY <1>2
  <2>3. Len(bytes[t]) \in Nat /\ DOMAIN bytes[t] = 1..Len(bytes[t])
    BY <1>2
  <2> QED BY <2>1, <2>2, <2>3
<1> HIDE DEF new
<1>4. /\ slots'[t] = (IF known THEN new ELSE <<>>) /\ slots' \in [Threads -> Seq(FdEvent)]
      /\ \A u \in Threads \ {t} : slots'[u] = slots[u]
  BY <1>1, <1>3 DEF FdInv, TypeOK
<1>5. /\ pc'[t] = "adopt" /\ at'[t] = 1 /\ adopted'[t] = {} /\ bytes' = bytes /\ inflight' = inflight
      /\ table' = table /\ held' = held /\ OthersStay(t) /\ Bounded'
  BY <1>1, <1>4 DEF FdInv, TypeOK, Bounded, OthersStay, kernel
<1>6. TypeOK'
  BY <1>1, <1>4 DEF FdInv, TypeOK, kernel
<1>7. OwningSlots(t)' = {}
  BY <1>3, <1>4 DEF OwningSlots
<1>8. OwnedInv(t)'
  BY <1>5, <1>7 DEF FdInv, ThreadInv, OwnedInv, Foreign
<1>9. BatchInv(t) /\ ToAdopt(t, 1)
  BY <1>1 DEF FdInv, ThreadInv, PhaseInv
<1>10. BatchInv(t)' /\ ToAdopt(t, at[t])'
  BY <1>5, <1>9 DEF BatchInv, ToAdopt
<1>11. known => SlotsInv(t)'
  <2>1. {j \in DOMAIN bytes[t] : j < 1 /\ Fresh(bytes[t][j])} = {}
    BY <1>2
  <2> QED BY <1>3, <1>4, <1>5, <2>1 DEF SlotsInv
<1>12. PhaseInv(t)'
  BY <1>4, <1>5, <1>10, <1>11 DEF PhaseInv
<1>13. Mine(t)' \subseteq Mine(t)
  BY <1>5, <1>7 DEF Mine, Owned
<1> QED BY <1>5, <1>6, <1>8, <1>12, <1>13, ThreadSteps DEF ThreadInv

(* The number at slot `at` is adopted exactly when it was installed for    *)
(* that slot's event: a repeat was adopted before.                         *)
LEMMA AdoptsTheFresh ==
  ASSUME FdInv, NEW t \in Threads, pc[t] = "adopt", at[t] <= Len(slots[t])
  PROVE  LET i == at[t]
         IN /\ BatchInv(t) /\ SlotsInv(t) /\ ToAdopt(t, i)
            /\ i \in DOMAIN slots[t] /\ i \in DOMAIN bytes[t] /\ i \in Nat
            /\ slots[t][i] \in FdEvent /\ ~slots[t][i].owns /\ ~slots[t][i].replied
            /\ Adoptable(t, slots[t][i]) <=> Fresh(bytes[t][i])
<1> DEFINE i == at[t]
<1>1. slots[t] \in Seq(FdEvent) /\ bytes[t] \in Seq(Header) /\ i \in Nat /\ i >= 1
  BY DEF FdInv, TypeOK, Bounded
<1>2. i \in DOMAIN slots[t] /\ slots[t] # <<>> /\ slots[t][i] \in FdEvent
  BY <1>1
<1>3. BatchInv(t) /\ SlotsInv(t) /\ ToAdopt(t, i)
  BY <1>2 DEF FdInv, ThreadInv, PhaseInv
<1>4. /\ i \in DOMAIN bytes[t] /\ slots[t][i].fd_field = bytes[t][i].fd
      /\ ~slots[t][i].owns /\ ~slots[t][i].replied
  BY <1>1, <1>2, <1>3 DEF SlotsInv
<1>5. adopted[t] = {bytes[t][j].fd : j \in {m \in DOMAIN bytes[t] : m < i /\ Fresh(bytes[t][m])}}
  BY <1>3 DEF SlotsInv
<1>6. DOMAIN bytes[t] \subseteq Nat
  BY <1>1
<1>7. CASE Fresh(bytes[t][i])
  <2>1. bytes[t][i].fd \notin adopted[t]
    <3>1. ASSUME NEW j \in DOMAIN bytes[t], j < i, Fresh(bytes[t][j]), bytes[t][j].fd = bytes[t][i].fd
          PROVE  FALSE
      <4>1. j = i
        BY <1>3, <1>4, <1>7, <3>1 DEF BatchInv
      <4> QED BY <1>1, <3>1, <4>1
    <3> QED BY <1>5, <3>1
  <2> QED BY <1>2, <1>3, <1>4, <1>7, <2>1, <1>1 DEF Adoptable, Fresh
<1>8. CASE ~Fresh(bytes[t][i])
  <2>1. bytes[t][i].fd = NoFd \/ bytes[t][i].fd \in adopted[t]
    BY <1>3, <1>4, <1>5, <1>8 DEF BatchInv
  <2> QED BY <1>1, <1>2, <1>3, <1>4, <1>8, <2>1 DEF Adoptable
<1> QED BY <1>7, <1>8

(* The list of adopted numbers after slot i. *)
LEMMA AdoptedGrows ==
  ASSUME NEW s \in Seq(Header), NEW i \in DOMAIN s
  PROVE  LET Done(n) == {s[j].fd : j \in {m \in DOMAIN s : m < n /\ Fresh(s[m])}}
         IN Done(i + 1) = IF Fresh(s[i]) THEN Done(i) \cup {s[i].fd} ELSE Done(i)
<1>1. \A m \in DOMAIN s : m < i + 1 <=> m < i \/ m = i
  OBVIOUS
<1>2. CASE Fresh(s[i])
  <2>1. {m \in DOMAIN s : m < i + 1 /\ Fresh(s[m])} = {m \in DOMAIN s : m < i /\ Fresh(s[m])} \cup {i}
    BY <1>1, <1>2
  <2> QED BY <1>2, <2>1
<1>3. CASE ~Fresh(s[i])
  <2>1. {m \in DOMAIN s : m < i + 1 /\ Fresh(s[m])} = {m \in DOMAIN s : m < i /\ Fresh(s[m])}
    BY <1>1, <1>3
  <2> QED BY <1>3, <2>1
<1> QED BY <1>2, <1>3

(* A number passes from inflight to its slot. *)
LEMMA AdoptKeeps ==
  ASSUME FdInv, NEW t \in Threads, Adopt(t)
  PROVE  FdInv' /\ Mine(t)' = Mine(t)
<1> DEFINE i == at[t]
           ev == slots[t][i]
           new == [ev EXCEPT !.owns = TRUE]
           n == ev.fd_field
<1>1. pc[t] = "adopt" /\ at[t] <= Len(slots[t])
  BY DEF Adopt
<1>2. /\ BatchInv(t) /\ SlotsInv(t) /\ ToAdopt(t, i)
      /\ i \in DOMAIN slots[t] /\ i \in DOMAIN bytes[t] /\ i \in Nat
      /\ ev \in FdEvent /\ ~ev.owns /\ ~ev.replied
      /\ Adoptable(t, ev) <=> Fresh(bytes[t][i])
  BY <1>1, AdoptsTheFresh
<1>3. /\ at' = [at EXCEPT ![t] = i + 1]
      /\ UNCHANGED <<kernel, pc, bytes, stop, result, held>>
      /\ Fresh(bytes[t][i]) =>
           /\ slots' = [slots EXCEPT ![t] = [slots[t] EXCEPT ![i] = new]]
           /\ adopted' = [adopted EXCEPT ![t] = @ \cup {n}]
           /\ inflight' = [inflight EXCEPT ![t] = @ \ {n}]
      /\ ~Fresh(bytes[t][i]) => UNCHANGED <<slots, adopted, inflight>>
  BY <1>2 DEF Adopt
<1>4. /\ new \in FdEvent /\ new.owns /\ ~new.replied
      /\ new.ev = ev.ev /\ new.fd_field = ev.fd_field
  <2> HIDE DEF ev
  <2> QED BY <1>2, OwnsSet
<1>5. /\ n = bytes[t][i].fd /\ ev.ev = bytes[t][i].ev
      /\ \A j \in DOMAIN slots[t] : /\ slots[t][j].ev = bytes[t][j].ev
                                    /\ slots[t][j].fd_field = bytes[t][j].fd
                                    /\ j >= i => ~slots[t][j].owns /\ ~slots[t][j].replied
      /\ adopted[t] = {bytes[t][j].fd : j \in {m \in DOMAIN bytes[t] : m < i /\ Fresh(bytes[t][m])}}
      /\ DOMAIN slots[t] = DOMAIN bytes[t]
  BY <1>2 DEF SlotsInv
<1>6. /\ slots[t] \in Seq(FdEvent) /\ bytes[t] \in Seq(Header) /\ DOMAIN bytes[t] \subseteq Nat
      /\ slots[t] # <<>>
  BY <1>1, <1>2 DEF FdInv, TypeOK, Bounded
<1>7. OwnedInv(t) /\ TypeOK /\ Bounded
  BY DEF FdInv, ThreadInv
<1>8. /\ at' \in [Threads -> Nat] /\ at'[t] = i + 1
      /\ \A u \in Threads : at'[u] >= 1 /\ (u # t => at'[u] = at[u])
  BY <1>2, <1>3, <1>7 DEF TypeOK, Bounded
<1>9. adopted'[t] = {bytes[t][j].fd : j \in {m \in DOMAIN bytes[t] : m < i + 1 /\ Fresh(bytes[t][m])}}
  <2>1. adopted'[t] = IF Fresh(bytes[t][i]) THEN adopted[t] \cup {n} ELSE adopted[t]
    BY <1>3, <1>7 DEF TypeOK
  <2> QED BY <1>2, <1>5, <1>6, <2>1, AdoptedGrows
<1>10. ToAdopt(t, i + 1)
  BY <1>2, <1>6 DEF ToAdopt
<1> HIDE DEF new, ev
<1>11. CASE ~Fresh(bytes[t][i])
  <2>1. TypeOK' /\ Bounded' /\ OthersStay(t)
    BY <1>3, <1>7, <1>8, <1>11 DEF TypeOK, Bounded, OthersStay, kernel
  <2>2. SlotsInv(t)'
    BY <1>3, <1>5, <1>6, <1>8, <1>9, <1>11, <1>2 DEF SlotsInv
  <2>3. PhaseInv(t)'
    <3>1. BatchInv(t)' /\ ToAdopt(t, at[t])'
      BY <1>2, <1>3, <1>8, <1>10, <1>11 DEF BatchInv, ToAdopt, kernel
    <3> QED BY <1>1, <1>3, <2>2, <3>1 DEF PhaseInv
  <2>4. Mine(t)' = Mine(t)
    BY <1>3, <1>11 DEF Mine, Owned, OwningSlots
  <2> QED BY <1>3, <1>11, <2>1, <2>3, <2>4, QuietStep DEF kernel
<1>12. CASE Fresh(bytes[t][i])
  <2>1. /\ slots' \in [Threads -> Seq(FdEvent)]
        /\ \A u \in Threads : u # t => slots'[u] = slots[u]
        /\ DOMAIN slots'[t] = DOMAIN slots[t]
        /\ slots'[t][i] = new
        /\ \A j \in DOMAIN slots[t] : j # i => slots'[t][j] = slots[t][j]
    <3>1. slots' = [slots EXCEPT ![t] = [slots[t] EXCEPT ![i] = new]]
      BY <1>3, <1>12
    <3> QED BY <1>2, <1>4, <1>7, <3>1, SlotSet DEF TypeOK
  <2>2. n \in inflight[t] /\ n \in Fds /\ table[n] = ev.ev
    BY <1>2, <1>5, <1>7, <1>12 DEF ToAdopt, TypeOK
  <2>3. /\ inflight' \in [Threads -> SUBSET Fds] /\ adopted' \in [Threads -> SUBSET Fds]
        /\ inflight'[t] = inflight[t] \ {n}
        /\ \A u \in Threads \ {t} : inflight'[u] = inflight[u] /\ adopted'[u] = adopted[u]
    <3>1. /\ inflight' = [inflight EXCEPT ![t] = inflight[t] \ {n}]
          /\ adopted' = [adopted EXCEPT ![t] = adopted[t] \cup {n}]
      BY <1>3, <1>12
    <3>2. inflight \in [Threads -> SUBSET Fds] /\ adopted \in [Threads -> SUBSET Fds]
      BY <1>7 DEF TypeOK
    <3>3. inflight[t] \ {n} \in SUBSET Fds /\ adopted[t] \cup {n} \in SUBSET Fds
      BY <2>2, <3>2
    <3> HIDE DEF n
    <3> QED BY <3>1, <3>2, <3>3
  <2>4. TypeOK' /\ Bounded' /\ OthersStay(t)
    <3>1. TypeOK'
      BY <1>3, <1>7, <1>8, <2>1, <2>3 DEF TypeOK, kernel
    <3> QED BY <1>3, <1>8, <2>1, <2>3, <3>1 DEF Bounded, OthersStay
  <2>5. OwningSlots(t)' = OwningSlots(t) \cup {i}
    BY <1>2, <1>4, <2>1 DEF OwningSlots
  <2>6. /\ \A j \in OwningSlots(t) : j # i /\ slots'[t][j] = slots[t][j]
                                     /\ slots[t][j].fd_field # n
    BY <1>2, <1>7, <2>1, <2>2 DEF OwningSlots, OwnedInv, ev
  <2>7. OwnedInv(t)'
    BY <1>3, <1>4, <1>7, <2>1, <2>2, <2>3, <2>5, <2>6 DEF OwnedInv, Foreign, kernel
  <2>8. Owned(t)' = Owned(t) \cup {n} /\ Mine(t)' = Mine(t)
    <3>1. Owned(t)' = Owned(t) \cup {n}
      BY <1>4, <2>1, <2>5, <2>6 DEF Owned
    <3> QED BY <2>2, <2>3, <3>1 DEF Mine
  <2>9. SlotsInv(t)'
    <3>1. bytes' = bytes /\ DOMAIN slots'[t] = DOMAIN bytes[t] /\ at'[t] = i + 1
      BY <1>3, <1>5, <1>8, <2>1
    <3>2. ASSUME NEW j \in DOMAIN slots[t]
          PROVE  /\ slots'[t][j].ev = bytes[t][j].ev
                 /\ slots'[t][j].fd_field = bytes[t][j].fd
                 /\ j >= i + 1 => ~slots'[t][j].owns /\ ~slots'[t][j].replied
      <4>1. CASE j = i
        BY <1>2, <1>4, <1>5, <2>1, <4>1
      <4>2. CASE j # i
        BY <1>2, <1>5, <1>6, <2>1, <4>2
      <4> QED BY <4>1, <4>2
    <3> QED BY <1>5, <1>9, <3>1, <3>2 DEF SlotsInv
  <2>10. ToAdopt(t, at[t])'
    <3>1. \A j \in DOMAIN bytes[t] : j >= i + 1 /\ Fresh(bytes[t][j]) => bytes[t][j].fd # n
      BY <1>2, <1>5, <1>6, <1>12 DEF BatchInv
    <3> QED BY <1>3, <1>8, <1>10, <2>3, <3>1 DEF ToAdopt, kernel
  <2>11. PhaseInv(t)'
    <3>1. BatchInv(t)'
      BY <1>2, <1>3 DEF BatchInv
    <3> QED BY <1>1, <1>3, <2>9, <2>10, <3>1 DEF PhaseInv
  <2> QED BY <1>3, <2>4, <2>7, <2>8, <2>11, ThreadSteps DEF ThreadInv, kernel
<1> QED BY <1>11, <1>12


(* A number somebody is responsible for is a number. *)
LEMMA MineIsFds ==
  ASSUME FdInv, NEW t \in Threads
  PROVE  Mine(t) \subseteq Fds
BY DEF FdInv, ThreadInv, OwnedInv, TypeOK, Mine, Owned

(* An answer is sent: no number changes hands. *)
LEMMA RespondKeeps ==
  ASSUME FdInv, NEW t \in Threads, NEW i \in DOMAIN slots[t], Respond(t, i)
  PROVE  FdInv'
<1> DEFINE ev == slots[t][i]
<1>1. ev \in FdEvent
  BY SlotType DEF FdInv
<1>2. /\ pc[t] = "idle" /\ ev.owns
      /\ Reply(t, i)
      /\ UNCHANGED <<table, queue, raised, pc, bytes, at, adopted, inflight, stop, result, held>>
      /\ \/ \E p \in pending : /\ pending' = pending \ {p}
                               /\ answers' = answers \cup {[meant |-> ev.ev, hit |-> p.ev]}
         \/ UNCHANGED <<pending, answers>>
  BY DEF Respond, Reply
<1>4. pending' \in SUBSET OwnedFd /\ answers' \in SUBSET [meant : Events, hit : Events]
  <2>1. ev.ev \in Events
    BY <1>1 DEF FdEvent
  <2>2. ASSUME NEW p \in pending PROVE p.ev \in Events
    BY DEF FdInv, TypeOK, OwnedFd
  <2>3. pending \in SUBSET OwnedFd /\ answers \in SUBSET [meant : Events, hit : Events]
    BY DEF FdInv, TypeOK
  <2>4. \A p \in pending : [meant |-> ev.ev, hit |-> p.ev] \in [meant : Events, hit : Events]
    BY <2>1, <2>2
  <2> HIDE DEF ev
  <2> QED BY <1>2, <2>3, <2>4
<1>5. /\ slots' \in [Threads -> Seq(FdEvent)]
      /\ \A u \in Threads : u # t => slots'[u] = slots[u]
      /\ OwningSlots(t)' = OwningSlots(t)
      /\ \A j \in DOMAIN slots[t] : /\ slots'[t][j].ev = slots[t][j].ev
                                    /\ slots'[t][j].fd_field = slots[t][j].fd_field
  BY <1>2, Replies DEF FdInv, TypeOK
<1>6. TypeOK' /\ Bounded' /\ OthersStay(t)
  BY <1>2, <1>4, <1>5 DEF FdInv, TypeOK, Bounded, OthersStay
<1>7. /\ OwningSlots(t)' = OwningSlots(t)
      /\ \A j \in OwningSlots(t) : /\ slots'[t][j].ev = slots[t][j].ev
                                   /\ slots'[t][j].fd_field = slots[t][j].fd_field
  BY <1>5 DEF OwningSlots
<1>8. OwnedInv(t)'
  BY <1>2, <1>7 DEF FdInv, ThreadInv, OwnedInv, Foreign
<1>9. PhaseInv(t)'
  <2>1. slots[t] # <<>>
    OBVIOUS
  <2> QED BY <1>2, <2>1 DEF FdInv, ThreadInv, PhaseInv
<1>10. Mine(t)' = Mine(t)
  BY <1>2, <1>7 DEF Mine, Owned
<1> QED BY <1>2, <1>6, <1>8, <1>9, <1>10, ThreadSteps DEF ThreadInv

(* An event's descriptor passes to the caller. *)
LEMMA IntoFdKeeps ==
  ASSUME FdInv, NEW t \in Threads, NEW i \in DOMAIN slots[t], IntoFd(t, i)
  PROVE  FdInv'
<1> DEFINE ev == slots[t][i]
           moved == [ev |-> ev.ev, fd |-> ev.fd_field]
<1>1. ev \in FdEvent
  BY SlotType DEF FdInv
<1>2. /\ pc[t] = "idle" /\ ev.owns
      /\ held' = held \cup {moved}
      /\ Disown(t, i)
      /\ UNCHANGED <<kernel, pc, bytes, at, adopted, inflight, stop, result>>
  BY DEF IntoFd, Disown
<1>4. OwnedInv(t) /\ PhaseInv(t) /\ i \in OwningSlots(t)
  BY <1>2 DEF FdInv, ThreadInv, OwningSlots
<1>5. /\ moved \in OwnedFd /\ moved.ev = ev.ev /\ moved.fd = ev.fd_field
      /\ table[ev.fd_field] = ev.ev /\ ev.fd_field \in Owned(t) /\ ev.fd_field \notin inflight[t]
  BY <1>1, <1>4 DEF OwnedFd, FdEvent, OwnedInv, Owned
<1> HIDE DEF moved
<1>6. /\ slots' \in [Threads -> Seq(FdEvent)]
      /\ \A u \in Threads : u # t => slots'[u] = slots[u]
      /\ \A j \in DOMAIN slots[t] : j # i => slots'[t][j] = slots[t][j]
      /\ OwningSlots(t)' = OwningSlots(t) \ {i}
  BY <1>2, Disowns DEF FdInv, TypeOK
<1>7. TypeOK' /\ Bounded' /\ OthersStay(t)
  BY <1>2, <1>5, <1>6 DEF FdInv, TypeOK, Bounded, OthersStay, kernel
<1>8. OwningSlots(t)' = OwningSlots(t) \ {i} /\ \A j \in OwningSlots(t)' : slots'[t][j] = slots[t][j]
  BY <1>6 DEF OwningSlots
<1>9. OwnedInv(t)'
  BY <1>2, <1>4, <1>8 DEF OwnedInv, Foreign, kernel
<1>10. PhaseInv(t)'
  <2>1. slots[t] # <<>>
    OBVIOUS
  <2> QED BY <1>2, <1>4, <2>1 DEF PhaseInv
<1>11. Mine(t)' \subseteq Mine(t) \ {moved.fd} /\ moved.fd \in Mine(t)
  <2>1. \A j \in OwningSlots(t)' : slots[t][j].fd_field # ev.fd_field
    BY <1>4, <1>8 DEF OwnedInv
  <2> QED BY <1>2, <1>5, <1>8, <2>1 DEF Mine, Owned
<1>12. ASSUME NEW u \in Threads, u # t
       PROVE  ThreadInv(u)' /\ Mine(u)' = Mine(u)
  <2>1. ThreadInv(u) /\ table' = table
    BY <1>2 DEF FdInv, kernel
  <2> QED BY <1>7, <1>12, <2>1, ThreadKept DEF OthersStay
<1>13. ApartInv'
  BY <1>11, <1>12 DEF FdInv, ApartInv
<1>14. HeldInv'
  <2>1. \A h \in held : h.fd # moved.fd
    BY <1>11 DEF FdInv, HeldInv
  <2>2. \A h \in held' : table'[h.fd] = h.ev
    BY <1>2, <1>5 DEF FdInv, HeldInv, kernel
  <2>3. \A g, h \in held' : g.fd = h.fd => g = h
    BY <1>2, <2>1 DEF FdInv, HeldInv
  <2>4. \A u \in Threads, h \in held' : h.fd \notin Mine(u)'
    <3>1. \A h \in held' : h.fd \notin Mine(t)'
      BY <1>2, <1>11 DEF FdInv, HeldInv
    <3>2. \A u \in Threads : u # t => \A h \in held' : h.fd \notin Mine(u)'
      BY <1>2, <1>11, <1>12 DEF FdInv, HeldInv, ApartInv
    <3> QED BY <3>1, <3>2
  <2> QED BY <2>2, <2>3, <2>4 DEF HeldInv
<1> QED BY <1>7, <1>9, <1>10, <1>12, <1>13, <1>14 DEF FdInv, ThreadInv

(* A duplicate takes a free number, open on the same object. *)
LEMMA TryCloneKeeps ==
  ASSUME FdInv, NEW t \in Threads, NEW i \in DOMAIN slots[t], NEW n \in Fds, TryClone(t, i, n)
  PROVE  FdInv'
<1> DEFINE ev == slots[t][i]
           copy == [ev |-> ev.ev, fd |-> n]
<1>1. /\ ev \in FdEvent /\ ev.owns /\ table[n] = Closed
      /\ table' = [table EXCEPT ![n] = table[ev.fd_field]]
      /\ held' = held \cup {copy}
      /\ UNCHANGED <<queue, raised, pending, answers, thread>>
  BY SlotType DEF FdInv, TryClone
<1>2. table[ev.fd_field] = ev.ev /\ ev.ev \in Objects /\ copy \in OwnedFd /\ copy.fd = n /\ copy.ev = ev.ev
  BY <1>1 DEF FdInv, ThreadInv, OwnedInv, OwningSlots, FdEvent, OwnedFd, Objects
<1> HIDE DEF ev, copy
<1>3. /\ table'[n] = ev.ev
      /\ \A m \in Fds : m # n => table'[m] = table[m]
      /\ table' \in [Fds -> Objects \cup {Closed}]
  BY <1>1, <1>2 DEF FdInv, TypeOK
<1>4. TypeOK'
  BY <1>1, <1>2, <1>3 DEF FdInv, TypeOK, thread
<1>5. \A u \in Threads : \A m \in Mine(u) : m # n /\ m \in Fds
  BY <1>1, MineNotForeign, MineIsFds DEF Foreign
<1>6. \A h \in held : h.fd # n /\ h.fd \in Fds
  BY <1>1, MineNotForeign DEF Foreign, FdInv, TypeOK, OwnedFd
<1>7. \A h \in held' : table'[h.fd] = h.ev
  BY <1>1, <1>2, <1>3, <1>6 DEF FdInv, HeldInv
<1>8. \A g, h \in held' : g.fd = h.fd => g = h
  BY <1>1, <1>2, <1>6 DEF FdInv, HeldInv
<1>9. \A u \in Threads, h \in held' : h.fd \notin Mine(u)
  BY <1>1, <1>2, <1>5 DEF FdInv, HeldInv
<1> QED BY <1>1, <1>3, <1>4, <1>5, <1>7, <1>8, <1>9, WorldSteps

(* A caller closes what it holds. *)
LEMMA DropHeldKeeps ==
  ASSUME FdInv, NEW h \in held, DropHeld(h)
  PROVE  FdInv'
<1>1. /\ table' = [table EXCEPT ![h.fd] = Closed] /\ held' = held \ {h}
      /\ UNCHANGED <<queue, raised, pending, answers, thread>>
  BY DEF DropHeld
<1>2. h.fd \in Fds /\ \A g \in held : g.fd \in Fds
  BY DEF FdInv, TypeOK, OwnedFd
<1>3. /\ \A m \in Fds : m # h.fd => table'[m] = table[m]
      /\ table' \in [Fds -> Objects \cup {Closed}]
  BY <1>1, <1>2 DEF FdInv, TypeOK
<1>4. TypeOK'
  BY <1>1, <1>3 DEF FdInv, TypeOK, thread
<1>5. \A u \in Threads : \A m \in Mine(u) : m # h.fd /\ m \in Fds
  BY MineIsFds DEF FdInv, HeldInv
<1>6. \A g \in held' : g \in held /\ g.fd # h.fd
  BY <1>1 DEF FdInv, HeldInv
<1>7. \A g \in held' : table'[g.fd] = g.ev
  BY <1>2, <1>3, <1>6 DEF FdInv, HeldInv
<1>8. \A f, g \in held' : f.fd = g.fd => f = g
  BY <1>6 DEF FdInv, HeldInv
<1>9. \A u \in Threads, g \in held' : g.fd \notin Mine(u)
  BY <1>6 DEF FdInv, HeldInv
<1> QED BY <1>1, <1>3, <1>4, <1>5, <1>7, <1>8, <1>9, WorldSteps

(* Every step keeps the invariant. *)
LEMMA FdStep == FdInv /\ [Next]_vars => FdInv'
<1> SUFFICES ASSUME FdInv, [Next]_vars PROVE FdInv'
  OBVIOUS
<1>1. CASE \E e \in Events : Raise(e)
  BY <1>1, WorldKeeps
<1>2. CASE \E n \in Fds : OpenElsewhere(n) \/ CloseElsewhere(n)
  BY <1>2, WorldKeeps
<1>3. ASSUME NEW t \in Threads, ReadStep(t)
      PROVE  FdInv'
  <2>1. CASE \/ BeginRead(t) \/ DropSlot(t) \/ EndClear(t) \/ ReadFails(t, "EAGAIN")
             \/ WaitReadable(t) \/ Adopt(t) \/ EndRead(t)
    BY <2>1, BeginReadKeeps, DropSlotKeeps, EndClearKeeps, ReadFailsKeeps, EndWaitKeeps,
       AdoptKeeps, EndReadKeeps DEF WaitReadable
  <2>2. CASE \E k \in 1..BatchMax : \E f \in [1..k -> Fds \cup {NoFd}], pidfds \in SUBSET Fds :
               ReadBatch(t, k, f, pidfds)
    BY <2>2, ReadBatchKeeps
  <2>3. CASE \E known \in Versions : Parse(t, known)
    BY <2>3, ParseKeeps, FlagsAssumption
  <2> QED BY <1>3, <2>1, <2>2, <2>3 DEF ReadStep
<1>4. ASSUME NEW t \in Threads, ReadFails(t, "errno") \/ WaitFails(t)
      PROVE  FdInv'
  BY <1>4, ReadFailsKeeps, EndWaitKeeps DEF WaitFails
<1>5. ASSUME NEW t \in Threads, CallerStep(t)
      PROVE  FdInv'
  BY <1>5, RespondKeeps, IntoFdKeeps, TryCloneKeeps DEF CallerStep
<1>6. CASE \E h \in held : DropHeld(h)
  BY <1>6, DropHeldKeeps
<1>7. CASE UNCHANGED vars
  <2>1. UNCHANGED thread /\ UNCHANGED kernel /\ held' = held
    BY <1>7 DEF vars
  <2>2. TypeOK'
    BY <2>1 DEF FdInv, TypeOK, kernel, thread
  <2> QED BY <2>1, <2>2, WorldSteps DEF kernel, FdInv, HeldInv
<1> QED BY <1>1, <1>2, <1>3, <1>4, <1>5, <1>6, <1>7 DEF Next

LEMMA FdInvariant == Spec => []FdInv
<1> QED BY FdInit, FdStep, PTL DEF Spec


(* The four properties that hold of every group and every caller. *)

(* Every variable keeps its type. *)
THEOREM FdReaderTypeCorrect == Spec => []TypeOK
<1>1. FdInv => TypeOK
  BY DEF FdInv
<1> QED BY <1>1, FdInvariant, PTL

(* A descriptor has one owner, whatever number the kernel reuses and       *)
(* however the reading threads interleave: no number is closed twice.      *)
THEOREM SingleOwnerCorrect == Spec => []SingleOwner
<1>1. FdInv => SingleOwner
  <2> SUFFICES ASSUME FdInv PROVE SingleOwner
    OBVIOUS
  <2>1. ASSUME NEW t \in Threads, NEW u \in Threads, NEW i \in OwningSlots(t), NEW j \in OwningSlots(u),
               slots[t][i].fd_field = slots[u][j].fd_field
        PROVE  t = u /\ i = j
    <3>1. t = u
      BY <2>1 DEF FdInv, ApartInv, Mine, Owned
    <3> QED BY <2>1, <3>1 DEF FdInv, ThreadInv, OwnedInv
  <2> QED BY <2>1 DEF SingleOwner, FdInv, HeldInv, Mine
<1> QED BY <1>1, FdInvariant, PTL

(* What is owned is open on the object of the event it came with.          *)
THEOREM OwnedObjectCorrect == Spec => []OwnedIsItsObject
<1>1. FdInv => OwnedIsItsObject
  BY DEF FdInv, ThreadInv, OwnedInv, HeldInv, OwnedIsItsObject
<1> QED BY <1>1, FdInvariant, PTL

(* A read that fails leaves nothing of the previous batch behind. *)
THEOREM FailedReadCorrect == Spec => []FailedReadLeavesNothing
<1>1. FdInv => FailedReadLeavesNothing
  BY DEF FdInv, ThreadInv, PhaseInv, FailedReadLeavesNothing
<1> QED BY <1>1, FdInvariant, PTL

-----------------------------------------------------------------------------
(***************************************************************************)
(* Nothing the kernel installed is lost.                                   *)
(***************************************************************************)
(* A thread that does not step, and whose buffer does not change. *)
LEMMA LeakThreadKept ==
  ASSUME NEW t \in Threads, LeakThread(t),
         pc'[t] = pc[t], bytes'[t] = bytes[t], slots'[t] = slots[t], at'[t] = at[t],
         adopted'[t] = adopted[t], inflight'[t] = inflight[t]
  PROVE  LeakThread(t)' /\ Mine(t)' = Mine(t)
<1>1. SlotsInv(t) => SlotsInv(t)'
  BY DEF SlotsInv
<1>2. ToCome(t, 1)' = ToCome(t, 1) /\ (ToCome(t, at[t]))' = ToCome(t, at[t])
  BY DEF ToCome
<1>3. OwningSlots(t)' = OwningSlots(t)
  BY DEF OwningSlots
<1>4. Mine(t)' = Mine(t)
  BY <1>3 DEF Mine, Owned
<1> QED BY <1>1, <1>2, <1>4 DEF LeakThread

(* A step of one thread: a number is lost if it is given up while it is    *)
(* open on an event's object.                                              *)
LEMMA LeakSteps ==
  ASSUME LeakInv, NEW t \in Threads, OthersStay(t), LeakThread(t)', held \subseteq held',
         \A n \in Fds : ~Foreign(n)' => ~Foreign(n) \/ n \in Mine(t)',
         \A n \in Mine(t) : Foreign(n)' \/ n \in Mine(t)' \/ \E h \in held' : h.fd = n
  PROVE  LeakInv'
<1>1. ASSUME NEW u \in Threads \ {t}
      PROVE  LeakThread(u)' /\ Mine(u)' = Mine(u)
  <2>1. LeakThread(u)
    BY DEF LeakInv
  <2> QED BY <2>1, LeakThreadKept DEF OthersStay
<1>2. ASSUME NEW n \in Fds, ~Foreign(n)'
      PROVE  Kept(n)'
  <2>1. CASE n \in Mine(t)'
    BY <2>1 DEF Kept
  <2>2. CASE n \notin Mine(t)'
    <3>1. Kept(n)
      BY <1>2, <2>2 DEF LeakInv
    <3>2. CASE \E h \in held : h.fd = n
      BY <3>2 DEF Kept
    <3>3. CASE \E u \in Threads : n \in Mine(u)
      BY <1>1, <1>2, <2>2, <3>3 DEF Kept
    <3> QED BY <3>1, <3>2, <3>3 DEF Kept
  <2> QED BY <2>1, <2>2
<1> QED BY <1>1, <1>2 DEF LeakInv

(* A step of nobody's thread. *)
LEMMA LeakWorld ==
  ASSUME LeakInv, UNCHANGED thread,
         \A n \in Fds : ~Foreign(n)' => ~Foreign(n) \/ \E h \in held' : h.fd = n,
         \A h \in held : h \in held' \/ Foreign(h.fd)'
  PROVE  LeakInv'
<1>1. ASSUME NEW u \in Threads
      PROVE  LeakThread(u)' /\ Mine(u)' = Mine(u)
  <2>1. LeakThread(u)
    BY DEF LeakInv
  <2> QED BY <2>1, LeakThreadKept DEF thread
<1>2. ASSUME NEW n \in Fds, ~Foreign(n)'
      PROVE  Kept(n)'
  BY <1>1, <1>2 DEF LeakInv, Kept
<1> QED BY <1>1, <1>2 DEF LeakInv

(* A step of a thread that moves no number. *)
LEMMA LeakQuiet ==
  ASSUME LeakInv, NEW t \in Threads, OthersStay(t), LeakThread(t)', held' = held, table' = table,
         Mine(t)' = Mine(t)
  PROVE  LeakInv'
BY LeakSteps DEF Foreign

(* Nothing is installed before the first read. *)
LEMMA LeakInit == Init => LeakInv
<1> SUFFICES ASSUME Init PROVE LeakInv
  OBVIOUS
<1>1. \A n \in Fds : Foreign(n)
  BY DEF Init, Foreign
<1>2. \A t \in Threads : LeakThread(t)
  BY DEF Init, LeakThread
<1> QED BY <1>1, <1>2 DEF LeakInv

(* The steps of a thread that neither install nor close nor adopt. *)
LEMMA LeakPlain ==
  ASSUME FdInv, LeakInv, NEW t \in Threads,
         \/ BeginRead(t) \/ EndClear(t) \/ EndWait(t) \/ EndRead(t)
         \/ \E errno \in {"EAGAIN", "errno"} : ReadFails(t, errno)
  PROVE  LeakInv'
<1>1. LeakThread(t) /\ PhaseInv(t) /\ TypeOK /\ Bounded
  BY DEF FdInv, LeakInv, ThreadInv
<1>2. /\ OthersStay(t) /\ held' = held /\ table' = table /\ inflight' = inflight
      /\ pc[t] # "parse" /\ pc'[t] \notin {"parse", "adopt"}
  BY <1>1 DEF TypeOK, OthersStay, kernel, BeginRead, EndClear, EndWait, EndRead, ReadFails
<1>3. inflight[t] = {}
  <2>1. CASE pc[t] = "adopt"
    <3>1. at[t] > Len(slots[t]) /\ slots[t] \in Seq(FdEvent) /\ at[t] \in Nat
      BY <1>1, <2>1 DEF TypeOK, BeginRead, EndClear, EndWait, EndRead, ReadFails
    <3>2. \A m \in DOMAIN slots[t] : ~(m >= at[t])
      BY <3>1
    <3> QED BY <1>1, <2>1, <3>2 DEF LeakThread, SlotsInv, ToCome
  <2> QED BY <1>1, <1>2, <2>1 DEF LeakThread
<1>4. Mine(t)' = Mine(t)
  <2>1. CASE EndClear(t)
    <3>1. /\ pc[t] = "clear" /\ at[t] > Len(slots[t]) /\ slots[t] \in Seq(FdEvent) /\ at[t] \in Nat
          /\ slots'[t] = <<>>
      BY <1>1, <2>1 DEF EndClear, TypeOK
    <3>2. \A m \in DOMAIN slots[t] : m < at[t]
      BY <3>1
    <3>3. OwningSlots(t) = {} /\ OwningSlots(t)' = {}
      BY <1>1, <3>1, <3>2 DEF PhaseInv, OwningSlots
    <3> QED BY <1>2, <3>3 DEF Mine, Owned
  <2>2. CASE ~EndClear(t)
    <3>1. slots' = slots
      BY <2>2 DEF BeginRead, EndWait, EndRead, ReadFails
    <3> QED BY <1>2, <3>1 DEF Mine, Owned, OwningSlots
  <2> QED BY <2>1, <2>2
<1>5. LeakThread(t)'
  BY <1>2, <1>3 DEF LeakThread
<1> QED BY <1>2, <1>4, <1>5, LeakQuiet

(* A dropped event closes what it owned. *)
LEMMA LeakDropSlot ==
  ASSUME FdInv, LeakInv, NEW t \in Threads, DropSlot(t)
  PROVE  LeakInv'
<1> DEFINE i == at[t]
           ev == slots[t][i]
<1>1. /\ pc[t] = "clear" /\ i \in DOMAIN slots[t] /\ Disown(t, i)
      /\ table' = IF ev.owns THEN [table EXCEPT ![ev.fd_field] = Closed] ELSE table
      /\ UNCHANGED <<pc, bytes, adopted, inflight, result, held>>
      /\ \A u \in Threads : u # t => at'[u] = at[u]
  BY DEF FdInv, TypeOK, Bounded, DropSlot, Disown
<1>2. /\ \A u \in Threads : u # t => slots'[u] = slots[u]
      /\ \A j \in DOMAIN slots[t] : j # i => slots'[t][j] = slots[t][j]
      /\ OwningSlots(t)' = OwningSlots(t) \ {i}
  BY <1>1, Disowns DEF FdInv, TypeOK
<1>3. i \in OwningSlots(t) => ev.owns /\ ev.fd_field \in Fds
  BY DEF FdInv, ThreadInv, OwnedInv, OwningSlots
<1> HIDE DEF ev
<1>4. \A n \in Fds : table'[n] = table[n] \/ table'[n] = Closed
  BY <1>1 DEF FdInv, TypeOK
<1>5. i \in OwningSlots(t) => table'[ev.fd_field] = Closed
  BY <1>1, <1>3 DEF FdInv, TypeOK
<1>6. \A n \in Mine(t) : n \in Mine(t)' \/ (i \in OwningSlots(t) /\ n = ev.fd_field)
  <2>1. ASSUME NEW n \in Owned(t)
        PROVE  n \in Owned(t)' \/ (i \in OwningSlots(t) /\ n = ev.fd_field)
    <3>1. PICK j \in OwningSlots(t) : n = slots[t][j].fd_field
      BY DEF Owned
    <3> QED BY <1>2, <3>1 DEF Owned, OwningSlots, ev
  <2> QED BY <1>1, <2>1 DEF Mine
<1>7. OthersStay(t) /\ LeakThread(t)'
  BY <1>1, <1>2 DEF OthersStay, LeakInv, LeakThread
<1>8. \A n \in Fds : ~Foreign(n)' => ~Foreign(n)
  BY <1>4 DEF Foreign
<1>9. \A n \in Mine(t) : Foreign(n)' \/ n \in Mine(t)'
  BY <1>5, <1>6 DEF Foreign
<1> QED BY <1>1, <1>7, <1>8, <1>9, LeakSteps

(* A batch arrives: what is installed is what the headers name. *)
LEMMA LeakReadBatch ==
  ASSUME ReportPidfd = FALSE, FdInv, LeakInv, NEW t \in Threads, NEW k \in 1..BatchMax,
         NEW f \in [1..k -> Fds \cup {NoFd}], NEW pidfds \in SUBSET Fds, ReadBatch(t, k, f, pidfds)
  PROVE  LeakInv'
<1> DEFINE batch == SubSeq(queue, 1, k)
           fresh == FreshIn(batch, f)
           new == {f[i] : i \in fresh}
           read == [i \in 1..k |-> [ev |-> batch[i], fd |-> f[i]]]
<1>1. /\ batch \in Seq(Events) /\ Len(batch) = k /\ fresh \subseteq 1..k
      /\ \A n \in new \cup pidfds : n \in Fds
  BY ReadInstalls DEF FdInv
<1>2. /\ pc[t] = "read" /\ pidfds = {}
      /\ table' = [n \in Fds |->
           IF n \in new THEN batch[CHOOSE i \in fresh : f[i] = n]
           ELSE IF n \in pidfds THEN Process ELSE table[n]]
      /\ bytes' = [bytes EXCEPT ![t] = read]
      /\ inflight' = [inflight EXCEPT ![t] = @ \cup new \cup pidfds]
      /\ pc' = [pc EXCEPT ![t] = "parse"]
      /\ UNCHANGED <<raised, answers, slots, at, adopted, stop, result, held>>
  BY DEF ReadBatch
<1>3. k \in Nat /\ DOMAIN batch = 1..k
  BY <1>1, BatchMaxAssumption
<1> HIDE DEF batch
<1>4. DOMAIN read = 1..k /\ \A i \in 1..k : i \in fresh <=> (i >= 1 /\ Fresh(read[i])) /\ read[i].fd = f[i]
  <2>1. DOMAIN read = 1..k /\ \A i \in 1..k : i >= 1 /\ read[i].ev = batch[i] /\ read[i].fd = f[i]
    BY <1>3
  <2> QED BY <1>3, <2>1 DEF FreshIn, Fresh
<1>5. new = {read[j].fd : j \in {m \in DOMAIN read : m >= 1 /\ Fresh(read[m])}}
  <2>1. {m \in DOMAIN read : m >= 1 /\ Fresh(read[m])} = fresh
    BY <1>1, <1>4
  <2> HIDE DEF fresh
  <2> QED BY <1>1, <1>4, <2>1
<1> HIDE DEF read, fresh
<1>6. inflight[t] = {}
  BY <1>2 DEF LeakInv, LeakThread
<1>7. /\ pc'[t] = "parse" /\ bytes'[t] = read /\ inflight'[t] = new /\ OthersStay(t)
  BY <1>2, <1>6 DEF FdInv, TypeOK, OthersStay
<1>8. LeakThread(t)'
  BY <1>5, <1>7 DEF LeakThread, ToCome
<1>9. new \subseteq Mine(t)' /\ Owned(t)' = Owned(t)
  BY <1>2, <1>7 DEF Mine, Owned, OwningSlots
<1> HIDE DEF new
<1>10. \A n \in Fds : n \notin new => table'[n] = table[n]
  BY <1>2
<1>11. \A n \in Fds : ~Foreign(n)' => ~Foreign(n) \/ n \in Mine(t)'
  BY <1>9, <1>10 DEF Foreign
<1>12. \A n \in Mine(t) : n \in Mine(t)'
  BY <1>6, <1>9 DEF Mine
<1> QED BY <1>2, <1>7, <1>8, <1>11, <1>12, LeakSteps


(* The buffer is parsed: every number is still to be adopted. *)
LEMMA LeakParse ==
  ASSUME FdInv, LeakInv, NEW t \in Threads, Parse(t, TRUE)
  PROVE  LeakInv'
<1> DEFINE new == [i \in 1..Len(bytes[t]) |-> Unadopted(bytes[t][i])]
<1>1. /\ pc[t] = "parse" /\ slots' = [slots EXCEPT ![t] = new]
      /\ adopted' = [adopted EXCEPT ![t] = {}]
      /\ at' = [at EXCEPT ![t] = 1]
      /\ pc' = [pc EXCEPT ![t] = "adopt"]
      /\ UNCHANGED <<kernel, bytes, inflight, result, held>>
  BY DEF Parse
<1>2. bytes[t] \in Seq(Header) /\ DOMAIN bytes[t] = 1..Len(bytes[t]) /\ Len(bytes[t]) \in Nat
  BY DEF FdInv, TypeOK
<1>3. /\ DOMAIN new = DOMAIN bytes[t]
      /\ \A i \in DOMAIN new : /\ new[i].ev = bytes[t][i].ev
                               /\ new[i].fd_field = bytes[t][i].fd
                               /\ ~new[i].owns /\ ~new[i].replied
  BY <1>2 DEF Unadopted
<1> HIDE DEF new
<1>4. /\ pc'[t] = "adopt" /\ at'[t] = 1 /\ adopted'[t] = {} /\ slots'[t] = new /\ OthersStay(t)
  BY <1>1 DEF FdInv, TypeOK, OthersStay
<1>5. SlotsInv(t)'
  <2>1. {j \in DOMAIN bytes[t] : j < 1 /\ Fresh(bytes[t][j])} = {}
    BY <1>2
  <2> QED BY <1>1, <1>3, <1>4, <2>1 DEF SlotsInv
<1>6. inflight'[t] = ToCome(t, at[t])'
  BY <1>1, <1>4 DEF LeakInv, LeakThread, ToCome
<1>7. Mine(t)' = Mine(t)
  <2>1. slots[t] = <<>>
    BY <1>1 DEF FdInv, ThreadInv, PhaseInv
  <2>2. OwningSlots(t) = {} /\ OwningSlots(t)' = {}
    BY <1>3, <1>4, <2>1 DEF OwningSlots
  <2> QED BY <1>1, <2>2 DEF Mine, Owned
<1>8. LeakThread(t)'
  BY <1>4, <1>5, <1>6 DEF LeakThread
<1> QED BY <1>1, <1>4, <1>7, <1>8, LeakQuiet DEF kernel

(* What waits to be adopted after slot i. *)
LEMMA ToComeShrinks ==
  ASSUME TypeOK, NEW t \in Threads, BatchInv(t), NEW i \in DOMAIN bytes[t]
  PROVE  ToCome(t, i + 1) = IF Fresh(bytes[t][i]) THEN ToCome(t, i) \ {bytes[t][i].fd} ELSE ToCome(t, i)
<1>1. bytes[t] \in Seq(Header)
  BY DEF TypeOK
<1>2. \A m \in DOMAIN bytes[t] : m >= i <=> m >= i + 1 \/ m = i
  BY <1>1
<1>3. CASE Fresh(bytes[t][i])
  <2>1. \A m \in DOMAIN bytes[t] : m >= i + 1 /\ Fresh(bytes[t][m]) => bytes[t][m].fd # bytes[t][i].fd
    <3>1. \A m \in DOMAIN bytes[t] : m >= i + 1 => m # i
      BY <1>1
    <3> QED BY <1>3, <3>1 DEF BatchInv
  <2> QED BY <1>2, <1>3, <2>1 DEF ToCome
<1>4. CASE ~Fresh(bytes[t][i])
  <2>1. {m \in DOMAIN bytes[t] : m >= i + 1 /\ Fresh(bytes[t][m])}
        = {m \in DOMAIN bytes[t] : m >= i /\ Fresh(bytes[t][m])}
    BY <1>2, <1>4
  <2> QED BY <1>4, <2>1 DEF ToCome
<1> QED BY <1>3, <1>4

(* A number passes from inflight to its slot, or the slot has none. *)
LEMMA LeakAdopt ==
  ASSUME FdInv, LeakInv, NEW t \in Threads, Adopt(t)
  PROVE  LeakInv'
<1> DEFINE i == at[t]
<1>1. /\ pc[t] = "adopt" /\ at[t] <= Len(slots[t])
      /\ at' = [at EXCEPT ![t] = i + 1]
      /\ UNCHANGED <<kernel, pc, bytes, stop, result, held>>
  BY DEF Adopt
<1>2. /\ BatchInv(t) /\ i \in DOMAIN slots[t] /\ i \in DOMAIN bytes[t]
      /\ slots[t][i].fd_field = bytes[t][i].fd
      /\ Adoptable(t, slots[t][i]) <=> Fresh(bytes[t][i])
  BY <1>1, AdoptsTheFresh DEF SlotsInv
<1>3. FdInv' /\ Mine(t)' = Mine(t)
  BY AdoptKeeps
<1>4. inflight'[t] = IF Fresh(bytes[t][i]) THEN inflight[t] \ {bytes[t][i].fd} ELSE inflight[t]
  <2>1. CASE Fresh(bytes[t][i])
    <3>1. inflight' = [inflight EXCEPT ![t] = inflight[t] \ {slots[t][i].fd_field}]
      BY <1>2, <2>1 DEF Adopt
    <3> QED BY <1>2, <2>1, <3>1 DEF FdInv, TypeOK
  <2>2. CASE ~Fresh(bytes[t][i])
    BY <1>2, <2>2 DEF Adopt
  <2> QED BY <2>1, <2>2
<1>5. at'[t] = i + 1 /\ pc'[t] = "adopt" /\ slots'[t] # <<>> /\ OthersStay(t)
  <2>1. i \in DOMAIN slots'[t] /\ \A u \in Threads : u # t => slots'[u] = slots[u]
    <3>1. CASE slots' = slots
      BY <1>2, <3>1
    <3>2. CASE slots' = [slots EXCEPT ![t][i].owns = TRUE]
      BY <1>2, <3>2 DEF FdInv, TypeOK
    <3> QED BY <3>1, <3>2 DEF Adopt
  <2>2. /\ at'[t] = i + 1 /\ pc'[t] = "adopt"
        /\ \A u \in Threads \ {t} : at'[u] = at[u] /\ adopted'[u] = adopted[u] /\ inflight'[u] = inflight[u]
    BY <1>1 DEF FdInv, TypeOK, Adopt
  <2> QED BY <1>1, <2>1, <2>2 DEF OthersStay
<1>6. SlotsInv(t)'
  BY <1>3, <1>5 DEF FdInv, ThreadInv, PhaseInv
<1>7. inflight[t] = ToCome(t, i)
  BY <1>1 DEF LeakInv, LeakThread
<1>8. ToCome(t, i + 1) = IF Fresh(bytes[t][i]) THEN ToCome(t, i) \ {bytes[t][i].fd} ELSE ToCome(t, i)
  BY <1>2, ToComeShrinks DEF FdInv
<1>9. (ToCome(t, at[t]))' = ToCome(t, i + 1)
  BY <1>1, <1>5 DEF ToCome
<1>10. LeakThread(t)'
  BY <1>4, <1>5, <1>6, <1>7, <1>8, <1>9 DEF LeakThread
<1> QED BY <1>1, <1>3, <1>5, <1>10, LeakQuiet DEF kernel

(* What a caller does keeps every number in somebody's hands. *)
LEMMA LeakCaller ==
  ASSUME FdInv, LeakInv, NEW t \in Threads, CallerStep(t)
  PROVE  LeakInv'
<1> PICK i \in DOMAIN slots[t] : Respond(t, i) \/ IntoFd(t, i) \/ \E n \in Fds : TryClone(t, i, n)
  BY DEF CallerStep
<1>1. CASE Respond(t, i)
  <2>1. /\ Reply(t, i) /\ pc[t] = "idle"
        /\ UNCHANGED <<table, pc, bytes, at, adopted, inflight, stop, result, held>>
    BY <1>1 DEF Respond, Reply
  <2>2. /\ \A u \in Threads : u # t => slots'[u] = slots[u]
        /\ \A j \in DOMAIN slots[t] : slots'[t][j].fd_field = slots[t][j].fd_field
        /\ OwningSlots(t)' = OwningSlots(t)
    BY <2>1, Replies DEF FdInv, TypeOK
  <2>3. Mine(t)' = Mine(t)
    <3>1. \A j \in OwningSlots(t) : slots'[t][j].fd_field = slots[t][j].fd_field
      BY <2>2 DEF OwningSlots
    <3> QED BY <2>1, <2>2, <3>1 DEF Mine, Owned
  <2>4. OthersStay(t) /\ LeakThread(t)'
    BY <2>1, <2>2 DEF OthersStay, LeakInv, LeakThread
  <2> QED BY <2>1, <2>3, <2>4, LeakQuiet
<1>2. CASE IntoFd(t, i)
  <2>1. /\ Disown(t, i) /\ pc[t] = "idle"
        /\ held' = held \cup {[ev |-> slots[t][i].ev, fd |-> slots[t][i].fd_field]}
        /\ UNCHANGED <<table, pc, bytes, at, adopted, inflight, stop, result>>
    BY <1>2 DEF IntoFd, Disown, kernel
  <2>2. /\ \A u \in Threads : u # t => slots'[u] = slots[u]
        /\ \A j \in DOMAIN slots[t] : j # i => slots'[t][j] = slots[t][j]
        /\ OwningSlots(t)' = OwningSlots(t) \ {i}
    BY <2>1, Disowns DEF FdInv, TypeOK
  <2>3. ASSUME NEW n \in Mine(t)
        PROVE  n \in Mine(t)' \/ \E h \in held' : h.fd = n
    <3>1. CASE n \in inflight[t]
      BY <2>1, <3>1 DEF Mine
    <3>2. CASE n \in Owned(t)
      <4>1. PICK j \in OwningSlots(t) : n = slots[t][j].fd_field
        BY <3>2 DEF Owned
      <4>2. CASE j = i
        <5>1. PICK h \in held' : h = [ev |-> slots[t][i].ev, fd |-> slots[t][i].fd_field]
          BY <2>1
        <5> QED BY <4>1, <4>2, <5>1
      <4>3. CASE j # i
        BY <2>2, <4>1, <4>3 DEF Mine, Owned, OwningSlots
      <4> QED BY <4>2, <4>3
    <3> QED BY <3>1, <3>2 DEF Mine
  <2>4. OthersStay(t) /\ LeakThread(t)'
    BY <2>1, <2>2 DEF OthersStay, LeakInv, LeakThread
  <2>5. \A n \in Fds : ~Foreign(n)' => ~Foreign(n)
    BY <2>1 DEF Foreign
  <2> QED BY <2>1, <2>3, <2>4, <2>5, LeakSteps
<1>3. CASE \E n \in Fds : TryClone(t, i, n)
  <2> PICK n \in Fds : TryClone(t, i, n)
    BY <1>3
  <2> DEFINE copy == [ev |-> slots[t][i].ev, fd |-> n]
  <2>1. /\ table' = [table EXCEPT ![n] = table[slots[t][i].fd_field]]
        /\ held' = held \cup {copy} /\ copy.fd = n
        /\ UNCHANGED thread
    BY DEF TryClone
  <2> HIDE DEF copy
  <2>2. \A m \in Fds : m # n => table'[m] = table[m]
    BY <2>1 DEF FdInv, TypeOK
  <2>3. \A m \in Fds : ~Foreign(m)' => ~Foreign(m) \/ \E h \in held' : h.fd = m
    BY <2>1, <2>2 DEF Foreign
  <2> QED BY <2>1, <2>3, LeakWorld
<1> QED BY <1>1, <1>2, <1>3

(* Every step keeps it. *)
LEMMA LeakStep ==
  ASSUME ReportPidfd = FALSE, Versions = {TRUE}, FdInv, LeakInv, [Next]_vars
  PROVE  LeakInv'
<1>1. CASE \/ \E e \in Events : Raise(e)
           \/ \E n \in Fds : OpenElsewhere(n) \/ CloseElsewhere(n)
           \/ UNCHANGED vars
  <2>1. UNCHANGED thread /\ held' = held
    BY <1>1 DEF Raise, OpenElsewhere, CloseElsewhere, vars
  <2>2. \A n \in Fds : ~Foreign(n)' => ~Foreign(n)
    BY <1>1 DEF FdInv, TypeOK, Foreign, Raise, OpenElsewhere, CloseElsewhere, vars, kernel
  <2> QED BY <2>1, <2>2, LeakWorld
<1>2. ASSUME NEW t \in Threads, ReadStep(t)
      PROVE  LeakInv'
  <2>1. CASE BeginRead(t) \/ EndClear(t) \/ WaitReadable(t) \/ EndRead(t) \/ ReadFails(t, "EAGAIN")
    BY <2>1, LeakPlain DEF WaitReadable
  <2>2. CASE DropSlot(t) \/ Adopt(t)
    BY <2>2, LeakDropSlot, LeakAdopt
  <2>3. CASE \E k \in 1..BatchMax : \E f \in [1..k -> Fds \cup {NoFd}], pidfds \in SUBSET Fds :
               ReadBatch(t, k, f, pidfds)
    BY <2>3, LeakReadBatch
  <2>4. CASE \E known \in Versions : Parse(t, known)
    BY <2>4, LeakParse
  <2> QED BY <1>2, <2>1, <2>2, <2>3, <2>4 DEF ReadStep
<1>3. ASSUME NEW t \in Threads, ReadFails(t, "errno") \/ WaitFails(t)
      PROVE  LeakInv'
  BY <1>3, LeakPlain DEF WaitFails
<1>4. ASSUME NEW t \in Threads, CallerStep(t)
      PROVE  LeakInv'
  BY <1>4, LeakCaller
<1>5. CASE \E h \in held : DropHeld(h)
  <2> PICK h \in held : DropHeld(h)
    BY <1>5
  <2>1. table' = [table EXCEPT ![h.fd] = Closed] /\ held' = held \ {h} /\ UNCHANGED thread
    BY DEF DropHeld
  <2>2. h.fd \in Fds
    BY DEF FdInv, TypeOK, OwnedFd
  <2>3. \A n \in Fds : table'[n] = IF n = h.fd THEN Closed ELSE table[n]
    BY <2>1, <2>2 DEF FdInv, TypeOK
  <2> QED BY <2>1, <2>2, <2>3, LeakWorld DEF Foreign
<1> QED BY <1>1, <1>2, <1>3, <1>4, <1>5 DEF Next

(* Nothing the kernel installed is lost, for a group that reports no       *)
(* pidfds and a kernel whose metadata version is the known one: an         *)
(* unknown version leaves a whole batch unadopted, and the pidfd of a      *)
(* descriptor event is adopted nowhere.                                    *)
THEOREM NothingLeaksCorrect ==
  ASSUME ReportPidfd = FALSE, Versions = {TRUE}
  PROVE  Spec => []NothingLeaks
<1>1. Init => FdInv /\ LeakInv
  BY FdInit, LeakInit
<1>2. FdInv /\ LeakInv /\ [Next]_vars => (FdInv /\ LeakInv)'
  BY FdStep, LeakStep
<1>3. FdInv /\ LeakInv => NothingLeaks
  BY DEF LeakInv, LeakThread, Kept, Mine, Foreign, NothingLeaks
<1> QED BY <1>1, <1>2, <1>3, PTL DEF Spec


-----------------------------------------------------------------------------
(***************************************************************************)
(* An answer hits its event.                                               *)
(***************************************************************************)
(* An event that waits, its number, and whoever claims it. *)
LEMMA Waiting ==
  ASSUME FdInv, PendingInv, NEW p \in pending
  PROVE  /\ p \in OwnedFd /\ p.fd \in Fds /\ p.ev \in Perm /\ table[p.fd] = p.ev /\ ~Foreign(p.fd)
         /\ \E u \in Threads : ClaimedBy(u, p.fd) /\ p.fd \in Mine(u)
<1>1. p \in OwnedFd /\ p.fd \in Fds
  BY DEF FdInv, TypeOK, OwnedFd
<1>2. PICK u \in Threads : ClaimedBy(u, p.fd)
  BY DEF PendingInv
<1>3. p.fd \in Mine(u)
  BY <1>2 DEF ClaimedBy, Mine, Owned
<1> QED BY <1>1, <1>2, <1>3, MineNotForeign DEF PendingInv

(* What a thread claims, when it does not step. *)
LEMMA ClaimsKept ==
  ASSUME NEW u \in Threads, inflight'[u] = inflight[u], slots'[u] = slots[u], NEW n
  PROVE  (ClaimedBy(u, n)' <=> ClaimedBy(u, n)) /\ Unanswered(u)' = Unanswered(u)
<1>1. OwningSlots(u)' = OwningSlots(u)
  BY DEF OwningSlots
<1> QED BY <1>1 DEF ClaimedBy, Unanswered

(* A step of one thread that neither delivers nor answers. *)
LEMMA PendingSteps ==
  ASSUME FdInv, PendingInv, NEW t \in Threads, OthersStay(t), UNCHANGED <<pending, answers>>,
         \A p \in pending : table'[p.fd] = table[p.fd],
         \A p \in pending : ClaimedBy(t, p.fd) => ClaimedBy(t, p.fd)',
         pc'[t] = "clear" => Unanswered(t)' = {}
  PROVE  PendingInv'
<1>1. ASSUME NEW u \in Threads \ {t}
      PROVE  /\ pc'[u] = pc[u] /\ Unanswered(u)' = Unanswered(u)
             /\ \A n : ClaimedBy(u, n)' <=> ClaimedBy(u, n)
  BY ClaimsKept DEF OthersStay
<1>2. ASSUME NEW p \in pending
      PROVE  \E u \in Threads : ClaimedBy(u, p.fd)'
  <2>1. PICK u \in Threads : ClaimedBy(u, p.fd)
    BY Waiting
  <2> QED BY <1>1, <2>1
<1>3. \A u \in Threads : pc'[u] = "clear" => Unanswered(u)' = {}
  BY <1>1 DEF PendingInv
<1> QED BY <1>2, <1>3 DEF PendingInv

(* A step of nobody's thread. *)
LEMMA PendingWorld ==
  ASSUME FdInv, PendingInv, UNCHANGED <<pending, answers, thread>>,
         \A p \in pending : table'[p.fd] = table[p.fd]
  PROVE  PendingInv'
<1>1. ASSUME NEW u \in Threads
      PROVE  /\ pc'[u] = pc[u] /\ Unanswered(u)' = Unanswered(u)
             /\ \A n : ClaimedBy(u, n)' <=> ClaimedBy(u, n)
  BY ClaimsKept DEF thread
<1>2. ASSUME NEW p \in pending
      PROVE  \E u \in Threads : ClaimedBy(u, p.fd)'
  BY <1>1, Waiting
<1> QED BY <1>1, <1>2 DEF PendingInv

(* The steps of a thread that neither install nor close nor adopt. *)
LEMMA PendingPlain ==
  ASSUME Disciplined = TRUE, FdInv, PendingInv, NEW t \in Threads,
         \/ BeginRead(t) \/ EndClear(t) \/ EndWait(t) \/ EndRead(t)
         \/ \E errno \in {"EAGAIN", "errno"} : ReadFails(t, errno)
  PROVE  PendingInv'
<1>1. /\ OthersStay(t) /\ UNCHANGED <<pending, answers, table, inflight>>
  BY DEF FdInv, TypeOK, OthersStay, kernel, BeginRead, EndClear, EndWait, EndRead, ReadFails
<1>2. pc'[t] = "clear" => Unanswered(t)' = {}
  BY DEF FdInv, TypeOK, BeginRead, EndClear, EndWait, EndRead, ReadFails, Unanswered
<1>3. ASSUME NEW n, ClaimedBy(t, n)
      PROVE  ClaimedBy(t, n)'
  <2>1. CASE EndClear(t)
    <3>1. pc[t] = "clear" /\ at[t] > Len(slots[t]) /\ slots[t] \in Seq(FdEvent) /\ at[t] \in Nat
      BY <2>1 DEF EndClear, FdInv, TypeOK
    <3>2. \A m \in DOMAIN slots[t] : m < at[t]
      BY <3>1
    <3>3. OwningSlots(t) = {}
      BY <3>1, <3>2 DEF FdInv, ThreadInv, PhaseInv, OwningSlots
    <3> QED BY <1>1, <1>3, <3>3 DEF ClaimedBy
  <2>2. CASE ~EndClear(t)
    <3>1. slots' = slots
      BY <2>2 DEF BeginRead, EndWait, EndRead, ReadFails
    <3> QED BY <1>1, <1>3, <3>1, ClaimsKept
  <2> QED BY <2>1, <2>2
<1> QED BY <1>1, <1>2, <1>3, PendingSteps

(* A slot that owns the number an event waits under is that event's, and   *)
(* the only one to claim it.                                               *)
LEMMA SlotIsTheWaiting ==
  ASSUME FdInv, PendingInv, NEW t \in Threads, NEW i \in OwningSlots(t),
         NEW p \in pending, p.fd = slots[t][i].fd_field
  PROVE  slots[t][i].ev = p.ev /\ slots[t][i].ev \in Perm /\ ~slots[t][i].replied
<1>1. /\ \A j \in OwningSlots(t) : slots[t][j].fd_field = slots[t][i].fd_field => j = i
      /\ slots[t][i].fd_field \notin inflight[t] /\ table[slots[t][i].fd_field] = slots[t][i].ev
  BY DEF FdInv, ThreadInv, OwnedInv
<1>2. p.fd \in Mine(t)
  BY DEF Mine, Owned
<1>3. PICK u \in Threads : ClaimedBy(u, p.fd) /\ p.fd \in Mine(u)
  BY Waiting
<1>4. u = t
  BY <1>2, <1>3 DEF FdInv, ApartInv
<1>5. ~slots[t][i].replied
  BY <1>1, <1>3, <1>4 DEF ClaimedBy
<1> QED BY <1>1, <1>5, Waiting

(* A slot that is given up does not own the number of a waiting event.     *)
LEMMA PendingDisown ==
  ASSUME FdInv, PendingInv, NEW t \in Threads, NEW i \in DOMAIN slots[t], Disown(t, i),
         i \notin Unanswered(t), inflight' = inflight
  PROVE  /\ \A p \in pending : ~(i \in OwningSlots(t) /\ p.fd = slots[t][i].fd_field)
         /\ \A p \in pending : ClaimedBy(t, p.fd) => ClaimedBy(t, p.fd)'
         /\ Unanswered(t)' \subseteq Unanswered(t)
<1>1. /\ DOMAIN slots'[t] = DOMAIN slots[t] /\ ~slots'[t][i].owns
      /\ \A j \in DOMAIN slots[t] : j # i => slots'[t][j] = slots[t][j]
      /\ OwningSlots(t)' = OwningSlots(t) \ {i}
  BY Disowns DEF FdInv, TypeOK
<1>2. \A p \in pending : ~(i \in OwningSlots(t) /\ p.fd = slots[t][i].fd_field)
  BY SlotIsTheWaiting DEF Unanswered, OwningSlots
<1>3. ASSUME NEW p \in pending, ClaimedBy(t, p.fd)
      PROVE  ClaimedBy(t, p.fd)'
  <2>1. CASE p.fd \in inflight[t]
    BY <2>1 DEF ClaimedBy
  <2>2. CASE p.fd \notin inflight[t]
    <3>1. PICK j \in OwningSlots(t) : slots[t][j].fd_field = p.fd /\ ~slots[t][j].replied
      BY <1>3, <2>2 DEF ClaimedBy
    <3>2. j # i /\ j \in DOMAIN slots[t]
      BY <1>2, <3>1 DEF OwningSlots
    <3>3. j \in OwningSlots(t)' /\ slots'[t][j] = slots[t][j]
      BY <1>1, <3>2
    <3> QED BY <3>1, <3>3 DEF ClaimedBy
  <2> QED BY <2>1, <2>2
<1>4. Unanswered(t)' \subseteq Unanswered(t)
  BY <1>1 DEF Unanswered
<1> QED BY <1>2, <1>3, <1>4

(* A disciplined caller drops only answered events. *)
LEMMA PendingDropSlot ==
  ASSUME FdInv, PendingInv, NEW t \in Threads, DropSlot(t)
  PROVE  PendingInv'
<1> DEFINE i == at[t]
<1>1. /\ pc[t] = "clear" /\ i \in DOMAIN slots[t] /\ Disown(t, i)
      /\ table' = IF slots[t][i].owns THEN [table EXCEPT ![slots[t][i].fd_field] = Closed] ELSE table
      /\ UNCHANGED <<pc, bytes, adopted, inflight, result, pending, answers>>
      /\ \A u \in Threads : u # t => at'[u] = at[u]
  BY DEF FdInv, TypeOK, Bounded, DropSlot, Disown
<1>2. Unanswered(t) = {}
  BY <1>1 DEF PendingInv
<1>3. /\ \A p \in pending : ~(i \in OwningSlots(t) /\ p.fd = slots[t][i].fd_field)
      /\ \A p \in pending : ClaimedBy(t, p.fd) => ClaimedBy(t, p.fd)'
      /\ Unanswered(t)' \subseteq Unanswered(t)
  BY <1>1, <1>2, PendingDisown
<1>4. \A p \in pending : table'[p.fd] = table[p.fd]
  <2>1. \A p \in pending : ~(slots[t][i].owns /\ p.fd = slots[t][i].fd_field) /\ p.fd \in Fds
    BY <1>1, <1>3, Waiting DEF OwningSlots
  <2> QED BY <1>1, <2>1 DEF FdInv, TypeOK
<1>5. OthersStay(t)
  BY <1>1, Disowns DEF OthersStay, FdInv, TypeOK
<1> QED BY <1>1, <1>2, <1>3, <1>4, <1>5, PendingSteps

(* A batch arrives: its permission events wait under numbers on their way. *)
LEMMA PendingReadBatch ==
  ASSUME FdInv, PendingInv, NEW t \in Threads, NEW k \in 1..BatchMax,
         NEW f \in [1..k -> Fds \cup {NoFd}], NEW pidfds \in SUBSET Fds, ReadBatch(t, k, f, pidfds)
  PROVE  PendingInv'
<1> DEFINE batch == SubSeq(queue, 1, k)
           fresh == FreshIn(batch, f)
           new == {f[i] : i \in fresh}
<1>1. /\ \A i \in fresh : f[i] \in Fds /\ table'[f[i]] = batch[i]
      /\ \A n \in Fds : table[n] # Closed => table'[n] = table[n]
  BY ReadInstalls DEF FdInv
<1>2. /\ pending' = pending \cup
           {[ev |-> batch[i], fd |-> f[i]] : i \in {j \in fresh : batch[j] \in Perm}}
      /\ inflight' = [inflight EXCEPT ![t] = @ \cup new \cup pidfds]
      /\ pc' = [pc EXCEPT ![t] = "parse"]
      /\ UNCHANGED <<answers, slots>>
  BY DEF ReadBatch
<1> HIDE DEF batch, fresh
<1>3. /\ new \subseteq inflight'[t] /\ inflight[t] \subseteq inflight'[t]
      /\ \A u \in Threads : u # t => inflight'[u] = inflight[u]
      /\ \A u \in Threads : pc'[u] = "clear" => pc[u] = "clear"
  BY <1>2 DEF FdInv, TypeOK
<1>4. ASSUME NEW p \in pending
      PROVE  p.ev \in Perm /\ table'[p.fd] = p.ev /\ \E u \in Threads : ClaimedBy(u, p.fd)'
  <2>1. p.fd \in Fds /\ p.ev \in Perm /\ table[p.fd] = p.ev /\ ~Foreign(p.fd)
    BY Waiting
  <2>2. PICK u \in Threads : ClaimedBy(u, p.fd)
    BY Waiting
  <2>3. inflight[u] \subseteq inflight'[u] /\ OwningSlots(u)' = OwningSlots(u)
    BY <1>2, <1>3 DEF OwningSlots
  <2>4. ClaimedBy(u, p.fd)'
    BY <1>2, <2>2, <2>3 DEF ClaimedBy
  <2> QED BY <1>1, <2>1, <2>4 DEF Foreign
<1>5. ASSUME NEW i \in fresh, batch[i] \in Perm
      PROVE  table'[f[i]] = batch[i] /\ ClaimedBy(t, f[i])'
  <2>1. f[i] \in inflight'[t]
    BY <1>3
  <2> QED BY <1>1, <2>1 DEF ClaimedBy
<1>6. \A p \in pending' : p.ev \in Perm /\ table'[p.fd] = p.ev /\ \E u \in Threads : ClaimedBy(u, p.fd)'
  <2>1. ASSUME NEW p \in pending', p \notin pending
        PROVE  p.ev \in Perm /\ table'[p.fd] = p.ev /\ ClaimedBy(t, p.fd)'
    <3>1. PICK i \in fresh : batch[i] \in Perm /\ p = [ev |-> batch[i], fd |-> f[i]]
      BY <1>2, <2>1
    <3>2. p.ev = batch[i] /\ p.fd = f[i]
      BY <3>1
    <3> QED BY <1>5, <3>1, <3>2
  <2> QED BY <1>4, <2>1
<1>7. \A u \in Threads : pc'[u] = "clear" => Unanswered(u)' = {}
  BY <1>2, <1>3 DEF PendingInv, Unanswered
<1> QED BY <1>2, <1>6, <1>7 DEF PendingInv


(* The batch is parsed: what waits is still on its way. *)
LEMMA PendingParse ==
  ASSUME FdInv, PendingInv, NEW t \in Threads, NEW known \in BOOLEAN, Parse(t, known)
  PROVE  PendingInv'
<1>1. /\ OthersStay(t) /\ UNCHANGED <<pending, answers, table, inflight>>
      /\ pc[t] = "parse" /\ pc'[t] = "adopt"
  BY DEF FdInv, TypeOK, OthersStay, kernel, Parse
<1>2. OwningSlots(t) = {}
  BY <1>1 DEF FdInv, ThreadInv, PhaseInv, OwningSlots
<1>3. \A p \in pending : ClaimedBy(t, p.fd) => ClaimedBy(t, p.fd)'
  BY <1>1, <1>2 DEF ClaimedBy
<1> QED BY <1>1, <1>3, PendingSteps

(* A number that is adopted waits in its slot. *)
LEMMA PendingAdopt ==
  ASSUME FdInv, PendingInv, NEW t \in Threads, Adopt(t)
  PROVE  PendingInv'
<1> DEFINE i == at[t]
           n == slots[t][i].fd_field
<1>1. /\ pc[t] = "adopt" /\ at[t] <= Len(slots[t])
      /\ UNCHANGED <<pending, answers, table, pc, bytes, result>>
      /\ \A u \in Threads : u # t => at'[u] = at[u]
  BY DEF Adopt, kernel, FdInv, TypeOK
<1>2. i \in DOMAIN slots[t] /\ slots[t] \in Seq(FdEvent) /\ ~slots[t][i].owns /\ ~slots[t][i].replied
  BY <1>1, AdoptsTheFresh DEF FdInv, TypeOK
<1>3. CASE Adoptable(t, slots[t][i])
  <2>1. /\ slots' = [slots EXCEPT ![t][i].owns = TRUE]
        /\ inflight' = [inflight EXCEPT ![t] = inflight[t] \ {n}]
        /\ adopted' = [adopted EXCEPT ![t] = adopted[t] \cup {n}]
    BY <1>3 DEF Adopt
  <2>2. OthersStay(t) /\ inflight'[t] = inflight[t] \ {n}
    BY <1>1, <2>1 DEF OthersStay, FdInv, TypeOK
  <2>3. /\ DOMAIN slots'[t] = DOMAIN slots[t]
        /\ slots'[t][i] = [slots[t][i] EXCEPT !.owns = TRUE]
        /\ \A j \in DOMAIN slots[t] : j # i => slots'[t][j] = slots[t][j]
    BY <1>2, <2>1 DEF FdInv, TypeOK
  <2>4. slots'[t][i].owns /\ slots'[t][i].fd_field = n /\ ~slots'[t][i].replied
    <3>1. slots[t][i] \in FdEvent
      BY <1>2
    <3> QED BY <1>2, <2>3, <3>1, OwnsSet
  <2>5. i \in OwningSlots(t)' /\ \A j \in OwningSlots(t) : j \in OwningSlots(t)' /\ slots'[t][j] = slots[t][j]
    BY <1>2, <2>3, <2>4 DEF OwningSlots
  <2>6. ASSUME NEW p \in pending, ClaimedBy(t, p.fd)
        PROVE  ClaimedBy(t, p.fd)'
    <3>1. CASE p.fd = n
      BY <2>4, <2>5, <3>1 DEF ClaimedBy
    <3>2. CASE p.fd # n
      BY <2>2, <2>5, <2>6, <3>2 DEF ClaimedBy
    <3> QED BY <3>1, <3>2
  <2> QED BY <1>1, <2>2, <2>6, PendingSteps
<1>4. CASE ~Adoptable(t, slots[t][i])
  <2>1. UNCHANGED <<slots, adopted, inflight>>
    BY <1>4 DEF Adopt
  <2>2. OthersStay(t)
    BY <1>1, <2>1 DEF OthersStay
  <2>3. \A p \in pending : ClaimedBy(t, p.fd) => ClaimedBy(t, p.fd)'
    BY <2>1, ClaimsKept
  <2> QED BY <1>1, <2>1, <2>2, <2>3, PendingSteps
<1> QED BY <1>3, <1>4

(* The answer goes to the one event that waits under the number. *)
LEMMA PendingRespond ==
  ASSUME FdInv, PendingInv, NEW t \in Threads, NEW i \in DOMAIN slots[t], Respond(t, i)
  PROVE  PendingInv'
<1> DEFINE ev == slots[t][i]
           waiting == {p \in pending : p.fd = ev.fd_field}
<1>1. /\ pc[t] = "idle" /\ ev.owns /\ Reply(t, i)
      /\ UNCHANGED <<table, pc, bytes, at, adopted, inflight, result>>
      /\ \/ \E p \in waiting : /\ pending' = pending \ {p}
                               /\ answers' = answers \cup {[meant |-> ev.ev, hit |-> p.ev]}
         \/ waiting = {} /\ UNCHANGED <<pending, answers>>
  BY DEF Respond, Reply
<1>2. /\ \A u \in Threads : u # t => slots'[u] = slots[u]
      /\ \A j \in DOMAIN slots[t] : j # i => slots'[t][j] = slots[t][j]
      /\ OwningSlots(t)' = OwningSlots(t) /\ i \in OwningSlots(t)
  BY <1>1, Replies DEF FdInv, TypeOK, OwningSlots
<1>3. \A p \in waiting : p.ev = ev.ev
  BY <1>2, SlotIsTheWaiting
<1>4. \A p \in pending' : p \in pending /\ p.fd # ev.fd_field
  <2>1. \A p, q \in waiting : p = q
    <3>1. \A p \in pending : p \in OwnedFd
      BY DEF FdInv, TypeOK
    <3> QED BY <1>3, <3>1 DEF OwnedFd
  <2> HIDE DEF ev
  <2> QED BY <1>1, <2>1
<1>5. \A a \in answers' : a.meant = a.hit
  BY <1>1, <1>3 DEF PendingInv
<1> HIDE DEF waiting
<1>6. ASSUME NEW p \in pending'
      PROVE  p.ev \in Perm /\ table'[p.fd] = p.ev /\ \E u \in Threads : ClaimedBy(u, p.fd)'
  <2>1. p \in pending /\ p.fd # ev.fd_field
    BY <1>4
  <2>2. PICK u \in Threads : ClaimedBy(u, p.fd)
    BY <2>1, Waiting
  <2>3. ClaimedBy(u, p.fd)'
    <3>1. CASE u = t
      <4>1. \A j \in OwningSlots(t) : slots[t][j].fd_field = p.fd => j # i /\ slots'[t][j] = slots[t][j]
        BY <1>2, <2>1 DEF OwningSlots
      <4> QED BY <1>1, <1>2, <2>2, <3>1, <4>1 DEF ClaimedBy
    <3>2. CASE u # t
      BY <1>1, <1>2, <2>2, <3>2, ClaimsKept
    <3> QED BY <3>1, <3>2
  <2> QED BY <1>1, <2>1, <2>3, Waiting
<1>7. \A u \in Threads : pc'[u] = "clear" => Unanswered(u)' = {}
  BY <1>1, <1>2 DEF PendingInv, Unanswered
<1> QED BY <1>5, <1>6, <1>7 DEF PendingInv

(* The other calls of a disciplined caller close no waiting number. *)
LEMMA PendingCaller ==
  ASSUME Disciplined = TRUE, FdInv, PendingInv, NEW t \in Threads, CallerStep(t)
  PROVE  PendingInv'
<1> PICK i \in DOMAIN slots[t] : Respond(t, i) \/ IntoFd(t, i) \/ \E n \in Fds : TryClone(t, i, n)
  BY DEF CallerStep
<1>1. CASE Respond(t, i)
  BY <1>1, PendingRespond
<1>2. CASE IntoFd(t, i)
  <2>1. /\ Disown(t, i) /\ pc[t] = "idle" /\ i \notin Unanswered(t)
        /\ UNCHANGED <<table, pending, answers, pc, bytes, at, adopted, inflight, stop, result>>
    BY <1>2 DEF IntoFd, Disown, kernel
  <2>2. \A p \in pending : ClaimedBy(t, p.fd) => ClaimedBy(t, p.fd)'
    BY <2>1, PendingDisown
  <2>3. OthersStay(t)
    BY <2>1, Disowns DEF OthersStay, FdInv, TypeOK
  <2> QED BY <2>1, <2>2, <2>3, PendingSteps
<1>3. CASE \E n \in Fds : TryClone(t, i, n)
  <2> PICK n \in Fds : TryClone(t, i, n)
    BY <1>3
  <2>1. /\ table[n] = Closed /\ table' = [table EXCEPT ![n] = table[slots[t][i].fd_field]]
        /\ UNCHANGED <<pending, answers, thread>>
    BY DEF TryClone
  <2>2. \A p \in pending : p.fd # n /\ p.fd \in Fds
    BY <2>1, Waiting DEF Foreign
  <2>3. \A p \in pending : table'[p.fd] = table[p.fd]
    BY <2>1, <2>2 DEF FdInv, TypeOK
  <2> QED BY <2>1, <2>3, PendingWorld
<1> QED BY <1>1, <1>2, <1>3

(* Every step keeps it. *)
LEMMA PendingStep ==
  ASSUME Disciplined = TRUE, FdInv, PendingInv, [Next]_vars
  PROVE  PendingInv'
<1>1. CASE \/ \E e \in Events : Raise(e)
           \/ \E n \in Fds : OpenElsewhere(n) \/ CloseElsewhere(n)
           \/ UNCHANGED vars
  <2>1. UNCHANGED <<pending, answers, thread>>
    BY <1>1 DEF Raise, OpenElsewhere, CloseElsewhere, vars, kernel
  <2>2. \A n \in Fds : ~Foreign(n) => table'[n] = table[n]
    BY <1>1 DEF FdInv, TypeOK, Foreign, Raise, OpenElsewhere, CloseElsewhere, vars, kernel
  <2>3. \A p \in pending : table'[p.fd] = table[p.fd]
    BY <2>2, Waiting
  <2> QED BY <2>1, <2>3, PendingWorld
<1>2. ASSUME NEW t \in Threads, ReadStep(t)
      PROVE  PendingInv'
  <2>1. CASE BeginRead(t) \/ EndClear(t) \/ WaitReadable(t) \/ EndRead(t) \/ ReadFails(t, "EAGAIN")
    BY <2>1, PendingPlain DEF WaitReadable
  <2>2. CASE DropSlot(t) \/ Adopt(t)
    BY <2>2, PendingDropSlot, PendingAdopt
  <2>3. CASE \E k \in 1..BatchMax : \E f \in [1..k -> Fds \cup {NoFd}], pidfds \in SUBSET Fds :
               ReadBatch(t, k, f, pidfds)
    BY <2>3, PendingReadBatch
  <2>4. CASE \E known \in Versions : Parse(t, known)
    BY <2>4, PendingParse, FlagsAssumption
  <2> QED BY <1>2, <2>1, <2>2, <2>3, <2>4 DEF ReadStep
<1>3. ASSUME NEW t \in Threads, ReadFails(t, "errno") \/ WaitFails(t)
      PROVE  PendingInv'
  BY <1>3, PendingPlain DEF WaitFails
<1>4. ASSUME NEW t \in Threads, CallerStep(t)
      PROVE  PendingInv'
  BY <1>4, PendingCaller
<1>5. CASE \E h \in held : DropHeld(h)
  <2> PICK h \in held : DropHeld(h)
    BY <1>5
  <2>1. table' = [table EXCEPT ![h.fd] = Closed] /\ UNCHANGED <<pending, answers, thread>>
    BY DEF DropHeld
  <2>2. \A p \in pending : p.fd # h.fd /\ p.fd \in Fds
    BY Waiting DEF FdInv, HeldInv
  <2>3. \A p \in pending : table'[p.fd] = table[p.fd]
    BY <2>1, <2>2 DEF FdInv, TypeOK
  <2> QED BY <2>1, <2>3, PendingWorld
<1> QED BY <1>1, <1>2, <1>3, <1>4, <1>5 DEF Next

(* A caller that answers a batch before it reads the next always answers   *)
(* the event it means, although the kernel matches answers by number and   *)
(* numbers are reused: for any number of threads, whatever versions and    *)
(* pidfds the kernel reports.                                              *)
THEOREM AnswersCorrect == Spec => []AnswerHitsItsEvent
<1>1. CASE Disciplined = TRUE
  <2>1. Init => FdInv /\ PendingInv
    <3>1. Init => PendingInv
      BY DEF Init, PendingInv
    <3> QED BY <3>1, FdInit
  <2>2. FdInv /\ PendingInv /\ [Next]_vars => (FdInv /\ PendingInv)'
    BY <1>1, FdStep, PendingStep
  <2>3. FdInv /\ PendingInv => AnswerHitsItsEvent
    BY DEF PendingInv, AnswerHitsItsEvent
  <2> QED BY <2>1, <2>2, <2>3, PTL DEF Spec
<1>2. CASE Disciplined = FALSE
  <2>1. AnswerHitsItsEvent
    BY <1>2 DEF AnswerHitsItsEvent
  <2> QED BY <2>1, PTL
<1> QED BY <1>1, <1>2, FlagsAssumption
=============================================================================
