-------------------------- MODULE FidReader_proofs --------------------------
(***************************************************************************)
(* Proofs about FidReader, for any finite number of threads, any number of *)
(* descriptors, events and copies, any batch size and whatever else the    *)
(* process opens: a pidfd names its process until its last holder closes   *)
(* it, and none that the kernel installed is lost.                         *)
(***************************************************************************)
EXTENDS FidReader, FiniteSetTheorems, TLAPS

(***************************************************************************)
(* The inductive invariant.  A number the kernel installed is inflight in  *)
(* the thread that read it, then in an Arc or in an OwnedFd; wherever it   *)
(* is, the table has its process under it, which is why the last holder    *)
(* may close it without looking.                                           *)
(***************************************************************************)
(* Somebody is responsible for a number as the pidfd of an event. *)
Has(a) == Live(a) \/ a \in owned

(* The first record of a buffer with its number, for which the kernel      *)
(* installed one.                                                          *)
First(s, i) == s[i].raw # NoFd /\ \A j \in DOMAIN s : j < i => s[j].raw # s[i].raw

(* From record i on nothing is adopted, and what is to be adopted is       *)
(* there.                                                                  *)
ToAdopt(t, i) ==
  \A j \in DOMAIN bytes[t] : j >= i /\ First(bytes[t], j) =>
    /\ bytes[t][j].raw \in inflight[t]
    /\ table[bytes[t][j].raw] = bytes[t][j].ev

(* The numbers of the records before i. *)
Met(t, i) == {bytes[t][j].raw : j \in {m \in DOMAIN bytes[t] : m < i}} \ {NoFd}

(* The slots of a batch, adopted up to at. *)
SlotsInv(t) ==
  /\ DOMAIN slots[t] = DOMAIN bytes[t]
  /\ \A i \in DOMAIN slots[t] : i >= at[t] =>
       slots[t][i] = [ev |-> bytes[t][i].ev, pidfd |-> Unavailable(bytes[t][i].raw)]
  /\ adopted[t] = Met(t, at[t])

PhaseInv(t) ==
  /\ pc[t] \in {"read", "parse"} => slots[t] = <<>>
  /\ pc[t] = "clear" => \A i \in DOMAIN slots[t] : i < at[t] => slots[t][i].pidfd.kind # "Fd"
  /\ pc[t] = "parse" => ToAdopt(t, 1)
  /\ pc[t] = "adopt" =>
       IF stream = "fid" THEN SlotsInv(t) /\ ToAdopt(t, at[t])
       ELSE \A i \in DOMAIN slots[t] : slots[t][i].pidfd = Absent

(* A batch fits the read buffer. *)
BatchFits(t) == Len(bytes[t]) <= BatchMax /\ Len(slots[t]) <= BatchMax

(* What is on its way to a slot is open, and nobody else's. *)
InflightInv ==
  /\ \A t \in Threads : \A n \in inflight[t] :
       table[n] \in Events /\ \A a \in Arcs : Has(a) => a.fd # n
  /\ \A t, u \in Threads : t # u => inflight[t] \cap inflight[u] = {}

(* The pidfds the kernel installed have an owner or are inflight. *)
Owner(n) == \E a \in Arcs : a.fd = n /\ Has(a)

CaredFor == \A n \in Fds : table[n] \in Events => Owner(n) \/ \E t \in Threads : n \in inflight[t]

FidInv ==
  /\ TypeOK
  /\ \A t \in Threads : BatchFits(t) /\ PhaseInv(t)
  /\ InflightInv
  /\ OwnedIsItsProcess
  /\ CaredFor

(* In a stream of FID events, what a thread has inflight is what its adopt *)
(* loop is still to adopt, and nothing between two reads.                  *)
ToCome(t, i) == {bytes[t][j].raw : j \in {m \in DOMAIN bytes[t] : m >= i /\ First(bytes[t], m)}}

LeakThread(t) ==
  /\ pc[t] \notin {"parse", "adopt"} => inflight[t] = {}
  /\ pc[t] = "parse" => inflight[t] = ToCome(t, 1)
  /\ pc[t] = "adopt" => inflight[t] = ToCome(t, at[t])

LeakInv == stream = "fid" => \A t \in Threads : LeakThread(t)

-----------------------------------------------------------------------------
(***************************************************************************)
(* Lemmas: counting references.                                            *)
(***************************************************************************)
(* A count of holders, copies and calls is positive when there is one, and *)
(* one when there is no other.                                             *)
LEMMA Count ==
  ASSUME NEW S, IsFiniteSet(S), NEW c \in Nat, NEW d \in Nat
  PROVE  LET refs == Cardinality(S) + c + d
         IN /\ refs \in Nat
            /\ refs > 0 <=> S # {} \/ c > 0 \/ d > 0
            /\ \A x \in S : refs = 1 <=> S = {x} /\ c = 0 /\ d = 0
            /\ c > 0 => (refs = 1 <=> S = {} /\ c = 1 /\ d = 0)
            /\ d > 0 => (refs = 1 <=> S = {} /\ c = 0 /\ d = 1)
<1>1. Cardinality(S) \in Nat /\ (Cardinality(S) = 0 <=> S = {})
  BY FS_CardinalityType, FS_EmptySet
<1>2. ASSUME NEW x \in S
      PROVE  Cardinality(S) = 1 <=> S = {x}
  <2>1. Cardinality(S) = 1 => \E y : S = {y}
    BY FS_Singleton
  <2>2. Cardinality({x}) = 1
    BY FS_Singleton
  <2> QED BY <2>1, <2>2
<1>3. S # {} => Cardinality(S) >= 1
  BY <1>1
<1> QED BY <1>1, <1>2, <1>3

(* The slots that hold an Arc are finitely many. *)
LEMMA HoldingFinite ==
  ASSUME NEW a
  PROVE  /\ IsFiniteSet(HoldingSlots(a))
         /\ \A t \in Threads, i \in 1..BatchMax : <<t, i>> \in HoldingSlots(a) <=> Holds(t, i, a)
         /\ \A x \in HoldingSlots(a) : \E t \in Threads, i \in 1..BatchMax : x = <<t, i>> /\ Holds(t, i, a)
<1>1. IsFiniteSet(Threads) /\ IsFiniteSet(1..BatchMax)
  BY ThreadsAssumption, BoundsAssumption, FS_Interval DEF Threads
<1>2. IsFiniteSet(Threads \X (1..BatchMax))
  BY <1>1, FS_Product
<1>3. HoldingSlots(a) \subseteq Threads \X (1..BatchMax)
  BY DEF HoldingSlots
<1>4. IsFiniteSet(HoldingSlots(a))
  BY <1>2, <1>3, FS_Subset
<1>5. \A t \in Threads, i \in 1..BatchMax : <<t, i>> \in HoldingSlots(a) <=> Holds(t, i, a)
  BY DEF HoldingSlots
<1>6. \A x \in HoldingSlots(a) : \E t \in Threads, i \in 1..BatchMax : x = <<t, i>> /\ Holds(t, i, a)
  BY DEF HoldingSlots
<1> QED BY <1>4, <1>5, <1>6


(* An Arc is live as long as a slot, a copy or a call holds it. *)
LEMMA LiveMeans ==
  ASSUME NEW a, copies[a] \in Nat, sharing[a] \in Nat
  PROVE  /\ Live(a) <=> HoldingSlots(a) # {} \/ copies[a] > 0 \/ sharing[a] > 0
         /\ \A x \in HoldingSlots(a) :
              Refs(a) = 1 <=> HoldingSlots(a) = {x} /\ copies[a] = 0 /\ sharing[a] = 0
         /\ copies[a] > 0 =>
              (Refs(a) = 1 <=> HoldingSlots(a) = {} /\ copies[a] = 1 /\ sharing[a] = 0)
         /\ sharing[a] > 0 =>
              (Refs(a) = 1 <=> HoldingSlots(a) = {} /\ copies[a] = 0 /\ sharing[a] = 1)
<1>1. IsFiniteSet(HoldingSlots(a))
  BY HoldingFinite
<1> DEFINE S == HoldingSlots(a)
           c == copies[a]
           d == sharing[a]
           refs == Cardinality(S) + c + d
<1>2. c \in Nat /\ d \in Nat
  OBVIOUS
<1>3. Refs(a) = refs /\ (Live(a) <=> refs > 0)
  BY DEF Refs, Live
<1> HIDE DEF S, c, d
<1>4. /\ refs > 0 <=> S # {} \/ c > 0 \/ d > 0
      /\ \A x \in S : refs = 1 <=> S = {x} /\ c = 0 /\ d = 0
      /\ c > 0 => (refs = 1 <=> S = {} /\ c = 1 /\ d = 0)
      /\ d > 0 => (refs = 1 <=> S = {} /\ c = 0 /\ d = 1)
  <2>1. IsFiniteSet(S)
    BY <1>1 DEF S
  <2> QED BY <1>2, <2>1, Count
<1> HIDE DEF refs
<1> QED BY <1>3, <1>4 DEF S, c, d

LEMMA LiveMeansNext ==
  ASSUME NEW a, copies'[a] \in Nat, sharing'[a] \in Nat
  PROVE  Live(a)' <=> HoldingSlots(a)' # {} \/ copies'[a] > 0 \/ sharing'[a] > 0
<1>1. IsFiniteSet(HoldingSlots(a)')
  <2>1. IsFiniteSet(Threads) /\ IsFiniteSet(1..BatchMax)
    BY ThreadsAssumption, BoundsAssumption, FS_Interval DEF Threads
  <2>2. IsFiniteSet(Threads \X (1..BatchMax))
    BY <2>1, FS_Product
  <2>3. HoldingSlots(a)' \subseteq Threads \X (1..BatchMax)
    BY DEF HoldingSlots
  <2> QED BY <2>2, <2>3, FS_Subset
<1>2. (Live(a)' <=> Cardinality(HoldingSlots(a)') + copies'[a] + sharing'[a] > 0)
  BY DEF Live, Refs
<1> QED BY <1>1, <1>2, Count

-----------------------------------------------------------------------------
(***************************************************************************)
(* Lemmas: pidfds, slots, and the close of a last reference.               *)
(***************************************************************************)
(* The variants of a Pidfd. *)
LEMMA Kinds ==
  /\ Absent \in Pidfd /\ Absent.kind = "Absent"
  /\ \A a \in Arcs : Fd(a) \in Pidfd /\ Fd(a).kind = "Fd" /\ Fd(a).arc = a
  /\ \A raw \in Fds \cup {NoFd} :
       /\ Unavailable(raw) \in Pidfd
       /\ Unavailable(raw).kind = "Unavailable"
       /\ Unavailable(raw).raw = raw
  /\ \A p \in Pidfd :
       /\ p.kind = "Fd" => p.arc \in Arcs /\ p = Fd(p.arc)
       /\ p.kind = "Unavailable" => p.raw \in Fds \cup {NoFd} /\ p = Unavailable(p.raw)
<1>1. Absent \in Pidfd /\ Absent.kind = "Absent"
  BY DEF Pidfd, Absent
<1>2. \A a \in Arcs : Fd(a) \in Pidfd /\ Fd(a).kind = "Fd" /\ Fd(a).arc = a
  <2>1. \A a \in Arcs : Fd(a) \in Pidfd
    BY DEF Pidfd
  <2> QED BY <2>1 DEF Fd
<1>3. \A raw \in Fds \cup {NoFd} :
        Unavailable(raw) \in Pidfd /\ Unavailable(raw).kind = "Unavailable" /\ Unavailable(raw).raw = raw
  <2>1. \A raw \in Fds \cup {NoFd} : Unavailable(raw) \in Pidfd
    BY DEF Pidfd
  <2> QED BY <2>1 DEF Unavailable
<1>4. ASSUME NEW p \in Pidfd
      PROVE  /\ p.kind = "Fd" => p.arc \in Arcs /\ p = Fd(p.arc)
             /\ p.kind = "Unavailable" => p.raw \in Fds \cup {NoFd} /\ p = Unavailable(p.raw)
  <2>1. CASE p = Absent
    BY <1>1, <2>1
  <2>2. CASE \E a \in Arcs : p = Fd(a)
    BY <1>2, <2>2
  <2>3. CASE \E raw \in Fds \cup {NoFd} : p = Unavailable(raw)
    BY <1>3, <2>3
  <2> QED BY <2>1, <2>2, <2>3 DEF Pidfd
<1> QED BY <1>1, <1>2, <1>3, <1>4

(* The fields of an Arc, which name it. *)
LEMMA ArcFields ==
  /\ \A a \in Arcs : a.ev \in Events /\ a.fd \in Fds
  /\ \A a, b \in Arcs : a.ev = b.ev /\ a.fd = b.fd => a = b
  /\ \A e \in Events, n \in Fds : [ev |-> e, fd |-> n] \in Arcs
BY DEF Arcs

FidEvent == [ev : Events, pidfd : Pidfd]
Record == [ev : Events, raw : Fds \cup {NoFd}]

(* One slot gets another pidfd. *)
Put(t, i, p) == slots' = [slots EXCEPT ![t][i].pidfd = p]

LEMMA Puts ==
  ASSUME slots \in [Threads -> Seq(FidEvent)], NEW t \in Threads, NEW i \in DOMAIN slots[t],
         NEW p \in Pidfd, Put(t, i, p)
  PROVE  /\ slots' \in [Threads -> Seq(FidEvent)]
         /\ \A u \in Threads : u # t => slots'[u] = slots[u]
         /\ DOMAIN slots'[t] = DOMAIN slots[t]
         /\ Len(slots'[t]) = Len(slots[t])
         /\ slots'[t][i].pidfd = p
         /\ \A j \in DOMAIN slots[t] : j # i => slots'[t][j] = slots[t][j]
<1> DEFINE new == [slots[t][i] EXCEPT !.pidfd = p]
           s == [slots[t] EXCEPT ![i] = new]
<1>1. slots[t] \in Seq(FidEvent) /\ slots[t][i] \in FidEvent
  <2>1. slots[t] \in Seq(FidEvent)
    OBVIOUS
  <2> QED BY <2>1
<1>2. new \in FidEvent /\ new.pidfd = p
  BY <1>1 DEF FidEvent
<1>3. slots' = [slots EXCEPT ![t] = s]
  BY DEF Put
<1> HIDE DEF new
<1>4. /\ s \in Seq(FidEvent) /\ DOMAIN s = DOMAIN slots[t] /\ Len(s) = Len(slots[t]) /\ s[i] = new
      /\ \A j \in DOMAIN slots[t] : j # i => s[j] = slots[t][j]
  BY <1>1, <1>2
<1> HIDE DEF s
<1> QED BY <1>2, <1>3, <1>4

(* Who holds an Arc when one slot changes. *)
LEMMA PutHolding ==
  ASSUME slots \in [Threads -> Seq(FidEvent)], NEW t \in Threads, NEW i \in DOMAIN slots[t],
         Len(slots[t]) <= BatchMax, NEW p \in Pidfd, Put(t, i, p), NEW a
  PROVE  /\ p = Fd(a) => HoldingSlots(a)' = HoldingSlots(a) \cup {<<t, i>>}
         /\ p # Fd(a) => HoldingSlots(a)' = HoldingSlots(a) \ {<<t, i>>}
         /\ <<t, i>> \in HoldingSlots(a) <=> slots[t][i].pidfd = Fd(a)
<1>1. i \in 1..BatchMax
  <2>1. slots[t] \in Seq(FidEvent)
    OBVIOUS
  <2> QED BY <2>1, BoundsAssumption
<1>2. /\ \A u \in Threads : u # t => slots'[u] = slots[u]
      /\ DOMAIN slots'[t] = DOMAIN slots[t]
      /\ slots'[t][i].pidfd = p
      /\ \A j \in DOMAIN slots[t] : j # i => slots'[t][j] = slots[t][j]
  BY Puts
<1>3. \A u \in Threads, j \in 1..BatchMax :
        Holds(u, j, a)' <=> IF u = t /\ j = i THEN p = Fd(a) ELSE Holds(u, j, a)
  BY <1>2 DEF Holds
<1>4. \A x \in Threads \X (1..BatchMax) : x[1] \in Threads /\ x[2] \in 1..BatchMax /\ x = <<x[1], x[2]>>
  OBVIOUS
<1>5. \A x \in Threads \X (1..BatchMax) :
        x \in HoldingSlots(a)' <=> IF x = <<t, i>> THEN p = Fd(a) ELSE x \in HoldingSlots(a)
  BY <1>1, <1>3, <1>4 DEF HoldingSlots
<1>6. HoldingSlots(a) \subseteq Threads \X (1..BatchMax) /\ HoldingSlots(a)' \subseteq Threads \X (1..BatchMax)
  BY DEF HoldingSlots
<1>7. <<t, i>> \in Threads \X (1..BatchMax)
  BY <1>1
<1>8. <<t, i>> \in HoldingSlots(a) <=> slots[t][i].pidfd = Fd(a)
  BY <1>7 DEF HoldingSlots, Holds
<1> QED BY <1>5, <1>6, <1>7, <1>8

(* The close of a last reference touches nobody else's number. *)
LEMMA ReleaseRefKeeps ==
  ASSUME FidInv, NEW b \in Arcs, Live(b)
  PROVE  /\ ReleaseRef(b) \in [Fds -> Events \cup {Closed, Elsewhere}]
         /\ \A n \in Fds : ReleaseRef(b)[n] = table[n] \/ (n = b.fd /\ Refs(b) = 1 /\ ReleaseRef(b)[n] = Closed)
         /\ \A a \in Arcs : Has(a) /\ (a # b \/ Refs(b) # 1) => ReleaseRef(b)[a.fd] = a.ev
         /\ \A t \in Threads : \A n \in inflight[t] : ReleaseRef(b)[n] = table[n]
<1>1. /\ table \in [Fds -> Events \cup {Closed, Elsewhere}]
      /\ \A a \in Arcs : Has(a) => table[a.fd] = a.ev
      /\ \A t \in Threads : \A n \in inflight[t] : n \in Fds /\ n # b.fd
  BY DEF FidInv, TypeOK, OwnedIsItsProcess, InflightInv, Has
<1>2. table[b.fd] = b.ev
  BY <1>1 DEF Has
<1>3. \A n \in Fds : ReleaseRef(b)[n] = IF n = b.fd /\ Refs(b) = 1 THEN Closed ELSE table[n]
  BY <1>1 DEF ReleaseRef
<1>4. ReleaseRef(b) \in [Fds -> Events \cup {Closed, Elsewhere}]
  BY <1>1, ArcFields DEF ReleaseRef
<1>5. ASSUME NEW a \in Arcs, Has(a), a # b \/ Refs(b) # 1
      PROVE  ReleaseRef(b)[a.fd] = a.ev
  BY <1>1, <1>2, <1>3, <1>5, ArcFields
<1> QED BY <1>1, <1>3, <1>4, <1>5


-----------------------------------------------------------------------------
(***************************************************************************)
(* Lemmas: what a step of one party leaves to the others.                  *)
(***************************************************************************)
LEMMA Typed ==
  ASSUME FidInv
  PROVE  /\ slots \in [Threads -> Seq(FidEvent)]
         /\ \A a \in Arcs : copies[a] \in Nat /\ sharing[a] \in Nat
         /\ \A t \in Threads : inflight[t] \subseteq Fds
         /\ owned \subseteq Arcs
         /\ \A t \in Threads : \A i \in DOMAIN slots[t] : slots[t][i].pidfd \in Pidfd /\ slots[t][i].ev \in Events
         /\ \A a \in Arcs : Has(a) => table[a.fd] = a.ev
         /\ \A e \in Events : e # Closed /\ e # Elsewhere
<1>1. TypeOK
  BY DEF FidInv
<1>2. slots \in [Threads -> Seq(FidEvent)]
  BY <1>1 DEF TypeOK, FidEvent
<1>3. ASSUME NEW t \in Threads, NEW i \in DOMAIN slots[t]
      PROVE  slots[t][i].pidfd \in Pidfd /\ slots[t][i].ev \in Events
  <2>1. slots[t] \in Seq(FidEvent)
    BY <1>2
  <2>2. slots[t][i] \in FidEvent
    BY <2>1
  <2> QED BY <2>2 DEF FidEvent
<1>4. \A a \in Arcs : copies[a] \in Nat /\ sharing[a] \in Nat
  BY <1>1, BoundsAssumption DEF TypeOK
<1>5. owned \subseteq Arcs /\ \A t \in Threads : inflight[t] \subseteq Fds
  BY <1>1 DEF TypeOK
<1> QED BY <1>2, <1>3, <1>4, <1>5, SentinelsAssumption DEF FidInv, OwnedIsItsProcess, Has

(* Holders that do not change. *)
LEMMA SameHolders ==
  ASSUME NEW a, \A t \in Threads, i \in 1..BatchMax : Holds(t, i, a)' <=> Holds(t, i, a)
  PROVE  HoldingSlots(a)' = HoldingSlots(a)
BY DEF HoldingSlots

(* An Arc of which nothing changes. *)
LEMMA SameArcs ==
  ASSUME NEW a, HoldingSlots(a)' = HoldingSlots(a), copies'[a] = copies[a], sharing'[a] = sharing[a]
  PROVE  Live(a)' <=> Live(a)
BY DEF Live, Refs

(* What is live and what is owned, when no slot and no caller changes. *)
LEMMA NothingHandedOver ==
  ASSUME UNCHANGED <<slots, callers>>, NEW a
  PROVE  (Live(a)' <=> Live(a)) /\ (Has(a)' <=> Has(a))
<1>1. HoldingSlots(a)' = HoldingSlots(a)
  BY SameHolders DEF Holds
<1> QED BY <1>1, SameArcs DEF Has, callers

(* A thread that does not step. *)
LEMMA ThreadKept ==
  ASSUME NEW t \in Threads, FidInv, stream' = stream,
         pc'[t] = pc[t], bytes'[t] = bytes[t], slots'[t] = slots[t], at'[t] = at[t],
         adopted'[t] = adopted[t], inflight'[t] = inflight[t],
         \A n \in inflight[t] : table'[n] = table[n]
  PROVE  BatchFits(t)' /\ PhaseInv(t)'
<1>1. BatchFits(t) /\ PhaseInv(t)
  BY DEF FidInv
<1>2. SlotsInv(t) => SlotsInv(t)'
  BY DEF SlotsInv, Met
<1>3. /\ ToAdopt(t, 1) => ToAdopt(t, 1)'
      /\ ToAdopt(t, at[t]) => ToAdopt(t, at[t])'
  BY DEF ToAdopt
<1> QED BY <1>1, <1>2, <1>3 DEF BatchFits, PhaseInv

(* The other threads, when one steps. *)
OthersStay(t) ==
  \A u \in Threads \ {t} :
    /\ pc'[u] = pc[u] /\ bytes'[u] = bytes[u] /\ slots'[u] = slots[u] /\ at'[u] = at[u]
    /\ adopted'[u] = adopted[u] /\ inflight'[u] = inflight[u]

(* A step of one thread: it gets responsible for what it had inflight, and *)
(* has inflight what was closed.                                           *)
LEMMA ThreadSteps ==
  ASSUME FidInv, NEW t \in Threads, TypeOK', stream' = stream, OthersStay(t),
         BatchFits(t)', PhaseInv(t)', OwnedIsItsProcess',
         \A u \in Threads \ {t} : \A n \in inflight[u] : table'[n] = table[n],
         \A n \in inflight'[t] : table'[n] \in Events /\ (n \in inflight[t] \/ table[n] = Closed),
         \A a \in Arcs : Has(a)' => Has(a) \/ (a.fd \in inflight[t] /\ a.fd \notin inflight'[t]),
         \A a \in Arcs : Has(a) => Has(a)' \/ table'[a.fd] \notin Events,
         \A n \in inflight[t] : n \in inflight'[t] \/ Owner(n)',
         \A n \in Fds : table'[n] \in Events => table[n] \in Events \/ n \in inflight'[t]
  PROVE  FidInv'
<1>1. ASSUME NEW u \in Threads \ {t}
      PROVE  BatchFits(u)' /\ PhaseInv(u)' /\ inflight'[u] = inflight[u]
  BY ThreadKept DEF OthersStay
<1>2. \A u \in Threads : \A n \in inflight[u] : table[n] \in Events /\ table[n] # Closed
  BY Typed DEF FidInv, InflightInv
<1>3. ASSUME NEW u \in Threads, NEW n \in inflight'[u]
      PROVE  table'[n] \in Events
  BY <1>1, <1>2
<1>4. ASSUME NEW u \in Threads, NEW n \in inflight'[u], NEW a \in Arcs, Has(a)'
      PROVE  a.fd # n
  <2>1. CASE Has(a)
    <3>1. table[a.fd] # Closed
      BY <2>1, Typed, ArcFields
    <3>2. n \in inflight[u] => a.fd # n
      BY <2>1 DEF FidInv, InflightInv
    <3> QED BY <1>1, <3>1, <3>2
  <2>2. CASE a.fd \in inflight[t] /\ a.fd \notin inflight'[t]
    BY <1>1, <2>2 DEF FidInv, InflightInv
  <2> QED BY <1>4, <2>1, <2>2
<1>5. \A u, v \in Threads : u # v => inflight'[u] \cap inflight'[v] = {}
  BY <1>1, <1>2 DEF FidInv, InflightInv
<1>6. InflightInv'
  BY <1>3, <1>4, <1>5 DEF InflightInv
<1>7. CaredFor'
  BY <1>1 DEF FidInv, CaredFor, Owner
<1> QED BY <1>1, <1>6, <1>7 DEF FidInv

(* A step of no reading thread. *)
LEMMA WorldSteps ==
  ASSUME FidInv, TypeOK', stream' = stream, UNCHANGED thread, OwnedIsItsProcess',
         \A u \in Threads : \A n \in inflight[u] : table'[n] = table[n],
         \A a \in Arcs : Has(a)' => Has(a) \/ table[a.fd] = Closed,
         \A a \in Arcs : Has(a) => Has(a)' \/ table'[a.fd] \notin Events,
         \A n \in Fds : table'[n] \in Events => table[n] \in Events \/ Owner(n)'
  PROVE  FidInv'
<1>1. ASSUME NEW u \in Threads
      PROVE  BatchFits(u)' /\ PhaseInv(u)' /\ inflight'[u] = inflight[u]
  BY ThreadKept DEF thread
<1>2. \A u \in Threads : \A n \in inflight[u] : table[n] \in Events /\ table[n] # Closed
  BY Typed DEF FidInv, InflightInv
<1>3. InflightInv'
  <2>1. ASSUME NEW u \in Threads, NEW n \in inflight'[u]
        PROVE  table'[n] \in Events /\ \A a \in Arcs : Has(a)' => a.fd # n
    BY <1>1, <1>2 DEF FidInv, InflightInv
  <2>2. \A u, v \in Threads : u # v => inflight'[u] \cap inflight'[v] = {}
    BY <1>1 DEF FidInv, InflightInv
  <2> QED BY <2>1, <2>2 DEF InflightInv
<1>4. CaredFor'
  BY <1>1 DEF FidInv, CaredFor, Owner
<1> QED BY <1>1, <1>3, <1>4 DEF FidInv

-----------------------------------------------------------------------------
(***************************************************************************)
(* The steps keep the invariant.                                           *)
(***************************************************************************)
LEMMA FidInit == Init => FidInv
<1> SUFFICES ASSUME Init PROVE FidInv
  OBVIOUS
<1>1. TypeOK
  <2>1. <<>> \in Seq(FidEvent) /\ <<>> \in Seq([ev : Events, raw : Fds \cup {NoFd}]) /\ <<>> \in Seq(Events)
    OBVIOUS
  <2> QED BY <2>1, BoundsAssumption DEF Init, TypeOK, FidEvent
<1>2. ASSUME NEW a \in Arcs
      PROVE  ~Has(a)
  <2>1. HoldingSlots(a) = {}
    BY DEF Init, HoldingSlots, Holds
  <2>2. copies[a] = 0 /\ sharing[a] = 0 /\ a \notin owned
    BY DEF Init
  <2> QED BY <2>1, <2>2, LiveMeans DEF Has
<1>3. ASSUME NEW t \in Threads
      PROVE  BatchFits(t) /\ PhaseInv(t) /\ inflight[t] = {}
  BY BoundsAssumption DEF Init, BatchFits, PhaseInv
<1>4. InflightInv /\ OwnedIsItsProcess
  BY <1>1, <1>2, <1>3 DEF InflightInv, OwnedIsItsProcess, Has, TypeOK
<1>5. CaredFor
  BY SentinelsAssumption DEF Init, CaredFor
<1> QED BY <1>1, <1>3, <1>4, <1>5 DEF FidInv

(* Other code raises events and opens and closes files. *)
LEMMA WorldKeeps ==
  ASSUME FidInv,
         \/ \E e \in Events : Raise(e)
         \/ \E n \in Fds : OpenElsewhere(n) \/ CloseElsewhere(n)
  PROVE  FidInv'
<1>1. UNCHANGED <<stream, thread, callers>>
  BY DEF Raise, OpenElsewhere, CloseElsewhere
<1>2. \A n \in Fds : table[n] \in Events => table'[n] = table[n]
  BY Typed DEF FidInv, TypeOK, Raise, OpenElsewhere, CloseElsewhere
<1>3. TypeOK'
  <2>1. table' \in [Fds -> Events \cup {Closed, Elsewhere}]
    BY DEF FidInv, TypeOK, Raise, OpenElsewhere, CloseElsewhere
  <2>2. queue' \in Seq(Events) /\ raised' \in SUBSET Events
    <3>1. ASSUME NEW e \in Events, Raise(e)
          PROVE  queue' \in Seq(Events) /\ raised' \in SUBSET Events
      BY <3>1 DEF FidInv, TypeOK, Raise
    <3>2. ASSUME NEW n \in Fds, OpenElsewhere(n) \/ CloseElsewhere(n)
          PROVE  queue' = queue /\ raised' = raised
      BY <3>2 DEF OpenElsewhere, CloseElsewhere
    <3> QED BY <3>1, <3>2 DEF FidInv, TypeOK
  <2> QED BY <1>1, <2>1, <2>2 DEF FidInv, TypeOK, thread, callers
<1>4. \A a \in Arcs : (Live(a)' <=> Live(a)) /\ (Has(a)' <=> Has(a))
  BY <1>1, NothingHandedOver DEF thread
<1>5. OwnedIsItsProcess'
  <2>1. ASSUME NEW a \in Arcs, Has(a) PROVE table'[a.fd] = a.ev
    BY <1>2, <2>1, Typed, ArcFields
  <2> QED BY <1>1, <1>4, <2>1, Typed DEF OwnedIsItsProcess, FidInv, Has, callers
<1>6. \A u \in Threads : \A n \in inflight[u] : table'[n] = table[n]
  BY <1>2, Typed DEF FidInv, InflightInv
<1>7. \A n \in Fds : table'[n] \in Events => table[n] \in Events
  BY SentinelsAssumption DEF FidInv, TypeOK, Raise, OpenElsewhere, CloseElsewhere
<1> QED BY <1>1, <1>3, <1>4, <1>5, <1>6, <1>7, WorldSteps

(* A step of a thread that hands nothing over and leaves the table alone. *)
LEMMA QuietStep ==
  ASSUME FidInv, NEW t \in Threads, TypeOK', stream' = stream, OthersStay(t), table' = table,
         inflight' = inflight, callers' = callers, BatchFits(t)', PhaseInv(t)',
         \A a \in Arcs : HoldingSlots(a)' = HoldingSlots(a)
  PROVE  FidInv'
<1>1. ASSUME NEW a \in Arcs
      PROVE  (Live(a)' <=> Live(a)) /\ (Has(a)' <=> Has(a))
  BY SameArcs DEF callers, Has
<1>2. OwnedIsItsProcess'
  BY <1>1, Typed DEF FidInv, OwnedIsItsProcess, callers
<1>3. \A n \in inflight'[t] : table'[n] \in Events
  BY DEF FidInv, InflightInv
<1> QED BY <1>1, <1>2, <1>3, ThreadSteps


(* A read begins. *)
LEMMA BeginReadKeeps ==
  ASSUME FidInv, NEW t \in Threads, BeginRead(t)
  PROVE  FidInv'
<1>1. /\ pc' = [pc EXCEPT ![t] = "clear"] /\ at' = [at EXCEPT ![t] = 1]
      /\ bytes' = [bytes EXCEPT ![t] = IF t \in Readers THEN <<>> ELSE bytes[t]]
      /\ UNCHANGED <<kernel, slots, adopted, inflight, result, callers>>
  BY DEF BeginRead
<1>2. bytes' \in [Threads -> Seq(Record)]
      /\ bytes'[t] \in {<<>>, bytes[t]}
  <2>1. <<>> \in Seq(Record)
    OBVIOUS
  <2> QED BY <1>1, <2>1 DEF FidInv, TypeOK, Record
<1>3. TypeOK' /\ OthersStay(t)
  <2>1. /\ pc' \in [Threads -> {"idle", "clear", "read", "parse", "adopt"}]
        /\ at' \in [Threads -> Nat \ {0}]
    BY <1>1 DEF FidInv, TypeOK
  <2>2. TypeOK'
    BY <1>1, <1>2, <2>1 DEF FidInv, TypeOK, kernel, callers, Record
  <2>3. OthersStay(t)
    BY <1>1 DEF OthersStay, FidInv, TypeOK
  <2> QED BY <2>2, <2>3
<1>4. pc'[t] = "clear" /\ at'[t] = 1
  BY <1>1 DEF FidInv, TypeOK
<1>5. PhaseInv(t)'
  <2>1. \A i \in DOMAIN slots'[t] : ~(i < 1)
    BY <1>1 DEF FidInv, TypeOK
  <2> QED BY <1>4, <2>1 DEF PhaseInv
<1>6. BatchFits(t)'
  BY <1>1, <1>2, BoundsAssumption DEF FidInv, BatchFits
<1>7. \A a \in Arcs : HoldingSlots(a)' = HoldingSlots(a)
  BY <1>1, SameHolders DEF Holds
<1> QED BY <1>1, <1>3, <1>5, <1>6, <1>7, QuietStep DEF kernel

(* The slots of a thread without a pidfd are forgotten or filled. *)
LEMMA EmptyHolders ==
  ASSUME NEW t \in Threads, \A u \in Threads : u # t => slots'[u] = slots[u],
         \A i \in DOMAIN slots[t] : slots[t][i].pidfd.kind # "Fd",
         \A i \in DOMAIN slots'[t] : slots'[t][i].pidfd.kind # "Fd",
         NEW a \in Arcs
  PROVE  HoldingSlots(a)' = HoldingSlots(a)
<1>1. Fd(a).kind = "Fd"
  BY Kinds
<1>2. ASSUME NEW u \in Threads, NEW i \in 1..BatchMax
      PROVE  Holds(u, i, a)' <=> Holds(u, i, a)
  BY <1>1 DEF Holds
<1> QED BY <1>2, SameHolders

(* The last slot was dropped. *)
LEMMA EndClearKeeps ==
  ASSUME FidInv, NEW t \in Threads, EndClear(t)
  PROVE  FidInv'
<1>1. /\ pc[t] = "clear" /\ at[t] \notin DOMAIN slots[t]
      /\ pc' = [pc EXCEPT ![t] = "read"] /\ slots' = [slots EXCEPT ![t] = <<>>]
      /\ UNCHANGED <<kernel, bytes, at, adopted, inflight, result, callers>>
  BY DEF EndClear
<1>2. slots' \in [Threads -> Seq(FidEvent)] /\ slots'[t] = <<>> /\ \A u \in Threads : u # t => slots'[u] = slots[u]
  <2>1. <<>> \in Seq(FidEvent)
    OBVIOUS
  <2> QED BY <1>1, <2>1, Typed
<1>3. TypeOK' /\ OthersStay(t)
  BY <1>1, <1>2 DEF FidInv, TypeOK, OthersStay, kernel, callers, Record, FidEvent
<1>4. pc'[t] = "read"
  BY <1>1 DEF FidInv, TypeOK
<1>5. PhaseInv(t)' /\ BatchFits(t)'
  BY <1>1, <1>2, <1>4, BoundsAssumption DEF FidInv, PhaseInv, BatchFits
<1>6. \A i \in DOMAIN slots[t] : slots[t][i].pidfd.kind # "Fd"
  <2>1. slots[t] \in Seq(FidEvent) /\ at[t] \in Nat \ {0}
    BY Typed DEF FidInv, TypeOK
  <2>2. \A i \in DOMAIN slots[t] : i < at[t]
    BY <1>1, <2>1
  <2> QED BY <1>1, <2>2 DEF FidInv, PhaseInv
<1>7. \A a \in Arcs : HoldingSlots(a)' = HoldingSlots(a)
  BY <1>2, <1>6, EmptyHolders
<1> QED BY <1>1, <1>3, <1>5, <1>7, QuietStep DEF kernel

(* read(2) fails. *)
LEMMA ReadFailsKeeps ==
  ASSUME FidInv, NEW t \in Threads, ReadFails(t)
  PROVE  FidInv'
<1>1. /\ pc[t] = "read" /\ pc' = [pc EXCEPT ![t] = "idle"] /\ bytes' = [bytes EXCEPT ![t] = <<>>]
      /\ result' = [result EXCEPT ![t] = "errno"]
      /\ UNCHANGED <<kernel, slots, at, adopted, inflight, callers>>
  BY DEF ReadFails
<1>2. bytes' \in [Threads -> Seq(Record)] /\ bytes'[t] = <<>>
  <2>1. <<>> \in Seq(Record)
    OBVIOUS
  <2> QED BY <1>1, <2>1 DEF FidInv, TypeOK, Record
<1>3. TypeOK' /\ OthersStay(t)
  BY <1>1, <1>2 DEF FidInv, TypeOK, OthersStay, kernel, callers, Record
<1>4. pc'[t] = "idle"
  BY <1>1 DEF FidInv, TypeOK
<1>5. PhaseInv(t)' /\ BatchFits(t)'
  BY <1>1, <1>2, <1>4, BoundsAssumption DEF FidInv, PhaseInv, BatchFits
<1>6. \A a \in Arcs : HoldingSlots(a)' = HoldingSlots(a)
  BY <1>1, SameHolders DEF Holds
<1> QED BY <1>1, <1>3, <1>5, <1>6, QuietStep DEF kernel

(* A batch was adopted to its end. *)
LEMMA EndReadKeeps ==
  ASSUME FidInv, NEW t \in Threads, EndRead(t)
  PROVE  FidInv'
<1>1. /\ pc' = [pc EXCEPT ![t] = "idle"]
      /\ result' = [result EXCEPT ![t] = IF stream = "unknown" THEN "UnknownEventVersion" ELSE "ok"]
      /\ UNCHANGED <<kernel, bytes, slots, at, adopted, inflight, callers>>
  BY DEF EndRead
<1>2. TypeOK' /\ OthersStay(t)
  BY <1>1 DEF FidInv, TypeOK, OthersStay, kernel, callers
<1>3. pc'[t] = "idle"
  BY <1>1 DEF FidInv, TypeOK
<1>4. PhaseInv(t)' /\ BatchFits(t)'
  BY <1>1, <1>3 DEF FidInv, PhaseInv, BatchFits
<1>5. \A a \in Arcs : HoldingSlots(a)' = HoldingSlots(a)
  BY <1>1, SameHolders DEF Holds
<1> QED BY <1>1, <1>2, <1>4, <1>5, QuietStep DEF kernel

(* The buffer is parsed: nothing adopted yet. *)
LEMMA ParseKeeps ==
  ASSUME FidInv, NEW t \in Threads, Parse(t)
  PROVE  FidInv'
<1> DEFINE new == [i \in DOMAIN bytes[t] |-> Unadopted(bytes[t][i])]
           s == IF stream = "unknown" THEN <<>> ELSE new
<1>1. /\ pc[t] = "parse" /\ slots' = [slots EXCEPT ![t] = s]
      /\ adopted' = [adopted EXCEPT ![t] = {}] /\ at' = [at EXCEPT ![t] = 1]
      /\ pc' = [pc EXCEPT ![t] = "adopt"]
      /\ UNCHANGED <<kernel, bytes, inflight, result, callers>>
  BY DEF Parse
<1>2. bytes[t] \in Seq(Record) /\ Len(bytes[t]) <= BatchMax
  BY DEF FidInv, TypeOK, BatchFits, Record
<1>3. \A h \in Record :
        /\ Unadopted(h) \in FidEvent
        /\ Unadopted(h).pidfd.kind # "Fd"
        /\ Unadopted(h).pidfd = (IF stream = "fid" THEN Unavailable(h.raw) ELSE Absent)
        /\ Unadopted(h) = [ev |-> h.ev, pidfd |-> IF stream = "fid" THEN Unavailable(h.raw) ELSE Absent]
  <2>1. ASSUME NEW h \in Record
        PROVE  Unadopted(h) \in FidEvent /\ Unadopted(h).pidfd.kind # "Fd"
    <3>1. h.ev \in Events /\ h.raw \in Fds \cup {NoFd}
      BY DEF Record
    <3>2. /\ Absent \in Pidfd /\ Absent.kind # "Fd"
          /\ Unavailable(h.raw) \in Pidfd /\ Unavailable(h.raw).kind # "Fd"
      BY <3>1, Kinds
    <3> QED BY <3>1, <3>2 DEF Unadopted, FidEvent
  <2> QED BY <2>1 DEF Unadopted
<1>4. /\ new \in Seq(FidEvent) /\ Len(new) = Len(bytes[t]) /\ DOMAIN new = DOMAIN bytes[t]
      /\ \A i \in DOMAIN new :
           /\ new[i].pidfd.kind # "Fd"
           /\ new[i].pidfd = (IF stream = "fid" THEN Unavailable(bytes[t][i].raw) ELSE Absent)
           /\ new[i] = [ev |-> bytes[t][i].ev,
                        pidfd |-> IF stream = "fid" THEN Unavailable(bytes[t][i].raw) ELSE Absent]
  <2>1. /\ DOMAIN bytes[t] = 1..Len(bytes[t]) /\ Len(bytes[t]) \in Nat
        /\ \A i \in DOMAIN bytes[t] : bytes[t][i] \in Record
    <3> HIDE DEF new, s
    <3> QED BY <1>2
  <2>2. \A i \in DOMAIN bytes[t] : new[i] = Unadopted(bytes[t][i])
    OBVIOUS
  <2>3. new \in Seq(FidEvent) /\ Len(new) = Len(bytes[t]) /\ DOMAIN new = DOMAIN bytes[t]
    BY <1>3, <2>1
  <2> HIDE DEF new
  <2> QED BY <1>3, <2>1, <2>2, <2>3
<1> HIDE DEF new
<1>5. s \in Seq(FidEvent) /\ Len(s) <= BatchMax /\ \A i \in DOMAIN s : s[i].pidfd.kind # "Fd"
  <2>1. <<>> \in Seq(FidEvent) /\ Len(<<>>) = 0 /\ DOMAIN <<>> = {}
    OBVIOUS
  <2>2. CASE stream = "unknown"
    BY <2>1, <2>2, BoundsAssumption
  <2>3. CASE stream # "unknown"
    BY <1>2, <1>4, <2>3
  <2> QED BY <2>2, <2>3
<1> HIDE DEF s
<1>6. slots'[t] = s /\ slots' \in [Threads -> Seq(FidEvent)] /\ \A u \in Threads : u # t => slots'[u] = slots[u]
  BY <1>1, <1>5, Typed
<1>7. at'[t] = 1 /\ adopted'[t] = {} /\ pc'[t] = "adopt"
  BY <1>1 DEF FidInv, TypeOK
<1>8. TypeOK' /\ OthersStay(t)
  <2>1. /\ pc' \in [Threads -> {"idle", "clear", "read", "parse", "adopt"}]
        /\ at' \in [Threads -> Nat \ {0}] /\ adopted' \in [Threads -> SUBSET Fds]
    BY <1>1 DEF FidInv, TypeOK
  <2>2. TypeOK'
    BY <1>1, <1>6, <2>1 DEF FidInv, TypeOK, kernel, callers, FidEvent
  <2>3. OthersStay(t)
    BY <1>1, <1>6 DEF OthersStay, FidInv, TypeOK
  <2> QED BY <2>2, <2>3
<1>9. BatchFits(t)'
  BY <1>1, <1>5, <1>6, <1>2 DEF BatchFits
<1>10. PhaseInv(t)'
  <2>1. CASE stream = "fid"
    <3>1. ToAdopt(t, 1)
      BY <1>1 DEF FidInv, PhaseInv
    <3>2. ToAdopt(t, at[t])'
      BY <1>1, <1>7, <3>1 DEF ToAdopt, kernel
    <3>3. {m \in DOMAIN bytes[t] : m < 1} = {}
      BY <1>2
    <3>4. Met(t, at[t])' = {}
      BY <1>1, <1>7, <3>3 DEF Met
    <3>5. s = new
      BY <2>1 DEF s
    <3>6. SlotsInv(t)'
      BY <1>1, <1>4, <1>6, <1>7, <2>1, <3>4, <3>5 DEF SlotsInv
    <3> QED BY <1>1, <1>7, <2>1, <3>2, <3>6 DEF PhaseInv, kernel
  <2>2. CASE stream # "fid"
    <3>1. \A i \in DOMAIN s : s[i].pidfd = Absent
      <4>1. CASE stream = "unknown"
        BY <4>1 DEF s
      <4>2. CASE stream # "unknown"
        BY <1>4, <2>2, <4>2 DEF s
      <4> QED BY <4>1, <4>2
    <3> QED BY <1>1, <1>6, <1>7, <2>2, <3>1 DEF PhaseInv, kernel
  <2> QED BY <2>1, <2>2
<1>11. \A a \in Arcs : HoldingSlots(a)' = HoldingSlots(a)
  <2>1. slots[t] = <<>>
    BY <1>1 DEF FidInv, PhaseInv
  <2> QED BY <1>5, <1>6, <2>1, EmptyHolders
<1> QED BY <1>1, <1>8, <1>9, <1>10, <1>11, QuietStep DEF kernel


(* A slot gets another pidfd, p, and the Arc it held is let go: the number *)
(* is closed exactly when nothing else holds that Arc.                     *)
LEMMA PutReleases ==
  ASSUME FidInv, NEW t \in Threads, NEW i \in DOMAIN slots[t], NEW p \in Pidfd, Put(t, i, p),
         table' = Release(slots[t][i].pidfd), copies' = copies, sharing' = sharing,
         \A a \in Arcs : p = Fd(a) => ~Live(a)
  PROVE  /\ table' \in [Fds -> Events \cup {Closed, Elsewhere}]
         /\ \A a \in Arcs : Live(a)' => p = Fd(a) \/ (Live(a) /\ table'[a.fd] = a.ev)
         /\ \A a \in Arcs : a \in owned => table'[a.fd] = a.ev
         /\ \A a \in Arcs : p = Fd(a) => Live(a)'
         /\ \A a \in Arcs : Live(a) => Live(a)' \/ table'[a.fd] = Closed
         /\ \A u \in Threads : \A n \in inflight[u] : table'[n] = table[n]
         /\ \A n \in Fds : table'[n] = table[n] \/ table'[n] = Closed
<1> DEFINE old == slots[t][i].pidfd
<1>1. slots \in [Threads -> Seq(FidEvent)] /\ Len(slots[t]) <= BatchMax /\ old \in Pidfd
  BY Typed DEF FidInv, BatchFits
<1>2. ASSUME NEW a \in Arcs
      PROVE  /\ p = Fd(a) => HoldingSlots(a)' = HoldingSlots(a) \cup {<<t, i>>}
             /\ p # Fd(a) => HoldingSlots(a)' = HoldingSlots(a) \ {<<t, i>>}
             /\ <<t, i>> \in HoldingSlots(a) <=> old = Fd(a)
  BY <1>1, PutHolding
<1>3. ASSUME NEW a \in Arcs
      PROVE  copies[a] \in Nat /\ sharing[a] \in Nat /\ copies'[a] = copies[a] /\ sharing'[a] = sharing[a]
  BY Typed
<1> HIDE DEF old
<1>4. ASSUME NEW a \in Arcs, p = Fd(a)
      PROVE  Live(a)'
  BY <1>2, <1>3, <1>4, LiveMeansNext
<1>5. ASSUME NEW a \in Arcs, p # Fd(a), old # Fd(a)
      PROVE  Live(a)' <=> Live(a)
  <2>1. HoldingSlots(a)' = HoldingSlots(a)
    BY <1>2, <1>5
  <2> QED BY <1>3, <2>1, SameArcs
<1>6. CASE old.kind = "Fd"
  <2>1. PICK b \in Arcs : old = Fd(b) /\ table' = ReleaseRef(b)
    BY <1>1, <1>6, Kinds DEF Release, old
  <2>2. <<t, i>> \in HoldingSlots(b) /\ copies[b] \in Nat /\ sharing[b] \in Nat
    BY <1>2, <1>3, <2>1
  <2>3. Live(b) /\ (Refs(b) = 1 <=> HoldingSlots(b) = {<<t, i>>} /\ copies[b] = 0 /\ sharing[b] = 0)
    BY <2>2, LiveMeans
  <2>4. p # Fd(b)
    BY <2>1, <2>3
  <2>5. Live(b)' <=> Refs(b) # 1
    <3>1. HoldingSlots(b)' = HoldingSlots(b) \ {<<t, i>>} /\ copies'[b] = copies[b] /\ sharing'[b] = sharing[b]
      BY <1>2, <1>3, <2>1, <2>4
    <3>2. Live(b)' <=> HoldingSlots(b)' # {} \/ copies'[b] > 0 \/ sharing'[b] > 0
      BY <2>2, <3>1, LiveMeansNext
    <3> QED BY <2>2, <2>3, <3>1, <3>2
  <2>6. /\ table' \in [Fds -> Events \cup {Closed, Elsewhere}]
        /\ \A n \in Fds : table'[n] = table[n] \/ (n = b.fd /\ Refs(b) = 1 /\ table'[n] = Closed)
        /\ \A a \in Arcs : Has(a) /\ (a # b \/ Refs(b) # 1) => table'[a.fd] = a.ev
        /\ \A u \in Threads : \A n \in inflight[u] : table'[n] = table[n]
    BY <2>1, <2>3, ReleaseRefKeeps
  <2>7. Refs(b) = 1 => table'[b.fd] = Closed
    BY <2>1, <2>3, Typed, ArcFields DEF ReleaseRef, FidInv, TypeOK
  <2>8. \A a \in Arcs : a # b => old # Fd(a)
    BY <2>1, Kinds
  <2>9. ASSUME NEW a \in Arcs, Live(a)', p # Fd(a)
        PROVE  Live(a) /\ table'[a.fd] = a.ev
    <3>1. CASE a = b
      BY <2>3, <2>5, <2>6, <2>9, <3>1 DEF Has
    <3>2. CASE a # b
      BY <1>5, <2>6, <2>8, <2>9, <3>2 DEF Has
    <3> QED BY <3>1, <3>2
  <2>10. ASSUME NEW a \in Arcs, a \in owned
         PROVE  table'[a.fd] = a.ev
    <3>1. a # b
      BY <2>3, <2>10 DEF FidInv, OwnedIsItsProcess
    <3> QED BY <2>6, <2>10, <3>1 DEF Has
  <2>11. ASSUME NEW a \in Arcs, Live(a)
         PROVE  Live(a)' \/ table'[a.fd] = Closed
    BY <1>4, <1>5, <2>5, <2>7, <2>8, <2>11
  <2> QED BY <1>4, <2>6, <2>9, <2>10, <2>11
<1>7. CASE old.kind # "Fd"
  <2>1. table' = table /\ \A a \in Arcs : old # Fd(a)
    BY <1>1, <1>7, Kinds DEF Release, old
  <2>2. ASSUME NEW a \in Arcs
        PROVE  /\ Has(a) => table'[a.fd] = a.ev
               /\ p # Fd(a) => (Live(a)' <=> Live(a))
    BY <1>5, <2>1, Typed
  <2> QED BY <1>4, <2>1, <2>2 DEF Has, FidInv, TypeOK
<1> QED BY <1>6, <1>7

(* An event of the previous batch is dropped. *)
LEMMA DropSlotKeeps ==
  ASSUME FidInv, NEW t \in Threads, DropSlot(t)
  PROVE  FidInv'
<1> DEFINE i == at[t]
<1>1. /\ pc[t] = "clear" /\ i \in DOMAIN slots[t]
      /\ table' = Release(slots[t][i].pidfd)
      /\ Put(t, i, Absent)
      /\ at' = [at EXCEPT ![t] = i + 1]
      /\ UNCHANGED <<stream, queue, raised, pc, bytes, adopted, inflight, result, callers>>
  BY DEF DropSlot, Put
<1>2. Absent \in Pidfd /\ \A a \in Arcs : Absent # Fd(a)
  BY Kinds
<1>3. /\ table' \in [Fds -> Events \cup {Closed, Elsewhere}]
      /\ \A a \in Arcs : Live(a)' => Live(a) /\ table'[a.fd] = a.ev
      /\ \A a \in Arcs : a \in owned => table'[a.fd] = a.ev
      /\ \A a \in Arcs : Live(a) => Live(a)' \/ table'[a.fd] = Closed
      /\ \A u \in Threads : \A n \in inflight[u] : table'[n] = table[n]
      /\ \A n \in Fds : table'[n] = table[n] \/ table'[n] = Closed
  BY <1>1, <1>2, PutReleases DEF callers
<1>4. /\ slots' \in [Threads -> Seq(FidEvent)]
      /\ \A u \in Threads : u # t => slots'[u] = slots[u]
      /\ DOMAIN slots'[t] = DOMAIN slots[t] /\ Len(slots'[t]) = Len(slots[t])
      /\ slots'[t][i].pidfd = Absent
      /\ \A j \in DOMAIN slots[t] : j # i => slots'[t][j] = slots[t][j]
  BY <1>1, <1>2, Puts, Typed
<1>5. at' \in [Threads -> Nat \ {0}] /\ at'[t] = i + 1 /\ \A u \in Threads : u # t => at'[u] = at[u]
  BY <1>1 DEF FidInv, TypeOK
<1>6. TypeOK' /\ OthersStay(t)
  <2>1. TypeOK'
    BY <1>1, <1>3, <1>4, <1>5 DEF FidInv, TypeOK, callers, FidEvent
  <2> QED BY <1>1, <1>4, <1>5, <2>1 DEF OthersStay
<1>7. BatchFits(t)'
  BY <1>1, <1>4 DEF FidInv, BatchFits
<1>8. PhaseInv(t)'
  <2>1. PhaseInv(t) /\ slots[t] \in Seq(FidEvent) /\ i \in Nat
    BY Typed DEF FidInv, TypeOK
  <2>2. \A j \in DOMAIN slots[t] : j < i + 1 => j < i \/ j = i
    BY <2>1
  <2>3. \A j \in DOMAIN slots'[t] : j < i + 1 => slots'[t][j].pidfd.kind # "Fd"
    BY <1>1, <1>4, <2>1, <2>2, Kinds DEF PhaseInv
  <2> QED BY <1>1, <1>5, <2>3 DEF PhaseInv
<1>9. OwnedIsItsProcess'
  BY <1>1, <1>3, Typed DEF OwnedIsItsProcess, FidInv, callers
<1>10. \A a \in Arcs : Has(a)' => Has(a)
  BY <1>1, <1>3 DEF Has, callers
<1>11. \A n \in inflight'[t] : table'[n] \in Events /\ n \in inflight[t]
  BY <1>1, <1>3 DEF FidInv, InflightInv
<1>12. \A a \in Arcs : Has(a) => Has(a)' \/ table'[a.fd] \notin Events
  BY <1>1, <1>3, SentinelsAssumption DEF Has, callers
<1>13. \A n \in Fds : table'[n] \in Events => table[n] \in Events
  BY <1>3, SentinelsAssumption
<1> QED BY <1>1, <1>3, <1>6, <1>7, <1>8, <1>9, <1>10, <1>11, <1>12, <1>13, ThreadSteps


(* What a read does to the descriptor table. *)
LEMMA ReadInstalls ==
  ASSUME FidInv, NEW t \in Threads, NEW k \in 1..BatchMax, NEW f \in [1..k -> Fds \cup {NoFd}],
         ReadBatch(t, k, f)
  PROVE  /\ table' \in [Fds -> Events \cup {Closed, Elsewhere}]
         /\ \A i \in Fresh(k, f) : i \in 1..k /\ f[i] \in Fds /\ table[f[i]] = Closed /\ table'[f[i]] = queue[i]
         /\ \A n \in Fds : n \notin {f[i] : i \in Fresh(k, f)} => table'[n] = table[n]
         /\ \A i \in 1..k : queue[i] \in Events
<1> DEFINE fresh == Fresh(k, f)
           new == {f[i] : i \in fresh}
<1>1. /\ table' = [n \in Fds |-> IF n \in new THEN queue[CHOOSE i \in fresh : f[i] = n] ELSE table[n]]
      /\ k <= Len(queue) /\ Installs(k, f)
  BY DEF ReadBatch
<1>2. k \in Nat /\ queue \in Seq(Events) /\ table \in [Fds -> Events \cup {Closed, Elsewhere}]
  BY BoundsAssumption DEF FidInv, TypeOK
<1>3. \A i \in 1..k : queue[i] \in Events
  BY <1>1, <1>2
<1>4. \A i \in fresh : i \in 1..k /\ f[i] \in Fds /\ table[f[i]] = Closed
  BY <1>1 DEF Fresh, Installs
<1>5. ASSUME NEW i \in fresh, NEW j \in fresh, f[i] = f[j]
      PROVE  i = j
  <2>1. i \in 1..k /\ j \in 1..k /\ i \in Nat /\ j \in Nat
    BY <1>2, <1>4
  <2>2. ~(i < j) /\ ~(j < i)
    BY <1>5, <2>1 DEF Fresh
  <2> QED BY <2>1, <2>2
<1> HIDE DEF fresh
<1>6. ASSUME NEW i \in fresh
      PROVE  table'[f[i]] = queue[i]
  <2>1. f[i] \in new /\ f[i] \in Fds
    BY <1>4
  <2>2. (CHOOSE j \in fresh : f[j] = f[i]) = i
    BY <1>5
  <2> HIDE DEF new
  <2> QED BY <1>1, <2>1, <2>2
<1>7. \A n \in new : \E i \in fresh : n = f[i]
  OBVIOUS
<1>8. table' \in [Fds -> Events \cup {Closed, Elsewhere}]
  <2>1. ASSUME NEW n \in Fds PROVE table'[n] \in Events \cup {Closed, Elsewhere}
    <3>1. CASE n \in new
      BY <1>3, <1>4, <1>6, <1>7, <3>1
    <3>2. CASE n \notin new
      <4> HIDE DEF new
      <4> QED BY <1>1, <1>2, <3>2
    <3> QED BY <3>1, <3>2
  <2>2. table' = [n \in Fds |-> table'[n]]
    <3> HIDE DEF new
    <3> QED BY <1>1
  <2> QED BY <2>1, <2>2
<1>9. \A n \in Fds : n \notin new => table'[n] = table[n]
  <2> HIDE DEF new
  <2> QED BY <1>1
<1> QED BY <1>3, <1>4, <1>6, <1>8, <1>9 DEF fresh

(* The kernel's batch arrives. *)
LEMMA ReadBatchKeeps ==
  ASSUME FidInv, NEW t \in Threads, NEW k \in 1..BatchMax, NEW f \in [1..k -> Fds \cup {NoFd}],
         ReadBatch(t, k, f)
  PROVE  FidInv'
<1> DEFINE fresh == Fresh(k, f)
           new == {f[i] : i \in fresh}
           read == [i \in 1..k |-> [ev |-> queue[i], raw |-> f[i]]]
<1>1. /\ table' \in [Fds -> Events \cup {Closed, Elsewhere}]
      /\ \A i \in fresh : i \in 1..k /\ f[i] \in Fds /\ table[f[i]] = Closed /\ table'[f[i]] = queue[i]
      /\ \A n \in Fds : n \notin new => table'[n] = table[n]
      /\ \A i \in 1..k : queue[i] \in Events
  BY ReadInstalls
<1>2. /\ pc[t] = "read" /\ queue' = SubSeq(queue, k + 1, Len(queue)) /\ k <= Len(queue)
      /\ bytes' = [bytes EXCEPT ![t] = read]
      /\ inflight' = [inflight EXCEPT ![t] = inflight[t] \cup new]
      /\ pc' = [pc EXCEPT ![t] = "parse"]
      /\ UNCHANGED <<stream, raised, slots, at, adopted, result, callers>>
  BY DEF ReadBatch
<1>3. k \in Nat /\ k <= BatchMax /\ queue \in Seq(Events)
  BY BoundsAssumption DEF FidInv, TypeOK
<1>4. queue' \in Seq(Events)
  BY <1>2, <1>3
<1>5. /\ read \in Seq(Record) /\ Len(read) = k /\ DOMAIN read = 1..k
      /\ \A i \in 1..k : read[i].ev = queue[i] /\ read[i].raw = f[i]
  <2>1. \A i \in 1..k : [ev |-> queue[i], raw |-> f[i]] \in Record
    BY <1>1 DEF Record
  <2> QED BY <1>3, <2>1
<1> HIDE DEF read
<1>6. ASSUME NEW i \in 1..k, First(read, i)
      PROVE  i \in fresh
  <2>1. f[i] # NoFd /\ i \in Nat
    BY <1>3, <1>5, <1>6 DEF First
  <2>2. ASSUME NEW j \in 1..(i - 1)
        PROVE  f[j] # f[i]
    <3>1. j \in 1..k /\ j < i
      BY <1>3, <2>1
    <3> QED BY <1>5, <1>6, <3>1 DEF First
  <2> QED BY <2>1, <2>2 DEF Fresh
<1> HIDE DEF fresh
<1>7. \A n \in new : n \in Fds /\ table[n] = Closed /\ table'[n] \in Events
  BY <1>1
<1>8. \A i \in fresh : f[i] \in new
  OBVIOUS
<1> HIDE DEF new
<1>9. /\ pc'[t] = "parse" /\ bytes'[t] = read /\ inflight'[t] = inflight[t] \cup new
      /\ pc' \in [Threads -> {"idle", "clear", "read", "parse", "adopt"}]
      /\ bytes' \in [Threads -> Seq(Record)] /\ inflight' \in [Threads -> SUBSET Fds]
      /\ OthersStay(t)
  <2>1. new \in SUBSET Fds
    BY <1>7
  <2>2. bytes \in [Threads -> Seq(Record)] /\ inflight \in [Threads -> SUBSET Fds]
        /\ pc \in [Threads -> {"idle", "clear", "read", "parse", "adopt"}]
    BY DEF FidInv, TypeOK, Record
  <2> QED BY <1>2, <1>5, <2>1, <2>2 DEF OthersStay
<1>10. TypeOK'
  BY <1>1, <1>2, <1>4, <1>9 DEF FidInv, TypeOK, callers, Record
<1>11. slots'[t] = <<>> /\ slots[t] = <<>>
  BY <1>2 DEF FidInv, PhaseInv
<1>12. BatchFits(t)'
  BY <1>2, <1>3, <1>5, <1>9 DEF FidInv, BatchFits
<1>13. PhaseInv(t)'
  <2>1. ToAdopt(t, 1)'
    BY <1>1, <1>5, <1>6, <1>8, <1>9 DEF ToAdopt
  <2> QED BY <1>9, <1>11, <2>1 DEF PhaseInv
<1>14. \A a \in Arcs : (Live(a)' <=> Live(a)) /\ (Has(a)' <=> Has(a))
  BY <1>2, NothingHandedOver
<1>15. \A n \in Fds : table[n] # Closed => table'[n] = table[n]
  BY <1>1, <1>7
<1>16. OwnedIsItsProcess'
  <2>1. ASSUME NEW a \in Arcs, Has(a) PROVE table'[a.fd] = a.ev
    BY <1>15, <2>1, Typed, ArcFields
  <2> QED BY <1>2, <1>14, <2>1, Typed DEF OwnedIsItsProcess, FidInv, Has, callers
<1>17. \A u \in Threads : \A n \in inflight[u] : table'[n] = table[n] /\ table[n] \in Events
  BY <1>15, Typed DEF FidInv, InflightInv
<1>18. \A n \in inflight'[t] : table'[n] \in Events /\ (n \in inflight[t] \/ table[n] = Closed)
  BY <1>7, <1>9, <1>17
<1>19. \A n \in inflight[t] : n \in inflight'[t]
  BY <1>9
<1>20. \A n \in Fds : table'[n] \in Events => table[n] \in Events \/ n \in inflight'[t]
  BY <1>1, <1>9
<1> QED BY <1>2, <1>9, <1>10, <1>12, <1>13, <1>14, <1>16, <1>17, <1>18, <1>19, <1>20, ThreadSteps

(* The pidfd at slot `at` is adopted exactly when its record is the first  *)
(* with its number, and then the number is on its way to that slot.        *)
LEMMA AdoptsTheFirst ==
  ASSUME FidInv, NEW t \in Threads, pc[t] = "adopt", at[t] \in DOMAIN slots[t]
  PROVE  LET i == at[t]
             p == slots[t][i].pidfd
         IN /\ stream # "fid" => p = Absent /\ ~Adoptable(t, p)
            /\ stream = "fid" =>
                 /\ SlotsInv(t) /\ ToAdopt(t, i) /\ i \in DOMAIN bytes[t]
                 /\ slots[t][i].ev = bytes[t][i].ev
                 /\ p.raw = bytes[t][i].raw /\ p.kind # "Fd"
                 /\ Adoptable(t, p) <=> First(bytes[t], i)
                 /\ ~Adoptable(t, p) => bytes[t][i].raw = NoFd \/ bytes[t][i].raw \in Met(t, i)
                 /\ Adoptable(t, p) =>
                      /\ bytes[t][i].raw \in inflight[t] /\ bytes[t][i].raw # NoFd
                      /\ table[bytes[t][i].raw] = bytes[t][i].ev
<1> DEFINE i == at[t]
           p == slots[t][i].pidfd
<1>1. PhaseInv(t) /\ bytes[t] \in Seq(Record) /\ i \in Nat
  BY DEF FidInv, TypeOK, Record
<1>2. CASE stream # "fid"
  BY <1>1, <1>2, Kinds DEF PhaseInv, Adoptable
<1>3. CASE stream = "fid"
  <2>1. SlotsInv(t) /\ ToAdopt(t, i)
    BY <1>1, <1>3 DEF PhaseInv
  <2>2. i \in DOMAIN bytes[t] /\ slots[t][i] = [ev |-> bytes[t][i].ev, pidfd |-> Unavailable(bytes[t][i].raw)]
        /\ adopted[t] = Met(t, i)
    BY <1>1, <2>1 DEF SlotsInv
  <2>3. bytes[t][i] \in Record
    BY <1>1, <2>2
  <2>4. p = Unavailable(bytes[t][i].raw) /\ slots[t][i].ev = bytes[t][i].ev /\ bytes[t][i].raw \in Fds \cup {NoFd}
    BY <2>2, <2>3 DEF Record
  <2>5. p.raw = bytes[t][i].raw /\ p.kind = "Unavailable"
    BY <2>4, Kinds
  <2>6. Adoptable(t, p) <=> bytes[t][i].raw # NoFd /\ bytes[t][i].raw \notin Met(t, i)
    <3> HIDE DEF p
    <3> QED BY <2>2, <2>5 DEF Adoptable
  <2>7. First(bytes[t], i) <=> bytes[t][i].raw # NoFd /\ bytes[t][i].raw \notin Met(t, i)
    BY DEF First, Met
  <2> HIDE DEF p
  <2>8. First(bytes[t], i) => bytes[t][i].raw \in inflight[t] /\ table[bytes[t][i].raw] = bytes[t][i].ev
    BY <1>1, <2>1, <2>2 DEF ToAdopt
  <2> QED BY <1>3, <2>1, <2>2, <2>4, <2>5, <2>6, <2>7, <2>8 DEF p
<1> QED BY <1>2, <1>3

(* The numbers met after record i. *)
LEMMA MetGrows ==
  ASSUME NEW t, bytes[t] \in Seq(Record), NEW i \in DOMAIN bytes[t]
  PROVE  Met(t, i + 1) = Met(t, i) \cup ({bytes[t][i].raw} \ {NoFd})
<1>1. {m \in DOMAIN bytes[t] : m < i + 1} = {m \in DOMAIN bytes[t] : m < i} \cup {i}
  OBVIOUS
<1> QED BY <1>1 DEF Met

(* The adopt loop passes over a slot. *)
LEMMA AdoptPasses ==
  ASSUME FidInv, NEW t \in Threads, Adopt(t), ~Adoptable(t, slots[t][at[t]].pidfd)
  PROVE  FidInv'
<1> DEFINE i == at[t]
<1>1. /\ pc[t] = "adopt" /\ i \in DOMAIN slots[t] /\ at' = [at EXCEPT ![t] = i + 1]
      /\ UNCHANGED <<kernel, pc, bytes, slots, adopted, inflight, result, callers>>
  BY DEF Adopt
<1>2. at' \in [Threads -> Nat \ {0}] /\ at'[t] = i + 1 /\ \A u \in Threads : u # t => at'[u] = at[u]
  BY <1>1 DEF FidInv, TypeOK
<1>3. TypeOK' /\ OthersStay(t)
  BY <1>1, <1>2 DEF FidInv, TypeOK, OthersStay, kernel, callers
<1>4. BatchFits(t)'
  BY <1>1 DEF FidInv, BatchFits
<1>5. PhaseInv(t)'
  <2>1. CASE stream = "fid"
    <3>1. /\ SlotsInv(t) /\ ToAdopt(t, i) /\ i \in DOMAIN bytes[t] /\ bytes[t] \in Seq(Record) /\ i \in Nat
          /\ bytes[t][i].raw = NoFd \/ bytes[t][i].raw \in Met(t, i)
      BY <1>1, <2>1, AdoptsTheFirst DEF FidInv, TypeOK, Record
    <3>2. Met(t, i + 1) = Met(t, i)
      <4>1. Met(t, i + 1) = Met(t, i) \cup ({bytes[t][i].raw} \ {NoFd})
        BY <3>1, MetGrows
      <4> QED BY <3>1, <4>1
    <3>3. SlotsInv(t)'
      <4>1. Met(t, at[t])' = Met(t, i + 1)
        BY <1>1, <1>2 DEF Met
      <4>2. \A j \in DOMAIN slots[t] : j >= i + 1 => j >= i
        BY <3>1 DEF SlotsInv
      <4> QED BY <1>1, <1>2, <3>1, <3>2, <4>1, <4>2 DEF SlotsInv
    <3>4. ToAdopt(t, at[t])'
      <4>1. \A j \in DOMAIN bytes[t] : j >= i + 1 => j >= i
        BY <3>1
      <4> QED BY <1>1, <1>2, <3>1, <4>1 DEF ToAdopt, kernel
    <3> QED BY <1>1, <2>1, <3>3, <3>4 DEF PhaseInv, kernel
  <2>2. CASE stream # "fid"
    BY <1>1, <2>2 DEF FidInv, PhaseInv, kernel
  <2> QED BY <2>1, <2>2
<1>6. \A a \in Arcs : HoldingSlots(a)' = HoldingSlots(a)
  BY <1>1, SameHolders DEF Holds
<1> QED BY <1>1, <1>3, <1>4, <1>5, <1>6, QuietStep DEF kernel

(* It adopts a pidfd: the number leaves inflight for an Arc of its own. *)
LEMMA AdoptTakes ==
  ASSUME FidInv, NEW t \in Threads, Adopt(t), Adoptable(t, slots[t][at[t]].pidfd)
  PROVE  FidInv'
<1> DEFINE i == at[t]
<1>1. /\ pc[t] = "adopt" /\ i \in DOMAIN slots[t] /\ at' = [at EXCEPT ![t] = i + 1]
      /\ Put(t, i, Fd([ev |-> slots[t][i].ev, fd |-> slots[t][i].pidfd.raw]))
      /\ adopted' = [adopted EXCEPT ![t] = adopted[t] \cup {slots[t][i].pidfd.raw}]
      /\ inflight' = [inflight EXCEPT ![t] = inflight[t] \ {slots[t][i].pidfd.raw}]
      /\ UNCHANGED <<kernel, pc, bytes, result, callers>>
  BY DEF Adopt, Put
<1>2. /\ stream = "fid" /\ SlotsInv(t) /\ ToAdopt(t, i) /\ i \in DOMAIN bytes[t]
      /\ slots[t][i].ev = bytes[t][i].ev /\ slots[t][i].pidfd.raw = bytes[t][i].raw
      /\ slots[t][i].pidfd.kind # "Fd" /\ First(bytes[t], i)
      /\ bytes[t][i].raw \in inflight[t] /\ bytes[t][i].raw # NoFd
      /\ table[bytes[t][i].raw] = bytes[t][i].ev
  BY <1>1, AdoptsTheFirst
<1>3. PICK b : b = [ev |-> bytes[t][i].ev, fd |-> bytes[t][i].raw]
  OBVIOUS
<1>4. /\ b \in Arcs /\ b.fd = bytes[t][i].raw /\ b.ev = bytes[t][i].ev
      /\ bytes[t] \in Seq(Record) /\ i \in Nat
  <2>1. bytes[t] \in Seq(Record) /\ i \in Nat
    BY DEF FidInv, TypeOK, Record
  <2>2. bytes[t][i] \in Record
    BY <1>2, <2>1
  <2> QED BY <1>2, <1>3, <2>1, <2>2 DEF Record, Arcs
<1>5. /\ Put(t, i, Fd(b)) /\ Fd(b) \in Pidfd
      /\ adopted' = [adopted EXCEPT ![t] = adopted[t] \cup {b.fd}]
      /\ inflight' = [inflight EXCEPT ![t] = inflight[t] \ {b.fd}]
  BY <1>1, <1>2, <1>3, <1>4, Kinds
<1>6. b.fd \in inflight[t] /\ table[b.fd] = b.ev /\ b.fd \in Fds
  BY <1>2, <1>4, Typed
<1>7. \A a \in Arcs : Has(a) => a.fd # b.fd
  BY <1>6 DEF FidInv, InflightInv
<1>8. /\ slots' \in [Threads -> Seq(FidEvent)]
      /\ \A u \in Threads : u # t => slots'[u] = slots[u]
      /\ DOMAIN slots'[t] = DOMAIN slots[t] /\ Len(slots'[t]) = Len(slots[t])
      /\ \A j \in DOMAIN slots[t] : j # i => slots'[t][j] = slots[t][j]
  BY <1>1, <1>5, Puts, Typed
<1>9. at' \in [Threads -> Nat \ {0}] /\ at'[t] = i + 1 /\ \A u \in Threads : u # t => at'[u] = at[u]
  BY <1>1 DEF FidInv, TypeOK
<1>10. /\ adopted' \in [Threads -> SUBSET Fds] /\ adopted'[t] = adopted[t] \cup {b.fd}
       /\ \A u \in Threads : u # t => adopted'[u] = adopted[u]
  BY <1>5, <1>6 DEF FidInv, TypeOK
<1>11. /\ inflight' \in [Threads -> SUBSET Fds] /\ inflight'[t] = inflight[t] \ {b.fd}
       /\ \A u \in Threads : u # t => inflight'[u] = inflight[u]
  BY <1>5 DEF FidInv, TypeOK
<1>12. TypeOK' /\ OthersStay(t)
  <2>1. TypeOK'
    BY <1>1, <1>8, <1>9, <1>10, <1>11 DEF FidInv, TypeOK, kernel, callers, FidEvent
  <2> QED BY <1>1, <1>8, <1>9, <1>10, <1>11, <2>1 DEF OthersStay
<1>13. BatchFits(t)'
  BY <1>1, <1>8 DEF FidInv, BatchFits
<1>14. PhaseInv(t)'
  <2>1. SlotsInv(t)'
    <3>1. Met(t, at[t])' = Met(t, i + 1)
      BY <1>1, <1>9 DEF Met
    <3>2. Met(t, i + 1) = Met(t, i) \cup {b.fd}
      BY <1>2, <1>4, MetGrows
    <3>3. \A j \in DOMAIN slots[t] : j >= i + 1 => j >= i /\ j # i
      BY <1>2, <1>4 DEF SlotsInv
    <3> QED BY <1>1, <1>2, <1>8, <1>9, <1>10, <3>1, <3>2, <3>3 DEF SlotsInv
  <2>2. ToAdopt(t, at[t])'
    <3>1. \A j \in DOMAIN bytes[t] : j >= i + 1 /\ First(bytes[t], j) => j >= i /\ bytes[t][j].raw # b.fd
      BY <1>2, <1>4 DEF First
    <3> QED BY <1>1, <1>2, <1>9, <1>11, <3>1 DEF ToAdopt, kernel
  <2> QED BY <1>1, <1>2, <2>1, <2>2 DEF PhaseInv, kernel
<1>15. ASSUME NEW a \in Arcs, a # b
       PROVE  Live(a)' <=> Live(a)
  <2>1. Fd(a) # Fd(b) /\ slots[t][i].pidfd # Fd(a)
    BY <1>2, <1>4, <1>15, Kinds
  <2>2. HoldingSlots(a)' = HoldingSlots(a) \ {<<t, i>>} /\ <<t, i>> \notin HoldingSlots(a)
    BY <1>1, <1>5, <2>1, PutHolding, Typed DEF FidInv, BatchFits
  <2>3. HoldingSlots(a)' = HoldingSlots(a)
    BY <2>2
  <2> QED BY <1>1, <2>3, SameArcs DEF callers
<1>16. OwnedIsItsProcess'
  <2>1. b \notin owned
    BY <1>4, <1>7 DEF Has
  <2>2. ASSUME NEW a \in Arcs, Live(a)' \/ a \in owned
        PROVE  table[a.fd] = a.ev
    <3>1. CASE a = b
      BY <1>6, <3>1
    <3>2. CASE a # b
      BY <1>15, <2>2, <3>2, Typed DEF Has
    <3> QED BY <3>1, <3>2
  <2>3. ASSUME NEW a \in owned
        PROVE  ~Live(a)'
    BY <1>15, <2>1, Typed DEF FidInv, OwnedIsItsProcess
  <2> QED BY <1>1, <2>2, <2>3 DEF OwnedIsItsProcess, kernel, callers
<1>17. \A a \in Arcs : Has(a)' => Has(a) \/ (a.fd \in inflight[t] /\ a.fd \notin inflight'[t])
  BY <1>1, <1>6, <1>11, <1>15 DEF Has, callers
<1>18. \A n \in inflight'[t] : table'[n] \in Events /\ n \in inflight[t]
  BY <1>1, <1>11 DEF FidInv, InflightInv, kernel
<1>19. Has(b)'
  <2>1. HoldingSlots(b)' # {}
    <3>1. PICK m : m = i
      OBVIOUS
    <3>2. m \in DOMAIN slots[t] /\ Put(t, m, Fd(b)) /\ Len(slots[t]) <= BatchMax
      BY <1>1, <1>5, <3>1 DEF FidInv, BatchFits
    <3>3. HoldingSlots(b)' = HoldingSlots(b) \cup {<<t, m>>}
      BY <1>5, <3>2, PutHolding, Typed
    <3> QED BY <3>3
  <2>2. copies'[b] \in Nat /\ sharing'[b] \in Nat
    BY <1>1, <1>4, Typed DEF callers
  <2> QED BY <2>1, <2>2, LiveMeansNext DEF Has
<1>20. \A a \in Arcs : Has(a) => Has(a)'
  BY <1>1, <1>15, <1>19 DEF Has, callers
<1>21. \A n \in inflight[t] : n \in inflight'[t] \/ Owner(n)'
  BY <1>4, <1>11, <1>19 DEF Owner
<1> QED BY <1>1, <1>12, <1>13, <1>14, <1>16, <1>17, <1>18, <1>20, <1>21, ThreadSteps DEF kernel

LEMMA AdoptKeeps ==
  ASSUME FidInv, NEW t \in Threads, Adopt(t)
  PROVE  FidInv'
BY AdoptPasses, AdoptTakes

(* A step of a thread's read. *)
LEMMA ReadStepKeeps ==
  ASSUME FidInv, NEW t \in Threads, ReadStep(t)
  PROVE  FidInv'
<1>1. CASE \E k \in 1..BatchMax : \E f \in [1..k -> Fds \cup {NoFd}] : ReadBatch(t, k, f)
  BY <1>1, ReadBatchKeeps
<1> QED
  BY <1>1, BeginReadKeeps, DropSlotKeeps, EndClearKeeps, ReadFailsKeeps, ParseKeeps, AdoptKeeps,
     EndReadKeeps DEF ReadStep

-----------------------------------------------------------------------------
(* A copy, or a call, lets its reference go. *)
LetsGo(b) ==
  /\ slots' = slots
  /\ \/ copies[b] > 0 /\ copies' = [copies EXCEPT ![b] = copies[b] - 1] /\ sharing' = sharing
     \/ sharing[b] > 0 /\ sharing' = [sharing EXCEPT ![b] = sharing[b] - 1] /\ copies' = copies

LEMMA LettingGo ==
  ASSUME FidInv, NEW b \in Arcs, LetsGo(b)
  PROVE  /\ Live(b) /\ (Live(b)' <=> Refs(b) # 1)
         /\ \A a \in Arcs : a # b => (Live(a)' <=> Live(a))
         /\ copies' \in [Arcs -> 0..MaxCopies] /\ sharing' \in [Arcs -> 0..MaxCopies]
<1>1. copies \in [Arcs -> 0..MaxCopies] /\ sharing \in [Arcs -> 0..MaxCopies] /\ MaxCopies \in Nat
  BY BoundsAssumption DEF FidInv, TypeOK
<1>2. copies[b] \in 0..MaxCopies /\ sharing[b] \in 0..MaxCopies
  BY <1>1
<1>3. copies' \in [Arcs -> 0..MaxCopies] /\ sharing' \in [Arcs -> 0..MaxCopies]
  <2>1. copies[b] > 0 => copies[b] - 1 \in 0..MaxCopies
    BY <1>1, <1>2
  <2>2. sharing[b] > 0 => sharing[b] - 1 \in 0..MaxCopies
    BY <1>1, <1>2
  <2> QED BY <1>1, <2>1, <2>2 DEF LetsGo
<1>4. \A a \in Arcs : HoldingSlots(a)' = HoldingSlots(a)
  BY SameHolders DEF Holds, LetsGo
<1>5. \A a \in Arcs : a # b => copies'[a] = copies[a] /\ sharing'[a] = sharing[a]
  BY <1>1 DEF LetsGo
<1>6. \A a \in Arcs : a # b => (Live(a)' <=> Live(a))
  BY <1>4, <1>5, SameArcs
<1>7. copies[b] \in Nat /\ sharing[b] \in Nat /\ copies'[b] \in Nat /\ sharing'[b] \in Nat
  BY <1>1, <1>3
<1>8. \/ copies[b] > 0 /\ copies'[b] = copies[b] - 1 /\ sharing'[b] = sharing[b]
      \/ sharing[b] > 0 /\ sharing'[b] = sharing[b] - 1 /\ copies'[b] = copies[b]
  BY <1>1 DEF LetsGo
<1>9. /\ Live(b) <=> HoldingSlots(b) # {} \/ copies[b] > 0 \/ sharing[b] > 0
      /\ copies[b] > 0 => (Refs(b) = 1 <=> HoldingSlots(b) = {} /\ copies[b] = 1 /\ sharing[b] = 0)
      /\ sharing[b] > 0 => (Refs(b) = 1 <=> HoldingSlots(b) = {} /\ copies[b] = 0 /\ sharing[b] = 1)
  BY <1>7, LiveMeans
<1>10. Live(b)' <=> HoldingSlots(b) # {} \/ copies'[b] > 0 \/ sharing'[b] > 0
  BY <1>4, <1>7, LiveMeansNext
<1> QED BY <1>3, <1>6, <1>7, <1>8, <1>9, <1>10

(* A clone shares the Arc. *)
LEMMA CloneKeeps ==
  ASSUME FidInv, NEW t \in Threads, NEW i \in DOMAIN slots[t], CloneEvent(t, i)
  PROVE  FidInv'
<1>1. slots[t][i].pidfd \in Pidfd /\ slots[t][i].pidfd.kind = "Fd"
  BY Typed DEF CloneEvent
<1>2. PICK b \in Arcs : slots[t][i].pidfd = Fd(b)
  BY <1>1, Kinds
<1>3. /\ copies[b] < MaxCopies /\ copies' = [copies EXCEPT ![b] = copies[b] + 1]
      /\ UNCHANGED <<kernel, thread, sharing, owned>>
  BY <1>2, Kinds DEF CloneEvent
<1>4. copies \in [Arcs -> 0..MaxCopies] /\ MaxCopies \in Nat
  BY BoundsAssumption DEF FidInv, TypeOK
<1>5. copies' \in [Arcs -> 0..MaxCopies] /\ copies'[b] \in Nat /\ copies'[b] > 0
      /\ \A a \in Arcs : a # b => copies'[a] = copies[a]
  <2>1. copies[b] \in 0..MaxCopies
    BY <1>4
  <2>2. copies[b] + 1 \in 0..MaxCopies /\ copies[b] + 1 > 0
    BY <1>3, <1>4, <2>1
  <2> QED BY <1>3, <1>4, <2>2
<1>6. TypeOK'
  BY <1>3, <1>5 DEF FidInv, TypeOK, kernel, thread
<1>7. Live(b)
  <2>1. Holds(t, i, b) /\ i \in 1..BatchMax
    BY <1>2, Typed, BoundsAssumption DEF Holds, FidInv, BatchFits
  <2>2. <<t, i>> \in HoldingSlots(b)
    BY <2>1 DEF HoldingSlots
  <2> QED BY <2>2, LiveMeans, Typed
<1>8. \A a \in Arcs : HoldingSlots(a)' = HoldingSlots(a)
  BY <1>3, SameHolders DEF Holds, thread
<1>9. \A a \in Arcs : Live(a)' <=> Live(a)
  <2>1. Live(b)'
    BY <1>3, <1>5, Typed, LiveMeansNext
  <2>2. \A a \in Arcs : a # b => (Live(a)' <=> Live(a))
    BY <1>3, <1>5, <1>8, SameArcs
  <2> QED BY <1>7, <2>1, <2>2
<1>10. OwnedIsItsProcess'
  BY <1>3, <1>9, Typed DEF FidInv, OwnedIsItsProcess, kernel
<1> QED BY <1>3, <1>6, <1>9, <1>10, WorldSteps DEF kernel, Has

(* A slot that its caller changes between two reads. *)
LEMMA IdleSlots ==
  ASSUME FidInv, NEW t \in Threads, NEW i \in DOMAIN slots[t], NEW p \in Pidfd, Put(t, i, p),
         pc[t] = "idle", UNCHANGED <<pc, bytes, at, adopted, inflight>>
  PROVE  /\ slots' \in [Threads -> Seq(FidEvent)]
         /\ OthersStay(t) /\ BatchFits(t)' /\ PhaseInv(t)'
<1>1. /\ slots' \in [Threads -> Seq(FidEvent)]
      /\ \A u \in Threads : u # t => slots'[u] = slots[u]
      /\ Len(slots'[t]) = Len(slots[t])
  BY Puts, Typed
<1> QED BY <1>1 DEF OthersStay, FidInv, BatchFits, PhaseInv

(* The reference of an event moves to a copy. *)
LEMMA TakeKeeps ==
  ASSUME FidInv, NEW t \in Threads, NEW i \in DOMAIN slots[t], TakePidfd(t, i)
  PROVE  FidInv'
<1>1. slots[t][i].pidfd \in Pidfd /\ slots[t][i].pidfd.kind = "Fd"
  BY Typed DEF TakePidfd
<1>2. PICK b \in Arcs : slots[t][i].pidfd = Fd(b)
  BY <1>1, Kinds
<1>3. /\ pc[t] = "idle" /\ Put(t, i, Absent)
      /\ copies[b] < MaxCopies /\ copies' = [copies EXCEPT ![b] = copies[b] + 1]
      /\ UNCHANGED <<kernel, pc, bytes, at, adopted, inflight, result, sharing, owned>>
  BY <1>2, Kinds DEF TakePidfd, Put
<1>4. copies \in [Arcs -> 0..MaxCopies] /\ MaxCopies \in Nat
  BY BoundsAssumption DEF FidInv, TypeOK
<1>5. copies' \in [Arcs -> 0..MaxCopies] /\ copies'[b] \in Nat /\ copies'[b] > 0
      /\ \A a \in Arcs : a # b => copies'[a] = copies[a]
  <2>1. copies[b] \in 0..MaxCopies
    BY <1>4
  <2>2. copies[b] + 1 \in 0..MaxCopies /\ copies[b] + 1 > 0
    BY <1>3, <1>4, <2>1
  <2> QED BY <1>3, <1>4, <2>2
<1>6. /\ slots' \in [Threads -> Seq(FidEvent)]
      /\ OthersStay(t) /\ BatchFits(t)' /\ PhaseInv(t)'
  BY <1>3, Kinds, IdleSlots
<1>7. TypeOK'
  BY <1>3, <1>5, <1>6 DEF FidInv, TypeOK, kernel, FidEvent
<1>8. ASSUME NEW a \in Arcs
      PROVE  /\ HoldingSlots(a)' = HoldingSlots(a) \ {<<t, i>>}
             /\ <<t, i>> \in HoldingSlots(a) <=> a = b
  <2>1. Absent \in Pidfd /\ Absent # Fd(a) /\ (Fd(b) = Fd(a) <=> a = b)
    BY Kinds
  <2> QED BY <1>2, <1>3, <2>1, PutHolding, Typed DEF FidInv, BatchFits
<1>9. ASSUME NEW a \in Arcs
      PROVE  Live(a)' <=> Live(a)
  <2>1. CASE a = b
    <3>1. Live(b)
      BY <1>8, LiveMeans, Typed
    <3>2. Live(b)'
      BY <1>3, <1>5, Typed, LiveMeansNext
    <3> QED BY <2>1, <3>1, <3>2
  <2>2. CASE a # b
    <3>1. HoldingSlots(a)' = HoldingSlots(a)
      BY <1>8, <2>2
    <3> QED BY <1>3, <1>5, <2>2, <3>1, SameArcs
  <2> QED BY <2>1, <2>2
<1>10. OwnedIsItsProcess'
  BY <1>3, <1>9, Typed DEF FidInv, OwnedIsItsProcess, kernel
<1>11. \A n \in inflight'[t] : table'[n] \in Events /\ n \in inflight[t]
  BY <1>3 DEF FidInv, InflightInv, kernel
<1> QED BY <1>3, <1>6, <1>7, <1>9, <1>10, <1>11, ThreadSteps DEF kernel, Has

(* An OwnedFd becomes the Arc of an event, and the one there is let go. *)
LEMMA SetKeeps ==
  ASSUME FidInv, NEW t \in Threads, NEW i \in DOMAIN slots[t], NEW h \in owned, SetPidfd(t, i, h)
  PROVE  FidInv'
<1>1. /\ pc[t] = "idle" /\ Put(t, i, Fd(h)) /\ table' = Release(slots[t][i].pidfd)
      /\ owned' = owned \ {h}
      /\ UNCHANGED <<stream, queue, raised, pc, bytes, at, adopted, inflight, result, copies, sharing>>
  BY DEF SetPidfd, Put
<1>2. h \in Arcs /\ ~Live(h) /\ Fd(h) \in Pidfd /\ \A a \in Arcs : Fd(h) = Fd(a) <=> a = h
  BY Typed, Kinds DEF FidInv, OwnedIsItsProcess
<1>3. /\ slots' \in [Threads -> Seq(FidEvent)]
      /\ OthersStay(t) /\ BatchFits(t)' /\ PhaseInv(t)'
  BY <1>1, <1>2, IdleSlots
<1>4. /\ table' \in [Fds -> Events \cup {Closed, Elsewhere}]
      /\ \A a \in Arcs : Live(a)' => a = h \/ (Live(a) /\ table'[a.fd] = a.ev)
      /\ \A a \in Arcs : a \in owned => table'[a.fd] = a.ev
      /\ \A u \in Threads : \A n \in inflight[u] : table'[n] = table[n]
      /\ Live(h)' /\ \A a \in Arcs : Live(a) => Live(a)' \/ table'[a.fd] = Closed
      /\ \A n \in Fds : table'[n] = table[n] \/ table'[n] = Closed
  <2>1. \A a \in Arcs : Fd(h) = Fd(a) => ~Live(a)
    BY <1>2
  <2>2. /\ table' \in [Fds -> Events \cup {Closed, Elsewhere}]
        /\ \A a \in Arcs : Live(a)' => Fd(h) = Fd(a) \/ (Live(a) /\ table'[a.fd] = a.ev)
        /\ \A a \in Arcs : a \in owned => table'[a.fd] = a.ev
        /\ \A u \in Threads : \A n \in inflight[u] : table'[n] = table[n]
        /\ \A a \in Arcs : Fd(h) = Fd(a) => Live(a)'
        /\ \A a \in Arcs : Live(a) => Live(a)' \/ table'[a.fd] = Closed
        /\ \A n \in Fds : table'[n] = table[n] \/ table'[n] = Closed
    BY <1>1, <1>2, <2>1, PutReleases
  <2> QED BY <1>2, <2>2
<1>5. TypeOK'
  BY <1>1, <1>3, <1>4 DEF FidInv, TypeOK, FidEvent
<1>6. OwnedIsItsProcess'
  <2>1. ASSUME NEW a \in Arcs, Live(a)' \/ a \in owned'
        PROVE  table'[a.fd] = a.ev
    BY <1>1, <1>4, <2>1
  <2>2. ASSUME NEW a \in owned'
        PROVE  ~Live(a)'
    BY <1>1, <1>4, Typed DEF FidInv, OwnedIsItsProcess
  <2> QED BY <2>1, <2>2 DEF OwnedIsItsProcess
<1>7. \A a \in Arcs : Has(a)' => Has(a)
  BY <1>1, <1>4 DEF Has
<1>8. \A n \in inflight'[t] : table'[n] \in Events /\ n \in inflight[t]
  BY <1>1, <1>4 DEF FidInv, InflightInv
<1>9. \A a \in Arcs : Has(a) => Has(a)' \/ table'[a.fd] \notin Events
  BY <1>1, <1>4, SentinelsAssumption DEF Has
<1>10. \A n \in Fds : table'[n] \in Events => table[n] \in Events
  BY <1>4, SentinelsAssumption
<1> QED BY <1>1, <1>3, <1>4, <1>5, <1>6, <1>7, <1>8, <1>9, <1>10, ThreadSteps

LEMMA BatchStepKeeps ==
  ASSUME FidInv, NEW t \in Threads, BatchStep(t)
  PROVE  FidInv'
BY CloneKeeps, TakeKeeps, SetKeeps DEF BatchStep

(* A reference is gone: the number is closed if it was the last. *)
LEMMA ReferenceGone ==
  ASSUME FidInv, NEW b \in Arcs, LetsGo(b), table' = ReleaseRef(b),
         UNCHANGED <<stream, queue, raised, thread, owned>>
  PROVE  FidInv'
<1>1. /\ Live(b) /\ (Live(b)' <=> Refs(b) # 1)
      /\ \A a \in Arcs : a # b => (Live(a)' <=> Live(a))
      /\ copies' \in [Arcs -> 0..MaxCopies] /\ sharing' \in [Arcs -> 0..MaxCopies]
  BY LettingGo
<1>2. /\ table' \in [Fds -> Events \cup {Closed, Elsewhere}]
      /\ \A n \in Fds : table'[n] = table[n] \/ (n = b.fd /\ Refs(b) = 1 /\ table'[n] = Closed)
      /\ \A a \in Arcs : Has(a) /\ (a # b \/ Refs(b) # 1) => table'[a.fd] = a.ev
      /\ \A t \in Threads : \A n \in inflight[t] : table'[n] = table[n]
  BY <1>1, ReleaseRefKeeps
<1>3. b \notin owned /\ owned' = owned
  BY <1>1 DEF FidInv, OwnedIsItsProcess
<1>4. TypeOK'
  BY <1>1, <1>2 DEF FidInv, TypeOK, thread
<1>5. OwnedIsItsProcess'
  BY <1>1, <1>2, <1>3, Typed DEF FidInv, OwnedIsItsProcess, Has
<1>6. \A a \in Arcs : Has(a)' => Has(a)
  BY <1>1, <1>3 DEF Has
<1>7. Refs(b) = 1 => table'[b.fd] = Closed
  BY ArcFields DEF ReleaseRef, FidInv, TypeOK
<1>8. \A a \in Arcs : Has(a) => Has(a)' \/ table'[a.fd] \notin Events
  BY <1>1, <1>3, <1>7, SentinelsAssumption DEF Has
<1>9. \A n \in Fds : table'[n] \in Events => table[n] \in Events
  BY <1>2, SentinelsAssumption
<1> QED BY <1>2, <1>4, <1>5, <1>6, <1>8, <1>9, WorldSteps

(* A copy is dropped. *)
LEMMA DropCopyKeeps ==
  ASSUME FidInv, NEW b \in Arcs, DropCopy(b)
  PROVE  FidInv'
<1>1. /\ table' = ReleaseRef(b) /\ LetsGo(b) /\ UNCHANGED <<stream, queue, raised, thread, owned>>
  BY DEF DropCopy, LetsGo, thread
<1> QED BY <1>1, ReferenceGone

(* A shared descriptor could not be duplicated. *)
LEMMA NotDuplicatedKeeps ==
  ASSUME FidInv, NEW b \in Arcs, DuplicateShared(b, NoFd)
  PROVE  FidInv'
<1>1. /\ table' = ReleaseRef(b) /\ LetsGo(b) /\ UNCHANGED <<stream, queue, raised, thread, owned>>
  BY DEF DuplicateShared, LetsGo, thread
<1> QED BY <1>1, ReferenceGone

(* The call of into_fd on the only reference gets the descriptor, any      *)
(* other one shares the Arc.                                               *)
LEMMA IntoFdKeeps ==
  ASSUME FidInv, NEW b \in Arcs, IntoFd(b)
  PROVE  FidInv'
<1>1. /\ copies[b] > 0 /\ copies' = [copies EXCEPT ![b] = copies[b] - 1]
      /\ UNCHANGED <<kernel, thread>>
  BY DEF IntoFd
<1>2. Live(b) /\ b \notin owned
  BY <1>1, LiveMeans, Typed DEF FidInv, OwnedIsItsProcess
<1>3. CASE Refs(b) = 1
  <2>1. owned' = owned \cup {b} /\ sharing' = sharing /\ LetsGo(b)
    BY <1>1, <1>3 DEF IntoFd, LetsGo, thread
  <2>2. /\ ~Live(b)' /\ \A a \in Arcs : a # b => (Live(a)' <=> Live(a))
        /\ copies' \in [Arcs -> 0..MaxCopies] /\ sharing' \in [Arcs -> 0..MaxCopies]
    BY <1>3, <2>1, LettingGo
  <2>3. TypeOK'
    BY <1>1, <2>1, <2>2 DEF FidInv, TypeOK, kernel, thread
  <2>4. OwnedIsItsProcess'
    BY <1>1, <1>2, <2>1, <2>2, Typed DEF FidInv, OwnedIsItsProcess, kernel
  <2>5. \A a \in Arcs : Has(a)' <=> Has(a)
    BY <1>2, <2>1, <2>2 DEF Has
  <2> QED BY <1>1, <2>3, <2>4, <2>5, WorldSteps DEF kernel
<1>4. CASE Refs(b) # 1
  <2>1. owned' = owned /\ sharing[b] < MaxCopies /\ sharing' = [sharing EXCEPT ![b] = sharing[b] + 1]
    BY <1>1, <1>4 DEF IntoFd
  <2>2. copies \in [Arcs -> 0..MaxCopies] /\ sharing \in [Arcs -> 0..MaxCopies] /\ MaxCopies \in Nat
    BY BoundsAssumption DEF FidInv, TypeOK
  <2>3. copies[b] - 1 \in 0..MaxCopies /\ sharing[b] + 1 \in 0..MaxCopies /\ sharing[b] + 1 > 0
    <3>1. copies[b] \in 0..MaxCopies /\ sharing[b] \in 0..MaxCopies
      BY <2>2
    <3> QED BY <1>1, <2>1, <2>2, <3>1
  <2>4. /\ copies' \in [Arcs -> 0..MaxCopies] /\ sharing' \in [Arcs -> 0..MaxCopies]
        /\ sharing'[b] > 0 /\ copies'[b] \in Nat /\ sharing'[b] \in Nat
        /\ \A a \in Arcs : a # b => copies'[a] = copies[a] /\ sharing'[a] = sharing[a]
    BY <1>1, <2>1, <2>2, <2>3
  <2>5. Live(b)'
    BY <2>4, LiveMeansNext
  <2>6. \A a \in Arcs : HoldingSlots(a)' = HoldingSlots(a)
    BY <1>1, SameHolders DEF Holds, thread
  <2>7. \A a \in Arcs : Live(a)' <=> Live(a)
    BY <1>2, <2>4, <2>5, <2>6, SameArcs
  <2>8. TypeOK'
    BY <1>1, <2>1, <2>4 DEF FidInv, TypeOK, kernel, thread
  <2>9. OwnedIsItsProcess'
    BY <1>1, <2>1, <2>7, Typed DEF FidInv, OwnedIsItsProcess, kernel
  <2> QED BY <1>1, <2>1, <2>7, <2>8, <2>9, WorldSteps DEF kernel, Has
<1> QED BY <1>3, <1>4

(* A shared descriptor is duplicated under a free number. *)
LEMMA DuplicatedKeeps ==
  ASSUME FidInv, NEW b \in Arcs, NEW n \in Fds, DuplicateShared(b, n)
  PROVE  FidInv'
<1>1. PICK c : c = [ev |-> b.ev, fd |-> n]
  OBVIOUS
<1>2. n # NoFd
  BY SentinelsAssumption
<1>3. /\ table[n] = Closed /\ table' = [ReleaseRef(b) EXCEPT ![n] = table[b.fd]]
      /\ owned' = owned \cup {c} /\ LetsGo(b) /\ UNCHANGED <<stream, queue, raised, thread>>
  BY <1>1, <1>2 DEF DuplicateShared, LetsGo, thread
<1>4. /\ Live(b) /\ (Live(b)' <=> Refs(b) # 1)
      /\ \A a \in Arcs : a # b => (Live(a)' <=> Live(a))
      /\ copies' \in [Arcs -> 0..MaxCopies] /\ sharing' \in [Arcs -> 0..MaxCopies]
  BY <1>3, LettingGo
<1>5. /\ ReleaseRef(b) \in [Fds -> Events \cup {Closed, Elsewhere}]
      /\ \A m \in Fds : ReleaseRef(b)[m] = table[m] \/ (m = b.fd /\ Refs(b) = 1 /\ ReleaseRef(b)[m] = Closed)
      /\ \A a \in Arcs : Has(a) /\ (a # b \/ Refs(b) # 1) => ReleaseRef(b)[a.fd] = a.ev
      /\ \A u \in Threads : \A m \in inflight[u] : ReleaseRef(b)[m] = table[m]
  BY <1>4, ReleaseRefKeeps
<1>6. table[b.fd] = b.ev /\ b.ev \in Events /\ b.ev # Closed /\ b \notin owned
  BY <1>4, Typed, ArcFields DEF Has, FidInv, OwnedIsItsProcess
<1>7. c \in Arcs /\ c.fd = n /\ c.ev = b.ev /\ c # b /\ ~Has(c)
  <2>1. c \in Arcs /\ c.fd = n /\ c.ev = b.ev
    BY <1>1, <1>6, ArcFields
  <2>2. ~Has(c)
    BY <1>3, <1>6, <2>1, Typed
  <2> QED BY <1>4, <2>1, <2>2 DEF Has
<1>8. /\ table' \in [Fds -> Events \cup {Closed, Elsewhere}] /\ table'[n] = b.ev
      /\ \A m \in Fds : m # n => table'[m] = ReleaseRef(b)[m]
  BY <1>3, <1>5, <1>6
<1>9. \A a \in Arcs : Has(a) => a.fd # n
  BY <1>3, Typed, ArcFields
<1>10. \A a \in Arcs : Has(a) /\ (a # b \/ Refs(b) # 1) => table'[a.fd] = a.ev
  BY <1>5, <1>8, <1>9, ArcFields
<1>11. TypeOK'
  BY <1>3, <1>4, <1>7, <1>8 DEF FidInv, TypeOK, thread
<1>12. OwnedIsItsProcess'
  <2>1. ASSUME NEW a \in Arcs, Live(a)' \/ a \in owned'
        PROVE  table'[a.fd] = a.ev
    <3>1. CASE a = c
      BY <1>7, <1>8, <3>1
    <3>2. CASE a = b
      BY <1>3, <1>4, <1>6, <1>7, <1>10, <2>1, <3>2 DEF Has
    <3>3. CASE a # b /\ a # c
      BY <1>3, <1>4, <1>10, <2>1, <3>3 DEF Has
    <3> QED BY <3>1, <3>2, <3>3
  <2>2. ASSUME NEW a \in owned'
        PROVE  ~Live(a)'
    BY <1>3, <1>4, <1>6, <1>7, Typed DEF FidInv, OwnedIsItsProcess, Has
  <2> QED BY <2>1, <2>2 DEF OwnedIsItsProcess
<1>13. \A a \in Arcs : Has(a)' => Has(a) \/ table[a.fd] = Closed
  BY <1>3, <1>4, <1>7 DEF Has
<1>14. \A a \in Arcs : Has(a) => Has(a)' \/ table'[a.fd] \notin Events
  <2>1. Refs(b) = 1 => table'[b.fd] = Closed
    <3>1. b.fd # n /\ b.fd \in Fds
      BY <1>4, <1>9, ArcFields DEF Has
    <3> QED BY <1>5, <1>8, <3>1 DEF ReleaseRef, FidInv, TypeOK
  <2> QED BY <1>3, <1>4, <2>1, SentinelsAssumption DEF Has
<1>15. \A m \in Fds : table'[m] \in Events => table[m] \in Events \/ Owner(m)'
  BY <1>3, <1>5, <1>7, <1>8, SentinelsAssumption DEF Has, Owner
<1>16. \A u \in Threads : \A m \in inflight[u] : table'[m] = table[m]
  <2>1. \A u \in Threads : \A m \in inflight[u] : m \in Fds /\ m # n
    BY <1>3, Typed DEF FidInv, InflightInv
  <2> QED BY <1>5, <1>8, <2>1
<1> QED BY <1>3, <1>11, <1>12, <1>13, <1>14, <1>15, <1>16, WorldSteps

(* An OwnedFd is closed. *)
LEMMA DropOwnedKeeps ==
  ASSUME FidInv, NEW h \in owned, DropOwned(h)
  PROVE  FidInv'
<1>1. /\ table' = [table EXCEPT ![h.fd] = Closed] /\ owned' = owned \ {h}
      /\ UNCHANGED <<stream, queue, raised, thread, copies, sharing>>
  BY DEF DropOwned
<1>2. h \in Arcs /\ h.fd \in Fds /\ Has(h) /\ table[h.fd] = h.ev /\ ~Live(h)
  BY Typed, ArcFields DEF Has, FidInv, OwnedIsItsProcess
<1>3. /\ table' \in [Fds -> Events \cup {Closed, Elsewhere}] /\ table'[h.fd] = Closed
      /\ \A n \in Fds : n # h.fd => table'[n] = table[n]
  BY <1>1, <1>2 DEF FidInv, TypeOK
<1>4. \A a \in Arcs : Live(a)' <=> Live(a)
  <2>1. \A a \in Arcs : HoldingSlots(a)' = HoldingSlots(a)
    BY <1>1, SameHolders DEF Holds, thread
  <2> QED BY <1>1, <2>1, SameArcs
<1>5. \A a \in Arcs : Has(a) /\ a # h => a.fd # h.fd
  BY <1>2, Typed, ArcFields
<1>6. TypeOK'
  BY <1>1, <1>3 DEF FidInv, TypeOK, thread
<1>7. \A a \in Arcs : Has(a) /\ a # h => table'[a.fd] = a.ev
  BY <1>3, <1>5, Typed, ArcFields
<1>8. \A a \in Arcs : Has(a)' <=> Has(a) /\ a # h
  BY <1>1, <1>2, <1>4 DEF Has
<1>9. OwnedIsItsProcess'
  BY <1>1, <1>4, <1>7, <1>8, Typed DEF FidInv, OwnedIsItsProcess, Has
<1>10. \A u \in Threads : \A n \in inflight[u] : table'[n] = table[n]
  BY <1>2, <1>3, Typed DEF FidInv, InflightInv
<1> QED BY <1>1, <1>3, <1>6, <1>8, <1>9, <1>10, WorldSteps, SentinelsAssumption

-----------------------------------------------------------------------------
LEMMA FidStep ==
  ASSUME FidInv, [Next]_vars
  PROVE  FidInv'
<1>1. CASE \E e \in Events : Raise(e)
  BY <1>1, WorldKeeps
<1>2. CASE \E n \in Fds : OpenElsewhere(n) \/ CloseElsewhere(n)
  BY <1>2, WorldKeeps
<1>3. CASE \E t \in Threads : ReadStep(t) \/ BatchStep(t)
  BY <1>3, ReadStepKeeps, BatchStepKeeps
<1>4. CASE \E a \in Arcs : CopyStep(a)
  BY <1>4, DropCopyKeeps, IntoFdKeeps, NotDuplicatedKeeps, DuplicatedKeeps DEF CopyStep
<1>5. CASE \E h \in owned : DropOwned(h)
  BY <1>5, DropOwnedKeeps
<1>6. CASE UNCHANGED vars
  <2>1. UNCHANGED <<kernel, thread, callers>>
    BY <1>6 DEF vars
  <2>2. TypeOK'
    BY <2>1 DEF FidInv, TypeOK, kernel, thread, callers
  <2>3. \A a \in Arcs : (Live(a)' <=> Live(a)) /\ (Has(a)' <=> Has(a))
    BY <2>1, NothingHandedOver DEF thread
  <2>4. OwnedIsItsProcess'
    BY <2>1, <2>3, Typed DEF FidInv, OwnedIsItsProcess, kernel, callers
  <2> QED BY <2>1, <2>2, <2>3, <2>4, WorldSteps DEF kernel
<1> QED BY <1>1, <1>2, <1>3, <1>4, <1>5, <1>6 DEF Next

LEMMA FidInvariant == Spec => []FidInv
<1>1. FidInv /\ [Next]_vars => FidInv'
  BY FidStep
<1> QED BY FidInit, <1>1, PTL DEF Spec

(* Every state of a FID reader is well typed: no thread adopts a number    *)
(* the table does not have, and no count of copies falls below none.       *)
THEOREM FidReaderTypeCorrect == Spec => []TypeOK
<1>1. FidInv => TypeOK
  BY DEF FidInv
<1> QED BY FidInvariant, <1>1, PTL

(* Whatever threads read, clone, take, replace, share and drop, a pidfd an *)
(* Arc or an OwnedFd holds is open and names the process it was installed  *)
(* for, and into_fd leaves no Arc behind.                                  *)
THEOREM OwnedPidfdCorrect == Spec => []OwnedIsItsProcess
<1>1. FidInv => OwnedIsItsProcess
  BY DEF FidInv
<1> QED BY FidInvariant, <1>1, PTL

-----------------------------------------------------------------------------
(***************************************************************************)
(* Nothing leaks: in a stream of FID events the adopt loop leaves nothing  *)
(* inflight.                                                               *)
(***************************************************************************)
(* A thread between its calls of the parser. *)
LEMMA LeakElsewhere ==
  ASSUME NEW t \in Threads, LeakThread(t), inflight'[t] = inflight[t],
         pc[t] \notin {"parse", "adopt"}, pc'[t] \notin {"parse", "adopt"}
  PROVE  LeakThread(t)'
BY DEF LeakThread

(* A thread that does not step. *)
LEMMA LeakStays ==
  ASSUME NEW t \in Threads, LeakThread(t),
         inflight'[t] = inflight[t], pc'[t] = pc[t], bytes'[t] = bytes[t], at'[t] = at[t]
  PROVE  LeakThread(t)'
BY DEF LeakThread, ToCome

LEMMA LeakRead ==
  ASSUME FidInv, NEW t \in Threads, LeakThread(t), NEW k \in 1..BatchMax,
         NEW f \in [1..k -> Fds \cup {NoFd}], ReadBatch(t, k, f)
  PROVE  LeakThread(t)'
<1> DEFINE new == {f[i] : i \in Fresh(k, f)}
           read == [i \in 1..k |-> [ev |-> queue[i], raw |-> f[i]]]
<1>1. /\ pc[t] = "read" /\ bytes' = [bytes EXCEPT ![t] = read]
      /\ inflight' = [inflight EXCEPT ![t] = inflight[t] \cup new]
      /\ pc' = [pc EXCEPT ![t] = "parse"]
  BY DEF ReadBatch
<1>2. DOMAIN read = 1..k /\ k \in Nat /\ \A i \in 1..k : read[i].raw = f[i]
  BY BoundsAssumption
<1> HIDE DEF read
<1>3. \A i \in 1..k : First(read, i) <=> i \in Fresh(k, f)
  <2>1. ASSUME NEW i \in 1..k
        PROVE  \A j \in 1..k : j < i <=> j \in 1..(i - 1)
    BY <1>2
  <2>2. ASSUME NEW i \in 1..k, NEW j \in 1..(i - 1)
        PROVE  j \in 1..k
    BY <1>2
  <2> QED BY <1>2, <2>1, <2>2 DEF First, Fresh
<1>4. \A i \in Fresh(k, f) : i \in 1..k
  BY DEF Fresh
<1>5. bytes'[t] = read /\ pc'[t] = "parse" /\ inflight'[t] = new
  BY <1>1 DEF FidInv, TypeOK, LeakThread
<1>6. ToCome(t, 1)' = {read[j].raw : j \in {m \in 1..k : m >= 1 /\ First(read, m)}}
  BY <1>2, <1>5 DEF ToCome
<1>7. {m \in 1..k : m >= 1 /\ First(read, m)} = Fresh(k, f)
  BY <1>2, <1>3, <1>4
<1>8. ToCome(t, 1)' = new
  BY <1>2, <1>4, <1>6, <1>7
<1> QED BY <1>5, <1>8 DEF LeakThread

LEMMA LeakParse ==
  ASSUME FidInv, NEW t \in Threads, LeakThread(t), Parse(t)
  PROVE  LeakThread(t)'
<1>1. pc[t] = "parse" /\ pc'[t] = "adopt" /\ at'[t] = 1 /\ UNCHANGED <<bytes, inflight>>
  BY DEF Parse, FidInv, TypeOK
<1> QED BY <1>1 DEF LeakThread, ToCome

LEMMA LeakAdopt ==
  ASSUME FidInv, NEW t \in Threads, LeakThread(t), stream = "fid", Adopt(t)
  PROVE  LeakThread(t)'
<1> DEFINE i == at[t]
           s == bytes[t]
<1>1. /\ pc[t] = "adopt" /\ i \in DOMAIN slots[t] /\ at' = [at EXCEPT ![t] = i + 1]
      /\ UNCHANGED <<pc, bytes>>
  BY DEF Adopt
<1>2. /\ i \in DOMAIN s /\ slots[t][i].pidfd.raw = s[i].raw /\ s \in Seq(Record) /\ i \in Nat
      /\ Adoptable(t, slots[t][i].pidfd) <=> First(s, i)
  BY <1>1, AdoptsTheFirst DEF FidInv, TypeOK, Record
<1>3. inflight'[t] = IF First(s, i) THEN inflight[t] \ {s[i].raw} ELSE inflight[t]
  BY <1>2 DEF Adopt, FidInv, TypeOK
<1>4. inflight[t] = ToCome(t, i) /\ at'[t] = i + 1
  BY <1>1 DEF LeakThread, FidInv, TypeOK
<1>5. \A j \in DOMAIN s : /\ j >= i <=> j >= i + 1 \/ j = i
                          /\ j >= i + 1 => i < j /\ j # i
  BY <1>2
<1>6. \A j \in DOMAIN s : j >= i + 1 /\ First(s, j) => s[j].raw # s[i].raw
  BY <1>2, <1>5 DEF First
<1>7. ToCome(t, i + 1) = IF First(s, i) THEN ToCome(t, i) \ {s[i].raw} ELSE ToCome(t, i)
  BY <1>2, <1>5, <1>6 DEF ToCome
<1>8. ToCome(t, at[t])' = ToCome(t, i + 1)
  BY <1>1, <1>4 DEF ToCome
<1> QED BY <1>1, <1>3, <1>4, <1>7, <1>8 DEF LeakThread

LEMMA LeakEnd ==
  ASSUME FidInv, NEW t \in Threads, LeakThread(t), stream = "fid", EndRead(t)
  PROVE  LeakThread(t)'
<1>1. pc[t] = "adopt" /\ at[t] \notin DOMAIN slots[t] /\ pc'[t] = "idle" /\ inflight' = inflight
  BY DEF EndRead, FidInv, TypeOK
<1>2. DOMAIN slots[t] = DOMAIN bytes[t] /\ bytes[t] \in Seq(Record) /\ at[t] \in Nat \ {0}
  BY <1>1 DEF FidInv, TypeOK, PhaseInv, SlotsInv, Record
<1>3. \A j \in DOMAIN bytes[t] : ~(j >= at[t])
  BY <1>1, <1>2
<1>4. inflight[t] = {}
  BY <1>1, <1>3 DEF LeakThread, ToCome
<1> QED BY <1>1, <1>4 DEF LeakThread

(* A step of one thread leaves the others what they have. *)
LEMMA LeakReadStep ==
  ASSUME FidInv, stream = "fid", \A u \in Threads : LeakThread(u), NEW t \in Threads, ReadStep(t)
  PROVE  \A u \in Threads : LeakThread(u)'
<1>1. LeakThread(t)'
  <2>1. CASE BeginRead(t) \/ DropSlot(t) \/ EndClear(t) \/ ReadFails(t)
    <3>1. /\ inflight' = inflight /\ pc[t] \notin {"parse", "adopt"} /\ pc'[t] \notin {"parse", "adopt"}
      BY <2>1 DEF BeginRead, DropSlot, EndClear, ReadFails, FidInv, TypeOK
    <3> QED BY <3>1, LeakElsewhere
  <2> QED BY <2>1, LeakRead, LeakParse, LeakAdopt, LeakEnd DEF ReadStep
<1>2. ASSUME NEW u \in Threads, u # t
      PROVE  /\ inflight'[u] = inflight[u] /\ pc'[u] = pc[u]
             /\ bytes'[u] = bytes[u] /\ at'[u] = at[u]
  BY <1>2 DEF ReadStep, BeginRead, DropSlot, EndClear, ReadFails, ReadBatch, Parse, Adopt, EndRead,
              FidInv, TypeOK
<1>3. ASSUME NEW u \in Threads, u # t
      PROVE  LeakThread(u)'
  BY <1>2, <1>3, LeakStays
<1> QED BY <1>1, <1>3

LEMMA LeakStep ==
  ASSUME FidInv, LeakInv, [Next]_vars
  PROVE  LeakInv'
<1> SUFFICES ASSUME stream' = "fid"
             PROVE  \A t \in Threads : LeakThread(t)'
  BY DEF LeakInv
<1>1. CASE \E t \in Threads : ReadStep(t)
  <2>1. stream = "fid"
    BY <1>1 DEF ReadStep, BeginRead, DropSlot, EndClear, ReadFails, ReadBatch, Parse, Adopt, EndRead, kernel
  <2> QED BY <1>1, <2>1, LeakReadStep DEF LeakInv
<1>2. CASE ~\E t \in Threads : ReadStep(t)
  <2>1. stream' = stream /\ UNCHANGED <<inflight, pc, bytes, at>>
    BY <1>2 DEF Next, Raise, OpenElsewhere, CloseElsewhere, BatchStep, CloneEvent, TakePidfd, SetPidfd,
                CopyStep, DropCopy, IntoFd, DuplicateShared, DropOwned, vars, kernel, thread
  <2> QED BY <2>1, LeakStays DEF LeakInv
<1> QED BY <1>1, <1>2

(* No pidfd is lost: a number the kernel installed is in an Arc or an      *)
(* OwnedFd, or the thread that read it is still to adopt it.  A group that *)
(* delivers headers of the fd format is the exception the README gives.    *)
THEOREM NoPidfdLeaks ==
  ASSUME "fd" \notin Streams
  PROVE  Spec => []NothingLeaks
<1>1. Init => LeakInv
  BY DEF Init, LeakInv, LeakThread
<1>2. FidInv /\ LeakInv /\ [Next]_vars => LeakInv'
  BY LeakStep
<1>3. FidInv /\ LeakInv => NothingLeaks
  <2> SUFFICES ASSUME FidInv, LeakInv, stream # "unknown", NEW n \in Fds, table[n] \in Events
               PROVE  \/ \E a \in Arcs : a.fd = n /\ (Live(a) \/ a \in owned)
                      \/ \E t \in Threads : pc[t] \in {"parse", "adopt"} /\ n \in inflight[t]
    BY DEF NothingLeaks
  <2>1. stream = "fid"
    BY StreamsAssumption DEF FidInv, TypeOK
  <2>2. CASE Owner(n)
    BY <2>2 DEF Owner, Has
  <2>3. CASE \E t \in Threads : n \in inflight[t]
    BY <2>1, <2>3 DEF LeakInv, LeakThread
  <2> QED BY <2>2, <2>3 DEF FidInv, CaredFor
<1> QED BY FidInvariant, <1>1, <1>2, <1>3, PTL DEF Spec
=============================================================================
