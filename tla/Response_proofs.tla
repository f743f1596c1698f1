--------------------------- MODULE Response_proofs ---------------------------
(***************************************************************************)
(* Proofs about the responses, for any number of writers and operations    *)
(* and any words, errnos and payload sizes: the decision word of every     *)
(* errno, the bytes of every response, what a send returns, and what the   *)
(* operation it answers sees.  The last part is about the group a response *)
(* is written to: its types, and that what wait_readable returns is true.  *)
(***************************************************************************)
EXTENDS Response, Consumer, TLAPS

(* Whatever the errno argument is, the word deny_errno builds is 32 bits   *)
(* wide, is a denial and never an allow, sets no flag beside it and holds  *)
(* the low eight bits of the errno where the kernel reads them             *)
(* (deny_errno_word).                                                      *)
THEOREM DenyErrnoWordIsADenial ==
  ASSUME NEW errno \in SUBSET Bits
  PROVE  /\ DenyErrnoWord(errno) \subseteq Bits
         /\ DenyErrnoWord(errno) \cap {0, 1, 4, 5} = FAN_DENY
         /\ ErrnoBits(DenyErrnoWord(errno)) = errno \cap (0..7)
<1> USE DEF FAN_ERRNO_SHIFT, FAN_ERRNO_BITS, FAN_ERRNO_MASK, FAN_DENY, Bits
<1> DEFINE high == {b + FAN_ERRNO_SHIFT : b \in errno \cap FAN_ERRNO_MASK}
<1>1. \A b \in errno \cap FAN_ERRNO_MASK : b \in 0..7
  OBVIOUS
<1>2. \A c \in high : c \in 24..31
  BY <1>1
<1>3. DenyErrnoWord(errno) = {1} \cup high
  BY <1>2 DEF DenyErrnoWord
<1>4. DenyErrnoWord(errno) \subseteq Bits
  BY <1>3, <1>2
<1>5. DenyErrnoWord(errno) \cap {0, 1, 4, 5} = FAN_DENY
  BY <1>3, <1>2
<1>6. ASSUME NEW b \in 0..7
      PROVE  b + 24 \in DenyErrnoWord(errno) <=> b \in errno
  <2>1. b + 24 \in high <=> b \in errno
    BY <1>1
  <2> QED
    BY <2>1, <1>3
<1>7. ErrnoBits(DenyErrnoWord(errno)) = errno \cap (0..7)
  BY <1>6 DEF ErrnoBits
<1> QED
  BY <1>4, <1>5, <1>7

(* What the bytes on the wire are made of.                                 *)
Value ==
  Fds \cup {NOFD} \cup (SUBSET Bits) \cup ((0..255) \X {0}) \cup Nat \cup Bodies
Chunk == [at : Nat, size : Nat, value : Value]
Buffer == [inline : Seq(Chunk), spilled : BOOLEAN, vec : Seq(Chunk)]

(* Appending a slice to the bytes: the ones before it stay, it starts      *)
(* where they end and they grow by its size.                               *)
LEMMA PutAppends ==
  ASSUME NEW wire \in Seq(Chunk), NEW size \in Nat, NEW value \in Value
  PROVE  /\ Size(wire) \in Nat
         /\ Put(wire, size, value) \in Seq(Chunk)
         /\ Len(Put(wire, size, value)) = Len(wire) + 1
         /\ \A i \in 1..Len(wire) : Put(wire, size, value)[i] = wire[i]
         /\ Put(wire, size, value)[Len(wire) + 1]
              = [at |-> Size(wire), size |-> size, value |-> value]
         /\ Size(Put(wire, size, value)) = Size(wire) + size
<1> DEFINE c == [at |-> Size(wire), size |-> size, value |-> value]
<1>1. Size(wire) \in Nat
  <2>1. CASE wire = <<>>
    BY <2>1 DEF Size
  <2>2. CASE wire # <<>>
    <3>1. Len(wire) \in 1..Len(wire)
      BY <2>2
    <3>2. wire[Len(wire)] \in Chunk
      BY <3>1
    <3> QED
      BY <3>2, <2>2 DEF Size, Chunk
  <2> QED
    BY <2>1, <2>2
<1>2. c \in Chunk
  BY <1>1 DEF Chunk
<1>3. /\ Append(wire, c) \in Seq(Chunk)
      /\ Len(Append(wire, c)) = Len(wire) + 1
      /\ \A i \in 1..Len(wire) : Append(wire, c)[i] = wire[i]
      /\ Append(wire, c)[Len(wire) + 1] = c
  <2> HIDE DEF c
  <2> QED
    BY <1>2
<1>4. Size(Append(wire, c)) = c.at + c.size
  <2> HIDE DEF c
  <2>1. Append(wire, c) # <<>>
    BY <1>2, <1>3
  <2> QED
    BY <2>1, <1>3 DEF Size
<1> QED
  BY <1>1, <1>3, <1>4 DEF Put

(* Appending to a WireBuffer appends to the bytes it stands for: the move  *)
(* from the inline array to the heap loses and repeats nothing             *)
(* (WireBuffer::extend_from_slice, as_slice).                              *)
LEMMA ExtendAppends ==
  ASSUME NEW buf \in Buffer, NEW size \in Nat, NEW value \in Value
  PROVE  /\ ExtendFromSlice(buf, size, value) \in Buffer
         /\ AsSlice(buf) \in Seq(Chunk)
         /\ AsSlice(ExtendFromSlice(buf, size, value)) = Put(AsSlice(buf), size, value)
<1>1. /\ Put(buf.inline, size, value) \in Seq(Chunk)
      /\ Put(buf.vec, size, value) \in Seq(Chunk)
  BY PutAppends DEF Buffer
<1>2. CASE buf.spilled
  BY <1>1, <1>2 DEF ExtendFromSlice, AsSlice, Buffer
<1>3. CASE ~buf.spilled /\ Size(buf.inline) + size <= INLINE
  BY <1>1, <1>3 DEF ExtendFromSlice, AsSlice, Buffer
<1>4. CASE ~buf.spilled /\ ~(Size(buf.inline) + size <= INLINE)
  BY <1>1, <1>4 DEF ExtendFromSlice, AsSlice, Buffer
<1> QED
  BY <1>2, <1>3, <1>4

(* `new` is the buffer `old` with one slice more.                          *)
Extended(new, old, size, value) ==
  /\ new \in Buffer
  /\ Len(AsSlice(new)) = Len(AsSlice(old)) + 1
  /\ \A i \in 1..Len(AsSlice(old)) : AsSlice(new)[i] = AsSlice(old)[i]
  /\ AsSlice(new)[Len(AsSlice(old)) + 1]
       = [at |-> Size(AsSlice(old)), size |-> size, value |-> value]
  /\ Size(AsSlice(new)) = Size(AsSlice(old)) + size

(* One slice appended, whichever branch extend_from_slice takes.           *)
LEMMA ExtendStep ==
  ASSUME NEW buf \in Buffer, NEW size \in Nat, NEW value \in Value
  PROVE  Extended(ExtendFromSlice(buf, size, value), buf, size, value)
<1> DEFINE new == ExtendFromSlice(buf, size, value)
<1>1. /\ new \in Buffer
      /\ AsSlice(buf) \in Seq(Chunk)
      /\ AsSlice(new) = Put(AsSlice(buf), size, value)
  BY ExtendAppends
<1> HIDE DEF new
<1>2. Extended(new, buf, size, value)
  BY <1>1, PutAppends DEF Extended
<1> QED
  BY <1>2 DEF new

(* The bytes encode_response writes for a response whose record length     *)
(* fits 16 bits are that response in the wire format, whatever its payload *)
(* size and wherever the buffer spilled.                                   *)
THEOREM EncodingIsTheResponse ==
  ASSUME NEW r \in FanotifyResponse, Encodable(r)
  PROVE  WireOf(AsSlice(EncodeResponse(r)), r)
<1> DEFINE b1 == ExtendFromSlice(NewBuffer, 4, r.fd)
           b2 == ExtendFromSlice(b1, 4, r.response)
<1>1. r.fd \in Value /\ r.response \in Value
  BY DEF FanotifyResponse, Value
<1>2. /\ NewBuffer \in Buffer
      /\ Len(AsSlice(NewBuffer)) = 0
      /\ Size(AsSlice(NewBuffer)) = 0
  BY DEF NewBuffer, Buffer, AsSlice, Size
<1>3. /\ b1 \in Buffer
      /\ Len(AsSlice(b1)) = 1
      /\ AsSlice(b1)[1] = [at |-> 0, size |-> 4, value |-> r.fd]
      /\ Size(AsSlice(b1)) = 4
  <2>1. Extended(b1, NewBuffer, 4, r.fd)
    BY <1>1, <1>2, ExtendStep
  <2> HIDE DEF b1
  <2> QED
    BY <1>2, <2>1 DEF Extended
<1> HIDE DEF b1
<1>4. /\ b2 \in Buffer
      /\ Len(AsSlice(b2)) = 2
      /\ AsSlice(b2)[1] = [at |-> 0, size |-> 4, value |-> r.fd]
      /\ AsSlice(b2)[2] = [at |-> 4, size |-> 4, value |-> r.response]
      /\ Size(AsSlice(b2)) = 8
  <2>1. Extended(b2, b1, 4, r.response)
    BY <1>1, <1>3, ExtendStep
  <2> HIDE DEF b2
  <2> QED
    BY <1>3, <2>1 DEF Extended
<1>5. EncodeWord(r) = b2
  BY DEF EncodeWord, b1
<1> HIDE DEF b2
<1>6. CASE r.info = NoInfo
  BY <1>4, <1>5, <1>6 DEF WireOf, EncodeResponse
<1>7. CASE r.info # NoInfo
  <2> DEFINE n == r.info.payload.size
             b3 == ExtendFromSlice(b2, 2, <<r.info.info_type, 0>>)
             b4 == ExtendFromSlice(b3, 2, INFO_HEADER_SIZE + n)
             b5 == ExtendFromSlice(b4, n, r.info.payload.body)
  <2>1. r.info \in Info
    BY <1>7 DEF FanotifyResponse
  <2>2. /\ n \in Nat
        /\ INFO_HEADER_SIZE + n = 4 + n
        /\ 4 + n <= U16_MAX
    BY <2>1, <1>7 DEF Info, Payload, Encodable, INFO_HEADER_SIZE, U16_MAX
  <2>3. /\ <<r.info.info_type, 0>> \in Value
        /\ INFO_HEADER_SIZE + n \in Value
        /\ r.info.payload.body \in Value
    BY <2>1, <2>2 DEF Info, Payload, Value
  <2>4. EncodeResponse(r) = b5
    BY <1>5, <1>7 DEF EncodeResponse, EncodeInfo
  <2> HIDE DEF n
  <2>5. /\ b3 \in Buffer
        /\ Len(AsSlice(b3)) = 3
        /\ \A i \in 1..2 : AsSlice(b3)[i] = AsSlice(b2)[i]
        /\ AsSlice(b3)[3] = [at |-> 8, size |-> 2, value |-> <<r.info.info_type, 0>>]
        /\ Size(AsSlice(b3)) = 10
    <3>1. Extended(b3, b2, 2, <<r.info.info_type, 0>>)
      BY <1>4, <2>3, ExtendStep
    <3> HIDE DEF b3
    <3> QED
      BY <1>4, <3>1 DEF Extended
  <2> HIDE DEF b3
  <2>6. /\ b4 \in Buffer
        /\ Len(AsSlice(b4)) = 4
        /\ \A i \in 1..3 : AsSlice(b4)[i] = AsSlice(b3)[i]
        /\ AsSlice(b4)[4] = [at |-> 10, size |-> 2, value |-> INFO_HEADER_SIZE + n]
        /\ Size(AsSlice(b4)) = 12
    <3>1. Extended(b4, b3, 2, INFO_HEADER_SIZE + n)
      BY <2>3, <2>5, ExtendStep
    <3> HIDE DEF b4
    <3> QED
      BY <2>5, <3>1 DEF Extended
  <2> HIDE DEF b4
  <2>7. /\ Len(AsSlice(b5)) = 5
        /\ \A i \in 1..4 : AsSlice(b5)[i] = AsSlice(b4)[i]
        /\ AsSlice(b5)[5] = [at |-> 12, size |-> n, value |-> r.info.payload.body]
        /\ Size(AsSlice(b5)) = 12 + n
    <3>1. Extended(b5, b4, n, r.info.payload.body)
      BY <2>2, <2>3, <2>6, ExtendStep
    <3> HIDE DEF b5
    <3> QED
      BY <2>6, <3>1 DEF Extended
  <2> HIDE DEF b5
  <2>8. /\ Len(AsSlice(b5)) = 5
         /\ AsSlice(b5)[1] = AsSlice(b2)[1]
         /\ AsSlice(b5)[2] = AsSlice(b2)[2]
         /\ AsSlice(b5)[3] = [at |-> 8, size |-> 2, value |-> <<r.info.info_type, 0>>]
         /\ AsSlice(b5)[4] = [at |-> 10, size |-> 2, value |-> 4 + n]
         /\ AsSlice(b5)[5] = [at |-> 12, size |-> n, value |-> r.info.payload.body]
    BY <2>2, <2>5, <2>6, <2>7
  <2>9. Size(AsSlice(b5)) - 8 = 4 + n
    BY <2>2, <2>7
  <2> QED
    BY <1>4, <1>7, <2>2, <2>4, <2>8, <2>9 DEF WireOf, n
<1> QED
  BY <1>6, <1>7

(* What the constructors build is a response, for every argument.          *)
LEMMA PlainFormsTyped ==
  /\ \A fd \in Fds : AllowForm(fd) \in FanotifyResponse
  /\ \A fd \in Fds : DenyForm(fd) \in FanotifyResponse
  /\ \A fd \in Fds \cup {NOFD}, word \in SUBSET Bits :
       RawForm("raw", word, fd, word) \in FanotifyResponse
<1>1. FAN_ALLOW \in SUBSET Bits /\ FAN_DENY \in SUBSET Bits
  BY DEF FAN_ALLOW, FAN_DENY, Bits
<1> QED
  BY <1>1 DEF AllowForm, DenyForm, RawForm, FanotifyResponse, Forms

(* The same for deny_errno, whatever the errno.                            *)
LEMMA DenyErrnoFormTyped ==
  \A fd \in Fds, errno \in SUBSET Bits : DenyErrnoForm(fd, errno) \in FanotifyResponse
<1> SUFFICES ASSUME NEW fd \in Fds, NEW errno \in SUBSET Bits
             PROVE  DenyErrnoForm(fd, errno) \in FanotifyResponse
  OBVIOUS
<1>1. DenyErrnoWord(errno) \in SUBSET Bits
  BY DenyErrnoWordIsADenial
<1> QED
  BY <1>1 DEF DenyErrnoForm, RawForm, FanotifyResponse, Forms

(* The same for the forms that carry a record.                             *)
LEMMA RecordFormsTyped ==
  ASSUME NEW word \in SUBSET Bits, NEW type \in 0..255, NEW size \in Nat, NEW bytes \in Bodies
  PROVE  /\ InfoForm(word, type, [size |-> size, body |-> bytes]) \in FanotifyResponse
         /\ AuditRuleForm(word, bytes) \in FanotifyResponse
<1>1. /\ word \cup FAN_INFO \in SUBSET Bits
      /\ word \cup FAN_AUDIT \cup FAN_INFO \in SUBSET Bits
  BY DEF FAN_INFO, FAN_AUDIT, Bits
<1>2. /\ [info_type |-> type, payload |-> [size |-> size, body |-> bytes]] \in Info
      /\ [info_type |-> FAN_RESPONSE_INFO_AUDIT_RULE,
          payload |-> AuditRulePayload(bytes)] \in Info
  BY DEF Info, Payload, FAN_RESPONSE_INFO_AUDIT_RULE, AuditRulePayload,
         AUDIT_RULE_PAYLOAD_SIZE
<1>3. InfoForm(word, type, [size |-> size, body |-> bytes]) \in FanotifyResponse
  BY <1>1, <1>2 DEF InfoForm, FanotifyResponse, Forms
<1>4. AuditRuleForm(word, bytes) \in FanotifyResponse
  BY <1>1, <1>2 DEF AuditRuleForm, FanotifyResponse, Forms
<1> QED
  BY <1>3, <1>4

-----------------------------------------------------------------------------
(***************************************************************************)
(* What a send returns, and what the blocked operation sees.               *)
(***************************************************************************)
(* A response is what its constructor made of its argument, whatever       *)
(* descriptor was attached since; only a response that announces a record  *)
(* carries one.                                                            *)
FormInv(r) ==
  /\ r.info # NoInfo => FAN_INFO \subseteq r.response
  /\ r.form = "allow" => r.response = FAN_ALLOW /\ r.info = NoInfo
  /\ r.form = "deny" => r.response = FAN_DENY /\ r.info = NoInfo
  /\ r.form = "deny_errno" => r.response = DenyErrnoWord(r.arg) /\ r.info = NoInfo
  /\ r.form = "audit_rule" =>
       /\ r.response = r.arg \cup FAN_AUDIT \cup FAN_INFO
       /\ r.info # NoInfo
       /\ r.info.info_type = FAN_RESPONSE_INFO_AUDIT_RULE
       /\ r.info.payload.size = AUDIT_RULE_PAYLOAD_SIZE

(* What OwnFormsAreAccepted says of one writer. *)
NotRefused(w) ==
  /\ result[w] = "EINVAL"
  /\ resp[w].form \in {"allow", "deny", "deny_errno", "audit_rule"}
  /\ resp[w].form = "audit_rule" => resp[w].arg \in {FAN_ALLOW, FAN_DENY}
  => \/ resp[w].form = "audit_rule" /\ ~(group.enable_audit /\ group.knows_info)
     \/ resp[w].form = "deny_errno" /\ resp[w].arg \cap FAN_ERRNO_MASK # {}

(* What a writer knows once its send returned: the verdict stands, since   *)
(* an operation is answered once.                                          *)
Returned(w) ==
  /\ result[w] = "ok" => hit[w] = resp[w].fd
  /\ hit[w] # NOFD =>
       /\ result[w] = "ok"
       /\ hit[w] \in DOMAIN verdict
       /\ verdict[hit[w]] = Outcome(resp[w].response)
  /\ result[w] = "ok" /\ hit[w] = NOFD => resp[w].info # NoInfo
  /\ NotRefused(w)

WriterInv(w) ==
  /\ body[w] \in Buffer
  /\ FormInv(resp[w])
  /\ pc[w] = "write" => WireOf(AsSlice(body[w]), resp[w])
  /\ pc[w] # "returned" => hit[w] = NOFD
  /\ pc[w] = "returned" => Returned(w)

(* The inductive invariant; an operation is blocked or answered, not both. *)
AnswerInv ==
  /\ TypeOK
  /\ waiting \cap DOMAIN verdict = {}
  /\ \A w \in Writers : WriterInv(w)

(* Encoding yields a buffer, the lengths fitting or not.                   *)
LEMMA EncodingIsABuffer ==
  ASSUME NEW r \in FanotifyResponse
  PROVE  EncodeResponse(r) \in Buffer
<1> DEFINE b1 == ExtendFromSlice(NewBuffer, 4, r.fd)
           b2 == ExtendFromSlice(b1, 4, r.response)
<1>1. r.fd \in Value /\ r.response \in Value
  BY DEF FanotifyResponse, Value
<1>2. NewBuffer \in Buffer
  BY DEF NewBuffer, Buffer
<1>3. b1 \in Buffer
  BY <1>1, <1>2, ExtendAppends
<1> HIDE DEF b1
<1>4. b2 \in Buffer
  BY <1>1, <1>3, ExtendAppends
<1>5. EncodeWord(r) = b2
  BY DEF EncodeWord, b1
<1> HIDE DEF b2
<1>6. CASE r.info = NoInfo
  BY <1>4, <1>5, <1>6 DEF EncodeResponse
<1>7. CASE r.info # NoInfo
  <2> DEFINE n == r.info.payload.size
             b3 == ExtendFromSlice(b2, 2, <<r.info.info_type, 0>>)
             b4 == ExtendFromSlice(b3, 2, INFO_HEADER_SIZE + n)
             b5 == ExtendFromSlice(b4, n, r.info.payload.body)
  <2>1. r.info \in Info
    BY <1>7 DEF FanotifyResponse
  <2>2. n \in Nat /\ INFO_HEADER_SIZE + n \in Nat
    BY <2>1 DEF Info, Payload, INFO_HEADER_SIZE
  <2>3. /\ <<r.info.info_type, 0>> \in Value
        /\ INFO_HEADER_SIZE + n \in Value
        /\ r.info.payload.body \in Value
    BY <2>1, <2>2 DEF Info, Payload, Value
  <2>4. EncodeResponse(r) = b5
    BY <1>5, <1>7 DEF EncodeResponse, EncodeInfo
  <2> HIDE DEF n
  <2>5. b3 \in Buffer
    BY <1>4, <2>3, ExtendAppends
  <2> HIDE DEF b3
  <2>6. b4 \in Buffer
    BY <2>3, <2>5, ExtendAppends
  <2> HIDE DEF b4
  <2>7. b5 \in Buffer
    BY <2>2, <2>3, <2>6, ExtendAppends
  <2> QED
    BY <2>4, <2>7
<1> QED
  BY <1>6, <1>7

(* What the kernel finds at the offsets it reads.                          *)
LEMMA WireReads ==
  ASSUME NEW wire \in Seq(Chunk), NEW r \in FanotifyResponse, WireOf(wire, r)
  PROVE  /\ At(wire, 0) = r.fd
         /\ At(wire, 4) = r.response
         /\ r.info = NoInfo => Size(wire) = 8
         /\ r.info # NoInfo =>
              /\ At(wire, 8) = <<r.info.info_type, 0>>
              /\ At(wire, 10) = Size(wire) - 8
              /\ Size(wire) = 12 + r.info.payload.size
<1>1. DOMAIN wire = 1..Len(wire) /\ (wire = <<>> => Len(wire) = 0)
  OBVIOUS
<1>2. CASE r.info = NoInfo
  <2>1. /\ Len(wire) = 2
        /\ wire[1] = [at |-> 0, size |-> 4, value |-> r.fd]
        /\ wire[2] = [at |-> 4, size |-> 4, value |-> r.response]
    BY <1>2 DEF WireOf
  <2>2. DOMAIN wire = {1, 2}
    BY <1>1, <2>1
  <2>3. (CHOOSE i \in DOMAIN wire : wire[i].at = 0) = 1
    BY <2>1, <2>2
  <2>4. (CHOOSE i \in DOMAIN wire : wire[i].at = 4) = 2
    BY <2>1, <2>2
  <2>5. wire # <<>>
    BY <2>1
  <2> QED
    BY <1>2, <2>1, <2>3, <2>4, <2>5 DEF At, Size
<1>3. CASE r.info # NoInfo
  <2>1. /\ Len(wire) = 5
        /\ wire[1] = [at |-> 0, size |-> 4, value |-> r.fd]
        /\ wire[2] = [at |-> 4, size |-> 4, value |-> r.response]
        /\ wire[3] = [at |-> 8, size |-> 2, value |-> <<r.info.info_type, 0>>]
        /\ wire[4] = [at |-> 10, size |-> 2, value |-> Size(wire) - 8]
        /\ wire[5] = [at |-> 12, size |-> r.info.payload.size, value |-> r.info.payload.body]
    BY <1>3 DEF WireOf
  <2>2. DOMAIN wire = {1, 2, 3, 4, 5}
    BY <1>1, <2>1
  <2>3. /\ wire[1].at = 0 /\ wire[2].at = 4 /\ wire[3].at = 8
        /\ wire[4].at = 10 /\ wire[5].at = 12
    BY <2>1
  <2>4. (CHOOSE i \in DOMAIN wire : wire[i].at = 0) = 1
    BY <2>2, <2>3
  <2>5. (CHOOSE i \in DOMAIN wire : wire[i].at = 4) = 2
    BY <2>2, <2>3
  <2>6. (CHOOSE i \in DOMAIN wire : wire[i].at = 8) = 3
    BY <2>2, <2>3
  <2>7. (CHOOSE i \in DOMAIN wire : wire[i].at = 10) = 4
    BY <2>2, <2>3
  <2>8. wire # <<>>
    BY <1>1, <2>1
  <2>9. Size(wire) = 12 + r.info.payload.size
    BY <2>1, <2>8 DEF Size
  <2>10. At(wire, 0) = r.fd /\ At(wire, 4) = r.response
    BY <2>1, <2>4, <2>5 DEF At
  <2>11. At(wire, 8) = <<r.info.info_type, 0>> /\ At(wire, 10) = Size(wire) - 8
    BY <2>1, <2>6, <2>7 DEF At
  <2> QED
    BY <1>3, <2>9, <2>10, <2>11
<1> QED
  BY <1>2, <1>3

(* What the constructors build satisfies the invariant of the forms, and   *)
(* attaching a descriptor keeps it.                                        *)
LEMMA ConstructorForms ==
  ASSUME NEW w \in Writers,
         Allow(w) \/ Deny(w) \/ DenyErrno(w) \/ Raw(w) \/ WithInfo(w) \/ AuditRule(w)
  PROVE  \E r \in FanotifyResponse : FormInv(r) /\ Build(w, r)
<1>1. CASE Allow(w)
  <2>1. PICK fd \in Fds : Build(w, AllowForm(fd))
    BY <1>1 DEF Allow
  <2>2. FormInv(AllowForm(fd))
    BY DEF FormInv, AllowForm, RawForm
  <2> QED
    BY <2>1, <2>2, PlainFormsTyped
<1>2. CASE Deny(w)
  <2>1. PICK fd \in Fds : Build(w, DenyForm(fd))
    BY <1>2 DEF Deny
  <2>2. FormInv(DenyForm(fd))
    BY DEF FormInv, DenyForm, RawForm
  <2> QED
    BY <2>1, <2>2, PlainFormsTyped
<1>3. CASE DenyErrno(w)
  <2>1. PICK fd \in Fds, errno \in Errnos : Build(w, DenyErrnoForm(fd, errno))
    BY <1>3 DEF DenyErrno
  <2>2. FormInv(DenyErrnoForm(fd, errno))
    BY DEF FormInv, DenyErrnoForm, RawForm
  <2>3. errno \in SUBSET Bits
    BY WordsAssumption
  <2> QED
    BY <2>1, <2>2, <2>3, DenyErrnoFormTyped
<1>4. CASE Raw(w)
  <2>1. PICK fd \in Fds \cup {NOFD}, word \in Words : Build(w, RawForm("raw", word, fd, word))
    BY <1>4 DEF Raw
  <2>2. FormInv(RawForm("raw", word, fd, word))
    BY DEF FormInv, RawForm
  <2>3. word \in SUBSET Bits
    BY WordsAssumption
  <2> QED
    BY <2>1, <2>2, <2>3, PlainFormsTyped
<1>5. CASE WithInfo(w)
  <2>1. PICK word \in Decisions, type \in InfoTypes, size \in Sizes, bytes \in Bodies :
          Build(w, InfoForm(word, type, [size |-> size, body |-> bytes]))
    BY <1>5 DEF WithInfo
  <2>2. word \in SUBSET Bits /\ type \in 0..255 /\ size \in Nat
    BY WordsAssumption, InfoTypesAssumption, SizesAssumption
  <2>3. FormInv(InfoForm(word, type, [size |-> size, body |-> bytes]))
    BY DEF FormInv, InfoForm
  <2> QED
    BY <2>1, <2>2, <2>3, RecordFormsTyped
<1>6. CASE AuditRule(w)
  <2>1. PICK word \in Decisions, bytes \in Bodies : Build(w, AuditRuleForm(word, bytes))
    BY <1>6 DEF AuditRule
  <2>2. word \in SUBSET Bits /\ 0 \in 0..255 /\ 0 \in Nat
    BY WordsAssumption
  <2>3. FormInv(AuditRuleForm(word, bytes))
    <3> DEFINE record == [info_type |-> FAN_RESPONSE_INFO_AUDIT_RULE,
                          payload |-> AuditRulePayload(bytes)]
    <3>1. record \in Info
      BY DEF Info, Payload, FAN_RESPONSE_INFO_AUDIT_RULE, AuditRulePayload,
             AUDIT_RULE_PAYLOAD_SIZE
    <3>2. record # NoInfo
      BY <3>1, NoInfoAssumption
    <3> QED
      BY <3>2 DEF FormInv, AuditRuleForm, AuditRulePayload
  <2> QED
    BY <2>1, <2>2, <2>3, RecordFormsTyped
<1> QED
  BY <1>1, <1>2, <1>3, <1>4, <1>5, <1>6

(* A well-formed response of a form that is no escape hatch is encodable,  *)
(* is accepted unless it audits where the group does not, and is consumed  *)
(* whole.                                                                  *)
LEMMA OwnFormAccepted ==
  ASSUME NEW wire \in Seq(Chunk), NEW r \in FanotifyResponse, WireOf(wire, r), FormInv(r),
         r.form \in {"allow", "deny", "deny_errno", "audit_rule"},
         r.form = "audit_rule" => /\ r.arg \in {FAN_ALLOW, FAN_DENY}
                                  /\ group.enable_audit /\ group.knows_info
  PROVE  Accepted(wire)
<1> USE DEF FAN_ALLOW, FAN_DENY, FAN_AUDIT, FAN_INFO, FAN_ERRNO_SHIFT, FAN_ERRNO_BITS
<1>1. CASE r.form = "allow"
  <2>1. At(wire, 4) = {0}
    BY <1>1, WireReads DEF FormInv
  <2> QED
    BY <2>1 DEF Accepted, WordAccepted
<1>2. CASE r.form = "deny"
  <2>1. At(wire, 4) = {1}
    BY <1>2, WireReads DEF FormInv
  <2> QED
    BY <2>1 DEF Accepted, WordAccepted
<1>3. CASE r.form = "deny_errno"
  <2> DEFINE word == DenyErrnoWord(r.arg)
  <2>1. At(wire, 4) = word
    BY <1>3, WireReads DEF FormInv
  <2>2. r.arg \in SUBSET Bits
    BY DEF FanotifyResponse
  <2>3. word \cap {0, 1, 4, 5} = {1}
    BY <2>2, DenyErrnoWordIsADenial
  <2>4. \A b \in word : b >= 24 \/ b = 1
    BY <2>2 DEF DenyErrnoWord, FAN_ERRNO_MASK, Bits
  <2> HIDE DEF word
  <2> QED
    BY <2>1, <2>3, <2>4 DEF Accepted, WordAccepted
<1>4. CASE r.form = "audit_rule"
  <2>1. At(wire, 4) = r.arg \cup {4, 5} /\ (r.arg = {0} \/ r.arg = {1})
    BY <1>4, WireReads DEF FormInv
  <2>2. WordAccepted(At(wire, 4))
    BY <1>4, <2>1 DEF WordAccepted
  <2>3. /\ r.info # NoInfo
        /\ r.info.info_type = 1
        /\ r.info.payload.size = 12
    BY <1>4 DEF FormInv, FAN_RESPONSE_INFO_AUDIT_RULE, AUDIT_RULE_PAYLOAD_SIZE
  <2>4. RecordAccepted(wire)
    BY <1>4, <2>3, WireReads DEF RecordAccepted, FAN_RESPONSE_INFO_AUDIT_RULE
  <2> QED
    BY <2>2, <2>4 DEF Accepted
<1> QED
  BY <1>1, <1>2, <1>3, <1>4

(* A writer that does not step keeps what it knows as long as no verdict   *)
(* is taken back.                                                          *)
LEMMA WriterKept ==
  ASSUME NEW w \in Writers, WriterInv(w),
         pc'[w] = pc[w], resp'[w] = resp[w], body'[w] = body[w], hit'[w] = hit[w],
         result'[w] = result[w], group' = group,
         \A fd \in DOMAIN verdict : fd \in DOMAIN verdict' /\ verdict'[fd] = verdict[fd]
  PROVE  WriterInv(w)'
<1>1. NotRefused(w) => NotRefused(w)'
  BY DEF NotRefused
<1>2. \A word : Outcome(word)' = Outcome(word)
  BY DEF Outcome
<1>3. Returned(w) => Returned(w)'
  BY <1>1, <1>2 DEF Returned
<1> QED
  BY <1>3 DEF WriterInv

(* A step of one writer that answers nothing.                              *)
LEMMA WriterSteps ==
  ASSUME AnswerInv, NEW w \in Writers, WriterInv(w)', TypeOK',
         UNCHANGED <<group, waiting, verdict>>,
         \A v \in Writers \ {w} :
           /\ pc'[v] = pc[v] /\ resp'[v] = resp[v] /\ body'[v] = body[v]
           /\ hit'[v] = hit[v] /\ result'[v] = result[v]
  PROVE  AnswerInv'
<1>1. ASSUME NEW v \in Writers, v # w
      PROVE  WriterInv(v)'
  <2>1. WriterInv(v)
    BY DEF AnswerInv
  <2> QED
    BY <1>1, <2>1, WriterKept
<1> QED
  BY <1>1 DEF AnswerInv

(* A new buffer is one.                                                    *)
LEMMA NewBufferTyped == NewBuffer \in Buffer
BY DEF NewBuffer, Buffer

(* A constructor's call.                                                   *)
LEMMA BuildAnswers ==
  ASSUME AnswerInv, NEW w \in Writers, NEW r \in FanotifyResponse, FormInv(r), Build(w, r)
  PROVE  AnswerInv'
<1>1. TypeOK'
  BY DEF AnswerInv, TypeOK, Build
<1>2. /\ pc'[w] = "built" /\ resp'[w] = r
      /\ \A v \in Writers \ {w} : pc'[v] = pc[v] /\ resp'[v] = resp[v]
      /\ UNCHANGED <<group, waiting, verdict, body, hit, result>>
      /\ pc[w] = "idle"
  BY DEF AnswerInv, TypeOK, Build
<1>3. WriterInv(w)'
  BY <1>2 DEF AnswerInv, WriterInv
<1> QED
  BY <1>1, <1>2, <1>3, WriterSteps

(* Attaching a descriptor.                                                 *)
LEMMA WithFdAnswers ==
  ASSUME AnswerInv, NEW w \in Writers, NEW fd \in Fds, WithFd(w, fd)
  PROVE  AnswerInv'
<1> DEFINE r == [resp[w] EXCEPT !.fd = fd]
<1>1. /\ r \in FanotifyResponse
      /\ r.form = resp[w].form /\ r.arg = resp[w].arg
      /\ r.response = resp[w].response /\ r.info = resp[w].info
  BY DEF AnswerInv, TypeOK, FanotifyResponse
<1>2. resp' = [resp EXCEPT ![w] = r]
  BY DEF WithFd
<1> HIDE DEF r
<1>3. /\ resp' \in [Writers -> FanotifyResponse] /\ resp'[w] = r
      /\ \A v \in Writers \ {w} : resp'[v] = resp[v]
      /\ UNCHANGED <<group, waiting, verdict, pc, body, hit, result>>
      /\ pc[w] = "built"
  BY <1>1, <1>2 DEF AnswerInv, TypeOK, WithFd
<1>4. TypeOK'
  BY <1>3 DEF AnswerInv, TypeOK
<1>5. WriterInv(w)'
  <2>1. FormInv(r)
    BY <1>1 DEF AnswerInv, WriterInv, FormInv
  <2> QED
    BY <1>3, <2>1 DEF AnswerInv, WriterInv
<1> QED
  BY <1>3, <1>4, <1>5, WriterSteps

(* Encoding, or refusing to: only a record can be too long.                *)
LEMMA EncodeAnswers ==
  ASSUME AnswerInv, NEW w \in Writers, Encode(w)
  PROVE  AnswerInv'
<1>1. resp[w] \in FanotifyResponse /\ pc[w] = "built" /\ hit[w] = NOFD /\ FormInv(resp[w])
  BY DEF AnswerInv, TypeOK, WriterInv, Encode
<1>2. UNCHANGED <<group, waiting, verdict, resp, hit>>
  BY DEF Encode
<1>3. CASE Encodable(resp[w])
  <2>1. /\ body' = [body EXCEPT ![w] = EncodeResponse(resp[w])]
        /\ pc' = [pc EXCEPT ![w] = "write"]
        /\ result' = result
    BY <1>3 DEF Encode
  <2>2. /\ body'[w] = EncodeResponse(resp[w]) /\ pc'[w] = "write"
        /\ \A v \in Writers \ {w} : body'[v] = body[v] /\ pc'[v] = pc[v]
        /\ TypeOK'
    BY <1>2, <2>1 DEF AnswerInv, TypeOK
  <2>3. /\ EncodeResponse(resp[w]) \in Buffer
        /\ WireOf(AsSlice(EncodeResponse(resp[w])), resp[w])
    BY <1>1, <1>3, EncodingIsABuffer, EncodingIsTheResponse
  <2>4. WriterInv(w)'
    BY <1>1, <1>2, <2>2, <2>3 DEF WriterInv
  <2> QED
    BY <1>2, <2>1, <2>2, <2>4, WriterSteps
<1>4. CASE ~Encodable(resp[w])
  <2>1. /\ pc' = [pc EXCEPT ![w] = "returned"]
        /\ result' = [result EXCEPT ![w] = "EINVAL"]
        /\ body' = body
    BY <1>4 DEF Encode
  <2>2. /\ pc'[w] = "returned" /\ result'[w] = "EINVAL"
        /\ \A v \in Writers \ {w} : result'[v] = result[v] /\ pc'[v] = pc[v]
        /\ TypeOK'
    BY <1>2, <2>1 DEF AnswerInv, TypeOK
  <2>3. resp[w].form \notin {"allow", "deny", "deny_errno", "audit_rule"}
    BY <1>1, <1>4 DEF Encodable, FormInv, INFO_HEADER_SIZE, AUDIT_RULE_PAYLOAD_SIZE, U16_MAX
  <2>4. Returned(w)'
    BY <1>1, <1>2, <2>2, <2>3 DEF Returned, NotRefused
  <2>5. WriterInv(w)'
    BY <1>1, <1>2, <2>1, <2>2, <2>4 DEF AnswerInv, WriterInv
  <2> QED
    BY <1>2, <2>1, <2>2, <2>5, WriterSteps
<1> QED
  BY <1>3, <1>4

(* A write that fails: EINVAL has a reason the writer can look up.         *)
LEMMA WriteFailsAnswers ==
  ASSUME AnswerInv, NEW w \in Writers, WriteFails(w)
  PROVE  AnswerInv'
<1> DEFINE wire == AsSlice(body[w])
<1>1. /\ resp[w] \in FanotifyResponse /\ pc[w] = "write" /\ hit[w] = NOFD
      /\ FormInv(resp[w]) /\ body[w] \in Buffer /\ WireOf(wire, resp[w])
  BY DEF AnswerInv, TypeOK, WriterInv, WriteFails
<1>2. wire \in Seq(Chunk)
  BY <1>1 DEF Buffer, AsSlice
<1>3. /\ UNCHANGED <<group, waiting, verdict, resp, hit>>
      /\ pc' = [pc EXCEPT ![w] = "returned"]
      /\ body' = [body EXCEPT ![w] = NewBuffer]
  BY DEF WriteFails, Leave
<1>4. \E why \in {"EINVAL", "ENOENT", "EBADF"} :
        /\ result' = [result EXCEPT ![w] = why]
        /\ why = "EINVAL" => ~Accepted(wire) \/ ErrnoBits(At(wire, 4)) # {}
  BY DEF WriteFails
<1> HIDE DEF wire
<1>5. /\ pc'[w] = "returned" /\ body'[w] = NewBuffer
      /\ result'[w] \in {"EINVAL", "ENOENT", "EBADF"}
      /\ result'[w] = "EINVAL" => ~Accepted(wire) \/ ErrnoBits(At(wire, 4)) # {}
      /\ \A v \in Writers \ {w} : /\ body'[v] = body[v] /\ pc'[v] = pc[v]
                                  /\ result'[v] = result[v]
      /\ TypeOK'
  BY <1>3, <1>4 DEF AnswerInv, TypeOK
<1>6. NotRefused(w)'
  <2> SUFFICES ASSUME result'[w] = "EINVAL",
                      resp[w].form \in {"allow", "deny", "deny_errno", "audit_rule"},
                      resp[w].form = "audit_rule" =>
                        /\ resp[w].arg \in {FAN_ALLOW, FAN_DENY}
                        /\ group.enable_audit /\ group.knows_info
               PROVE  resp[w].form = "deny_errno" /\ resp[w].arg \cap FAN_ERRNO_MASK # {}
    BY <1>3 DEF NotRefused
  <2>1. ErrnoBits(At(wire, 4)) # {} /\ At(wire, 4) = resp[w].response
    BY <1>1, <1>2, <1>5, OwnFormAccepted, WireReads
  <2>2. resp[w].response \in {FAN_ALLOW, FAN_DENY} => ErrnoBits(resp[w].response) = {}
    BY DEF FAN_ALLOW, FAN_DENY, ErrnoBits, FAN_ERRNO_MASK, FAN_ERRNO_BITS, FAN_ERRNO_SHIFT
  <2>3. resp[w].form = "audit_rule" => ErrnoBits(resp[w].response) = {}
    BY <1>1 DEF FormInv, FAN_ALLOW, FAN_DENY, FAN_AUDIT, FAN_INFO, ErrnoBits, FAN_ERRNO_MASK,
                FAN_ERRNO_BITS, FAN_ERRNO_SHIFT
  <2>4. resp[w].form = "deny_errno"
    BY <1>1, <2>1, <2>2, <2>3 DEF FormInv
  <2>5. ErrnoBits(resp[w].response) = resp[w].arg \cap (0..7)
    BY <1>1, <2>4, DenyErrnoWordIsADenial DEF FormInv, FanotifyResponse
  <2>6. FAN_ERRNO_MASK = 0..7
    BY DEF FAN_ERRNO_MASK, FAN_ERRNO_BITS
  <2> QED
    BY <2>1, <2>4, <2>5, <2>6
<1>7. Returned(w)'
  BY <1>1, <1>3, <1>5, <1>6 DEF Returned
<1>8. WriterInv(w)'
  BY <1>1, <1>3, <1>5, <1>7, NewBufferTyped DEF WriterInv
<1> QED
  BY <1>3, <1>5, <1>8, WriterSteps

(* What an operation sees fits a word.                                     *)
LEMMA OutcomeTyped ==
  ASSUME NEW word \in SUBSET Bits
  PROVE  Outcome(word) \subseteq Bits
BY DEF Outcome, ErrnoBits, EPERM, FAN_ERRNO_MASK, FAN_ERRNO_BITS, Bits

(* A write that succeeds consumes every byte: none is ever short, since a  *)
(* response with a record announces it.                                    *)
LEMMA NoShortWrite ==
  ASSUME NEW wire \in Seq(Chunk), NEW r \in FanotifyResponse, WireOf(wire, r), FormInv(r)
  PROVE  ~(Consumed(wire) < Size(wire))
<1>1. At(wire, 4) = r.response /\ Size(wire) \in Nat
  <2>1. r.info # NoInfo => r.info.payload.size \in Nat
    BY DEF FanotifyResponse, Info, Payload
  <2> QED
    BY <2>1, WireReads
<1>2. CASE r.info = NoInfo
  BY <1>1, <1>2, WireReads DEF Consumed
<1>3. CASE r.info # NoInfo
  BY <1>1, <1>3 DEF Consumed, FormInv
<1> QED
  BY <1>2, <1>3

(* A write that succeeds answers the operation under its descriptor, which *)
(* nobody answered before, or accepts a record.                            *)
LEMMA WriteReturnsAnswers ==
  ASSUME AnswerInv, NEW w \in Writers, WriteReturns(w)
  PROVE  AnswerInv'
<1> DEFINE wire == AsSlice(body[w])
           word == resp[w].response
           fd == resp[w].fd
<1>1. /\ resp[w] \in FanotifyResponse /\ pc[w] = "write" /\ hit[w] = NOFD
      /\ FormInv(resp[w]) /\ body[w] \in Buffer /\ WireOf(wire, resp[w])
  BY DEF AnswerInv, TypeOK, WriterInv, WriteReturns
<1>2. wire \in Seq(Chunk)
  BY <1>1 DEF Buffer, AsSlice
<1>3. At(wire, 0) = fd /\ At(wire, 4) = word
  <2> HIDE DEF wire
  <2> QED
    BY <1>1, <1>2, WireReads
<1>4. fd \in Fds \cup {NOFD} /\ word \in SUBSET Bits
  BY <1>1 DEF FanotifyResponse
<1>5. /\ Accepted(wire)
      /\ \/ /\ fd \in waiting
            /\ waiting' = waiting \ {fd}
            /\ verdict' = [f \in DOMAIN verdict \cup {fd} |->
                             IF f = fd THEN Outcome(word) ELSE verdict[f]]
         \/ /\ fd = NOFD
            /\ FAN_INFO \subseteq word
            /\ UNCHANGED <<waiting, verdict>>
      /\ hit' = [hit EXCEPT ![w] = fd]
      /\ result' = [result EXCEPT ![w] = "ok"]
      /\ pc' = [pc EXCEPT ![w] = "returned"]
      /\ body' = [body EXCEPT ![w] = NewBuffer]
      /\ UNCHANGED <<group, resp>>
  <2>1. ~(Consumed(wire) < Size(wire))
    BY <1>1, <1>2, NoShortWrite
  <2> QED
    BY <1>3, <2>1 DEF WriteReturns, Leave
<1>6. FAN_INFO \subseteq word => resp[w].info # NoInfo
  <2> HIDE DEF wire
  <2>1. FAN_INFO \subseteq word => Size(wire) = 24
    BY <1>3, <1>5 DEF Accepted, RecordAccepted
  <2> QED
    BY <1>1, <1>2, <2>1, WireReads
<1> HIDE DEF wire, word, fd
<1>7. /\ pc'[w] = "returned" /\ body'[w] = NewBuffer /\ result'[w] = "ok" /\ hit'[w] = fd
      /\ \A v \in Writers \ {w} : /\ body'[v] = body[v] /\ pc'[v] = pc[v]
                                  /\ result'[v] = result[v] /\ hit'[v] = hit[v]
                                  /\ resp'[v] = resp[v]
      /\ group' = group /\ resp'[w] = resp[w]
  BY <1>5 DEF AnswerInv, TypeOK
<1>8. /\ waiting' \subseteq Fds
      /\ DOMAIN verdict' \subseteq Fds
      /\ \A f \in DOMAIN verdict' : verdict'[f] \subseteq Bits
      /\ waiting' \cap DOMAIN verdict' = {}
      /\ \A f \in DOMAIN verdict : f \in DOMAIN verdict' /\ verdict'[f] = verdict[f]
      /\ fd # NOFD => fd \in DOMAIN verdict' /\ verdict'[fd] = Outcome(word)
  <2>1. CASE fd \in waiting /\ waiting' = waiting \ {fd}
             /\ verdict' = [f \in DOMAIN verdict \cup {fd} |->
                              IF f = fd THEN Outcome(word) ELSE verdict[f]]
    <3>1. fd \in Fds /\ fd \notin DOMAIN verdict
      BY <2>1 DEF AnswerInv, TypeOK
    <3>2. /\ DOMAIN verdict' = DOMAIN verdict \cup {fd}
          /\ verdict'[fd] = Outcome(word)
          /\ \A f \in DOMAIN verdict : verdict'[f] = verdict[f]
      BY <2>1, <3>1
    <3>3. Outcome(word) \subseteq Bits
      BY <1>4, OutcomeTyped
    <3> QED
      BY <2>1, <3>1, <3>2, <3>3 DEF AnswerInv, TypeOK
  <2>2. CASE fd = NOFD /\ UNCHANGED <<waiting, verdict>>
    BY <2>2 DEF AnswerInv, TypeOK
  <2> QED
    BY <1>5, <2>1, <2>2
<1>9. TypeOK'
  BY <1>4, <1>5, <1>8 DEF AnswerInv, TypeOK
<1>10. Returned(w)'
  <2>1. Outcome(resp[w].response)' = Outcome(word)
    BY <1>7 DEF Outcome, word
  <2>2. fd = NOFD => resp[w].info # NoInfo
    <3>1. fd = NOFD => fd \notin waiting
      BY SentinelAssumption DEF AnswerInv, TypeOK
    <3> QED
      BY <1>5, <1>6, <3>1
  <2>3. NotRefused(w)'
    BY <1>7 DEF NotRefused
  <2>4. resp'[w].fd = fd
    BY <1>7 DEF fd
  <2> QED
    BY <1>7, <1>8, <2>1, <2>2, <2>3, <2>4 DEF Returned
<1>11. ASSUME NEW v \in Writers
       PROVE  WriterInv(v)'
  <2>1. CASE v = w
    BY <1>1, <1>7, <1>10, <2>1, NewBufferTyped DEF WriterInv
  <2>2. CASE v # w
    <3>1. WriterInv(v)
      BY DEF AnswerInv
    <3> QED
      BY <1>7, <1>8, <2>2, <3>1, WriterKept
  <2> QED
    BY <2>1, <2>2
<1> QED
  BY <1>8, <1>9, <1>11 DEF AnswerInv

(* Sending once more or dropping the response forgets the result.          *)
LEMMA NextSendAnswers ==
  ASSUME AnswerInv, NEW w \in Writers, Again(w) \/ Done(w)
  PROVE  AnswerInv'
<1>1. NoResponse \in FanotifyResponse /\ FormInv(NoResponse)
  BY DEF NoResponse, RawForm, FanotifyResponse, Forms, FormInv
<1>2. PICK next \in {"built", "idle"}, r \in FanotifyResponse :
        /\ FormInv(r)
        /\ pc' = [pc EXCEPT ![w] = next]
        /\ resp' = [resp EXCEPT ![w] = r]
        /\ hit' = [hit EXCEPT ![w] = NOFD]
        /\ result' = [result EXCEPT ![w] = "none"]
        /\ UNCHANGED <<group, waiting, verdict, body>>
  <2>1. CASE Again(w)
    <3>1. resp[w] \in FanotifyResponse /\ FormInv(resp[w]) /\ resp' = [resp EXCEPT ![w] = resp[w]]
      BY <2>1 DEF AnswerInv, WriterInv, TypeOK, Again
    <3> QED
      BY <2>1, <3>1 DEF Again
  <2>2. CASE Done(w)
    BY <1>1, <2>2 DEF Done
  <2> QED
    BY <2>1, <2>2
<1>3. /\ pc'[w] = next /\ resp'[w] = r /\ hit'[w] = NOFD
      /\ \A v \in Writers \ {w} : /\ pc'[v] = pc[v] /\ resp'[v] = resp[v]
                                  /\ hit'[v] = hit[v] /\ result'[v] = result[v]
      /\ TypeOK'
  BY <1>2 DEF AnswerInv, TypeOK
<1>4. WriterInv(w)'
  BY <1>2, <1>3 DEF AnswerInv, WriterInv
<1> QED
  BY <1>2, <1>3, <1>4, WriterSteps

(* An operation blocks under a descriptor nothing was answered under.      *)
LEMMA BlockAnswers ==
  ASSUME AnswerInv, NEW fd \in Fds, Block(fd)
  PROVE  AnswerInv'
<1>1. TypeOK' /\ (waiting \cap DOMAIN verdict)' = {}
  BY DEF AnswerInv, TypeOK, Block, writer
<1>2. ASSUME NEW w \in Writers
      PROVE  WriterInv(w)'
  <2>1. WriterInv(w)
    BY DEF AnswerInv
  <2> QED
    BY <2>1, WriterKept DEF Block, writer
<1> QED
  BY <1>1, <1>2 DEF AnswerInv

(* Every step keeps the invariant of the answers.                          *)
LEMMA AnswerStep == AnswerInv /\ [Next]_vars => AnswerInv'
<1> SUFFICES ASSUME AnswerInv, [Next]_vars
             PROVE  AnswerInv'
  OBVIOUS
<1>1. CASE UNCHANGED vars
  <2>1. TypeOK' /\ (waiting \cap DOMAIN verdict)' = {}
    BY <1>1 DEF AnswerInv, TypeOK, vars, writer
  <2>2. ASSUME NEW w \in Writers
        PROVE  WriterInv(w)'
    <3>1. WriterInv(w)
      BY DEF AnswerInv
    <3> QED
      BY <1>1, <3>1, WriterKept DEF vars, writer
  <2> QED
    BY <2>1, <2>2 DEF AnswerInv
<1>2. CASE \E fd \in Fds : Block(fd)
  BY <1>2, BlockAnswers
<1>3. ASSUME NEW w \in Writers,
             Allow(w) \/ Deny(w) \/ DenyErrno(w) \/ Raw(w) \/ WithInfo(w) \/ AuditRule(w)
      PROVE  AnswerInv'
  BY <1>3, ConstructorForms, BuildAnswers
<1>4. ASSUME NEW w \in Writers, \E fd \in Fds : WithFd(w, fd)
      PROVE  AnswerInv'
  BY <1>4, WithFdAnswers
<1>5. ASSUME NEW w \in Writers, Encode(w) PROVE AnswerInv'
  BY <1>5, EncodeAnswers
<1>6. ASSUME NEW w \in Writers, WriteFails(w) PROVE AnswerInv'
  BY <1>6, WriteFailsAnswers
<1>7. ASSUME NEW w \in Writers, WriteReturns(w) PROVE AnswerInv'
  BY <1>7, WriteReturnsAnswers
<1>8. ASSUME NEW w \in Writers, Again(w) \/ Done(w) PROVE AnswerInv'
  BY <1>8, NextSendAnswers
<1> QED
  BY <1>1, <1>2, <1>3, <1>4, <1>5, <1>6, <1>7, <1>8 DEF Next

(* The invariant holds before the first response is built.                 *)
LEMMA AnswerInit == Init => AnswerInv
<1> SUFFICES ASSUME Init
             PROVE  AnswerInv
  OBVIOUS
<1>1. NoResponse \in FanotifyResponse /\ FormInv(NoResponse)
  BY DEF NoResponse, RawForm, FanotifyResponse, Forms, FormInv
<1>2. DOMAIN verdict = {}
  BY DEF Init
<1>3. TypeOK
  BY <1>1, <1>2 DEF Init, TypeOK
<1>4. ASSUME NEW w \in Writers
      PROVE  WriterInv(w)
  BY <1>1, NewBufferTyped DEF Init, WriterInv
<1> QED
  BY <1>2, <1>3, <1>4 DEF AnswerInv

(* The inductive invariant of the responses holds throughout.              *)
LEMMA AnswerCorrect == Spec => []AnswerInv
BY AnswerInit, AnswerStep, PTL DEF Spec

(* Every variable keeps its type: no decision, errno or verdict leaves its *)
(* 32-bit word.                                                            *)
THEOREM ResponseTypeCorrect == Spec => []TypeOK
<1>1. AnswerInv => TypeOK
  BY DEF AnswerInv
<1> QED
  BY <1>1, AnswerCorrect, PTL

(* The bytes handed to write(2) are the response, for every payload size,  *)
(* every errno and every number of writers.                                *)
THEOREM WireCorrect == Spec => []WireIsTheResponse
<1>1. AnswerInv => WireIsTheResponse
  BY DEF AnswerInv, WriterInv, WireIsTheResponse
<1> QED
  BY <1>1, AnswerCorrect, PTL

(* What a send returns is what it did, for any number of writers and of    *)
(* operations: Ok means answered, an error means nobody was.               *)
THEOREM ResultCorrect == Spec => []ResultIsTheVerdict
<1>1. AnswerInv => ResultIsTheVerdict
  BY DEF AnswerInv, WriterInv, Returned, ResultIsTheVerdict
<1> QED
  BY <1>1, AnswerCorrect, PTL

(* The kernel refuses none of the crate's own forms for their shape,       *)
(* whatever the errno and whatever the rule.                               *)
THEOREM OwnFormsCorrect == Spec => []OwnFormsAreAccepted
<1>1. AnswerInv => OwnFormsAreAccepted
  BY DEF AnswerInv, WriterInv, Returned, NotRefused, OwnFormsAreAccepted
<1> QED
  BY <1>1, AnswerCorrect, PTL

(* The blocked operation sees the decision its answer asked for, for every *)
(* 32-bit errno and every decision word.                                   *)
THEOREM DecisionCorrect == Spec => []OperationSeesTheDecision
<1>1. ASSUME AnswerInv, NEW w \in Writers, pc[w] = "returned", hit[w] # NOFD
      PROVE  LET r == resp[w]
                 low == r.arg \cap (0..7)
             IN  /\ r.form = "allow" => verdict[hit[w]] = {}
                 /\ r.form = "deny" => verdict[hit[w]] = EPERM
                 /\ r.form = "deny_errno" =>
                      verdict[hit[w]] = IF group.pre_content /\ low # {} THEN low ELSE EPERM
                 /\ r.form = "audit_rule" => (verdict[hit[w]] = {} <=> FAN_ALLOW \subseteq r.arg)
  <2>1. /\ verdict[hit[w]] = Outcome(resp[w].response)
        /\ FormInv(resp[w])
        /\ resp[w] \in FanotifyResponse
    BY <1>1 DEF AnswerInv, WriterInv, Returned, TypeOK
  <2>2. resp[w].form = "allow" => Outcome(resp[w].response) = {}
    BY <2>1 DEF Outcome, FormInv
  <2>3. resp[w].form = "deny" => Outcome(resp[w].response) = EPERM
    BY <2>1 DEF Outcome, FormInv, FAN_ALLOW, FAN_DENY, ErrnoBits, FAN_ERRNO_MASK,
                FAN_ERRNO_BITS, FAN_ERRNO_SHIFT
  <2>4. ASSUME resp[w].form = "deny_errno"
        PROVE  Outcome(resp[w].response) =
                 IF group.pre_content /\ resp[w].arg \cap (0..7) # {}
                 THEN resp[w].arg \cap (0..7) ELSE EPERM
    <3>1. resp[w].arg \in SUBSET Bits /\ resp[w].response = DenyErrnoWord(resp[w].arg)
      BY <2>1, <2>4 DEF FormInv, FanotifyResponse
    <3>2. /\ resp[w].response \cap {0, 1, 4, 5} = {1}
          /\ ErrnoBits(resp[w].response) = resp[w].arg \cap (0..7)
      BY <3>1, DenyErrnoWordIsADenial DEF FAN_DENY
    <3> QED
      BY <3>2 DEF Outcome, FAN_ALLOW
  <2>5. resp[w].form = "audit_rule" =>
          (Outcome(resp[w].response) = {} <=> FAN_ALLOW \subseteq resp[w].arg)
    BY <2>1 DEF Outcome, FormInv, FAN_ALLOW, FAN_AUDIT, FAN_INFO, EPERM
  <2> QED
    BY <2>1, <2>2, <2>3, <2>4, <2>5
<1>2. AnswerInv => OperationSeesTheDecision
  BY <1>1 DEF OperationSeesTheDecision
<1> QED
  BY <1>2, AnswerCorrect, PTL
-----------------------------------------------------------------------------
(***************************************************************************)
(* The group that a response is written to, and the consumer that reads it *)
(* and waits.  The group's own constants and variables get names here; the *)
(* consumer's are the ones of Consumer.                                    *)
(***************************************************************************)
CONSTANTS Files, Paths, NoFile, EventBits, MaxChanges

VARIABLES owner, privileged, where, opened, marks, returned, changes

Gr == INSTANCE Group WITH Objects <- Files, Nothing <- NoFile, Bits <- EventBits

(* Multiplication by the same factor keeps the order. *)
LEMMA ScaleMonotone ==
  ASSUME NEW a \in Nat, NEW b \in Nat, NEW k \in Nat, a <= b
  PROVE  a * k <= b * k
<1>1. PICK d \in Nat : b = a + d
  <2>1. b - a \in Nat /\ b = a + (b - a)
    OBVIOUS
  <2> QED BY <2>1
<1>2. b * k = a * k + d * k
  BY <1>1
<1>3. d * k \in Nat /\ a * k \in Nat
  OBVIOUS
<1> QED BY <1>2, <1>3

(* Whole milliseconds of a duration: the rest is less than one. *)
LEMMA WholeMs ==
  ASSUME NEW d \in Nat, NEW k \in Nat \ {0}
  PROVE  /\ d \div k \in Nat
         /\ (d \div k) * k <= d
         /\ d < (d \div k) * k + k
  BY SMT

(* timeout_ms never promises a longer wait than was asked for, and falls   *)
(* short of it by less than a millisecond unless it is the cap.            *)
LEMMA TimeoutBound ==
  ASSUME NEW d \in Durations \cup {None}
  PROVE  /\ TimeoutMs(d) \in -1..MaxMs
         /\ TimeoutMs(d) >= 0 =>
              /\ d # None
              /\ TimeoutMs(d) * TicksPerMs <= d
              /\ TimeoutMs(d) * TicksPerMs > d - TicksPerMs \/ TimeoutMs(d) = MaxMs
<1>1. CASE d = None
  BY <1>1, ClockAssumption DEF TimeoutMs, None
<1>2. CASE d # None
  <2>1. d \in Nat /\ MaxMs \in Nat /\ TicksPerMs \in Nat \ {0}
    BY <1>2, ClockAssumption
  <2>2. /\ d \div TicksPerMs \in Nat
        /\ (d \div TicksPerMs) * TicksPerMs <= d
        /\ d < (d \div TicksPerMs) * TicksPerMs + TicksPerMs
    BY <2>1, WholeMs
  <2>3. CASE d \div TicksPerMs <= MaxMs
    <3>1. TimeoutMs(d) = d \div TicksPerMs
      BY <1>2, <2>3 DEF TimeoutMs
    <3> QED BY <1>2, <2>1, <2>2, <2>3, <3>1
  <2>4. CASE ~(d \div TicksPerMs <= MaxMs)
    <3>1. TimeoutMs(d) = MaxMs
      BY <1>2, <2>4 DEF TimeoutMs
    <3>2. MaxMs * TicksPerMs <= (d \div TicksPerMs) * TicksPerMs
      BY <2>1, <2>2, <2>4, ScaleMonotone
    <3> QED BY <1>2, <2>1, <2>2, <3>1, <3>2
  <2> QED BY <2>3, <2>4
<1> QED BY <1>1, <1>2

-----------------------------------------------------------------------------
(***************************************************************************)
(* What the rest of the group may do to a consumer: close an idle one's    *)
(* queue, or add an event to it.                                           *)
(***************************************************************************)
Emptied == loop \in {"idle", "stopped"} /\ queue' = <<>> /\ UNCHANGED <<raised, consumer>>

Raised ==
  /\ raised < MaxEvents
  /\ raised' = raised + 1
  /\ queue' = Append(queue, raised')
  /\ UNCHANGED consumer

ConsumerNext ==
  \/ Start \/ LoopStep \/ ReadFails("errno")
  \/ \E errno \in {"EINTR", "errno"} : PollFails(errno)
  \/ Emptied \/ Raised
  \/ UNCHANGED <<events, consumer>>

(* Every step of the group is one of these to its consumer. *)
LEMMA GroupStep ==
  ASSUME [Gr!Next]_Gr!vars
  PROVE  ConsumerNext
<1>1. UNCHANGED <<Gr!events, Gr!consumer>> => UNCHANGED <<events, consumer>>
  BY DEF Gr!events, Gr!consumer, events, consumer
<1>2. ASSUME NEW fields, Gr!Change(fields)
      PROVE  UNCHANGED <<events, consumer>>
  BY <1>1, <1>2 DEF Gr!Change
<1>3. ASSUME \/ \E p, q \in Paths : Gr!Rename(p, q)
             \/ \E p \in Paths : Gr!OpenObject(p)
             \/ \E add \in BOOLEAN, anchor \in Gr!Anchors, bits \in Gr!Masks :
                  \/ \E p \in Paths : Gr!Mark(p, add, anchor, bits)
                  \/ Gr!MarkAt(add, anchor, bits)
                  \/ Gr!MarkFd(add, anchor, bits)
             \/ Gr!MarkNul
             \/ Gr!FlushMarks
      PROVE  UNCHANGED <<events, consumer>>
  BY <1>2, <1>3 DEF Gr!Rename, Gr!OpenObject, Gr!Mark, Gr!MarkAt, Gr!MarkFd, Gr!FanotifyMark,
                    Gr!MarkNul, Gr!FlushMarks
<1>4. ASSUME NEW adminOnly \in BOOLEAN, NEW legal \in BOOLEAN, Gr!FanotifyInit(adminOnly, legal)
      PROVE  UNCHANGED <<events, consumer>>
  BY <1>1, <1>4 DEF Gr!FanotifyInit
<1>5. CASE Gr!IntoInner \/ Gr!FromFd
  BY <1>1, <1>5 DEF Gr!IntoInner, Gr!FromFd, ConsumerNext
<1>6. CASE Gr!Drop
  BY <1>6 DEF Gr!Drop, Gr!consumer, consumer, ConsumerNext, Emptied
<1>7. ASSUME NEW o \in Files, NEW bit \in EventBits, Gr!Raise(o, bit)
      PROVE  Raised
  BY <1>7 DEF Gr!Raise, Gr!consumer, consumer, Raised
<1>8. CASE \/ Gr!ConsumerStep \/ Gr!ReadFails("errno")
           \/ \E errno \in {"EINTR", "errno"} : Gr!PollFails(errno)
  <2>1. Gr!Start => Start
    BY DEF Gr!Start, Start, Gr!events, events
  <2>2. Gr!LoopStep => LoopStep
    BY DEF Gr!LoopStep, LoopStep, Gr!ReadEvents, ReadEvents, Gr!ReadFails, ReadFails,
           Gr!IsWouldBlock, IsWouldBlock, Gr!WaitReadable, WaitReadable, Gr!TimeoutMs, TimeoutMs,
           Gr!None, None, Gr!Tick, Tick, Gr!Due, Due, Gr!PollReady, PollReady,
           Gr!PollTimesOut, PollTimesOut, Gr!Poll, Poll, Gr!events, events
  <2>3. /\ Gr!ReadFails("errno") => ReadFails("errno")
        /\ \A errno \in {"EINTR", "errno"} : Gr!PollFails(errno) => PollFails(errno)
    BY DEF Gr!ReadFails, ReadFails, Gr!IsWouldBlock, IsWouldBlock, Gr!PollFails, PollFails,
           Gr!events, events
  <2> QED BY <1>8, <2>1, <2>2, <2>3 DEF Gr!ConsumerStep, Gr!StartLoop, ConsumerNext
<1>9. CASE UNCHANGED Gr!vars
  BY <1>1, <1>9 DEF Gr!vars, ConsumerNext
<1> QED BY <1>3, <1>4, <1>5, <1>6, <1>7, <1>8, <1>9 DEF Gr!Next, ConsumerNext

(* The consumer's part of the initial states. *)
LEMMA GroupInit == Gr!Init => ConsumerInit
BY DEF Gr!Init, Gr!ConsumerInit, ConsumerInit, Gr!None, None

-----------------------------------------------------------------------------
(* The types of the queue and of the consumer are inductive. *)
LEMMA ConsumerTypeStep ==
  ASSUME ConsumerTypeOK, ConsumerNext
  PROVE  ConsumerTypeOK'
<1>1. CASE Start
  BY <1>1 DEF ConsumerTypeOK, Start, events
<1>2. CASE ReadEvents
  <2>1. PICK k \in 1..BatchMax : k <= Len(queue) /\ queue' = SubSeq(queue, k + 1, Len(queue))
    BY <1>2 DEF ReadEvents
  <2>2. queue' \in Seq(1..MaxEvents)
    BY <2>1, LoopAssumption DEF ConsumerTypeOK
  <2> QED BY <1>2, <2>2 DEF ConsumerTypeOK, ReadEvents
<1>3. ASSUME NEW errno \in {"EAGAIN", "errno"}, ReadFails(errno)
      PROVE  ConsumerTypeOK'
  BY <1>3 DEF ConsumerTypeOK, ReadFails, events
<1>4. ASSUME NEW d \in Durations \cup {None}, WaitReadable(d)
      PROVE  ConsumerTypeOK'
  <2>1. timeout' \in -1..MaxMs
    BY <1>4, TimeoutBound DEF WaitReadable
  <2> QED BY <1>4, <2>1 DEF ConsumerTypeOK, WaitReadable, events
<1>5. CASE Tick
  BY <1>5 DEF ConsumerTypeOK, Tick, events
<1>6. CASE PollReady \/ PollTimesOut \/ \E errno \in {"EINTR", "errno"} : PollFails(errno)
  BY <1>6 DEF ConsumerTypeOK, PollReady, PollTimesOut, PollFails, Poll, events
<1>7. CASE Emptied
  BY <1>7 DEF ConsumerTypeOK, Emptied, consumer
<1>8. CASE Raised
  <2>1. raised' \in 1..MaxEvents
    BY <1>8, LoopAssumption DEF Raised, ConsumerTypeOK
  <2> QED BY <1>8, <2>1 DEF ConsumerTypeOK, Raised, consumer
<1>9. CASE UNCHANGED <<events, consumer>>
  BY <1>9 DEF ConsumerTypeOK, events, consumer
<1> QED
  BY <1>1, <1>2, <1>3, <1>4, <1>5, <1>6, <1>7, <1>8, <1>9 DEF ConsumerNext, LoopStep

(* The initial states have the types. *)
LEMMA ConsumerTypeInit == ConsumerInit => ConsumerTypeOK
BY ClockAssumption, LoopAssumption DEF ConsumerInit, ConsumerTypeOK, None

-----------------------------------------------------------------------------
(***************************************************************************)
(* WaitIsHonest is not inductive: it says nothing while poll waits, and    *)
(* nothing outside "read", from where Start and Drop come back.  PollState *)
(* is what holds while poll waits; OutcomeIsFresh says that an outcome is  *)
(* there only until the read that follows the wait.                        *)
(***************************************************************************)
PollState ==
  loop = "poll" =>
    /\ timeout = TimeoutMs(asked)
    /\ timeout >= 0 => elapsed <= timeout * TicksPerMs

OutcomeIsFresh == waited # "none" => loop = "read"

WaitInv == ConsumerTypeOK /\ PollState /\ OutcomeIsFresh /\ WaitIsHonest

(* A step that leaves the wait's state alone keeps all of it, as long as   *)
(* the queue is not emptied after a "ready".                               *)
LEMMA WaitKept ==
  ASSUME WaitInv, UNCHANGED consumer, queue # <<>> => queue' # <<>>
  PROVE  PollState' /\ OutcomeIsFresh' /\ WaitIsHonest'
BY DEF WaitInv, PollState, OutcomeIsFresh, WaitIsHonest, consumer, TimeoutMs

(* A wait that times out has lasted exactly the milliseconds of poll. *)
LEMMA TimesOutHonestly ==
  ASSUME WaitInv, PollTimesOut
  PROVE  /\ asked # None
         /\ elapsed > asked - TicksPerMs \/ elapsed = MaxMs * TicksPerMs
         /\ elapsed <= asked
<1>1. timeout = TimeoutMs(asked) /\ timeout >= 0
  BY DEF WaitInv, PollState, PollTimesOut, Poll, Due
<1>2. timeout \in Nat /\ elapsed \in Nat /\ TicksPerMs \in Nat /\ MaxMs \in Nat
  BY <1>1, ClockAssumption DEF WaitInv, ConsumerTypeOK
<1>3. elapsed = timeout * TicksPerMs
  <2>1. timeout * TicksPerMs \in Nat
    BY <1>2
  <2>2. elapsed >= timeout * TicksPerMs /\ elapsed <= timeout * TicksPerMs
    BY DEF WaitInv, PollState, PollTimesOut, Poll, Due
  <2> QED BY <1>2, <2>1, <2>2
<1>4. asked \in Durations \cup {None}
  BY DEF WaitInv, ConsumerTypeOK
<1> QED BY <1>1, <1>3, <1>4, TimeoutBound

(* The strengthened invariant is inductive. *)
LEMMA WaitStep ==
  ASSUME WaitInv, ConsumerNext
  PROVE  WaitInv'
<1> SUFFICES PollState' /\ OutcomeIsFresh' /\ WaitIsHonest'
  BY ConsumerTypeStep DEF WaitInv
<1>1. CASE Start
  BY <1>1 DEF Start, WaitInv, PollState, OutcomeIsFresh, WaitIsHonest
<1>2. CASE ReadEvents
  BY <1>2 DEF ReadEvents, PollState, OutcomeIsFresh, WaitIsHonest
<1>3. ASSUME NEW errno \in {"EAGAIN", "errno"}, ReadFails(errno)
      PROVE  PollState' /\ OutcomeIsFresh' /\ WaitIsHonest'
  BY <1>3 DEF ReadFails, PollState, OutcomeIsFresh, WaitIsHonest
<1>4. ASSUME NEW d \in Durations \cup {None}, WaitReadable(d)
      PROVE  PollState' /\ OutcomeIsFresh' /\ WaitIsHonest'
  <2>1. timeout' >= 0 => 0 <= timeout' * TicksPerMs
    BY <1>4, TimeoutBound, ClockAssumption DEF WaitReadable
  <2> QED BY <1>4, <2>1 DEF WaitReadable, PollState, OutcomeIsFresh, WaitIsHonest, TimeoutMs
<1>5. CASE Tick
  <2>1. /\ timeout \in Nat /\ elapsed \in Nat /\ timeout * TicksPerMs \in Nat
        /\ ~(elapsed >= timeout * TicksPerMs)
    BY <1>5, ClockAssumption DEF Tick, Due, WaitInv, ConsumerTypeOK
  <2>2. elapsed' <= timeout * TicksPerMs
    BY <1>5, <2>1 DEF Tick
  <2> QED
    BY <1>5, <2>2 DEF Tick, WaitInv, PollState, OutcomeIsFresh, WaitIsHonest, TimeoutMs
<1>6. CASE PollReady
  BY <1>6 DEF PollReady, Poll, events, PollState, OutcomeIsFresh, WaitIsHonest
<1>7. CASE PollTimesOut
  BY <1>7, TimesOutHonestly DEF PollTimesOut, Poll, PollState, OutcomeIsFresh, WaitIsHonest
<1>8. ASSUME NEW errno \in {"EINTR", "errno"}, PollFails(errno)
      PROVE  PollState' /\ OutcomeIsFresh' /\ WaitIsHonest'
  BY <1>8 DEF PollFails, WaitInv, PollState, OutcomeIsFresh, WaitIsHonest
<1>9. CASE Emptied
  BY <1>9 DEF Emptied, consumer, WaitInv, PollState, OutcomeIsFresh, WaitIsHonest
<1>10. CASE Raised
  <2>1. raised' \in 1..MaxEvents /\ queue \in Seq(1..MaxEvents)
    BY <1>10, LoopAssumption DEF Raised, WaitInv, ConsumerTypeOK
  <2>2. queue' # <<>>
    BY <1>10, <2>1 DEF Raised
  <2> QED BY <1>10, <2>2, WaitKept DEF Raised
<1>11. CASE UNCHANGED <<events, consumer>>
  BY <1>11, WaitKept DEF events
<1> QED
  BY <1>1, <1>2, <1>3, <1>4, <1>5, <1>6, <1>7, <1>8, <1>9, <1>10, <1>11
  DEF ConsumerNext, LoopStep

(* What wait_readable returns is true when it returns: for every timeout,  *)
(* every resolution of the clock and every cap, however marks, events,     *)
(* errors and the hand-over of the descriptor interleave with the wait.    *)
THEOREM WaitHonest == Gr!Spec => []WaitIsHonest
<1>1. Gr!Init => WaitInv
  BY GroupInit, ConsumerTypeInit
  DEF ConsumerInit, WaitInv, PollState, OutcomeIsFresh, WaitIsHonest
<1>2. WaitInv /\ [Gr!Next]_Gr!vars => WaitInv'
  BY WaitStep, GroupStep
<1>3. WaitInv => WaitIsHonest
  BY DEF WaitInv
<1> QED BY <1>1, <1>2, <1>3, PTL DEF Gr!Spec

-----------------------------------------------------------------------------
(* A call on the marks names one of the kernel's connectors. *)
LEMMA ConnectorType ==
  ASSUME NEW anchor \in Gr!Anchors, NEW o \in Files
  PROVE  Gr!Connector(anchor, o) \in Gr!Connectors
BY DEF Gr!Connector, Gr!Connectors, Gr!Anchors

(* The types of the group and of the kernel's side of it. *)
SetupTypeOK ==
  /\ owner \in {"nobody", "Fanotify", "OwnedFd"}
  /\ privileged \in BOOLEAN
  /\ where \in [Paths -> Files \cup {NoFile}]
  /\ opened \in Files \cup {NoFile}
  /\ marks \in [Gr!Connectors -> SUBSET EventBits]
  /\ returned \in [call : Gr!Calls, error : Gr!Errors]
  /\ changes \in 0..MaxChanges

(* Every call that marks keeps the types. *)
LEMMA FanotifyMarkTypes ==
  ASSUME MaxChanges \in Nat, SetupTypeOK,
         NEW o \in Files \cup {NoFile}, NEW add \in BOOLEAN,
         NEW anchor \in Gr!Anchors, NEW bits \in SUBSET EventBits,
         NEW missing \in {"ENOENT", "EBADF"},
         Gr!FanotifyMark(o, add, anchor, bits, missing)
  PROVE  SetupTypeOK'
<1>1. returned' \in [call : Gr!Calls, error : Gr!Errors]
  BY DEF Gr!FanotifyMark, Gr!MarkErrno, Gr!Returned, Gr!Calls, Gr!Errors
<1>2. marks' \in [Gr!Connectors -> SUBSET EventBits]
  <2>1. CASE returned'.error # "Ok"
    BY <2>1 DEF Gr!FanotifyMark, SetupTypeOK
  <2>2. CASE returned'.error = "Ok"
    <3>1. o \in Files
      BY <2>2 DEF Gr!FanotifyMark, Gr!MarkErrno, Gr!Returned
    <3> QED BY <2>2, <3>1, ConnectorType DEF Gr!FanotifyMark, SetupTypeOK
  <2> QED BY <2>1, <2>2
<1> QED BY <1>1, <1>2 DEF Gr!FanotifyMark, Gr!Change, SetupTypeOK

(* The types of the group are inductive. *)
LEMMA SetupTypeStep ==
  ASSUME MaxChanges \in Nat, SetupTypeOK, [Gr!Next]_Gr!vars
  PROVE  SetupTypeOK'
<1>1. ASSUME NEW adminOnly \in BOOLEAN, NEW legal \in BOOLEAN, Gr!FanotifyInit(adminOnly, legal)
      PROVE  SetupTypeOK'
  BY <1>1 DEF SetupTypeOK, Gr!FanotifyInit, Gr!Returned, Gr!Calls, Gr!Errors
<1>2. CASE Gr!IntoInner \/ Gr!FromFd
  BY <1>2 DEF SetupTypeOK, Gr!IntoInner, Gr!FromFd
<1>3. CASE Gr!Drop
  BY <1>3 DEF SetupTypeOK, Gr!Drop, Gr!NoMarks
<1>4. ASSUME NEW p \in Paths, NEW q \in Paths, Gr!Rename(p, q)
      PROVE  SetupTypeOK'
  BY <1>4 DEF SetupTypeOK, Gr!Rename, Gr!Change
<1>5. ASSUME NEW p \in Paths, Gr!OpenObject(p)
      PROVE  SetupTypeOK'
  BY <1>5 DEF SetupTypeOK, Gr!OpenObject, Gr!Change
<1>6. ASSUME NEW add \in BOOLEAN, NEW anchor \in Gr!Anchors, NEW bits \in Gr!Masks,
             \/ \E p \in Paths : Gr!Mark(p, add, anchor, bits)
             \/ Gr!MarkAt(add, anchor, bits)
             \/ Gr!MarkFd(add, anchor, bits)
      PROVE  SetupTypeOK'
  <2>1. bits \in SUBSET EventBits
    BY DEF Gr!Masks
  <2>2. ASSUME NEW p \in Paths, Gr!Mark(p, add, anchor, bits)
        PROVE  SetupTypeOK'
    BY <2>1, <2>2, FanotifyMarkTypes DEF Gr!Mark, SetupTypeOK
  <2>3. CASE Gr!MarkAt(add, anchor, bits) \/ Gr!MarkFd(add, anchor, bits)
    BY <2>1, <2>3, FanotifyMarkTypes DEF Gr!MarkAt, Gr!MarkFd, SetupTypeOK
  <2> QED BY <1>6, <2>2, <2>3
<1>7. CASE Gr!MarkNul \/ Gr!FlushMarks
  BY <1>7 DEF SetupTypeOK, Gr!MarkNul, Gr!FlushMarks, Gr!Change,
            Gr!Returned, Gr!Calls, Gr!Errors
<1>8. UNCHANGED Gr!setup => SetupTypeOK'
  BY DEF SetupTypeOK, Gr!setup
<1>9. CASE (\E o \in Files, bit \in EventBits : Gr!Raise(o, bit)) \/ Gr!ConsumerStep
  BY <1>8, <1>9 DEF Gr!Raise, Gr!ConsumerStep, Gr!StartLoop
<1>10. CASE UNCHANGED Gr!vars
  BY <1>8, <1>10 DEF Gr!vars
<1> QED
  BY <1>1, <1>2, <1>3, <1>4, <1>5, <1>6, <1>7, <1>8, <1>9, <1>10 DEF Gr!Next

(* Type correctness of the group and its consumer, for every instance.  *)
(* The hypothesis is the assumption of Group on its bound.              *)
THEOREM GroupTypeCorrect ==
  ASSUME MaxChanges \in Nat
  PROVE  Gr!Spec => []Gr!TypeOK
<1> DEFINE Types == SetupTypeOK /\ ConsumerTypeOK
<1>1. Gr!Init => Types
  BY GroupInit, ConsumerTypeInit DEF Gr!Init, SetupTypeOK, Gr!NoMarks, Gr!Connectors,
     Gr!Returned, Gr!Calls, Gr!Errors
<1>2. Types /\ [Gr!Next]_Gr!vars => Types'
  BY SetupTypeStep, ConsumerTypeStep, GroupStep
<1>3. Types => Gr!TypeOK
  BY DEF SetupTypeOK, ConsumerTypeOK, Gr!TypeOK, Gr!ConsumerTypeOK, Gr!None, None
<1> HIDE DEF Types
<1> QED BY <1>1, <1>2, <1>3, PTL DEF Gr!Spec
=============================================================================
