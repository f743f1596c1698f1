------------------------------ MODULE Response ------------------------------
(***************************************************************************)
(* Answering a permission event: src/response.rs and Fanotify's            *)
(* send_response.  A writer builds a FanotifyResponse with one of its      *)
(* constructors, may attach a descriptor, and sends it, possibly more than *)
(* once (send_response borrows it); sending encodes it into a WireBuffer   *)
(* and is one write(2) on the group, which any thread may call.            *)
(*                                                                         *)
(* A 32-bit word is the set of its bit positions, so that | is union, &    *)
(* intersection, and << a shift that loses what leaves the word; an i32    *)
(* errno cast to u32 is the same kind of set.  The bytes of a response are *)
(* the slices appended to the WireBuffer, each with its offset and size.   *)
(*                                                                         *)
(* External: the kernel's fanotify_write, from the rules the crate's docs  *)
(* and its error texts state, and the operations that wait for an answer.  *)
(***************************************************************************)
EXTENDS Integers, Sequences

CONSTANTS
  Writers,    \* threads that answer events
  Fds,        \* descriptor numbers of delivered events
  NOFD,       \* FAN_NOFD
  Errnos,     \* errno arguments of deny_errno, as bit sets
  Words,      \* decision words a caller hands to raw
  Decisions,  \* decision words a caller hands to info and audit_rule
  InfoTypes,  \* record types handed to info
  Sizes,      \* payload sizes handed to info
  Bodies,     \* payload contents, audit rules included
  NoInfo      \* a response without a record

Bits == 0..31

ASSUME WordsAssumption ==
  /\ Errnos \subseteq SUBSET Bits
  /\ Words \subseteq SUBSET Bits
  /\ Decisions \subseteq SUBSET Bits
ASSUME SizesAssumption == Sizes \subseteq Nat
ASSUME InfoTypesAssumption == InfoTypes \subseteq 0..255
ASSUME SentinelAssumption == NOFD \notin Fds
-----------------------------------------------------------------------------
FAN_ALLOW == {0}
FAN_DENY == {1}
FAN_AUDIT == {4}
FAN_INFO == {5}
FAN_ERRNO_BITS == 8
FAN_ERRNO_SHIFT == 32 - FAN_ERRNO_BITS
FAN_ERRNO_MASK == 0..(FAN_ERRNO_BITS - 1)
FAN_RESPONSE_INFO_AUDIT_RULE == 1

INFO_HEADER_SIZE == 4
AUDIT_RULE_PAYLOAD_SIZE == 12
INLINE == 32
U16_MAX == 65535

Wrong_DenyErrnoWord_Wide(errno) == FAN_DENY \cup {b + FAN_ERRNO_SHIFT : b \in errno}
Wrong_DenyErrnoWord_MaskLast(errno) ==
  FAN_DENY \cup ({b + FAN_ERRNO_SHIFT : b \in errno} \cap FAN_ERRNO_MASK)

(* FAN_DENY with the errno packed where the kernel reads it: a 32-bit `<<` *)
(* of the masked errno.                                                    *)
DenyErrnoWord(errno) ==
  FAN_DENY \cup ({b + FAN_ERRNO_SHIFT : b \in errno \cap FAN_ERRNO_MASK} \cap Bits)

Payload == [size : Nat, body : Bodies]
Info == [info_type : 0..255, payload : Payload]

ASSUME NoInfoAssumption == NoInfo \notin Info

(* A response, with the constructor and the argument it came from.         *)
Forms == {"allow", "deny", "deny_errno", "raw", "info", "audit_rule"}
FanotifyResponse ==
  [form : Forms, arg : SUBSET Bits, fd : Fds \cup {NOFD}, response : SUBSET Bits,
   info : Info \cup {NoInfo}]

RawForm(form, arg, fd, word) ==
  [form |-> form, arg |-> arg, fd |-> fd, response |-> word, info |-> NoInfo]

AllowForm(fd) == RawForm("allow", FAN_ALLOW, fd, FAN_ALLOW)
DenyForm(fd) == RawForm("deny", FAN_DENY, fd, FAN_DENY)
DenyErrnoForm(fd, errno) == RawForm("deny_errno", errno, fd, DenyErrnoWord(errno))

Wrong_InfoForm_NoFlag(decision, type, payload) ==
  [form |-> "info", arg |-> decision, fd |-> NOFD, response |-> decision,
   info |-> [info_type |-> type, payload |-> payload]]

InfoForm(decision, type, payload) ==
  [form |-> "info", arg |-> decision, fd |-> NOFD, response |-> decision \cup FAN_INFO,
   info |-> [info_type |-> type, payload |-> payload]]

Wrong_AuditRulePayload_WithHeader(rule) ==
  [size |-> INFO_HEADER_SIZE + AUDIT_RULE_PAYLOAD_SIZE, body |-> rule]

(* The record body built inside the response: the rule and two trust       *)
(* levels left at zero.                                                    *)
AuditRulePayload(rule) == [size |-> AUDIT_RULE_PAYLOAD_SIZE, body |-> rule]

AuditRuleForm(decision, rule) ==
  [form |-> "audit_rule", arg |-> decision, fd |-> NOFD,
   response |-> decision \cup FAN_AUDIT \cup FAN_INFO,
   info |-> [info_type |-> FAN_RESPONSE_INFO_AUDIT_RULE, payload |-> AuditRulePayload(rule)]]
-----------------------------------------------------------------------------
(* WireBuffer: the slices written so far, in the inline array until one    *)
(* does not fit and in a Vec from then on.                                 *)
NewBuffer == [inline |-> <<>>, spilled |-> FALSE, vec |-> <<>>]

AsSlice(buf) == IF buf.spilled THEN buf.vec ELSE buf.inline

Size(wire) == IF wire = <<>> THEN 0 ELSE wire[Len(wire)].at + wire[Len(wire)].size

Put(wire, size, value) == Append(wire, [at |-> Size(wire), size |-> size, value |-> value])

Wrong_ExtendFromSlice_LosesInline(buf, size, value) ==
  IF buf.spilled
  THEN [buf EXCEPT !.vec = Put(buf.vec, size, value)]
  ELSE IF Size(buf.inline) + size <= INLINE
       THEN [buf EXCEPT !.inline = Put(buf.inline, size, value)]
       ELSE [buf EXCEPT !.spilled = TRUE, !.vec = Put(<<>>, size, value)]

ExtendFromSlice(buf, size, value) ==
  IF buf.spilled
  THEN [buf EXCEPT !.vec = Put(buf.vec, size, value)]
  ELSE IF Size(buf.inline) + size <= INLINE
       THEN [buf EXCEPT !.inline = Put(buf.inline, size, value)]
       ELSE [buf EXCEPT !.spilled = TRUE, !.vec = Put(buf.inline, size, value)]

(* The 8-byte struct fanotify_response.                                    *)
EncodeWord(r) ==
  ExtendFromSlice(ExtendFromSlice(NewBuffer, 4, r.fd), 4, r.response)

(* The record after it: type and pad, len, payload.                        *)
EncodeInfo(buf, info) ==
  LET typed == ExtendFromSlice(buf, 2, <<info.info_type, 0>>)
      sized == ExtendFromSlice(typed, 2, INFO_HEADER_SIZE + info.payload.size)
  IN  ExtendFromSlice(sized, info.payload.size, info.payload.body)

(* A record whose length has no u16 is refused before any syscall.         *)
Encodable(r) == r.info # NoInfo => INFO_HEADER_SIZE + r.info.payload.size <= U16_MAX

EncodeResponse(r) ==
  IF r.info = NoInfo THEN EncodeWord(r) ELSE EncodeInfo(EncodeWord(r), r.info)
-----------------------------------------------------------------------------
VARIABLES
  group,    \* what the group and its kernel allow, fixed at fanotify_init
  waiting,  \* descriptors of the operations blocked on an answer
  verdict,  \* what each answered operation saw: {} when allowed, else an errno
  pc,       \* per writer
  resp,     \* per writer: the response it built
  body,     \* per writer: the WireBuffer of the send
  hit,      \* per writer: the descriptor its last send answered
  result    \* per writer: what its last send returned

writer == <<pc, resp, body, hit, result>>
vars == <<group, waiting, verdict, writer>>

EPERM == {0}
NoResponse == RawForm("raw", {}, NOFD, {})

Init ==
  /\ group \in [pre_content : BOOLEAN, enable_audit : BOOLEAN, knows_info : BOOLEAN]
  /\ waiting = {}
  /\ verdict = [fd \in {} |-> {}]
  /\ pc = [w \in Writers |-> "idle"]
  /\ resp = [w \in Writers |-> NoResponse]
  /\ body = [w \in Writers |-> NewBuffer]
  /\ hit = [w \in Writers |-> NOFD]
  /\ result = [w \in Writers |-> "none"]

(* An operation blocks and its event is delivered under a descriptor.      *)
Block(fd) ==
  /\ fd \notin waiting \cup DOMAIN verdict
  /\ waiting' = waiting \cup {fd}
  /\ UNCHANGED <<group, verdict, writer>>

Build(w, r) ==
  /\ pc[w] = "idle"
  /\ pc' = [pc EXCEPT ![w] = "built"]
  /\ resp' = [resp EXCEPT ![w] = r]
  /\ UNCHANGED <<group, waiting, verdict, body, hit, result>>

Allow(w) == \E fd \in Fds : Build(w, AllowForm(fd))
Deny(w) == \E fd \in Fds : Build(w, DenyForm(fd))
DenyErrno(w) == \E fd \in Fds, errno \in Errnos : Build(w, DenyErrnoForm(fd, errno))
Raw(w) == \E fd \in Fds \cup {NOFD}, word \in Words : Build(w, RawForm("raw", word, fd, word))
WithInfo(w) ==
  \E decision \in Decisions, type \in InfoTypes, size \in Sizes, bytes \in Bodies :
    Build(w, InfoForm(decision, type, [size |-> size, body |-> bytes]))
AuditRule(w) ==
  \E decision \in Decisions, rule \in Bodies : Build(w, AuditRuleForm(decision, rule))

WithFd(w, fd) ==
  /\ pc[w] = "built"
  /\ resp' = [resp EXCEPT ![w].fd = fd]
  /\ UNCHANGED <<group, waiting, verdict, pc, body, hit, result>>

(* send_response up to its system call.                                    *)
Encode(w) ==
  /\ pc[w] = "built"
  /\ \/ /\ Encodable(resp[w])
        /\ body' = [body EXCEPT ![w] = EncodeResponse(resp[w])]
        /\ pc' = [pc EXCEPT ![w] = "write"]
        /\ UNCHANGED result
     \/ /\ ~Encodable(resp[w])
        /\ pc' = [pc EXCEPT ![w] = "returned"]
        /\ result' = [result EXCEPT ![w] = "EINVAL"]
        /\ UNCHANGED body
  /\ UNCHANGED <<group, waiting, verdict, resp, hit>>
-----------------------------------------------------------------------------
(* fanotify_write.  The value it finds at an offset; what it accepts.      *)
At(wire, offset) == wire[CHOOSE i \in DOMAIN wire : wire[i].at = offset].value

ErrnoBits(word) == {b \in FAN_ERRNO_MASK : b + FAN_ERRNO_SHIFT \in word}

WordAccepted(word) ==
  /\ \A b \in word : b >= FAN_ERRNO_SHIFT \/ {b} \in {FAN_ALLOW, FAN_DENY, FAN_AUDIT, FAN_INFO}
  /\ (FAN_ALLOW \subseteq word) # (FAN_DENY \subseteq word)
  /\ FAN_AUDIT \subseteq word => group.enable_audit

RecordAccepted(wire) ==
  /\ group.knows_info
  /\ Size(wire) = 24
  /\ At(wire, 8) = <<FAN_RESPONSE_INFO_AUDIT_RULE, 0>>
  /\ At(wire, 10) = 16

Accepted(wire) ==
  /\ WordAccepted(At(wire, 4))
  /\ FAN_INFO \subseteq At(wire, 4) => RecordAccepted(wire)

(* The kernel reads a record only when the word announces one.             *)
Consumed(wire) == IF FAN_INFO \subseteq At(wire, 4) THEN Size(wire) ELSE 8

(* What the blocked operation sees.                                        *)
Outcome(word) ==
  IF FAN_ALLOW \subseteq word THEN {}
  ELSE IF group.pre_content /\ ErrnoBits(word) # {} THEN ErrnoBits(word) ELSE EPERM

(* write_response returns, and its WireBuffer with it.                     *)
Leave(w) ==
  /\ pc' = [pc EXCEPT ![w] = "returned"]
  /\ body' = [body EXCEPT ![w] = NewBuffer]

(* write(2) refuses: a word or a record it does not accept, or an errno;   *)
(* a descriptor that nothing waits under; a group it may not write to.     *)
WriteFails(w) ==
  LET wire == AsSlice(body[w])
      fd == At(wire, 0)
  IN  /\ pc[w] = "write"
      /\ \/ /\ \/ ~Accepted(wire)
               \/ ErrnoBits(At(wire, 4)) # {}
            /\ result' = [result EXCEPT ![w] = "EINVAL"]
         \/ /\ Accepted(wire)
            /\ fd \notin waiting
            /\ ~(fd = NOFD /\ FAN_INFO \subseteq At(wire, 4))
            /\ result' = [result EXCEPT ![w] = "ENOENT"]
         \/ result' = [result EXCEPT ![w] = "EBADF"]
      /\ Leave(w)
      /\ UNCHANGED <<group, waiting, verdict, resp, hit>>

(* write(2) succeeds: it answers the operation waiting under the           *)
(* descriptor, or only validates a record sent with FAN_NOFD.  A short     *)
(* count is reported as EINVAL.                                            *)
WriteReturns(w) ==
  LET wire == AsSlice(body[w])
      fd == At(wire, 0)
  IN  /\ pc[w] = "write"
      /\ Accepted(wire)
      /\ \/ /\ fd \in waiting
            /\ waiting' = waiting \ {fd}
            /\ verdict' = [f \in DOMAIN verdict \cup {fd} |->
                             IF f = fd THEN Outcome(At(wire, 4)) ELSE verdict[f]]
         \/ /\ fd = NOFD
            /\ FAN_INFO \subseteq At(wire, 4)
            /\ UNCHANGED <<waiting, verdict>>
      /\ hit' = [hit EXCEPT ![w] = fd]
      /\ result' = [result EXCEPT ![w] = IF Consumed(wire) < Size(wire) THEN "EINVAL" ELSE "ok"]
      /\ Leave(w)
      /\ UNCHANGED <<group, resp>>

(* The caller sends the same response once more, or drops it.              *)
Again(w) ==
  /\ pc[w] = "returned"
  /\ pc' = [pc EXCEPT ![w] = "built"]
  /\ hit' = [hit EXCEPT ![w] = NOFD]
  /\ result' = [result EXCEPT ![w] = "none"]
  /\ UNCHANGED <<group, waiting, verdict, resp, body>>

Done(w) ==
  /\ pc[w] = "returned"
  /\ pc' = [pc EXCEPT ![w] = "idle"]
  /\ resp' = [resp EXCEPT ![w] = NoResponse]
  /\ hit' = [hit EXCEPT ![w] = NOFD]
  /\ result' = [result EXCEPT ![w] = "none"]
  /\ UNCHANGED <<group, waiting, verdict, body>>

Next ==
  \/ \E fd \in Fds : Block(fd)
  \/ \E w \in Writers :
       \/ Allow(w) \/ Deny(w) \/ DenyErrno(w) \/ Raw(w) \/ WithInfo(w) \/ AuditRule(w)
       \/ \E fd \in Fds : WithFd(w, fd)
       \/ Encode(w) \/ WriteFails(w) \/ WriteReturns(w) \/ Again(w) \/ Done(w)

Spec == Init /\ [][Next]_vars
-----------------------------------------------------------------------------
(* The type invariant: words stay 32 bits wide.                            *)
TypeOK ==
  /\ group \in [pre_content : BOOLEAN, enable_audit : BOOLEAN, knows_info : BOOLEAN]
  /\ waiting \subseteq Fds
  /\ DOMAIN verdict \subseteq Fds
  /\ \A fd \in DOMAIN verdict : verdict[fd] \subseteq Bits
  /\ pc \in [Writers -> {"idle", "built", "write", "returned"}]
  /\ resp \in [Writers -> FanotifyResponse]
  /\ body = [w \in Writers |-> body[w]]
  /\ hit \in [Writers -> Fds \cup {NOFD}]
  /\ result \in [Writers -> {"none", "ok", "EINVAL", "ENOENT", "EBADF"}]

(* The wire format of one response, as the kernel reads it.                *)
WireOf(wire, r) ==
  /\ wire[1] = [at |-> 0, size |-> 4, value |-> r.fd]
  /\ wire[2] = [at |-> 4, size |-> 4, value |-> r.response]
  /\ r.info = NoInfo => Len(wire) = 2
  /\ r.info # NoInfo =>
       /\ Len(wire) = 5
       /\ wire[3] = [at |-> 8, size |-> 2, value |-> <<r.info.info_type, 0>>]
       /\ wire[4] = [at |-> 10, size |-> 2, value |-> Size(wire) - 8]
       /\ wire[5] = [at |-> 12, size |-> r.info.payload.size, value |-> r.info.payload.body]
       /\ Size(wire) - 8 <= U16_MAX

(* The bytes a write hands to the kernel are the response, whether they    *)
(* stayed in the inline array or spilled to the heap half-way: descriptor, *)
(* word, and then exactly the record, whose len counts its header, fits 16 *)
(* bits and is what follows the word (encode_response over WireBuffer).    *)
WireIsTheResponse ==
  \A w \in Writers : pc[w] = "write" => WireOf(AsSlice(body[w]), resp[w])

(* What a send returns is what it did: Ok says that the operation waiting  *)
(* under the response's descriptor was answered, or, without a descriptor, *)
(* that a record was accepted and nothing answered; an error says that no  *)
(* operation was answered, a short write included (write_response).        *)
ResultIsTheVerdict ==
  \A w \in Writers : pc[w] = "returned" =>
    /\ result[w] = "ok" => hit[w] = resp[w].fd
    /\ hit[w] # NOFD => result[w] = "ok" /\ hit[w] \in DOMAIN verdict
    /\ result[w] = "ok" /\ hit[w] = NOFD => resp[w].info # NoInfo

(* The forms that are not escape hatches are never refused for their       *)
(* shape: given one decision, only an audit the group did not enable, a    *)
(* record the kernel does not know or an errno can be EINVAL.              *)
OwnFormsAreAccepted ==
  \A w \in Writers :
    /\ pc[w] = "returned"
    /\ result[w] = "EINVAL"
    /\ resp[w].form \in {"allow", "deny", "deny_errno", "audit_rule"}
    /\ resp[w].form = "audit_rule" => resp[w].arg \in {FAN_ALLOW, FAN_DENY}
    => \/ resp[w].form = "audit_rule" /\ ~(group.enable_audit /\ group.knows_info)
       \/ resp[w].form = "deny_errno" /\ resp[w].arg \cap FAN_ERRNO_MASK # {}

(* The blocked operation sees the decision that was asked for: nothing an  *)
(* errno argument holds, zero, negative or too wide, turns a denial into   *)
(* anything but a denial, and a pre-content group reports its low eight    *)
(* bits, any other group EPERM (deny_errno).                               *)
OperationSeesTheDecision ==
  \A w \in Writers : pc[w] = "returned" /\ hit[w] # NOFD =>
    LET r == resp[w]
        low == r.arg \cap (0..7)
    IN  /\ r.form = "allow" => verdict[hit[w]] = {}
        /\ r.form = "deny" => verdict[hit[w]] = EPERM
        /\ r.form = "deny_errno" =>
             verdict[hit[w]] = IF group.pre_content /\ low # {} THEN low ELSE EPERM
        /\ r.form = "audit_rule" => (verdict[hit[w]] = {} <=> FAN_ALLOW \subseteq r.arg)
=============================================================================
