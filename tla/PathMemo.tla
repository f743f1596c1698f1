----------------------------- MODULE PathMemo -----------------------------
(***************************************************************************)
(* What a PathMemo of src/handle.rs promises to the threads that share it: *)
(* every call takes effect at one moment between its invocation and its    *)
(* return, on a map from handles to paths, and every call returns.         *)
(***************************************************************************)
EXTENDS Integers, FiniteSets

CONSTANTS
  Threads,  \* the threads that share the store
  Fsids,    \* filesystem identifiers
  Handles,  \* handle bytes; the same bytes may occur on two filesystems
  Paths,    \* paths
  Unknown   \* no entry: not a path

VARIABLES
  store,   \* what is known
  phase,   \* per thread: "idle", "called", "answered"
  call,    \* per thread: the call it is in
  answer   \* per thread: what that call answered

vars == <<store, phase, call, answer>>

Lookups == [op : {"with_path"}, fsid : Fsids, handle : Handles]
Counts == [op : {"len", "is_empty", "filesystems", "entries"}]
Remembers == [op : {"remember"}, fsid : Fsids, handle : Handles, path : Paths]
Forgets == [op : {"forget"}, fsid : Fsids, handle : Handles]
Drops == [op : {"forget_filesystem"}, fsid : Fsids] \cup [op : {"clear"}]

Reads == Lookups \cup Counts
NoCall == [op |-> "none"]
Calls == Reads \cup Remembers \cup Forgets \cup Drops

Nothing == [f \in Fsids |-> [h \in Handles |-> Unknown]]
Stores == [Fsids -> [Handles -> Paths \cup {Unknown}]]

(* What is known of a store's entries. *)
Entries(s) == {e \in Fsids \X Handles : s[e[1]][e[2]] # Unknown}
Filesystems(s) == {f \in Fsids : \E h \in Handles : s[f][h] # Unknown}

(* What a call answers on a store, tagged with the operation, and what it  *)
(* leaves.                                                                 *)
AnswerOf(c, s) ==
  CASE c.op = "with_path"   -> <<c.op, s[c.fsid][c.handle]>>
    [] c.op = "len"         -> <<c.op, Cardinality(Entries(s))>>
    [] c.op = "is_empty"    -> <<c.op, Entries(s) = {}>>
    [] c.op = "filesystems" -> <<c.op, Cardinality(Filesystems(s))>>
    [] c.op = "entries"     -> <<c.op, s>>
    [] OTHER                -> <<c.op>>

Effect(c, s) ==
  CASE c.op = "remember"          -> [s EXCEPT ![c.fsid][c.handle] = c.path]
    [] c.op = "forget"            -> [s EXCEPT ![c.fsid][c.handle] = Unknown]
    [] c.op = "forget_filesystem" -> [s EXCEPT ![c.fsid] = Nothing[c.fsid]]
    [] c.op = "clear"             -> Nothing
    [] OTHER                      -> s

-----------------------------------------------------------------------------
(* A store starts empty, or as a copy of another one. *)
Init ==
  /\ store \in Stores
  /\ phase = [t \in Threads |-> "idle"]
  /\ call = [t \in Threads |-> NoCall]
  /\ answer = [t \in Threads |-> <<>>]

Invoke(t, c) ==
  /\ phase[t] = "idle"
  /\ phase' = [phase EXCEPT ![t] = "called"]
  /\ call' = [call EXCEPT ![t] = c]
  /\ UNCHANGED <<store, answer>>

TakeEffect(t) ==
  /\ phase[t] = "called"
  /\ phase' = [phase EXCEPT ![t] = "answered"]
  /\ store' = Effect(call[t], store)
  /\ answer' = [answer EXCEPT ![t] = AnswerOf(call[t], store)]
  /\ UNCHANGED call

Return(t) ==
  /\ phase[t] = "answered"
  /\ phase' = [phase EXCEPT ![t] = "idle"]
  /\ call' = [call EXCEPT ![t] = NoCall]
  /\ answer' = [answer EXCEPT ![t] = <<>>]
  /\ UNCHANGED store

Next ==
  \E t \in Threads : (\E c \in Calls : Invoke(t, c)) \/ TakeEffect(t) \/ Return(t)

(* No call blocks its thread for ever. *)
CallsReturn == \A t \in Threads : phase[t] # "idle" ~> phase[t] = "idle"

Atomic == Init /\ [][Next]_vars
Spec == Atomic /\ CallsReturn
=============================================================================
