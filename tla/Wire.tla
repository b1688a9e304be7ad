-------------------------------- MODULE Wire --------------------------------
(***************************************************************************)
(* A snapshot on its way from the host to the device: what schema.py       *)
(* writes, and what the parser of http_server.c makes of it.  A body is an *)
(* object of named values, in order, and may be cut off; characters,       *)
(* escapes and white space are left out.                                   *)
(***************************************************************************)
EXTENDS Integers, SequencesExt

CONSTANT MaxWindow  \* INT32_MAX: longer windows are taken as this
ASSUME WireAssumption == MaxWindow \in Nat

\* JSON values, and the object members they are the values of.
Number(n) == [number |-> n]
Str(s)    == [string |-> s]
Bool(b)   == [boolean |-> b]
Array(s)  == [array |-> s]
Object(s) == [object |-> s]
Is(kind, v) == kind \in DOMAIN v
Member(key, v) == [key |-> key, val |-> v]
Keys(members) == {members[i].key : i \in DOMAIN members}

\* Names the device knows; "long" stands for one that does not fit its buffer,
\* "ctrl" for one with a control character.  Keys it does not know are "other",
\* "lengthy" from 16 characters on and "endless" from 32 on.
Known == {"claude", "codex"}
MaxSessions == 3

-----------------------------------------------------------------------------
(* The host: AgentSnapshot.to_dict.                                        *)

\* SessionSnapshot and AgentSnapshot as the agents build them: labels of their own,
\* which fit; percent; a window the device can hold; at least one session.
Reported == [type : STRING \ {"", "long", "ctrl", "brace"}, used : 0..100,
             resets : Int, rolling : BOOLEAN, window : 0..MaxWindow]
Sendable == [agent : Known, captured : Int, sessions : Seq(Reported) \ {<<>>}]

EncodeSession(s) ==
  Object(<<Member("type", Str(s.type)), Member("used_pct", Number(s.used)),
           Member("resets_at", Number(s.resets)), Member("rolling", Bool(s.rolling)),
           Member("window_duration_mins", Number(s.window))>>)

EncodeAll(sessions) == [i \in DOMAIN sessions |-> EncodeSession(sessions[i])]

Encode(m) ==
  [members |-> <<Member("agent", Str(m.agent)),
                 Member("captured_at", Number(m.captured)),
                 Member("sessions", Array(EncodeAll(m.sessions)))>>,
   closed |-> TRUE]

-----------------------------------------------------------------------------
(* The device: parse_session.                                              *)

\* A key is known and its value can be read, or it is skipped with its value, if
\* there is room for it: key[32] here, key[16] in parse_snapshot.
SessionFits(m) ==
  \/ m.key = "type" /\ Is("string", m.val) /\ m.val.string \notin {"long", "ctrl"}
  \/ m.key = "used_pct" /\ Is("number", m.val) /\ m.val.number \in 0..100
  \/ m.key \in {"resets_at", "window_duration_mins"} /\ Is("number", m.val)
  \/ m.key = "rolling" /\ Is("boolean", m.val)
  \/ m.key \in {"other", "lengthy"}

\* What a name stands for in the end: its last value, or the default.
ValueOf(key, members, default) ==
  IF key \in Keys(members)
  THEN members[CHOOSE i \in DOMAIN members :
                 /\ members[i].key = key
                 /\ \A j \in DOMAIN members : members[j].key = key => j <= i].val
  ELSE default

Clamped(n) == IF n < 0 THEN 0 ELSE IF n > MaxWindow THEN MaxWindow ELSE n
Session(v) ==
  [type    |-> ValueOf("type", v.object, Str("")).string,
   used    |-> ValueOf("used_pct", v.object, Number(0)).number,
   resets  |-> ValueOf("resets_at", v.object, Number(0)).number,
   rolling |-> ValueOf("rolling", v.object, Bool(FALSE)).boolean,
   window  |-> Clamped(ValueOf("window_duration_mins", v.object, Number(0)).number)]

SessionParses(v) ==
  /\ Is("object", v)
  /\ \A i \in DOMAIN v.object : SessionFits(v.object[i])
  /\ {"type", "used_pct", "resets_at"} \subseteq Keys(v.object)
  /\ Session(v).type # ""

(* The device: parse_snapshot.                                             *)

\* Mutant of Taken: one session more than there is room for... is overwritten.
TakenLast(items) ==
  IF Len(items) <= MaxSessions THEN items
  ELSE SubSeq(items, Len(items) - MaxSessions + 1, Len(items))

\* Sessions beyond the third are skipped by counting braces, wherever they are:
\* one in a name spoils the count.
Taken(items) == SubSeq(items, 1, IF Len(items) < MaxSessions THEN Len(items)
                                                             ELSE MaxSessions)
Skips(items) ==
  \A i \in (MaxSessions + 1)..Len(items) :
    \A j \in DOMAIN items[i].object :
      LET v == items[i].object[j].val IN Is("string", v) => v.string # "brace"

TopFits(m) ==
  \/ m.key = "agent" /\ Is("string", m.val) /\ m.val.string \in Known
  \/ m.key = "captured_at" /\ Is("number", m.val)
  \/ /\ m.key = "sessions" /\ Is("array", m.val)
     /\ \A i \in DOMAIN Taken(m.val.array) : SessionParses(m.val.array[i])
     /\ Skips(m.val.array)
  \/ m.key = "other"

EmptySnapshot == [agent |-> "", captured |-> 0, sessions |-> <<>>]
Parse(body) ==
  [agent    |-> ValueOf("agent", body.members, Str("")).string,
   captured |-> ValueOf("captured_at", body.members, Number(0)).number,
   sessions |-> LET items == Taken(ValueOf("sessions", body.members, Array(<<>>)).array)
                IN  [i \in DOMAIN items |-> Session(items[i])]]

Parses(body) ==
  /\ \A i \in DOMAIN body.members : TopFits(body.members[i])
  /\ body.closed
  /\ {"agent", "captured_at", "sessions"} \subseteq Keys(body.members)
  /\ Parse(body).sessions # <<>>

-----------------------------------------------------------------------------
(* What hosts of other versions, and broken connections, make of a body.   *)

\* Twists the parser is to put up with; ones it is to refuse; and members of a
\* newer host, which it is to skip, under names there is no room for.
Harmless == {"none", "reversed", "unknown", "lengthy", "older"}
Harmful  == {"cut", "undated", "unnamed", "overfull", "stranger", "empty"}
Oversize == {"wordy", "endless"}
Twists   == Harmless \cup Harmful \cup Oversize

\* A host from before rolling windows leaves out what says that there are none.
Older(s) == SubSeq(s, 1, 3)
            \o (IF s[4].val.boolean THEN <<s[4]>> ELSE <<>>)
            \o (IF s[5].val.number # 0 THEN <<s[5]>> ELSE <<>>)
Extended(s, key) == Append(s, Member(key, Array(<<>>)))
Overfull(s) == Append(s, Member("used_pct", Number(101)))

Reformed(s, twist) ==
  CASE twist = "reversed" -> Reverse(s)
    [] twist = "unknown"  -> Extended(s, "other")
    [] twist \in {"lengthy", "endless"} -> Extended(s, twist)
    [] twist = "older"    -> Older(s)
    [] twist = "unnamed"  -> Tail(s)
    [] twist = "overfull" -> Overfull(s)
    [] OTHER              -> s

OnSessions(members, twist) ==
  [i \in DOMAIN members |->
     IF Is("array", members[i].val)
     THEN Member(members[i].key,
                 Array([j \in DOMAIN members[i].val.array |->
                          Object(Reformed(members[i].val.array[j].object, twist))]))
     ELSE members[i]]

Twisted(body, twist) ==
  LET ms == OnSessions(body.members, twist) IN
  [members |-> CASE twist = "reversed" -> Reverse(ms)
                 [] twist = "unknown"  -> Extended(ms, "other")
                 [] twist = "wordy"    -> Extended(ms, "lengthy")
                 [] twist = "undated"  -> <<ms[1], ms[3]>>
                 [] twist = "stranger" -> Append(ms, Member("agent", Str("gemini")))
                 [] twist = "empty"    -> Append(ms, Member("sessions", Array(<<>>)))
                 [] OTHER              -> ms,
   closed |-> body.closed /\ twist # "cut"]

\* What the host meant, as far as the device has room for it.
Meant(m) ==
  [agent |-> m.agent, captured |-> m.captured,
   sessions |-> [i \in 1..(IF Len(m.sessions) < 3 THEN Len(m.sessions) ELSE 3) |->
                   m.sessions[i]]]
=============================================================================
