----------------------------- MODULE Wire_proofs -----------------------------
(***************************************************************************)
(* What the device makes of a snapshot, for any number of sessions, any    *)
(* values in them, and every twist.                                        *)
(***************************************************************************)
EXTENDS Wire, TLAPS

-----------------------------------------------------------------------------
(* Names and values.                                                       *)

LEMMA ValueKinds ==
  ASSUME NEW x
  PROVE  /\ \A k \in {"number", "string", "boolean", "array", "object"} :
              /\ Is(k, Number(x)) <=> k = "number"
              /\ Is(k, Str(x)) <=> k = "string"
              /\ Is(k, Bool(x)) <=> k = "boolean"
              /\ Is(k, Array(x)) <=> k = "array"
              /\ Is(k, Object(x)) <=> k = "object"
         /\ Number(x).number = x /\ Str(x).string = x /\ Bool(x).boolean = x
         /\ Array(x).array = x /\ Object(x).object = x
BY DEF Is, Number, Str, Bool, Array, Object

\* The value of a name that stands at one place only.
LEMMA ValueAt ==
  ASSUME NEW members, NEW i \in DOMAIN members, NEW default,
         \A j \in DOMAIN members : members[j].key = members[i].key => j = i,
         i \in Int
  PROVE  ValueOf(members[i].key, members, default) = members[i].val
<1>1. members[i].key \in Keys(members)
  BY DEF Keys
<1>2. (CHOOSE k \in DOMAIN members :
        /\ members[k].key = members[i].key
        /\ \A j \in DOMAIN members : members[j].key = members[i].key => j <= k) = i
  OBVIOUS
<1> QED BY <1>1, <1>2 DEF ValueOf

LEMMA NoValue ==
  ASSUME NEW members, NEW default, NEW key,
         \A j \in DOMAIN members : members[j].key # key
  PROVE  ValueOf(key, members, default) = default
BY DEF ValueOf, Keys

-----------------------------------------------------------------------------
(* One session.                                                            *)

Unknown(key) == Member(key, Array(<<>>))
Fields(s) ==
  {Member("type", Str(s.type)), Member("used_pct", Number(s.used)),
   Member("resets_at", Number(s.resets)), Member("rolling", Bool(s.rolling)),
   Member("window_duration_mins", Number(s.window)), Unknown("other"),
   Unknown("lengthy")}

\* An object that says of s what is required, and the rest unless it is the default;
\* in any order, with members unknown beside it whose keys have less than 32
\* characters.
Tells(x, s) ==
  /\ x \in Seq(Fields(s))
  /\ \A i, j \in DOMAIN x : x[i].key = x[j].key => i = j
  /\ {"type", "used_pct", "resets_at"} \subseteq Keys(x)
  /\ s.rolling => "rolling" \in Keys(x)
  /\ s.window # 0 => "window_duration_mins" \in Keys(x)

LEMMA FieldsAre ==
  ASSUME NEW s, NEW f \in Fields(s)
  PROVE  /\ f.key = "type" => f.val = Str(s.type)
         /\ f.key = "used_pct" => f.val = Number(s.used)
         /\ f.key = "resets_at" => f.val = Number(s.resets)
         /\ f.key = "rolling" => f.val = Bool(s.rolling)
         /\ f.key = "window_duration_mins" => f.val = Number(s.window)
         /\ f.key \in {"type", "used_pct", "resets_at", "rolling", "window_duration_mins",
                       "other", "lengthy"}
BY DEF Fields, Member, Unknown

LEMMA FieldFits ==
  ASSUME NEW s \in Reported, NEW f \in Fields(s)
  PROVE  /\ SessionFits(f)
         /\ Is("string", f.val) => f.val.string # "brace"
<1>1. s.type \notin {"long", "ctrl", "brace"} /\ s.used \in 0..100
  BY DEF Reported
<1>2. CASE f = Member("type", Str(s.type))
  BY <1>1, <1>2, ValueKinds DEF Member, SessionFits
<1>3. CASE f = Member("used_pct", Number(s.used))
  BY <1>1, <1>3, ValueKinds DEF Member, SessionFits
<1>4. CASE f = Member("resets_at", Number(s.resets))
  BY <1>4, ValueKinds DEF Member, SessionFits
<1>5. CASE f = Member("rolling", Bool(s.rolling))
  BY <1>5, ValueKinds DEF Member, SessionFits
<1>6. CASE f = Member("window_duration_mins", Number(s.window))
  BY <1>6, ValueKinds DEF Member, SessionFits
<1>7. CASE f = Unknown("other") \/ f = Unknown("lengthy")
  BY <1>7, ValueKinds DEF Member, Unknown, SessionFits
<1> QED BY <1>2, <1>3, <1>4, <1>5, <1>6, <1>7 DEF Fields

LEMMA ReportedIs ==
  ASSUME NEW s \in Reported
  PROVE  /\ s.type # ""
         /\ s = [type |-> s.type, used |-> s.used, resets |-> s.resets,
                 rolling |-> s.rolling, window |-> s.window]
BY DEF Reported

LEMMA ValueTold ==
  ASSUME NEW s, NEW x, Tells(x, s), NEW key \in Keys(x), NEW default
  PROVE  \E f \in Fields(s) : f.key = key /\ ValueOf(key, x, default) = f.val
<1>1. PICK i \in DOMAIN x : x[i].key = key
  BY DEF Keys
<1>2. i \in Int /\ x[i] \in Fields(s)
  BY DEF Tells
<1>3. ValueOf(x[i].key, x, default) = x[i].val
  BY <1>2, ValueAt DEF Tells
<1> QED BY <1>1, <1>2, <1>3

\* What is read from it is s.
LEMMA ToldIsRead ==
  ASSUME NEW s \in Reported, NEW x, Tells(x, s)
  PROVE  SessionParses(Object(x)) /\ Session(Object(x)) = s
<1>k. "type" \in Keys(x) /\ "used_pct" \in Keys(x) /\ "resets_at" \in Keys(x)
  BY DEF Tells
<1>1. ValueOf("type", x, Str("")).string = s.type
  <2> DEFINE e == Str("")
  <2> HIDE DEF e
  <2>1. PICK f \in Fields(s) : f.key = "type" /\ ValueOf("type", x, e) = f.val
    BY <1>k, ValueTold
  <2>2. ValueOf("type", x, e).string = s.type
    BY <2>1, FieldsAre, ValueKinds
  <2> QED BY <2>2 DEF e
<1>u. ValueOf("used_pct", x, Number(0)).number = s.used
  <2>1. PICK f \in Fields(s) : f.key = "used_pct" /\ ValueOf("used_pct", x, Number(0)) = f.val
    BY <1>k, ValueTold
  <2> QED BY <2>1, FieldsAre, ValueKinds
<1>r. ValueOf("resets_at", x, Number(0)).number = s.resets
  <2>1. PICK f \in Fields(s) : f.key = "resets_at" /\ ValueOf("resets_at", x, Number(0)) = f.val
    BY <1>k, ValueTold
  <2> QED BY <2>1, FieldsAre, ValueKinds
<1>2. ValueOf("rolling", x, Bool(FALSE)).boolean = s.rolling
  <2>1. CASE "rolling" \in Keys(x)
    <3> DEFINE e == Bool(FALSE)
    <3> HIDE DEF e
    <3>1. PICK f \in Fields(s) : f.key = "rolling" /\ ValueOf("rolling", x, e) = f.val
      BY <2>1, ValueTold
    <3>2. ValueOf("rolling", x, e).boolean = s.rolling
      BY <3>1, FieldsAre, ValueKinds
    <3> QED BY <3>2 DEF e
  <2>2. CASE "rolling" \notin Keys(x)
    <3>1. s.rolling = FALSE
      BY <2>2 DEF Tells, Reported
    <3>2. ValueOf("rolling", x, Bool(FALSE)) = Bool(FALSE)
      BY <2>2 DEF ValueOf
    <3> QED BY <3>1, <3>2, ValueKinds
  <2> QED BY <2>1, <2>2
<1>3. ValueOf("window_duration_mins", x, Number(0)).number = s.window
  <2>1. CASE "window_duration_mins" \in Keys(x)
    <3>1. PICK f \in Fields(s) :
            /\ f.key = "window_duration_mins"
            /\ ValueOf("window_duration_mins", x, Number(0)) = f.val
      BY <2>1, ValueTold
    <3> QED BY <3>1, FieldsAre, ValueKinds
  <2>2. CASE "window_duration_mins" \notin Keys(x)
    <3>1. s.window = 0
      BY <2>2 DEF Tells
    <3>2. ValueOf("window_duration_mins", x, Number(0)) = Number(0)
      BY <2>2 DEF ValueOf
    <3> QED BY <3>1, <3>2, ValueKinds
  <2> QED BY <2>1, <2>2
<1>4. Clamped(s.window) = s.window
  <2>1. s.window \in 0..MaxWindow
    BY DEF Reported
  <2> QED BY <2>1, WireAssumption DEF Clamped
<1>5. Session(Object(x)) = [type |-> s.type, used |-> s.used, resets |-> s.resets,
                            rolling |-> s.rolling, window |-> s.window]
  <2>1. Object(x).object = x
    BY ValueKinds
  <2> QED BY <1>1, <1>u, <1>r, <1>2, <1>3, <1>4, <2>1 DEF Session
<1>6. Session(Object(x)) = s
  BY <1>5, ReportedIs
<1>7. SessionParses(Object(x))
  <2>1. Is("object", Object(x)) /\ Object(x).object = x
    BY ValueKinds
  <2>2. \A i \in DOMAIN x : SessionFits(x[i])
    BY FieldFits DEF Tells
  <2>3. Session(Object(x)).type # ""
    BY <1>6, ReportedIs
  <2> QED BY <1>k, <2>1, <2>2, <2>3 DEF SessionParses
<1> QED BY <1>6, <1>7

-----------------------------------------------------------------------------
(* The forms a session takes on its way.                                   *)

Told(s) == EncodeSession(s).object

LEMMA Appended ==
  ASSUME NEW S, NEW q \in Seq(S), NEW e \in S
  PROVE  /\ Append(q, e) \in Seq(S) /\ Len(Append(q, e)) = Len(q) + 1
         /\ \A i \in DOMAIN q : Append(q, e)[i] = q[i]
         /\ Append(q, e)[Len(q) + 1] = e
         /\ DOMAIN Append(q, e) = DOMAIN q \cup {Len(q) + 1}
OBVIOUS

LEMMA OneLong ==
  ASSUME NEW S, NEW e \in S
  PROVE  <<e>> \in Seq(S) /\ Len(<<e>>) = 1 /\ <<e>>[1] = e
OBVIOUS

LEMMA ToldIs ==
  ASSUME NEW s
  PROVE  Told(s) = <<Member("type", Str(s.type)), Member("used_pct", Number(s.used)),
                     Member("resets_at", Number(s.resets)),
                     Member("rolling", Bool(s.rolling)),
                     Member("window_duration_mins", Number(s.window))>>
BY DEF Told, EncodeSession, Object

LEMMA FiveLong ==
  ASSUME NEW S, NEW a \in S, NEW b \in S, NEW c \in S, NEW d \in S, NEW e \in S
  PROVE  LET q == <<a, b, c, d, e>>
         IN  q \in Seq(S) /\ Len(q) = 5 /\ DOMAIN q = 1..5
OBVIOUS

LEMMA ToldFields ==
  ASSUME NEW s
  PROVE  Told(s) \in Seq(Fields(s)) /\ Len(Told(s)) = 5 /\ DOMAIN Told(s) = 1..5
<1>1. /\ Member("type", Str(s.type)) \in Fields(s)
      /\ Member("used_pct", Number(s.used)) \in Fields(s)
      /\ Member("resets_at", Number(s.resets)) \in Fields(s)
      /\ Member("rolling", Bool(s.rolling)) \in Fields(s)
      /\ Member("window_duration_mins", Number(s.window)) \in Fields(s)
  BY DEF Fields
<1> QED BY <1>1, ToldIs, FiveLong

LEMMA ToldKeys ==
  ASSUME NEW s
  PROVE  /\ Told(s)[1].key = "type" /\ Told(s)[2].key = "used_pct"
         /\ Told(s)[3].key = "resets_at" /\ Told(s)[4].key = "rolling"
         /\ Told(s)[5].key = "window_duration_mins"
         /\ Told(s)[4].val.boolean = s.rolling /\ Told(s)[5].val.number = s.window
<1>1. /\ Told(s)[1] = Member("type", Str(s.type))
      /\ Told(s)[2] = Member("used_pct", Number(s.used))
      /\ Told(s)[3] = Member("resets_at", Number(s.resets))
      /\ Told(s)[4] = Member("rolling", Bool(s.rolling))
      /\ Told(s)[5] = Member("window_duration_mins", Number(s.window))
  BY ToldIs
<1>2. Told(s)[1].key = "type" /\ Told(s)[2].key = "used_pct"
  BY <1>1 DEF Member
<1>3. Told(s)[3].key = "resets_at"
  BY <1>1 DEF Member
<1>4. Told(s)[4].key = "rolling" /\ Told(s)[4].val = Bool(s.rolling)
  BY <1>1 DEF Member
<1>5. Told(s)[5].key = "window_duration_mins" /\ Told(s)[5].val = Number(s.window)
  BY <1>1 DEF Member
<1>6. Bool(s.rolling).boolean = s.rolling /\ Number(s.window).number = s.window
  BY ValueKinds
<1> QED BY <1>2, <1>3, <1>4, <1>5, <1>6

LEMMA UnknownIs ==
  ASSUME NEW key
  PROVE  Unknown(key).key = key
BY DEF Unknown, Member

LEMMA AsWritten ==
  ASSUME NEW s
  PROVE  Tells(Told(s), s)
<1>1. DOMAIN Told(s) = 1..5
  BY ToldFields
<1>2. \A i \in 1..5 : i = 1 \/ i = 2 \/ i = 3 \/ i = 4 \/ i = 5
  OBVIOUS
<1>4. \A i, j \in DOMAIN Told(s) : Told(s)[i].key = Told(s)[j].key => i = j
  BY <1>1, <1>2, ToldKeys
<1>5. /\ "type" \in Keys(Told(s)) /\ "used_pct" \in Keys(Told(s))
      /\ "resets_at" \in Keys(Told(s)) /\ "rolling" \in Keys(Told(s))
      /\ "window_duration_mins" \in Keys(Told(s))
  BY <1>1, ToldKeys DEF Keys
<1> QED BY <1>4, <1>5, ToldFields DEF Tells

LEMMA Reversed ==
  ASSUME NEW s, NEW x, Tells(x, s)
  PROVE  Tells(Reverse(x), s)
<1>1. x \in Seq(Fields(s)) /\ Reverse(x) \in Seq(Fields(s)) /\ Len(Reverse(x)) = Len(x)
  BY DEF Tells, Reverse
<1>2. \A i \in DOMAIN x : /\ Len(x) - i + 1 \in DOMAIN x
                          /\ Reverse(x)[i] = x[Len(x) - i + 1]
                          /\ x[i] = Reverse(x)[Len(x) - i + 1]
  BY <1>1 DEF Reverse
<1>3. DOMAIN Reverse(x) = DOMAIN x
  BY <1>1
<1>4. Keys(x) \subseteq Keys(Reverse(x))
  BY <1>2, <1>3 DEF Keys
<1>5. \A i, j \in DOMAIN x : Reverse(x)[i].key = Reverse(x)[j].key => i = j
  <2>1. SUFFICES ASSUME NEW i \in DOMAIN x, NEW j \in DOMAIN x,
                        Reverse(x)[i].key = Reverse(x)[j].key
                 PROVE  i = j
    OBVIOUS
  <2>2. Len(x) - i + 1 = Len(x) - j + 1
    BY <1>2, <2>1 DEF Tells
  <2> QED BY <2>2, <1>1
<1> QED BY <1>1, <1>3, <1>4, <1>5 DEF Tells

LEMMA WithUnknown ==
  ASSUME NEW s, NEW key \in {"other", "lengthy"}
  PROVE  Tells(Extended(Told(s), key), s)
<1>u. PICK u : u = Unknown(key)
  OBVIOUS
<1>1. PICK x : x = Told(s)
  OBVIOUS
<1>2. PICK y : y = Append(x, u)
  OBVIOUS
<1>3. Tells(x, s) /\ x \in Seq(Fields(s)) /\ u \in Fields(s)
  BY <1>1, <1>u, AsWritten DEF Tells, Fields
<1>4. Len(x) = 5 /\ DOMAIN x = 1..5
  BY <1>1, ToldFields
<1>5. y \in Seq(Fields(s)) /\ y[6] = u /\ (\A i \in DOMAIN x : y[i] = x[i])
      /\ DOMAIN y = DOMAIN x \cup {6}
  BY <1>2, <1>3, <1>4, Appended
<1>6. \A i \in DOMAIN x : y[i].key # key
  <2>1. \A i \in 1..5 : i = 1 \/ i = 2 \/ i = 3 \/ i = 4 \/ i = 5
    OBVIOUS
  <2> QED BY <1>1, <1>4, <1>5, <2>1, ToldKeys
<1>7. Keys(x) \subseteq Keys(y)
  BY <1>5 DEF Keys
<1>8. \A i, j \in DOMAIN y : y[i].key = y[j].key => i = j
  BY <1>3, <1>5, <1>6, UnknownIs, <1>u DEF Tells
<1>9. Tells(y, s)
  BY <1>3, <1>5, <1>7, <1>8 DEF Tells
<1> QED BY <1>1, <1>2, <1>9, <1>u DEF Extended, Unknown

\* Some of the fields, each at one place.
LEMMA SomeFields ==
  ASSUME NEW s, NEW y \in Seq(Fields(s)), NEW g,
         \A i \in DOMAIN y : g[i] \in 1..5 /\ y[i] = Told(s)[g[i]],
         \A i, j \in DOMAIN y : g[i] = g[j] => i = j,
         \A k \in 1..3 : \E i \in DOMAIN y : g[i] = k,
         s.rolling => \E i \in DOMAIN y : g[i] = 4,
         s.window # 0 => \E i \in DOMAIN y : g[i] = 5
  PROVE  Tells(y, s)
<1>1. \A i, j \in 1..5 : Told(s)[i].key = Told(s)[j].key => i = j
  <2>1. Tells(Told(s), s) /\ DOMAIN Told(s) = 1..5
    BY AsWritten, ToldFields
  <2> QED BY <2>1 DEF Tells
<1>2. \A i, j \in DOMAIN y : y[i].key = y[j].key => i = j
  BY <1>1, SMTT(30)
<1>3. \A k \in 1..5 : (\E i \in DOMAIN y : g[i] = k) => Told(s)[k].key \in Keys(y)
  BY DEF Keys
<1>4. /\ Told(s)[1].key \in Keys(y) /\ Told(s)[2].key \in Keys(y)
      /\ Told(s)[3].key \in Keys(y)
  BY <1>3
<1>5. s.rolling => Told(s)[4].key \in Keys(y)
  BY <1>3
<1>6. s.window # 0 => Told(s)[5].key \in Keys(y)
  BY <1>3
<1> QED BY <1>2, <1>4, <1>5, <1>6, ToldKeys DEF Tells

LEMMA Begun ==
  ASSUME NEW S, NEW x \in Seq(S), NEW n \in Nat, n <= Len(x)
  PROVE  /\ SubSeq(x, 1, n) \in Seq(S) /\ Len(SubSeq(x, 1, n)) = n
         /\ \A i \in 1..n : SubSeq(x, 1, n)[i] = x[i]
OBVIOUS

LEMMA FirstThree ==
  ASSUME NEW S, NEW x \in Seq(S), Len(x) = 5
  PROVE  SubSeq(x, 1, 3) = <<x[1], x[2], x[3]>>
<1>1. PICK y : y = SubSeq(x, 1, 3)
  OBVIOUS
<1>2. 3 \in Nat /\ 3 <= Len(x)
  OBVIOUS
<1>3. y \in Seq(S) /\ Len(y) = 3 /\ \A i \in 1..3 : y[i] = x[i]
  BY <1>1, <1>2, Begun, Zenon
<1>4. y[1] = x[1] /\ y[2] = x[2] /\ y[3] = x[3]
  BY <1>3
<1>5. y = <<y[1], y[2], y[3]>>
  BY <1>3
<1> QED BY <1>1, <1>4, <1>5

LEMMA Fourth ==
  ASSUME NEW a, NEW b, NEW c, NEW d
  PROVE  <<a, b, c>> \o <<d>> = <<a, b, c, d>>
<1> DEFINE S == {a, b, c, d}
<1>1. PICK q : q = <<a, b, c>>
  OBVIOUS
<1>2. PICK x : x = Append(q, d)
  OBVIOUS
<1>3. q \in Seq(S) /\ Len(q) = 3 /\ q[1] = a /\ q[2] = b /\ q[3] = c
  BY <1>1
<1>4. d \in S
  OBVIOUS
<1> HIDE DEF S
<1>5. q \in Seq(S)
  BY <1>3
<1>6. x \in Seq(S) /\ Len(x) = Len(q) + 1 /\ x[Len(q) + 1] = d
      /\ \A i \in DOMAIN q : x[i] = q[i]
  BY <1>2, <1>4, <1>5
<1>7. DOMAIN q = 1..3
  BY <1>3
<1>8. x[1] = a /\ x[2] = b /\ x[3] = c
  BY <1>3, <1>6, <1>7
<1>9. Len(x) = 4 /\ x[4] = d
  BY <1>3, <1>6
<1>10. x \in Seq(S) /\ Len(x) = 4
  BY <1>6, <1>9
<1>11. x = <<x[1], x[2], x[3], x[4]>>
  BY <1>10
<1>12. q \o <<d>> = x
  BY <1>2, <1>4, <1>5
<1> QED BY <1>1, <1>8, <1>9, <1>11, <1>12

LEMMA Fifth ==
  ASSUME NEW a, NEW b, NEW c, NEW d, NEW e
  PROVE  <<a, b, c, d>> \o <<e>> = <<a, b, c, d, e>>
<1> DEFINE S == {a, b, c, d, e}
<1>1. PICK q : q = <<a, b, c, d>>
  OBVIOUS
<1>2. PICK x : x = Append(q, e)
  OBVIOUS
<1>3. q \in Seq(S) /\ Len(q) = 4 /\ q[1] = a /\ q[2] = b /\ q[3] = c /\ q[4] = d
  BY <1>1
<1>4. e \in S
  OBVIOUS
<1> HIDE DEF S
<1>5. q \in Seq(S)
  BY <1>3
<1>6. x \in Seq(S) /\ Len(x) = Len(q) + 1 /\ x[Len(q) + 1] = e
      /\ \A i \in DOMAIN q : x[i] = q[i]
  BY <1>2, <1>4, <1>5
<1>7. DOMAIN q = 1..4
  BY <1>3
<1>8. x[1] = a /\ x[2] = b /\ x[3] = c /\ x[4] = d
  BY <1>3, <1>6, <1>7
<1>9. Len(x) = 5 /\ x[5] = e
  BY <1>3, <1>6
<1>10. x \in Seq(S) /\ Len(x) = 5
  BY <1>6, <1>9
<1>11. x = <<x[1], x[2], x[3], x[4], x[5]>>
  BY <1>10
<1>12. q \o <<e>> = x
  BY <1>2, <1>4, <1>5
<1> QED BY <1>1, <1>8, <1>9, <1>11, <1>12

LEMMA NoMore ==
  ASSUME NEW S, NEW q \in Seq(S)
  PROVE  q \o <<>> = q
OBVIOUS

LEMMA Tuples ==
  ASSUME NEW S, NEW a \in S, NEW b \in S, NEW c \in S, NEW d \in S
  PROVE  /\ LET q == <<a, b, c>>
            IN  q \in Seq(S) /\ DOMAIN q = 1..3 /\ q[1] = a /\ q[2] = b /\ q[3] = c
         /\ LET q == <<a, b, c, d>>
            IN  /\ q \in Seq(S) /\ DOMAIN q = 1..4
                /\ q[1] = a /\ q[2] = b /\ q[3] = c /\ q[4] = d
OBVIOUS

LEMMA WithoutDefaults ==
  ASSUME NEW s \in Reported
  PROVE  Tells(Older(Told(s)), s)
<1>1. PICK x : x = Told(s)
  OBVIOUS
<1>2. x \in Seq(Fields(s)) /\ Len(x) = 5
  BY <1>1, ToldFields
<1>3. /\ x[1] \in Fields(s) /\ x[2] \in Fields(s) /\ x[3] \in Fields(s)
      /\ x[4] \in Fields(s) /\ x[5] \in Fields(s)
  <2>1. x \in Seq(Fields(s))
    BY <1>2
  <2>2. \A i \in 1..Len(x) : x[i] \in Fields(s)
    BY <2>1
  <2>3. /\ 1 \in 1..Len(x) /\ 2 \in 1..Len(x) /\ 3 \in 1..Len(x)
        /\ 4 \in 1..Len(x) /\ 5 \in 1..Len(x)
    BY <1>2
  <2> QED BY <2>2, <2>3, Zenon
<1>4. SubSeq(x, 1, 3) = <<x[1], x[2], x[3]>>
  BY <1>2, FirstThree
<1>5. x[4].val.boolean = s.rolling /\ x[5].val.number = s.window
  BY <1>1, ToldKeys
<1>6. Older(x) = <<x[1], x[2], x[3]>>
                 \o (IF s.rolling THEN <<x[4]>> ELSE <<>>)
                 \o (IF s.window # 0 THEN <<x[5]>> ELSE <<>>)
  BY <1>4, <1>5 DEF Older
<1>7. PICK y : y = Older(x)
  OBVIOUS
<1>r. /\ s.rolling => (IF s.rolling THEN <<x[4]>> ELSE <<>>) = <<x[4]>>
      /\ ~s.rolling => (IF s.rolling THEN <<x[4]>> ELSE <<>>) = <<>>
  BY Zenon
<1>w. /\ s.window # 0 => (IF s.window # 0 THEN <<x[5]>> ELSE <<>>) = <<x[5]>>
      /\ s.window = 0 => (IF s.window # 0 THEN <<x[5]>> ELSE <<>>) = <<>>
  BY Zenon
<1>8. CASE s.rolling /\ s.window # 0
  <2>1. y = <<x[1], x[2], x[3], x[4], x[5]>>
    <3>1. y = <<x[1], x[2], x[3]>> \o <<x[4]>> \o <<x[5]>>
      BY <1>6, <1>7, <1>8, <1>r, <1>w, Zenon
    <3>2. <<x[1], x[2], x[3]>> \o <<x[4]>> = <<x[1], x[2], x[3], x[4]>>
      BY Fourth, Zenon
    <3>3. <<x[1], x[2], x[3], x[4]>> \o <<x[5]>> = <<x[1], x[2], x[3], x[4], x[5]>>
      BY Fifth, Zenon
    <3> QED BY <3>1, <3>2, <3>3, Zenon
  <2>2. x = <<x[1], x[2], x[3], x[4], x[5]>>
    BY <1>2
  <2> QED BY <2>1, <2>2, <1>1, <1>7, AsWritten
<1>9. CASE s.rolling /\ s.window = 0
  <2>1. y = <<x[1], x[2], x[3], x[4]>>
    <3>1. <<x[1], x[2], x[3], x[4]>> \in Seq(Fields(s))
      BY <1>3, Tuples
    <3>2. <<x[1], x[2], x[3], x[4]>> \o <<>> = <<x[1], x[2], x[3], x[4]>>
      BY <3>1, NoMore
    <3>3. y = <<x[1], x[2], x[3]>> \o <<x[4]>> \o <<>>
      BY <1>6, <1>7, <1>9, <1>r, <1>w, Zenon
    <3>4. <<x[1], x[2], x[3]>> \o <<x[4]>> = <<x[1], x[2], x[3], x[4]>>
      BY Fourth, Zenon
    <3> QED BY <3>2, <3>3, <3>4, Zenon
  <2>2. /\ y \in Seq(Fields(s)) /\ DOMAIN y = 1..4
        /\ y[1] = x[1] /\ y[2] = x[2] /\ y[3] = x[3] /\ y[4] = x[4]
    BY <2>1, <1>3, Tuples
  <2> DEFINE g == [k \in 1..4 |-> k]
  <2>3. /\ \A i \in DOMAIN y : g[i] \in 1..5 /\ y[i] = x[g[i]]
        /\ \A i, j \in DOMAIN y : g[i] = g[j] => i = j
        /\ \A k \in 1..4 : \E i \in DOMAIN y : g[i] = k
    BY <2>2
  <2> HIDE DEF g
  <2> QED BY <1>1, <1>7, <1>9, <2>2, <2>3, SomeFields, SMTT(30)
<1>10. CASE ~s.rolling /\ s.window # 0
  <2>1. y = <<x[1], x[2], x[3], x[5]>>
    <3>1. <<x[1], x[2], x[3]>> \in Seq(Fields(s))
      BY <1>3, Tuples
    <3>2. <<x[1], x[2], x[3]>> \o <<>> = <<x[1], x[2], x[3]>>
      BY <3>1, NoMore
    <3> QED BY <1>6, <1>7, <1>10, <1>r, <1>w, <3>2, Fourth, Zenon
  <2>2. /\ y \in Seq(Fields(s)) /\ DOMAIN y = 1..4
        /\ y[1] = x[1] /\ y[2] = x[2] /\ y[3] = x[3] /\ y[4] = x[5]
    BY <2>1, <1>3, Tuples
  <2> DEFINE g == [k \in 1..4 |-> IF k = 4 THEN 5 ELSE k]
  <2>3. /\ \A i \in DOMAIN y : g[i] \in 1..5 /\ y[i] = x[g[i]]
        /\ \A i, j \in DOMAIN y : g[i] = g[j] => i = j
        /\ \A k \in 1..3 : \E i \in DOMAIN y : g[i] = k
        /\ \E i \in DOMAIN y : g[i] = 5
    BY <2>2
  <2> HIDE DEF g
  <2> QED BY <1>1, <1>7, <1>10, <2>2, <2>3, SomeFields
<1>11. CASE ~s.rolling /\ s.window = 0
  <2>1. y = <<x[1], x[2], x[3]>>
    <3>1. <<x[1], x[2], x[3]>> \in Seq(Fields(s))
      BY <1>3, Tuples
    <3>2. <<x[1], x[2], x[3]>> \o <<>> = <<x[1], x[2], x[3]>>
      BY <3>1, NoMore
    <3> QED BY <1>6, <1>7, <1>11, <1>r, <1>w, <3>2, Zenon
  <2>2. /\ y \in Seq(Fields(s)) /\ DOMAIN y = 1..3
        /\ y[1] = x[1] /\ y[2] = x[2] /\ y[3] = x[3]
    BY <2>1, <1>3, Tuples
  <2> DEFINE g == [k \in 1..3 |-> k]
  <2>3. /\ \A i \in DOMAIN y : g[i] \in 1..5 /\ y[i] = x[g[i]]
        /\ \A i, j \in DOMAIN y : g[i] = g[j] => i = j
        /\ \A k \in 1..3 : \E i \in DOMAIN y : g[i] = k
    BY <2>2
  <2> HIDE DEF g
  <2> QED BY <1>1, <1>7, <1>11, <2>2, <2>3, SomeFields
<1> QED BY <1>1, <1>7, <1>8, <1>9, <1>10, <1>11

LEMMA Rest ==
  ASSUME NEW S, NEW q \in Seq(S), Len(q) > 0
  PROVE  /\ DOMAIN Tail(q) = 1..(Len(q) - 1)
         /\ \A i \in 1..(Len(q) - 1) : Tail(q)[i] = q[i + 1]
OBVIOUS

\* Without its name, or with a percentage that is none, it is refused.
LEMMA Unnamed ==
  ASSUME NEW s, NEW x, x = Tail(Told(s))
  PROVE  ~SessionParses(Object(x))
<1>1. PICK y : y = Told(s)
  OBVIOUS
<1>2. y \in Seq(Fields(s)) /\ Len(y) = 5
  BY <1>1, ToldFields
<1>3. DOMAIN x = 1..4 /\ x[1] = y[2] /\ x[2] = y[3] /\ x[3] = y[4] /\ x[4] = y[5]
  <2>1. Len(y) > 0 /\ x = Tail(y) /\ y \in Seq(Fields(s))
    BY <1>1, <1>2
  <2>2. DOMAIN x = 1..(Len(y) - 1) /\ \A i \in 1..(Len(y) - 1) : x[i] = y[i + 1]
    BY <2>1, Rest, Zenon
  <2>3. Len(y) - 1 = 4
    BY <1>2
  <2>4. DOMAIN x = 1..4 /\ \A i \in 1..4 : x[i] = y[i + 1]
    BY <2>2, <2>3, Zenon
  <2> QED BY <2>4
<1>4. /\ y[2].key # "type" /\ y[3].key # "type"
      /\ y[4].key # "type" /\ y[5].key # "type"
  BY <1>1, ToldKeys
<1>5. \A i \in 1..4 : i = 1 \/ i = 2 \/ i = 3 \/ i = 4
  OBVIOUS
<1>6. "type" \notin Keys(x)
  BY <1>3, <1>4, <1>5 DEF Keys
<1> QED BY <1>6, ValueKinds DEF SessionParses

LEMMA TooMuch == ~SessionFits(Member("used_pct", Number(101)))
<1>1. Number(101).number = 101
  BY ValueKinds
<1> QED BY <1>1 DEF SessionFits, Member

LEMMA Overlong == ~SessionFits(Unknown("endless"))
BY UnknownIs DEF SessionFits

\* One member that does not fit is enough.
LEMMA MemberRefused ==
  ASSUME NEW s, NEW e, ~SessionFits(e), NEW x, x = Append(Told(s), e)
  PROVE  ~SessionParses(Object(x))
<1>2. PICK y : y = Told(s)
  OBVIOUS
<1>3. PICK S : S = Fields(s) \cup {e}
  OBVIOUS
<1>4. e \in S
  BY <1>3
<1>5. y \in Seq(S)
  <2>1. y \in Seq(Fields(s))
    BY <1>2, ToldFields
  <2>2. Fields(s) \subseteq S
    BY <1>3
  <2> QED BY <2>1, <2>2
<1>6. x = Append(y, e)
  BY <1>2
<1>7. \E i \in DOMAIN x : x[i] = e
  <2>1. Append(y, e)[Len(y) + 1] = e /\ DOMAIN Append(y, e) = DOMAIN y \cup {Len(y) + 1}
    BY <1>4, <1>5, Appended
  <2> QED BY <1>6, <2>1
<1>9. Object(x).object = x
  BY ValueKinds
<1> QED BY <1>7, <1>9 DEF SessionParses

-----------------------------------------------------------------------------
(* A whole snapshot.                                                       *)

Sends(m, items) ==
  <<Member("agent", Str(m.agent)), Member("captured_at", Number(m.captured)),
    Member("sessions", Array(items))>>

LEMMA Encoded ==
  ASSUME NEW m
  PROVE  Encode(m) = [members |-> Sends(m, EncodeAll(m.sessions)), closed |-> TRUE]
BY DEF Encode, Sends

LEMMA ItemsAre ==
  ASSUME NEW m \in Sendable
  PROVE  /\ DOMAIN EncodeAll(m.sessions) = DOMAIN m.sessions
         /\ \A i \in DOMAIN m.sessions :
              EncodeAll(m.sessions)[i].object = Told(m.sessions[i])
BY DEF EncodeAll, Told

LEMMA SendsIs ==
  ASSUME NEW m, NEW q
  PROVE  /\ DOMAIN Sends(m, q) = 1..3
         /\ Sends(m, q)[1] = Member("agent", Str(m.agent))
         /\ Sends(m, q)[2] = Member("captured_at", Number(m.captured))
         /\ Sends(m, q)[3] = Member("sessions", Array(q))
         /\ ~Is("array", Sends(m, q)[1].val) /\ ~Is("array", Sends(m, q)[2].val)
         /\ Is("array", Sends(m, q)[3].val) /\ Sends(m, q)[3].val.array = q
<1>1. /\ Sends(m, q)[1] = Member("agent", Str(m.agent))
      /\ Sends(m, q)[2] = Member("captured_at", Number(m.captured))
      /\ Sends(m, q)[3] = Member("sessions", Array(q))
      /\ DOMAIN Sends(m, q) = 1..3
  BY DEF Sends
<1>2. /\ Sends(m, q)[1].val = Str(m.agent)
      /\ Sends(m, q)[2].val = Number(m.captured)
      /\ Sends(m, q)[3].val = Array(q)
  BY <1>1 DEF Member
<1> QED BY <1>1, <1>2, ValueKinds

LEMMA Sent ==
  ASSUME NEW m \in Sendable, NEW twist
  PROVE  OnSessions(Encode(m).members, twist)
           = Sends(m, [j \in DOMAIN m.sessions |->
                         Object(Reformed(Told(m.sessions[j]), twist))])
<1>1. PICK q : q = EncodeAll(m.sessions)
  OBVIOUS
<1>2. PICK a : a = [j \in DOMAIN m.sessions |-> Object(Reformed(Told(m.sessions[j]), twist))]
  OBVIOUS
<1>3. a = [j \in DOMAIN q |-> Object(Reformed(q[j].object, twist))]
  BY <1>1, <1>2, ItemsAre
<1>4. PICK ms : ms = Sends(m, q)
  OBVIOUS
<1>5. PICK r : r = OnSessions(ms, twist)
  OBVIOUS
<1>6. r = [i \in 1..3 |->
             IF Is("array", ms[i].val)
             THEN Member(ms[i].key,
                         Array([j \in DOMAIN ms[i].val.array |->
                                  Object(Reformed(ms[i].val.array[j].object, twist))]))
             ELSE ms[i]]
  BY <1>4, <1>5, SendsIs DEF OnSessions
<1>7. r[1] = ms[1] /\ r[2] = ms[2]
  BY <1>4, <1>6, SendsIs
<1>8. r[3] = Member("sessions", Array(a))
  <2>1. r[3] = Member(ms[3].key, Array([j \in DOMAIN ms[3].val.array |->
                                     Object(Reformed(ms[3].val.array[j].object, twist))]))
    BY <1>4, <1>6, SendsIs
  <2>2. ms[3].val.array = q
    BY <1>4, SendsIs
  <2> DEFINE e == Array(q)
  <2>e. ms[3] = Member("sessions", e)
    BY <1>4, SendsIs
  <2> HIDE DEF e
  <2>3. ms[3].key = "sessions"
    BY <2>e DEF Member
  <2> QED BY <2>1, <2>2, <2>3, <1>3
<1>9. DOMAIN r = 1..3 /\ r = [i \in DOMAIN r |-> r[i]]
  BY <1>6
<1>10. r = <<r[1], r[2], r[3]>>
  BY <1>9
<1>11. ms[1] = Member("agent", Str(m.agent)) /\ ms[2] = Member("captured_at", Number(m.captured))
  BY <1>4, SendsIs
<1>12. r = Sends(m, a)
  BY <1>7, <1>8, <1>10, <1>11 DEF Sends
<1> QED BY <1>1, <1>2, <1>4, <1>5, <1>12, Encoded

\* The sessions it can hold are the ones meant, the others skipped by counting.
Carries(a, m) ==
  /\ a = [i \in DOMAIN m.sessions |-> a[i]]
  /\ \A i \in DOMAIN m.sessions : \E x : a[i] = Object(x) /\ Tells(x, m.sessions[i])

LEMMA NotEmpty ==
  ASSUME NEW S, NEW q \in Seq(S), q # <<>>
  PROVE  Len(q) > 0
OBVIOUS

LEMMA Smaller ==
  ASSUME NEW k \in Nat, NEW n, n = IF k < 3 THEN k ELSE 3
  PROVE  n \in Nat /\ n \in 0..3 /\ n <= k /\ (k > 0 => n > 0)
OBVIOUS

LEMMA Prefix ==
  ASSUME NEW S, NEW q \in Seq(S)
  PROVE  LET n == IF Len(q) < 3 THEN Len(q) ELSE 3
         IN  /\ DOMAIN Taken(q) = 1..n
             /\ \A i \in 1..n : Taken(q)[i] = q[i]
<1>1. PICK n : n = IF Len(q) < 3 THEN Len(q) ELSE 3
  OBVIOUS
<1>2. n \in Nat /\ n \in 0..3 /\ n <= Len(q)
  <2>1. Len(q) \in Nat
    OBVIOUS
  <2> QED BY <1>1, <2>1, Smaller, Zenon
<1>3. Taken(q) = SubSeq(q, 1, n)
  BY <1>1 DEF Taken, MaxSessions
<1>4. SubSeq(q, 1, n) \in Seq(S) /\ Len(SubSeq(q, 1, n)) = n
      /\ \A i \in 1..n : SubSeq(q, 1, n)[i] = q[i]
  BY <1>2, Begun
<1>5. DOMAIN SubSeq(q, 1, n) = 1..n
  BY <1>4
<1> QED BY <1>1, <1>2, <1>3, <1>4, <1>5

LEMMA SessionsRead ==
  ASSUME NEW m \in Sendable, NEW a, Carries(a, m)
  PROVE  /\ TopFits(Member("sessions", Array(a)))
         /\ [i \in DOMAIN Taken(a) |-> Session(Taken(a)[i])] = Meant(m).sessions
         /\ Meant(m).sessions # <<>>
<1>1. PICK q : q = m.sessions
  OBVIOUS
<1>2. q \in Seq(Reported) /\ q # <<>>
  BY <1>1 DEF Sendable
<1>3. PICK S : S = {a[i] : i \in DOMAIN q}
  OBVIOUS
<1>4. a \in Seq(S) /\ Len(a) = Len(q)
  <2>1. a = [i \in 1..Len(q) |-> a[i]] /\ \A i \in 1..Len(q) : a[i] \in S
    BY <1>1, <1>2, <1>3 DEF Carries
  <2>2. Len(q) \in Nat
    BY <1>2
  <2> QED BY <2>1, <2>2
<1>5. PICK n : n = IF Len(q) < 3 THEN Len(q) ELSE 3
  OBVIOUS
<1>6. n \in 0..3 /\ n <= Len(q) /\ n > 0
  <2>1. Len(q) \in Nat /\ Len(q) > 0
    BY <1>2, NotEmpty
  <2> QED BY <1>5, <2>1, Smaller, Zenon
<1>7. DOMAIN Taken(a) = 1..n /\ \A i \in 1..n : Taken(a)[i] = a[i]
  BY <1>4, <1>5, Prefix
<1>8. \A i \in 1..Len(q) : SessionParses(a[i]) /\ Session(a[i]) = q[i]
  <2>1. SUFFICES ASSUME NEW i \in 1..Len(q)
                 PROVE  SessionParses(a[i]) /\ Session(a[i]) = q[i]
    OBVIOUS
  <2>2. q[i] \in Reported /\ i \in DOMAIN q
    BY <1>2
  <2>3. PICK x : a[i] = Object(x) /\ Tells(x, q[i])
    BY <1>1, <2>2 DEF Carries
  <2> QED BY <2>2, <2>3, ToldIsRead
<1>9. Skips(a)
  <2>1. SUFFICES ASSUME NEW i \in 4..Len(a), NEW j \in DOMAIN a[i].object,
                        Is("string", a[i].object[j].val)
                 PROVE  a[i].object[j].val.string # "brace"
    BY DEF Skips, MaxSessions
  <2>2. i \in 1..Len(q)
    BY <1>4, <2>1
  <2>3. q[i] \in Reported /\ i \in DOMAIN q
    BY <1>2, <2>2
  <2>4. PICK x : a[i] = Object(x) /\ Tells(x, q[i])
    BY <1>1, <2>3 DEF Carries
  <2>5. a[i].object = x
    BY <2>4, ValueKinds
  <2>6. x[j] \in Fields(q[i])
    BY <2>1, <2>4, <2>5 DEF Tells
  <2> QED BY <2>1, <2>3, <2>5, <2>6, FieldFits
<1>10. TopFits(Member("sessions", Array(a)))
  <2> DEFINE e == Array(a)
  <2>1. Is("array", e) /\ e.array = a
    BY ValueKinds
  <2> HIDE DEF e
  <2>2. \A i \in DOMAIN Taken(e.array) : SessionParses(e.array[i])
    BY <1>6, <1>7, <1>8, <2>1
  <2>3. Member("sessions", e).key = "sessions" /\ Member("sessions", e).val = e
    BY DEF Member
  <2>4. TopFits(Member("sessions", e))
    BY <1>9, <2>1, <2>2, <2>3 DEF TopFits
  <2> QED BY <2>4 DEF e
<1>11. Meant(m).sessions = [i \in 1..n |-> q[i]]
  BY <1>1, <1>5 DEF Meant
<1>12. [i \in DOMAIN Taken(a) |-> Session(Taken(a)[i])] = [i \in 1..n |-> q[i]]
  BY <1>6, <1>7, <1>8
<1>13. [i \in 1..n |-> q[i]] # <<>>
  BY <1>6
<1> QED BY <1>10, <1>11, <1>12, <1>13

\* A snapshot that says of m what is required, in any order, with a member unknown
\* beside it whose key has less than 16 characters.
Parts(m, a) ==
  {Member("agent", Str(m.agent)), Member("captured_at", Number(m.captured)),
   Member("sessions", Array(a)), Unknown("other")}
Says(ms, m, a) ==
  /\ ms \in Seq(Parts(m, a))
  /\ \A i, j \in DOMAIN ms : ms[i].key = ms[j].key => i = j
  /\ {"agent", "captured_at", "sessions"} \subseteq Keys(ms)

LEMMA PartsAre ==
  ASSUME NEW m, NEW a, NEW f \in Parts(m, a)
  PROVE  /\ f.key = "agent" => f.val = Str(m.agent)
         /\ f.key = "captured_at" => f.val = Number(m.captured)
         /\ f.key = "sessions" => f.val = Array(a)
         /\ f.key \in {"agent", "captured_at", "sessions", "other"}
BY DEF Parts, Member, Unknown

LEMMA ValueSaid ==
  ASSUME NEW m, NEW a, NEW ms, Says(ms, m, a), NEW key \in Keys(ms), NEW default
  PROVE  \E f \in Parts(m, a) : f.key = key /\ ValueOf(key, ms, default) = f.val
<1>1. PICK i \in DOMAIN ms : ms[i].key = key
  BY DEF Keys
<1>2. i \in Int /\ ms[i] \in Parts(m, a)
  BY DEF Says
<1>3. ValueOf(ms[i].key, ms, default) = ms[i].val
  BY <1>2, ValueAt DEF Says
<1> QED BY <1>1, <1>2, <1>3

LEMMA PartFits ==
  ASSUME NEW m \in Sendable, NEW a, Carries(a, m), NEW f \in Parts(m, a)
  PROVE  TopFits(f)
<1>1. m.agent \in Known
  BY DEF Sendable
<1>2. CASE f = Member("agent", Str(m.agent))
  BY <1>1, <1>2, ValueKinds DEF Member, TopFits
<1>3. CASE f = Member("captured_at", Number(m.captured))
  BY <1>3, ValueKinds DEF Member, TopFits
<1>4. CASE f = Member("sessions", Array(a))
  BY <1>4, SessionsRead
<1>5. CASE f = Unknown("other")
  BY <1>5 DEF Member, Unknown, TopFits
<1> QED BY <1>2, <1>3, <1>4, <1>5 DEF Parts

LEMMA SaidIsRead ==
  ASSUME NEW m \in Sendable, NEW a, Carries(a, m), NEW ms, Says(ms, m, a),
         NEW body, body = [members |-> ms, closed |-> TRUE]
  PROVE  Parses(body) /\ Parse(body) = Meant(m)
<1>k. "agent" \in Keys(ms) /\ "captured_at" \in Keys(ms) /\ "sessions" \in Keys(ms)
  BY DEF Says
<1>m. body.members = ms /\ body.closed
  OBVIOUS
<1>1. ValueOf("agent", ms, Str("")).string = m.agent
  <2> DEFINE e == Str("")
  <2> HIDE DEF e
  <2>1. PICK f \in Parts(m, a) : f.key = "agent" /\ ValueOf("agent", ms, e) = f.val
    BY <1>k, ValueSaid
  <2>2. ValueOf("agent", ms, e).string = m.agent
    BY <2>1, PartsAre, ValueKinds
  <2> QED BY <2>2 DEF e
<1>2. ValueOf("captured_at", ms, Number(0)).number = m.captured
  <2>1. PICK f \in Parts(m, a) :
          f.key = "captured_at" /\ ValueOf("captured_at", ms, Number(0)) = f.val
    BY <1>k, ValueSaid
  <2> QED BY <2>1, PartsAre, ValueKinds
<1>3. ValueOf("sessions", ms, Array(<<>>)).array = a
  <2> DEFINE e == Array(<<>>)
  <2> HIDE DEF e
  <2>1. PICK f \in Parts(m, a) : f.key = "sessions" /\ ValueOf("sessions", ms, e) = f.val
    BY <1>k, ValueSaid
  <2>2. ValueOf("sessions", ms, e).array = a
    BY <2>1, PartsAre, ValueKinds
  <2> QED BY <2>2 DEF e
<1>4. Parse(body) = [agent |-> m.agent, captured |-> m.captured,
                     sessions |-> Meant(m).sessions]
  <2>1. [i \in DOMAIN Taken(a) |-> Session(Taken(a)[i])] = Meant(m).sessions
    BY SessionsRead
  <2> QED BY <2>1, <1>m, <1>1, <1>2, <1>3 DEF Parse
<1>5. Parse(body) = Meant(m)
  BY <1>4 DEF Meant
<1>6. Parses(body)
  <2>1. \A i \in DOMAIN ms : TopFits(ms[i])
    <3>1. \A i \in DOMAIN ms : ms[i] \in Parts(m, a)
      BY DEF Says
    <3> QED BY <3>1, PartFits
  <2>2. Parse(body).sessions # <<>>
    BY <1>5, SessionsRead
  <2> QED BY <1>k, <1>m, <2>1, <2>2 DEF Parses
<1> QED BY <1>5, <1>6

LEMMA SendsKeys ==
  ASSUME NEW m, NEW a
  PROVE  /\ Sends(m, a)[1].key = "agent" /\ Sends(m, a)[2].key = "captured_at"
         /\ Sends(m, a)[3].key = "sessions"
<1> DEFINE e == Str(m.agent)
           f == Number(m.captured)
           g == Array(a)
<1>1. Sends(m, a)[1] = Member("agent", e) /\ Sends(m, a)[2] = Member("captured_at", f)
  BY SendsIs
<1>2. Sends(m, a)[3] = Member("sessions", g)
  BY SendsIs
<1> HIDE DEF e, f, g
<1> QED BY <1>1, <1>2 DEF Member

\* The forms it takes: as written, the other way round, with something unknown.
LEMMA SendsSays ==
  ASSUME NEW m, NEW a
  PROVE  Says(Sends(m, a), m, a)
<1>1. PICK ms : ms = Sends(m, a)
  OBVIOUS
<1>2. ms \in Seq(Parts(m, a))
  <2>1. /\ Member("agent", Str(m.agent)) \in Parts(m, a)
        /\ Member("captured_at", Number(m.captured)) \in Parts(m, a)
        /\ Member("sessions", Array(a)) \in Parts(m, a)
    BY DEF Parts
  <2> QED BY <1>1, <2>1 DEF Sends
<1>3. DOMAIN ms = 1..3
  BY <1>1, SendsIs
<1>4. ms[1].key = "agent" /\ ms[2].key = "captured_at" /\ ms[3].key = "sessions"
  BY <1>1, SendsKeys
<1>5. \A i \in 1..3 : i = 1 \/ i = 2 \/ i = 3
  OBVIOUS
<1>6. \A i, j \in DOMAIN ms : ms[i].key = ms[j].key => i = j
  BY <1>3, <1>4, <1>5
<1>7. "agent" \in Keys(ms) /\ "captured_at" \in Keys(ms) /\ "sessions" \in Keys(ms)
  BY <1>3, <1>4 DEF Keys
<1> QED BY <1>1, <1>2, <1>6, <1>7 DEF Says

LEMMA ReverseSays ==
  ASSUME NEW m, NEW a, NEW ms, Says(ms, m, a)
  PROVE  Says(Reverse(ms), m, a)
<1>1. /\ ms \in Seq(Parts(m, a)) /\ Reverse(ms) \in Seq(Parts(m, a))
      /\ Len(Reverse(ms)) = Len(ms)
  BY DEF Says, Reverse
<1>2. \A i \in DOMAIN ms : /\ Len(ms) - i + 1 \in DOMAIN ms
                           /\ Reverse(ms)[i] = ms[Len(ms) - i + 1]
                           /\ ms[i] = Reverse(ms)[Len(ms) - i + 1]
  BY <1>1 DEF Reverse
<1>3. DOMAIN Reverse(ms) = DOMAIN ms
  BY <1>1
<1>4. Keys(ms) \subseteq Keys(Reverse(ms))
  BY <1>2, <1>3 DEF Keys
<1>5. \A i, j \in DOMAIN ms : Reverse(ms)[i].key = Reverse(ms)[j].key => i = j
  <2>1. SUFFICES ASSUME NEW i \in DOMAIN ms, NEW j \in DOMAIN ms,
                        Reverse(ms)[i].key = Reverse(ms)[j].key
                 PROVE  i = j
    OBVIOUS
  <2>2. Len(ms) - i + 1 = Len(ms) - j + 1
    BY <1>2, <2>1 DEF Says
  <2> QED BY <2>2, <1>1
<1> QED BY <1>1, <1>3, <1>4, <1>5 DEF Says

LEMMA ExtendedSays ==
  ASSUME NEW m, NEW a
  PROVE  Says(Extended(Sends(m, a), "other"), m, a)
<1>u. PICK u : u = Unknown("other")
  OBVIOUS
<1>1. PICK x : x = Sends(m, a)
  OBVIOUS
<1>2. PICK y : y = Append(x, u)
  OBVIOUS
<1>3. Says(x, m, a) /\ x \in Seq(Parts(m, a)) /\ u \in Parts(m, a)
  BY <1>1, <1>u, SendsSays DEF Says, Parts
<1>4. DOMAIN x = 1..3
  BY <1>1, SendsIs
<1>5. PICK n : n = Len(x) + 1
  OBVIOUS
<1>6. y \in Seq(Parts(m, a)) /\ y[n] = u /\ (\A i \in DOMAIN x : y[i] = x[i])
      /\ DOMAIN y = DOMAIN x \cup {n}
  BY <1>2, <1>3, <1>5, Appended
<1>7. \A i \in DOMAIN x : y[i].key # "other"
  <2>1. x[1].key = "agent" /\ x[2].key = "captured_at" /\ x[3].key = "sessions"
    BY <1>1, SendsKeys
  <2>2. \A i \in 1..3 : i = 1 \/ i = 2 \/ i = 3
    OBVIOUS
  <2> QED BY <1>4, <1>6, <2>1, <2>2
<1>8. Keys(x) \subseteq Keys(y)
  BY <1>6 DEF Keys
<1>9. \A i, j \in DOMAIN y : y[i].key = y[j].key => i = j
  BY <1>3, <1>6, <1>7, UnknownIs, <1>u DEF Says
<1>10. Says(y, m, a)
  BY <1>3, <1>6, <1>8, <1>9 DEF Says
<1> QED BY <1>1, <1>2, <1>10, <1>u DEF Extended, Unknown

\* What the twists that leave the sessions readable make of each.
LEMMA Readable ==
  ASSUME NEW s \in Reported,
         NEW twist \in Twists \ {"unnamed", "overfull", "endless"}
  PROVE  Tells(Reformed(Told(s), twist), s)
<1>1. CASE twist = "reversed"
  BY <1>1, AsWritten, Reversed DEF Reformed
<1>2. CASE twist = "unknown"
  BY <1>2, WithUnknown DEF Reformed
<1>3. CASE twist = "older"
  BY <1>3, WithoutDefaults DEF Reformed
<1>l. CASE twist = "lengthy"
  BY <1>l, WithUnknown DEF Reformed
<1>4. CASE twist \in {"none", "cut", "undated", "stranger", "empty", "wordy"}
  <2>1. Reformed(Told(s), twist) = Told(s)
    BY <1>4 DEF Reformed
  <2> QED BY <2>1, AsWritten
<1> QED BY <1>1, <1>2, <1>3, <1>l, <1>4 DEF Twists, Harmless, Harmful, Oversize

LEMMA Carried ==
  ASSUME NEW m \in Sendable,
         NEW twist \in Twists \ {"unnamed", "overfull", "endless"},
         NEW a, a = [j \in DOMAIN m.sessions |-> Object(Reformed(Told(m.sessions[j]), twist))]
  PROVE  Carries(a, m)
<1>1. SUFFICES ASSUME NEW i \in DOMAIN m.sessions
               PROVE  \E x : a[i] = Object(x) /\ Tells(x, m.sessions[i])
  BY DEF Carries
<1>2. m.sessions[i] \in Reported
  BY DEF Sendable
<1>3. a[i] = Object(Reformed(Told(m.sessions[i]), twist))
  OBVIOUS
<1> QED BY <1>2, <1>3, Readable

LEMMA TwistedIs ==
  ASSUME NEW m \in Sendable, NEW twist
  PROVE  \E a : /\ a = [j \in DOMAIN m.sessions |->
                          Object(Reformed(Told(m.sessions[j]), twist))]
                /\ Twisted(Encode(m), twist) =
                     [members |->
                        CASE twist = "reversed" -> Reverse(Sends(m, a))
                          [] twist = "unknown"  -> Extended(Sends(m, a), "other")
                          [] twist = "wordy"    -> Extended(Sends(m, a), "lengthy")
                          [] twist = "undated"  -> <<Sends(m, a)[1], Sends(m, a)[3]>>
                          [] twist = "stranger" -> Append(Sends(m, a),
                                                          Member("agent", Str("gemini")))
                          [] twist = "empty"    -> Append(Sends(m, a),
                                                          Member("sessions", Array(<<>>)))
                          [] OTHER              -> Sends(m, a),
                      closed |-> twist # "cut"]
<1>1. PICK a : a = [j \in DOMAIN m.sessions |->
                      Object(Reformed(Told(m.sessions[j]), twist))]
  OBVIOUS
<1>2. PICK ms : ms = Sends(m, a)
  OBVIOUS
<1>3. OnSessions(Encode(m).members, twist) = ms
  BY <1>1, <1>2, Sent
<1>4. Encode(m).closed = TRUE
  BY Encoded
<1>5. Twisted(Encode(m), twist) =
        [members |-> CASE twist = "reversed" -> Reverse(ms)
                       [] twist = "unknown"  -> Extended(ms, "other")
                       [] twist = "wordy"    -> Extended(ms, "lengthy")
                       [] twist = "undated"  -> <<ms[1], ms[3]>>
                       [] twist = "stranger" -> Append(ms, Member("agent", Str("gemini")))
                       [] twist = "empty"    -> Append(ms, Member("sessions", Array(<<>>)))
                       [] OTHER              -> ms,
         closed |-> twist # "cut"]
  BY <1>3, <1>4 DEF Twisted
<1> QED BY <1>1, <1>2, <1>5

-----------------------------------------------------------------------------
(* What the device makes of each twist.                                    *)

LEMMA HarmlessIsRead ==
  ASSUME NEW m \in Sendable, NEW twist \in Harmless
  PROVE  /\ Parses(Twisted(Encode(m), twist))
         /\ Parse(Twisted(Encode(m), twist)) = Meant(m)
<1>1. PICK b : b = Twisted(Encode(m), twist)
  OBVIOUS
<1>2. PICK a : /\ a = [j \in DOMAIN m.sessions |->
                         Object(Reformed(Told(m.sessions[j]), twist))]
               /\ b = [members |-> CASE twist = "reversed" -> Reverse(Sends(m, a))
                                     [] twist = "unknown"  -> Extended(Sends(m, a), "other")
                                     [] OTHER              -> Sends(m, a),
                       closed |-> TRUE]
  BY <1>1, TwistedIs, ZenonT(40) DEF Harmless
<1>3. Carries(a, m)
  BY <1>2, Carried DEF Twists, Harmless
<1>4. PICK ms : b = [members |-> ms, closed |-> TRUE] /\ Says(ms, m, a)
  <2>1. CASE twist = "reversed"
    BY <1>2, <2>1, SendsSays, ReverseSays
  <2>2. CASE twist = "unknown"
    BY <1>2, <2>2, ExtendedSays
  <2>3. CASE twist # "reversed" /\ twist # "unknown"
    BY <1>2, <2>3, SendsSays
  <2> QED BY <2>1, <2>2, <2>3
<1> QED BY <1>1, <1>3, <1>4, SaidIsRead

\* One part that does not fit is enough.
LEMMA PartRefused ==
  ASSUME NEW S, NEW q \in Seq(S), NEW e \in S, ~TopFits(e), NEW c
  PROVE  ~Parses([members |-> Append(q, e), closed |-> c])
<1>1. PICK ms : ms = Append(q, e)
  OBVIOUS
<1>2. \E i \in DOMAIN ms : ms[i] = e
  BY <1>1, Appended
<1>3. [members |-> ms, closed |-> c].members = ms
  OBVIOUS
<1> QED BY <1>1, <1>2, <1>3 DEF Parses

LEMMA StrangerRefused == ~TopFits(Member("agent", Str("gemini")))
<1> DEFINE e == Str("gemini")
<1>1. e.string = "gemini"
  BY ValueKinds
<1>2. e.string \notin Known
  BY <1>1 DEF Known
<1> HIDE DEF e
<1>3. ~TopFits(Member("agent", e))
  BY <1>2 DEF TopFits, Member
<1> QED BY <1>3 DEF e

LEMMA SessionsRefused ==
  ASSUME NEW m \in Sendable, NEW a, a = [j \in DOMAIN m.sessions |-> a[j]],
         \A j \in DOMAIN m.sessions : ~SessionParses(a[j])
  PROVE  ~TopFits(Member("sessions", Array(a)))
<1>1. PICK q : q = m.sessions
  OBVIOUS
<1>2. q \in Seq(Reported) /\ q # <<>>
  BY <1>1 DEF Sendable
<1>3. PICK S : S = {a[i] : i \in DOMAIN q}
  OBVIOUS
<1>4. a \in Seq(S) /\ Len(a) = Len(q)
  <2>1. a = [i \in 1..Len(q) |-> a[i]] /\ \A i \in 1..Len(q) : a[i] \in S
    BY <1>1, <1>2, <1>3
  <2>2. Len(q) \in Nat
    BY <1>2
  <2> QED BY <2>1, <2>2
<1>5. 1 \in DOMAIN Taken(a) /\ 1 \in DOMAIN q
  <2>1. PICK n : n = IF Len(a) < 3 THEN Len(a) ELSE 3
    OBVIOUS
  <2>2. Len(a) \in Nat /\ Len(a) > 0
    BY <1>2, <1>4, NotEmpty
  <2>3. n \in Nat /\ n > 0
    BY <2>1, <2>2, Smaller, Zenon
  <2>4. DOMAIN Taken(a) = 1..n
    BY <1>4, <2>1, Prefix
  <2> QED BY <1>2, <1>4, <2>2, <2>3, <2>4
<1> DEFINE e == Array(a)
<1>6. e.array = a
  BY ValueKinds
<1> HIDE DEF e
<1>7. ~TopFits(Member("sessions", e))
  BY <1>1, <1>5, <1>6 DEF TopFits, Member
<1> QED BY <1>7 DEF e

LEMMA CutRefused ==
  ASSUME NEW m \in Sendable
  PROVE  ~Parses(Twisted(Encode(m), "cut"))
<1>1. PICK twist : twist = "cut"
  OBVIOUS
<1>2. ~Twisted(Encode(m), twist).closed
  BY <1>1 DEF Twisted
<1> QED BY <1>1, <1>2 DEF Parses

LEMMA UndatedRefused ==
  ASSUME NEW m \in Sendable
  PROVE  ~Parses(Twisted(Encode(m), "undated"))
<1>1. PICK a : Twisted(Encode(m), "undated").members = <<Sends(m, a)[1], Sends(m, a)[3]>>
  BY TwistedIs
<1>2. PICK u : u = Sends(m, a)[1]
  OBVIOUS
<1>3. PICK v : v = Sends(m, a)[3]
  OBVIOUS
<1>4. u.key # "captured_at" /\ v.key # "captured_at"
  BY <1>2, <1>3, SendsKeys
<1>5. PICK ms : ms = <<u, v>>
  OBVIOUS
<1>6. DOMAIN ms = {1, 2} /\ ms[1] = u /\ ms[2] = v
  BY <1>5
<1>7. "captured_at" \notin Keys(ms)
  BY <1>4, <1>6 DEF Keys
<1>8. Twisted(Encode(m), "undated").members = ms
  BY <1>1, <1>2, <1>3, <1>5
<1> QED BY <1>7, <1>8 DEF Parses

LEMMA SpoiltRefused ==
  ASSUME NEW m \in Sendable, NEW twist \in {"unnamed", "overfull", "endless"}
  PROVE  ~Parses(Twisted(Encode(m), twist))
<1>1. PICK a : /\ a = [j \in DOMAIN m.sessions |->
                         Object(Reformed(Told(m.sessions[j]), twist))]
               /\ Twisted(Encode(m), twist).members = Sends(m, a)
  <2>1. PICK a : /\ a = [j \in DOMAIN m.sessions |->
                           Object(Reformed(Told(m.sessions[j]), twist))]
                 /\ Twisted(Encode(m), twist) =
                      [members |-> Sends(m, a), closed |-> TRUE]
    BY TwistedIs
  <2> QED BY <2>1
<1>2. \A j \in DOMAIN m.sessions : ~SessionParses(a[j])
  <2>1. SUFFICES ASSUME NEW j \in DOMAIN m.sessions
                 PROVE  ~SessionParses(a[j])
    OBVIOUS
  <2>2. a[j] = Object(Reformed(Told(m.sessions[j]), twist))
    BY <1>1
  <2>3. CASE twist = "unnamed"
    <3>1. Reformed(Told(m.sessions[j]), twist) = Tail(Told(m.sessions[j]))
      BY <2>3 DEF Reformed
    <3> QED BY <2>2, <3>1, Unnamed
  <2>4. CASE twist = "overfull"
    <3> DEFINE e == Member("used_pct", Number(101))
    <3>1. Reformed(Told(m.sessions[j]), twist) = Append(Told(m.sessions[j]), e)
      BY <2>4 DEF Reformed, Overfull
    <3>2. ~SessionFits(e)
      BY TooMuch
    <3> HIDE DEF e
    <3> QED BY <2>2, <3>1, <3>2, MemberRefused
  <2>5. CASE twist = "endless"
    <3> DEFINE e == Unknown("endless")
    <3>1. Reformed(Told(m.sessions[j]), twist) = Append(Told(m.sessions[j]), e)
      BY <2>5 DEF Reformed, Extended, Unknown
    <3>2. ~SessionFits(e)
      BY Overlong
    <3> HIDE DEF e
    <3> QED BY <2>2, <3>1, <3>2, MemberRefused
  <2> QED BY <2>3, <2>4, <2>5
<1>3. a = [j \in DOMAIN m.sessions |-> a[j]]
  BY <1>1
<1>4. ~TopFits(Member("sessions", Array(a)))
  BY <1>2, <1>3, SessionsRefused
<1>5. 3 \in DOMAIN Sends(m, a) /\ Sends(m, a)[3] = Member("sessions", Array(a))
  BY SendsIs
<1>6. ~TopFits(Sends(m, a)[3])
  BY <1>4, <1>5, Zenon
<1> QED BY <1>1, <1>5, <1>6 DEF Parses

LEMMA StrangersRefused ==
  ASSUME NEW m \in Sendable
  PROVE  ~Parses(Twisted(Encode(m), "stranger"))
<1> DEFINE e == Member("agent", Str("gemini"))
<1>1. PICK a : Twisted(Encode(m), "stranger") =
                 [members |-> Append(Sends(m, a), e), closed |-> TRUE]
  BY TwistedIs, ZenonT(40)
<1>2. ~TopFits(e)
  BY StrangerRefused
<1> HIDE DEF e
<1>3. PICK S : S = Parts(m, a) \cup {e}
  OBVIOUS
<1>4. e \in S /\ Sends(m, a) \in Seq(S)
  <2>1. Sends(m, a) \in Seq(Parts(m, a)) /\ Parts(m, a) \subseteq S
    BY <1>3, SendsSays DEF Says
  <2> QED BY <1>3, <2>1
<1> QED BY <1>1, <1>2, <1>4, PartRefused

\* The last value of a name is the one that counts.
LEMMA LastCounts ==
  ASSUME NEW S, NEW q \in Seq(S), NEW e \in S, NEW default
  PROVE  ValueOf(e.key, Append(q, e), default) = e.val
<1>1. PICK ms : ms = Append(q, e)
  OBVIOUS
<1>2. PICK n : n = Len(q) + 1
  OBVIOUS
<1>3. n \in Int /\ DOMAIN ms = 1..n /\ ms[n] = e
  <2>1. ms \in Seq(S) /\ Len(ms) = Len(q) + 1 /\ ms[Len(q) + 1] = e
    BY <1>1, Appended
  <2>2. DOMAIN ms = 1..Len(ms) /\ Len(q) \in Nat
    BY <2>1
  <2> QED BY <1>2, <2>1, <2>2
<1>4. n \in DOMAIN ms /\ e.key \in Keys(ms)
  <2>1. n \in 1..n
    <3>1. Len(q) \in Nat
      OBVIOUS
    <3> QED BY <1>2, <3>1
  <2> QED BY <1>3, <2>1 DEF Keys
<1>5. (CHOOSE i \in DOMAIN ms :
         /\ ms[i].key = e.key
         /\ \A j \in DOMAIN ms : ms[j].key = e.key => j <= i) = n
  BY <1>3, <1>4
<1> QED BY <1>1, <1>3, <1>4, <1>5 DEF ValueOf

LEMMA EmptyRefused ==
  ASSUME NEW m \in Sendable
  PROVE  ~Parses(Twisted(Encode(m), "empty"))
<1> DEFINE e == Member("sessions", Array(<<>>))
<1>1. PICK a : Twisted(Encode(m), "empty") =
                 [members |-> Append(Sends(m, a), e), closed |-> TRUE]
  BY TwistedIs, ZenonT(40)
<1>2. e.key = "sessions" /\ e.val.array = <<>>
  <2> DEFINE f == Array(<<>>)
  <2>1. f.array = <<>>
    BY ValueKinds
  <2> HIDE DEF f
  <2>2. Member("sessions", f).key = "sessions" /\ Member("sessions", f).val = f
    BY DEF Member
  <2> QED BY <2>1, <2>2 DEF f
<1> HIDE DEF e
<1>3. PICK S : S = Parts(m, a) \cup {e}
  OBVIOUS
<1>4. e \in S /\ Sends(m, a) \in Seq(S)
  <2>1. Sends(m, a) \in Seq(Parts(m, a)) /\ Parts(m, a) \subseteq S
    BY <1>3, SendsSays DEF Says
  <2> QED BY <1>3, <2>1
<1>5. PICK ms : ms = Append(Sends(m, a), e)
  OBVIOUS
<1>6. ValueOf("sessions", ms, Array(<<>>)) = e.val
  BY <1>2, <1>4, <1>5, LastCounts
<1>7. PICK b : b = [members |-> ms, closed |-> TRUE]
  OBVIOUS
<1>8. Parse(b).sessions = [i \in DOMAIN Taken(<<>>) |-> Session(Taken(<<>>)[i])]
  BY <1>2, <1>6, <1>7 DEF Parse
<1>9. DOMAIN Taken(<<>>) = {}
  BY DEF Taken, MaxSessions
<1>10. Parse(b).sessions = <<>>
  BY <1>8, <1>9
<1> QED BY <1>1, <1>5, <1>7, <1>10 DEF Parses

\* A member of a newer host whose key has 16 characters or more.
LEMMA WordyRefused ==
  ASSUME NEW m \in Sendable
  PROVE  ~Parses(Twisted(Encode(m), "wordy"))
<1> DEFINE e == Unknown("lengthy")
<1>1. PICK a : Twisted(Encode(m), "wordy") =
                 [members |-> Extended(Sends(m, a), "lengthy"), closed |-> TRUE]
  BY TwistedIs
<1>2. Extended(Sends(m, a), "lengthy") = Append(Sends(m, a), e)
  BY DEF Extended, Unknown
<1>3. ~TopFits(e)
  BY UnknownIs DEF TopFits
<1> HIDE DEF e
<1>4. PICK S : S = Parts(m, a) \cup {e}
  OBVIOUS
<1>5. e \in S /\ Sends(m, a) \in Seq(S)
  <2>1. Sends(m, a) \in Seq(Parts(m, a)) /\ Parts(m, a) \subseteq S
    BY <1>4, SendsSays DEF Says
  <2> QED BY <1>4, <2>1
<1> QED BY <1>1, <1>2, <1>3, <1>5, PartRefused

\* Every snapshot a host can send is stored as meant, with the sessions there is
\* room for, if the members of the body and of each session say what is required of
\* them in whatever order, with or without what is a default, and have beside that
\* only members with keys that fit the parser's buffers (Says, Carries).  Of the
\* listed twists the parser accepts just the harmless ones, and those as meant: it
\* refuses what the format forbids, and also a member of a newer host whose key is
\* too long for key[16] or key[32], which the comments at http_server.c:393 and :470
\* say is skipped (parse_snapshot, parse_session).
THEOREM WireFaithful ==
  ASSUME NEW m \in Sendable
  PROVE  /\ \A a, ms : Carries(a, m) /\ Says(ms, m, a) =>
              LET body == [members |-> ms, closed |-> TRUE]
              IN  Parses(body) /\ Parse(body) = Meant(m)
         /\ \A twist \in Twists :
              /\ Parses(Twisted(Encode(m), twist)) <=> twist \in Harmless
              /\ twist \in Harmless => Parse(Twisted(Encode(m), twist)) = Meant(m)
<1>1. ASSUME NEW a, NEW ms, Carries(a, m), Says(ms, m, a),
             NEW body, body = [members |-> ms, closed |-> TRUE]
      PROVE  Parses(body) /\ Parse(body) = Meant(m)
  BY <1>1, SaidIsRead
<1>2. ASSUME NEW twist \in Twists
      PROVE  /\ Parses(Twisted(Encode(m), twist)) <=> twist \in Harmless
             /\ twist \in Harmless => Parse(Twisted(Encode(m), twist)) = Meant(m)
  <2>1. CASE twist \in Harmless
    BY <2>1, HarmlessIsRead
  <2>2. CASE twist \notin Harmless
    <3>1. twist \in {"cut", "undated", "unnamed", "overfull", "stranger", "empty",
                     "wordy", "endless"}
      BY <2>2 DEF Twists, Harmful, Oversize
    <3>2. ~Parses(Twisted(Encode(m), twist))
      BY <3>1, CutRefused, UndatedRefused, SpoiltRefused, StrangersRefused, EmptyRefused,
         WordyRefused
    <3> QED BY <2>2, <3>2
  <2> QED BY <2>1, <2>2
<1> QED BY <1>1, <1>2
=============================================================================
