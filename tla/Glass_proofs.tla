---------------------------- MODULE Glass_proofs -----------------------------
(***************************************************************************)
(* What holds of the glass for any hosts, owners, thresholds and studies:  *)
(* what is stored is what the host meant, what is painted is what is       *)
(* stored, and the screen tells how the network stands.                    *)
(***************************************************************************)
EXTENDS Firmware_proofs, Wire_proofs

-----------------------------------------------------------------------------
(* What is stored, on its way there, and on the glass.                     *)

Held == [agent : Known, captured : Int, sessions : Seq(Reported)]

\* One snapshot of an agent, and it is what its host meant.
StoreSound ==
  /\ store \in Seq(Held)
  /\ \A i, j \in DOMAIN store : store[i].agent = store[j].agent => i = j
  /\ \A i \in DOMAIN store : store[i] = meant[store[i].agent]
  /\ DOMAIN meant = Known

\* What httpd has in hand is what was meant; from the listener on it is stored.
PushSound ==
  /\ ~misread
  /\ http \in [pc : {"idle", "admit", "put", "show", "confirm"},
               snap : Held \cup {EmptySnapshot}, meant : Held \cup {EmptySnapshot},
               by : Owners \cup {None}]
  /\ http.pc # "idle" => http.snap \in Held /\ http.meant = http.snap
  /\ http.pc \in {"show", "confirm"} => V!Stored(http.snap.agent)

\* What the event loop is about to show is stored.
RestoreSound ==
  /\ restore.pc \in {"idle", "count", "wait", "copy", "show"}
  /\ restore.pc \in {"copy", "show"} => store # <<>>
  /\ restore.pc = "show" => restore.copy \in Held /\ V!Stored(restore.copy.agent)

\* What is on show is stored; after a tick its bars are those of what is stored.
PaintSound ==
  /\ screen.agent \in Known \cup {None}
  /\ OnShow => V!Stored(screen.agent)
  /\ fresh /\ OnShow =>
       \A i \in DOMAIN screen.rows :
         /\ i \in DOMAIN meant[screen.agent].sessions
         /\ screen.rows[i].pct = V!Pct(meant[screen.agent].sessions[i], screen.at)

DataInv == StoreSound /\ PushSound /\ RestoreSound /\ PaintSound

-----------------------------------------------------------------------------
(* What the screen says of the network.                                    *)

Busy == Pending("REFUSED") \/ Pending("DROPPED")

\* Which parts of the network there are in each mode.
ModeSound ==
  /\ mode \in {"off", "sta", "ap"}
  /\ hadIp => mode = "sta"
  /\ Pending("GOT_IP") \/ Busy \/ Pending("STA_START") \/ link # "idle" \/ timer # 0
       => mode = "sta"
  /\ http # NoPush \/ V!Restoring => hadIp
  /\ backoff >= 1

\* Before there was an address.
BeforeSound ==
  /\ mode = "off" => backoff = 1 /\ store = <<>>
  /\ mode = "ap" => Splash("Setup mode")
  /\ mode = "sta" /\ ~hadIp =>
       /\ Splash(IF backoff = 1 THEN "Connecting..." ELSE "WiFi unavailable")
       /\ store = <<>>
  /\ Pending("STA_START") => ~hadIp /\ backoff = 1

\* An address that was lost since it was given has its disconnection pending.
AddressSound ==
  Pending("GOT_IP") \/ V!Restoring => link = "leased" \/ Busy

\* Nothing was shown yet of what the event loop waits to show.
WaitSound == restore.pc = "wait" => (store # <<>> => overtaken)

\* With an address, and its handler at its end.
LeasedSound ==
  hadIp /\ ~V!Restoring /\ link = "leased" /\ ~Pending("GOT_IP") =>
    \/ OnShow /\ ~overtaken
    \/ Splash("Waiting for daemon...") /\ (store = <<>> \/ overtaken \/ At("show"))

\* With the address lost, and the handler of the loss at its end.
LostSound ==
  hadIp /\ link # "leased" /\ ~Busy =>
    IF overtaken THEN OnShow ELSE Splash("Reconnecting...")

NetworkShown == ModeSound /\ BeforeSound /\ AddressSound /\ WaitSound /\ LeasedSound
                /\ LostSound

-----------------------------------------------------------------------------
(* The store and the painting.                                             *)

LEMMA StoredIs ==
  ASSUME StoreSound, NEW a, V!Stored(a)
  PROVE  /\ V!IndexOf(a) \in DOMAIN store /\ store[V!IndexOf(a)].agent = a
         /\ V!Get(a) \in Held /\ V!Get(a).agent = a
         /\ V!Get(a) = meant[a] /\ a \in Known /\ store # <<>>
<1>1. PICK i \in DOMAIN store : store[i].agent = a
  BY DEF V!Stored
<1>2. V!IndexOf(a) \in DOMAIN store /\ store[V!IndexOf(a)].agent = a
  BY <1>1 DEF V!IndexOf
<1>3. V!Get(a) \in Held
  BY <1>2 DEF V!Get, StoreSound
<1>4. V!Get(a) = meant[a] /\ V!Get(a).agent = a
  BY <1>2 DEF V!Get, StoreSound
<1>5. a \in Known
  BY <1>3, <1>4 DEF Held
<1>6. store # <<>>
  BY <1>1
<1> QED BY <1>2, <1>3, <1>4, <1>5, <1>6

LEMMA AppendHeld ==
  ASSUME store \in Seq(Held), NEW s \in Held, store' = Append(store, s)
  PROVE  /\ store' \in Seq(Held)
         /\ DOMAIN store' = DOMAIN store \cup {Len(store) + 1}
         /\ \A i \in DOMAIN store : store'[i] = store[i] /\ i # Len(store) + 1
         /\ store'[Len(store) + 1] = s
OBVIOUS

\* A snapshot that is put replaces its agent's, or is the last.
LEMMA PutKeeps ==
  ASSUME StoreSound, NEW s \in Held, V!Put(s), meant' = [meant EXCEPT ![s.agent] = s]
  PROVE  /\ StoreSound' /\ V!Stored(s.agent)'
         /\ \A a : V!Stored(a) => V!Stored(a)'
         /\ store' # <<>>
<1>1. s.agent \in Known
  BY DEF Held
<1>m. /\ DOMAIN meant' = Known /\ meant'[s.agent] = s
      /\ \A a \in Known : a # s.agent => meant'[a] = meant[a]
  BY <1>1 DEF StoreSound
<1>k. \A i \in DOMAIN store : store[i].agent \in Known /\ store[i] \in Held
  <2>1. \A i \in DOMAIN store : store[i] \in Held
    BY DEF StoreSound
  <2>2. \A h \in Held : h.agent \in Known
    BY DEF Held
  <2> QED BY <2>1, <2>2
<1>2. CASE V!Stored(s.agent)
  <2>1. PICK n : n = V!IndexOf(s.agent)
    OBVIOUS
  <2>2. n \in DOMAIN store /\ store[n].agent = s.agent
    BY <1>2, <2>1, StoredIs
  <2>3. store' = [store EXCEPT ![n] = s]
    BY <1>2, <2>1 DEF V!Put
  <2>4. /\ store' \in Seq(Held) /\ DOMAIN store' = DOMAIN store /\ store'[n] = s
        /\ \A i \in DOMAIN store : i # n => store'[i] = store[i]
    BY <2>2, <2>3 DEF StoreSound
  <2>5. \A i \in DOMAIN store : store'[i].agent = store[i].agent
    BY <2>2, <2>4
  <2>6. \A i \in DOMAIN store' : store'[i] = meant'[store'[i].agent]
    BY <1>m, <1>k, <2>2, <2>4 DEF StoreSound
  <2>7. StoreSound'
    BY <1>m, <2>4, <2>5, <2>6 DEF StoreSound
  <2>8. \A a : V!Stored(a) => V!Stored(a)'
    BY <2>4, <2>5 DEF V!Stored
  <2>9. store' # <<>>
    BY <2>2, <2>4
  <2> QED BY <1>2, <2>7, <2>8, <2>9
<1>3. CASE ~V!Stored(s.agent)
  <2>1. store' = Append(store, s)
    BY <1>3 DEF V!Put
  <2>2. PICK n : n = Len(store) + 1
    OBVIOUS
  <2>3. /\ store' \in Seq(Held) /\ DOMAIN store' = DOMAIN store \cup {n} /\ store'[n] = s
        /\ \A i \in DOMAIN store : store'[i] = store[i] /\ i # n
    BY <2>1, <2>2, AppendHeld DEF StoreSound
  <2>4. \A i \in DOMAIN store : store[i].agent # s.agent
    BY <1>3 DEF V!Stored
  <2>5. \A i, j \in DOMAIN store' : store'[i].agent = store'[j].agent => i = j
    BY <2>3, <2>4 DEF StoreSound
  <2>6. \A i \in DOMAIN store' : store'[i] = meant'[store'[i].agent]
    BY <1>m, <1>k, <2>3, <2>4 DEF StoreSound
  <2>7. StoreSound'
    BY <1>m, <2>3, <2>5, <2>6 DEF StoreSound
  <2>8. /\ V!Stored(s.agent)'
        /\ \A a : V!Stored(a) => V!Stored(a)'
    BY <2>3 DEF V!Stored
  <2>9. store' # <<>>
    BY <2>3
  <2> QED BY <2>7, <2>8, <2>9
<1> QED BY <1>2, <1>3

LEMMA PaintedIs ==
  ASSUME NEW s \in Held, NEW owners, NEW p, p = V!Painted(s, owners)
  PROVE  /\ p.agent = s.agent /\ p.at = clock
         /\ \A i \in DOMAIN p.rows :
              /\ i \in DOMAIN s.sessions
              /\ p.rows[i].pct = V!Pct(s.sessions[i], clock)
<1>1. p.agent = s.agent /\ p.at = clock /\ p.rows = V!RowsOf(s)
  BY DEF V!Painted
<1>2. PICK n : n = V!RowCount(s)
  OBVIOUS
<1>3. n \in Nat /\ n <= Len(s.sessions) /\ s.sessions \in Seq(Reported)
  <2>1. s.sessions \in Seq(Reported) /\ Len(s.sessions) \in Nat
    BY DEF Held
  <2> QED BY <1>2, <2>1 DEF V!RowCount
<1>4. DOMAIN p.rows = 1..n
  BY <1>1, <1>2 DEF V!RowsOf
<1>5. \A i \in 1..n : i \in DOMAIN s.sessions
  BY <1>3
<1>6. \A i \in 1..n : p.rows[i].pct = V!Pct(s.sessions[i], clock)
  BY <1>1, <1>2 DEF V!RowsOf, V!CydRow, V!AmoledRow
<1> QED BY <1>1, <1>4, <1>5, <1>6

\* The names of the agents are none of the words for no agent.
LEMMA Nobody == None \notin Known
BY FirmwareAssumption

\* An agent that is stored is painted, as it is stored.
LEMMA LoadedKeeps ==
  ASSUME StoreSound, NEW s \in Held, V!Stored(s.agent), NEW owners, NEW read,
         V!Loaded(s, owners, read), UNCHANGED <<store, meant>>,
         fresh' => s = meant[s.agent]
  PROVE  PaintSound' /\ OnShow' /\ screen'.agent = s.agent
<1>1. PICK p : p = V!Painted(s, cid')
  OBVIOUS
<1>2. screen' = p
  BY <1>1 DEF V!Loaded
<1>3. /\ p.agent = s.agent /\ p.at = clock
      /\ \A i \in DOMAIN p.rows : /\ i \in DOMAIN s.sessions
                                  /\ p.rows[i].pct = V!Pct(s.sessions[i], clock)
  BY <1>1, PaintedIs
<1>4. s.agent \in Known
  BY DEF Held
<1>5. V!Stored(s.agent)'
  BY DEF V!Stored
<1>6. OnShow' /\ screen'.agent = s.agent
  BY <1>2, <1>3, <1>4, Nobody DEF OnShow
<1>8. fresh' => \A i \in DOMAIN screen'.rows :
                  /\ i \in DOMAIN meant'[screen'.agent].sessions
                  /\ screen'.rows[i].pct
                       = V!Pct(meant'[screen'.agent].sessions[i], screen'.at)
  BY <1>2, <1>3
<1> QED BY <1>2, <1>3, <1>4, <1>5, <1>6, <1>8 DEF PaintSound, OnShow, V!Pct,
           V!EffectiveReset, V!Synced

\* A splash, and a step that leaves store and screen alone, unless something newer
\* is stored than what a tick painted.
LEMMA SplashKeeps ==
  ASSUME NEW text, screen' = V!Splash(text)
  PROVE  PaintSound'
BY DEF PaintSound, OnShow, V!Splash

LEMMA PaintKept ==
  ASSUME PaintSound, UNCHANGED screen, \A a : V!Stored(a) => V!Stored(a)',
         fresh' => fresh /\ UNCHANGED meant
  PROVE  PaintSound'
BY DEF PaintSound, OnShow, V!Pct, V!EffectiveReset, V!Synced

LEMMA StoreKept ==
  ASSUME UNCHANGED <<store, meant>>
  PROVE  /\ StoreSound => StoreSound'
         /\ \A a : V!Stored(a)' <=> V!Stored(a)
BY DEF StoreSound, V!Stored

-----------------------------------------------------------------------------
(* DataInv is inductive.                                                   *)

LEMMA DataInit == Init => DataInv
<1> SUFFICES ASSUME Init PROVE DataInv
  OBVIOUS
<1>1. store = <<>> /\ screen = V!Splash("Booting...") /\ restore = V!NotRestoring
  BY DEF Init, V!Init
<1>2. http = NoPush /\ meant = NothingMeant /\ misread = FALSE
  BY DEF Init
<1>3. StoreSound
  BY <1>1, <1>2 DEF StoreSound, NothingMeant
<1>4. PushSound
  BY <1>2 DEF PushSound, NoPush
<1>5. RestoreSound
  BY <1>1 DEF RestoreSound, V!NotRestoring
<1>6. PaintSound
  BY <1>1 DEF PaintSound, OnShow, V!Splash
<1> QED BY <1>3, <1>4, <1>5, <1>6 DEF DataInv

LEMMA DataDown ==
  ASSUME NEW power \in BOOLEAN, Down(power)
  PROVE  DataInv'
<1>1. /\ store' = <<>> /\ screen' = V!Splash("Booting...") /\ restore' = V!NotRestoring
      /\ http' = NoPush /\ meant' = NothingMeant /\ misread' = FALSE
  BY DEF Down, V!Reset
<1>2. StoreSound'
  BY <1>1 DEF StoreSound, NothingMeant
<1>3. PushSound'
  BY <1>1 DEF PushSound, NoPush
<1>4. RestoreSound'
  BY <1>1 DEF RestoreSound, V!NotRestoring
<1>5. PaintSound'
  BY <1>1, SplashKeeps
<1> QED BY <1>2, <1>3, <1>4, <1>5 DEF DataInv

\* A splash is painted.
LEMMA DataSplash ==
  ASSUME DataInv, NEW text, V!ShowStatus(text), UNCHANGED push,
         RestoreSound'
  PROVE  DataInv'
<1>1. StoreSound'
  BY StoreKept DEF DataInv, V!ShowStatus, push
<1>2. PushSound'
  BY DEF DataInv, PushSound, V!Stored, V!ShowStatus, push
<1>3. PaintSound'
  BY SplashKeeps DEF V!ShowStatus
<1> QED BY <1>1, <1>2, <1>3 DEF DataInv

\* Nothing of it changes but what the event loop does next.
LEMMA DataKept ==
  ASSUME DataInv, UNCHANGED <<store, screen, fresh, push>>, RestoreSound'
  PROVE  DataInv'
<1>1. StoreSound' /\ \A a : V!Stored(a) => V!Stored(a)'
  BY StoreKept DEF DataInv, push
<1>2. PushSound'
  BY DEF DataInv, PushSound, V!Stored, push
<1>3. PaintSound'
  BY <1>1, PaintKept DEF DataInv, push
<1> QED BY <1>1, <1>2, <1>3 DEF DataInv

LEMMA RestoreKept ==
  ASSUME RestoreSound, UNCHANGED <<store, restore>>
  PROVE  RestoreSound'
BY DEF RestoreSound, V!Stored

LEMMA DataLoop ==
  ASSUME DataInv, EventLoop
  PROVE  DataInv'
<1>1. CASE Started
  BY <1>1, DataSplash, RestoreKept DEF Started, V!ShowStatus, DataInv
<1>2. CASE Ignored
  BY <1>2, DataKept, RestoreKept DEF Ignored, DataInv, view
<1>3. ASSUME NEW e \in {"REFUSED", "DROPPED"}, NEW ok \in BOOLEAN, Lost(e, ok)
      PROVE  DataInv'
  <2>1. PICK text : V!ShowStatus(text)
    BY <1>3 DEF Lost
  <2>2. UNCHANGED push /\ UNCHANGED <<store, restore>>
    BY <1>3, <2>1 DEF Lost, V!ShowStatus
  <2> QED BY <2>1, <2>2, DataSplash, RestoreKept DEF DataInv
<1>4. ASSUME NEW e \in {"REFUSED", "DROPPED"}, NEW ok \in BOOLEAN, GiveUp(e, ok)
      PROVE  DataInv'
  BY <1>4, DataDown DEF GiveUp
<1>5. CASE GotIp
  <2>1. RestoreSound'
    BY <1>5 DEF GotIp, V!RestoreStart, V!NotRestoring, RestoreSound
  <2> QED BY <1>5, <2>1, DataKept DEF GotIp
<1>6. CASE Restore
  <2>u. UNCHANGED push
    BY <1>6 DEF Restore
  <2>1. CASE V!RestoreCount
    <3>1. RestoreSound'
      BY <2>1 DEF V!RestoreCount, RestoreSound
    <3> QED BY <2>1, <2>u, <3>1, DataKept DEF V!RestoreCount
  <2>2. CASE V!RestoreCopy
    <3>1. store # <<>> /\ store \in Seq(Held)
      BY <2>2 DEF DataInv, RestoreSound, StoreSound, V!RestoreCopy
    <3>2. 1 \in DOMAIN store /\ store[1] \in Held
      BY <3>1
    <3>3. restore'.pc = "show" /\ restore'.copy = store[1] /\ UNCHANGED store
      BY <2>2 DEF V!RestoreCopy
    <3>4. V!Stored(store[1].agent)
      BY <3>2 DEF V!Stored
    <3>5. V!Stored(restore.copy.agent)'
      BY <3>2, <3>3 DEF V!Stored
    <3>6. RestoreSound'
      BY <3>1, <3>2, <3>3, <3>5 DEF RestoreSound
    <3> QED BY <2>2, <2>u, <3>6, DataKept DEF V!RestoreCopy
  <2>3. CASE V!RestoreWait
    <3>1. RestoreSound'
      BY <2>3 DEF V!RestoreWait, V!NotRestoring, RestoreSound
    <3> QED BY <2>3, <2>u, <3>1, DataSplash DEF V!RestoreWait
  <2>4. ASSUME NEW read \in BOOLEAN, V!RestoreShow(read)
        PROVE  DataInv'
    <3>1. RestoreSound'
      BY <2>4 DEF V!RestoreShow, V!NotRestoring, RestoreSound
    <3>2. restore.copy \in Held /\ V!Stored(restore.copy.agent)
      BY <2>4 DEF DataInv, RestoreSound, V!RestoreShow
    <3>3. UNCHANGED <<store, meant>> /\ fresh' = FALSE
      BY <2>4, <2>u DEF V!RestoreShow, V!ShowAgent, push
    <3>4. StoreSound' /\ \A a : V!Stored(a) => V!Stored(a)'
      BY <3>3, StoreKept DEF DataInv
    <3>5. PushSound'
      BY <2>u, <3>3 DEF DataInv, PushSound, V!Stored, push
    <3>6. PaintSound'
      <4>1. CASE screen.agent = None
        <5>1. V!Loaded(restore.copy, cid, read)
          BY <2>4, <4>1 DEF V!RestoreShow, V!ShowAgent
        <5> QED BY <3>2, <3>3, <5>1, LoadedKeeps DEF DataInv
      <4>2. CASE screen.agent # None
        <5>1. UNCHANGED screen
          BY <2>4, <4>2 DEF V!RestoreShow, V!ShowAgent
        <5> QED BY <3>3, <3>4, <5>1, PaintKept DEF DataInv
      <4> QED BY <4>1, <4>2
    <3> QED BY <3>1, <3>4, <3>5, <3>6 DEF DataInv
  <2> QED BY <1>6, <2>1, <2>2, <2>3, <2>4 DEF Restore
<1> QED BY <1>1, <1>2, <1>3, <1>4, <1>5, <1>6 DEF EventLoop

\* What a host means can be held.
LEMMA MeantHeld ==
  ASSUME NEW m \in Sendable
  PROVE  Meant(m) \in Held
<1>1. PICK q : q = m.sessions
  OBVIOUS
<1>2. q \in Seq(Reported) /\ m.agent \in Known /\ m.captured \in Int
  BY <1>1 DEF Sendable
<1>3. PICK n : n = IF Len(q) < 3 THEN Len(q) ELSE 3
  OBVIOUS
<1>4. Len(q) \in Nat
  BY <1>2
<1>5. n \in Nat /\ n <= Len(q)
  BY <1>3, <1>4, Smaller, Zenon
<1>6. [i \in 1..n |-> q[i]] \in Seq(Reported)
  <2>1. \A i \in 1..n : q[i] \in Reported
    BY <1>2, <1>5
  <2> QED BY <1>5, <2>1
<1>7. Meant(m) = [agent |-> m.agent, captured |-> m.captured,
                  sessions |-> [i \in 1..n |-> q[i]]]
  BY <1>1, <1>3 DEF Meant
<1> QED BY <1>2, <1>6, <1>7 DEF Held

WorldInv == study \in Studies /\ trouble \in 0..study.faults

LEMMA ReceiveKeeps ==
  ASSUME DataInv, WorldInv, NEW r \in Requests, Receive(r)
  PROVE  DataInv'
<1>1. PICK m : m = r.msg
  OBVIOUS
<1>2. PICK tw : tw = r.twist
  OBVIOUS
<1>3. m \in Sendable
  <2>1. m \in study.says /\ study \in Study
    BY <1>1, FirmwareAssumption DEF Requests, WorldInv
  <2>2. study.says \subseteq Messages
    BY <2>1 DEF Study
  <2> QED BY <2>1, <2>2, FirmwareAssumption
<1>4. tw \in Twists
  BY <1>2 DEF Requests, Twists, Harmless
<1>5. PICK body : body = Twisted(Encode(m), tw)
  OBVIOUS
<1>6. (Parses(body) <=> tw \in Harmless) /\ (tw \in Harmless => Parse(body) = Meant(m))
  BY <1>3, <1>4, <1>5, WireFaithful
<1>7. /\ http' = IF Parses(body)
                 THEN [pc |-> "admit", snap |-> Parse(body), by |-> r.by,
                       meant |-> IF tw \in Harmless THEN Meant(m) ELSE EmptySnapshot]
                 ELSE NoPush
      /\ misread' = (misread \/ (Parses(body) # (tw \in Harmless)))
      /\ UNCHANGED view /\ UNCHANGED meant
  BY <1>1, <1>2, <1>5 DEF Receive
<1>8. ~misread'
  <2>1. ~misread
    BY DEF DataInv, PushSound
  <2>2. (Parses(body) # (tw \in Harmless)) = FALSE
    <3>1. CASE tw \in Harmless
      <4>1. Parses(body) = TRUE
        BY <1>6, <3>1 DEF Parses
      <4>2. (tw \in Harmless) = TRUE
        BY <3>1
      <4> QED BY <4>1, <4>2
    <3>2. CASE tw \notin Harmless
      <4>1. Parses(body) = FALSE
        BY <1>6, <3>2 DEF Parses
      <4>2. (tw \in Harmless) = FALSE
        BY <3>2
      <4> QED BY <4>1, <4>2
    <3> QED BY <3>1, <3>2
  <2>3. misread' = (misread \/ FALSE)
    BY <1>7, <2>2
  <2> QED BY <2>1, <2>3
<1>9. PushSound'
  <2>1. CASE Parses(body)
    <3>1. PICK s : s = Meant(m)
      OBVIOUS
    <3>2. http' = [pc |-> "admit", snap |-> s, by |-> r.by, meant |-> s]
      BY <1>6, <1>7, <2>1, <3>1
    <3>3. s \in Held /\ r.by \in Owners
      <4>1. s \in Held
        BY <1>3, <3>1, MeantHeld
      <4>2. r.by \in study.owners /\ study.owners \subseteq Owners
        BY FirmwareAssumption DEF Requests, WorldInv, Study
      <4> QED BY <4>1, <4>2
    <3> QED BY <1>8, <3>2, <3>3 DEF PushSound
  <2>2. CASE ~Parses(body)
    BY <1>7, <1>8, <2>2 DEF PushSound, NoPush
  <2> QED BY <2>1, <2>2
<1>10. StoreSound' /\ RestoreSound' /\ PaintSound'
  BY <1>7, StoreKept, RestoreKept, PaintKept DEF DataInv, view
<1> QED BY <1>9, <1>10 DEF DataInv

\* A later stage of the same push, or the end of it.
LEMMA PushGoesOn ==
  ASSUME PushSound, UNCHANGED misread, \A a : V!Stored(a) => V!Stored(a)',
         http.pc # "idle",
         \/ http' = NoPush
         \/ \E pc \in {"put", "show", "confirm"} :
              /\ http' = [http EXCEPT !.pc = pc]
              /\ pc \in {"show", "confirm"} => V!Stored(http.snap.agent)'
  PROVE  PushSound'
<1>1. CASE http' = NoPush
  BY <1>1 DEF PushSound, NoPush
<1>2. ASSUME NEW pc \in {"put", "show", "confirm"},
             http' = [http EXCEPT !.pc = pc],
             pc \in {"show", "confirm"} => V!Stored(http.snap.agent)'
      PROVE  PushSound'
  <2>1. /\ http'.pc = pc /\ http'.snap = http.snap /\ http'.meant = http.meant
        /\ http'.by = http.by /\ DOMAIN http' = DOMAIN http
    BY <1>2 DEF PushSound
  <2> QED BY <1>2, <2>1 DEF PushSound, V!Stored
<1> QED BY <1>1, <1>2

\* What httpd does to a push that it was sent.
LEMMA ServeKeeps ==
  ASSUME DataInv, Serve
  PROVE  DataInv'
<1>u. UNCHANGED misread
  BY DEF Serve
<1>1. CASE Admit
  <2>1. UNCHANGED <<store, screen, restore, fresh, meant>> /\ http.pc = "admit"
    BY <1>1 DEF Admit, V!Bind, view, At
  <2>2. http' = NoPush \/ http' = [http EXCEPT !.pc = "put"]
    BY <1>1 DEF Admit, Goto
  <2>3. StoreSound' /\ (\A a : V!Stored(a) => V!Stored(a)') /\ RestoreSound'
    BY <2>1, StoreKept, RestoreKept DEF DataInv
  <2>4. PushSound'
    BY <1>u, <2>1, <2>2, <2>3, PushGoesOn DEF DataInv
  <2>5. PaintSound'
    BY <2>1, <2>3, PaintKept DEF DataInv
  <2> QED BY <2>3, <2>4, <2>5 DEF DataInv
<1>2. CASE Store
  <2>1. http.pc = "put" /\ http.snap \in Held /\ http.meant = http.snap
    BY <1>2 DEF Store, At, DataInv, PushSound
  <2>2. CASE http' = NoPush /\ UNCHANGED <<view, meant>>
    <3>1. StoreSound' /\ (\A a : V!Stored(a) => V!Stored(a)') /\ RestoreSound'
      BY <2>2, StoreKept, RestoreKept DEF DataInv, view
    <3>2. PushSound'
      BY <1>u, <2>1, <2>2, <3>1, PushGoesOn DEF DataInv
    <3>3. PaintSound'
      BY <2>2, <3>1, PaintKept DEF DataInv, view
    <3> QED BY <3>1, <3>2, <3>3 DEF DataInv
  <2>3. CASE /\ V!Put(http.snap) /\ Goto("show")
             /\ meant' = [meant EXCEPT ![http.snap.agent] = http.meant]
    <3>1. meant' = [meant EXCEPT ![http.snap.agent] = http.snap]
      BY <2>1, <2>3
    <3>2. /\ StoreSound' /\ V!Stored(http.snap.agent)'
          /\ \A a : V!Stored(a) => V!Stored(a)'
          /\ store' # <<>>
      <4>1. PICK s : s = http.snap
        OBVIOUS
      <4>2. s \in Held /\ V!Put(s) /\ meant' = [meant EXCEPT ![s.agent] = s] /\ StoreSound
        BY <2>1, <2>3, <3>1, <4>1 DEF DataInv
      <4>3. StoreSound' /\ V!Stored(s.agent)' /\ (\A a : V!Stored(a) => V!Stored(a)')
            /\ store' # <<>>
        BY <4>2, PutKeeps
      <4>4. PICK n : n = s.agent
        OBVIOUS
      <4>5. http'.snap.agent = n
        BY <2>3, <4>1, <4>4 DEF Goto, DataInv, PushSound
      <4>6. V!Stored(n)'
        BY <4>3, <4>4
      <4> QED BY <4>3, <4>5, <4>6
    <3>3. UNCHANGED <<screen, restore>> /\ fresh' = FALSE
      BY <2>3 DEF V!Put
    <3>4. PushSound'
      BY <1>u, <2>1, <2>3, <3>2, PushGoesOn DEF DataInv, Goto
    <3>5. RestoreSound'
      BY <3>2, <3>3 DEF DataInv, RestoreSound, V!Stored
    <3>6. PaintSound'
      BY <3>2, <3>3, PaintKept DEF DataInv
    <3> QED BY <3>2, <3>4, <3>5, <3>6 DEF DataInv
  <2> QED BY <1>2, <2>2, <2>3 DEF Store
<1>3. ASSUME NEW read \in BOOLEAN, Show(read)
      PROVE  DataInv'
  <2>1. /\ http.pc = "show" /\ http.snap \in Held /\ V!Stored(http.snap.agent)
    BY <1>3 DEF Show, At, DataInv, PushSound
  <2>2. UNCHANGED <<store, restore, meant>> /\ fresh' = FALSE
    BY <1>3 DEF Show, V!ShowAgent
  <2>3. StoreSound' /\ (\A a : V!Stored(a) <=> V!Stored(a)') /\ RestoreSound'
    BY <2>2, StoreKept, RestoreKept DEF DataInv
  <2>4. PushSound'
    BY <1>u, <1>3, <2>1, <2>3, PushGoesOn DEF DataInv, Show, Goto
  <2>5. PaintSound'
    <3>1. CASE screen.agent = None
      <4>1. V!Loaded(http.snap, cid, read)
        BY <1>3, <3>1 DEF Show, V!ShowAgent
      <4> QED BY <2>1, <2>2, <4>1, LoadedKeeps DEF DataInv
    <3>2. CASE screen.agent # None
      <4>1. UNCHANGED screen
        BY <1>3, <3>2 DEF Show, V!ShowAgent
      <4> QED BY <2>2, <2>3, <4>1, PaintKept DEF DataInv
    <3> QED BY <3>1, <3>2
  <2> QED BY <2>3, <2>4, <2>5 DEF DataInv
<1>4. ASSUME NEW ok \in BOOLEAN, Confirm(ok)
      PROVE  DataInv'
  <2>1. http.pc = "confirm" /\ http' = NoPush /\ UNCHANGED <<view, meant>>
    BY <1>4 DEF Confirm, At
  <2>2. StoreSound' /\ (\A a : V!Stored(a) => V!Stored(a)') /\ RestoreSound'
    BY <2>1, StoreKept, RestoreKept DEF DataInv, view
  <2>3. PushSound'
    BY <1>u, <2>1, <2>2, PushGoesOn DEF DataInv
  <2>4. PaintSound'
    BY <2>1, <2>2, PaintKept DEF DataInv, view
  <2> QED BY <2>2, <2>3, <2>4 DEF DataInv
<1> QED BY <1>1, <1>2, <1>3, <1>4 DEF Serve

LEMMA NextHeld ==
  ASSUME StoreSound, NEW a, V!Stored(a), Len(store) >= 2
  PROVE  V!NextOf(a) \in Held /\ \E i \in DOMAIN store : V!NextOf(a) = store[i]
<1>1. V!NextOf(a) = store[(V!IndexOf(a) % Len(store)) + 1]
  BY DEF V!NextOf
<1>2. V!IndexOf(a) \in DOMAIN store /\ store \in Seq(Held)
  BY StoredIs DEF StoreSound
<1>3. PICK k \in Nat : k = V!IndexOf(a) /\ k >= 1
  BY <1>2
<1>4. PICK n \in Nat : n = Len(store) /\ n >= 2 /\ DOMAIN store = 1..n
  BY <1>2
<1>5. (k % n) + 1 \in 1..n
  BY <1>3, <1>4
<1>6. PICK i \in DOMAIN store : V!NextOf(a) = store[i]
  BY <1>1, <1>3, <1>4, <1>5
<1> QED BY <1>2, <1>6

\* A tick paints what is stored of the agent that was on show, or of the next.
LEMMA TickPaints ==
  ASSUME DataInv, NEW read \in BOOLEAN, V!Tick(read), UNCHANGED meant
  PROVE  PaintSound' /\ OnShow'
<1>1. UNCHANGED <<store, meant>> /\ OnShow
  BY DEF V!Tick, V!TickCyd, V!TickAmoled, OnShow
<1>2. PICK a : a = screen.agent
  OBVIOUS
<1>3. V!Stored(a) /\ a \in Known
  BY <1>1, <1>2 DEF DataInv, PaintSound, OnShow
<1>4. PICK owners : V!Turned(owners, read)
  BY DEF V!Tick, V!TickCyd, V!TickAmoled
<1>5. V!Get(a) \in Held /\ V!Get(a) = meant[a] /\ V!Get(a).agent = a
  BY <1>3, StoredIs DEF DataInv
<1>6. CASE screen' = V!Repainted
  <2>1. PICK p : p = V!Painted(V!Get(a), cid)
    OBVIOUS
  <2>2. screen' = p
    BY <1>2, <1>3, <1>6, <2>1 DEF V!Repainted
  <2>3. /\ p.agent = a
        /\ \A i \in DOMAIN p.rows :
             /\ i \in DOMAIN meant[a].sessions
             /\ p.rows[i].pct = V!Pct(meant[a].sessions[i], p.at)
    BY <1>5, <2>1, PaintedIs
  <2>4. V!Stored(a)' /\ meant' = meant
    BY <1>1, <1>3 DEF V!Stored
  <2>5. OnShow'
    BY <1>3, <2>2, <2>3, Nobody DEF OnShow
  <2> QED BY <1>3, <2>2, <2>3, <2>4, <2>5 DEF PaintSound, OnShow, V!Pct,
             V!EffectiveReset, V!Synced
<1>7. CASE V!Loaded(V!NextOf(a), owners, read) /\ Len(store) >= 2
  <2>1. PICK i \in DOMAIN store : V!NextOf(a) = store[i]
    BY <1>3, <1>7, NextHeld DEF DataInv
  <2>2. PICK s : s = store[i]
    OBVIOUS
  <2>3. s \in Held /\ V!Stored(s.agent) /\ s = meant[s.agent]
    BY <2>2 DEF DataInv, StoreSound, V!Stored
  <2>4. V!Loaded(s, owners, read)
    BY <1>7, <2>1, <2>2
  <2> QED BY <1>1, <2>3, <2>4, LoadedKeeps DEF DataInv
<1> QED BY <1>2, <1>4, <1>6, <1>7 DEF V!Turned

LEMMA TickKeeps ==
  ASSUME DataInv, NEW read \in BOOLEAN, NEW sampled \in BOOLEAN, Tick(read, sampled)
  PROVE  DataInv'
<1>1. V!Tick(read) /\ UNCHANGED push
  BY DEF Tick
<1>2. UNCHANGED <<store, restore, meant>>
  BY <1>1 DEF V!Tick, push
<1>3. StoreSound' /\ RestoreSound'
  BY <1>2, StoreKept, RestoreKept DEF DataInv
<1>4. PushSound'
  BY <1>1, <1>2 DEF DataInv, PushSound, V!Stored, push
<1>5. PaintSound'
  BY <1>1, <1>2, TickPaints
<1> QED BY <1>3, <1>4, <1>5 DEF DataInv


LEMMA DataKeptByNext ==
  ASSUME DataInv, WorldInv, [Next]_vars
  PROVE  DataInv'
<1>1. ASSUME NEW power \in BOOLEAN, Restart(power) PROVE DataInv'
  BY <1>1, DataDown DEF Restart
<1>2. CASE PowerCycle \/ PortalRestart \/ PressRestart \/ UpdateRestart
  BY <1>1, <1>2 DEF PowerCycle, PortalRestart, PressRestart, UpdateRestart
<1>3. ASSUME NEW read \in BOOLEAN, NEW sampled \in BOOLEAN, Boot(read, sampled)
      PROVE  DataInv'
  <2>1. (\E text : V!ShowStatus(text)) /\ UNCHANGED restore /\ UNCHANGED push
    BY <1>3 DEF Boot
  <2> QED BY <2>1, DataSplash, RestoreKept DEF DataInv, V!ShowStatus
<1>4. CASE EventLoop
  BY <1>4, DataLoop
<1>5. ASSUME NEW f \in W!Forms, Save(f) PROVE DataInv'
  <2>1. CASE UNCHANGED <<view, push>>
    BY <2>1, DataKept, RestoreKept DEF DataInv, view
  <2> QED BY <1>5, <2>1, DataDown DEF Save
<1>6. ASSUME NEW erased \in BOOLEAN, Press(erased) PROVE DataInv'
  <2>1. UNCHANGED <<store, screen, restore, fresh>> /\ UNCHANGED push
    BY <1>6 DEF Press, V!Erase
  <2> QED BY <2>1, DataKept, RestoreKept DEF DataInv
<1>7. ASSUME NEW r \in Requests, Receive(r) PROVE DataInv'
  BY <1>7, ReceiveKeeps
<1>8. CASE Serve
  BY <1>8, ServeKeeps
<1>9. ASSUME NEW read \in BOOLEAN, NEW sampled \in BOOLEAN, Tick(read, sampled)
      PROVE  DataInv'
  BY <1>9, TickKeeps
<1>10. CASE Clock
  <2>1. UNCHANGED <<store, screen, restore, fresh>> /\ UNCHANGED push
    BY <1>10 DEF Clock, V!Clock
  <2> QED BY <2>1, DataKept, RestoreKept DEF DataInv
<1>11. CASE \/ RadioAnswers \/ RadioFails \/ Upload \/ Watch \/ Turn \/ Charge
             \/ UNCHANGED vars \/ \E called \in BOOLEAN : Reconnect(called)
  <2>1. UNCHANGED <<view, push>>
    BY <1>11 DEF RadioAnswers, RadioFails, Reconnect, Upload, Watch, Turn, Charge, vars
  <2> QED BY <2>1, DataKept, RestoreKept DEF DataInv, view
<1> QED BY <1>2, <1>3, <1>4, <1>5, <1>6, <1>7, <1>8, <1>9, <1>10, <1>11 DEF Next

-----------------------------------------------------------------------------
(* What the world may still do.                                            *)

LEMMA WorldInit == Init => WorldInv
<1> SUFFICES ASSUME Init PROVE WorldInv
  OBVIOUS
<1>1. study \in Studies /\ trouble = study.faults /\ study.faults \in Nat
  BY FirmwareAssumption DEF Init, Study
<1> QED BY <1>1 DEF WorldInv

LEMMA WorldSteps == [Next]_vars => Calm \/ \E kind : Fault(kind)
<1> SUFFICES ASSUME [Next]_vars PROVE Calm \/ \E kind : Fault(kind)
  OBVIOUS
<1> USE DEF Works
<1>1. CASE PowerCycle \/ PortalRestart \/ PressRestart \/ UpdateRestart
  BY <1>1 DEF PowerCycle, PortalRestart, PressRestart, UpdateRestart
<1>2. CASE \E read, sampled \in BOOLEAN : Boot(read, sampled)
  BY <1>2 DEF Boot
<1>3. CASE RadioAnswers \/ RadioFails
  BY <1>3 DEF RadioAnswers, RadioFails
<1>4. CASE \E called \in BOOLEAN : Reconnect(called)
  BY <1>4 DEF Reconnect
<1>5. CASE EventLoop
  BY <1>5 DEF EventLoop, Started, Ignored, Lost, GiveUp, GotIp, Restore
<1>6. CASE \E f \in W!Forms : Save(f)
  BY <1>6 DEF Save
<1>7. CASE \E erased \in BOOLEAN : Press(erased)
  BY <1>7 DEF Press
<1>8. CASE \E r \in Requests : Receive(r)
  BY <1>8 DEF Receive
<1>9. CASE Serve
  BY <1>9 DEF Serve
<1>10. CASE Upload
  BY <1>10 DEF Upload
<1>11. CASE \E read, sampled \in BOOLEAN : Tick(read, sampled)
  BY <1>11 DEF Tick
<1>12. CASE Watch
  BY <1>12 DEF Watch
<1>13. CASE Turn \/ Charge \/ Clock \/ UNCHANGED vars
  BY <1>13 DEF Turn, Charge, Clock, Calm, vars
<1> QED BY <1>1, <1>2, <1>3, <1>4, <1>5, <1>6, <1>7, <1>8, <1>9, <1>10, <1>11, <1>12,
            <1>13 DEF Next

LEMMA WorldKept == WorldInv /\ [Next]_vars => WorldInv'
<1> SUFFICES ASSUME WorldInv, [Next]_vars PROVE WorldInv'
  OBVIOUS
<1>1. study.faults \in Nat
  BY FirmwareAssumption DEF WorldInv, Study
<1>2. CASE Calm
  BY <1>2 DEF Calm, WorldInv, world
<1>3. ASSUME NEW kind, Fault(kind) PROVE WorldInv'
  BY <1>1, <1>3 DEF Fault, WorldInv
<1> QED BY <1>2, <1>3, WorldSteps

-----------------------------------------------------------------------------
(* The theorems about the data.                                            *)

LEMMA DataInvariance == Spec => [](DataInv /\ WorldInv)
<1>1. Init => DataInv /\ WorldInv
  BY DataInit, WorldInit
<1>2. DataInv /\ WorldInv /\ [Next]_vars => (DataInv /\ WorldInv)'
  BY DataKeptByNext, WorldKept
<1> QED BY <1>1, <1>2, PTL DEF Spec

\* What is stored is what the host meant, however a host of another version writes
\* it; of the twists of the wire the parser refuses just those the format forbids
\* and those with a key too long for its buffers (the parser of
\* summary_post_handler, snapshot_store_put).
THEOREM AcceptedIsMeantHolds == Spec => []AcceptedIsMeant
<1>1. DataInv => AcceptedIsMeant
  BY DEF DataInv, StoreSound, PushSound, AcceptedIsMeant
<1> QED BY DataInvariance, <1>1, PTL

-----------------------------------------------------------------------------
(* The types of what is on the glass.                                      *)

MaybeOwners == [Known -> Owners \cup {None}]

\* The rest of the types follows from DataInv.
GlassTyped ==
  /\ profile \in V!Profiles
  /\ slot \in MaybeOwners
  /\ clock \in 0..MaxClock
  /\ screen \in V!Screens
  /\ cid \in MaybeOwners
  /\ cycle \in 0..(CycleTicks - 1)
  /\ footer \in 0..(FooterTicks - 1)
  /\ fresh \in BOOLEAN

LEMMA ReportedTyped ==
  ASSUME NEW x \in Reported
  PROVE  /\ x.used \in Nat /\ x.resets \in Int /\ x.rolling \in BOOLEAN
         /\ x.window \in Nat
<1>1. x.used \in 0..100 /\ x.resets \in Int /\ x.rolling \in BOOLEAN
        /\ x.window \in 0..MaxWindow
  BY Zenon DEF Reported
<1> QED BY <1>1, WireAssumption

LEMMA ScreenTyped ==
  ASSUME NEW a \in Known \cup {None}, NEW text \in V!Texts \cup {""}, NEW at \in Nat,
         NEW o \in Owners \cup {None}, NEW age \in Int, NEW rows \in Seq(V!Rows)
  PROVE  [agent |-> a, text |-> text, at |-> at, owner |-> o, age |-> age, rows |-> rows]
           \in V!Screens
BY Zenon DEF V!Screens

LEMMA PaintedTyped ==
  ASSUME NEW s \in Held, NEW owners \in MaybeOwners, clock \in 0..MaxClock
  PROVE  V!Painted(s, owners) \in V!Screens
<1>0. MaxClock \in Nat /\ clock \in Nat
  BY FirmwareAssumption
<1>1. PICK n : n = V!RowCount(s)
  OBVIOUS
<1>2. PICK q : q = s.sessions
  OBVIOUS
<1>3. q \in Seq(Reported) /\ s.agent \in Known /\ s.captured \in Int
  BY <1>2 DEF Held
<1>4. n \in Nat /\ n <= Len(q)
  <2>1. Len(q) \in Nat
    BY <1>3
  <2> QED BY <1>1, <1>2, <2>1 DEF V!RowCount
<1>5. PICK rows : rows = V!RowsOf(s)
  OBVIOUS
<1>6. rows = [i \in 1..n |-> [pct |-> V!Pct(q[i], clock), left |-> V!Countdown(q[i], clock)]]
  BY <1>1, <1>2, <1>5 DEF V!RowsOf, V!CydRow, V!AmoledRow
<1>7. \A i \in 1..n : /\ V!Pct(q[i], clock) \in Int
                      /\ V!Countdown(q[i], clock) \in Int
  <2>1. \A i \in 1..n : q[i] \in Reported
    BY <1>3, <1>4
  <2>2. ASSUME NEW x \in Reported
        PROVE  V!Pct(x, clock) \in Int /\ V!Countdown(x, clock) \in Int
    <3>1. x.used \in Int /\ x.resets \in Int /\ x.window \in Int
      BY ReportedTyped
    <3> QED BY <1>0, <3>1 DEF V!Pct, V!Countdown, V!EffectiveReset
  <2> QED BY <2>1, <2>2
<1>8. rows \in Seq(V!Rows)
  BY <1>4, <1>6, <1>7 DEF V!Rows
<1>9. V!Age(s, owners[s.agent]) \in Int
  BY <1>0, <1>3 DEF V!Age
<1>10. owners[s.agent] \in Owners \cup {None}
  BY <1>3 DEF MaybeOwners
<1>11. V!Painted(s, owners) =
         [agent |-> s.agent, text |-> "", at |-> clock, owner |-> owners[s.agent],
          age |-> V!Age(s, owners[s.agent]), rows |-> rows]
  BY <1>5 DEF V!Painted
<1>12. "" \in V!Texts \cup {""} /\ s.agent \in Known \cup {None}
  BY <1>3
<1>13. [agent |-> s.agent, text |-> "", at |-> clock, owner |-> owners[s.agent],
         age |-> V!Age(s, owners[s.agent]), rows |-> rows] \in V!Screens
  BY <1>0, <1>8, <1>9, <1>10, <1>12, ScreenTyped, Zenon
<1> QED BY <1>11, <1>13

LEMMA SplashTyped ==
  ASSUME NEW text \in V!Texts
  PROVE  V!Splash(text) \in V!Screens
<1>1. <<>> \in Seq(V!Rows)
  OBVIOUS
<1>2. -1 \in Int /\ 0 \in Nat
  OBVIOUS
<1> QED BY <1>1, <1>2, ScreenTyped, Zenon DEF V!Splash

LEMMA LoadedTyped ==
  ASSUME NEW s \in Held, NEW owners \in MaybeOwners, slot \in MaybeOwners,
         clock \in 0..MaxClock, NEW read \in BOOLEAN, V!Loaded(s, owners, read)
  PROVE  cid' \in MaybeOwners /\ screen' \in V!Screens
<1>1. s.agent \in Known
  BY DEF Held
<1>2. cid' = [owners EXCEPT ![s.agent] = cid'[s.agent]]
      /\ cid'[s.agent] \in Owners \cup {None}
  BY <1>1 DEF V!Loaded, V!Refreshed, V!CydOwner, V!AmoledOwner, MaybeOwners
<1>3. cid' \in MaybeOwners
  BY <1>1, <1>2 DEF MaybeOwners
<1>4. PICK names : names = cid'
  OBVIOUS
<1>5. V!Painted(s, names) \in V!Screens
  BY <1>3, <1>4, PaintedTyped
<1> QED BY <1>3, <1>4, <1>5 DEF V!Loaded

LEMMA Bounds ==
  /\ CycleTicks \in Nat /\ CycleTicks > 0 /\ FooterTicks \in Nat /\ FooterTicks > 0
  /\ MaxClock \in Nat
BY FirmwareAssumption

LEMMA GlassTypedInit == Init => GlassTyped
<1> SUFFICES ASSUME Init PROVE GlassTyped
  OBVIOUS
<1>1. V!Init
  BY DEF Init
<1>2. "Booting..." \in V!Texts
  BY DEF V!Texts
<1>3. screen \in V!Screens
  BY <1>1, <1>2, SplashTyped DEF V!Init
<1>4. cid \in MaybeOwners /\ slot \in MaybeOwners
  BY <1>1 DEF V!Init, MaybeOwners
<1>5. clock = 0 /\ cycle = 0 /\ footer = 0 /\ fresh = FALSE /\ profile \in V!Profiles
  BY <1>1 DEF V!Init
<1>6. /\ clock \in 0..MaxClock
      /\ cycle \in 0..(CycleTicks - 1) /\ footer \in 0..(FooterTicks - 1)
  BY <1>5, Bounds
<1> QED BY <1>3, <1>4, <1>5, <1>6 DEF GlassTyped

LEMMA GlassTypedReset ==
  ASSUME GlassTyped, NEW power \in BOOLEAN, V!Reset(power)
  PROVE  GlassTyped'
<1>1. "Booting..." \in V!Texts
  BY DEF V!Texts
<1>2. screen' \in V!Screens
  BY <1>1, SplashTyped DEF V!Reset
<1>3. cid' \in MaybeOwners
  BY DEF V!Reset, MaybeOwners
<1>4. cycle' = 0 /\ footer' = 0 /\ fresh' = FALSE /\ UNCHANGED <<profile, slot>>
      /\ clock' \in {0, clock}
  BY DEF V!Reset
<1>5. clock' \in 0..MaxClock
  BY <1>4, Bounds DEF GlassTyped
<1>6. cycle' \in 0..(CycleTicks - 1) /\ footer' \in 0..(FooterTicks - 1)
  BY <1>4, Bounds
<1> QED BY <1>2, <1>3, <1>4, <1>5, <1>6 DEF GlassTyped

LEMMA GlassTypedStatus ==
  ASSUME GlassTyped, NEW text \in V!Texts, V!ShowStatus(text)
  PROVE  GlassTyped'
BY SplashTyped DEF V!ShowStatus, GlassTyped

LEMMA GlassTypedShow ==
  ASSUME GlassTyped, NEW s \in Held, NEW read \in BOOLEAN, V!ShowAgent(s, read)
  PROVE  GlassTyped'
<1>1. CASE screen.agent = None
  BY <1>1, LoadedTyped DEF V!ShowAgent, GlassTyped
<1>2. CASE screen.agent # None
  BY <1>2 DEF V!ShowAgent, GlassTyped
<1> QED BY <1>1, <1>2

LEMMA GlassTypedTick ==
  ASSUME GlassTyped, DataInv, NEW read \in BOOLEAN, V!Tick(read)
  PROVE  GlassTyped'
<1>1. PICK owners \in MaybeOwners : V!Turned(owners, read)
  BY DEF V!Tick, V!TickCyd, V!TickAmoled, V!OwnersReread, GlassTyped
<1>2. footer' \in 0..(FooterTicks - 1)
  <2>1. UNCHANGED footer \/ footer' = (footer + 1) % FooterTicks
    BY DEF V!Tick, V!TickCyd, V!TickAmoled, V!Reread
  <2> QED BY <2>1, FirmwareAssumption DEF GlassTyped
<1>3. OnShow /\ V!Stored(screen.agent)
  BY DEF V!Tick, V!TickCyd, V!TickAmoled, OnShow, DataInv, PaintSound
<1>4. /\ cid' \in MaybeOwners /\ screen' \in V!Screens
      /\ cycle' \in 0..(CycleTicks - 1)
  <2>1. CASE Len(store) >= 2 /\ cycle + 1 >= CycleTicks
    <3>1. V!NextOf(screen.agent) \in Held
      BY <1>3, <2>1, NextHeld DEF DataInv
    <3>2. cycle' = 0 /\ V!Loaded(V!NextOf(screen.agent), owners, read)
      BY <1>1, <2>1 DEF V!Turned
    <3>3. cid' \in MaybeOwners /\ screen' \in V!Screens
      BY <3>1, <3>2, LoadedTyped DEF GlassTyped
    <3> QED BY <3>2, <3>3, FirmwareAssumption
  <2>2. CASE ~(Len(store) >= 2 /\ cycle + 1 >= CycleTicks)
    <3>1. /\ cycle' = IF Len(store) >= 2 THEN cycle + 1 ELSE 0
          /\ cid' = owners /\ screen' = V!Repainted
      BY <1>1, <2>2 DEF V!Turned
    <3>2. V!Get(screen.agent) \in Held
      BY <1>3, StoredIs DEF DataInv
    <3>3. screen' \in V!Screens
      BY <1>3, <3>1, <3>2, PaintedTyped DEF V!Repainted, GlassTyped
    <3>4. cycle' \in 0..(CycleTicks - 1)
      BY <2>2, <3>1, FirmwareAssumption DEF GlassTyped
    <3> QED BY <3>1, <3>3, <3>4
  <2> QED BY <2>1, <2>2
<1> QED BY <1>2, <1>4 DEF V!Tick, GlassTyped

LEMMA GlassTypedKept ==
  ASSUME GlassTyped, DataInv, WorldInv, [Next]_vars
  PROVE  GlassTyped'
<1>s. V!Texts = {"Booting...", "Connecting...", "Reconnecting...", "WiFi unavailable",
                 "Waiting for daemon...", "Setup mode"}
  BY DEF V!Texts
<1>1. CASE PowerCycle \/ PortalRestart \/ PressRestart \/ UpdateRestart
  BY <1>1, GlassTypedReset DEF PowerCycle, PortalRestart, PressRestart, UpdateRestart,
     Restart, Down
<1>2. ASSUME NEW read \in BOOLEAN, NEW sampled \in BOOLEAN, Boot(read, sampled)
      PROVE  GlassTyped'
  BY <1>2, <1>s, GlassTypedStatus DEF Boot
<1>3. CASE EventLoop
  <2>1. CASE Started
    BY <2>1, <1>s, GlassTypedStatus DEF Started
  <2>2. ASSUME NEW e \in {"REFUSED", "DROPPED"}, NEW ok \in BOOLEAN,
               Lost(e, ok) \/ GiveUp(e, ok)
        PROVE  GlassTyped'
    BY <2>2, <1>s, GlassTypedStatus, GlassTypedReset DEF Lost, GiveUp, Down
  <2>3. CASE Ignored \/ GotIp
    BY <2>3 DEF Ignored, GotIp, view, GlassTyped
  <2>4. CASE V!RestoreCount \/ V!RestoreCopy
    BY <2>4 DEF V!RestoreCount, V!RestoreCopy, GlassTyped
  <2>5. CASE V!RestoreWait
    BY <2>5, <1>s, GlassTypedStatus DEF V!RestoreWait
  <2>6. ASSUME NEW read \in BOOLEAN, V!RestoreShow(read) PROVE GlassTyped'
    <3>1. restore.copy \in Held /\ V!ShowAgent(restore.copy, read)
      BY <2>6 DEF V!RestoreShow, DataInv, RestoreSound
    <3> QED BY <3>1, GlassTypedShow
  <2> QED BY <1>3, <2>1, <2>2, <2>3, <2>4, <2>5, <2>6 DEF EventLoop, Restore
<1>5. ASSUME NEW f \in W!Forms, Save(f) PROVE GlassTyped'
  BY <1>5, GlassTypedReset DEF Save, Down, view, GlassTyped
<1>6. ASSUME NEW erased \in BOOLEAN, Press(erased) PROVE GlassTyped'
  BY <1>6 DEF Press, V!Erase, GlassTyped, MaybeOwners
<1>7. CASE Serve
  <2>1. CASE Admit
    <3>1. http.snap \in Held /\ http.by \in Owners \cup {None}
      BY <2>1 DEF Admit, At, DataInv, PushSound
    <3>2. PICK a, o : a = http.snap.agent /\ o = http.by
      OBVIOUS
    <3>3. a \in Known /\ o \in Owners \cup {None}
      BY <3>1, <3>2 DEF Held
    <3>4. UNCHANGED view \/ V!Bind(a, o)
      BY <2>1, <3>2 DEF Admit
    <3>5. ASSUME V!Bind(a, o) PROVE slot' \in MaybeOwners
      BY <3>3, <3>5 DEF V!Bind, GlassTyped, MaybeOwners
    <3> QED BY <3>4, <3>5 DEF V!Bind, view, GlassTyped
  <2>2. CASE Store
    BY <2>2 DEF Store, V!Put, view, GlassTyped
  <2>3. ASSUME NEW read \in BOOLEAN, Show(read) PROVE GlassTyped'
    <3>1. http.snap \in Held /\ V!ShowAgent(http.snap, read)
      BY <2>3 DEF Show, At, DataInv, PushSound
    <3> QED BY <3>1, GlassTypedShow
  <2>4. ASSUME NEW ok \in BOOLEAN, Confirm(ok) PROVE GlassTyped'
    BY <2>4 DEF Confirm, view, GlassTyped
  <2> QED BY <1>7, <2>1, <2>2, <2>3, <2>4 DEF Serve
<1>8. ASSUME NEW read \in BOOLEAN, NEW sampled \in BOOLEAN, Tick(read, sampled)
      PROVE  GlassTyped'
  BY <1>8, GlassTypedTick DEF Tick
<1>9. CASE Clock
  BY <1>9, FirmwareAssumption DEF Clock, V!Clock, GlassTyped
<1>10. CASE \/ RadioAnswers \/ RadioFails \/ Upload \/ Watch \/ Turn \/ Charge
             \/ UNCHANGED vars \/ (\E called \in BOOLEAN : Reconnect(called))
             \/ \E r \in Requests : Receive(r)
  <2>1. UNCHANGED view
    BY <1>10 DEF RadioAnswers, RadioFails, Reconnect, Upload, Watch, Turn, Charge, Receive,
       vars
  <2> QED BY <2>1 DEF view, GlassTyped
<1> QED BY <1>1, <1>2, <1>3, <1>5, <1>6, <1>7, <1>8, <1>9, <1>10 DEF Next

LEMMA GlassInvariance == Spec => [](DataInv /\ WorldInv /\ GlassTyped)
<1>1. DataInv /\ WorldInv /\ GlassTyped /\ [Next]_vars => GlassTyped'
  BY GlassTypedKept
<1> QED BY DataInvariance, GlassTypedInit, <1>1, PTL DEF Spec

\* A reported window is over when its bar is drawn empty.
LEMMA PctIsOver ==
  ASSUME NEW s \in Reported, NEW now \in Nat
  PROVE  V!Pct(s, now) = IF Over(s, now) THEN 0 ELSE s.used
BY ReportedTyped DEF V!Pct, V!Synced, V!EffectiveReset, Over

\* From the first tick after a push the bars show the usage the host meant, or
\* nothing once its window is over (render_snapshot_locked).
THEOREM ShownIsMeantHolds == Spec => []ShownIsMeant
<1>1. ASSUME DataInv, GlassTyped PROVE ShownIsMeant
  <2> SUFFICES ASSUME fresh, OnShow, NEW i \in DOMAIN screen.rows
               PROVE  LET s == meant[screen.agent].sessions[i]
                      IN  screen.rows[i].pct = IF Over(s, screen.at) THEN 0 ELSE s.used
    BY DEF ShownIsMeant
  <2>1. PICK q : q = meant[screen.agent].sessions
    OBVIOUS
  <2>2. q \in Seq(Reported)
    <3>1. V!Stored(screen.agent) /\ StoreSound
      BY <1>1 DEF DataInv, PaintSound
    <3>2. meant[screen.agent] \in Held
      BY <3>1, StoredIs
    <3> QED BY <2>1, <3>2 DEF Held
  <2>3. i \in DOMAIN q /\ screen.rows[i].pct = V!Pct(q[i], screen.at)
    BY <1>1, <2>1 DEF DataInv, PaintSound
  <2>4. q[i] \in Reported /\ screen.at \in Nat
    <3>1. q[i] \in Reported
      BY <2>2, <2>3
    <3>2. screen.at \in Nat
      BY <1>1, Zenon DEF GlassTyped, V!Screens
    <3> QED BY <3>1, <3>2
  <2>5. screen.rows[i].pct = IF Over(q[i], screen.at) THEN 0 ELSE q[i].used
    BY <2>3, <2>4, PctIsOver
  <2> QED BY <2>1, <2>5
<1> QED BY GlassInvariance, <1>1, PTL

-----------------------------------------------------------------------------
(* The types of the rest.                                                  *)

WifiTyped ==
  /\ creds \in W!Networks
  /\ mode \in {"off", "sta", "ap"}
  /\ link \in {"idle", "trying", "joined", "leased"}
  /\ timer \in 0..30 /\ backoff \in 1..30
  /\ hadIp \in BOOLEAN /\ portal \in {"open", "saved"} /\ stranded \in BOOLEAN

LEMMA ResetTyped ==
  ASSUME creds \in W!Networks, creds' \in W!Networks, W!Reset
  PROVE  WifiTyped'
<1>1. mode' = "off" /\ link' = "idle" /\ timer' = 0 /\ backoff' = 1 /\ hadIp' = FALSE
      /\ portal' = "open" /\ stranded' = FALSE
  BY DEF W!Reset
<1>2. timer' \in 0..30 /\ backoff' \in 1..30
  BY <1>1
<1> QED BY <1>1, <1>2 DEF WifiTyped

LEMMA WifiTypedKept ==
  ASSUME WifiTyped, [Next]_vars
  PROVE  WifiTyped'
<1>s. /\ "none" \in W!Networks
      /\ \A f : W!Network(f) \in W!Networks
  BY DEF W!Networks, W!Network
<1>1. CASE PowerCycle \/ PortalRestart \/ PressRestart \/ UpdateRestart
  BY <1>1, ResetTyped DEF PowerCycle, PortalRestart, PressRestart, UpdateRestart,
     Restart, WifiTyped
<1>2. CASE \E read, sampled \in BOOLEAN : Boot(read, sampled)
  BY <1>2 DEF Boot, W!StartStation, W!StartPortal, W!ramVars, WifiTyped
<1>3. CASE RadioAnswers \/ RadioFails
  BY <1>3 DEF RadioAnswers, RadioFails, W!Associate, W!Lease, W!Disconnect, W!ramVars,
     WifiTyped
<1>4. ASSUME NEW called \in BOOLEAN, Reconnect(called) PROVE WifiTyped'
  BY <1>4 DEF Reconnect, W!Reconnect, WifiTyped
<1>5. CASE EventLoop
  <2>1. CASE Started \/ Ignored \/ GotIp
    <3>1. UNCHANGED <<creds, mode, timer, portal, stranded>>
      BY <2>1 DEF Started, Ignored, GotIp, W!Started, W!Ignored, W!GotIp, W!ramVars
    <3>2. link' \in {"trying", link} /\ backoff' \in {1, backoff} /\ hadIp' \in {TRUE, hadIp}
      BY <2>1 DEF Started, Ignored, GotIp, W!Started, W!Ignored, W!GotIp, W!ramVars
    <3>3. backoff' \in 1..30
      BY <3>2 DEF WifiTyped
    <3>4. hadIp' \in BOOLEAN /\ link' \in {"idle", "trying", "joined", "leased"}
      BY <3>2 DEF WifiTyped
    <3> QED BY <3>1, <3>3, <3>4 DEF WifiTyped
  <2>2. ASSUME NEW e \in {"REFUSED", "DROPPED"}, NEW ok \in BOOLEAN, Lost(e, ok)
        PROVE  WifiTyped'
    <3>1. W!Retry(e, ok)
      BY <2>2 DEF Lost
    <3>2. timer' \in 0..30 /\ stranded' \in BOOLEAN
      BY <3>1 DEF W!Retry, W!Scheduled, WifiTyped
    <3>3. backoff' \in 1..30
      BY <3>1 DEF W!Retry, W!NextBackoff, WifiTyped
    <3> QED BY <3>1, <3>2, <3>3 DEF W!Retry, WifiTyped
  <2>3. ASSUME NEW e \in {"REFUSED", "DROPPED"}, NEW ok \in BOOLEAN, GiveUp(e, ok)
        PROVE  WifiTyped'
    BY <1>s, <2>3, ResetTyped DEF GiveUp, W!GiveUp, WifiTyped
  <2>4. CASE Restore
    BY <2>4 DEF Restore, wifi, WifiTyped
  <2> QED BY <1>5, <2>1, <2>2, <2>3, <2>4 DEF EventLoop
<1>6. ASSUME NEW f \in W!Forms, Save(f) PROVE WifiTyped'
  <2>1. creds' \in W!Networks
    BY <1>6, <1>s DEF Save, W!Save, W!SaveNow
  <2>2. CASE \E started \in BOOLEAN : W!Save(f, started)
    BY <2>1, <2>2 DEF W!Save, WifiTyped
  <2>3. CASE W!SaveNow(f)
    BY <2>1, <2>3, ResetTyped DEF W!SaveNow, WifiTyped
  <2> QED BY <1>6, <2>2, <2>3 DEF Save
<1>7. ASSUME NEW erased \in BOOLEAN, Press(erased) PROVE WifiTyped'
  BY <1>7, <1>s DEF Press, WifiTyped
<1>8. CASE \/ Serve \/ Upload \/ Watch \/ Turn \/ Charge \/ Clock \/ UNCHANGED vars
           \/ \E r \in Requests : Receive(r)
           \/ \E read, sampled \in BOOLEAN : Tick(read, sampled)
  <2>1. UNCHANGED wifi
    BY <1>8 DEF Serve, Upload, Watch, Turn, Charge, Clock, Receive, Tick, vars
  <2> QED BY <2>1 DEF wifi, WifiTyped
<1> QED BY <1>1, <1>2, <1>3, <1>4, <1>5, <1>6, <1>7, <1>8 DEF Next

\* The picture.
LEMMA RotationTyped ==
  ASSUME NEW axis \in T!Axes
  PROVE  T!RotationOf(axis) \in T!Rotations
BY DEF T!Axes, T!RotationOf, T!Rotation143, T!Rotation175, T!Rotations

LEMMA PoseTyped ==
  ASSUME T!TypeOK,
         \/ T!Reset \/ T!Sample \/ T!Skip \/ \E r \in Readings : T!Turn(r)
         \/ UNCHANGED posture
  PROVE  T!TypeOK'
<1>1. "X_POS" \in T!Axes
  BY DEF T!Axes
<1>2. Debounce \in Nat /\ Debounce > 0
  BY FirmwareAssumption
<1>3. T!Longer \in 0..Debounce
  BY <1>2 DEF T!Longer, T!TypeOK
<1>4. CASE T!Reset
  BY <1>1, <1>2, <1>4, RotationTyped DEF T!Reset, T!TypeOK
<1>5. CASE T!Sample
  <2>1. T!Proposed(pose) \in T!Axes
    BY DEF T!Proposed, T!AxisOf, T!TypeOK, T!Axes
  <2> QED BY <1>2, <1>3, <1>5, <2>1, RotationTyped DEF T!Sample, T!TypeOK
<1>6. CASE T!Skip
  BY <1>3, <1>6 DEF T!Skip, T!TypeOK
<1>7. CASE (\E r \in Readings : T!Turn(r)) \/ UNCHANGED posture
  BY <1>7 DEF T!Turn, T!TypeOK, posture
<1> QED BY <1>4, <1>5, <1>6, <1>7

LEMMA PoseSteps ==
  [Next]_vars =>
    \/ T!Reset \/ T!Sample \/ T!Skip \/ \E r \in Readings : T!Turn(r)
    \/ UNCHANGED posture
<1> SUFFICES ASSUME [Next]_vars
             PROVE  \/ T!Reset \/ T!Sample \/ T!Skip \/ \E r \in Readings : T!Turn(r)
                    \/ UNCHANGED posture
  OBVIOUS
<1>1. CASE PowerCycle \/ PortalRestart \/ PressRestart \/ UpdateRestart
  BY <1>1 DEF PowerCycle, PortalRestart, PressRestart, UpdateRestart, Restart, Down
<1>2. CASE Watch \/ Turn
  BY <1>2 DEF Watch, Turn
<1>3. CASE EventLoop \/ \E f \in W!Forms : Save(f)
  BY <1>3 DEF EventLoop, Started, Ignored, Lost, GiveUp, GotIp, Restore, Save, Down
<1>4. CASE \/ \E read, sampled \in BOOLEAN : Boot(read, sampled)
           \/ RadioAnswers \/ RadioFails
           \/ \E called \in BOOLEAN : Reconnect(called)
           \/ \E erased \in BOOLEAN : Press(erased)
           \/ \E r \in Requests : Receive(r)
  BY <1>4 DEF Boot, RadioAnswers, RadioFails, Reconnect, Press, Receive
<1>5. CASE \/ Serve \/ Upload \/ Charge \/ Clock \/ UNCHANGED vars
           \/ \E read, sampled \in BOOLEAN : Tick(read, sampled)
  BY <1>5 DEF Serve, Upload, Charge, Clock, Tick, vars
<1> QED BY <1>1, <1>2, <1>3, <1>4, <1>5 DEF Next

\* What the label was painted for.
LEMMA ShownTyped ==
  ASSUME shown \in B!Shown, BatteryInv', valid' \in BOOLEAN, BatteryStep
  PROVE  shown' \in B!Shown
<1>1. B!NeverShown \in B!Shown
  BY DEF B!NeverShown, B!Shown
<1>2. ASSUME NEW b \in B!Packs, NEW v \in BOOLEAN
      PROVE  B!Appearance(b, v) \in B!Shown
  <2>1. B!Clamped(b.percent) \in 0..100
    <3>1. b.percent \in 0..100 \/ b.percent = -1
      <4>1. b.percent \in Levels \cup {-1}
        BY DEF B!Packs, B!Status
      <4> QED BY <4>1, FirmwareAssumption
    <3>2. ASSUME NEW n \in Int, n \in 0..100 \/ n = -1 PROVE B!Clamped(n) \in 0..100
      BY <3>2 DEF B!Clamped
    <3> QED BY <3>1, <3>2
  <2>2. b.present \in BOOLEAN /\ b.charging \in BOOLEAN /\ b.vbus \in BOOLEAN
    BY DEF B!Packs, B!Status
  <2> QED BY <2>1, <2>2 DEF B!Appearance, B!Shown
<1>3. shown' \in {shown, B!NeverShown} \/ shown' = B!Appearance(reading', valid')
  BY DEF BatteryStep, battery, B!Reset, B!Boot, B!Tick, B!Show, B!Change, B!Applied
<1> QED BY <1>1, <1>2, <1>3 DEF BatteryInv

LEMMA FlagsTyped ==
  ASSUME {button, misread, overtaken} \subseteq BOOLEAN, [Next]_vars
  PROVE  {button', misread', overtaken'} \subseteq BOOLEAN
<1>1. CASE PowerCycle \/ PortalRestart \/ PressRestart \/ UpdateRestart
  BY <1>1 DEF PowerCycle, PortalRestart, PressRestart, UpdateRestart, Restart, Down
<1>2. CASE EventLoop \/ \E f \in W!Forms : Save(f)
  BY <1>2 DEF EventLoop, Started, Ignored, Lost, GiveUp, GotIp, Restore, Save, Down, push
<1>3. CASE \/ \E read, sampled \in BOOLEAN : Boot(read, sampled)
           \/ RadioAnswers \/ RadioFails
           \/ \E called \in BOOLEAN : Reconnect(called)
           \/ \E erased \in BOOLEAN : Press(erased)
  BY <1>3 DEF Boot, RadioAnswers, RadioFails, Reconnect, Press, push
<1>4. ASSUME NEW r \in Requests, Receive(r)
      PROVE  {button', misread', overtaken'} \subseteq BOOLEAN
  <2>1. misread' \in BOOLEAN /\ UNCHANGED <<button, overtaken>>
    BY <1>4 DEF Receive
  <2> QED BY <2>1
<1>5. CASE Serve
  BY <1>5 DEF Serve, Admit, Store, Show, Confirm
<1>6. CASE \/ Upload \/ Watch \/ Turn \/ Charge \/ Clock \/ UNCHANGED vars
           \/ \E read, sampled \in BOOLEAN : Tick(read, sampled)
  BY <1>6 DEF Upload, Watch, Turn, Charge, Clock, Tick, vars, push
<1> QED BY <1>1, <1>2, <1>3, <1>4, <1>5, <1>6 DEF Next

RestTyped == /\ WifiTyped /\ T!TypeOK /\ shown \in B!Shown
             /\ {button, misread, overtaken} \subseteq BOOLEAN

LEMMA RestTypedInit == Init => RestTyped
<1> SUFFICES ASSUME Init PROVE RestTyped
  OBVIOUS
<1>1. WifiTyped
  <2>1. W!Init
    BY DEF Init
  <2>2. timer = 0 /\ backoff = 1
    BY <2>1 DEF W!Init
  <2>3. timer \in 0..30 /\ backoff \in 1..30
    BY <2>2
  <2> QED BY <2>1, <2>3 DEF W!Init, WifiTyped
<1>2. T!TypeOK
  <2>1. T!Init /\ "X_POS" \in T!Axes
    BY DEF Init, T!Axes
  <2>2. waited \in 0..Debounce
    BY <2>1, FirmwareAssumption DEF T!Init
  <2> QED BY <2>1, <2>2, RotationTyped DEF T!Init, T!TypeOK
<1>3. shown \in B!Shown
  <2>1. shown = B!NeverShown
    BY DEF Init, B!Init
  <2> QED BY <2>1 DEF B!NeverShown, B!Shown
<1>4. {button, misread, overtaken} \subseteq BOOLEAN
  BY DEF Init
<1> QED BY <1>1, <1>2, <1>3, <1>4 DEF RestTyped

LEMMA RestTypedKept ==
  ASSUME RestTyped, BattInv, [Next]_vars
  PROVE  RestTyped'
<1>1. WifiTyped'
  BY WifiTypedKept DEF RestTyped
<1>2. T!TypeOK'
  BY PoseTyped, PoseSteps DEF RestTyped
<1>3. BattInv' /\ BatteryStep
  BY BattKept, BatterySteps DEF BattInv
<1>4. (shown \in B!Shown)'
  BY <1>3, ShownTyped DEF RestTyped, BattInv
<1>5. {button', misread', overtaken'} \subseteq BOOLEAN
  BY FlagsTyped DEF RestTyped
<1> QED BY <1>1, <1>2, <1>4, <1>5 DEF RestTyped

LEMMA RestInvariance == Spec => [](RestTyped /\ BattInv /\ NetInv)
<1>1. Init => RestTyped /\ BattInv /\ NetInv
  BY RestTypedInit, BattInit, NetInit
<1>2. RestTyped /\ BattInv /\ NetInv /\ [Next]_vars => (RestTyped /\ BattInv /\ NetInv)'
  BY RestTypedKept, BattKept, NetKept
<1> QED BY <1>1, <1>2, PTL DEF Spec

LEMMA ViewTyped ==
  ASSUME DataInv, GlassTyped
  PROVE  V!TypeOK
<1>1. \A x \in Reported : x \in V!Sessions
  <2> SUFFICES ASSUME NEW x \in Reported PROVE x \in V!Sessions
    OBVIOUS
  <2>1. x.type \in STRING /\ x = [type |-> x.type, used |-> x.used, resets |-> x.resets,
                                  rolling |-> x.rolling, window |-> x.window]
    BY Zenon DEF Reported
  <2>2. x.used \in Int /\ x.resets \in Int /\ x.rolling \in BOOLEAN /\ x.window \in Int
    BY ReportedTyped
  <2> QED BY <2>1, <2>2 DEF V!Sessions
<1>2. \A h \in Held : h \in V!Snapshots
  <2> SUFFICES ASSUME NEW h \in Held PROVE h \in V!Snapshots
    OBVIOUS
  <2>1. h.sessions \in Seq(V!Sessions)
    <3>1. PICK q : q = h.sessions
      OBVIOUS
    <3>2. q \in Seq(Reported)
      BY <3>1 DEF Held
    <3> QED BY <1>1, <3>1, <3>2
  <2> QED BY <2>1 DEF Held, V!Snapshots
<1>3. store \in Seq(V!Snapshots)
  BY <1>2 DEF DataInv, StoreSound
<1> QED BY <1>3 DEF DataInv, RestoreSound, GlassTyped, MaybeOwners, V!TypeOK

\* Every part of the device keeps to its types, with every other part's steps, failed
\* calls and restarts between its own.
THEOREM TypeOKHolds == Spec => []TypeOK
<1>1. ASSUME DataInv, WorldInv, GlassTyped, RestTyped, BattInv, NetInv, OtaInv
      PROVE  TypeOK
  <2>1. W!TypeOK
    <3>1. streak \in 0..AuthFailFallback
      BY <1>1, FirmwareAssumption DEF NetInv, RadioInv
    <3> QED BY <1>1, <3>1 DEF NetInv, RadioInv, RestTyped, WifiTyped, W!TypeOK
  <2>2. V!TypeOK /\ O!TypeOK /\ T!TypeOK
    BY <1>1, ViewTyped DEF OtaInv, RestTyped
  <2>3. B!TypeOK
    BY <1>1 DEF BattInv, BatteryInv, RestTyped, B!Packs, B!TypeOK
  <2>4. /\ http.pc \in {"idle", "admit", "put", "show", "confirm"}
        /\ http.by \in Owners \cup {None}
    BY <1>1 DEF DataInv, PushSound
  <2> QED BY <1>1, <2>1, <2>2, <2>3, <2>4 DEF WorldInv, RestTyped, TypeOK
<1> QED BY GlassInvariance, RestInvariance, OtaInvariance, <1>1, PTL

-----------------------------------------------------------------------------
(* NetworkShown is inductive.                                              *)

LEMMA SplashTells ==
  ASSUME NEW text, Splash(text)
  PROVE  ~OnShow /\ screen.agent = None /\ screen.text = text
BY DEF Splash, V!Splash, OnShow

LEMMA PostPending ==
  ASSUME RadioInv, NEW e \in W!WifiEvents, W!Post(e)
  PROVE  \A f : Pending(f)' <=> Pending(f) \/ f = e
<1>1. events \in Seq(W!WifiEvents) /\ events' = Append(events, e)
  BY DEF RadioInv, W!Post
<1>2. PICK n : n = Len(events')
  OBVIOUS
<1>3. /\ \A i \in DOMAIN events : events'[i] = events[i]
      /\ events'[n] = e
      /\ DOMAIN events' = DOMAIN events \cup {n}
  BY <1>1, <1>2, AppendEvent
<1> QED BY <1>3 DEF Pending

LEMMA TakePending ==
  ASSUME RadioInv, events # <<>>, events' = Tail(events)
  PROVE  /\ Pending(Head(events))
         /\ \A f : /\ Pending(f)' => Pending(f)
                   /\ Pending(f) /\ f # Head(events) => Pending(f)'
<1>1. events \in Seq(W!WifiEvents)
  BY DEF RadioInv
<1>2. PICK h : h = Head(events)
  OBVIOUS
<1>3. /\ \A i \in DOMAIN events' : i + 1 \in DOMAIN events /\ events'[i] = events[i + 1]
      /\ \A i \in DOMAIN events : i = 1 \/ i - 1 \in DOMAIN events'
      /\ h = events[1] /\ 1 \in DOMAIN events
  BY <1>1, <1>2, TakeEvent
<1>4. Pending(h)
  BY <1>3 DEF Pending
<1>5. \A f : Pending(f)' => Pending(f)
  BY <1>3 DEF Pending
<1>6. ASSUME NEW f, Pending(f), f # h PROVE Pending(f)'
  <2>1. PICK i \in DOMAIN events : events[i] = f
    BY <1>6 DEF Pending
  <2>2. i # 1 /\ i \in Nat
    BY <1>1, <1>3, <1>6, <2>1
  <2>3. PICK j : j = i - 1
    OBVIOUS
  <2>4. j \in DOMAIN events' /\ j + 1 = i
    BY <1>3, <2>2, <2>3
  <2>5. events'[j] = f
    BY <1>3, <2>1, <2>4
  <2> QED BY <2>4, <2>5 DEF Pending
<1> QED BY <1>2, <1>4, <1>5, <1>6

\* Behind the end of an attempt, and behind the start, nothing is queued.
LEMMA LastTaken ==
  ASSUME RadioInv, NEW e \in {"REFUSED", "DROPPED", "STA_START"}, W!Delivered(e)
  PROVE  /\ Pending(e) /\ link = "idle" /\ timer = 0
         /\ \A f : ~Pending(f)'
<1>1. events \in Seq(W!WifiEvents) /\ events # <<>> /\ events' = Tail(events)
      /\ Head(events) = e
  BY DEF RadioInv, W!Delivered
<1>2. 1 \in DOMAIN events /\ events[1] = e
  BY <1>1
<1>3. Pending(e)
  BY <1>2 DEF Pending
<1>4. Len(events) = 1 /\ link = "idle" /\ timer = 0
  BY <1>2, <1>3 DEF RadioInv, LastWord
<1>5. DOMAIN events' = {}
  BY <1>1, <1>4
<1> QED BY <1>3, <1>4, <1>5 DEF Pending

\* Nothing that the screen depends on changes, except how far a push has come.
LEMMA ShownKept ==
  ASSUME NetworkShown,
         UNCHANGED <<mode, hadIp, events, link, timer, backoff, store, screen, restore,
                     overtaken>>,
         http' # NoPush => hadIp,
         At("show") => At("show")'
  PROVE  NetworkShown'
BY DEF NetworkShown, ModeSound, BeforeSound, AddressSound, WaitSound, LeasedSound,
   LostSound, Busy, Pending, Splash, OnShow, At, V!Restoring

LEMMA ShownDown ==
  ASSUME NEW power \in BOOLEAN, W!Reset, Down(power)
  PROVE  NetworkShown'
<1>1. /\ mode' = "off" /\ link' = "idle" /\ events' = <<>> /\ timer' = 0 /\ backoff' = 1
      /\ hadIp' = FALSE
  BY DEF W!Reset
<1>2. store' = <<>> /\ restore'.pc = "idle" /\ http' = NoPush
  BY DEF Down, V!Reset, V!NotRestoring
<1>3. \A f : ~Pending(f)'
  BY <1>1 DEF Pending
<1>4. (~V!Restoring)'
  BY <1>2 DEF V!Restoring
<1> QED BY <1>1, <1>2, <1>3, <1>4 DEF NetworkShown, ModeSound, BeforeSound, AddressSound,
           WaitSound, LeasedSound, LostSound, Busy

LEMMA ShownInit == Init => NetworkShown
<1> SUFFICES ASSUME Init PROVE NetworkShown
  OBVIOUS
<1>1. /\ mode = "off" /\ link = "idle" /\ events = <<>> /\ timer = 0 /\ backoff = 1
      /\ hadIp = FALSE
  BY DEF Init, W!Init
<1>2. store = <<>> /\ restore.pc = "idle" /\ http = NoPush
  BY DEF Init, V!Init, V!NotRestoring
<1>3. \A f : ~Pending(f)
  BY <1>1 DEF Pending
<1>4. ~V!Restoring
  BY <1>2 DEF V!Restoring
<1> QED BY <1>1, <1>2, <1>3, <1>4 DEF NetworkShown, ModeSound, BeforeSound, AddressSound,
           WaitSound, LeasedSound, LostSound, Busy

LEMMA ShownBoot ==
  ASSUME NetworkShown, OffQuiet, NEW read \in BOOLEAN, NEW sampled \in BOOLEAN,
         Boot(read, sampled)
  PROVE  NetworkShown'
<1>1. /\ mode = "off" /\ link = "idle" /\ timer = 0 /\ restore.pc = "idle"
      /\ http = NoPush /\ ~hadIp /\ backoff = 1 /\ store = <<>>
  BY DEF Boot, OffQuiet, NetworkShown, ModeSound, BeforeSound
<1>2. UNCHANGED <<link, timer, restore, http, hadIp, backoff, store>>
  BY DEF Boot, W!StartStation, W!StartPortal, W!ramVars, V!ShowStatus, push
<1>3. (~V!Restoring)'
  BY <1>1, <1>2 DEF V!Restoring
<1>4. CASE mode' = "sta" /\ events' = <<"STA_START">> /\ screen' = V!Splash("Connecting...")
  <2>1. (~Pending("GOT_IP") /\ ~Busy)'
    BY <1>4 DEF Pending, Busy
  <2> QED BY <1>1, <1>2, <1>3, <1>4, <2>1 DEF NetworkShown, ModeSound, BeforeSound,
             AddressSound, WaitSound, LeasedSound, LostSound, Splash, V!Restoring
<1>5. CASE mode' = "ap" /\ events' = <<"AP_START">> /\ screen' = V!Splash("Setup mode")
  <2>0. \A i \in DOMAIN events' : events'[i] = "AP_START"
    <3>1. PICK e : e = "AP_START"
      OBVIOUS
    <3>2. events' = <<e>>
      BY <1>5, <3>1
    <3>3. DOMAIN events' = {1} /\ events'[1] = e
      BY <3>2
    <3> QED BY <3>1, <3>3
  <2>1. (~Pending("GOT_IP") /\ ~Busy /\ ~Pending("STA_START"))'
    BY <2>0 DEF Pending, Busy
  <2> QED BY <1>1, <1>2, <1>3, <1>5, <2>1 DEF NetworkShown, ModeSound, BeforeSound,
             AddressSound, WaitSound, LeasedSound, LostSound, Splash, V!Restoring
<1> QED BY <1>4, <1>5 DEF Boot, W!StartStation, W!StartPortal, V!ShowStatus

LEMMA ShownRadio ==
  ASSUME NetworkShown, RadioInv, RadioAnswers \/ RadioFails
  PROVE  NetworkShown'
<1>1. PICK e \in W!WifiEvents :
        /\ W!Post(e)
        /\ \/ W!Associate /\ e = "STA_CONNECTED"
           \/ W!Lease /\ e = "GOT_IP"
           \/ e \in {"REFUSED", "DROPPED"} /\ W!Disconnect(e)
  BY DEF RadioAnswers, RadioFails, W!Associate, W!Lease, W!Disconnect, W!WifiEvents
<1>2. \A f : Pending(f)' <=> Pending(f) \/ f = e
  BY <1>1, PostPending
<1>3. /\ UNCHANGED <<store, screen, restore, http, overtaken>>
      /\ UNCHANGED <<mode, timer, backoff, hadIp>>
      /\ link # "idle" /\ mode = "sta"
  BY <1>1 DEF RadioAnswers, RadioFails, view, push, W!Associate, W!Lease, W!Disconnect,
     W!ramVars, NetworkShown, ModeSound
<1>4. CASE W!Associate /\ e = "STA_CONNECTED"
  <2>1. link = "trying" /\ link' = "joined"
    BY <1>4 DEF W!Associate
  <2> QED BY <1>2, <1>3, <1>4, <2>1 DEF NetworkShown, ModeSound, BeforeSound, AddressSound,
             WaitSound, LeasedSound, LostSound, Busy, Splash, OnShow, V!Restoring
<1>5. CASE W!Lease /\ e = "GOT_IP"
  <2>1. link' = "leased"
    BY <1>5 DEF W!Lease
  <2> QED BY <1>2, <1>3, <1>5, <2>1 DEF NetworkShown, ModeSound, BeforeSound, AddressSound,
             WaitSound, LeasedSound, LostSound, Busy, Splash, OnShow, V!Restoring
<1>6. CASE e \in {"REFUSED", "DROPPED"} /\ W!Disconnect(e)
  <2>1. link' = "idle" /\ Busy'
    BY <1>2, <1>6 DEF W!Disconnect, Busy
  <2>2. Pending("STA_START")' => Pending("STA_START")
    BY <1>2, <1>6
  <2> QED BY <1>3, <2>1, <2>2 DEF NetworkShown, ModeSound, BeforeSound, AddressSound,
             WaitSound, LeasedSound, LostSound, Splash, OnShow, V!Restoring
<1> QED BY <1>1, <1>4, <1>5, <1>6

LEMMA ShownReconnect ==
  ASSUME NetworkShown, RadioInv, NEW called \in BOOLEAN, Reconnect(called)
  PROVE  NetworkShown'
<1>1. /\ timer # 0 /\ timer' = 0 /\ link' \in {"trying", link}
      /\ UNCHANGED <<mode, events, backoff, hadIp>>
      /\ UNCHANGED <<store, screen, restore, http, overtaken>>
  BY DEF Reconnect, W!Reconnect, view, push
<1>2. link = "idle" /\ mode = "sta"
  BY <1>1 DEF RadioInv, NetworkShown, ModeSound
<1>3. \A f : Pending(f)' <=> Pending(f)
  BY <1>1 DEF Pending
<1> QED BY <1>1, <1>2, <1>3 DEF NetworkShown, ModeSound, BeforeSound, AddressSound,
           WaitSound, LeasedSound, LostSound, Busy, Splash, OnShow, V!Restoring

LEMMA ShownLoop ==
  ASSUME NetworkShown, DataInv, RadioInv, EventLoop
  PROVE  NetworkShown'
<1>1. CASE Started
  <2>1. /\ W!Delivered("STA_START") /\ link' = "trying" /\ ~V!Restoring
        /\ UNCHANGED <<mode, timer, backoff, hadIp>>
        /\ screen' = V!Splash("Connecting...")
        /\ UNCHANGED <<store, restore, http, overtaken>>
    BY <1>1 DEF Started, Ready, W!Started, W!ramVars, V!ShowStatus, push
  <2>2. Pending("STA_START") /\ \A f : ~Pending(f)'
    BY <2>1, LastTaken
  <2>3. mode = "sta" /\ ~hadIp /\ backoff = 1 /\ store = <<>>
    BY <2>2 DEF NetworkShown, ModeSound, BeforeSound
  <2> QED BY <2>1, <2>2, <2>3 DEF NetworkShown, ModeSound, BeforeSound, AddressSound,
             WaitSound, LeasedSound, LostSound, Busy, Splash, V!Restoring
<1>2. CASE Ignored
  <2>1. /\ events # <<>> /\ events' = Tail(events)
        /\ Head(events) \in {"STA_CONNECTED", "AP_START"}
        /\ UNCHANGED <<mode, link, timer, backoff, hadIp>>
        /\ UNCHANGED <<store, screen, restore, http, overtaken>>
    BY <1>2 DEF Ignored, W!Ignored, W!ramVars, view, push
  <2>2. \A f \in {"GOT_IP", "REFUSED", "DROPPED", "STA_START"} : Pending(f)' <=> Pending(f)
    BY <2>1, TakePending
  <2>3. /\ Pending("GOT_IP")' <=> Pending("GOT_IP")
        /\ Pending("STA_START")' <=> Pending("STA_START")
        /\ Busy' <=> Busy
    BY <2>2 DEF Busy
  <2>4. ModeSound' /\ BeforeSound' /\ AddressSound' /\ WaitSound'
    BY <2>1, <2>3 DEF NetworkShown, ModeSound, BeforeSound, AddressSound, WaitSound, Splash,
       V!Restoring
  <2>5. LeasedSound' /\ LostSound'
    BY <2>1, <2>3 DEF NetworkShown, LeasedSound, LostSound, Splash, OnShow, At, V!Restoring
  <2> QED BY <2>4, <2>5 DEF NetworkShown
<1>3. ASSUME NEW e \in {"REFUSED", "DROPPED"}, NEW ok \in BOOLEAN, Lost(e, ok)
      PROVE  NetworkShown'
  <2>1. /\ W!Delivered(e) /\ ~V!Restoring
        /\ UNCHANGED <<mode, link, hadIp>>
        /\ backoff' = W!NextBackoff(backoff)
        /\ screen' = V!Splash(IF hadIp THEN "Reconnecting..." ELSE "WiFi unavailable")
        /\ overtaken' = FALSE
        /\ UNCHANGED <<store, restore, http>>
    BY <1>3 DEF Lost, Ready, W!Retry, V!ShowStatus, push
  <2>2. Pending(e) /\ link = "idle" /\ \A f : ~Pending(f)'
    BY <2>1, LastTaken
  <2>3. mode = "sta"
    BY <2>2 DEF NetworkShown, ModeSound, Busy
  <2>4. backoff' >= 1 /\ backoff' # 1
    <3>1. backoff \in Nat /\ backoff >= 1
      BY DEF RadioInv, NetworkShown, ModeSound
    <3>2. ASSUME NEW n \in Nat, n >= 1
          PROVE  W!NextBackoff(n) >= 1 /\ W!NextBackoff(n) # 1
      BY <3>2 DEF W!NextBackoff
    <3> QED BY <2>1, <3>1, <3>2
  <2>5. (~V!Restoring)' /\ http' = http
    BY <2>1 DEF V!Restoring
  <2>6. ModeSound' /\ AddressSound' /\ WaitSound' /\ LeasedSound'
    <3>1. backoff' >= 1 /\ restore'.pc = "idle"
      BY <2>1, <2>4 DEF V!Restoring
    <3>2. ModeSound'
      BY <2>1, <2>3, <2>5, <3>1 DEF NetworkShown, ModeSound
    <3>3. AddressSound' /\ WaitSound'
      BY <2>2, <2>5, <3>1 DEF AddressSound, WaitSound
    <3>4. LeasedSound'
      BY <2>1, <2>2 DEF LeasedSound
    <3> QED BY <3>2, <3>3, <3>4
  <2>7. BeforeSound'
    <3>1. mode' = "sta" /\ backoff' # 1 /\ store' = store /\ hadIp' = hadIp
      BY <2>1, <2>3, <2>4
    <3>2. ~hadIp => screen' = V!Splash("WiFi unavailable") /\ store = <<>>
      BY <2>1, <2>3 DEF NetworkShown, BeforeSound
    <3> QED BY <2>2, <3>1, <3>2 DEF BeforeSound, Splash
  <2>8. LostSound'
    BY <2>1 DEF LostSound, Splash
  <2> QED BY <2>6, <2>7, <2>8 DEF NetworkShown
<1>4. ASSUME NEW e \in {"REFUSED", "DROPPED"}, NEW ok \in BOOLEAN, GiveUp(e, ok)
      PROVE  NetworkShown'
  BY <1>4, ShownDown DEF GiveUp, W!GiveUp
<1>5. CASE GotIp
  <2>1. /\ events # <<>> /\ events' = Tail(events) /\ Head(events) = "GOT_IP"
        /\ hadIp' = TRUE /\ backoff' = 1 /\ restore'.pc = "count"
        /\ UNCHANGED <<mode, link, timer>>
        /\ UNCHANGED <<store, screen, http, overtaken>>
    BY <1>5 DEF GotIp, W!GotIp, W!Delivered, V!RestoreStart, V!NotRestoring, push
  <2>2. Pending("GOT_IP") /\ \A f \in {"REFUSED", "DROPPED"} : Pending(f)' <=> Pending(f)
    BY <2>1, TakePending
  <2>3. mode = "sta" /\ (link = "leased" \/ Busy)
    BY <2>2 DEF NetworkShown, ModeSound, AddressSound
  <2>4. ~Pending("STA_START")'
    <3>1. ASSUME Pending("STA_START")' PROVE FALSE
      <4>1. PICK i \in DOMAIN events : events[i] = "STA_START"
        BY <2>1, <3>1, TakePending DEF Pending
      <4>2. events \in Seq(W!WifiEvents) /\ Len(events) = 1
        BY <4>1 DEF RadioInv, Pending
      <4>3. events[1] = "STA_START" /\ events[1] = "GOT_IP"
        BY <2>1, <4>1, <4>2
      <4> QED BY <4>3
    <3> QED BY <3>1
  <2>5. V!Restoring'
    BY <2>1 DEF V!Restoring
  <2>6. Busy' <=> Busy
    BY <2>2 DEF Busy
  <2>7. ModeSound' /\ BeforeSound'
    BY <2>1, <2>3, <2>4, <2>5 DEF ModeSound, BeforeSound
  <2>8. AddressSound' /\ WaitSound' /\ LeasedSound' /\ LostSound'
    BY <2>1, <2>3, <2>5, <2>6 DEF AddressSound, WaitSound, LeasedSound, LostSound
  <2> QED BY <2>7, <2>8 DEF NetworkShown
<1>6. CASE Restore
  <2>1. /\ V!Restoring /\ hadIp /\ mode = "sta" /\ (link = "leased" \/ Busy)
        /\ UNCHANGED <<mode, link, events, timer, backoff, hadIp, http>>
        /\ UNCHANGED store
    BY <1>6 DEF Restore, V!Restoring, V!RestoreCount, V!RestoreCopy, V!RestoreWait,
       V!RestoreShow, V!ShowStatus, V!ShowAgent, wifi, push, NetworkShown, ModeSound,
       AddressSound
  <2>2. \A f : Pending(f)' <=> Pending(f)
    BY <2>1 DEF Pending
  <2>3. ModeSound' /\ BeforeSound' /\ AddressSound' /\ LostSound'
    BY <2>1, <2>2 DEF NetworkShown, ModeSound, BeforeSound, AddressSound, LostSound, Busy,
       V!Restoring
  <2>4. CASE V!RestoreCount
    <3>1. restore'.pc = IF store = <<>> THEN "wait" ELSE "copy"
      BY <2>4 DEF DataInv, RestoreSound, V!RestoreCount
    <3> QED BY <2>1, <2>3, <3>1 DEF NetworkShown, WaitSound, LeasedSound, V!Restoring
  <2>5. CASE V!RestoreCopy
    <3>1. restore'.pc = "show"
      BY <2>5 DEF V!RestoreCopy
    <3> QED BY <2>3, <3>1 DEF NetworkShown, WaitSound, LeasedSound, V!Restoring
  <2>6. CASE V!RestoreWait
    <3>1. /\ restore.pc = "wait" /\ restore'.pc = "idle"
          /\ screen' = V!Splash("Waiting for daemon...") /\ UNCHANGED overtaken
      <4>1. restore.pc = "wait" /\ restore'.pc = "idle"
            /\ screen' = V!Splash("Waiting for daemon...")
        BY <2>6 DEF V!RestoreWait, V!NotRestoring, V!ShowStatus
      <4>2. UNCHANGED overtaken
        BY <1>6, <4>1 DEF Restore, V!RestoreCount, V!RestoreShow
      <4> QED BY <4>1, <4>2
    <3>2. store = <<>> \/ overtaken
      BY <3>1 DEF NetworkShown, WaitSound
    <3> QED BY <2>1, <2>3, <3>1, <3>2 DEF NetworkShown, WaitSound, LeasedSound, Splash
  <2>7. ASSUME NEW read \in BOOLEAN, V!RestoreShow(read) PROVE NetworkShown'
    <3>1. restore.pc = "show" /\ restore'.pc = "idle"
      BY <2>7 DEF V!RestoreShow, V!NotRestoring
    <3>2. overtaken' = FALSE
      BY <1>6, <3>1 DEF Restore, V!RestoreCount, V!RestoreCopy, V!RestoreWait
    <3>3. OnShow'
      <4>1. CASE screen.agent = None
        <5>1. V!Loaded(restore.copy, cid, read) /\ fresh' = FALSE /\ UNCHANGED meant
          BY <1>6, <2>7, <4>1 DEF V!RestoreShow, V!ShowAgent, Restore, push
        <5>2. restore.copy \in Held /\ V!Stored(restore.copy.agent)
          BY <3>1 DEF DataInv, RestoreSound
        <5> QED BY <2>1, <5>1, <5>2, LoadedKeeps DEF DataInv
      <4>2. CASE screen.agent # None
        BY <2>7, <4>2 DEF V!RestoreShow, V!ShowAgent, OnShow
      <4> QED BY <4>1, <4>2
    <3> QED BY <2>3, <3>1, <3>2, <3>3 DEF NetworkShown, WaitSound, LeasedSound
  <2> QED BY <1>6, <2>4, <2>5, <2>6, <2>7 DEF Restore
<1> QED BY <1>1, <1>2, <1>3, <1>4, <1>5, <1>6 DEF EventLoop

LEMMA ShownServe ==
  ASSUME NetworkShown, DataInv, Serve
  PROVE  NetworkShown'
<1>1. http # NoPush
  <2>1. http.pc # "idle"
    BY DEF Serve, Admit, Store, Show, Confirm, At
  <2> QED BY <2>1 DEF NoPush
<1>2. hadIp /\ mode = "sta"
  BY <1>1 DEF NetworkShown, ModeSound
<1>3. UNCHANGED <<mode, hadIp, events, link, timer, backoff>>
  BY DEF Serve, wifi
<1>4. \A f : Pending(f)' <=> Pending(f)
  BY <1>3 DEF Pending
<1>5. CASE Admit /\ UNCHANGED overtaken
  <2>1. UNCHANGED <<store, screen, restore>> /\ ~At("show")
    BY <1>5 DEF Admit, V!Bind, view, At
  <2> QED BY <1>2, <1>3, <1>5, <2>1, ShownKept
<1>6. CASE Store
  <2>1. ~At("show")
    BY <1>6 DEF Store, At
  <2>2. CASE UNCHANGED <<view, meant, overtaken>>
    BY <1>2, <1>3, <2>1, <2>2, ShownKept DEF view
  <2>3. CASE /\ V!Put(http.snap) /\ Goto("show")
             /\ overtaken' = (overtaken \/ restore.pc = "wait")
    <3>1. UNCHANGED <<screen, restore>> /\ At("show")'
      BY <2>3 DEF V!Put, Goto, At, DataInv, PushSound
    <3>2. ModeSound' /\ BeforeSound' /\ AddressSound'
      BY <1>2, <1>3, <1>4, <3>1 DEF NetworkShown, ModeSound, BeforeSound, AddressSound,
         Busy, V!Restoring
    <3>3. WaitSound'
      BY <2>3, <3>1 DEF WaitSound
    <3>4. ~V!Restoring => (overtaken' <=> overtaken)
      BY <2>3 DEF V!Restoring
    <3>5. LeasedSound'
      BY <1>3, <1>4, <3>1, <3>4 DEF NetworkShown, LeasedSound, Splash, OnShow, V!Restoring
    <3>6. LostSound'
      <4>1. ASSUME link # "leased", ~Busy PROVE ~V!Restoring
        BY <4>1 DEF NetworkShown, AddressSound
      <4> QED BY <1>3, <1>4, <3>1, <3>4, <4>1 DEF NetworkShown, LostSound, Busy, Splash,
                 OnShow
    <3> QED BY <3>2, <3>3, <3>5, <3>6 DEF NetworkShown
  <2> QED BY <1>6, <2>2, <2>3 DEF Store
<1>7. ASSUME NEW read \in BOOLEAN, Show(read) PROVE NetworkShown'
  <2>1. /\ UNCHANGED <<store, restore, meant>> /\ fresh' = FALSE
        /\ V!ShowAgent(http.snap, read)
        /\ overtaken' = IF screen.agent = None
                        THEN screen.text = "Reconnecting..." \/ restore.pc = "wait"
                        ELSE overtaken
    BY <1>7 DEF Show, V!ShowAgent
  <2>2. OnShow'
    <3>1. CASE screen.agent = None
      <4>1. V!Loaded(http.snap, cid, read)
        BY <2>1, <3>1 DEF V!ShowAgent
      <4>2. http.snap \in Held /\ V!Stored(http.snap.agent)
        BY <1>7 DEF Show, At, DataInv, PushSound
      <4> QED BY <2>1, <4>1, <4>2, LoadedKeeps DEF DataInv
    <3>2. CASE screen.agent # None
      BY <2>1, <3>2 DEF V!ShowAgent, OnShow
    <3> QED BY <3>1, <3>2
  <2>3. ModeSound' /\ BeforeSound' /\ AddressSound'
    BY <1>2, <1>3, <1>4, <2>1 DEF NetworkShown, ModeSound, BeforeSound, AddressSound, Busy,
       V!Restoring
  <2>4. WaitSound'
    BY <2>1 DEF NetworkShown, WaitSound
  <2>5. LeasedSound'
    <3>1. SUFFICES ASSUME (hadIp /\ ~V!Restoring /\ link = "leased" /\ ~Pending("GOT_IP"))'
                   PROVE  ~overtaken'
      BY <2>2 DEF LeasedSound
    <3>2. hadIp /\ ~V!Restoring /\ link = "leased" /\ ~Pending("GOT_IP")
          /\ restore.pc # "wait"
      BY <1>2, <1>3, <1>4, <2>1, <3>1 DEF V!Restoring
    <3>3. CASE OnShow /\ ~overtaken
      BY <2>1, <3>3 DEF OnShow
    <3>4. CASE Splash("Waiting for daemon...")
      <4>1. screen.agent = None /\ screen.text = "Waiting for daemon..."
        BY <3>4, SplashTells
      <4> QED BY <2>1, <3>2, <4>1
    <3> QED BY <3>2, <3>3, <3>4 DEF NetworkShown, LeasedSound
  <2>6. LostSound'
    <3>1. SUFFICES ASSUME link # "leased", ~Busy
                   PROVE  overtaken'
      BY <1>3, <1>4, <2>2 DEF LostSound, Busy
    <3>2. CASE overtaken
      <4>1. OnShow
        BY <1>2, <3>1, <3>2 DEF NetworkShown, LostSound
      <4> QED BY <2>1, <3>2, <4>1 DEF OnShow
    <3>3. CASE ~overtaken
      <4>1. Splash("Reconnecting...")
        BY <1>2, <3>1, <3>3 DEF NetworkShown, LostSound
      <4> QED BY <2>1, <4>1, SplashTells
    <3> QED BY <3>2, <3>3
  <2> QED BY <2>3, <2>4, <2>5, <2>6 DEF NetworkShown
<1>8. ASSUME NEW ok \in BOOLEAN, Confirm(ok), UNCHANGED overtaken PROVE NetworkShown'
  <2>1. UNCHANGED <<store, screen, restore>> /\ ~At("show")
    BY <1>8 DEF Confirm, view, At
  <2> QED BY <1>2, <1>3, <1>8, <2>1, ShownKept
<1> QED BY <1>5, <1>6, <1>7, <1>8 DEF Serve

LEMMA ShownTick ==
  ASSUME NetworkShown, DataInv, NEW read \in BOOLEAN, NEW sampled \in BOOLEAN,
         Tick(read, sampled)
  PROVE  NetworkShown'
<1>1. V!Tick(read) /\ UNCHANGED meant /\ OnShow
  BY DEF Tick, V!Tick, V!TickCyd, V!TickAmoled, OnShow, push
<1>2. OnShow'
  BY <1>1, TickPaints
<1>3. /\ UNCHANGED <<mode, hadIp, events, link, timer, backoff>>
      /\ UNCHANGED <<store, restore, http, overtaken>>
  BY <1>1 DEF Tick, V!Tick, wifi, push
<1>4. \A f : Pending(f)' <=> Pending(f)
  BY <1>3 DEF Pending
<1>5. \A text : ~Splash(text)
  BY <1>1, SplashTells
<1> QED BY <1>2, <1>3, <1>4, <1>5 DEF NetworkShown, ModeSound, BeforeSound, AddressSound,
           WaitSound, LeasedSound, LostSound, Busy, V!Restoring

LEMMA ShownByNext ==
  ASSUME NetworkShown, DataInv, NetInv, [Next]_vars
  PROVE  NetworkShown'
<1>1. CASE PowerCycle \/ PortalRestart \/ PressRestart \/ UpdateRestart
  BY <1>1, ShownDown DEF PowerCycle, PortalRestart, PressRestart, UpdateRestart, Restart
<1>2. CASE \E read, sampled \in BOOLEAN : Boot(read, sampled)
  BY <1>2, ShownBoot DEF NetInv
<1>3. CASE RadioAnswers \/ RadioFails
  BY <1>3, ShownRadio DEF NetInv
<1>4. CASE \E called \in BOOLEAN : Reconnect(called)
  BY <1>4, ShownReconnect DEF NetInv
<1>5. CASE EventLoop
  BY <1>5, ShownLoop DEF NetInv
<1>6. ASSUME NEW f \in W!Forms, Save(f) PROVE NetworkShown'
  <2>1. CASE \E started \in BOOLEAN : W!Save(f, started) /\ UNCHANGED <<view, push, overtaken>>
    <3>1. /\ UNCHANGED <<mode, hadIp, events, link, timer, backoff>>
          /\ UNCHANGED <<store, screen, restore, http, overtaken>>
      BY <2>1 DEF W!Save, view, push
    <3> QED BY <3>1, ShownKept DEF NetworkShown, ModeSound, At
  <2>2. CASE W!SaveNow(f) /\ Down(FALSE)
    BY <2>2, ShownDown DEF W!SaveNow
  <2> QED BY <1>6, <2>1, <2>2 DEF Save
<1>7. CASE Serve
  BY <1>7, ShownServe
<1>8. CASE \E read, sampled \in BOOLEAN : Tick(read, sampled)
  BY <1>8, ShownTick
<1>9. ASSUME NEW r \in Requests, Receive(r) PROVE NetworkShown'
  <2>1. /\ UNCHANGED <<mode, hadIp, events, link, timer, backoff>>
        /\ UNCHANGED <<store, screen, restore, overtaken>>
        /\ hadIp /\ ~At("show")
    BY <1>9 DEF Receive, Online, wifi, view, At, NoPush
  <2> QED BY <2>1, ShownKept
<1>10. ASSUME NEW erased \in BOOLEAN, Press(erased) PROVE NetworkShown'
  <2>1. /\ UNCHANGED <<mode, hadIp, events, link, timer, backoff>>
        /\ UNCHANGED <<store, screen, restore, http, overtaken>>
    BY <1>10 DEF Press, V!Erase, push
  <2> QED BY <2>1, ShownKept DEF NetworkShown, ModeSound, At
<1>11. CASE Upload \/ Watch \/ Turn \/ Charge \/ Clock \/ UNCHANGED vars
  <2>1. /\ UNCHANGED <<mode, hadIp, events, link, timer, backoff>>
        /\ UNCHANGED <<store, screen, restore, http, overtaken>>
    BY <1>11 DEF Upload, Watch, Turn, Charge, Clock, V!Clock, vars, wifi, view, push
  <2> QED BY <2>1, ShownKept DEF NetworkShown, ModeSound, At
<1> QED BY <1>1, <1>2, <1>3, <1>4, <1>5, <1>6, <1>7, <1>8, <1>9, <1>10, <1>11 DEF Next

\* When neither the event loop nor httpd has anything in hand, the screen tells how
\* the network stands, unless one of the two painted over the other
\* (on_wifi_state and on_snapshot of main.c, in every order).
THEOREM ScreenAgreesHolds == Spec => []ScreenAgrees
<1>1. Init => NetworkShown
  BY ShownInit
<1>2. DataInv /\ NetInv /\ NetworkShown /\ [Next]_vars => NetworkShown'
  BY ShownByNext
<1>3. ASSUME DataInv, NetworkShown PROVE ScreenAgrees
  <2> SUFFICES ASSUME Quiet PROVE ScreenAgrees
    BY DEF ScreenAgrees
  <2>1. /\ \A f : ~Pending(f)
        /\ ~V!Restoring /\ http = NoPush /\ mode # "off" /\ ~At("show")
    BY DEF Quiet, Pending, NoPush, At
  <2>2. OnShow => V!Stored(screen.agent) /\ store # <<>>
    BY <1>3, StoredIs DEF DataInv, PaintSound
  <2>3. CASE mode = "ap"
    BY <1>3, <2>3 DEF NetworkShown, BeforeSound, ScreenAgrees
  <2>4. CASE mode = "sta" /\ ~hadIp
    BY <1>3, <2>4 DEF NetworkShown, BeforeSound, ScreenAgrees
  <2>5. CASE mode = "sta" /\ hadIp /\ link = "leased"
    BY <1>3, <2>1, <2>2, <2>5 DEF NetworkShown, LeasedSound, ScreenAgrees
  <2>6. CASE mode = "sta" /\ hadIp /\ link # "leased"
    BY <1>3, <2>1, <2>2, <2>6 DEF NetworkShown, LostSound, Busy, ScreenAgrees
  <2> QED BY <1>3, <2>1, <2>3, <2>4, <2>5, <2>6 DEF NetworkShown, ModeSound
<1> QED BY GlassInvariance, RestInvariance, <1>1, <1>2, <1>3, PTL DEF Spec

=============================================================================
