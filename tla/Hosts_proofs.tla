---------------------------- MODULE Hosts_proofs ----------------------------
(***************************************************************************)
(* What the status of a display is worth, for any displays, addresses and  *)
(* workers, and whatever is lost, restarted or moved meanwhile.            *)
(***************************************************************************)
EXTENDS Hosts, TLAPS

\* A call has a host for each of its targets.
CallFits(q) == DOMAIN call[q].host = DOMAIN call[q].res

\* A health round asks, looks for and pushes to devices of the list it has read.
RoundFits(g) ==
  LET r == round[g] IN
  /\ r.todo \cup r.of \cup r.diverged \cup r.rebind \subseteq DOMAIN r.list
  /\ r.pc \in {"probe", "browse"} => r.failed \subseteq DOMAIN r.list
  /\ r.pc \in {"browse", "verify"} => r.sought \subseteq DOMAIN r.list

Fits  == TypeOK /\ \A q \in Procs : CallFits(q)
Typed == HostsTypeOK /\ Fits /\ \A g \in Servers : RoundFits(g)

\* A result that says ok is a snapshot the display holds, unless another display
\* answered or it has restarted.
Kept(q) ==
  \A d \in DOMAIN call[q].res :
    call[q].res[d] = "ok" /\ d \notin call[q].void => store[d] >= call[q].snap

\* Devices the daemon believes in, wrongly: it has forgotten, with the process that
\* counted them, that the last push to them failed.
Misjudged == {d \in DOMAIN paired \ failing : store[d] < told[d]}

\* There are none any more once this process has delivered something, since the
\* push that did so had all the paired devices for targets.
Targets(q) ==
  /\ call[q].pc \in {"find", "claim"} => Misjudged = {}
  /\ call[q].pc \notin {"idle", "find", "claim"} => Misjudged \subseteq DOMAIN call[q].res

DaemonSound ==
  Codex => /\ pushed # 0 => Misjudged = {}
           /\ \A q \in Procs : Targets(q)
           /\ \A q \in Children : call[q].pc = "idle"

\* Green is for a display that holds what the push recorded last was to bring, of
\* which there is nothing where nothing is attested.
OkIsKept == \A d \in DOMAIN paired : outcome[d] = "ok" => store[d] >= told[d]

Sound ==
  /\ \A q \in Procs : Kept(q)
  /\ OkIsKept
  /\ DaemonSound

IInv == Typed /\ Sound

-----------------------------------------------------------------------------
(* Lists of hosts.                                                         *)

Results == {"todo", "ok", "auth", "transport"}

LEMMA SnapsAreNat ==
  /\ Snaps \subseteq Nat /\ 0 \in Snaps /\ MaxUsage \in Nat
BY FanoutAssumption DEF Snaps

LEMMA MapsAre ==
  ASSUME NEW m \in Maps
  PROVE  /\ DOMAIN m \subseteq Devices /\ m \in [DOMAIN m -> Hosts]
BY DEF Maps

LEMMA NowhereIsMap ==
  /\ Nowhere \in Maps /\ DOMAIN Nowhere = {}
  /\ Nowhere \in UNION {[S -> Results] : S \in SUBSET Devices}
<1>1. Nowhere \in [{} -> Hosts] /\ Nowhere \in [{} -> Results] /\ DOMAIN Nowhere = {}
  BY DEF Nowhere
<1>2. {} \in SUBSET Devices
  OBVIOUS
<1> QED BY <1>1, <1>2 DEF Maps

LEMMA PartOfMap ==
  ASSUME NEW m \in Maps, NEW S \in SUBSET DOMAIN m
  PROVE  [d \in S |-> m[d]] \in Maps
<1>1. [d \in S |-> m[d]] \in [S -> Hosts] /\ S \in SUBSET Devices
  BY MapsAre
<1> QED BY <1>1 DEF Maps

LEMMA VisibleIsMap ==
  ASSUME addr \in [Devices -> Hosts]
  PROVE  Visible \in Maps /\ \A found \in Subsets(Visible) : found \in Maps
<1>1. Visible \in [{e \in Devices : up[e]} -> Hosts]
  BY DEF Visible
<1>2. Visible \in Maps
  BY <1>1 DEF Maps
<1> QED BY <1>2, PartOfMap DEF Subsets

LEMMA MovedIsMap ==
  ASSUME NEW list \in Maps, NEW found \in Maps, NEW sought
  PROVE  Moved(list, found, sought) \in Maps /\ DOMAIN Moved(list, found, sought) = DOMAIN list
<1>1. Moved(list, found, sought) \in [DOMAIN list -> Hosts]
  BY MapsAre DEF Moved
<1> QED BY <1>1, MapsAre DEF Maps

LEMMA SharingIsPart ==
  ASSUME NEW list \in Maps
  PROVE  Sharing(list) \subseteq DOMAIN list /\ Sharing(list) \subseteq Devices
BY MapsAre DEF Sharing

LEMMA IdleIsCall ==
  /\ Idle \in Calls /\ Idle.pc = "idle" /\ DOMAIN Idle.host = DOMAIN Idle.res
  /\ DOMAIN Idle.res = {} /\ Idle.void = {} /\ Idle.snap = 0
BY NowhereIsMap, SnapsAreNat DEF Idle, Calls, Results

LEMMA CallIs ==
  ASSUME NEW c \in Calls
  PROVE  /\ c.snap \in Snaps /\ c.host \in Maps /\ c.res \in [DOMAIN c.res -> Results]
         /\ DOMAIN c.res \subseteq Devices
         /\ c.sought \subseteq Devices /\ c.unverified \subseteq Devices
         /\ c.void \subseteq Devices
BY DEF Calls, Results

LEMMA ResIs ==
  ASSUME NEW S \in SUBSET Devices, NEW f \in [S -> Results]
  PROVE  f \in UNION {[T -> Results] : T \in SUBSET Devices}
OBVIOUS

-----------------------------------------------------------------------------
(* The calls keep their types.                                             *)

\* A step of q: its call becomes c, those of the others stay.
LEMMA CallBecomes ==
  ASSUME Fits, NEW q \in Procs, NEW c \in Calls, DOMAIN c.host = DOMAIN c.res,
         call' = [call EXCEPT ![q] = c],
         store' \in [Devices -> Snaps], slot' \in [Devices -> {"none", "us", "other"}],
         UNCHANGED <<up, addr, usage>>, paired' \in Maps,
         outcome' \in [Devices -> {"none", "ok", "failed"}],
         cool' \subseteq Devices, told' \in [Devices -> Snaps]
  PROVE  /\ Fits' /\ call'[q] = c
         /\ \A p \in Procs \ {q} : call'[p] = call[p]
BY DEF Fits, TypeOK, CallFits

LEMMA CallMoves ==
  ASSUME Fits, NEW q \in Procs, NEW c \in Calls, DOMAIN c.host = DOMAIN c.res,
         call' = [call EXCEPT ![q] = c],
         UNCHANGED <<world, outcome, told>>, paired' \in Maps, cool' \subseteq Devices
  PROVE  /\ Fits' /\ call'[q] = c
         /\ \A p \in Procs \ {q} : call'[p] = call[p]
BY CallBecomes DEF Fits, TypeOK, world

Fresh(s, hosts) == [Idle EXCEPT !.pc = "send", !.snap = s, !.host = hosts,
                                !.res = [d \in DOMAIN hosts |-> "todo"]]

LEMMA FreshIs ==
  ASSUME NEW s \in Snaps, NEW hosts \in Maps
  PROVE  /\ Fresh(s, hosts) \in Calls
         /\ Fresh(s, hosts).pc = "send"
         /\ DOMAIN Fresh(s, hosts).host = DOMAIN Fresh(s, hosts).res
         /\ DOMAIN Fresh(s, hosts).res = DOMAIN hosts
         /\ \A d \in DOMAIN hosts : Fresh(s, hosts).res[d] = "todo"
<1>1. [d \in DOMAIN hosts |-> "todo"] \in UNION {[T -> Results] : T \in SUBSET Devices}
  BY MapsAre, ResIs DEF Results
<1> QED BY <1>1, IdleIsCall DEF Fresh, Idle, Calls, Results

LEMMA CallingFits ==
  ASSUME Fits, NEW q \in Procs, NEW s \in Snaps, NEW hosts \in Maps, Calling(q, s, hosts),
         UNCHANGED <<world, outcome, told>>, paired' \in Maps, cool' \subseteq Devices
  PROVE  /\ Fits'
         /\ \A p \in Procs \ {q} : call'[p] = call[p]
         /\ \A d \in DOMAIN call'[q].res : call'[q].res[d] = "todo"
         /\ call'[q].pc = "send" /\ DOMAIN call'[q].res = DOMAIN hosts
<1>1. call' = [call EXCEPT ![q] = Fresh(s, hosts)]
  BY DEF Calling, Fresh
<1>2. Fresh(s, hosts) \in Calls /\ DOMAIN Fresh(s, hosts).host = DOMAIN Fresh(s, hosts).res
  BY FreshIs
<1>3. Fits' /\ call'[q] = Fresh(s, hosts) /\ \A p \in Procs \ {q} : call'[p] = call[p]
  BY <1>1, <1>2, CallMoves
<1> QED BY <1>3, FreshIs

\* A new call begins.
LEMMA StartFits ==
  ASSUME Fits, NEW q \in Procs, NEW s \in Snaps, Start(q, s), UNCHANGED <<world, cache, told>>
  PROVE  /\ Fits'
         /\ \A p \in Procs \ {q} : call'[p] = call[p]
         /\ \A d \in DOMAIN call'[q].res : call'[q].res[d] = "todo"
         /\ \/ call'[q].pc = "send" /\ DOMAIN call'[q].res = DOMAIN paired
            \/ call'[q].pc = "find" /\ DOMAIN paired = {}
<1>1. paired \in Maps /\ UNCHANGED <<outcome, told>> /\ paired' \in Maps /\ cool' \subseteq Devices
  BY DEF Fits, TypeOK, cache
<1>2. CASE DOMAIN paired # {}
  BY <1>1, <1>2, CallingFits DEF Start
<1>3. CASE DOMAIN paired = {}
  <2> DEFINE c == [Idle EXCEPT !.pc = "find", !.snap = s]
  <2>1. c \in Calls /\ DOMAIN c.host = DOMAIN c.res /\ DOMAIN c.res = {} /\ c.pc = "find"
    BY IdleIsCall DEF Calls
  <2>2. call' = [call EXCEPT ![q] = c]
    BY <1>3, SMTT(30) DEF Start
  <2> HIDE DEF c
  <2> QED BY <1>1, <1>3, <2>1, <2>2, CallMoves
<1> QED BY <1>2, <1>3

\* A push: the result for d is that of this attempt, and if it says ok, d holds the
\* snapshot or another display has answered.  No display goes back.
LEMMA PostIs ==
  ASSUME Fits, NEW q \in Procs, NEW d \in Todo(q), NEW lost, Post(q, d, lost)
  PROVE  /\ store' \in [Devices -> Snaps] /\ slot' \in [Devices -> {"none", "us", "other"}]
         /\ \A e \in Devices : store'[e] >= store[e]
         /\ \E r \in {"ok", "auth", "transport"}, V \in SUBSET Devices :
              /\ call' = [call EXCEPT ![q] = [call[q] EXCEPT !.res = [@ EXCEPT ![d] = r],
                                                             !.void = V]]
              /\ call[q].void \ {d} \subseteq V
              /\ r = "ok" /\ d \notin V => store'[d] >= call[q].snap
<1>0. /\ d \in Devices /\ call[q] \in Calls /\ call[q].snap \in Nat
      /\ store \in [Devices -> Snaps] /\ slot \in [Devices -> {"none", "us", "other"}]
      /\ \A e \in Devices : store[e] \in Nat
      /\ call[q].void \subseteq Devices
  BY CallIs, SnapsAreNat DEF Fits, TypeOK, Todo
<1>1. ASSUME NEW e \in At(call[q].host[d]), Taken(e, call[q].snap),
             call' = Noted(q, d, Result(e, call[q].snap, lost), e)
      PROVE  /\ store' \in [Devices -> Snaps] /\ slot' \in [Devices -> {"none", "us", "other"}]
             /\ \A f \in Devices : store'[f] >= store[f]
             /\ \E r \in {"ok", "auth", "transport"}, V \in SUBSET Devices :
                  /\ call' = [call EXCEPT ![q] = [call[q] EXCEPT !.res = [@ EXCEPT ![d] = r],
                                                                 !.void = V]]
                  /\ call[q].void \ {d} \subseteq V
                  /\ r = "ok" /\ d \notin V => store'[d] >= call[q].snap
  <2> DEFINE r == Result(e, call[q].snap, lost)
             V == IF e = d THEN call[q].void \ {d} ELSE call[q].void \cup {d}
  <2>1. e \in Devices
    BY DEF At
  <2>2. store' \in [Devices -> Snaps] /\ slot' \in [Devices -> {"none", "us", "other"}]
    BY <1>0, <1>1, <2>1, CallIs DEF Taken
  <2>3. Reply(e, call[q].snap) = "ok" => call[q].snap >= store[e]
    BY <1>0, <2>1 DEF Reply
  <2>4. \A f \in Devices : store'[f] >= store[f]
    BY <1>0, <1>1, <2>1, <2>3 DEF Taken
  <2>5. r \in {"ok", "auth", "transport"} /\ (r = "ok" => Reply(e, call[q].snap) = "ok")
    BY DEF Result, Reply
  <2>6. r = "ok" /\ d \notin V => store'[d] >= call[q].snap
    BY <1>0, <1>1, <2>1, <2>5 DEF Taken
  <2>7. call' = [call EXCEPT ![q] = [call[q] EXCEPT !.res = [@ EXCEPT ![d] = r], !.void = V]]
    BY <1>1 DEF Noted
  <2>8. V \in SUBSET Devices /\ call[q].void \ {d} \subseteq V
    BY <1>0
  <2> HIDE DEF r, V
  <2> QED BY <2>2, <2>4, <2>5, <2>6, <2>7, <2>8
<1>2. CASE Unanswered(q, d, lost)
  <2> DEFINE V == call[q].void \ {d}
  <2>1. call' = [call EXCEPT ![q] = [call[q] EXCEPT !.res = [@ EXCEPT ![d] = "transport"],
                                                    !.void = V]]
    BY <1>2 DEF Unanswered, Noted
  <2>2. V \in SUBSET Devices /\ call[q].void \ {d} \subseteq V
    BY <1>0
  <2> HIDE DEF V
  <2>3. UNCHANGED <<store, slot>>
    BY <1>2 DEF Unanswered
  <2>4. \A e \in Devices : store'[e] >= store[e]
    BY <1>0, <2>3
  <2> QED BY <1>0, <2>1, <2>2, <2>3, <2>4
<1> QED BY <1>1, <1>2 DEF Post, Answered

\* What a push leaves of the call.
LEMMA PostFits ==
  ASSUME Fits, NEW q \in Procs, NEW d \in Todo(q), NEW lost, Post(q, d, lost),
         UNCHANGED <<up, addr, usage>>, paired' \in Maps,
         outcome' \in [Devices -> {"none", "ok", "failed"}],
         cool' \subseteq Devices, told' \in [Devices -> Snaps]
  PROVE  /\ Fits'
         /\ \A p \in Procs \ {q} : call'[p] = call[p]
         /\ \A e \in Devices : store'[e] >= store[e]
         /\ call'[q].pc = call[q].pc /\ call'[q].snap = call[q].snap
         /\ call'[q].host = call[q].host
         /\ DOMAIN call'[q].res = DOMAIN call[q].res
         /\ \A e \in DOMAIN call[q].res \ {d} :
              /\ call'[q].res[e] = call[q].res[e]
              /\ e \in call[q].void => e \in call'[q].void
         /\ call'[q].res[d] = "ok" /\ d \notin call'[q].void => store'[d] >= call[q].snap
<1>0. /\ call[q] \in Calls /\ DOMAIN call[q].host = DOMAIN call[q].res
      /\ d \in DOMAIN call[q].res /\ call[q].res \in [DOMAIN call[q].res -> Results]
      /\ DOMAIN call[q].res \in SUBSET Devices
  BY CallIs DEF Fits, TypeOK, CallFits, Todo
<1>1. PICK r \in {"ok", "auth", "transport"}, V \in SUBSET Devices :
        /\ call' = [call EXCEPT ![q] = [call[q] EXCEPT !.res = [@ EXCEPT ![d] = r],
                                                       !.void = V]]
        /\ call[q].void \ {d} \subseteq V
        /\ r = "ok" /\ d \notin V => store'[d] >= call[q].snap
  BY PostIs
<1> DEFINE c == [call[q] EXCEPT !.res = [@ EXCEPT ![d] = r], !.void = V]
<1>2. /\ c.pc = call[q].pc /\ c.snap = call[q].snap /\ c.host = call[q].host
      /\ c.res = [call[q].res EXCEPT ![d] = r] /\ c.void = V
  BY <1>0 DEF Calls
<1>3. [call[q].res EXCEPT ![d] = r] \in [DOMAIN call[q].res -> Results]
  BY <1>0 DEF Results
<1>4. [call[q].res EXCEPT ![d] = r] \in UNION {[T -> Results] : T \in SUBSET Devices}
  BY <1>0, <1>3, ResIs
<1>5. c \in Calls
  BY <1>0, <1>4 DEF Calls, Results
<1>6. DOMAIN c.res = DOMAIN call[q].res
  BY <1>2
<1>7. call' = [call EXCEPT ![q] = c]
  BY <1>1
<1> HIDE DEF c
<1>8. Fits' /\ call'[q] = c /\ \A p \in Procs \ {q} : call'[p] = call[p]
  BY <1>0, <1>2, <1>5, <1>6, <1>7, PostIs, CallBecomes
<1>9. /\ \A e \in DOMAIN call[q].res \ {d} : c.res[e] = call[q].res[e]
      /\ c.res[d] = r
  BY <1>0, <1>2
<1> QED BY <1>0, <1>1, <1>2, <1>6, <1>8, <1>9, PostIs

-----------------------------------------------------------------------------
(* The calls keep what their results say.                                  *)

LEMMA WorldIs ==
  ASSUME Fits
  PROVE  /\ paired \in Maps /\ DOMAIN paired \subseteq Devices
         /\ \A d \in Devices : store[d] \in Nat /\ told[d] \in Nat
         /\ \A q \in Procs : /\ call[q] \in Calls /\ call[q].snap \in Nat
                             /\ DOMAIN call[q].res \subseteq Devices
                             /\ DOMAIN call[q].host = DOMAIN call[q].res
BY MapsAre, CallIs, SnapsAreNat DEF Fits, TypeOK, CallFits

\* Results stay good as long as no display goes back.
LEMMA KeptStays ==
  ASSUME Fits, NEW q \in Procs, Kept(q), call'[q] = call[q],
         \A d \in Devices : store'[d] \in Nat /\ store'[d] >= store[d]
  PROVE  Kept(q)'
<1> SUFFICES ASSUME NEW d \in DOMAIN call[q].res, call[q].res[d] = "ok",
                    d \notin call[q].void
             PROVE  store'[d] >= call[q].snap
  BY DEF Kept
<1>1. d \in Devices /\ store[d] \in Nat /\ call[q].snap \in Nat /\ store[d] >= call[q].snap
  BY WorldIs DEF Kept
<1> QED BY <1>1

\* A step of one call that records nothing.
LEMMA CallSound ==
  ASSUME IInv, NEW q \in Procs, Fits',
         \A p \in Procs \ {q} : call'[p] = call[p],
         \A d \in Devices : store'[d] >= store[d],
         Kept(q)', UNCHANGED <<outcome, told, failing, pushed, study>>,
         DOMAIN paired' = DOMAIN paired,
         Codex => Targets(q)', Codex /\ q \in Children => call'[q].pc = "idle"
  PROVE  Sound'
<1> USE DEF IInv, Typed, Sound
<1>1. \A d \in Devices : store[d] \in Nat /\ store'[d] \in Nat /\ told[d] \in Nat
  BY WorldIs, SnapsAreNat DEF Fits, TypeOK
<1>2. DOMAIN paired \subseteq Devices
  BY WorldIs
<1>3. \A p \in Procs : Kept(p)'
  BY <1>1, KeptStays
<1>4. OkIsKept'
  BY <1>1, <1>2 DEF OkIsKept
<1>5. Misjudged' \subseteq Misjudged
  BY <1>1, <1>2 DEF Misjudged
<1>6. DaemonSound'
  <2> SUFFICES ASSUME Codex
               PROVE  /\ pushed # 0 => Misjudged' = {}
                      /\ \A p \in Procs : Targets(p)'
                      /\ \A p \in Children : call'[p].pc = "idle"
    BY DEF DaemonSound, Codex
  <2>1. \A p \in Procs \ {q} : Targets(p)'
    BY <1>5 DEF DaemonSound, Targets
  <2> QED BY <1>5, <2>1 DEF DaemonSound, Children
<1> QED BY <1>3, <1>4, <1>6

\* Between its first push and its record a call keeps its targets.
Underway == {"send", "browse", "retry", "split", "book"}

LEMMA GoesOn ==
  ASSUME IInv, NEW q \in Procs, Fits',
         \A p \in Procs \ {q} : call'[p] = call[p],
         \A d \in Devices : store'[d] >= store[d],
         Kept(q)', UNCHANGED <<outcome, told, failing, pushed, study>>,
         DOMAIN paired' = DOMAIN paired,
         call[q].pc \in Underway, call'[q].pc \in Underway,
         DOMAIN call'[q].res = DOMAIN call[q].res
  PROVE  Sound'
<1>1. \A d \in Devices : store[d] \in Nat /\ store'[d] \in Nat /\ told[d] \in Nat
  BY WorldIs, SnapsAreNat DEF Fits, TypeOK, IInv, Typed
<1>2. DOMAIN paired \subseteq Devices
  BY WorldIs DEF IInv, Typed
<1>3. Misjudged' \subseteq Misjudged
  BY <1>1, <1>2 DEF Misjudged
<1>4. Codex => Targets(q)' /\ q \notin Children
  BY <1>3 DEF IInv, Sound, DaemonSound, Targets, Underway
<1> QED BY <1>4, CallSound

\* A call that is over says nothing.
LEMMA CallEnds ==
  ASSUME IInv, NEW q \in Procs, call' = [call EXCEPT ![q] = Idle],
         UNCHANGED <<world, cache, told, failing, pushed, study>>
  PROVE  Fits' /\ Sound'
<1> USE DEF IInv, Typed
<1>1. UNCHANGED <<store, outcome, told, paired>> /\ paired \in Maps /\ cool' \subseteq Devices
  BY DEF world, cache, Fits, TypeOK
<1>2. Fits' /\ call'[q] = Idle /\ \A p \in Procs \ {q} : call'[p] = call[p]
  BY <1>1, IdleIsCall, CallMoves
<1>3. Kept(q)' /\ Targets(q)'
  BY <1>2, IdleIsCall DEF Kept, Targets
<1>4. \A d \in Devices : store'[d] >= store[d]
  BY <1>1, WorldIs
<1> QED BY <1>1, <1>2, <1>3, <1>4, IdleIsCall, CallSound

\* A call in which nothing has been answered yet.
LEMMA CallBegins ==
  ASSUME IInv, NEW q \in Procs, Fits', \A p \in Procs \ {q} : call'[p] = call[p],
         \A d \in DOMAIN call'[q].res : call'[q].res[d] = "todo",
         UNCHANGED <<world, outcome, told, paired, failing, pushed, study>>,
         Codex => Targets(q)' /\ q \notin Children
  PROVE  Sound'
<1>1. Kept(q)'
  BY DEF Kept
<1>2. \A d \in Devices : store'[d] >= store[d]
  BY WorldIs DEF world, IInv, Typed
<1> QED BY <1>1, <1>2, CallSound

LEMMA StartSound ==
  ASSUME IInv, NEW q \in Procs, NEW s \in Snaps, Start(q, s), Codex => q \notin Children,
         UNCHANGED <<world, cache, told, failing, pushed, study>>
  PROVE  Fits' /\ Sound'
<1> USE DEF IInv, Typed
<1>1. /\ Fits' /\ \A p \in Procs \ {q} : call'[p] = call[p]
      /\ \A d \in DOMAIN call'[q].res : call'[q].res[d] = "todo"
      /\ \/ call'[q].pc = "send" /\ DOMAIN call'[q].res = DOMAIN paired
         \/ call'[q].pc = "find" /\ DOMAIN paired = {}
  BY StartFits
<1>2. Misjudged' = Misjudged /\ Misjudged \subseteq DOMAIN paired
  BY DEF Misjudged, world, cache
<1>3. Targets(q)'
  BY <1>1, <1>2 DEF Targets
<1> QED BY <1>1, <1>3, CallBegins DEF cache

\* A call for part of the list: the daemon is not wrong about any device.
LEMMA CallingSound ==
  ASSUME IInv, NEW q \in Procs, NEW s \in Snaps, NEW hosts \in Maps, Calling(q, s, hosts),
         Codex => Misjudged = {} /\ q \notin Children,
         UNCHANGED <<world, cache, told, failing, pushed, study>>
  PROVE  Fits' /\ Sound'
<1> USE DEF IInv, Typed
<1>0. UNCHANGED <<outcome, told, paired>> /\ paired' \in Maps /\ cool' \subseteq Devices
  BY DEF cache, Fits, TypeOK
<1>1. /\ Fits' /\ \A p \in Procs \ {q} : call'[p] = call[p]
      /\ \A d \in DOMAIN call'[q].res : call'[q].res[d] = "todo"
      /\ call'[q].pc = "send" /\ DOMAIN call'[q].res = DOMAIN hosts
  BY <1>0, CallingFits
<1>2. Misjudged' = Misjudged
  BY DEF Misjudged, world, cache
<1>3. Codex => Targets(q)'
  BY <1>1, <1>2 DEF Targets
<1> QED BY <1>0, <1>1, <1>3, CallBegins

-----------------------------------------------------------------------------
(* The steps of a call.                                                    *)

\* After a push the result for d is right, the others are what they were.
LEMMA PostKept ==
  ASSUME IInv, NEW q \in Procs, NEW d \in Todo(q), Fits',
         \A e \in Devices : store'[e] >= store[e],
         call'[q].snap = call[q].snap, DOMAIN call'[q].res = DOMAIN call[q].res,
         \A e \in DOMAIN call[q].res \ {d} :
           /\ call'[q].res[e] = call[q].res[e]
           /\ e \in call[q].void => e \in call'[q].void,
         call'[q].res[d] = "ok" /\ d \notin call'[q].void => store'[d] >= call[q].snap
  PROVE  Kept(q)'
<1> SUFFICES ASSUME NEW e \in DOMAIN call[q].res, call'[q].res[e] = "ok",
                    e \notin call'[q].void
             PROVE  store'[e] >= call[q].snap
  BY DEF Kept
<1>1. CASE e = d
  BY <1>1
<1>2. CASE e # d
  <2>1. /\ e \in Devices /\ store[e] \in Nat /\ call[q].snap \in Nat
        /\ store'[e] \in Nat
    BY WorldIs, SnapsAreNat DEF IInv, Typed, Fits, TypeOK
  <2>2. store[e] >= call[q].snap
    BY <1>2 DEF Kept, IInv, Sound
  <2> QED BY <2>1, <2>2
<1> QED BY <1>1, <1>2

LEMMA SendSound ==
  ASSUME IInv, NEW q \in Procs, NEW d \in Devices, NEW lost, Send(q, d, lost),
         UNCHANGED <<failing, pushed, study>>
  PROVE  Fits' /\ Sound'
<1>0. /\ d \in Todo(q) /\ Post(q, d, lost) /\ call[q].pc = "send"
      /\ UNCHANGED <<up, addr, usage, paired, outcome, cool, told>>
      /\ Fits /\ paired \in Maps /\ outcome \in [Devices -> {"none", "ok", "failed"}]
      /\ cool \subseteq Devices /\ told \in [Devices -> Snaps]
  BY DEF Send, cache, IInv, Typed, Fits, TypeOK
<1>1. /\ Fits' /\ \A p \in Procs \ {q} : call'[p] = call[p]
      /\ \A e \in Devices : store'[e] >= store[e]
      /\ call'[q].pc = call[q].pc /\ call'[q].snap = call[q].snap
      /\ DOMAIN call'[q].res = DOMAIN call[q].res
      /\ \A e \in DOMAIN call[q].res \ {d} :
           /\ call'[q].res[e] = call[q].res[e]
           /\ e \in call[q].void => e \in call'[q].void
      /\ call'[q].res[d] = "ok" /\ d \notin call'[q].void => store'[d] >= call[q].snap
  BY <1>0, PostFits
<1>2. Kept(q)'
  BY <1>0, <1>1, PostKept
<1> QED BY <1>0, <1>1, <1>2, GoesOn DEF Underway

LEMMA RetrySound ==
  ASSUME IInv, NEW q \in Procs, NEW d \in Devices, NEW lost, Retry(q, d, lost),
         UNCHANGED <<failing, pushed, study>>
  PROVE  Fits' /\ Sound'
<1>0. /\ d \in Todo(q) /\ d \in DOMAIN call[q].res /\ call[q].pc = "retry"
      /\ UNCHANGED <<up, addr, usage, outcome, cool, told>>
      /\ Fits /\ paired \in Maps /\ outcome \in [Devices -> {"none", "ok", "failed"}]
      /\ cool \subseteq Devices /\ told \in [Devices -> Snaps]
      /\ call[q] \in Calls /\ DOMAIN call[q].host = DOMAIN call[q].res
  BY DEF Retry, Todo, IInv, Typed, Fits, TypeOK, CallFits
<1>1. CASE d \in DOMAIN paired
  <2>1. Post(q, d, lost) /\ paired' = [paired EXCEPT ![d] = call[q].host[d]]
    BY <1>1 DEF Retry
  <2>2. call[q].host[d] \in Hosts
    BY <1>0, CallIs, MapsAre
  <2>3. paired \in [DOMAIN paired -> Hosts] /\ DOMAIN paired \in SUBSET Devices
    BY <1>0, MapsAre
  <2>4. paired' \in [DOMAIN paired -> Hosts] /\ DOMAIN paired' = DOMAIN paired
    BY <2>1, <2>2, <2>3
  <2>5. paired' \in Maps
    BY <2>3, <2>4 DEF Maps
  <2>6. /\ Fits' /\ \A p \in Procs \ {q} : call'[p] = call[p]
        /\ \A e \in Devices : store'[e] >= store[e]
        /\ call'[q].pc = call[q].pc /\ call'[q].snap = call[q].snap
        /\ DOMAIN call'[q].res = DOMAIN call[q].res
        /\ \A e \in DOMAIN call[q].res \ {d} :
             /\ call'[q].res[e] = call[q].res[e]
             /\ e \in call[q].void => e \in call'[q].void
        /\ call'[q].res[d] = "ok" /\ d \notin call'[q].void => store'[d] >= call[q].snap
    BY <1>0, <2>1, <2>5, PostFits
  <2>7. Kept(q)'
    BY <1>0, <2>6, PostKept
  <2> QED BY <1>0, <2>4, <2>6, <2>7, GoesOn DEF Underway
<1>2. CASE d \notin DOMAIN paired
  <2> DEFINE c == [call[q] EXCEPT !.res = [@ EXCEPT ![d] = "transport"]]
  <2>1. call' = [call EXCEPT ![q] = c] /\ UNCHANGED <<paired, store, slot>>
    BY <1>2 DEF Retry
  <2>2. call[q].res \in [DOMAIN call[q].res -> Results] /\ DOMAIN call[q].res \in SUBSET Devices
    BY <1>0, CallIs
  <2>3. /\ c.pc = "retry" /\ c.snap = call[q].snap /\ c.host = call[q].host
        /\ c.res = [call[q].res EXCEPT ![d] = "transport"] /\ c.void = call[q].void
    BY <1>0 DEF Calls
  <2>4. c.res \in [DOMAIN call[q].res -> Results]
    BY <2>2, <2>3 DEF Results
  <2>5. c.res \in UNION {[T -> Results] : T \in SUBSET Devices}
    BY <2>2, <2>4, ResIs
  <2>6. c \in Calls
    BY <1>0, <2>3, <2>5 DEF Calls, Results
  <2>7. DOMAIN c.host = DOMAIN c.res /\ DOMAIN c.res = DOMAIN call[q].res
    BY <1>0, <2>3, <2>4
  <2>8. /\ c.res[d] = "transport"
        /\ \A e \in DOMAIN call[q].res \ {d} : c.res[e] = call[q].res[e]
    BY <1>0, <2>2, <2>3
  <2> HIDE DEF c
  <2>9. UNCHANGED world
    BY <1>0, <2>1 DEF world
  <2>10. Fits' /\ call'[q] = c /\ \A p \in Procs \ {q} : call'[p] = call[p]
    BY <1>0, <2>1, <2>6, <2>7, <2>9, CallMoves
  <2>11. \A e \in Devices : store'[e] >= store[e]
    BY <1>0, <2>1, WorldIs
  <2>12. Kept(q)'
    BY <1>0, <2>3, <2>7, <2>8, <2>10, <2>11, PostKept
  <2> QED BY <1>0, <2>1, <2>3, <2>7, <2>10, <2>11, <2>12, GoesOn DEF Underway
<1> QED BY <1>1, <1>2

\* The other steps of a call under way leave its results as they are, or start some
\* of them over.
LEMMA TurnsOver ==
  ASSUME IInv, NEW q \in Procs, NEW c \in Calls, call' = [call EXCEPT ![q] = c],
         DOMAIN c.host = DOMAIN call[q].res, DOMAIN c.res = DOMAIN call[q].res,
         c.snap = call[q].snap, c.void = call[q].void,
         \A d \in DOMAIN c.res : c.res[d] \in {"todo", call[q].res[d]},
         call[q].pc \in Underway, c.pc \in Underway,
         UNCHANGED <<world, outcome, told, failing, pushed, study>>,
         paired' \in Maps, DOMAIN paired' = DOMAIN paired, cool' \subseteq Devices
  PROVE  Fits' /\ Sound'
<1>1. Fits' /\ call'[q] = c /\ \A p \in Procs \ {q} : call'[p] = call[p]
  BY CallMoves DEF IInv, Typed
<1>2. UNCHANGED store /\ \A e \in Devices : store'[e] >= store[e]
  BY WorldIs DEF IInv, Typed, world
<1>3. Kept(q)'
  BY <1>1, <1>2 DEF Kept, IInv, Sound
<1> QED BY <1>1, <1>2, <1>3, GoesOn

LEMMA RefreshSound ==
  ASSUME IInv, NEW q \in Procs, Refresh(q) \/ Settle(q) \/ SplitFails(q),
         UNCHANGED <<failing, pushed, study>>
  PROVE  Fits' /\ Sound'
<1>0. /\ call[q] \in Calls /\ DOMAIN call[q].host = DOMAIN call[q].res
      /\ DOMAIN call[q].res \subseteq Devices /\ paired \in Maps /\ cool \subseteq Devices
  BY WorldIs DEF IInv, Typed, Fits, TypeOK
<1>1. ASSUME NEW pc \in Underway, NEW S \in SUBSET Devices, NEW U \in SUBSET Devices,
             call' = [call EXCEPT ![q] = [call[q] EXCEPT !.pc = pc, !.sought = S,
                                                         !.unverified = U]],
             call[q].pc \in Underway, cool' \subseteq Devices,
             UNCHANGED <<world, paired, outcome, told>>
      PROVE  Fits' /\ Sound'
  <2> DEFINE c == [call[q] EXCEPT !.pc = pc, !.sought = S, !.unverified = U]
  <2>1. c \in Calls
    BY <1>0 DEF Calls, Underway
  <2>2. /\ c.host = call[q].host /\ c.res = call[q].res /\ c.snap = call[q].snap
        /\ c.void = call[q].void /\ c.pc = pc
    BY <1>0 DEF Calls
  <2>3. call' = [call EXCEPT ![q] = c]
    BY <1>1
  <2> HIDE DEF c
  <2> QED BY <1>0, <1>1, <2>1, <2>2, <2>3, TurnsOver
<1>2. call[q].sought \in SUBSET Devices /\ call[q].unverified \in SUBSET Devices
  BY <1>0, CallIs
<1>3. CASE Refresh(q)
  <2>1. Failed(q) \subseteq Devices /\ Eligible(Failed(q)) \in SUBSET Devices
    BY <1>0 DEF Failed, Eligible
  <2>2. call' = [call EXCEPT ![q] = [call[q] EXCEPT !.pc = "browse",
                   !.sought = Eligible(Failed(q)), !.unverified = call[q].unverified]]
    BY <1>0, <1>3 DEF Refresh, Calls
  <2>3. cool' \subseteq Devices /\ call[q].pc = "send" /\ UNCHANGED <<world, paired, outcome, told>>
    BY <1>0, <1>3, <2>1 DEF Refresh
  <2> QED BY <1>1, <1>2, <2>1, <2>2, <2>3 DEF Underway
<1>4. CASE Settle(q)
  <2>1. Sharing(paired) \in SUBSET Devices /\ Eligible(Sharing(paired)) \in SUBSET Devices
    BY <1>0, SharingIsPart DEF Eligible
  <2>2. \E pc \in {"book", "split"} :
          call' = [call EXCEPT ![q] = [call[q] EXCEPT !.pc = pc,
                     !.sought = Eligible(Sharing(paired)), !.unverified = Sharing(paired)]]
    BY <1>0, <1>4 DEF Settle, Calls
  <2>3. cool' \subseteq Devices /\ call[q].pc \in {"send", "retry"}
        /\ UNCHANGED <<world, paired, outcome, told>>
    BY <1>0, <1>4, <2>1 DEF Settle, Sent
  <2> QED BY <1>1, <2>1, <2>2, <2>3 DEF Underway
<1>5. CASE SplitFails(q)
  <2>1. call' = [call EXCEPT ![q] = [call[q] EXCEPT !.pc = "book",
                   !.sought = call[q].sought, !.unverified = call[q].unverified]]
    BY <1>0, <1>5 DEF SplitFails, Calls
  <2>2. cool' \subseteq Devices /\ call[q].pc = "split"
        /\ UNCHANGED <<world, paired, outcome, told>>
    BY <1>0, <1>5 DEF SplitFails, cache
  <2> QED BY <1>1, <1>2, <2>1, <2>2 DEF Underway
<1> QED BY <1>3, <1>4, <1>5

LEMMA SplitSound ==
  ASSUME IInv, NEW q \in Procs, NEW found \in Maps, Split(q, found) \/ Browse(q, found),
         UNCHANGED <<failing, pushed, study>>
  PROVE  Fits' /\ Sound'
<1>0. /\ call[q] \in Calls /\ DOMAIN call[q].host = DOMAIN call[q].res
      /\ DOMAIN call[q].res \in SUBSET Devices /\ paired \in Maps /\ cool \subseteq Devices
      /\ call[q].res \in [DOMAIN call[q].res -> Results]
      /\ call[q].host \in [DOMAIN call[q].res -> Hosts]
      /\ found \in [DOMAIN found -> Hosts]
  BY WorldIs, MapsAre, CallIs DEF IInv, Typed, Fits, TypeOK
<1>1. CASE Split(q, found)
  <2>1. paired' = Moved(paired, found, call[q].sought)
    BY <1>1 DEF Split
  <2>2. paired' \in Maps /\ DOMAIN paired' = DOMAIN paired
    BY <1>0, <2>1, MovedIsMap
  <2>3. Sharing(paired') \subseteq Devices
    BY <2>2, SharingIsPart
  <2> DEFINE c == [call[q] EXCEPT !.pc = "book", !.unverified = Sharing(paired')]
  <2>4. c \in Calls
    BY <1>0, <2>3 DEF Calls
  <2>5. /\ c.host = call[q].host /\ c.res = call[q].res /\ c.snap = call[q].snap
        /\ c.void = call[q].void /\ c.pc = "book"
    BY <1>0 DEF Calls
  <2>6. call' = [call EXCEPT ![q] = c]
    BY <1>1 DEF Split
  <2>7. call[q].pc = "split" /\ cool' \subseteq Devices /\ UNCHANGED <<world, outcome, told>>
    BY <1>0, <1>1 DEF Split
  <2> HIDE DEF c
  <2> QED BY <1>0, <2>2, <2>4, <2>5, <2>6, <2>7, TurnsOver DEF Underway
<1>2. CASE Browse(q, found)
  <2> DEFINE moved == {d \in call[q].sought \cap DOMAIN found : found[d] # call[q].host[d]}
             host == [d \in DOMAIN call[q].host |->
                        IF d \in moved THEN found[d] ELSE call[q].host[d]]
             res  == [d \in DOMAIN call[q].res |->
                        IF d \in moved THEN "todo" ELSE call[q].res[d]]
             c == [call[q] EXCEPT !.pc = "retry", !.host = host, !.res = res]
  <2>1. host \in [DOMAIN call[q].res -> Hosts] /\ res \in [DOMAIN call[q].res -> Results]
    BY <1>0 DEF Results
  <2>2. host \in Maps /\ res \in UNION {[T -> Results] : T \in SUBSET Devices}
    BY <1>0, <2>1, ResIs DEF Maps
  <2>3. \A d \in DOMAIN res : res[d] \in {"todo", call[q].res[d]}
    OBVIOUS
  <2>4. call' = [call EXCEPT ![q] = c]
    BY <1>2 DEF Browse
  <2>5. DOMAIN host = DOMAIN call[q].res /\ DOMAIN res = DOMAIN call[q].res
    BY <2>1
  <2> HIDE DEF host, res
  <2>6. c \in Calls
    BY <1>0, <2>2 DEF Calls, Results
  <2>7. /\ c.host = host /\ c.res = res /\ c.snap = call[q].snap
        /\ c.void = call[q].void /\ c.pc = "retry"
    BY <1>0 DEF Calls
  <2>8. /\ call[q].pc = "browse" /\ cool' \subseteq Devices
        /\ UNCHANGED <<world, outcome, told, paired>>
    BY <1>0, <1>2 DEF Browse, cache
  <2> HIDE DEF c
  <2> QED BY <1>0, <2>3, <2>4, <2>5, <2>6, <2>7, <2>8, TurnsOver DEF Underway
<1> QED BY <1>1, <1>2

LEMMA FindSound ==
  ASSUME IInv, NEW q \in Procs, NEW found \in Maps, Find(q, found),
         UNCHANGED <<failing, pushed, study>>
  PROVE  Fits' /\ Sound'
<1>0. /\ call[q] \in Calls /\ DOMAIN found \in SUBSET Devices /\ paired \in Maps
      /\ cool \subseteq Devices /\ call[q].pc = "find"
      /\ UNCHANGED <<world, paired, outcome, cool, told>>
  BY WorldIs, MapsAre DEF IInv, Typed, Fits, TypeOK, Find, cache
<1> DEFINE res == [d \in DOMAIN found |-> "todo"]
           c == [call[q] EXCEPT !.pc = "claim", !.host = found, !.res = res]
<1>1. /\ res \in UNION {[T -> Results] : T \in SUBSET Devices} /\ DOMAIN res = DOMAIN found
      /\ \A d \in DOMAIN res : res[d] = "todo"
  BY <1>0, ResIs DEF Results
<1>2. call' = [call EXCEPT ![q] = c]
  BY DEF Find
<1> HIDE DEF res
<1>3. c \in Calls
  BY <1>0, <1>1 DEF Calls, Results
<1>4. c.host = found /\ c.res = res /\ c.pc = "claim"
  BY <1>0 DEF Calls
<1> HIDE DEF c
<1>5. Fits' /\ call'[q] = c /\ \A p \in Procs \ {q} : call'[p] = call[p]
  BY <1>0, <1>1, <1>2, <1>3, <1>4, CallMoves DEF IInv, Typed
<1>6. Codex => Misjudged = {} /\ q \notin Children
  BY <1>0 DEF IInv, Sound, DaemonSound, Targets
<1>7. Misjudged' = Misjudged
  BY <1>0 DEF Misjudged, world
<1>8. Codex => Targets(q)'
  BY <1>4, <1>5, <1>6, <1>7 DEF Targets
<1> QED BY <1>0, <1>1, <1>4, <1>5, <1>6, <1>8, CallBegins

LEMMA ClaimedSound ==
  ASSUME IInv, NEW q \in Procs, Claimed(q), UNCHANGED <<failing, pushed, study>>
  PROVE  Fits' /\ Sound'
<1> DEFINE ours == {d \in DOMAIN call[q].res : call[q].res[d] = "ok"}
<1>0. /\ call[q].snap \in Snaps /\ call[q].host \in Maps /\ call[q].pc = "claim"
      /\ DOMAIN call[q].host = DOMAIN call[q].res /\ UNCHANGED <<world, cache, told>>
  BY WorldIs, CallIs DEF IInv, Typed, Claimed
<1>1. [d \in ours |-> call[q].host[d]] \in Maps
  BY <1>0, PartOfMap
<1>2. Codex => Misjudged = {} /\ q \notin Children
  BY <1>0 DEF IInv, Sound, DaemonSound, Targets
<1>3. \/ call' = [call EXCEPT ![q] = Idle]
      \/ Calling(q, call[q].snap, [d \in ours |-> call[q].host[d]])
  BY DEF Claimed
<1> HIDE DEF ours
<1> QED BY <1>0, <1>1, <1>2, <1>3, CallEnds, CallingSound

\* Who enters the list has just answered.
LEMMA ClaimSound ==
  ASSUME IInv, NEW q \in Procs, NEW d \in Devices, NEW lost, Claim(q, d, lost),
         UNCHANGED <<failing, pushed, study>>
  PROVE  Fits' /\ Sound'
<1>0. /\ d \in Todo(q) /\ d \in DOMAIN call[q].res /\ Post(q, d, lost) /\ call[q].pc = "claim"
      /\ UNCHANGED <<up, addr, usage, cool>>
      /\ Fits /\ paired \in Maps /\ outcome \in [Devices -> {"none", "ok", "failed"}]
      /\ cool \subseteq Devices /\ told \in [Devices -> Snaps]
      /\ call[q] \in Calls /\ DOMAIN call[q].host = DOMAIN call[q].res
      /\ call[q].snap \in Snaps
      /\ paired \in [DOMAIN paired -> Hosts] /\ DOMAIN paired \in SUBSET Devices
  BY MapsAre, CallIs DEF Claim, Todo, IInv, Typed, Fits, TypeOK, CallFits
<1>1. paired' \in Maps /\ outcome' \in [Devices -> {"none", "ok", "failed"}]
      /\ told' \in [Devices -> Snaps]
  <2>1. CASE call'[q].res[d] = "ok"
    <3>1. call[q].host[d] \in Hosts
      BY <1>0, CallIs, MapsAre
    <3>2. paired' = [e \in DOMAIN paired \cup {d} |->
                       IF e = d THEN call[q].host[d] ELSE paired[e]]
      BY <2>1 DEF Claim
    <3>3. paired' \in [DOMAIN paired \cup {d} -> Hosts] /\ DOMAIN paired \cup {d} \in SUBSET Devices
      BY <1>0, <3>1, <3>2
    <3> QED BY <1>0, <2>1, <3>3, SnapsAreNat DEF Claim, Maps
  <2>2. CASE call'[q].res[d] # "ok"
    BY <1>0, <2>2 DEF Claim
  <2> QED BY <2>1, <2>2
<1>2. /\ Fits' /\ \A p \in Procs \ {q} : call'[p] = call[p]
      /\ \A e \in Devices : store'[e] >= store[e]
      /\ call'[q].pc = call[q].pc /\ call'[q].snap = call[q].snap
      /\ DOMAIN call'[q].res = DOMAIN call[q].res
      /\ \A e \in DOMAIN call[q].res \ {d} :
           /\ call'[q].res[e] = call[q].res[e]
           /\ e \in call[q].void => e \in call'[q].void
      /\ call'[q].res[d] = "ok" /\ d \notin call'[q].void => store'[d] >= call[q].snap
  BY <1>0, <1>1, PostFits
<1>3. Kept(q)'
  BY <1>0, <1>2, PostKept
<1>4. \A e \in Devices : store[e] \in Nat /\ store'[e] \in Nat /\ told[e] \in Nat
  BY <1>2, WorldIs, SnapsAreNat DEF Fits, TypeOK, IInv, Typed
<1>5. \A p \in Procs : Kept(p)'
  BY <1>2, <1>3, <1>4, KeptStays DEF IInv, Sound, Typed
<1>6. \A e \in Devices \ {d} : /\ e \in DOMAIN paired' <=> e \in DOMAIN paired
                               /\ told'[e] = told[e] /\ outcome'[e] = outcome[e]
  BY <1>0 DEF Claim
<1>7. \/ store'[d] >= told'[d]
      \/ UNCHANGED <<paired, outcome, told>>
  <2>1. CASE call'[q].res[d] = "ok"
    <3>1. told'[d] = IF d \in call'[q].void THEN 0 ELSE call[q].snap
      BY <1>0, <2>1 DEF Claim
    <3> QED BY <1>2, <1>4, <2>1, <3>1
  <2> QED BY <2>1 DEF Claim
<1>8. DOMAIN paired' \subseteq Devices
  BY <1>1, MapsAre
<1>9. OkIsKept'
  BY <1>0, <1>2, <1>4, <1>6, <1>7, <1>8 DEF OkIsKept, IInv, Sound
<1>10. Misjudged' \subseteq Misjudged
  BY <1>0, <1>1, <1>2, <1>4, <1>6, <1>7, <1>8, SnapsAreNat DEF Misjudged
<1>11. DaemonSound'
  <2> SUFFICES ASSUME Codex
               PROVE  /\ pushed # 0 => Misjudged' = {}
                      /\ \A p \in Procs : Targets(p)'
                      /\ \A p \in Children : call'[p].pc = "idle"
    BY DEF DaemonSound, Codex
  <2>1. DaemonSound /\ q \notin Children /\ Targets(q)
    BY <1>0 DEF IInv, Sound, DaemonSound
  <2>2. \A p \in Procs : Targets(p)'
    BY <1>0, <1>2, <1>10, <2>1 DEF DaemonSound, Targets
  <2> QED BY <1>2, <1>10, <2>1, <2>2 DEF DaemonSound, Children
<1> QED BY <1>2, <1>5, <1>9, <1>11 DEF Sound

-----------------------------------------------------------------------------
(* The record of a call.                                                   *)

\* What is recorded of a target: green only for one that holds the snapshot, or about
\* which nothing is promised.
LEMMA BookIs ==
  ASSUME IInv, NEW q \in Procs, NEW S \in SUBSET DOMAIN call[q].res,
         NEW gone \in [Devices -> {"none", "ok", "failed"}], Book(q, S, gone)
  PROVE  /\ Fits' /\ \A p \in Procs \ {q} : call'[p] = call[p]
         /\ S = DOMAIN call[q].res => call'[q] = Idle
         /\ \A p \in Procs : Kept(p)'
         /\ OkIsKept'
         /\ DOMAIN paired' = DOMAIN paired \ (Evicted(q) \cap S)
         /\ \A d \in S : d \in Good(q) => store'[d] >= told'[d]
         /\ \A d \in Devices \ S : told'[d] = told[d]
         /\ UNCHANGED store
<1> USE DEF IInv, Typed
<1> DEFINE rest == DOMAIN call[q].res \ S
           left == [call[q] EXCEPT !.host = [d \in rest |-> call[q].host[d]],
                                   !.res = [d \in rest |-> call[q].res[d]]]
           c == IF rest = {} THEN Idle ELSE left
<1>0. /\ call[q] \in Calls /\ DOMAIN call[q].res \in SUBSET Devices
      /\ call[q].snap \in Snaps /\ call[q].snap \in Nat /\ S \subseteq Devices
      /\ call[q].host \in Maps /\ DOMAIN call[q].host = DOMAIN call[q].res
      /\ call[q].res \in [DOMAIN call[q].res -> Results]
      /\ paired \in Maps /\ DOMAIN paired \subseteq Devices
      /\ UNCHANGED <<store, slot, up, addr, usage, cool>>
      /\ \A d \in Devices : store[d] \in Nat /\ told[d] \in Nat
  BY WorldIs, CallIs DEF Book, world
<1>1. paired' = [d \in DOMAIN paired \ (Evicted(q) \cap S) |-> paired[d]]
  BY DEF Book
<1>2. paired' \in Maps /\ DOMAIN paired' = DOMAIN paired \ (Evicted(q) \cap S)
  BY <1>0, <1>1, PartOfMap
<1>3. \A d \in Devices :
        /\ told'[d] = IF d \notin S THEN told[d]
                      ELSE IF d \in call[q].void THEN 0 ELSE call[q].snap
        /\ outcome'[d] = IF d \in S THEN Outcome(q, d, gone) ELSE outcome[d]
  BY DEF Book
<1>4. told' \in [Devices -> Snaps] /\ outcome' \in [Devices -> {"none", "ok", "failed"}]
  <2>1. told \in [Devices -> Snaps] /\ outcome \in [Devices -> {"none", "ok", "failed"}]
    BY DEF Fits, TypeOK
  <2>2. \A d \in Devices : Outcome(q, d, gone) \in {"none", "ok", "failed"}
    BY DEF Outcome
  <2> QED BY <1>0, <2>1, <2>2, SnapsAreNat DEF Book
<1>5. /\ c \in Calls /\ DOMAIN c.host = DOMAIN c.res
      /\ \A d \in DOMAIN c.res : /\ d \in DOMAIN call[q].res /\ c.res[d] = call[q].res[d]
                                 /\ c.void = call[q].void /\ c.snap = call[q].snap
  <2>1. CASE rest = {}
    BY <2>1, IdleIsCall
  <2>2. CASE rest # {}
    <3>1. [d \in rest |-> call[q].host[d]] \in Maps
      BY <1>0, PartOfMap
    <3>2. [d \in rest |-> call[q].res[d]] \in [rest -> Results] /\ rest \in SUBSET Devices
      BY <1>0
    <3>3. [d \in rest |-> call[q].res[d]] \in UNION {[T -> Results] : T \in SUBSET Devices}
      BY <3>2, ResIs
    <3>4. left \in Calls
      BY <1>0, <3>1, <3>3 DEF Calls, Results
    <3>5. /\ left.host = [d \in rest |-> call[q].host[d]]
          /\ left.res = [d \in rest |-> call[q].res[d]]
          /\ left.void = call[q].void /\ left.snap = call[q].snap
      BY <1>0 DEF Calls
    <3> HIDE DEF left
    <3> QED BY <2>2, <3>4, <3>5
  <2> QED BY <2>1, <2>2
<1>6. call' = [call EXCEPT ![q] = c]
  BY DEF Book
<1>7. S = DOMAIN call[q].res => c = Idle
  OBVIOUS
<1> HIDE DEF c
<1>8. Fits' /\ call'[q] = c /\ \A p \in Procs \ {q} : call'[p] = call[p]
  <2>1. /\ store' \in [Devices -> Snaps] /\ slot' \in [Devices -> {"none", "us", "other"}]
        /\ cool' \subseteq Devices
    BY <1>0 DEF Fits, TypeOK
  <2> QED BY <1>0, <1>2, <1>4, <1>5, <1>6, <2>1, CallBecomes
<1>9. \A p \in Procs : Kept(p)'
  <2>1. Kept(q)'
    BY <1>0, <1>5, <1>8 DEF Kept, Sound
  <2>2. \A d \in Devices : store'[d] \in Nat /\ store'[d] >= store[d]
    BY <1>0
  <2>3. \A p \in Procs \ {q} : Kept(p)'
    BY <1>8, <2>2, KeptStays DEF Sound
  <2> QED BY <2>1, <2>3
<1>10. \A d \in S : d \in Good(q) => store'[d] >= told'[d]
  <2> SUFFICES ASSUME NEW d \in S, d \in Good(q) PROVE store'[d] >= told'[d]
    OBVIOUS
  <2>1. d \in DOMAIN call[q].res /\ call[q].res[d] = "ok" /\ d \in Devices
    BY <1>0 DEF Good, Told
  <2>2. d \notin call[q].void => store[d] >= call[q].snap
    BY <2>1 DEF Sound, Kept
  <2> QED BY <1>0, <1>3, <2>1, <2>2
<1>11. OkIsKept'
  <2> SUFFICES ASSUME NEW d \in DOMAIN paired', outcome'[d] = "ok"
               PROVE  store'[d] >= told'[d]
    BY DEF OkIsKept
  <2>1. d \in DOMAIN paired /\ d \in Devices /\ d \notin Evicted(q) \cap S
    BY <1>0, <1>2
  <2>2. CASE d \in S
    <3>1. Outcome(q, d, gone) = "ok" /\ d \notin Evicted(q)
      BY <1>3, <2>1, <2>2
    <3>2. d \in Good(q)
      BY <3>1 DEF Outcome
    <3> QED BY <1>10, <2>2, <3>2
  <2>3. CASE d \notin S
    <3>1. outcome[d] = "ok" /\ told'[d] = told[d]
      BY <1>3, <2>1, <2>3
    <3>2. store[d] >= told[d]
      BY <2>1, <3>1 DEF Sound, OkIsKept
    <3> QED BY <1>0, <3>1, <3>2
  <2> QED BY <2>2, <2>3
<1>12. \A d \in Devices \ S : told'[d] = told[d]
  BY <1>3
<1> QED BY <1>0, <1>2, <1>7, <1>8, <1>9, <1>10, <1>11, <1>12

\* A child writes of one target at a time.
LEMMA WritesSound ==
  ASSUME IInv, NEW q \in Procs, NEW d \in Devices, Writes(q, d), ~Codex, UNCHANGED study
  PROVE  Fits' /\ Sound'
<1>1. Book(q, {d}, outcome) /\ {d} \in SUBSET DOMAIN call[q].res
  BY DEF Writes
<1>2. outcome \in [Devices -> {"none", "ok", "failed"}]
  BY DEF IInv, Typed, Fits, TypeOK
<1> QED BY <1>1, <1>2, BookIs DEF Sound, DaemonSound, Codex

\* The daemon counts the failures it records: who is not counted is not misjudged.
LEMMA RecordSound ==
  ASSUME IInv, NEW q \in Procs, Record(q), UNCHANGED study, Codex => q \notin Children
  PROVE  Fits' /\ Sound'
<1> DEFINE red == [d \in Devices |-> "failed"]
           all == DOMAIN call[q].res
<1>0. /\ Book(q, all, red) /\ call[q].pc = "book"
      /\ red \in [Devices -> {"none", "ok", "failed"}]
      /\ all \in SUBSET DOMAIN call[q].res /\ all = DOMAIN call[q].res
  BY DEF Record, Book
<1> HIDE DEF red, all
<1>1. /\ Fits' /\ call'[q] = Idle /\ \A p \in Procs \ {q} : call'[p] = call[p]
      /\ \A p \in Procs : Kept(p)'
      /\ OkIsKept' /\ UNCHANGED store
      /\ DOMAIN paired' = DOMAIN paired \ (Evicted(q) \cap DOMAIN call[q].res)
      /\ \A d \in DOMAIN call[q].res : d \in Good(q) => store'[d] >= told'[d]
      /\ \A d \in Devices \ DOMAIN call[q].res : told'[d] = told[d]
  <2>1. /\ Fits' /\ \A p \in Procs \ {q} : call'[p] = call[p]
        /\ all = DOMAIN call[q].res => call'[q] = Idle
        /\ \A p \in Procs : Kept(p)'
        /\ OkIsKept'
        /\ DOMAIN paired' = DOMAIN paired \ (Evicted(q) \cap all)
        /\ \A d \in all : d \in Good(q) => store'[d] >= told'[d]
        /\ \A d \in Devices \ all : told'[d] = told[d]
        /\ UNCHANGED store
    <3>1. IInv /\ q \in Procs
      OBVIOUS
    <3> HIDE DEF IInv
    <3> QED BY ONLY <1>0, <3>1, BookIs, ZenonT(60)
  <2> QED BY <1>0, <2>1
<1> USE DEF IInv, Typed
<1>2. /\ DOMAIN paired \subseteq Devices
      /\ \A d \in Devices : store[d] \in Nat /\ told[d] \in Nat /\ told'[d] \in Nat
  BY <1>1, WorldIs, SnapsAreNat DEF Fits, TypeOK
<1>3. /\ failing' = (failing \ (Good(q) \cup Evicted(q)))
                    \cup (DOMAIN call[q].res \ (Good(q) \cup Evicted(q)))
      /\ pushed' = IF Good(q) # {} THEN call[q].snap ELSE pushed
  BY DEF Record
<1>4. Good(q) \cup Evicted(q) \subseteq DOMAIN call[q].res
  BY DEF Good, Evicted, Told
<1>5. \A d \in Misjudged' : d \in Misjudged /\ d \notin DOMAIN call[q].res
  <2> SUFFICES ASSUME NEW d \in Misjudged'
               PROVE  d \in Misjudged /\ d \notin DOMAIN call[q].res
    OBVIOUS
  <2>1. /\ d \in DOMAIN paired /\ d \notin Evicted(q) /\ d \notin failing'
        /\ store'[d] < told'[d] /\ d \in Devices
    BY <1>1, <1>2, <1>4 DEF Misjudged
  <2>2. store'[d] \in Nat /\ told'[d] \in Nat
    BY <1>1, <1>2, <2>1
  <2>3. d \notin DOMAIN call[q].res
    BY <1>1, <1>3, <2>1, <2>2
  <2>4. d \notin failing
    BY <1>3, <1>4, <2>1, <2>3
  <2>5. store[d] < told[d]
    BY <1>1, <1>2, <2>1, <2>2, <2>3
  <2> QED BY <2>1, <2>3, <2>4, <2>5 DEF Misjudged
<1>6. DaemonSound'
  <2> SUFFICES ASSUME Codex
               PROVE  /\ pushed' # 0 => Misjudged' = {}
                      /\ \A p \in Procs : Targets(p)'
                      /\ \A p \in Children : call'[p].pc = "idle"
    BY DEF DaemonSound, Codex
  <2>1. DaemonSound /\ Targets(q)
    BY DEF Sound, DaemonSound
  <2>2. Misjudged' = {}
    BY <1>0, <1>5, <2>1 DEF Targets
  <2>3. \A p \in Procs : Targets(p)'
    BY <2>2 DEF Targets
  <2> QED BY <1>1, <2>1, <2>2, <2>3, IdleIsCall DEF DaemonSound, Children
<1> QED BY <1>1, <1>6 DEF Sound

-----------------------------------------------------------------------------
(* The daemon's own state.                                                 *)

Queues == UNION {[1..n -> Snaps] : n \in 0..QueueMax}

LEMMA QueueIs ==
  ASSUME NEW s \in Queues
  PROVE  s \in Seq(Snaps) /\ Len(s) <= QueueMax
<1>1. PICK n \in 0..QueueMax : s \in [1..n -> Snaps]
  BY DEF Queues
<1>2. n \in Nat /\ n <= QueueMax
  BY DaemonAssumption
<1>3. s \in Seq(Snaps) /\ Len(s) = n
  BY <1>1, <1>2
<1> QED BY <1>2, <1>3

LEMMA IsQueue ==
  ASSUME NEW s \in Seq(Snaps), Len(s) <= QueueMax
  PROVE  s \in Queues
<1>1. Len(s) \in 0..QueueMax /\ s \in [1..Len(s) -> Snaps]
  BY DaemonAssumption
<1> QED BY <1>1 DEF Queues

\* The newest snapshot always finds a place.
LEMMA EnqueueFits ==
  ASSUME queue \in Queues, NEW s \in Snaps, Enqueue(s)
  PROVE  queue' \in Queues
<1>1. queue \in Seq(Snaps) /\ Len(queue) <= QueueMax /\ QueueMax \in Nat \ {0}
  BY QueueIs, DaemonAssumption
<1>2. CASE Len(queue) = QueueMax
  <2>1. queue # << >> /\ Tail(queue) \in Seq(Snaps) /\ Len(Tail(queue)) = QueueMax - 1
    BY <1>1, <1>2
  <2>2. queue' = Append(Tail(queue), s)
    BY <1>2 DEF Enqueue
  <2>3. queue' \in Seq(Snaps) /\ Len(queue') <= QueueMax
    BY <1>1, <2>1, <2>2
  <2> QED BY <2>3, IsQueue
<1>3. CASE Len(queue) # QueueMax
  <2>1. queue' = Append(queue, s)
    BY <1>3 DEF Enqueue
  <2>2. queue' \in Seq(Snaps) /\ Len(queue') <= QueueMax
    BY <1>1, <1>3, <2>1
  <2> QED BY <2>2, IsQueue
<1> QED BY <1>2, <1>3

LEMMA TailFits ==
  ASSUME queue \in Queues, queue # << >>
  PROVE  Head(queue) \in Snaps /\ Tail(queue) \in Queues
<1>1. queue \in Seq(Snaps) /\ Len(queue) <= QueueMax /\ QueueMax \in Nat
  BY QueueIs, DaemonAssumption
<1>2. Head(queue) \in Snaps /\ Tail(queue) \in Seq(Snaps) /\ Len(Tail(queue)) <= QueueMax
  BY <1>1
<1> QED BY <1>2, IsQueue

DaemonFits == DaemonTypeOK /\ \A g \in Servers : RoundFits(g)

LEMMA DaemonStays ==
  ASSUME DaemonFits, UNCHANGED <<memory, round>>
  PROVE  DaemonFits'
BY DEF DaemonFits, DaemonTypeOK, RoundFits, memory

LEMMA AsleepIsRound ==
  /\ Asleep \in Rounds /\ Asleep.pc = "asleep"
  /\ Asleep.todo = {} /\ Asleep.of = {} /\ Asleep.diverged = {} /\ Asleep.rebind = {}
BY NowhereIsMap DEF Asleep, Rounds, Bodies

LEMMA DaemonInitFits == DaemonInit => DaemonFits
<1> SUFFICES ASSUME DaemonInit PROVE DaemonFits
  OBVIOUS
<1>1. queue \in Queues /\ pushed \in Snaps /\ failing \subseteq Devices /\ dead \subseteq Procs
  <2>1. << >> \in Seq(Snaps) /\ Len(<< >>) <= QueueMax
    BY DaemonAssumption
  <2> QED BY <2>1, IsQueue, SnapsAreNat DEF DaemonInit
<1>2. /\ missed \in [Devices -> 0..Threshold]
      /\ server \in [up : BOOLEAN, count : 0..MaxServers]
  BY DaemonAssumption DEF DaemonInit
<1>3. round \in [Servers -> Rounds] /\ \A g \in Servers : round[g] = Asleep
  BY AsleepIsRound DEF DaemonInit
<1>4. \A g \in Servers : round[g].diverged \cup round[g].rebind \subseteq DOMAIN round[g].list
  BY <1>3, AsleepIsRound
<1>5. \A g \in Servers : RoundFits(g)
  BY <1>3, AsleepIsRound DEF RoundFits
<1> QED BY <1>1, <1>2, <1>3, <1>4, <1>5 DEF DaemonFits, DaemonTypeOK, Queues

LEMMA RoundIs ==
  ASSUME DaemonFits, NEW g \in Servers
  PROVE  /\ round[g] \in Rounds
         /\ round[g].list \in Maps /\ DOMAIN round[g].list \subseteq Devices
         /\ round[g].todo \subseteq DOMAIN round[g].list
         /\ round[g].of \subseteq DOMAIN round[g].list
         /\ round[g].diverged \subseteq DOMAIN round[g].list
         /\ round[g].rebind \subseteq DOMAIN round[g].list
         /\ round[g].failed \subseteq Devices /\ round[g].sought \subseteq Devices
         /\ round[g].body \in Bodies
         /\ round[g].pc \in {"probe", "browse"} => round[g].failed \subseteq DOMAIN round[g].list
         /\ round[g].pc \in {"browse", "verify"} => round[g].sought \subseteq DOMAIN round[g].list
<1>1. round[g] \in Rounds /\ RoundFits(g)
  BY DEF DaemonFits, DaemonTypeOK
<1>2. round[g].list \in Maps /\ round[g].failed \subseteq Devices
      /\ round[g].sought \subseteq Devices /\ round[g].body \in Bodies
  BY <1>1 DEF Rounds
<1> QED BY <1>1, <1>2, MapsAre DEF RoundFits

\* The step of a health round.
LEMMA RoundBecomes ==
  ASSUME DaemonFits, NEW g \in Servers, NEW r \in Rounds, round' = [round EXCEPT ![g] = r],
         r.todo \cup r.of \cup r.diverged \cup r.rebind \subseteq DOMAIN r.list,
         r.pc \in {"probe", "browse"} => r.failed \subseteq DOMAIN r.list,
         r.pc \in {"browse", "verify"} => r.sought \subseteq DOMAIN r.list,
         missed' \in [Devices -> 0..Threshold],
         UNCHANGED <<queue, pushed, failing, server, dead>>
  PROVE  DaemonFits'
<1>1. /\ round' \in [Servers -> Rounds] /\ round'[g] = r
      /\ \A h \in Servers \ {g} : round'[h] = round[h]
  BY DEF DaemonFits, DaemonTypeOK
<1>2. \A h \in Servers : RoundFits(h)'
  BY <1>1 DEF DaemonFits, RoundFits
<1>3. \A h \in Servers : round'[h].diverged \cup round'[h].rebind \subseteq DOMAIN round'[h].list
  BY <1>2 DEF RoundFits
<1> QED BY <1>1, <1>2, <1>3 DEF DaemonFits, DaemonTypeOK

-----------------------------------------------------------------------------
(* Steps beside the calls.                                                 *)

\* No display goes back, nobody enters or leaves the list, and what turns green is
\* true of the display, or nothing is promised of it.
LEMMA Quiet ==
  ASSUME IInv, UNCHANGED <<call, store, failing, pushed, study>>,
         DOMAIN paired' = DOMAIN paired,
         \A d \in Devices : told'[d] \in {0, told[d]},
         \A d \in DOMAIN paired :
           outcome'[d] = "ok" => outcome[d] = "ok" \/ store[d] >= told'[d]
  PROVE  Sound'
<1> USE DEF IInv, Typed
<1>1. DOMAIN paired \subseteq Devices /\ \A d \in Devices : store[d] \in Nat /\ told[d] \in Nat
  BY WorldIs
<1>2. OkIsKept'
  <2> SUFFICES ASSUME NEW d \in DOMAIN paired, outcome'[d] = "ok"
               PROVE  store[d] >= told'[d]
    BY DEF OkIsKept
  <2>1. outcome[d] = "ok" => store[d] >= told[d]
    BY DEF Sound, OkIsKept
  <2> QED BY <1>1, <2>1
<1>3. Misjudged' \subseteq Misjudged
  <2> SUFFICES ASSUME NEW d \in Misjudged' PROVE d \in Misjudged
    OBVIOUS
  <2>1. d \in DOMAIN paired /\ d \notin failing /\ store[d] < told'[d] /\ d \in Devices
    BY <1>1 DEF Misjudged
  <2>2. told'[d] # 0
    BY <1>1, <2>1
  <2> QED BY <1>1, <2>1, <2>2 DEF Misjudged
<1>4. \A q \in Procs : Kept(q)'
  BY DEF Kept, Sound
<1>5. DaemonSound'
  BY <1>3 DEF Sound, DaemonSound, Targets, Codex
<1> QED BY <1>2, <1>4, <1>5 DEF Sound

\* Nothing that matters to the calls changes.
LEMMA Aside ==
  ASSUME IInv, UNCHANGED <<call, store, slot, paired, outcome, told, failing, pushed, study>>,
         up' \in [Devices -> BOOLEAN], addr' \in [Devices -> Hosts], usage' \in Snaps,
         cool' \subseteq Devices
  PROVE  Fits' /\ Sound'
<1>1. Sound'
  BY Quiet
<1>2. Fits'
  BY DEF IInv, Typed, Fits, TypeOK, CallFits
<1> QED BY <1>1, <1>2

-----------------------------------------------------------------------------
(* The health loop.                                                        *)

\* What a health round may do to the records.
Marks ==
  /\ told' \in [Devices -> Snaps] /\ \A d \in Devices : told'[d] \in {0, told[d]}
  /\ outcome' \in [Devices -> {"none", "ok", "failed"}]
  /\ \A d \in DOMAIN paired :
       outcome'[d] = "ok" => outcome[d] = "ok" \/ store[d] >= told'[d]
  /\ missed' \in [Devices -> 0..Threshold]

\* A step of a health round, whatever it reads and marks.
LEMMA RoundSound ==
  ASSUME IInv, NEW g \in Servers, NEW r \in Rounds, round' = [round EXCEPT ![g] = r],
         r.todo \cup r.of \cup r.diverged \cup r.rebind \subseteq DOMAIN r.list,
         r.pc \in {"probe", "browse"} => r.failed \subseteq DOMAIN r.list,
         r.pc \in {"browse", "verify"} => r.sought \subseteq DOMAIN r.list,
         Marks, UNCHANGED <<world, call, queue, pushed, failing, server, dead, study>>,
         paired' \in Maps, DOMAIN paired' = DOMAIN paired, cool' \subseteq Devices
  PROVE  Fits' /\ Sound' /\ DaemonFits'
<1>1. DaemonFits'
  BY RoundBecomes DEF IInv, Typed, HostsTypeOK, DaemonFits, Marks
<1>2. Sound'
  BY Quiet DEF Marks, world
<1>3. Fits'
  BY DEF Marks, world, IInv, Typed, Fits, TypeOK, CallFits
<1> QED BY <1>1, <1>2, <1>3

LEMMA NoMarks ==
  ASSUME IInv, UNCHANGED <<outcome, told, missed>>
  PROVE  Marks
<1>1. DOMAIN paired \subseteq Devices
  BY WorldIs DEF IInv, Typed
<1> QED BY <1>1 DEF Marks, IInv, Typed, HostsTypeOK, Fits, TypeOK, DaemonTypeOK

\* A mark of failure.
LEMMA RedMarks ==
  ASSUME IInv, NEW S, UNCHANGED told,
         \/ Missed(S)
         \/ (\E d \in Devices : Write(d, FALSE)) /\ UNCHANGED missed
         \/ Doubt(S) /\ UNCHANGED missed
  PROVE  Marks
<1>0. /\ DOMAIN paired \subseteq Devices /\ told \in [Devices -> Snaps]
      /\ outcome \in [Devices -> {"none", "ok", "failed"}]
      /\ missed \in [Devices -> 0..Threshold] /\ Threshold \in Nat
  BY WorldIs, DaemonAssumption DEF IInv, Typed, HostsTypeOK, Fits, TypeOK, DaemonTypeOK
<1>1. CASE Missed(S)
  <2> DEFINE count == [d \in Devices |-> IF d \in S /\ missed[d] < Threshold
                                         THEN missed[d] + 1 ELSE missed[d]]
  <2>1. count \in [Devices -> 0..Threshold]
    BY <1>0
  <2>2. missed' = count
        /\ outcome' = [d \in Devices |-> IF d \in S /\ count[d] = Threshold THEN "failed"
                                                                     ELSE outcome[d]]
    BY <1>1 DEF Missed
  <2> HIDE DEF count
  <2> QED BY <1>0, <2>1, <2>2 DEF Marks
<1>2. CASE (\E d \in Devices : Write(d, FALSE)) /\ UNCHANGED missed
  BY <1>0, <1>2 DEF Marks, Write
<1>3. CASE Doubt(S) /\ UNCHANGED missed
  BY <1>0, <1>3 DEF Marks, Doubt
<1> QED BY <1>1, <1>2, <1>3

\* A mark of success: only of a device about which the daemon is not wrong, once it
\* has delivered something.
LEMMA GreenMarks ==
  ASSUME IInv, Codex, NEW d \in Devices, NEW e, NEW v, MarkOk(d, e, v)
  PROVE  Marks
<1>0. /\ DOMAIN paired \subseteq Devices /\ told \in [Devices -> Snaps] /\ 0 \in Snaps
      /\ outcome \in [Devices -> {"none", "ok", "failed"}]
      /\ missed \in [Devices -> 0..Threshold] /\ Threshold \in Nat
      /\ \A f \in Devices : store[f] \in Nat /\ told[f] \in Nat
  BY WorldIs, SnapsAreNat, DaemonAssumption
     DEF IInv, Typed, HostsTypeOK, Fits, TypeOK, DaemonTypeOK
<1>1. missed' \in [Devices -> 0..Threshold]
  BY <1>0 DEF MarkOk
<1>2. CASE UNCHANGED <<outcome, told>>
  BY <1>0, <1>1, <1>2 DEF Marks
<1>3. ASSUME pushed # 0, d \notin failing, Write(d, TRUE),
             told' = IF e = d THEN told ELSE [told EXCEPT ![d] = 0]
      PROVE  Marks
  <2>1. Misjudged = {}
    BY <1>3 DEF IInv, Sound, DaemonSound
  <2>2. d \in DOMAIN paired => store[d] >= told[d]
    BY <1>0, <1>3, <2>1 DEF Misjudged
  <2>3. outcome' = [outcome EXCEPT ![d] = "ok"]
    BY <1>3 DEF Write
  <2>4. told' \in [Devices -> Snaps] /\ \A f \in Devices : told'[f] \in {0, told[f]}
    BY <1>0, <1>3
  <2>5. d \in DOMAIN paired => store[d] >= told'[d]
    BY <1>0, <2>2, <2>4
  <2> QED BY <1>0, <1>1, <2>3, <2>4, <2>5 DEF Marks
<1> QED BY <1>2, <1>3 DEF MarkOk

LEMMA WakeSound ==
  ASSUME IInv, NEW g \in Servers, Wake(g), UNCHANGED study
  PROVE  Fits' /\ Sound' /\ DaemonFits'
<1> DEFINE r == [Asleep EXCEPT !.pc = "probe", !.list = paired, !.todo = DOMAIN paired]
<1>0. paired \in Maps /\ DOMAIN paired \subseteq Devices /\ cool \subseteq Devices
  BY WorldIs DEF IInv, Typed, Fits, TypeOK
<1>1. r \in Rounds
  BY <1>0, AsleepIsRound DEF Rounds
<1>2. /\ r.pc = "probe" /\ r.list = paired /\ r.todo = DOMAIN paired /\ r.of = {}
      /\ r.diverged = {} /\ r.rebind = {} /\ r.failed = {}
  BY DEF Asleep
<1>3. round' = [round EXCEPT ![g] = r] /\ UNCHANGED <<world, cache, call, told, memory>>
  BY DEF Wake
<1> HIDE DEF r
<1> QED BY <1>0, <1>1, <1>2, <1>3, NoMarks, RoundSound DEF memory, cache

\* A device of the list is asked; what is still to be asked gets less.
LEMMA AsksSound ==
  ASSUME IInv, NEW g \in Servers, NEW d \in round[g].todo,
         NEW rest \in SUBSET round[g].todo, NEW lost, Asks(g, d, rest, lost),
         Marks, UNCHANGED <<world, call, queue, pushed, failing, server, dead, study>>,
         paired' \in Maps, DOMAIN paired' = DOMAIN paired, cool' \subseteq Devices
  PROVE  Fits' /\ Sound' /\ DaemonFits'
<1>0. /\ round[g] \in Rounds /\ round[g].todo \subseteq DOMAIN round[g].list
      /\ DOMAIN round[g].list \subseteq Devices
      /\ round[g].diverged \cup round[g].rebind \subseteq DOMAIN round[g].list
      /\ round[g].pc \in {"probe", "browse"} => round[g].failed \subseteq DOMAIN round[g].list
      /\ round[g].pc \in {"browse", "verify"} => round[g].sought \subseteq DOMAIN round[g].list
  BY RoundIs DEF IInv, Typed, HostsTypeOK, DaemonFits
<1>1. PICK b \in Body(round[g].list[d], lost) :
        round' = [round EXCEPT ![g] = [round[g] EXCEPT !.todo = rest, !.of = {d}, !.body = b]]
  BY DEF Asks
<1>2. b \in Bodies
  <2>1. \A e \in Devices : store[e] \in Snaps
    BY DEF IInv, Typed, Fits, TypeOK
  <2> QED BY <1>1, <2>1 DEF Body, Bodies, At
<1> DEFINE r == [round[g] EXCEPT !.todo = rest, !.of = {d}, !.body = b]
<1>3. r \in Rounds
  BY <1>0, <1>2 DEF Rounds
<1>4. /\ r.pc = round[g].pc /\ r.list = round[g].list /\ r.todo = rest
      /\ r.of = {d} /\ r.diverged = round[g].diverged /\ r.rebind = round[g].rebind
      /\ r.failed = round[g].failed /\ r.sought = round[g].sought
  BY <1>0 DEF Rounds
<1>5. round' = [round EXCEPT ![g] = r]
  BY <1>1
<1> HIDE DEF r
<1> QED BY <1>0, <1>3, <1>4, <1>5, RoundSound

LEMMA ProbeSound ==
  ASSUME IInv, NEW g \in Servers, NEW d \in Devices, NEW lost, Probe(g, d, lost),
         UNCHANGED study
  PROVE  Fits' /\ Sound' /\ DaemonFits'
<1>1. /\ d \in round[g].todo /\ Asks(g, d, round[g].todo \ {d}, lost)
      /\ UNCHANGED <<world, cache, call, told, memory>>
  BY DEF Probe
<1>2. paired \in Maps /\ cool \subseteq Devices
  BY DEF IInv, Typed, Fits, TypeOK
<1>3. Marks
  BY <1>1, NoMarks DEF cache, memory
<1>4. round[g].todo \ {d} \in SUBSET round[g].todo
  OBVIOUS
<1> QED BY <1>1, <1>2, <1>3, <1>4, AsksSound DEF cache, memory

\* The answer is weighed: the round sorts the device into one of its sets.
LEMMA WeighSound ==
  ASSUME IInv, Codex, NEW g \in Servers, NEW d \in Devices, Weigh(g, d) \/ WeighAgain(g, d),
         UNCHANGED study
  PROVE  Fits' /\ Sound' /\ DaemonFits'
<1>0. /\ paired \in Maps /\ cool \subseteq Devices /\ round[g] \in Rounds
      /\ round[g].todo \subseteq DOMAIN round[g].list /\ d \in DOMAIN round[g].list
      /\ round[g].diverged \cup round[g].rebind \subseteq DOMAIN round[g].list
      /\ round[g].pc = "probe" => round[g].failed \subseteq DOMAIN round[g].list
      /\ round[g].pc \in {"probe", "relocate"}
      /\ UNCHANGED <<world, paired, cool, call, queue, pushed, failing, server, dead>>
  BY RoundIs DEF IInv, Typed, HostsTypeOK, DaemonFits, Fits, TypeOK, Weigh, WeighAgain
<1>1. ASSUME Marks, NEW r \in Rounds, round' = [round EXCEPT ![g] = r],
             r.pc = round[g].pc, r.list = round[g].list, r.todo = round[g].todo, r.of = {},
             r.failed \subseteq round[g].failed \cup {d},
             r.rebind \subseteq round[g].rebind \cup {d},
             r.diverged \subseteq round[g].diverged \cup {d}
      PROVE  Fits' /\ Sound' /\ DaemonFits'
  <2>1. /\ r.todo \cup r.of \cup r.diverged \cup r.rebind \subseteq DOMAIN r.list
        /\ r.pc \in {"probe", "browse"} => r.failed \subseteq DOMAIN r.list
        /\ r.pc \notin {"browse", "verify"}
    BY <1>0, <1>1
  <2> QED BY <1>0, <1>1, <2>1, RoundSound
<1>2. Silence \in Bodies
  BY DEF Bodies
<1>3. ASSUME Marks,
             \/ round' = [round EXCEPT ![g].of = {}, ![g].body = Silence,
                                       ![g].failed = @ \cup {d}]
             \/ round' = [round EXCEPT ![g].of = {}, ![g].body = Silence,
                                       ![g].rebind = @ \cup {d}]
             \/ round' = [round EXCEPT ![g].of = {}, ![g].body = Silence]
             \/ \E V \in SUBSET {d} :
                  round' = [round EXCEPT ![g].of = {}, ![g].body = Silence,
                                         ![g].diverged = @ \cup V]
      PROVE  Fits' /\ Sound' /\ DaemonFits'
  <2>1. CASE round' = [round EXCEPT ![g].of = {}, ![g].body = Silence,
                                    ![g].failed = @ \cup {d}]
    <3> DEFINE r == [round[g] EXCEPT !.of = {}, !.body = Silence, !.failed = @ \cup {d}]
    <3>1. r \in Rounds
      BY <1>0, <1>2 DEF Rounds
    <3>2. /\ r.pc = round[g].pc /\ r.list = round[g].list /\ r.todo = round[g].todo
          /\ r.of = {} /\ r.diverged = round[g].diverged /\ r.rebind = round[g].rebind
          /\ r.failed = round[g].failed \cup {d}
      BY <1>0 DEF Rounds
    <3>3. round' = [round EXCEPT ![g] = r]
      BY <2>1
    <3> HIDE DEF r
    <3> QED BY <1>1, <1>3, <3>1, <3>2, <3>3
  <2>2. CASE round' = [round EXCEPT ![g].of = {}, ![g].body = Silence,
                                    ![g].rebind = @ \cup {d}]
    <3> DEFINE r == [round[g] EXCEPT !.of = {}, !.body = Silence, !.rebind = @ \cup {d}]
    <3>1. r \in Rounds
      BY <1>0, <1>2 DEF Rounds
    <3>2. /\ r.pc = round[g].pc /\ r.list = round[g].list /\ r.todo = round[g].todo
          /\ r.of = {} /\ r.diverged = round[g].diverged /\ r.failed = round[g].failed
          /\ r.rebind = round[g].rebind \cup {d}
      BY <1>0 DEF Rounds
    <3>3. round' = [round EXCEPT ![g] = r]
      BY <2>2
    <3> HIDE DEF r
    <3> QED BY <1>1, <1>3, <3>1, <3>2, <3>3
  <2>3. CASE round' = [round EXCEPT ![g].of = {}, ![g].body = Silence]
    <3> DEFINE r == [round[g] EXCEPT !.of = {}, !.body = Silence]
    <3>1. r \in Rounds
      BY <1>0, <1>2 DEF Rounds
    <3>2. /\ r.pc = round[g].pc /\ r.list = round[g].list /\ r.todo = round[g].todo
          /\ r.of = {} /\ r.diverged = round[g].diverged /\ r.failed = round[g].failed
          /\ r.rebind = round[g].rebind
      BY <1>0 DEF Rounds
    <3>3. round' = [round EXCEPT ![g] = r]
      BY <2>3
    <3> HIDE DEF r
    <3> QED BY <1>1, <1>3, <3>1, <3>2, <3>3
  <2>4. ASSUME NEW V \in SUBSET {d},
               round' = [round EXCEPT ![g].of = {}, ![g].body = Silence,
                                      ![g].diverged = @ \cup V]
        PROVE  Fits' /\ Sound' /\ DaemonFits'
    <3> DEFINE r == [round[g] EXCEPT !.of = {}, !.body = Silence, !.diverged = @ \cup V]
    <3>1. r \in Rounds
      BY <1>0, <1>2 DEF Rounds
    <3>2. /\ r.pc = round[g].pc /\ r.list = round[g].list /\ r.todo = round[g].todo
          /\ r.of = {} /\ r.rebind = round[g].rebind /\ r.failed = round[g].failed
          /\ r.diverged = round[g].diverged \cup V
      BY <1>0 DEF Rounds
    <3>3. round' = [round EXCEPT ![g] = r]
      BY <2>4
    <3> HIDE DEF r
    <3> QED BY <1>1, <1>3, <3>1, <3>2, <3>3
  <2> QED BY <1>3, <2>1, <2>2, <2>3, <2>4
<1>4. ASSUME NEW v PROVE Diverged(d, v) \in SUBSET {d}
  BY DEF Diverged
<1>5. CASE Weigh(g, d)
  BY <1>3, <1>4, <1>5, NoMarks, RedMarks, GreenMarks DEF Weigh
<1>6. CASE WeighAgain(g, d)
  BY <1>3, <1>4, <1>6, NoMarks, RedMarks, GreenMarks DEF WeighAgain
<1> QED BY <1>5, <1>6

\* What a step of a health round starts from.
LEMMA RoundStarts ==
  ASSUME IInv, NEW g \in Servers
  PROVE  /\ paired \in Maps /\ DOMAIN paired \subseteq Devices /\ cool \subseteq Devices
         /\ round[g] \in Rounds /\ round[g].list \in Maps
         /\ DOMAIN round[g].list \subseteq Devices
         /\ round[g].todo \cup round[g].of \cup round[g].diverged \cup round[g].rebind
              \subseteq DOMAIN round[g].list
         /\ round[g].failed \subseteq Devices /\ round[g].sought \subseteq Devices
         /\ round[g].pc \in {"probe", "browse"} => round[g].failed \subseteq DOMAIN round[g].list
         /\ round[g].pc \in {"browse", "verify"} => round[g].sought \subseteq DOMAIN round[g].list
<1>1. DaemonFits
  BY DEF IInv, Typed, HostsTypeOK, DaemonFits
<1>2. paired \in Maps /\ DOMAIN paired \subseteq Devices /\ cool \subseteq Devices
  BY WorldIs DEF IInv, Typed, Fits, TypeOK
<1> HIDE DEF IInv
<1> QED BY <1>1, <1>2, RoundIs

LEMMA ReconcileSound ==
  ASSUME IInv, NEW g \in Servers, Reconcile(g), UNCHANGED study
  PROVE  Fits' /\ Sound' /\ DaemonFits'
<1> DEFINE old == round[g]
           failed == old.failed
<1>0. /\ paired \in Maps /\ cool \subseteq Devices /\ old \in Rounds
      /\ old.todo \cup old.of \cup old.diverged \cup old.rebind \subseteq DOMAIN old.list
      /\ failed \subseteq DOMAIN old.list /\ failed \subseteq Devices
      /\ cool' = cool \cup failed /\ old.pc = "probe"
      /\ UNCHANGED <<world, paired, call, told, queue, pushed, failing, server, dead>>
  BY RoundStarts DEF Reconcile, Probed
<1>1. CASE Eligible(failed) = {}
  <2> DEFINE r == [old EXCEPT !.pc = "relocate"]
  <2>1. Missed(failed) /\ round' = [round EXCEPT ![g] = r]
    BY <1>1 DEF Reconcile
  <2>2. r \in Rounds
    BY <1>0 DEF Rounds
  <2>3. /\ r.pc = "relocate" /\ r.list = old.list /\ r.todo = old.todo /\ r.of = old.of
        /\ r.diverged = old.diverged /\ r.rebind = old.rebind
    BY <1>0 DEF Rounds
  <2>4. Marks
    BY <1>0, <2>1, RedMarks
  <2> HIDE DEF r
  <2> QED BY <1>0, <2>1, <2>2, <2>3, <2>4, RoundSound
<1>2. CASE Eligible(failed) # {}
  <2> DEFINE r == [old EXCEPT !.pc = "browse", !.sought = Eligible(failed)]
  <2>1. UNCHANGED <<outcome, missed>> /\ round' = [round EXCEPT ![g] = r]
    BY <1>2 DEF Reconcile
  <2>2. Eligible(failed) \subseteq failed
    BY DEF Eligible
  <2>3. r \in Rounds
    BY <1>0, <2>2 DEF Rounds
  <2>4. /\ r.pc = "browse" /\ r.list = old.list /\ r.todo = old.todo /\ r.of = old.of
        /\ r.diverged = old.diverged /\ r.rebind = old.rebind /\ r.failed = failed
        /\ r.sought = Eligible(failed)
    BY <1>0 DEF Rounds
  <2>5. Marks
    BY <1>0, <2>1, NoMarks
  <2> HIDE DEF r
  <2> QED BY <1>0, <2>1, <2>2, <2>3, <2>4, <2>5, RoundSound
<1> QED BY <1>1, <1>2

LEMMA RelocateSound ==
  ASSUME IInv, NEW g \in Servers, NEW found \in Maps, Relocate(g, found), UNCHANGED study
  PROVE  Fits' /\ Sound' /\ DaemonFits'
<1> DEFINE old == round[g]
           elsewhere == {d \in old.sought \cap DOMAIN found : found[d] # old.list[d]}
           r == [old EXCEPT !.pc = "relocate", !.todo = old.failed, !.sought = elsewhere,
                            !.list = Moved(old.list, found, elsewhere)]
<1>0. /\ paired \in Maps /\ cool \subseteq Devices /\ old \in Rounds /\ old.list \in Maps
      /\ old.of \cup old.diverged \cup old.rebind \subseteq DOMAIN old.list
      /\ old.pc = "browse" /\ old.sought \subseteq Devices
      /\ old.failed \subseteq DOMAIN old.list /\ old.failed \subseteq Devices
      /\ UNCHANGED <<world, cache, call, told, memory>>
  BY RoundStarts DEF Relocate
<1>1. round' = [round EXCEPT ![g] = r]
  BY DEF Relocate
<1>2. /\ elsewhere \subseteq Devices /\ Moved(old.list, found, elsewhere) \in Maps
      /\ DOMAIN Moved(old.list, found, elsewhere) = DOMAIN old.list
  BY <1>0, MovedIsMap
<1> HIDE DEF elsewhere
<1>3. r \in Rounds
  BY <1>0, <1>2 DEF Rounds
<1>4. /\ r.pc = "relocate" /\ r.list = Moved(old.list, found, elsewhere)
      /\ r.todo = old.failed /\ r.of = old.of /\ r.diverged = old.diverged
      /\ r.rebind = old.rebind
  BY <1>0 DEF Rounds
<1>5. Marks
  BY <1>0, NoMarks DEF cache, memory
<1> HIDE DEF r
<1> QED BY <1>0, <1>1, <1>2, <1>3, <1>4, <1>5, RoundSound DEF cache, memory

\* Only a device that is still paired gets another address.
LEMMA ProbeAgainSound ==
  ASSUME IInv, NEW g \in Servers, NEW d \in Devices, NEW lost, ProbeAgain(g, d, lost),
         UNCHANGED study
  PROVE  Fits' /\ Sound' /\ DaemonFits'
<1> DEFINE before == {e \in round[g].todo : e < d}
<1>0. /\ paired \in Maps /\ cool \subseteq Devices /\ round[g].list \in Maps
      /\ round[g].todo \subseteq DOMAIN round[g].list
  BY RoundStarts
<1>1. /\ d \in round[g].todo /\ d \in DOMAIN paired
      /\ Asks(g, d, round[g].todo \ (before \cup {d}), lost)
      /\ Missed(before \ round[g].sought)
      /\ paired' = [paired EXCEPT ![d] = round[g].list[d]]
      /\ UNCHANGED <<world, cool, call, told, queue, pushed, failing, server, dead>>
  BY DEF ProbeAgain, Askable
<1>2. paired' \in Maps /\ DOMAIN paired' = DOMAIN paired
  <2>1. /\ paired \in [DOMAIN paired -> Hosts] /\ DOMAIN paired \in SUBSET Devices
        /\ round[g].list[d] \in Hosts
    BY <1>0, <1>1, MapsAre
  <2>2. paired' \in [DOMAIN paired -> Hosts] /\ DOMAIN paired' = DOMAIN paired
    BY <1>1, <2>1
  <2> QED BY <2>1, <2>2 DEF Maps
<1>3. Marks
  BY <1>1, RedMarks
<1>4. round[g].todo \ (before \cup {d}) \in SUBSET round[g].todo
  OBVIOUS
<1> HIDE DEF before
<1> QED BY <1>0, <1>1, <1>2, <1>3, <1>4, AsksSound

LEMMA NoneAgainSound ==
  ASSUME IInv, NEW g \in Servers, NoneAgain(g), UNCHANGED study
  PROVE  Fits' /\ Sound' /\ DaemonFits'
<1> DEFINE old == round[g]
           r == [old EXCEPT !.todo = {}]
<1>0. /\ paired \in Maps /\ cool \subseteq Devices /\ old \in Rounds
      /\ old.of \cup old.diverged \cup old.rebind \subseteq DOMAIN old.list
      /\ old.pc = "relocate" /\ Missed(old.todo \ old.sought)
      /\ UNCHANGED <<world, paired, cool, call, told, queue, pushed, failing, server, dead>>
  BY RoundStarts DEF NoneAgain
<1>1. round' = [round EXCEPT ![g] = r]
  BY DEF NoneAgain
<1>2. r \in Rounds
  BY <1>0 DEF Rounds
<1>3. /\ r.pc = "relocate" /\ r.list = old.list /\ r.todo = {} /\ r.of = old.of
      /\ r.diverged = old.diverged /\ r.rebind = old.rebind
  BY <1>0 DEF Rounds
<1>4. Marks
  BY <1>0, RedMarks
<1> HIDE DEF r
<1> QED BY <1>0, <1>1, <1>2, <1>3, <1>4, RoundSound

LEMMA VerifySound ==
  ASSUME IInv, NEW g \in Servers, Verify(g), UNCHANGED study
  PROVE  Fits' /\ Sound' /\ DaemonFits'
<1> DEFINE old == round[g]
           wanted == IF pushed = 0 THEN {} ELSE old.rebind
           pc == IF Eligible(wanted) = {} THEN "share" ELSE "verify"
           r == [old EXCEPT !.pc = pc, !.sought = Eligible(wanted)]
<1>0. /\ paired \in Maps /\ cool \subseteq Devices /\ old \in Rounds
      /\ old.todo \cup old.of \cup old.diverged \cup old.rebind \subseteq DOMAIN old.list
      /\ DOMAIN old.list \subseteq Devices /\ cool' = cool \cup wanted
      /\ UNCHANGED <<world, paired, outcome, call, told, memory>>
  BY RoundStarts DEF Verify
<1>1. round' = [round EXCEPT ![g] = r]
  BY DEF Verify
<1>2. Eligible(wanted) \subseteq wanted /\ wanted \subseteq old.rebind
      /\ pc \in {"share", "verify"}
  BY DEF Eligible
<1> HIDE DEF wanted, pc
<1>3. r \in Rounds
  BY <1>0, <1>2 DEF Rounds
<1>4. /\ r.pc = pc /\ r.list = old.list /\ r.todo = old.todo /\ r.of = old.of
      /\ r.diverged = old.diverged /\ r.rebind = old.rebind /\ r.failed = old.failed
      /\ r.sought = Eligible(wanted)
  BY <1>0 DEF Rounds
<1> HIDE DEF r
<1> QED BY <1>0, <1>1, <1>2, <1>3, <1>4, NoMarks, RoundSound DEF memory

LEMMA RebindSound ==
  ASSUME IInv, NEW g \in Servers, NEW found \in Maps, Rebind(g, found), UNCHANGED study
  PROVE  Fits' /\ Sound' /\ DaemonFits'
<1> DEFINE old == round[g]
           seen == {d \in old.sought \cap DOMAIN found :
                      found[d] # old.list[d] => d \in DOMAIN paired}
           moved == {d \in seen : found[d] # old.list[d]}
           r == [old EXCEPT !.pc = "share", !.diverged = @ \cup seen,
                            !.list = Moved(old.list, found, moved)]
<1>0. /\ paired \in Maps /\ cool \subseteq Devices /\ old \in Rounds /\ old.list \in Maps
      /\ old.todo \cup old.of \cup old.diverged \cup old.rebind \subseteq DOMAIN old.list
      /\ old.pc = "verify" /\ old.sought \subseteq DOMAIN old.list
      /\ DOMAIN old.list \subseteq Devices
      /\ UNCHANGED <<world, outcome, cool, call, told, memory>>
  BY RoundStarts DEF Rebind
<1>1. paired' = Moved(paired, found, moved) /\ round' = [round EXCEPT ![g] = r]
  BY DEF Rebind
<1>2. /\ seen \subseteq DOMAIN old.list
      /\ Moved(old.list, found, moved) \in Maps
      /\ DOMAIN Moved(old.list, found, moved) = DOMAIN old.list
      /\ paired' \in Maps /\ DOMAIN paired' = DOMAIN paired
  BY <1>0, <1>1, MovedIsMap
<1> HIDE DEF seen, moved
<1>3. r \in Rounds
  BY <1>0, <1>2 DEF Rounds
<1>4. /\ r.pc = "share" /\ r.list = Moved(old.list, found, moved) /\ r.todo = old.todo
      /\ r.of = old.of /\ r.diverged = old.diverged \cup seen /\ r.rebind = old.rebind
  BY <1>0 DEF Rounds
<1>5. Marks
  BY <1>0, NoMarks DEF memory
<1> HIDE DEF r
<1> QED BY <1>0, <1>1, <1>2, <1>3, <1>4, <1>5, RoundSound DEF memory

LEMMA ShareSound ==
  ASSUME IInv, NEW g \in Servers, Share(g), UNCHANGED study
  PROVE  Fits' /\ Sound' /\ DaemonFits'
<1> DEFINE old == round[g]
           sharing == Sharing(paired)
<1>0. /\ paired \in Maps /\ cool \subseteq Devices /\ old \in Rounds
      /\ old.todo \cup old.of \cup old.diverged \cup old.rebind \subseteq DOMAIN old.list
      /\ sharing \subseteq Devices /\ cool' = cool \cup sharing
      /\ UNCHANGED <<world, paired, call, told, memory>>
  BY RoundStarts, SharingIsPart DEF Share
<1>1. CASE Eligible(sharing) = {}
  <2> DEFINE r == [old EXCEPT !.pc = "repush"]
  <2>1. Doubt(sharing) /\ round' = [round EXCEPT ![g] = r]
    BY <1>1 DEF Share
  <2>2. r \in Rounds
    BY <1>0 DEF Rounds
  <2>3. /\ r.pc = "repush" /\ r.list = old.list /\ r.todo = old.todo /\ r.of = old.of
        /\ r.diverged = old.diverged /\ r.rebind = old.rebind
    BY <1>0 DEF Rounds
  <2>4. Marks
    BY <1>0, <2>1, RedMarks DEF memory
  <2> HIDE DEF r
  <2> QED BY <1>0, <2>1, <2>2, <2>3, <2>4, RoundSound DEF memory
<1>2. CASE Eligible(sharing) # {}
  <2> DEFINE r == [old EXCEPT !.pc = "split", !.sought = Eligible(sharing), !.failed = sharing]
  <2>1. UNCHANGED outcome /\ round' = [round EXCEPT ![g] = r]
    BY <1>2 DEF Share
  <2>2. Eligible(sharing) \subseteq Devices
    BY <1>0 DEF Eligible
  <2>3. r \in Rounds
    BY <1>0, <2>2 DEF Rounds
  <2>4. /\ r.pc = "split" /\ r.list = old.list /\ r.todo = old.todo /\ r.of = old.of
        /\ r.diverged = old.diverged /\ r.rebind = old.rebind
    BY <1>0 DEF Rounds
  <2>5. Marks
    BY <1>0, <2>1, NoMarks DEF memory
  <2> HIDE DEF r
  <2> QED BY <1>0, <2>1, <2>3, <2>4, <2>5, RoundSound DEF memory
<1> QED BY <1>1, <1>2

LEMMA PartSound ==
  ASSUME IInv, NEW g \in Servers, NEW found \in Maps, Part(g, found) \/ PartFails(g),
         UNCHANGED study
  PROVE  Fits' /\ Sound' /\ DaemonFits'
<1> DEFINE old == round[g]
           r == [old EXCEPT !.pc = "repush"]
<1>0. /\ paired \in Maps /\ DOMAIN paired \subseteq Devices /\ cool \subseteq Devices
      /\ old \in Rounds
      /\ old.todo \cup old.of \cup old.diverged \cup old.rebind \subseteq DOMAIN old.list
      /\ UNCHANGED <<world, cool, call, told, memory>>
  BY RoundStarts DEF Part, PartFails
<1>1. round' = [round EXCEPT ![g] = r] /\ \E S : Doubt(S)
  BY DEF Part, PartFails
<1>2. paired' \in Maps /\ DOMAIN paired' = DOMAIN paired
  BY <1>0, MovedIsMap DEF Part, PartFails
<1>3. r \in Rounds
  BY <1>0 DEF Rounds
<1>4. /\ r.pc = "repush" /\ r.list = old.list /\ r.todo = old.todo /\ r.of = old.of
      /\ r.diverged = old.diverged /\ r.rebind = old.rebind
  BY <1>0 DEF Rounds
<1>5. Marks
  BY <1>0, <1>1, RedMarks DEF memory
<1> HIDE DEF r
<1> QED BY <1>0, <1>1, <1>2, <1>3, <1>4, <1>5, RoundSound DEF memory

\* The daemon pushes again only what it has delivered before.
LEMMA RepushSound ==
  ASSUME IInv, Codex, NEW g \in Servers, Repush(g), UNCHANGED study
  PROVE  Fits' /\ Sound' /\ DaemonFits'
<1> DEFINE need == round[g].diverged
           hosts == [d \in need |-> round[g].list[d]]
<1>0. /\ Health(g) \in Procs /\ Health(g) \notin Children
      /\ UNCHANGED <<world, cache, told, memory>>
      /\ UNCHANGED <<failing, pushed, queue, missed, server, dead>>
  BY DaemonAssumption DEF Children, Health, Repush, memory
<1>1. DaemonFits'
  <2>1. DaemonFits /\ missed' \in [Devices -> 0..Threshold]
    BY <1>0 DEF IInv, Typed, HostsTypeOK, DaemonFits, DaemonTypeOK
  <2>2. round' = [round EXCEPT ![g] = Asleep]
    BY DEF Repush
  <2> QED BY <1>0, <2>1, <2>2, AsleepIsRound, RoundBecomes
<1>2. CASE need # {} /\ pushed # 0
  <2>1. Calling(Health(g), pushed, hosts)
    BY <1>2 DEF Repush
  <2>2. hosts \in Maps
    BY RoundStarts, PartOfMap
  <2>3. pushed \in Snaps /\ Misjudged = {}
    BY <1>2 DEF IInv, Typed, HostsTypeOK, DaemonTypeOK, Sound, DaemonSound
  <2> HIDE DEF hosts
  <2> QED BY <1>0, <1>1, <2>1, <2>2, <2>3, CallingSound
<1>3. CASE UNCHANGED call
  <2>1. UNCHANGED <<store, slot, paired, outcome, told, up, addr, usage, cool>>
    BY <1>0 DEF world, cache
  <2>2. up \in [Devices -> BOOLEAN] /\ addr \in [Devices -> Hosts] /\ usage \in Snaps
        /\ cool \subseteq Devices
    BY DEF IInv, Typed, Fits, TypeOK
  <2> QED BY <1>0, <1>1, <1>3, <2>1, <2>2, Aside
<1> QED BY <1>2, <1>3 DEF Repush

LEMMA HealthSound ==
  ASSUME IInv, Codex, NEW g \in Servers, HealthStep(g), UNCHANGED study
  PROVE  Fits' /\ Sound' /\ DaemonFits'
<1>1. Visible \in Maps
  BY VisibleIsMap DEF IInv, Typed, Fits, TypeOK
<1>2. CASE Wake(g)
  BY <1>2, WakeSound
<1>3. CASE Reconcile(g)
  BY <1>3, ReconcileSound
<1>4. CASE Verify(g)
  BY <1>4, VerifySound
<1>5. CASE Share(g)
  BY <1>5, ShareSound
<1>6. CASE Repush(g)
  BY <1>6, RepushSound
<1>7. ASSUME NEW d \in Devices, Probe(g, d, FALSE) \/ ProbeAgain(g, d, FALSE)
      PROVE  Fits' /\ Sound' /\ DaemonFits'
  BY <1>7, ProbeSound, ProbeAgainSound
<1>8. ASSUME NEW d \in Devices, Weigh(g, d) \/ WeighAgain(g, d)
      PROVE  Fits' /\ Sound' /\ DaemonFits'
  BY <1>8, WeighSound
<1>9. CASE Relocate(g, Visible)
  BY <1>1, <1>9, RelocateSound
<1>10. CASE Rebind(g, Visible)
  BY <1>1, <1>10, RebindSound
<1>11. CASE Part(g, Visible)
  BY <1>1, <1>11, PartSound
<1>12. CASE NoneAgain(g)
  BY <1>12, NoneAgainSound
<1> QED BY <1>2, <1>3, <1>4, <1>5, <1>6, <1>7, <1>8, <1>9, <1>10, <1>11, <1>12 DEF HealthStep

-----------------------------------------------------------------------------
(* The steps of Next.                                                      *)

\* Any step of a call but its record.
LEMMA CallStepSound ==
  ASSUME IInv, NEW q \in Procs, NEW found \in Maps, UNCHANGED <<failing, pushed, study>>,
         \/ \E d \in Devices, lost \in BOOLEAN :
              Claim(q, d, lost) \/ Send(q, d, lost) \/ Retry(q, d, lost)
         \/ Find(q, found) \/ Browse(q, found) \/ Split(q, found) \/ SplitFails(q)
         \/ Claimed(q) \/ Refresh(q) \/ Settle(q)
  PROVE  Fits' /\ Sound'
<1>1. ASSUME NEW d \in Devices, NEW lost \in BOOLEAN,
             Claim(q, d, lost) \/ Send(q, d, lost) \/ Retry(q, d, lost)
      PROVE  Fits' /\ Sound'
  BY <1>1, ClaimSound, SendSound, RetrySound
<1>2. CASE Find(q, found)
  BY <1>2, FindSound
<1>3. CASE Browse(q, found) \/ Split(q, found)
  BY <1>3, SplitSound
<1>4. CASE SplitFails(q) \/ Refresh(q) \/ Settle(q)
  BY <1>4, RefreshSound
<1>5. CASE Claimed(q)
  BY <1>5, ClaimedSound
<1> QED BY <1>1, <1>2, <1>3, <1>4, <1>5

\* The workers of the daemon are no children of the status line, which are idle
\* beside it.
LEMMA WorkersAre ==
  ASSUME NEW g \in Servers
  PROVE  /\ Pusher(g) \in Procs /\ Pusher(g) \notin Children
         /\ Health(g) \in Procs /\ Health(g) \notin Children
BY DaemonAssumption DEF Pusher, Health, Children

LEMMA RecordFits ==
  ASSUME IInv, NEW q \in Procs, Record(q)
  PROVE  DaemonFits'
<1>0. /\ DaemonTypeOK /\ \A g \in Servers : RoundFits(g)
      /\ DOMAIN call[q].res \subseteq Devices /\ call[q].snap \in Snaps
      /\ 0 \in 0..Threshold
  BY WorldIs, CallIs, DaemonAssumption DEF IInv, Typed, HostsTypeOK
<1>1. UNCHANGED <<queue, server, dead, round>>
  BY DEF Record
<1>2. pushed' \in Snaps /\ failing' \subseteq Devices /\ missed' \in [Devices -> 0..Threshold]
  BY <1>0 DEF Record, DaemonTypeOK
<1> QED BY <1>0, <1>1, <1>2 DEF DaemonFits, DaemonTypeOK, RoundFits

\* A display restarts with nothing, and nothing is promised of it until the next
\* push to it.
LEMMA RebootSound ==
  ASSUME IInv, NEW d \in Devices, NEW o \in {"none", "us", "other"}, Reboot(d, o),
         UNCHANGED <<memory, round, study>>
  PROVE  Fits' /\ Sound'
<1> USE DEF IInv, Typed
<1>0. /\ DOMAIN paired \subseteq Devices /\ \A e \in Devices : store[e] \in Nat /\ told[e] \in Nat
      /\ 0 \in Snaps /\ UNCHANGED <<failing, pushed, paired, outcome>>
      /\ \A p \in Procs : call[p] \in Calls
  BY WorldIs, SnapsAreNat DEF memory, cache, Reboot
<1>1. /\ store'[d] = 0 /\ told'[d] = 0
      /\ \A e \in Devices \ {d} : store'[e] = store[e] /\ told'[e] = told[e]
      /\ store' \in [Devices -> Snaps] /\ told' \in [Devices -> Snaps]
      /\ slot' \in [Devices -> {"none", "us", "other"}]
  BY <1>0 DEF Reboot, Fits, TypeOK
<1>2. \A p \in Procs :
        /\ call'[p] \in Calls /\ call'[p].pc = call[p].pc /\ call'[p].snap = call[p].snap
        /\ call'[p].res = call[p].res /\ call'[p].host = call[p].host
        /\ call[p].void \subseteq call'[p].void
        /\ d \in DOMAIN call[p].res => d \in call'[p].void
  <2> SUFFICES ASSUME NEW p \in Procs
               PROVE  /\ call'[p] \in Calls /\ call'[p].pc = call[p].pc
                      /\ call'[p].snap = call[p].snap /\ call'[p].res = call[p].res
                      /\ call'[p].host = call[p].host /\ call[p].void \subseteq call'[p].void
                      /\ d \in DOMAIN call[p].res => d \in call'[p].void
    OBVIOUS
  <2>1. call[p] \in Calls
    BY <1>0
  <2>2. CASE d \in DOMAIN call[p].res
    <3>1. call'[p] = [call[p] EXCEPT !.void = @ \cup {d}]
      BY <2>2 DEF Reboot
    <3> QED BY <2>1, <3>1 DEF Calls
  <2>3. CASE d \notin DOMAIN call[p].res
    BY <2>1, <2>3 DEF Reboot
  <2> QED BY <2>2, <2>3
<1>3. Fits'
  <2>1. call' = [p \in Procs |-> call'[p]]
    BY DEF Reboot
  <2>2. call' \in [Procs -> Calls]
    BY <1>2, <2>1
  <2>3. \A p \in Procs : CallFits(p)'
    BY <1>2 DEF CallFits, Fits
  <2> QED BY <1>0, <1>1, <2>2, <2>3 DEF Fits, TypeOK, Reboot, cache
<1>4. \A p \in Procs : Kept(p)'
  <2> SUFFICES ASSUME NEW p \in Procs, NEW e \in DOMAIN call[p].res, call[p].res[e] = "ok",
                      e \notin call'[p].void
               PROVE  store'[e] >= call[p].snap
    BY <1>2 DEF Kept
  <2>1. e # d /\ e \notin call[p].void /\ e \in Devices
    BY <1>2, WorldIs
  <2> QED BY <1>1, <2>1 DEF Sound, Kept
<1>5. OkIsKept'
  BY <1>0, <1>1 DEF Sound, OkIsKept
<1>6. Misjudged' \subseteq Misjudged
  BY <1>0, <1>1 DEF Misjudged
<1>7. DaemonSound'
  <2> SUFFICES ASSUME Codex
               PROVE  /\ pushed' # 0 => Misjudged' = {}
                      /\ \A p \in Procs : Targets(p)'
                      /\ \A p \in Children : call'[p].pc = "idle"
    BY DEF DaemonSound, Codex
  <2> QED BY <1>0, <1>2, <1>6 DEF Sound, DaemonSound, Targets, Children
<1> QED BY <1>3, <1>4, <1>5, <1>7 DEF Sound

\* With the daemon go its calls and its memory; it will not judge any device before
\* it has pushed to all.
LEMMA DaemonDiesSound ==
  ASSUME IInv, DaemonDies, UNCHANGED <<world, cache, told, study>>
  PROVE  Fits' /\ Sound' /\ DaemonFits'
<1> USE DEF IInv, Typed
<1>1. DaemonFits'
  <2>1. DaemonInit'
    BY DEF DaemonDies, DaemonInit
  <2> QED BY <2>1, DaemonInitFits, PTL
<1>2. pushed' = 0 /\ \A q \in Procs : call'[q] = Idle
  BY DEF DaemonDies
<1>3. Fits'
  <2>1. call' \in [Procs -> Calls]
    BY IdleIsCall DEF DaemonDies
  <2>2. \A q \in Procs : CallFits(q)'
    BY <1>2, IdleIsCall DEF CallFits
  <2> QED BY <2>1, <2>2 DEF Fits, TypeOK, world, cache
<1>4. \A q \in Procs : Kept(q)' /\ Targets(q)'
  BY <1>2, IdleIsCall DEF Kept, Targets
<1>5. OkIsKept'
  BY DEF Sound, OkIsKept, world, cache
<1>6. DaemonSound'
  BY <1>2, <1>4, IdleIsCall DEF DaemonSound, Children
<1> QED BY <1>1, <1>3, <1>4, <1>5, <1>6 DEF Sound

\* What may happen without the calls and the records.
LEMMA ServesSound ==
  ASSUME IInv, UNCHANGED study, Bootstrap \/ Poll \/ ServerEnds \/ \E n \in BOOLEAN : Change(n)
  PROVE  Fits' /\ Sound' /\ DaemonFits'
<1>0. /\ DaemonTypeOK /\ \A g \in Servers : RoundFits(g)
      /\ up \in [Devices -> BOOLEAN] /\ addr \in [Devices -> Hosts] /\ usage \in Snaps
      /\ cool \subseteq Devices /\ queue \in Queues /\ MaxUsage \in Nat
  BY SnapsAreNat DEF IInv, Typed, HostsTypeOK, Fits, TypeOK, DaemonTypeOK, Queues
<1>1. /\ UNCHANGED <<call, store, slot, paired, outcome, told, failing, pushed, up, addr, cool>>
      /\ UNCHANGED <<missed, dead, round>>
  BY DEF Bootstrap, Poll, ServerEnds, Change, world, cache
<1>2. usage' \in Snaps
  <2>1. CASE \E n \in BOOLEAN : Change(n)
    BY <1>0, <2>1 DEF Change, Snaps
  <2>2. CASE UNCHANGED usage
    BY <1>0, <2>2
  <2> QED BY <2>1, <2>2 DEF Bootstrap, Poll, ServerEnds, world
<1>3. queue' \in Queues
  <2>1. CASE \E s \in Snaps : Enqueue(s)
    BY <1>0, <2>1, EnqueueFits
  <2>2. CASE UNCHANGED queue
    BY <1>0, <2>2
  <2> QED BY <1>0, <1>2, <2>1, <2>2 DEF Bootstrap, Poll, ServerEnds, Change
<1>4. server' \in [up : BOOLEAN, count : 0..MaxServers]
  <2>1. server \in [up : BOOLEAN, count : 0..MaxServers] /\ MaxServers \in Nat
    BY <1>0, DaemonAssumption DEF DaemonTypeOK
  <2>2. CASE Bootstrap
    BY <2>1, <2>2 DEF Bootstrap
  <2>3. CASE ServerEnds
    BY <2>1, <2>3 DEF ServerEnds
  <2>4. CASE UNCHANGED server
    BY <2>1, <2>4
  <2> QED BY <2>2, <2>3, <2>4 DEF Poll, Change
<1>5. DaemonFits'
  BY <1>0, <1>1, <1>3, <1>4 DEF DaemonFits, DaemonTypeOK, RoundFits, Queues
<1>6. up' \in [Devices -> BOOLEAN] /\ addr' \in [Devices -> Hosts] /\ cool' \subseteq Devices
  BY <1>0, <1>1
<1>7. Fits' /\ Sound'
  BY <1>1, <1>2, <1>6, Aside
<1> QED BY <1>5, <1>7

LEMMA TakeSound ==
  ASSUME IInv, NEW g \in Servers, Take(g), UNCHANGED study
  PROVE  Fits' /\ Sound' /\ DaemonFits'
<1>0. /\ DaemonTypeOK /\ \A h \in Servers : RoundFits(h)
      /\ queue \in Queues /\ queue # << >>
  BY DEF IInv, Typed, HostsTypeOK, DaemonTypeOK, Queues, Take
<1>1. Head(queue) \in Snaps /\ Tail(queue) \in Queues
  BY <1>0, TailFits
<1>2. DaemonFits'
  BY <1>0, <1>1 DEF DaemonFits, DaemonTypeOK, RoundFits, Queues, Take
<1>3. Fits' /\ Sound'
  BY <1>1, WorkersAre, StartSound DEF Take
<1> QED BY <1>2, <1>3

LEMMA WorkerDiesSound ==
  ASSUME IInv, NEW g \in Servers, WorkerDies(Pusher(g)) \/ WorkerDies(Health(g)),
         UNCHANGED study
  PROVE  Fits' /\ Sound' /\ DaemonFits'
<1>1. PICK w \in Procs : WorkerDies(w)
  BY WorkersAre
<1>2. Fits' /\ Sound'
  BY <1>1, CallEnds DEF WorkerDies
<1>3. server' \in [up : BOOLEAN, count : 0..MaxServers] /\ dead' \subseteq Procs
  BY <1>1 DEF WorkerDies, IInv, Typed, HostsTypeOK, DaemonTypeOK
<1>4. DaemonFits'
  BY <1>1, <1>3 DEF WorkerDies, IInv, Typed, HostsTypeOK, DaemonFits, DaemonTypeOK, RoundFits
<1> QED BY <1>2, <1>4

\* A cooldown passes, a display is switched on or off or gets another address.
LEMMA WorldSound ==
  ASSUME IInv, NEW d \in Devices, NEW h \in Hosts, Cooldown(d) \/ Switch(d) \/ Move(d, h),
         UNCHANGED <<memory, study>>
  PROVE  Fits' /\ Sound'
<1>0. /\ up \in [Devices -> BOOLEAN] /\ addr \in [Devices -> Hosts] /\ usage \in Snaps
      /\ cool \subseteq Devices
  BY DEF IInv, Typed, Fits, TypeOK
<1>1. UNCHANGED <<call, store, slot, paired, outcome, told, failing, pushed>>
  BY DEF Cooldown, Switch, Move, world, cache, memory
<1>2. /\ up' \in [Devices -> BOOLEAN] /\ addr' \in [Devices -> Hosts] /\ usage' \in Snaps
      /\ cool' \subseteq Devices
  BY <1>0 DEF Cooldown, Switch, Move, world, cache
<1> QED BY <1>1, <1>2, Aside

\* A step that leaves the daemon's own state alone.
LEMMA DaemonAside ==
  ASSUME IInv, UNCHANGED <<memory, round>>
  PROVE  DaemonFits' /\ UNCHANGED <<failing, pushed>>
BY DaemonStays DEF IInv, Typed, HostsTypeOK, DaemonFits, memory

LEMMA ChildrenSound ==
  ASSUME IInv, NEW q \in Procs, Draws(q) \/ Child(q)
  PROVE  Fits' /\ Sound' /\ DaemonFits'
<1>0. UNCHANGED <<memory, round, study, faults>> /\ q \in Children
  BY DEF Draws, Child
<1>1. DaemonFits' /\ UNCHANGED <<failing, pushed, study>>
  BY <1>0, DaemonAside
<1>2. usage \in Snaps /\ Visible \in Maps
  BY VisibleIsMap DEF IInv, Typed, Fits, TypeOK
<1>3. CASE Draws(q)
  <2>1. ~Codex /\ Start(q, usage) /\ UNCHANGED <<world, cache, told>>
    BY <1>3 DEF Draws, Turn, Claude, Codex
  <2> QED BY <1>1, <1>2, <2>1, StartSound
<1>4. CASE Child(q)
  <2>1. ASSUME NEW d \in Devices, Writes(q, d)
        PROVE  Fits' /\ Sound' /\ DaemonFits'
    <3>1. ~Codex
      BY <1>0, <2>1 DEF Writes, Book, IInv, Sound, DaemonSound
    <3> QED BY <1>1, <2>1, <3>1, WritesSound
  <2>2. CASE \A d \in Devices : ~Writes(q, d)
    <3>1. \/ \E d \in Devices, lost \in BOOLEAN :
               Claim(q, d, lost) \/ Send(q, d, lost) \/ Retry(q, d, lost)
          \/ Find(q, Visible) \/ Browse(q, Visible) \/ Split(q, Visible) \/ SplitFails(q)
          \/ Claimed(q) \/ Refresh(q) \/ Settle(q)
      BY <1>4, <2>2 DEF Child, ChildStep
    <3> QED BY <1>1, <1>2, <3>1, CallStepSound
  <2> QED BY <2>1, <2>2
<1> QED BY <1>3, <1>4

\* The pusher and the health loop of a server.
LEMMA WorkersSound ==
  ASSUME IInv, NEW g \in Servers, Pushes(g) \/ Checks(g)
  PROVE  Fits' /\ Sound' /\ DaemonFits'
<1>0. Codex /\ UNCHANGED study /\ Visible \in Maps
  BY VisibleIsMap DEF Pushes, Checks, IInv, Typed, Fits, TypeOK
<1>1. ASSUME NEW w \in Procs, w \notin Children, CallStep(w) \/ Record(w)
      PROVE  Fits' /\ Sound' /\ DaemonFits'
  <2>1. CASE Record(w)
    BY <1>0, <1>1, <2>1, RecordSound, RecordFits
  <2>2. CASE CallStep(w)
    <3>1. DaemonFits' /\ UNCHANGED <<failing, pushed, study>>
      BY <1>0, <2>2, DaemonAside DEF CallStep
    <3>2. \/ \E d \in Devices, lost \in BOOLEAN :
               Claim(w, d, lost) \/ Send(w, d, lost) \/ Retry(w, d, lost)
          \/ Find(w, Visible) \/ Browse(w, Visible) \/ Split(w, Visible) \/ SplitFails(w)
          \/ Claimed(w) \/ Refresh(w) \/ Settle(w)
      BY <2>2 DEF CallStep
    <3> QED BY <1>0, <3>1, <3>2, CallStepSound
  <2> QED BY <1>1, <2>1, <2>2
<1>2. CASE Pushes(g)
  BY <1>0, <1>1, <1>2, WorkersAre, TakeSound DEF Pushes
<1>3. CASE Checks(g)
  BY <1>0, <1>1, <1>3, WorkersAre, HealthSound DEF Checks
<1> QED BY <1>2, <1>3

LEMMA LosesSound ==
  ASSUME IInv, LosesAnswer
  PROVE  Fits' /\ Sound' /\ DaemonFits'
<1>0. UNCHANGED study
  BY DEF LosesAnswer
<1>1. ASSUME NEW d \in Devices, NEW q \in Procs, UNCHANGED <<memory, round>>,
             Claim(q, d, TRUE) \/ Send(q, d, TRUE) \/ Retry(q, d, TRUE)
      PROVE  Fits' /\ Sound' /\ DaemonFits'
  <2>1. DaemonFits' /\ UNCHANGED <<failing, pushed, study>>
    BY <1>0, <1>1, DaemonAside
  <2> QED BY <1>1, <2>1, ClaimSound, SendSound, RetrySound
<1>2. ASSUME NEW d \in Devices, NEW g \in Servers, Probe(g, d, TRUE) \/ ProbeAgain(g, d, TRUE)
      PROVE  Fits' /\ Sound' /\ DaemonFits'
  BY <1>0, <1>2, ProbeSound, ProbeAgainSound
<1>3. Agents \subseteq Procs
  BY DEF Agents
<1> QED BY <1>1, <1>2, <1>3 DEF LosesAnswer

LEMMA MissesSound ==
  ASSUME IInv, MissesDisplay
  PROVE  Fits' /\ Sound' /\ DaemonFits'
<1>0. UNCHANGED study /\ Agents \subseteq Procs
  BY DEF MissesDisplay, Agents
<1>1. \A found \in Subsets(Visible) : found \in Maps
  BY VisibleIsMap DEF IInv, Typed, Fits, TypeOK
<1>2. ASSUME NEW found \in Maps, NEW q \in Procs, UNCHANGED <<memory, round>>,
             Find(q, found) \/ Browse(q, found) \/ Split(q, found)
      PROVE  Fits' /\ Sound' /\ DaemonFits'
  <2>1. DaemonFits' /\ UNCHANGED <<failing, pushed, study>>
    BY <1>0, <1>2, DaemonAside
  <2> QED BY <1>2, <2>1, FindSound, SplitSound
<1>3. ASSUME NEW q \in Procs, UNCHANGED <<memory, round>>, SplitFails(q)
      PROVE  Fits' /\ Sound' /\ DaemonFits'
  <2>1. DaemonFits' /\ UNCHANGED <<failing, pushed, study>>
    BY <1>0, <1>3, DaemonAside
  <2> QED BY <1>3, <2>1, RefreshSound
<1>4. ASSUME NEW found \in Maps, NEW g \in Servers,
             Relocate(g, found) \/ Rebind(g, found) \/ Part(g, found)
      PROVE  Fits' /\ Sound' /\ DaemonFits'
  BY <1>0, <1>4, RelocateSound, RebindSound, PartSound
<1>5. ASSUME NEW g \in Servers, PartFails(g)
      PROVE  Fits' /\ Sound' /\ DaemonFits'
  BY <1>0, <1>5, NowhereIsMap, PartSound
<1> QED BY <1>0, <1>1, <1>2, <1>3, <1>4, <1>5 DEF MissesDisplay

LEMMA DiesSound ==
  ASSUME IInv, ProcessDies
  PROVE  Fits' /\ Sound' /\ DaemonFits'
<1>0. UNCHANGED study
  BY DEF ProcessDies
<1>1. CASE ServerEnds
  BY <1>0, <1>1, ServesSound
<1>2. ASSUME NEW g \in Servers, WorkerDies(Pusher(g)) \/ WorkerDies(Health(g))
      PROVE  Fits' /\ Sound' /\ DaemonFits'
  BY <1>0, <1>2, WorkerDiesSound
<1>3. CASE DaemonDies /\ UNCHANGED <<world, cache, told>>
  BY <1>0, <1>3, DaemonDiesSound
<1>4. ASSUME NEW q \in Children, ChildDies(q), UNCHANGED <<memory, round>>
      PROVE  Fits' /\ Sound' /\ DaemonFits'
  <2>1. DaemonFits' /\ UNCHANGED <<failing, pushed, study>>
    BY <1>0, <1>4, DaemonAside
  <2>2. q \in Procs
    BY DEF Children
  <2> QED BY <1>4, <2>1, <2>2, CallEnds DEF ChildDies
<1> QED BY <1>1, <1>2, <1>3, <1>4 DEF ProcessDies

LEMMA ChangesSound ==
  ASSUME IInv, DisplayChanges
  PROVE  Fits' /\ Sound' /\ DaemonFits'
<1>0. UNCHANGED <<memory, round, study>>
  BY DEF DisplayChanges
<1>1. DaemonFits'
  BY <1>0, DaemonAside
<1>2. slot \in [Devices -> {"none", "us", "other"}] /\ Devices \subseteq Hosts
  BY FanoutAssumption DEF IInv, Typed, Fits, TypeOK
<1>3. ASSUME NEW d \in Devices, NEW h \in Hosts, Switch(d) \/ Move(d, h)
      PROVE  Fits' /\ Sound'
  BY <1>0, <1>3, WorldSound
<1>4. ASSUME NEW d \in Devices, NEW o \in {"none", "us", "other"}, Reboot(d, o)
      PROVE  Fits' /\ Sound'
  BY <1>0, <1>4, RebootSound
<1> QED BY <1>1, <1>2, <1>3, <1>4 DEF DisplayChanges

-----------------------------------------------------------------------------
(* The invariant.                                                          *)

LEMMA InitSound == HostsInit => IInv
<1> SUFFICES ASSUME HostsInit PROVE IInv
  OBVIOUS
<1>0. /\ study \in Studies /\ study.cached \in Maps /\ study.first \in Snaps
      /\ study.faults \in Nat
  BY HostsAssumption DEF HostsInit
<1>1. DaemonFits /\ pushed = 0
  BY DaemonInitFits DEF HostsInit, DaemonInit
<1>2. \A q \in Procs : call[q] = Idle
  BY DEF HostsInit, Init
<1>3. Fits
  <2>1. call \in [Procs -> Calls]
    BY IdleIsCall DEF HostsInit, Init
  <2>2. \A q \in Procs : CallFits(q)
    BY <1>2, IdleIsCall DEF CallFits
  <2> QED BY <1>0, <2>1, <2>2, FanoutAssumption, SnapsAreNat DEF Fits, TypeOK, HostsInit, Init
<1>4. \A q \in Procs : Kept(q) /\ Targets(q)
  BY <1>2, IdleIsCall DEF Kept, Targets
<1>5. OkIsKept
  <2>1. DOMAIN paired \subseteq Devices /\ outcome = [d \in Devices |-> "none"]
    BY <1>3, WorldIs DEF HostsInit, Init
  <2> QED BY <2>1 DEF OkIsKept
<1>6. DaemonSound
  BY <1>1, <1>2, <1>4, IdleIsCall DEF DaemonSound, Children
<1>7. HostsTypeOK
  BY <1>0, <1>1, <1>3 DEF HostsTypeOK, Fits, DaemonFits, HostsInit
<1> QED BY <1>1, <1>3, <1>4, <1>5, <1>6, <1>7 DEF IInv, Typed, Sound, DaemonFits

LEMMA StepSound == IInv /\ [Next]_vars => IInv'
<1> SUFFICES ASSUME IInv, [Next]_vars PROVE IInv'
  OBVIOUS
<1>1. /\ study' = study
      /\ UNCHANGED faults \/ (faults < study.faults /\ faults' = faults + 1)
  BY DEF Next, vars, UsageChanges, Serves, Polls, Draws, Child, Pushes, Checks, Cools,
         LosesAnswer, MissesDisplay, ProcessDies, DisplayChanges, May
<1>2. study' \in Studies /\ faults' \in 0..study'.faults
  BY <1>1, HostsAssumption DEF IInv, Typed, HostsTypeOK
<1>3. Fits' /\ Sound' /\ DaemonFits'
  <2>1. CASE UsageChanges
    <3>1. CASE \E n \in BOOLEAN : Change(n)
      BY <1>1, <3>1, ServesSound
    <3>2. CASE Work /\ UNCHANGED <<memory, round>>
      <4>1. DaemonFits' /\ UNCHANGED <<failing, pushed>>
        BY <3>2, DaemonAside
      <4>2. /\ up \in [Devices -> BOOLEAN] /\ addr \in [Devices -> Hosts]
            /\ usage \in Snaps /\ cool \subseteq Devices
        BY DEF IInv, Typed, Fits, TypeOK
      <4>3. usage' \in Snaps /\ UNCHANGED <<store, slot, up, addr, paired, outcome, cool>>
        BY <3>2, <4>2, SnapsAreNat DEF Work, Snaps, cache
      <4>4. UNCHANGED <<call, told>>
        BY <3>2 DEF Work
      <4> QED BY <1>1, <4>1, <4>2, <4>3, <4>4, Aside
    <3> QED BY <2>1, <3>1, <3>2 DEF UsageChanges
  <2>2. CASE Serves \/ Polls
    BY <1>1, <2>2, ServesSound DEF Serves, Polls
  <2>3. ASSUME NEW q \in Procs, Draws(q) \/ Child(q)
        PROVE  Fits' /\ Sound' /\ DaemonFits'
    BY <2>3, ChildrenSound
  <2>4. ASSUME NEW g \in Servers, Pushes(g) \/ Checks(g)
        PROVE  Fits' /\ Sound' /\ DaemonFits'
    BY <2>4, WorkersSound
  <2>5. ASSUME NEW d \in Devices, Cools(d)
        PROVE  Fits' /\ Sound' /\ DaemonFits'
    <3>1. Cooldown(d) /\ UNCHANGED <<memory, round, study>> /\ d \in Hosts
      BY <2>5, FanoutAssumption DEF Cools
    <3> QED BY <3>1, WorldSound, DaemonAside
  <2>6. CASE LosesAnswer \/ MissesDisplay
    BY <2>6, LosesSound, MissesSound
  <2>7. CASE ProcessDies \/ DisplayChanges
    BY <2>7, DiesSound, ChangesSound
  <2>8. CASE UNCHANGED vars
    <3>1. UNCHANGED <<memory, round, call, store, slot, paired, outcome, told, study>>
          /\ UNCHANGED <<up, addr, usage, cool>>
      BY <2>8 DEF vars, world, cache
    <3>2. DaemonFits' /\ UNCHANGED <<failing, pushed>>
      BY <3>1, DaemonAside
    <3>3. /\ up \in [Devices -> BOOLEAN] /\ addr \in [Devices -> Hosts]
          /\ usage \in Snaps /\ cool \subseteq Devices
      BY DEF IInv, Typed, Fits, TypeOK
    <3> QED BY <3>1, <3>2, <3>3, Aside
  <2> QED BY <2>1, <2>2, <2>3, <2>4, <2>5, <2>6, <2>7, <2>8 DEF Next
<1> QED BY <1>2, <1>3 DEF IInv, Typed, HostsTypeOK, Fits, DaemonFits

LEMMA Always == Spec => []IInv
BY InitSound, StepSound, PTL DEF Spec

\* The records, the calls of all processes and the rounds of the health loops have
\* their types, whatever goes wrong: the queue never outgrows SNAPSHOT_QUEUE_MAX, a
\* miss is counted up to HEALTH_FAILURE_THRESHOLD, and what a round has sorted into
\* "diverged" and "rebind" has a host in the list it works from, so that
\* _health_loop never looks for the host of a device it has none for.
THEOREM HostsTyped == Spec => []HostsTypeOK
BY Always, PTL DEF IInv, Typed

\* When the status file says ok of a paired display, and the push recorded last was
\* answered by the display itself, which has not restarted since, the display holds
\* what that push was to bring: whatever is lost, moved, reset, killed or overtaken,
\* for any number of displays, addresses, app servers and children.  Of a display for
\* which another has answered at a shared address it promises nothing, nor of a
\* newer push that was recorded before an older one.
THEOREM OkHolds == Spec => []OkIsDelivered
<1>1. IInv => OkIsDelivered
  BY DEF IInv, Sound, OkIsKept, OkIsDelivered
<1> QED BY <1>1, Always, PTL
=============================================================================
