--------------------------- MODULE Device_proofs ---------------------------
(***************************************************************************)
(* Theorems about Device for any clients, capture times, button hold and   *)
(* set of faults.  The argument: the httpd task is the only one that fills *)
(* a slot, and it serves one request at a time, so what it read of a slot  *)
(* can only be invalidated by an erase, which is recorded in wiped.        *)
(***************************************************************************)
EXTENDS Device, TLAPS

\* A save is only under way for a slot that is empty.
SaveIsFree == http.pc = "save" => slot[http.agent] = None

\* A request past the pairing check is the owner's, or the slot was erased.
AdmittedIsOwner ==
  http.pc \in {"refresh", "txt", "put"} =>
    slot[http.agent] = http.cid \/ http.agent \in wiped

\* A stored snapshot is the owner's, or the slot was erased.
StoredIsOwners ==
  \A a \in Agents : snap[a] # None => slot[a] = snap[a].by \/ a \in wiped

\* Wherever a "1" is held for an agent, its slot is taken or was erased.
OneIsTaken ==
  /\ \A a \in Agents : txt[a] = "1" \/ cache[a] = "1" => slot[a] # None \/ a \in wiped
  /\ http.pc = "txt" /\ http.val = "1" =>
       slot[http.agent] # None \/ http.agent \in wiped
  /\ reset.pc = "txt" /\ reset.val = "1" =>
       slot[Known[reset.i]] # None \/ Known[reset.i] \in wiped

\* What a survey has seen so far still holds.
SurveyIsCurrent ==
  http.pc \in {"health", "ota", "health_body", "ota_body"} /\ wiped = {} =>
    /\ http.seen = "hit" => \E a \in Agents : slot[a] = http.cid /\ http.cid # None
    /\ http.seen = "free" =>
         \A j \in 1..2 : j < http.i \/ http.pc = "health_body" => slot[Known[j]] = None
    /\ http.pc = "health_body" => http.seen \in {"hit", "free"}
    /\ http.pc = "ota_body" => http.seen = "hit"

IInv ==
  /\ TypeOK
  /\ SaveIsFree
  /\ AdmittedIsOwner
  /\ StoredIsOwners
  /\ OneIsTaken
  /\ SurveyIsCurrent

LEMMA KnownAgents ==
  /\ Len(Known) = 2
  /\ \A i \in 1..2 : Known[i] \in Agents
  /\ \A a \in Agents : \E i \in 1..2 : Known[i] = a
BY DEF Known, Agents

LEMMA InitIInv == Init => IInv
BY DeviceAssumption DEF Init, IInv, TypeOK, HttpStates, HttpSteps, ResetStates, SaveIsFree, AdmittedIsOwner, StoredIsOwners,
  OneIsTaken, SurveyIsCurrent, IdleHttp, Request, IdleReset, FirstStart, Agents, Flag

\* A restart establishes everything but what flash holds.
LEMMA RestartIInv == \A cr \in BOOLEAN : IInv /\ Restart(cr) => IInv'
<1> SUFFICES ASSUME NEW cr \in BOOLEAN, IInv, Restart(cr) PROVE IInv'
  OBVIOUS
<1>1. slot' \in [Agents -> Clients \cup {None}] /\ creds' \in BOOLEAN
  BY DEF Restart, IInv, TypeOK
<1>2. start' \in {"ap", "wait_ip"}
  BY <1>1 DEF Restart, FirstStart
<1>3. /\ snap' = [a \in Agents |-> None] /\ wiped' = {}
      /\ cache' = [a \in Agents |-> "0"] /\ txt' = [a \in Agents |-> "0"]
      /\ http' = IdleHttp /\ reset' = IdleReset
  BY DEF Restart
<1>4. http' \in HttpStates /\ http'.pc = "idle"
  BY <1>3 DEF IdleHttp, Request, HttpStates, HttpSteps, Agents, Flag
<1>5. reset' \in ResetStates /\ reset'.pc = "poll"
  BY <1>3, DeviceAssumption DEF IdleReset, ResetStates, Flag
<1>6. TypeOK'
  BY <1>1, <1>2, <1>3, <1>4, <1>5 DEF TypeOK, Flag
<1> QED
  BY <1>3, <1>4, <1>5, <1>6 DEF IInv, SaveIsFree, AdmittedIsOwner, StoredIsOwners,
    OneIsTaken, SurveyIsCurrent

LEMMA EnvironmentIInv == IInv /\ Environment => IInv'
<1> SUFFICES ASSUME IInv, Environment PROVE IInv'
  OBVIOUS
<1>1. CASE PowerCycle
  BY <1>1, RestartIInv DEF PowerCycle, IInv, TypeOK
<1>2. CASE Provision
  BY <1>2 DEF Provision, IInv, TypeOK, SaveIsFree, AdmittedIsOwner, StoredIsOwners,
    OneIsTaken, SurveyIsCurrent
<1>3. CASE ProvisionRestart
  BY <1>3, RestartIInv DEF ProvisionRestart, IInv, TypeOK
<1>4. CASE WifiGivesUp
  BY <1>4, RestartIInv DEF WifiGivesUp, IInv, TypeOK, Works
<1>5. CASE GotIp
  BY <1>5 DEF GotIp, IInv, TypeOK, SaveIsFree, AdmittedIsOwner, StoredIsOwners,
    OneIsTaken, SurveyIsCurrent
<1> QED
  BY <1>1, <1>2, <1>3, <1>4, <1>5 DEF Environment

LEMMA MdnsIInv == IInv /\ MdnsStart => IInv'
<1> SUFFICES ASSUME IInv, MdnsStart PROVE IInv'
  OBVIOUS
<1>1. ASSUME NEW a \in Agents,
             NEW from \in {"read_claude", "read_codex"}, NEW to \in {"read_codex", "add"},
             MdnsCollect(a, from, to)
      PROVE  IInv'
  BY <1>1 DEF MdnsCollect, PairedValue, Works, IInv, TypeOK, Flag, SaveIsFree,
    AdmittedIsOwner, StoredIsOwners, OneIsTaken, SurveyIsCurrent
<1>2. CASE MdnsAdd
  BY <1>2 DEF MdnsAdd, IInv, TypeOK, SaveIsFree, AdmittedIsOwner, StoredIsOwners,
    OneIsTaken, SurveyIsCurrent
<1> QED
  BY <1>1, <1>2 DEF MdnsStart, Agents

\* A step of the httpd task that leaves the slots, the TXT record and the
\* store alone keeps the invariant if the request it leaves behind is typed
\* and its own part of the invariant holds.
LEMMA RequestIInv ==
  ASSUME IInv, UNCHANGED <<slot, creds, snap, cache, txt, start, reset, wiped>>,
         http' \in HttpStates,
         http'.pc \in {"save", "refresh", "txt", "put"} =>
           http'.cid \in Clients,
         SaveIsFree', AdmittedIsOwner', SurveyIsCurrent', http'.pc # "txt"
  PROVE  IInv'
BY DEF IInv, TypeOK, StoredIsOwners, OneIsTaken

\* Back to idle is always such a step.
LEMMA IdleIInv ==
  ASSUME IInv, UNCHANGED <<slot, creds, snap, cache, txt, start, reset, wiped>>,
         http' = IdleHttp
  PROVE  IInv'
<1>1. http' \in HttpStates /\ http'.pc = "idle"
  BY DEF IdleHttp, Request, HttpStates, HttpSteps, Agents, Flag
<1> QED
  BY <1>1, RequestIInv DEF SaveIsFree, AdmittedIsOwner, SurveyIsCurrent

\* The pairing half of /summary: the load, and the save it may lead to.
LEMMA LoadIInv ==
  ASSUME IInv, NEW a \in Agents, NEW c \in Clients, SummaryLoad(a, c)
  PROVE  IInv'
<1>1. PICK ok \in BOOLEAN :
        \/ /\ BindOutcome(slot[a], c, ok) = "new"
           /\ http' = Request("save", a, c)
        \/ /\ BindOutcome(slot[a], c, ok) = "existing"
           /\ http' = Request("put", a, c)
        \/ UNCHANGED http
  BY DEF SummaryLoad, Works
<1>2. /\ BindOutcome(slot[a], c, ok) = "new" => slot[a] = None
      /\ BindOutcome(slot[a], c, ok) = "existing" => slot[a] = c
  BY DEF BindOutcome
<1>3. UNCHANGED <<slot, creds, snap, cache, txt, start, reset, wiped>>
  BY DEF SummaryLoad
<1>4. ASSUME NEW pc \in {"save", "put"}, http' = Request(pc, a, c),
             slot[a] = IF pc = "save" THEN None ELSE c
      PROVE  IInv'
  <2>1. /\ http' \in HttpStates
        /\ http'.pc = pc /\ http'.agent = a /\ http'.cid = c
    <3>1. pc \in HttpSteps
      BY <1>4 DEF HttpSteps
    <3> QED
      BY <1>4, <3>1 DEF Request, HttpStates, Flag
  <2> QED
    BY <1>3, <1>4, <2>1, RequestIInv DEF SaveIsFree, AdmittedIsOwner, SurveyIsCurrent
<1>5. CASE UNCHANGED http
  BY <1>3, <1>5 DEF IInv, TypeOK, SaveIsFree, AdmittedIsOwner, StoredIsOwners, OneIsTaken,
    SurveyIsCurrent
<1> QED
  BY <1>1, <1>2, <1>4, <1>5

LEMMA SaveIInv == IInv /\ SummarySave => IInv'
<1> SUFFICES ASSUME IInv, SummarySave PROVE IInv'
  OBVIOUS
<1> DEFINE bound == [slot EXCEPT ![http.agent] = http.cid]
<1>1. /\ slot[http.agent] = None /\ http.agent \in Agents /\ http.cid \in Clients
      /\ \A a \in Agents : bound[a] = IF a = http.agent THEN http.cid ELSE slot[a]
      /\ bound \in [Agents -> Clients \cup {None}]
  BY DEF SummarySave, IInv, SaveIsFree, TypeOK, HttpStates
<1>2. /\ slot' \in {slot, bound}
      /\ UNCHANGED <<creds, snap, cache, txt, start, reset, wiped>>
      /\ http.pc = "save"
  BY DEF SummarySave
<1>3. \/ http' \in HttpStates /\ http'.pc = "idle"
      \/ /\ http' \in HttpStates /\ http'.pc = "refresh" /\ slot' = bound
         /\ http'.agent = http.agent /\ http'.cid = http.cid
  BY DEF SummarySave, IInv, TypeOK, HttpStates, HttpSteps, IdleHttp, Request, Agents, Flag
<1>4. TypeOK'
  BY <1>1, <1>2, <1>3 DEF IInv, TypeOK
<1>5. StoredIsOwners'
  BY <1>1, <1>2, DeviceAssumption DEF IInv, TypeOK, StoredIsOwners, Snapshot
<1>6. OneIsTaken'
  <2>1. \A a \in Agents : slot[a] # None => slot'[a] # None
    BY <1>1, <1>2
  <2>2. reset.i \in 1..2
    BY DEF IInv, TypeOK, ResetStates
  <2> QED
    BY <1>2, <1>3, <2>1, <2>2, KnownAgents DEF IInv, OneIsTaken
<1>7. SaveIsFree' /\ AdmittedIsOwner' /\ SurveyIsCurrent'
  BY <1>1, <1>2, <1>3 DEF SaveIsFree, AdmittedIsOwner, SurveyIsCurrent
<1> QED
  BY <1>4, <1>5, <1>6, <1>7 DEF IInv

\* The rest of /summary: the two steps of the TXT refresh, and the put.
LEMMA RefreshIInv == IInv /\ SummaryRefresh => IInv'
<1> SUFFICES ASSUME IInv, SummaryRefresh PROVE IInv'
  OBVIOUS
<1>1. /\ UNCHANGED <<slot, creds, snap, txt, start, reset, wiped>>
      /\ http.pc = "refresh" /\ http.agent \in Agents
  BY DEF SummaryRefresh, IInv, TypeOK, HttpStates
<1>2. CASE http' = [http EXCEPT !.pc = "put"] /\ UNCHANGED cache
  <2>1. /\ http' \in HttpStates /\ http'.pc = "put" /\ http'.agent = http.agent
        /\ http'.cid = http.cid
    BY <1>2 DEF IInv, TypeOK, HttpStates, HttpSteps
  <2> QED
    BY <1>1, <1>2, <2>1, RequestIInv DEF IInv, TypeOK, SaveIsFree, AdmittedIsOwner,
      SurveyIsCurrent
<1>3. ASSUME NEW v \in Flag, RefreshRead(http.agent, v),
             http' = [http EXCEPT !.pc = "txt", !.val = v]
      PROVE  IInv'
  <2>1. /\ http' \in HttpStates /\ http'.pc = "txt" /\ http'.agent = http.agent
        /\ http'.cid = http.cid /\ http'.val = v
    BY <1>3 DEF IInv, TypeOK, HttpStates, HttpSteps
  <2>2. v = "1" => slot[http.agent] # None \/ http.agent \in wiped
    BY <1>1, <1>3 DEF RefreshRead, PairedValue, Works, IInv, OneIsTaken
  <2>3. /\ cache' \in [Agents -> Flag]
        /\ \A a \in Agents : cache'[a] = IF a = http.agent THEN v ELSE cache[a]
    BY <1>1, <1>3 DEF RefreshRead, IInv, TypeOK
  <2>4. TypeOK'
    BY <1>1, <2>1, <2>3 DEF IInv, TypeOK
  <2>5. OneIsTaken'
    BY <1>1, <2>1, <2>2, <2>3 DEF IInv, OneIsTaken
  <2>6. SaveIsFree' /\ AdmittedIsOwner' /\ StoredIsOwners' /\ SurveyIsCurrent'
    BY <1>1, <2>1 DEF IInv, SaveIsFree, AdmittedIsOwner, StoredIsOwners, SurveyIsCurrent
  <2> QED
    BY <2>4, <2>5, <2>6 DEF IInv
<1> QED
  BY <1>2, <1>3 DEF SummaryRefresh

LEMMA PublishIInv == IInv /\ (SummaryTxt \/ \E t \in Times : SummaryPut(t)) => IInv'
<1> SUFFICES ASSUME IInv, SummaryTxt \/ \E t \in Times : SummaryPut(t) PROVE IInv'
  OBVIOUS
<1>1. http.agent \in Agents /\ http \in HttpStates
  BY DEF IInv, TypeOK, HttpStates
<1>2. CASE SummaryTxt
  <2>1. /\ UNCHANGED <<slot, creds, snap, cache, start, reset, wiped>>
        /\ http.pc = "txt"
        /\ txt' \in {txt, [txt EXCEPT ![http.agent] = http.val]}
    BY <1>2 DEF SummaryTxt, RefreshSet, Works
  <2>2. /\ http' \in HttpStates /\ http'.pc = "put" /\ http'.agent = http.agent
        /\ http'.cid = http.cid
    BY <1>1, <1>2 DEF SummaryTxt, HttpStates, HttpSteps, Flag
  <2>3. /\ txt' \in [Agents -> Flag]
        /\ \A a \in Agents : txt'[a] = txt[a] \/ (a = http.agent /\ txt'[a] = http.val)
    BY <1>1, <2>1 DEF IInv, TypeOK, HttpStates
  <2>4. TypeOK' /\ OneIsTaken'
    BY <2>1, <2>2, <2>3 DEF IInv, TypeOK, OneIsTaken
  <2>5. SaveIsFree' /\ AdmittedIsOwner' /\ StoredIsOwners' /\ SurveyIsCurrent'
    BY <2>1, <2>2 DEF IInv, SaveIsFree, AdmittedIsOwner, StoredIsOwners, SurveyIsCurrent
  <2> QED
    BY <2>4, <2>5 DEF IInv
<1>3. ASSUME NEW t \in Times, SummaryPut(t) PROVE IInv'
  <2>1. /\ UNCHANGED <<slot, creds, cache, txt, start, reset, wiped>>
        /\ http.pc = "put" /\ http.cid \in Clients
        /\ slot[http.agent] = http.cid \/ http.agent \in wiped
    BY <1>3 DEF SummaryPut, IInv, TypeOK, AdmittedIsOwner
  <2>2. http' \in HttpStates /\ http'.pc = "idle"
    BY <1>3 DEF SummaryPut, IdleHttp, Request, HttpStates, HttpSteps, Agents, Flag
  <2>3. /\ snap' \in [Agents -> Snapshot \cup {None}]
        /\ \A a \in Agents : snap'[a] = snap[a] \/ (a = http.agent /\ snap'[a].by = http.cid)
    BY <1>1, <1>3, <2>1 DEF SummaryPut, IInv, TypeOK, Snapshot
  <2>4. TypeOK' /\ StoredIsOwners'
    BY <2>1, <2>2, <2>3 DEF IInv, TypeOK, StoredIsOwners
  <2>5. SaveIsFree' /\ AdmittedIsOwner' /\ OneIsTaken' /\ SurveyIsCurrent'
    BY <2>1, <2>2 DEF IInv, SaveIsFree, AdmittedIsOwner, OneIsTaken, SurveyIsCurrent
  <2> QED
    BY <2>4, <2>5 DEF IInv
<1> QED
  BY <1>2, <1>3

LEMMA SurveyIInv ==
  ASSUME IInv, NEW op \in {"health", "ota"}, Survey(op) PROVE IInv'
<1> DEFINE now == Seen(http.seen, slot[Known[http.i]], http.cid)
<1>1. /\ Known[http.i] \in Agents
      /\ http.i \in 1..2
      /\ now \in {"free", "taken", "hit"}
      /\ now = "hit" => http.seen = "hit" \/
                        (slot[Known[http.i]] = http.cid /\ http.cid # None)
      /\ now = "free" => http.seen = "free" /\ slot[Known[http.i]] = None
  BY KnownAgents DEF Seen, IInv, TypeOK, HttpStates
<1>2. /\ UNCHANGED <<slot, creds, snap, cache, txt, start, reset, wiped>>
      /\ http.pc = op
      /\ \/ http' = IdleHttp
         \/ http.i = 1 /\ http' = [http EXCEPT !.i = http.i + 1, !.seen = now]
         \/ /\ http.i = 2 /\ Admitted(op, now)
            /\ http' = [http EXCEPT !.pc = Body(op), !.seen = now]
  BY <1>1, KnownAgents DEF Survey
<1>3. CASE http' = IdleHttp
  BY <1>2, <1>3, IdleIInv
<1>4. CASE http.i = 1 /\ http' = [http EXCEPT !.i = http.i + 1, !.seen = now]
  <2>1. /\ http' \in HttpStates /\ http'.pc = op /\ http'.i = 2 /\ http'.seen = now
        /\ http'.cid = http.cid
    <3>1. http' = [http EXCEPT !.i = 2, !.seen = now]
      BY <1>4
    <3>2. http \in HttpStates /\ now \in {"free", "taken", "hit"} /\ http.pc = op
      BY <1>1, <1>2 DEF IInv, TypeOK
    <3> HIDE DEF now
    <3>3. http' \in HttpStates
      <4>1. 2 \in 1..2
        OBVIOUS
      <4>2. \A r \in HttpStates, j \in 1..2, s \in {"free", "taken", "hit"} :
              [r EXCEPT !.i = j, !.seen = s] \in HttpStates
        BY DEF HttpStates
      <4> QED
        BY <3>1, <3>2, <4>1, <4>2
    <3>4. /\ http'.pc = op /\ http'.i = 2 /\ http'.seen = now
          /\ http'.cid = http.cid
      BY <3>1, <3>2 DEF HttpStates
    <3> QED
      BY <3>3, <3>4
  <2>2. SurveyIsCurrent'
    BY <1>1, <1>2, <1>4, <2>1 DEF IInv, SurveyIsCurrent
  <2> QED
    BY <1>2, <2>1, <2>2, RequestIInv DEF SaveIsFree, AdmittedIsOwner
<1>5. CASE /\ http.i = 2 /\ Admitted(op, now)
           /\ http' = [http EXCEPT !.pc = Body(op), !.seen = now]
  <2>1. /\ http' \in HttpStates /\ http'.pc = Body(op) /\ http'.i = 2 /\ http'.seen = now
        /\ http'.cid = http.cid
    BY <1>1, <1>2, <1>5 DEF IInv, TypeOK, HttpStates, HttpSteps, Body
  <2>2. /\ http'.pc \in {"health_body", "ota_body"}
        /\ http'.pc = "health_body" => now \in {"hit", "free"}
        /\ http'.pc = "ota_body" => now = "hit"
    BY <1>5, <2>1 DEF Admitted, Body
  <2>3. SurveyIsCurrent'
    BY <1>1, <1>2, <1>5, <2>1, <2>2 DEF IInv, SurveyIsCurrent
  <2> QED
    BY <1>2, <2>1, <2>2, <2>3, RequestIInv DEF SaveIsFree, AdmittedIsOwner
<1> QED
  BY <1>2, <1>3, <1>4, <1>5

LEMMA HttpdIInv == IInv /\ Httpd => IInv'
<1> SUFFICES ASSUME IInv, Httpd PROVE IInv'
  OBVIOUS
<1>1. CASE Answer
  BY <1>1, IdleIInv DEF Answer
<1>2. ASSUME NEW op \in {"health", "ota"}, NEW c \in Clients \cup {None}, Probe(op, c)
      PROVE  IInv'
  <2>1. /\ http' \in HttpStates /\ http'.pc = op /\ http'.i = 1 /\ http'.seen = "free"
    <3>1. op \in HttpSteps
      BY <1>2 DEF HttpSteps
    <3> QED
      BY <1>2, <3>1 DEF Probe, Request, HttpStates, Agents, Flag
  <2> QED
    BY <1>2, <2>1, RequestIInv DEF Probe, SaveIsFree, AdmittedIsOwner, SurveyIsCurrent
<1> QED
  BY <1>1, <1>2, LoadIInv, SaveIInv, RefreshIInv, PublishIInv, SurveyIInv DEF Httpd

\* The updates of reset stay in ResetStates.
LEMMA ResetUpdates ==
  /\ IdleReset \in ResetStates
  /\ \A r \in ResetStates, n \in 0..(HoldTicks - 1) : [r EXCEPT !.held = n] \in ResetStates
  /\ \A r \in ResetStates, ok \in BOOLEAN :
       [r EXCEPT !.pc = "erase_ids", !.held = 0, !.credsOk = ok] \in ResetStates
  /\ \A r \in ResetStates, pc \in {"wait", "refresh"} :
       [r EXCEPT !.pc = pc, !.idsOk = TRUE] \in ResetStates
  /\ \A r \in ResetStates : [r EXCEPT !.pc = "wait"] \in ResetStates
  /\ \A r \in ResetStates :
       [r EXCEPT !.pc = "refresh", !.i = 2, !.val = "0"] \in ResetStates
<1>0. 0 \in 0..(HoldTicks - 1) /\ 1 \in 1..2 /\ 2 \in 1..2
  BY DeviceAssumption
<1>1. IdleReset \in ResetStates
  BY <1>0 DEF IdleReset, ResetStates, Flag
<1>2. \A r \in ResetStates, n \in 0..(HoldTicks - 1) : [r EXCEPT !.held = n] \in ResetStates
  BY DEF ResetStates
<1>3. \A r \in ResetStates, ok \in BOOLEAN, n \in 0..(HoldTicks - 1) :
        [r EXCEPT !.pc = "erase_ids", !.held = n, !.credsOk = ok] \in ResetStates
  BY DEF ResetStates
<1>4. \A r \in ResetStates, pc \in {"wait", "refresh"} :
        [r EXCEPT !.pc = pc, !.idsOk = TRUE] \in ResetStates
  BY DEF ResetStates
<1>5. \A r \in ResetStates : [r EXCEPT !.pc = "wait"] \in ResetStates
  BY DEF ResetStates
<1>6. \A r \in ResetStates, i \in 1..2 :
        [r EXCEPT !.pc = "refresh", !.i = i, !.val = "0"] \in ResetStates
  BY DEF ResetStates, Flag
<1> QED
  BY <1>0, <1>1, <1>2, <1>3, <1>4, <1>5, <1>6

\* A step of the reset task that touches neither slots nor TXT nor cache.
LEMMA ResetOnlyIInv ==
  ASSUME IInv, UNCHANGED <<slot, snap, cache, txt, start, http, wiped>>,
         creds' \in BOOLEAN, reset' \in ResetStates, reset'.pc # "txt"
  PROVE  IInv'
BY DEF IInv, TypeOK, SaveIsFree, AdmittedIsOwner, StoredIsOwners, OneIsTaken,
  SurveyIsCurrent

\* Erasing slots is harmless to the invariant because wiped records it.
LEMMA EraseIInv == IInv /\ EraseIds => IInv'
<1> SUFFICES ASSUME IInv, EraseIds PROVE IInv'
  OBVIOUS
<1>1. PICK S \in SUBSET Agents : Erase(S)
  BY DEF EraseIds
<1>2. /\ slot' \in [Agents -> Clients \cup {None}]
      /\ wiped' \in SUBSET Agents
      /\ \A a \in Agents : a \in S => a \in wiped'
      /\ \A a \in Agents : slot'[a] = IF a \in S THEN None ELSE slot[a]
      /\ wiped' = {} => wiped = {} /\ \A a \in Agents : slot'[a] = slot[a]
      /\ wiped \subseteq wiped'
  BY <1>1 DEF Erase, IInv, TypeOK
<1>3. /\ UNCHANGED <<creds, snap, cache, txt, start, http>>
      /\ reset' \in ResetStates /\ reset'.pc # "txt"
  <2>1. reset \in ResetStates
    BY DEF IInv, TypeOK
  <2>2. \/ reset' = [reset EXCEPT !.pc = "wait", !.idsOk = TRUE]
        \/ reset' = [reset EXCEPT !.pc = "refresh", !.idsOk = TRUE]
        \/ reset' = [reset EXCEPT !.pc = "wait"]
        \/ reset' = IdleReset
    BY DEF EraseIds
  <2>3. reset'.pc # "txt"
    <3>1. IdleReset.pc # "txt"
      BY DEF IdleReset
    <3>2. [reset EXCEPT !.pc = "wait"].pc # "txt"
      BY <2>1 DEF ResetStates
    <3>3. /\ [reset EXCEPT !.pc = "wait", !.idsOk = TRUE].pc # "txt"
          /\ [reset EXCEPT !.pc = "refresh", !.idsOk = TRUE].pc # "txt"
      BY <2>1 DEF ResetStates
    <3> QED
      BY <2>2, <3>1, <3>2, <3>3
  <2> QED
    BY <2>1, <2>2, <2>3, ResetUpdates DEF EraseIds
<1>4. TypeOK'
  BY <1>2, <1>3 DEF IInv, TypeOK
<1>5. http \in HttpStates
  BY DEF IInv, TypeOK
<1>6. SaveIsFree' /\ AdmittedIsOwner' /\ StoredIsOwners'
  BY <1>2, <1>3, <1>5 DEF IInv, SaveIsFree, AdmittedIsOwner, StoredIsOwners, HttpStates
<1>7. OneIsTaken'
  BY <1>2, <1>3, <1>5 DEF IInv, OneIsTaken, HttpStates
<1>8. SurveyIsCurrent'
  <2>1. CASE wiped' # {}
    BY <2>1 DEF SurveyIsCurrent
  <2>2. CASE wiped' = {}
    <3>1. wiped = {} /\ slot' = slot /\ http' = http
      BY <1>2, <1>3, <2>2 DEF IInv, TypeOK
    <3> QED
      BY <3>1 DEF IInv, SurveyIsCurrent
  <2> QED
    BY <2>1, <2>2
<1> QED
  BY <1>4, <1>6, <1>7, <1>8 DEF IInv

LEMMA ResetTxtIInv == IInv /\ (ResetRefresh \/ ResetTxt) => IInv'
<1> SUFFICES ASSUME IInv, ResetRefresh \/ ResetTxt PROVE IInv'
  OBVIOUS
<1> DEFINE a == Known[reset.i]
<1>1. reset \in ResetStates /\ a \in Agents /\ UNCHANGED <<slot, creds, snap, start, http, wiped>>
  BY KnownAgents DEF IInv, TypeOK, ResetStates, ResetRefresh, ResetTxt
<1>2. NextRefresh \in ResetStates /\ NextRefresh.pc # "txt"
  <2>1. CASE reset.i < Len(Known)
    <3>1. reset.i \in 1..2
      BY <1>1 DEF ResetStates
    <3>2. reset.i + 1 = 2
      BY <2>1, <3>1, KnownAgents
    <3>3. NextRefresh = [reset EXCEPT !.pc = "refresh", !.i = 2, !.val = "0"]
      BY <2>1, <3>2, Zenon DEF NextRefresh
    <3>4. NextRefresh.pc = "refresh"
      BY <1>1, <3>3 DEF ResetStates
    <3> QED
      BY <1>1, <3>3, <3>4, ResetUpdates
  <2>2. CASE ~(reset.i < Len(Known))
    BY <2>2, ResetUpdates DEF NextRefresh, IdleReset
  <2> QED
    BY <2>1, <2>2
<1>3. CASE ResetRefresh /\ reset' = NextRefresh /\ UNCHANGED cache
  BY <1>1, <1>2, <1>3, ResetOnlyIInv DEF ResetRefresh, IInv, TypeOK
<1>4. ASSUME ResetRefresh, NEW v \in Flag, RefreshRead(a, v),
             reset' = [reset EXCEPT !.pc = "txt", !.val = v]
      PROVE  IInv'
  <2>1. reset' \in ResetStates /\ reset'.i = reset.i /\ reset'.val = v
    BY <1>1, <1>4 DEF ResetStates
  <2>2. v = "1" => slot[a] # None \/ a \in wiped
    BY <1>1, <1>4 DEF RefreshRead, PairedValue, Works, IInv, OneIsTaken
  <2>3. /\ cache' \in [Agents -> Flag]
        /\ \A b \in Agents : cache'[b] = IF b = a THEN v ELSE cache[b]
        /\ txt' = txt
    BY <1>1, <1>4 DEF RefreshRead, ResetRefresh, IInv, TypeOK
  <2>4. TypeOK'
    BY <1>1, <2>1, <2>3 DEF IInv, TypeOK
  <2>5. OneIsTaken'
    BY <1>1, <2>1, <2>2, <2>3 DEF IInv, OneIsTaken
  <2> QED
    BY <1>1, <2>3, <2>4, <2>5 DEF IInv, SaveIsFree, AdmittedIsOwner, StoredIsOwners,
      SurveyIsCurrent
<1>5. CASE ResetTxt
  <2>1. /\ reset' = NextRefresh /\ cache' = cache /\ reset.pc = "txt"
        /\ txt' \in {txt, [txt EXCEPT ![a] = reset.val]}
    BY <1>5 DEF ResetTxt, RefreshSet, Works
  <2>2. /\ txt' \in [Agents -> Flag]
        /\ \A b \in Agents : txt'[b] = txt[b] \/ (b = a /\ txt'[b] = reset.val)
    BY <1>1, <2>1 DEF IInv, TypeOK, ResetStates
  <2>3. TypeOK'
    BY <1>1, <1>2, <2>1, <2>2 DEF IInv, TypeOK
  <2>4. OneIsTaken'
    BY <1>1, <1>2, <2>1, <2>2 DEF IInv, OneIsTaken
  <2> QED
    BY <1>1, <2>3, <2>4 DEF IInv, SaveIsFree, AdmittedIsOwner, StoredIsOwners,
      SurveyIsCurrent
<1> QED
  BY <1>3, <1>4, <1>5 DEF ResetRefresh

LEMMA FactoryResetIInv == IInv /\ FactoryReset => IInv'
<1> SUFFICES ASSUME IInv, FactoryReset PROVE IInv'
  OBVIOUS
<1>1. ASSUME NEW pressed \in BOOLEAN, Poll(pressed) PROVE IInv'
  <2>1. reset \in ResetStates /\ creds \in BOOLEAN /\ reset.pc = "poll"
    BY <1>1 DEF Poll, IInv, TypeOK
  <2>2. creds' \in BOOLEAN /\ UNCHANGED <<slot, snap, cache, txt, start, http, wiped>>
    BY <1>1, <2>1 DEF Poll, EraseCreds
  <2>3. reset' \in ResetStates /\ reset'.pc # "txt"
    <3>1. reset.held + 1 # HoldTicks => reset.held + 1 \in 0..(HoldTicks - 1)
      BY <2>1, DeviceAssumption DEF ResetStates
    <3>2. 0 \in 0..(HoldTicks - 1)
      BY DeviceAssumption
    <3>3. \/ \E n \in 0..(HoldTicks - 1) : reset' = [reset EXCEPT !.held = n]
          \/ \E ok \in BOOLEAN : reset' = [reset EXCEPT !.pc = "erase_ids", !.held = 0,
                                                        !.credsOk = ok]
      BY <1>1, <3>1, <3>2 DEF Poll, Works
    <3>4. reset'.pc # "txt"
      BY <2>1, <3>3 DEF ResetStates
    <3> QED
      BY <2>1, <3>3, <3>4, ResetUpdates
  <2> QED
    BY <2>2, <2>3, ResetOnlyIInv
<1>2. CASE ResetRestart
  BY <1>2, RestartIInv DEF ResetRestart, IInv, TypeOK
<1> QED
  BY <1>1, <1>2, EraseIInv, ResetTxtIInv DEF FactoryReset

LEMMA NextIInv == IInv /\ [Next]_vars => IInv'
<1>1. IInv /\ UNCHANGED vars => IInv'
  BY DEF vars, IInv, TypeOK, SaveIsFree, AdmittedIsOwner, StoredIsOwners, OneIsTaken,
    SurveyIsCurrent
<1> QED
  BY <1>1, EnvironmentIInv, MdnsIInv, HttpdIInv, FactoryResetIInv DEF Next

\* The inductive invariant holds throughout.
THEOREM InductiveInvariant == Spec => []IInv
BY InitIInv, NextIInv, PTL DEF Spec

\* The variables keep their shapes.
THEOREM TypeCorrect == Spec => []TypeOK
BY InductiveInvariant, PTL DEF IInv

\* What is shown for a bound agent came from the client it is bound to.
THEOREM ShownIsOwnersHolds == Spec => []ShownIsOwners
<1>1. IInv => ShownIsOwners
  BY DEF IInv, StoredIsOwners, ShownIsOwners
<1> QED
  BY <1>1, InductiveInvariant, PTL

\* /health and /ota serve only clients the pairing slots entitle to them.
THEOREM ServedToOwnersHolds == Spec => []ServedToOwners
<1>1. IInv => ServedToOwners
  <2> SUFFICES ASSUME IInv, wiped = {} PROVE ServedToOwners
    BY DEF ServedToOwners
  <2>1. CASE http.pc = "ota_body"
    BY <2>1 DEF IInv, SurveyIsCurrent, ServedToOwners
  <2>2. CASE http.pc = "health_body"
    BY <2>2, KnownAgents DEF IInv, SurveyIsCurrent, ServedToOwners
  <2> QED
    BY <2>1, <2>2 DEF ServedToOwners
<1> QED
  BY <1>1, InductiveInvariant, PTL

\* No slot is advertised as taken that was neither taken nor erased.
THEOREM TakenIsTakenHolds == Spec => []TakenIsTaken
<1>1. IInv => TakenIsTaken
  BY DEF IInv, OneIsTaken, TakenIsTaken
<1> QED
  BY <1>1, InductiveInvariant, PTL

-----------------------------------------------------------------------------
(***************************************************************************)
(* The action properties and the refinement.                               *)
(***************************************************************************)
\* Only the save of a first push, the erase of a reset and the reinitialisation of
\* the flash partition write a slot.
LEMMA SlotSteps ==
  [Next]_vars => \/ UNCHANGED slot \/ SummarySave \/ EraseIds
                 \/ slot' = [a \in Agents |-> None]
BY DEF Next, vars, Environment, PowerCycle, Provision, ProvisionRestart, WifiGivesUp, GotIp,
  Restart, MdnsStart, MdnsCollect, MdnsAdd, Httpd, SummaryLoad, SummaryRefresh, SummaryTxt,
  SummaryPut, Probe, Survey, Answer, FactoryReset, Poll, ResetRefresh, ResetTxt, ResetRestart

\* Only a put and a restart write the store.
LEMMA SnapSteps ==
  [Next]_vars => \/ UNCHANGED snap
                 \/ \E t \in Times : SummaryPut(t)
                 \/ \E cr \in {creds, FALSE} : Restart(cr)
BY DEF Next, vars, Environment, PowerCycle, Provision, ProvisionRestart, WifiGivesUp, GotIp,
  Restart, MdnsStart, MdnsCollect, MdnsAdd, Httpd, SummaryLoad, SummarySave, SummaryRefresh,
  SummaryTxt, Probe, Survey, Answer, FactoryReset, Poll, EraseIds, ResetRefresh, ResetTxt,
  ResetRestart

\* A client never takes over a slot another client holds.
THEOREM OwnerNeverReplacedHolds == Spec => OwnerNeverReplaced
<1> DEFINE Good == \A a \in Agents : slot[a] # None /\ slot'[a] # slot[a] => slot'[a] = None
<1>1. IInv /\ [Next]_vars => [Good]_vars
  <2> SUFFICES ASSUME IInv, [Next]_vars PROVE Good
    OBVIOUS
  <2>1. CASE UNCHANGED slot
    BY <2>1
  <2>2. CASE SummarySave
    <3>1. slot[http.agent] = None /\ http.agent \in Agents
      BY <2>2 DEF SummarySave, IInv, SaveIsFree, TypeOK, HttpStates
    <3>2. slot' = slot \/ slot' = [slot EXCEPT ![http.agent] = http.cid]
      BY <2>2 DEF SummarySave
    <3> QED
      BY <3>1, <3>2 DEF IInv, TypeOK
  <2>3. CASE EraseIds
    BY <2>3 DEF EraseIds, Erase
  <2>4. CASE slot' = [a \in Agents |-> None]
    BY <2>4
  <2> QED
    BY <2>1, <2>2, <2>3, <2>4, SlotSteps
<1> QED
  BY <1>1, InductiveInvariant, PTL DEF Spec, OwnerNeverReplaced

\* While the device is up, nothing shown goes back in time.
THEOREM ShownNeverGoesBackHolds == Spec => ShownNeverGoesBack
<1> DEFINE Good == \A a \in Agents :
             snap[a] # None => \/ snap'[a] # None /\ snap'[a].at >= snap[a].at
                               \/ \A b \in Agents : snap'[b] = None
<1>0. IInv => \A a \in Agents : snap[a] # None => snap[a].at \in Int
  BY DeviceAssumption DEF IInv, TypeOK, Snapshot
<1>1. IInv /\ IInv' /\ [Next]_vars => [Good]_vars
  <2> SUFFICES ASSUME IInv, IInv', [Next]_vars PROVE Good
    OBVIOUS
  <2>1. CASE UNCHANGED snap
    BY <1>0, <2>1
  <2>2. ASSUME NEW t \in Times, SummaryPut(t) PROVE Good
    <3>1. http.agent \in Agents /\ t \in Int /\ http.cid \in Clients
      BY <2>2, DeviceAssumption DEF SummaryPut, IInv, TypeOK, HttpStates
    <3>2. CASE snap' = snap
      BY <1>0, <3>2
    <3>3. CASE /\ ~Stale(snap[http.agent], t)
               /\ snap' = [snap EXCEPT ![http.agent] = [at |-> t, by |-> http.cid]]
      <4>1. /\ snap'[http.agent] = [at |-> t, by |-> http.cid]
            /\ \A a \in Agents : a # http.agent => snap'[a] = snap[a]
        BY <3>1, <3>3 DEF IInv, TypeOK
      <4>2. snap'[http.agent].at = t
        BY <4>1
      <4>3. snap[http.agent] # None => t >= snap[http.agent].at
        BY <1>0, <3>1, <3>3 DEF Stale
      <4>4. snap'[http.agent] # None
        BY <3>1, <4>1, <2>2, DeviceAssumption DEF SummaryPut, IInv, TypeOK, Snapshot
      <4> QED
        BY <1>0, <4>1, <4>2, <4>3, <4>4
    <3> QED
      BY <2>2, <3>2, <3>3 DEF SummaryPut
  <2>3. CASE \E cr \in {creds, FALSE} : Restart(cr)
    BY <2>3 DEF Restart
  <2> QED
    BY <2>1, <2>2, <2>3, SnapSteps
<1> QED
  BY <1>1, InductiveInvariant, PTL DEF Spec, ShownNeverGoesBack

\* A step that leaves owners, the admitted push and the store alone is a
\* stutter of the promise.
LEMMA PromiseStutters ==
  ASSUME UNCHANGED <<slot, snap>>, AdmittedPush' = AdmittedPush
  PROVE  UNCHANGED Promise!vars
BY DEF Promise!vars, Shown

LEMMA PromiseRestarts == \A cr : Restart(cr) => Promise!Restart
BY DEF Restart, Promise!Restart, AdmittedPush, Shown, IdleHttp, Request, Agents

LEMMA PromiseAdmits ==
  ASSUME IInv, NEW a \in Agents, NEW c \in Clients, SummaryLoad(a, c)
  PROVE  [Promise!Next]_(Promise!vars)
<1>1. http.pc = "idle" /\ AdmittedPush = {} /\ UNCHANGED <<slot, snap>>
  BY DEF SummaryLoad, AdmittedPush
<1>2. CASE http' = Request("save", a, c) \/ UNCHANGED http
  BY <1>1, <1>2, PromiseStutters DEF AdmittedPush, Request
<1>3. CASE slot[a] = c /\ http' = Request("put", a, c)
  <2>1. AdmittedPush' = {<<a, c>>}
    BY <1>3 DEF AdmittedPush, Request
  <2>2. Promise!Admit(a, c)
    BY <1>1, <1>3, <2>1 DEF Promise!Admit, Shown
  <2> QED
    BY <2>2 DEF Promise!Next
<1> QED
  BY <1>2, <1>3 DEF SummaryLoad, BindOutcome, Works

LEMMA PromiseClaims == IInv /\ SummarySave => [Promise!Next]_(Promise!vars)
<1> SUFFICES ASSUME IInv, SummarySave PROVE [Promise!Next]_(Promise!vars)
  OBVIOUS
<1> DEFINE a == http.agent  c == http.cid
<1>1. /\ http.pc = "save" /\ a \in Agents /\ c \in Clients /\ slot[a] = None
      /\ http \in HttpStates /\ AdmittedPush = {} /\ snap' = snap
  BY DEF SummarySave, IInv, TypeOK, SaveIsFree, HttpStates, AdmittedPush
<1>2. \/ AdmittedPush' = {}
      \/ AdmittedPush' = {<<a, c>>} /\ slot' = [slot EXCEPT ![a] = c]
  BY <1>1 DEF SummarySave, AdmittedPush, HttpStates, IdleHttp, Request
<1>3. CASE slot' = slot /\ AdmittedPush' = {}
  BY <1>1, <1>3, PromiseStutters
<1>4. CASE slot' = [slot EXCEPT ![a] = c]
  <2>1. Promise!Claim(a, c)
    BY <1>1, <1>2, <1>4 DEF Promise!Claim, Shown
  <2> QED
    BY <1>1, <2>1 DEF Promise!Next
<1> QED
  BY <1>2, <1>3, <1>4 DEF SummarySave

LEMMA PromisePublishes ==
  ASSUME IInv, NEW t \in Times, SummaryPut(t) PROVE [Promise!Next]_(Promise!vars)
<1> DEFINE a == http.agent  c == http.cid
           stored == [at |-> t, by |-> c]
<1>1. /\ http.pc = "put" /\ a \in Agents /\ c \in Clients /\ t \in Times
      /\ AdmittedPush = {<<a, c>>} /\ AdmittedPush' = {} /\ slot' = slot
  BY DEF SummaryPut, IInv, TypeOK, HttpStates, AdmittedPush, IdleHttp, Request
<1>2. CASE snap' = snap
  <2>1. Promise!Drop
    BY <1>1, <1>2 DEF Promise!Drop, Shown
  <2> QED
    BY <2>1 DEF Promise!Next
<1>3. CASE ~Stale(snap[a], t) /\ snap' = [snap EXCEPT ![a] = stored]
  <2>1. stored # None /\ stored.at = t
    BY <1>1, DeviceAssumption DEF Snapshot
  <2>2. Shown' = [Shown EXCEPT ![a] = t]
    BY <1>1, <1>3, <2>1 DEF Shown, IInv, TypeOK
  <2>3. Shown[a] # None => t >= Shown[a]
    <3>1. snap[a] # None => snap[a].at \in Int /\ Shown[a] = snap[a].at
      BY <1>1, DeviceAssumption DEF IInv, TypeOK, Snapshot, Shown
    <3>2. snap[a] = None => Shown[a] = None
      BY <1>1 DEF Shown
    <3> QED
      BY <1>1, <1>3, <3>1, <3>2, DeviceAssumption DEF Stale
  <2>4. Promise!Publish(a, c, t)
    BY <1>1, <2>2, <2>3 DEF Promise!Publish
  <2> QED
    BY <1>1, <2>4 DEF Promise!Next
<1> QED
  BY <1>2, <1>3 DEF SummaryPut

LEMMA PromiseHttpd == IInv /\ Httpd => [Promise!Next]_(Promise!vars)
<1> SUFFICES ASSUME IInv, Httpd PROVE [Promise!Next]_(Promise!vars)
  OBVIOUS
<1>1. http \in HttpStates
  BY DEF IInv, TypeOK
<1>2. CASE SummaryRefresh \/ SummaryTxt
  <2>1. AdmittedPush' = AdmittedPush /\ UNCHANGED <<slot, snap>>
    BY <1>1, <1>2 DEF SummaryRefresh, SummaryTxt, AdmittedPush, HttpStates
  <2> QED
    BY <2>1, PromiseStutters
<1>3. ASSUME NEW op \in {"health", "ota"},
             Survey(op) \/ \E c \in Clients \cup {None} : Probe(op, c)
      PROVE  [Promise!Next]_(Promise!vars)
  <2>1. AdmittedPush = {} /\ UNCHANGED <<slot, snap>>
    BY <1>3 DEF Survey, Probe, AdmittedPush
  <2>2. http'.pc \in {"idle", "health", "ota", "health_body", "ota_body"}
    <3>1. CASE \E c \in Clients \cup {None} : Probe(op, c)
      BY <1>3, <3>1 DEF Probe, Request
    <3>2. CASE Survey(op)
      <4>1. http.pc = op /\ op \in {"health", "ota"}
        BY <1>3, <3>2 DEF Survey
      <4> DEFINE Next1(i, seen) == [http EXCEPT !.i = i, !.seen = seen]
                 Next2(seen) == [http EXCEPT !.pc = Body(op), !.seen = seen]
      <4>2. PICK ok, i, seen :
              http' = IF ~ok THEN IdleHttp
                      ELSE IF http.i < Len(Known) THEN Next1(i, seen)
                      ELSE IF Admitted(op, seen) THEN Next2(seen)
                      ELSE IdleHttp
        BY <3>2 DEF Survey
      <4>3. Next1(i, seen).pc = op /\ Next2(seen).pc = Body(op)
        BY <1>1, <4>1 DEF HttpStates
      <4>4. IdleHttp.pc = "idle"
        BY DEF IdleHttp, Request
      <4> HIDE DEF Next1, Next2
      <4>5. http'.pc \in {"idle", op, Body(op)}
        BY <4>2, <4>3, <4>4
      <4> QED
        BY <4>1, <4>5 DEF Body
    <3> QED
      BY <1>3, <3>1, <3>2
  <2> QED
    BY <2>1, <2>2, PromiseStutters DEF AdmittedPush
<1>4. CASE Answer
  <2>1. AdmittedPush' = AdmittedPush /\ UNCHANGED <<slot, snap>>
    BY <1>4 DEF Answer, AdmittedPush, IdleHttp, Request
  <2> QED
    BY <2>1, PromiseStutters
<1> QED
  BY <1>2, <1>3, <1>4, PromiseAdmits, PromiseClaims, PromisePublishes DEF Httpd

\* The device implements PairingPromise: every step of the firmware is a step
\* of the promise or leaves what it speaks of unchanged.
THEOREM KeepsPromiseHolds == Spec => KeepsPromise
<1>1. Init => Promise!Init
  BY DEF Init, Promise!Init, AdmittedPush, Shown, IdleHttp, Request
<1>2. IInv /\ [Next]_vars => [Promise!Next]_(Promise!vars)
  <2> SUFFICES ASSUME IInv, [Next]_vars PROVE [Promise!Next]_(Promise!vars)
    OBVIOUS
  <2>1. CASE UNCHANGED vars
    BY <2>1, PromiseStutters DEF vars, AdmittedPush
  <2>2. CASE \E cr \in {creds, FALSE} : Restart(cr)
    BY <2>2, PromiseRestarts DEF Promise!Next
  <2>3. CASE Provision \/ GotIp \/ MdnsStart \/ ResetRefresh \/ ResetTxt
             \/ \E pressed \in BOOLEAN : Poll(pressed)
    <3>1. UNCHANGED <<slot, snap, http>>
      BY <2>3 DEF Provision, GotIp, MdnsStart, MdnsCollect, MdnsAdd, ResetRefresh, ResetTxt,
        Poll, Restart
    <3> QED
      BY <3>1, PromiseStutters DEF AdmittedPush
  <2>4. CASE EraseIds
    <3>1. PICK S \in SUBSET Agents : Erase(S)
      BY <2>4 DEF EraseIds
    <3>2. Promise!Wipe(S)
      BY <2>4, <3>1 DEF EraseIds, Erase, Promise!Wipe, AdmittedPush, Shown
    <3> QED
      BY <3>2 DEF Promise!Next
  <2>5. CASE Httpd
    BY <2>5, PromiseHttpd
  <2> QED
    BY <2>1, <2>2, <2>3, <2>4, <2>5 DEF Next, Environment, PowerCycle, ProvisionRestart,
      WifiGivesUp, FactoryReset, ResetRestart, Restart
<1> QED
  BY <1>1, <1>2, InductiveInvariant, PTL DEF Spec, KeepsPromise, Promise!Spec
=============================================================================
