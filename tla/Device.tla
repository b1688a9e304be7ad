------------------------------- MODULE Device -------------------------------
(***************************************************************************)
(* The core of the firmware: the pairing slots in flash (nvs_store.c), the *)
(* snapshot store in RAM (snapshot.c), the HTTP task that serves /summary, *)
(* /health and the authorisation of /ota (http_server.c), the paired_*     *)
(* items of the mDNS TXT record (mdns_svc.c), the BOOT-button task         *)
(* (factory_reset.c) and the restarts that wipe RAM but not flash.         *)
(*                                                                         *)
(* Three tasks run concurrently: the httpd task (variable http; it serves  *)
(* one request at a time), the event-loop task that starts the services    *)
(* (start) and the factory-reset task (reset).  Every read or write of     *)
(* flash, of the TXT record and of the store is a step of its own.         *)
(***************************************************************************)
EXTENDS Integers, Sequences

CONSTANTS
  Clients,     \* values of the X-BurnScope-Client-Id header
  Times,       \* values of captured_at
  None,        \* no client, no snapshot
  HoldTicks,   \* polls the button must stay down for a factory reset
  Faults       \* what may fail: "nvs" accesses, erasing "creds", "mdns" updates

\* A stored snapshot: when it was captured and, for the properties, by whom.
Snapshot == [at : Times, by : Clients]

ASSUME DeviceAssumption ==
  /\ Times \subseteq Int
  /\ None \notin Clients \cup Snapshot
  /\ HoldTicks \in Nat \ {0}
  /\ Faults \subseteq {"nvs", "creds", "mdns"}

Known  == <<"claude", "codex">>
Agents == {"claude", "codex"}

VARIABLES
  slot,     \* flash: slot[a], the client bound to agent a, or None
  creds,    \* flash: are WiFi credentials saved?
  snap,     \* RAM: snap[a], the stored snapshot and who sent it, or None
  cache,    \* RAM: s_paired_cache
  txt,      \* the paired_* items, on the air once start = "done"
  start,    \* how far the event-loop task has brought the services up
  http,     \* the request the httpd task is serving
  reset,    \* the factory-reset task
  wiped     \* history: agents whose slot was erased since the last restart

vars == <<slot, creds, snap, cache, txt, start, http, reset, wiped>>

Flag == {"0", "1"}

\* A request at step pc, by client c and for agent a (unless the step needs
\* neither), its survey not begun.
Request(pc, a, c) ==
  [pc |-> pc, agent |-> a, cid |-> c, i |-> 1, seen |-> "free", val |-> "0"]

IdleHttp  == Request("idle", "claude", None)
IdleReset == [pc |-> "poll", held |-> 0, credsOk |-> FALSE, idsOk |-> FALSE,
              i |-> 1, val |-> "0"]

Serving    == start \notin {"ap", "ap_saved", "wait_ip"}
Advertised == start = "done"

\* A flash access succeeds, or also fails when "nvs" is among the faults.
Works(f) == IF f \in Faults THEN BOOLEAN ELSE {TRUE}

-----------------------------------------------------------------------------
(***************************************************************************)
(* Boot and restart.                                                       *)
(***************************************************************************)
FirstStart(cr, readOk) == IF cr /\ readOk THEN "wait_ip" ELSE "ap"

Init ==
  /\ slot = [a \in Agents |-> None]
  /\ creds \in BOOLEAN
  /\ snap = [a \in Agents |-> None]
  /\ cache = [a \in Agents |-> "0"]
  /\ txt = [a \in Agents |-> "0"]
  /\ start = FirstStart(creds, TRUE)
  /\ http = IdleHttp
  /\ reset = IdleReset
  /\ wiped = {}

\* esp_restart, a watchdog panic or a power cut, and the boot that follows with
\* credentials cr in flash.  init_nvs wipes a partition it cannot mount.
Restart(cr) ==
  /\ \/ creds' = cr /\ UNCHANGED slot
     \/ "nvs" \in Faults /\ creds' = FALSE /\ slot' = [a \in Agents |-> None]
  /\ snap' = [a \in Agents |-> None]
  /\ cache' = [a \in Agents |-> "0"]
  /\ txt' = [a \in Agents |-> "0"]
  /\ start' \in {FirstStart(creds', ok) : ok \in Works("nvs")}
  /\ http' = IdleHttp
  /\ reset' = IdleReset
  /\ wiped' = {}

PowerCycle == Restart(creds)

\* The captive portal stores the credentials, then restarts half a second on;
\* a save that fails (500) may have stored both strings before its commit did.
Provision ==
  /\ start \in {"ap", "ap_saved"}
  /\ \/ creds' = TRUE /\ start' = "ap_saved"
     \/ "nvs" \in Faults /\ creds' \in {creds, TRUE} /\ UNCHANGED start
  /\ UNCHANGED <<slot, snap, cache, txt, http, reset, wiped>>

ProvisionRestart == start = "ap_saved" /\ Restart(creds)

\* Erasing the credentials.  What it reports is whether the namespace opened and the
\* commit went well: an nvs_erase_key that fails is not reported, and a commit that
\* fails is, though the keys are gone.
EraseCreds ==
  \/ creds' = FALSE
  \/ "creds" \in Faults /\ creds' = creds

\* Five authentication failures: the credentials are erased, and the device
\* restarts.  The result is ignored: an erase that fails makes it a PowerCycle.
WifiGivesUp ==
  /\ start \notin {"ap", "ap_saved"}
  /\ Restart(FALSE)

\* First GOT_IP: the HTTP server comes up before the mDNS service.
GotIp ==
  /\ start = "wait_ip"
  /\ start' = "read_claude"
  /\ UNCHANGED <<slot, creds, snap, cache, txt, http, reset, wiped>>

-----------------------------------------------------------------------------
(***************************************************************************)
(* mDNS.                                                                   *)
(***************************************************************************)
\* Mutant of PairedValue: an unreadable slot counts as taken.
PairedValueUnreadable(a, readOk) ==
  IF readOk /\ slot[a] = None THEN "0" ELSE "1"

\* What paired_<a> should say: a failed read keeps the value read before.
PairedValue(a, readOk) ==
  IF readOk THEN (IF slot[a] = None THEN "0" ELSE "1") ELSE cache[a]

\* mdns_svc_start collects the values of the two items, then publishes.
MdnsCollect(a, from, to) ==
  /\ start = from
  /\ \E ok \in Works("nvs") :
       /\ txt' = [txt EXCEPT ![a] = PairedValue(a, ok)]
       /\ cache' = [cache EXCEPT ![a] = PairedValue(a, ok)]
  /\ start' = to
  /\ UNCHANGED <<slot, creds, snap, http, reset, wiped>>

MdnsAdd ==
  /\ start = "add"
  /\ start' = "done"
  /\ UNCHANGED <<slot, creds, snap, cache, txt, http, reset, wiped>>

MdnsStart ==
  \/ MdnsCollect("claude", "read_claude", "read_codex")
  \/ MdnsCollect("codex", "read_codex", "add")
  \/ MdnsAdd

\* mdns_svc_refresh_paired reads the slot, then updates the item: two steps
\* of the calling task, which the other task's steps may separate.
RefreshRead(a, v) ==
  /\ \E ok \in Works("nvs") : v = PairedValue(a, ok)
  /\ cache' = [cache EXCEPT ![a] = v]

RefreshSet(a, v) ==
  \E ok \in Works("mdns") : txt' = IF ok THEN [txt EXCEPT ![a] = v] ELSE txt

-----------------------------------------------------------------------------
(***************************************************************************)
(* POST /summary.  A request the size check, the parser or the header      *)
(* check refuses is answered before anything is read, and changes nothing. *)
(***************************************************************************)
\* Mutants of BindOutcome: an unreadable slot counts as empty; any client that
\* finds the slot bound is let in.
BindOutcomeErrorIsEmpty(stored, c, readOk) ==
  IF ~readOk \/ stored = None THEN "new"
  ELSE IF stored = c THEN "existing" ELSE "mismatch"

BindOutcomeAnyClient(stored, c, readOk) ==
  IF ~readOk THEN "error" ELSE IF stored = None THEN "new" ELSE "existing"

\* The verdict of the load half of nvs_store_bind_or_check_client_id.
BindOutcome(stored, c, readOk) ==
  CASE ~readOk -> "error"
    [] readOk /\ stored = None -> "new"
    [] readOk /\ stored # None /\ stored = c -> "existing"
    [] readOk /\ stored # None /\ stored # c -> "mismatch"

\* The slot is loaded; an error (500) or a mismatch (401) ends the request.
SummaryLoad(a, c) ==
  /\ Serving
  /\ http.pc = "idle"
  /\ \E ok \in Works("nvs") :
       \/ /\ BindOutcome(slot[a], c, ok) = "new"
          /\ http' = Request("save", a, c)
       \/ /\ BindOutcome(slot[a], c, ok) = "existing"
          /\ http' = Request("put", a, c)
       \/ /\ BindOutcome(slot[a], c, ok) \in {"mismatch", "error"}
          /\ UNCHANGED http
  /\ UNCHANGED <<slot, creds, snap, cache, txt, start, reset, wiped>>

\* Mutant of SummarySave: the result of the save is ignored.
SummarySaveUnchecked ==
  /\ http.pc = "save"
  /\ \/ slot' = [slot EXCEPT ![http.agent] = http.cid]
     \/ "nvs" \in Faults /\ UNCHANGED slot
  /\ http' = [http EXCEPT !.pc = "refresh"]
  /\ UNCHANGED <<creds, snap, cache, txt, start, reset, wiped>>

\* Trust on first use: save the client.  A failing save answers 500 and may
\* have stored the key before its commit failed.
SummarySave ==
  /\ http.pc = "save"
  /\ LET bound == [slot EXCEPT ![http.agent] = http.cid] IN
       \/ slot' = bound /\ http' = [http EXCEPT !.pc = "refresh"]
       \/ "nvs" \in Faults /\ slot' \in {slot, bound} /\ http' = IdleHttp
  /\ UNCHANGED <<creds, snap, cache, txt, start, reset, wiped>>

SummaryRefresh ==
  /\ http.pc = "refresh"
  /\ IF Advertised
     THEN \E v \in Flag : /\ RefreshRead(http.agent, v)
                          /\ http' = [http EXCEPT !.pc = "txt", !.val = v]
     ELSE http' = [http EXCEPT !.pc = "put"] /\ UNCHANGED cache
  /\ UNCHANGED <<slot, creds, snap, txt, start, reset, wiped>>

SummaryTxt ==
  /\ http.pc = "txt"
  /\ RefreshSet(http.agent, http.val)
  /\ http' = [http EXCEPT !.pc = "put", !.val = "0"]
  /\ UNCHANGED <<slot, creds, snap, cache, start, reset, wiped>>

\* Mutant of Stale: the comparison is the wrong way round.
StaleSwapped(stored, t) == stored # None /\ stored.at < t

\* The monotonic guard: only a strictly older snapshot is stale.
Stale(stored, t) == stored # None /\ t < stored.at

\* The snapshot, captured at t, is stored and answered 204, or left alone and
\* answered 409.  The store has a slot for each known agent, so the third
\* answer, 500, cannot happen.
SummaryPut(t) ==
  /\ http.pc = "put"
  /\ snap' = IF Stale(snap[http.agent], t) THEN snap
             ELSE [snap EXCEPT ![http.agent] = [at |-> t, by |-> http.cid]]
  /\ http' = IdleHttp
  /\ UNCHANGED <<slot, creds, cache, txt, start, reset, wiped>>

-----------------------------------------------------------------------------
(***************************************************************************)
(* The slot survey of GET /health and POST /ota.                           *)
(***************************************************************************)
\* c = None stands for an absent or unusable header.
Probe(op, c) ==
  /\ Serving
  /\ http.pc = "idle"
  /\ http' = Request(op, "claude", c)
  /\ UNCHANGED <<slot, creds, snap, cache, txt, start, reset, wiped>>

\* Mutant of Seen: a slot of another client leaves no trace.
SeenForgets(seen, stored, c) == IF stored # None /\ stored = c THEN "hit" ELSE seen

\* "free" until a populated slot is seen, "hit" once one matches the header.
Seen(seen, stored, c) ==
  CASE stored = None -> seen
    [] stored # None /\ stored = c -> "hit"
    [] stored # None /\ stored # c -> IF seen = "hit" THEN "hit" ELSE "taken"

\* /health also admits anyone while no slot is populated; /ota never does.
Admitted(op, seen) == seen = "hit" \/ (op = "health" /\ seen = "free")

Body(op) == IF op = "health" THEN "health_body" ELSE "ota_body"

\* One slot is read; a failed read answers 500.  After the last slot the
\* request is let in or answered 401.
Survey(op) ==
  /\ http.pc = op
  /\ \E ok \in Works("nvs") :
       LET now == Seen(http.seen, slot[Known[http.i]], http.cid) IN
         http' = IF ~ok THEN IdleHttp
                 ELSE IF http.i < Len(Known)
                      THEN [http EXCEPT !.i = http.i + 1, !.seen = now]
                 ELSE IF Admitted(op, now)
                      THEN [http EXCEPT !.pc = Body(op), !.seen = now]
                 ELSE IdleHttp
  /\ UNCHANGED <<slot, creds, snap, cache, txt, start, reset, wiped>>

\* The answer of /health, or the upload that /ota lets in, ends the request.
Answer ==
  /\ http.pc \in {"health_body", "ota_body"}
  /\ http' = IdleHttp
  /\ UNCHANGED <<slot, creds, snap, cache, txt, start, reset, wiped>>

Httpd ==
  \/ \E a \in Agents, c \in Clients : SummaryLoad(a, c)
  \/ SummarySave
  \/ SummaryRefresh
  \/ SummaryTxt
  \/ \E t \in Times : SummaryPut(t)
  \/ \E op \in {"health", "ota"} :
       (\E c \in Clients \cup {None} : Probe(op, c)) \/ Survey(op)
  \/ Answer

-----------------------------------------------------------------------------
(***************************************************************************)
(* The BOOT button.                                                        *)
(***************************************************************************)
\* One poll.  When the button has been down for HoldTicks polls in a row the
\* credentials are erased at once.
Poll(pressed) ==
  /\ reset.pc = "poll"
  /\ IF pressed /\ reset.held + 1 = HoldTicks
     THEN \E ok \in Works("creds") :
            /\ EraseCreds
            /\ reset' = [reset EXCEPT !.pc = "erase_ids", !.held = 0, !.credsOk = ok]
     ELSE /\ reset' = [reset EXCEPT !.held = IF pressed THEN reset.held + 1 ELSE 0]
          /\ UNCHANGED creds
  /\ UNCHANGED <<slot, snap, cache, txt, start, http, wiped>>

Erase(S) ==
  /\ slot' = [a \in Agents |-> IF a \in S THEN None ELSE slot[a]]
  /\ wiped' = wiped \cup S

\* All pairing slots are erased, without the bind mutex; an erase that fails
\* may have freed some of them.
EraseIds ==
  /\ reset.pc = "erase_ids"
  /\ \/ /\ Erase(Agents)
        /\ reset' = [reset EXCEPT !.pc = IF reset.credsOk THEN "wait" ELSE "refresh",
                                  !.idsOk = TRUE]
     \/ /\ "nvs" \in Faults
        /\ \E S \in SUBSET Agents : Erase(S)
        /\ reset' = IF reset.credsOk THEN [reset EXCEPT !.pc = "wait"] ELSE IdleReset
  /\ UNCHANGED <<creds, snap, cache, txt, start, http>>

\* Mutant of NextRefresh: one agent too many.
NextRefreshTooFar ==
  IF reset.i <= Len(Known)
  THEN [reset EXCEPT !.pc = "refresh", !.i = reset.i + 1, !.val = "0"]
  ELSE IdleReset

\* The credentials survived but the slots did not: re-advertise both agents
\* and go back to polling.
NextRefresh ==
  IF reset.i < Len(Known)
  THEN [reset EXCEPT !.pc = "refresh", !.i = reset.i + 1, !.val = "0"]
  ELSE IdleReset

ResetRefresh ==
  /\ reset.pc = "refresh"
  /\ IF Advertised
     THEN \E v \in Flag : /\ RefreshRead(Known[reset.i], v)
                          /\ reset' = [reset EXCEPT !.pc = "txt", !.val = v]
     ELSE reset' = NextRefresh /\ UNCHANGED cache
  /\ UNCHANGED <<slot, creds, snap, txt, start, http, wiped>>

ResetTxt ==
  /\ reset.pc = "txt"
  /\ RefreshSet(Known[reset.i], reset.val)
  /\ reset' = NextRefresh
  /\ UNCHANGED <<slot, creds, snap, cache, start, http, wiped>>

\* The device restarts 100 ms after the erase, and serves until then.
ResetRestart == reset.pc = "wait" /\ Restart(creds)

FactoryReset ==
  \/ \E pressed \in BOOLEAN : Poll(pressed)
  \/ EraseIds
  \/ ResetRefresh
  \/ ResetTxt
  \/ ResetRestart

-----------------------------------------------------------------------------
Environment == PowerCycle \/ Provision \/ ProvisionRestart \/ WifiGivesUp \/ GotIp

Next == Environment \/ MdnsStart \/ Httpd \/ FactoryReset

Spec == Init /\ [][Next]_vars

-----------------------------------------------------------------------------
(***************************************************************************)
(* Properties.                                                             *)
(***************************************************************************)
HttpSteps ==
  {"idle", "save", "refresh", "txt", "put", "health", "ota", "health_body", "ota_body"}

HttpStates ==
  [pc : HttpSteps,
   agent : Agents, cid : Clients \cup {None},
   i : 1..2, seen : {"free", "taken", "hit"}, val : Flag]

ResetStates ==
  [pc : {"poll", "erase_ids", "wait", "refresh", "txt"}, held : 0..(HoldTicks - 1),
   credsOk : BOOLEAN, idsOk : BOOLEAN, i : 1..2, val : Flag]

\* The shapes of the variables; a request holds what its step needs.
TypeOK ==
  /\ slot \in [Agents -> Clients \cup {None}]
  /\ creds \in BOOLEAN
  /\ snap \in [Agents -> Snapshot \cup {None}]
  /\ cache \in [Agents -> Flag]
  /\ txt \in [Agents -> Flag]
  /\ start \in {"ap", "ap_saved", "wait_ip", "read_claude", "read_codex", "add", "done"}
  /\ http \in HttpStates
  /\ http.pc \in {"save", "refresh", "txt", "put"} => http.cid \in Clients
  /\ reset \in ResetStates
  /\ wiped \in SUBSET Agents

\* A client never takes over a slot another client holds: between the load
\* that found the slot empty and the save that fills it, no other task can
\* have bound it (http_server.c:289, "two concurrent first-pushes can't both
\* win TOFU"), and an unreadable slot is never taken for an empty one.
OwnerNeverReplaced ==
  [][\A a \in Agents :
       slot[a] # None /\ slot'[a] # slot[a] => slot'[a] = None]_vars

\* While the device is up, what it shows for an agent never goes back in
\* time, whichever client pushes and whatever is wiped meanwhile.
ShownNeverGoesBack ==
  [][\A a \in Agents :
       snap[a] # None => \/ snap'[a] # None /\ snap'[a].at >= snap[a].at
                         \/ \A b \in Agents : snap'[b] = None]_vars

\* What is shown for a bound agent was pushed by the client it is bound to,
\* unless the slot was erased under the running device.
ShownIsOwners ==
  \A a \in Agents :
    snap[a] # None /\ slot[a] # None /\ snap[a].by # slot[a] => a \in wiped

\* /health answers a client only if it holds a slot or no slot is held, and
\* the upload of /ota is open only to a client that holds a slot; the survey
\* reads the slots one by one, so this spans several steps.
ServedToOwners ==
  wiped = {} =>
    /\ http.pc = "ota_body" => \E a \in Agents : slot[a] = http.cid /\ http.cid # None
    /\ http.pc = "health_body" =>
         \/ \E a \in Agents : slot[a] = http.cid /\ http.cid # None
         \/ \A a \in Agents : slot[a] = None

\* A slot advertised as taken is taken, unless it was erased under the
\* running device: no read error and no stale cache invents a pairing.
TakenIsTaken ==
  \A a \in Agents : Advertised /\ txt[a] = "1" => slot[a] # None \/ a \in wiped

\* The device keeps the promise of PairingPromise.
AdmittedPush ==
  IF http.pc \in {"refresh", "txt", "put"} THEN {<<http.agent, http.cid>>} ELSE {}

Shown == [a \in Agents |-> IF snap[a] = None THEN None ELSE snap[a].at]

Promise == INSTANCE PairingPromise
             WITH owner <- slot, admitted <- AdmittedPush, shown <- Shown

KeepsPromise == Promise!Spec

\* wire-format.md:190, "1 iff the claude NVS pairing slot is non-empty": with
\* no fault anywhere and no request or reset under way, the advertised items
\* agree with the slots.
TxtAgreesWhenQuiet ==
  Advertised /\ http.pc = "idle" /\ reset.pc = "poll" =>
    \A a \in Agents : txt[a] = "1" <=> slot[a] # None

\* factory_reset.c:51, "clear the TOFU pairing slots so a new owner can claim
\* the device after reprovisioning": a reset whose erases succeeded restarts
\* into a device nobody owns.
ResetFreesDevice ==
  [][reset.pc = "wait" /\ reset.idsOk /\ reset'.pc = "poll" =>
       \A a \in Agents : slot'[a] = None]_vars
=============================================================================
