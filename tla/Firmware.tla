------------------------------ MODULE Firmware ------------------------------
(***************************************************************************)
(* The whole device: the network (Wifi), what is on the glass (View), the  *)
(* firmware's own update (Ota), the battery label (Battery), the picture's *)
(* orientation (Orientation), and snapshots as they come over the wire     *)
(* (Wire).  This module says which task takes which of their steps, what   *)
(* one part does to another, and what a restart, a failed call or the user *)
(* does to all of them.                                                    *)
(*                                                                         *)
(* The tasks: the event loop (wifi.c calls on_wifi_state of main.c), the   *)
(* timer service, httpd (one request at a time), LVGL (a tick a second),   *)
(* the orientation watcher and the factory-reset button.  Who may push and *)
(* how the slots are written is Device's subject; here a push is admitted  *)
(* in one step.                                                            *)
(***************************************************************************)
EXTENDS Wire

CONSTANTS
  AuthFailFallback, Owners, None, CycleTicks, FooterTicks, MaxClock, Levels,
  Readings, Hysteresis, Dominant, Debounce,  \* see the parts
  Messages,   \* snapshots the hosts may take
  Studies     \* bounds: what the world does in a behaviour, see Study

\* The kinds of fault that may happen and how many of them, the display, and what
\* the hosts push and as whom.
Kinds == {"radio", "portal", "flash", "power", "wire", "update", "pack", "pose"}
Study == [stirs : SUBSET Kinds, faults : Nat, profile : STRING, says : SUBSET Messages,
          owners : SUBSET Owners]

ASSUME FirmwareAssumption ==
  /\ AuthFailFallback \in Nat \ {0}
  /\ None \notin Known \cup Owners
  /\ CycleTicks \in Nat \ {0}
  /\ FooterTicks \in Nat \ {0}
  /\ MaxClock \in Nat \ {0}
  /\ Levels \subseteq 0..100
  /\ Readings \subseteq Int \X Int
  /\ {Hysteresis, Dominant, Debounce} \subseteq Nat \ {0}
  /\ Messages \subseteq Sendable
  /\ Studies \subseteq Study

VARIABLES
  creds, mode, link, events, timer, backoff, streak, hadIp, portal, stranded,
  refusals,                                                \* Wifi
  profile, store, slot, clock, screen, cid, cycle, footer, restore, fresh, \* View
  rollback, image, state, boot, running, upload, mutex, reboot, done, kept, \* Ota
  pack, reading, valid, shown, label,                      \* Battery
  board, pose, current, candidate, waited, rotation,       \* Orientation
  http,       \* the push httpd is serving, and what its host meant
  button,     \* has the button wiped the flash, and a restart is next?
  meant,      \* history: what the host meant by each agent's stored snapshot
  misread,    \* history: was a harmless body refused, or another accepted?
  overtaken,  \* history: did a task paint over what another had shown since?
  study,      \* what the world does in this behaviour
  trouble     \* faults left

W == INSTANCE Wifi
V == INSTANCE View WITH Agents <- Known
O == INSTANCE Ota
B == INSTANCE Battery
T == INSTANCE Orientation

wifi    == <<creds, mode, link, events, timer, backoff, streak, hadIp, portal,
             stranded, refusals>>
view    == <<profile, store, slot, clock, screen, cid, cycle, footer, restore, fresh>>
ota     == <<rollback, image, state, boot, running, upload, mutex, reboot, done, kept>>
battery == <<pack, reading, valid, shown, label>>
posture == <<board, pose, current, candidate, waited, rotation>>
push    == <<http, meant, misread>>
world   == <<study, trouble>>
vars == <<wifi, view, ota, battery, posture, push, button, overtaken, world>>

NoPush == [pc |-> "idle", snap |-> EmptySnapshot, meant |-> EmptySnapshot, by |-> None]
NothingMeant == [a \in Known |-> EmptySnapshot]

TypeOK ==
  /\ W!TypeOK /\ V!TypeOK /\ O!TypeOK /\ B!TypeOK /\ T!TypeOK
  /\ http.pc \in {"idle", "admit", "put", "show", "confirm"}
  /\ http.by \in Owners \cup {None}
  /\ {button, misread, overtaken} \subseteq BOOLEAN
  /\ study \in Studies
  /\ trouble \in 0..study.faults

\* A call succeeds, or a fault of this kind is spent on it.
Stirs(kind) == kind \in study.stirs
Fault(kind) == /\ Stirs(kind) /\ trouble > 0
               /\ trouble' = trouble - 1 /\ UNCHANGED study
Calm        == UNCHANGED world
Works(ok, kind) == IF ok THEN Calm ELSE Fault(kind)

HasPmu == profile = "amoled_co5300_175"
HasImu == profile # "cyd2usb_st7789"

Init ==
  /\ study \in Studies /\ trouble = study.faults
  /\ W!Init /\ V!Init /\ O!Init /\ B!Init /\ T!Init
  /\ profile = study.profile
  /\ rollback = HasImu
  /\ board = IF HasPmu THEN "co5300_175" ELSE "sh8601"
  /\ Stirs("radio") \/ creds = "home"
  /\ Stirs("pack") \/ pack = B!NoReading
  /\ Stirs("pose") \/ (T!Opinion(pose) /\ T!AxisOf(pose) = "X_POS")
  /\ http = NoPush /\ meant = NothingMeant
  /\ button = FALSE /\ misread = FALSE /\ overtaken = FALSE

-----------------------------------------------------------------------------
(* Restart and boot.                                                       *)

\* esp_restart, a panic, a watchdog, a loss of power: everywhere but in Wifi.
Down(power) ==
  /\ V!Reset(power) /\ O!Restart /\ B!Reset /\ T!Reset
  /\ http' = NoPush /\ meant' = NothingMeant
  /\ button' = FALSE /\ misread' = FALSE /\ overtaken' = FALSE
Restart(power) == W!Reset /\ UNCHANGED creds /\ Down(power)

PowerCycle == \E power \in BOOLEAN : Fault("power") /\ Restart(power)

\* app_main.
Boot(read, sampled) ==
  /\ mode = "off"
  /\ \/ read /\ W!StartStation /\ V!ShowStatus("Connecting...")
     \/ (creds = "none" \/ ~read) /\ W!StartPortal /\ V!ShowStatus("Setup mode")
  /\ IF HasPmu THEN B!Boot(sampled) ELSE sampled /\ UNCHANGED battery
  /\ IF read THEN Works(sampled, "pack") ELSE sampled /\ Fault("flash")
  /\ UNCHANGED <<restore, ota, posture, push, button, overtaken>>

-----------------------------------------------------------------------------
(* The radio and the timer service.                                        *)

RadioAnswers ==
  /\ \/ W!Associate
     \/ link = "joined" /\ W!Lease
     \/ link = "trying" /\ \E e \in {"REFUSED", "DROPPED"} : W!Forced(e) /\ W!Disconnect(e)
  /\ Calm
  /\ UNCHANGED <<view, ota, battery, posture, push, button, overtaken>>

RadioFails ==
  /\ Fault("radio")
  /\ \/ \E e \in {"REFUSED", "DROPPED"} : W!Disconnect(e)
     \/ link = "leased" /\ W!Lease
  /\ UNCHANGED <<view, ota, battery, posture, push, button, overtaken>>

Reconnect(called) ==
  /\ W!Reconnect(called) /\ Works(called, "radio")
  /\ UNCHANGED <<view, ota, battery, posture, push, button, overtaken>>

-----------------------------------------------------------------------------
(* The event loop: wifi_event_handler, and on_wifi_state to its end.       *)

Ready == ~V!Restoring

Started ==
  /\ Ready /\ W!Started /\ V!ShowStatus("Connecting...") /\ Calm
  /\ UNCHANGED <<restore, ota, battery, posture, push, button, overtaken>>

Ignored ==
  /\ Ready /\ W!Ignored /\ Calm
  /\ UNCHANGED <<view, ota, battery, posture, push, button, overtaken>>

Lost(e, started) ==
  /\ Ready /\ W!Retry(e, started) /\ Works(started, "radio")
  /\ V!ShowStatus(IF hadIp THEN "Reconnecting..." ELSE "WiFi unavailable")
  /\ overtaken' = FALSE
  /\ UNCHANGED <<restore, ota, battery, posture, push, button>>

GiveUp(e, erased) ==
  /\ Ready /\ W!GiveUp(e, erased) /\ Works(erased, "flash")
  /\ Down(FALSE)

\* The HTTP server is up from here on.
GotIp ==
  /\ Ready /\ W!GotIp /\ V!RestoreStart /\ Calm
  /\ UNCHANGED <<profile, store, slot, clock, screen, cid, cycle, footer, fresh>>
  /\ UNCHANGED <<ota, battery, posture, push, button, overtaken>>

\* show_agent_locked of the 1.75" profile paints the battery too.
BatteryShown == IF HasPmu /\ screen.agent = None THEN B!Show ELSE UNCHANGED battery

Restore ==
  /\ \/ /\ V!RestoreCount /\ overtaken' = FALSE
        /\ Calm /\ UNCHANGED battery
     \/ /\ V!RestoreCopy \/ V!RestoreWait
        /\ Calm /\ UNCHANGED <<battery, overtaken>>
     \/ /\ \E read \in BOOLEAN : V!RestoreShow(read) /\ Works(read, "flash")
        /\ BatteryShown /\ overtaken' = FALSE
  /\ UNCHANGED <<wifi, ota, posture, push, button>>

EventLoop ==
  \/ Started
  \/ Ignored
  \/ \E e \in {"REFUSED", "DROPPED"}, ok \in BOOLEAN : Lost(e, ok) \/ GiveUp(e, ok)
  \/ GotIp
  \/ Restore

-----------------------------------------------------------------------------
(* The portal, and the button.                                             *)

Save(f) ==
  /\ Stirs("portal")
  /\ \/ \E started \in BOOLEAN : W!Save(f, started) /\ Works(started, "portal")
        /\ UNCHANGED <<view, ota, battery, posture, push, button, overtaken>>
     \/ Fault("portal") /\ W!SaveNow(f) /\ Down(FALSE)

PortalRestart == portal = "saved" /\ Restart(FALSE) /\ Calm

\* A long press: the owners are erased, and the credentials; without the latter
\* no restart follows.
Press(erased) ==
  /\ ~button /\ Fault("flash")
  /\ V!Erase
  /\ creds' = IF erased THEN "none" ELSE creds
  /\ button' = erased
  /\ UNCHANGED <<mode, link, events, timer, backoff, streak, hadIp, portal,
                 stranded, refusals>>
  /\ UNCHANGED <<ota, battery, posture, push, overtaken>>

PressRestart == button /\ Restart(FALSE) /\ Calm

-----------------------------------------------------------------------------
(* httpd: pushes and uploads, one at a time.                               *)

Online == link = "leased" /\ hadIp

\* What a host sends, with what becomes of it on the way.
Requests == [msg : study.says, by : study.owners,
             twist : IF Stirs("wire") THEN Twists ELSE {"none"}]

\* summary_post_handler up to the parser: what does not parse is answered 400.
Receive(r) ==
  LET body == Twisted(Encode(r.msg), r.twist) IN
  /\ http = NoPush /\ upload = "none" /\ Online
  /\ http' = IF Parses(body)
             THEN [pc |-> "admit", snap |-> Parse(body), by |-> r.by,
                   meant |-> IF r.twist \in Harmless THEN Meant(r.msg) ELSE EmptySnapshot]
             ELSE NoPush
  /\ misread' = (misread \/ (Parses(body) # (r.twist \in Harmless)))
  /\ Calm
  /\ UNCHANGED <<wifi, view, ota, battery, posture, meant, button, overtaken>>

At(pc) == http.pc = pc
Goto(pc) == http' = [http EXCEPT !.pc = pc]

\* authorize_summary: 401 unless the slot is free, or held by this client.
Admit ==
  /\ At("admit")
  /\ IF slot[http.snap.agent] \in {None, http.by}
     THEN V!Bind(http.snap.agent, http.by) /\ Goto("put")
     ELSE UNCHANGED view /\ http' = NoPush
  /\ UNCHANGED meant

\* snapshot_store_put: 409 if it is older than what is stored.  The event loop
\* may have counted what is stored, and be about to say that it waits.
Store ==
  /\ At("put")
  /\ \/ /\ V!Older(http.snap) /\ http' = NoPush
        /\ UNCHANGED <<view, meant, overtaken>>
     \/ /\ V!Put(http.snap) /\ Goto("show")
        /\ overtaken' = (overtaken \/ restore.pc = "wait")
        /\ meant' = [meant EXCEPT ![http.snap.agent] = http.meant]

\* on_snapshot, the listener.  An agent may come over a splash that says more.
Show(read) ==
  /\ At("show")
  /\ V!ShowAgent(http.snap, read) /\ Goto("confirm")
  /\ BatteryShown
  /\ overtaken' = IF screen.agent = None
                  THEN screen.text = "Reconnecting..." \/ restore.pc = "wait"
                  ELSE overtaken
  /\ UNCHANGED <<restore, meant>>

\* maybe_mark_ota_valid, and 204.
Confirm(ok) ==
  /\ At("confirm") /\ (ok \/ ~done)
  /\ O!Confirm(ok) /\ http' = NoPush
  /\ UNCHANGED <<view, meant>>

Serve ==
  /\ \/ Admit /\ Calm /\ UNCHANGED <<ota, battery, overtaken>>
     \/ Store /\ Calm /\ UNCHANGED <<ota, battery>>
     \/ \E read \in BOOLEAN : Show(read) /\ Works(read, "flash") /\ UNCHANGED ota
     \/ \E ok \in BOOLEAN : Confirm(ok) /\ Works(ok, "update")
                            /\ UNCHANGED <<battery, overtaken>>
  /\ UNCHANGED <<wifi, posture, misread, button>>

\* /ota is for clients that hold a slot.
Upload ==
  /\ Stirs("update") /\ http = NoPush
  /\ \/ O!Take /\ Online /\ (\E a \in Known : slot[a] # None) /\ Calm
     \/ O!Begin /\ Calm
     \/ O!Write /\ Calm
     \/ \E good \in BOOLEAN : O!End(good) /\ Calm
     \/ O!Seal /\ Calm
     \/ \E started \in BOOLEAN : O!Arm(started) /\ Works(started, "update")
     \/ O!Drop /\ Calm
  /\ UNCHANGED <<wifi, view, battery, posture, push, button, overtaken>>

\* ota_reboot_cb; or at once, if its timer cannot be created.
UpdateRestart ==
  /\ \/ reboot /\ Calm
     \/ upload = "sealed" /\ Fault("update")
  /\ Restart(FALSE)

-----------------------------------------------------------------------------
(* LVGL, the watcher, and the world.                                       *)

Tick(read, sampled) ==
  /\ V!Tick(read)
  /\ IF HasPmu THEN B!Tick(sampled) ELSE sampled /\ UNCHANGED battery
  /\ IF read THEN Works(sampled, "pack") ELSE sampled /\ Fault("flash")
  /\ UNCHANGED <<wifi, ota, posture, push, button, overtaken>>

\* A sample that fails is no sample.
Watch ==
  /\ HasImu
  /\ \/ T!Sample /\ Calm
     \/ T!Skip /\ IF T!Opinion(pose) THEN Fault("pose") ELSE Calm
  /\ UNCHANGED <<wifi, view, ota, battery, push, button, overtaken>>

Turn ==
  /\ Fault("pose") /\ \E r \in Readings : T!Turn(r)
  /\ UNCHANGED <<wifi, view, ota, battery, push, button, overtaken>>

Charge ==
  /\ HasPmu /\ Fault("pack") /\ \E p \in B!Packs : B!Change(p)
  /\ UNCHANGED <<wifi, view, ota, posture, push, button, overtaken>>

\* Time passes in whole seconds; the first of them is SNTP's.
Clock ==
  /\ Stirs("wire") /\ V!Clock /\ Calm
  /\ UNCHANGED <<wifi, ota, battery, posture, push, button, overtaken>>

Next ==
  \/ PowerCycle
  \/ \E read, sampled \in BOOLEAN : Boot(read, sampled)
  \/ RadioAnswers
  \/ RadioFails
  \/ \E called \in BOOLEAN : Reconnect(called)
  \/ EventLoop
  \/ \E f \in W!Forms : Save(f)
  \/ PortalRestart
  \/ \E erased \in BOOLEAN : Press(erased)
  \/ PressRestart
  \/ \E r \in Requests : Receive(r)
  \/ Serve
  \/ Upload
  \/ UpdateRestart
  \/ \E read, sampled \in BOOLEAN : Tick(read, sampled)
  \/ Watch
  \/ Turn
  \/ Charge
  \/ Clock

\* The chain of the network runs: the boot, the radio, which ends what it began,
\* the event loop and the timers.  So do LVGL and the watcher.  The user, the
\* hosts, httpd and the faults owe nothing.
Chain ==
  \/ \E read, sampled \in BOOLEAN : Boot(read, sampled)
  \/ RadioAnswers
  \/ \E called \in BOOLEAN : Reconnect(called)
  \/ EventLoop
  \/ PressRestart
Fairness ==
  /\ WF_vars(Chain)
  /\ WF_vars(\E read, sampled \in BOOLEAN : Tick(read, sampled))
  /\ WF_vars(Watch)

Spec == Init /\ [][Next]_vars /\ Fairness

-----------------------------------------------------------------------------
(* The network.                                                            *)

\* Only a network that refuses us loses its credentials (wifi.c:10-13: "Non-auth
\* disconnects [...] stay on the exponential-backoff reconnect path so a brief AP
\* outage or range-walk doesn't blow away credentials"): none but the button
\* erases them before the network has refused us AuthFailFallback times since it
\* last gave us an address, however many other disconnections there were.
\* Associations and drops between the refusals do not start the count anew, here
\* as in the code; wifi.c:6-7 promises more ("consecutive [...] without an
\* intervening successful association"), and that is neither kept nor stated.
WipeNeedsRefusals ==
  [][creds # "none" /\ creds' = "none"
       => button' \/ refusals = AuthFailFallback]_vars

\* A device with a network in flash comes to something: an address, or the
\* portal if the network refuses it for good.  It may go on for ever only if
\* there is no such network, or if a call that nothing repeats has failed.
StationSettles ==
  mode = "sta" /\ creds # "gone" ~> link = "leased" \/ mode = "ap" \/ stranded

-----------------------------------------------------------------------------
(* The glass.                                                              *)

Quiet == events = <<>> /\ ~V!Restoring /\ http = NoPush /\ mode # "off"
OnShow == screen.agent # None
Splash(text) == screen = V!Splash(text)

\* When neither the event loop nor httpd has anything in hand, the glass tells
\* how things stand: the portal, a first connection, a lost one, an address
\* without data, or data; unless one of the two painted over the other.
ScreenAgrees ==
  Quiet =>
    IF mode = "ap" THEN Splash("Setup mode")
    ELSE IF ~hadIp
    THEN Splash(IF backoff = 1 THEN "Connecting..." ELSE "WiFi unavailable")
    ELSE IF link = "leased"
    THEN IF store = <<>> \/ overtaken THEN Splash("Waiting for daemon...")
                                      ELSE OnShow /\ V!Stored(screen.agent)
    ELSE IF overtaken THEN OnShow /\ V!Stored(screen.agent)
                      ELSE Splash("Reconnecting...")

\* With two agents stored, the one on show gives way (tick_lvgl_cb).
AgentsTakeTurns ==
  \A a \in Known : (Len(store) = 2 /\ screen.agent = a) ~> screen.agent # a

\* On AMOLED the owner printed below the agent on show becomes its owner in
\* flash, after a factory reset that did not restart the device too ("is
\* reflected within 10 seconds").
StaleOwner == HasImu /\ OnShow /\ screen.owner # slot[screen.agent]
FooterFollowsSlot == StaleOwner ~> ~StaleOwner

\* What is stored is what the host meant, and accepted whatever the order of its
\* members, with or without its defaults and with members the parser can skip; a
\* body the wire format forbids is refused.  So is, although it should be skipped
\* (http_server.c:393, :470), a member whose key is too long for the parser's buffer.
AcceptedIsMeant ==
  /\ ~misread
  /\ \A i \in DOMAIN store : store[i] = meant[store[i].agent]

\* The bars show the usage the host meant, or nothing once its window is over; a
\* window that rolls and is hardly used is never over.  True from the first tick
\* after a push.
Over(s, now) ==
  now > 0 /\ now >= s.resets /\ ~(s.rolling /\ s.used <= 1 /\ s.window > 0)
ShownIsMeant ==
  fresh /\ OnShow =>
    \A i \in DOMAIN screen.rows :
      LET s == meant[screen.agent].sessions[i]
      IN  screen.rows[i].pct = IF Over(s, screen.at) THEN 0 ELSE s.used

-----------------------------------------------------------------------------
(* Update, battery, orientation.                                           *)

\* Ota's promises, across pushes, uploads, restarts and losses of power: the
\* device always has a complete image to boot, and an image that answered a push
\* is never taken back.
AlwaysBootable == O!AlwaysBootable
PushKeepsImage == O!PushKeepsImage

\* Battery's promise, across ticks, turns, restarts and failed readings.
BatteryCurrent == B!LabelCurrent

\* However the device was turned, once it is held still the picture is upright.
UprightAtRest == <>[](HasImu => T!Upright)
=============================================================================
