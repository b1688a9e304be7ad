-------------------------------- MODULE Wifi --------------------------------
(***************************************************************************)
(* wifi.c and the captive portal of provisioning.c: the station that joins *)
(* the network in flash, its retries, and the access point on which a user *)
(* leaves a new network.  The radio and the event loop of the library are  *)
(* external: the radio ends an attempt, the loop delivers what it posts in *)
(* order.  Firmware paints what the state callback is told, and restarts.  *)
(***************************************************************************)
EXTENDS Integers, Sequences

CONSTANTS
  AuthFailFallback  \* AUTH_FAIL_FALLBACK_THRESHOLD

VARIABLES
  creds,     \* flash: the network stored
  mode,      \* what the radio was started as
  link,      \* the station: idle, trying, joined, or leased (it has an address)
  events,    \* the queue of the event loop
  timer,     \* s_reconnect_timer: seconds it was started with, 0 if stopped
  backoff,   \* s_backoff_s
  streak,    \* s_auth_fail_streak
  hadIp,     \* s_had_ip
  portal,    \* the portal: open, or about to restart after a form was saved
  stranded,  \* history: was an attempt lost that nothing repeats?
  refusals   \* history: disconnections by the authentication since an address
             \* (not since an association, wifi.c:6-7), up to the threshold

ramVars  == <<timer, backoff, streak, hadIp, portal>>

\* A network stored in flash: it lets us in, it refuses us (a wrong password),
\* or there is no such network (a wrong name).
Networks == {"none", "home", "locked", "gone"}
\* WIFI_EVENT_* and IP_EVENT_*: a disconnection is REFUSED with the reasons of
\* is_auth_failure_reason and DROPPED with any other.
WifiEvents == {"STA_START", "STA_CONNECTED", "REFUSED", "DROPPED",
               "AP_START", "GOT_IP"}

TypeOK ==
  /\ creds \in Networks
  /\ mode \in {"off", "sta", "ap"}
  /\ link \in {"idle", "trying", "joined", "leased"}
  /\ events \in Seq(WifiEvents)
  /\ timer \in 0..30
  /\ backoff \in 1..30
  /\ streak \in 0..AuthFailFallback
  /\ hadIp \in BOOLEAN
  /\ portal \in {"open", "saved"}
  /\ stranded \in BOOLEAN
  /\ refusals \in 0..AuthFailFallback

Init ==
  /\ creds \in Networks
  /\ mode = "off" /\ link = "idle" /\ events = <<>>
  /\ timer = 0 /\ backoff = 1 /\ streak = 0 /\ hadIp = FALSE
  /\ portal = "open" /\ stranded = FALSE /\ refusals = 0

\* A restart forgets all but the flash.
Reset ==
  /\ mode' = "off" /\ link' = "idle" /\ events' = <<>>
  /\ timer' = 0 /\ backoff' = 1 /\ streak' = 0 /\ hadIp' = FALSE
  /\ portal' = "open" /\ stranded' = FALSE /\ refusals' = 0

-----------------------------------------------------------------------------
(* The end of app_main.                                                    *)

\* wifi_start_sta: with credentials that could be loaded.
StartStation ==
  /\ mode = "off" /\ creds # "none"
  /\ mode' = "sta" /\ events' = <<"STA_START">>
  /\ UNCHANGED <<creds, link, ramVars, stranded, refusals>>

\* provisioning_start: without any, or when they could not be read.
StartPortal ==
  /\ mode = "off"
  /\ mode' = "ap" /\ events' = <<"AP_START">>
  /\ UNCHANGED <<creds, link, ramVars, stranded, refusals>>

-----------------------------------------------------------------------------
(* The radio.                                                              *)

Post(e) == events' = Append(events, e)

Associate ==
  /\ link = "trying" /\ creds = "home"
  /\ link' = "joined" /\ Post("STA_CONNECTED")
  /\ UNCHANGED <<creds, mode, ramVars, stranded, refusals>>

\* A first address, or another one in place of it.  It alone starts the count of
\* refusals anew (wifi.c:160); an association, of which wifi.c:6-7 speaks, does not.
Lease ==
  /\ link \in {"joined", "leased"}
  /\ link' = "leased" /\ Post("GOT_IP")
  /\ refusals' = 0
  /\ UNCHANGED <<creds, mode, ramVars, stranded>>

\* What must happen to an attempt on a network that does not let us in.
Forced(e) == \/ creds = "locked" /\ e = "REFUSED"
             \/ creds = "gone" /\ e = "DROPPED"

\* An attempt fails or the network is lost, with a reason of either class.
Disconnect(e) ==
  /\ link # "idle"
  /\ link' = "idle" /\ Post(e)
  /\ refusals' = IF e = "REFUSED" /\ refusals < AuthFailFallback
                 THEN refusals + 1 ELSE refusals
  /\ UNCHANGED <<creds, mode, ramVars, stranded>>

-----------------------------------------------------------------------------
(* The handler of the event loop: one event at a time.                     *)

Delivered(e) == events # <<>> /\ Head(events) = e /\ events' = Tail(events)

\* In AP mode the station's events of a scan are ignored; an association and
\* the access point's start need nothing done.
Ignored ==
  /\ events # <<>> /\ events' = Tail(events)
  /\ Head(events) \in {"STA_CONNECTED", "AP_START"}
  /\ UNCHANGED <<creds, mode, link, ramVars, stranded, refusals>>

\* esp_wifi_connect is checked here: if it fails, the device restarts.
Started ==
  /\ Delivered("STA_START")
  /\ link' = "trying"
  /\ UNCHANGED <<creds, mode, ramVars, stranded, refusals>>

\* Mutant of NextBackoff: the cap is forgotten.
NextBackoffUncapped(current) == 2 * current

NextBackoff(current) == IF 2 * current > 30 THEN 30 ELSE 2 * current

\* schedule_reconnect; its two commands do not wait for a full timer queue.
Scheduled(started) ==
  /\ timer' = IF started THEN backoff ELSE timer
  /\ stranded' = ~started

\* Mutant of Counts: no disconnection counts.
CountsNone(e) == FALSE

\* is_auth_failure_reason
Counts(e) == e = "REFUSED"
NewStreak(e) == IF Counts(e) THEN streak + 1 ELSE streak
GivesUp(e)   == Counts(e) /\ NewStreak(e) >= AuthFailFallback

\* A disconnection short of the threshold: try again later.
Retry(e, started) ==
  /\ Delivered(e)
  /\ ~GivesUp(e)
  /\ streak' = NewStreak(e)
  /\ Scheduled(started)
  /\ backoff' = NextBackoff(backoff)
  /\ UNCHANGED <<creds, mode, link, hadIp, portal, refusals>>

\* The threshold is reached: erase the credentials, and restart whether or not
\* that worked.
GiveUp(e, erased) ==
  /\ events # <<>> /\ Head(events) = e
  /\ GivesUp(e)
  /\ creds' = IF erased THEN "none" ELSE creds
  /\ Reset

\* Mutant of GotIp: the streak survives an address.
GotIpStreakKept ==
  /\ Delivered("GOT_IP")
  /\ backoff' = 1 /\ hadIp' = TRUE
  /\ UNCHANGED <<creds, mode, link, timer, streak, portal, stranded, refusals>>

GotIp ==
  /\ Delivered("GOT_IP")
  /\ backoff' = 1 /\ streak' = 0 /\ hadIp' = TRUE
  /\ UNCHANGED <<creds, mode, link, timer, portal, stranded, refusals>>

\* reconnect_timer_cb: a call that fails is logged, and that is all.
Reconnect(called) ==
  /\ timer # 0 /\ timer' = 0
  /\ link' = IF called THEN "trying" ELSE link
  /\ stranded' = ~called
  /\ UNCHANGED <<creds, mode, events, backoff, streak, hadIp, portal, refusals>>

-----------------------------------------------------------------------------
(* The portal.                                                             *)

\* A form: its two fields, and the one that ends with the first buffer received,
\* the only buffer provision_post asks for.
Forms == [ssid : {"right", "wrong", "absent", "long"},
          password : {"right", "wrong", "long"},
          cut : {"none", "ssid", "password"}]

\* extract_field and the checks of provision_post: what was cut off is not
\* missed.
Accepts(f) ==
  /\ f.ssid \in {"right", "wrong"}
  /\ f.password # "long" \/ f.cut = "ssid"
Network(f) ==
  IF f.ssid = "wrong" \/ f.cut = "ssid" THEN "gone"
  ELSE IF f.password = "wrong" \/ f.cut = "password" THEN "locked" ELSE "home"

\* provision_post: the reply, then a restart in half a second, never if its
\* timer does not start.
Save(f, started) ==
  /\ mode = "ap"
  /\ Accepts(f)
  /\ creds' = Network(f)
  /\ portal' = IF started THEN "saved" ELSE portal
  /\ UNCHANGED <<mode, link, events, timer, backoff, streak, hadIp, stranded,
                 refusals>>

\* A restart at once: the timer cannot even be created.
SaveNow(f) ==
  /\ mode = "ap"
  /\ Accepts(f)
  /\ creds' = Network(f)
  /\ Reset
=============================================================================
