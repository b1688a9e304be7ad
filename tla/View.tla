-------------------------------- MODULE View --------------------------------
(***************************************************************************)
(* What is on the glass: the screen of ui.c in the three display profiles, *)
(* the snapshot store it reads, the owner it prints, and the part of       *)
(* main.c that decides what to show when an address is obtained.           *)
(*                                                                         *)
(* LVGL's lock makes each call that paints one step.  Time is counted in   *)
(* ticks of one second; a clock of zero has not been set yet.              *)
(***************************************************************************)
EXTENDS Integers, Sequences

CONSTANTS
  Agents,      \* KNOWN_AGENTS
  Owners,      \* client ids
  None,        \* no agent, no owner
  CycleTicks,  \* CYCLE_INTERVAL_S
  FooterTicks, \* ticks between two readings of the owners on AMOLED
  MaxClock     \* bound: the clock stops here

VARIABLES
  profile,   \* the display the firmware was built for
  store,     \* s_slots of snapshot.c, in their order
  slot,      \* flash: the owner of each agent's pairing slot
  clock,     \* time(NULL)
  screen,    \* what is painted, and when
  cid,       \* s_footer_cid
  cycle,     \* s_cycle_ticks
  footer,    \* footer_refresh_ticks
  restore,   \* on_wifi_state(GOT_IP): what it does next, and its copy
  fresh      \* history: has a tick painted since the last change of the store?

Profiles == {"cyd2usb_st7789", "amoled_sh8601", "amoled_co5300_175"}
Texts == {"Booting...", "Connecting...", "Reconnecting...", "WiFi unavailable",
          "Waiting for daemon...", "Setup mode"}

\* session_snapshot_t: a name, percent, seconds, seconds.
Sessions  == [type : STRING, used : Int, resets : Int, rolling : BOOLEAN, window : Int]
Snapshots == [agent : Agents, captured : Int, sessions : Seq(Sessions)]
Rows      == [pct : Int, left : Int]
\* Agent None is the splash; age -1 is an empty line.
Screens   == [agent : Agents \cup {None}, text : Texts \cup {""}, at : Nat,
              owner : Owners \cup {None}, age : Int, rows : Seq(Rows)]

TypeOK ==
  /\ profile \in Profiles
  /\ store \in Seq(Snapshots)
  /\ slot \in [Agents -> Owners \cup {None}]
  /\ clock \in 0..MaxClock
  /\ screen \in Screens
  /\ cid \in [Agents -> Owners \cup {None}]
  /\ cycle \in 0..(CycleTicks - 1)
  /\ footer \in 0..(FooterTicks - 1)
  /\ restore.pc \in {"idle", "count", "wait", "copy", "show"}
  /\ fresh \in BOOLEAN

Splash(text) == [agent |-> None, text |-> text, at |-> 0, owner |-> None,
                 age |-> -1, rows |-> <<>>]
NotRestoring == [pc |-> "idle", copy |-> <<>>]

Init ==
  /\ profile \in Profiles
  /\ slot = [a \in Agents |-> None]
  /\ store = <<>> /\ clock = 0 /\ screen = Splash("Booting...")
  /\ cid = [a \in Agents |-> None] /\ cycle = 0 /\ footer = 0
  /\ restore = NotRestoring /\ fresh = FALSE

\* A restart keeps the flash; the clock of the chip survives all but a loss of
\* power.
Reset(power) ==
  /\ store' = <<>> /\ screen' = Splash("Booting...")
  /\ clock' = IF power THEN 0 ELSE clock
  /\ cid' = [a \in Agents |-> None] /\ cycle' = 0 /\ footer' = 0
  /\ restore' = NotRestoring /\ fresh' = FALSE
  /\ UNCHANGED <<profile, slot>>

-----------------------------------------------------------------------------
(* The store.                                                              *)

Stored(a) == \E i \in DOMAIN store : store[i].agent = a
IndexOf(a) == CHOOSE i \in DOMAIN store : store[i].agent = a
Get(a) == store[IndexOf(a)]

\* snapshot_store_put: newer or equally old replaces, in the same place.
Older(s) == Stored(s.agent) /\ s.captured < Get(s.agent).captured
Put(s) ==
  /\ ~Older(s)
  /\ store' = IF Stored(s.agent) THEN [store EXCEPT ![IndexOf(s.agent)] = s]
              ELSE Append(store, s)
  /\ fresh' = FALSE
  /\ UNCHANGED <<profile, slot, clock, screen, cid, cycle, footer, restore>>

-----------------------------------------------------------------------------
(* Painting.                                                               *)

\* effective_resets_at: a rolling window that is hardly used starts now.
EffectiveReset(s, now) ==
  IF s.rolling /\ s.used <= 1 /\ s.window > 0 THEN now + s.window ELSE s.resets

Synced(now) == now > 0

\* Mutant of Pct: an unset clock counts as a time, and rolling windows end.
PctRolling(s, now) == IF Synced(now) /\ now >= s.resets THEN 0 ELSE s.used

\* The usage of a window that is over is zero.
Pct(s, now) ==
  IF Synced(now) /\ now >= EffectiveReset(s, now) THEN 0 ELSE s.used

\* format_countdown: below zero is "reset due"; without a clock "syncing...".
Countdown(s, now) ==
  IF ~Synced(now) \/ now > EffectiveReset(s, now) THEN -1
  ELSE EffectiveReset(s, now) - now

\* The rows of render_snapshot_locked: three bars, or two rings.
CydRow(s, now)    == [pct |-> Pct(s, now), left |-> Countdown(s, now)]
AmoledRow(s, now) == [pct |-> Pct(s, now), left |-> Countdown(s, now)]
RowCount(s) == LET most == IF profile = "cyd2usb_st7789" THEN 3 ELSE 2
               IN  IF Len(s.sessions) < most THEN Len(s.sessions) ELSE most
RowsOf(s) == [i \in 1..RowCount(s) |->
                IF profile = "cyd2usb_st7789" THEN CydRow(s.sessions[i], clock)
                ELSE AmoledRow(s.sessions[i], clock)]

\* format_updated_relative and render_footer_locked: nothing for an unpaired
\* agent or an unset clock; a snapshot from the future was taken just now.
Age(s, owner) ==
  IF owner = None \/ ~Synced(clock) \/ ~Synced(s.captured) THEN -1
  ELSE IF clock < s.captured THEN 0 ELSE clock - s.captured

Painted(s, owners) ==
  [agent |-> s.agent, text |-> "", at |-> clock, owner |-> owners[s.agent],
   age |-> Age(s, owners[s.agent]), rows |-> RowsOf(s)]

\* refresh_footer_cid: a slot that cannot be read is kept as it was on AMOLED,
\* and is blank on the CYD.
CydOwner(owners, a, read) ==
  [owners EXCEPT ![a] = IF read THEN slot[a] ELSE None]
AmoledOwner(owners, a, read) ==
  [owners EXCEPT ![a] = IF read THEN slot[a] ELSE owners[a]]
Refreshed(owners, a, read) ==
  IF profile = "cyd2usb_st7789" THEN CydOwner(owners, a, read)
  ELSE AmoledOwner(owners, a, read)

\* show_agent_locked
Loaded(s, owners, read) ==
  /\ cid' = Refreshed(owners, s.agent, read)
  /\ screen' = Painted(s, cid')

\* display_profile_show_status
ShowStatus(text) ==
  /\ screen' = Splash(text)
  /\ UNCHANGED <<profile, store, slot, clock, cid, cycle, footer, fresh>>

\* display_profile_show_agent: only in place of the splash.
ShowAgent(s, read) ==
  /\ IF screen.agent = None THEN Loaded(s, cid, read)
                            ELSE UNCHANGED <<screen, cid>>
  /\ fresh' = FALSE
  /\ UNCHANGED <<profile, store, slot, clock, cycle, footer>>

-----------------------------------------------------------------------------
(* tick_lvgl_cb, once a second.                                            *)

\* Repainted from the store: what was on show when the tick began.
Repainted == IF Stored(screen.agent) THEN Painted(Get(screen.agent), cid)
             ELSE screen

\* advance_to_next_agent_locked, for two agents; the first if what is on show
\* is not stored.
NextOf(a) == IF Stored(a) THEN store[(IndexOf(a) % Len(store)) + 1] ELSE store[1]

\* Mutant of Turned: the turn never ends.
TurnedLate(owners, read) ==
  /\ cycle' = IF Len(store) >= 2 /\ cycle + 1 < CycleTicks THEN cycle + 1 ELSE cycle
  /\ cid' = owners /\ screen' = Repainted

\* The end of a tick: with two agents stored, one gives way to the other.
Turned(owners, read) ==
  IF Len(store) >= 2 /\ cycle + 1 >= CycleTicks
  THEN cycle' = 0 /\ Loaded(NextOf(screen.agent), owners, read)
  ELSE /\ cycle' = IF Len(store) >= 2 THEN cycle + 1 ELSE 0
       /\ cid' = owners /\ screen' = Repainted

\* The AMOLED profiles read both owners every FooterTicks ticks.
Reread(read) == footer' = (footer + 1) % FooterTicks
\* Mutant of OwnersReread: as on the CYD.
OwnersRereadNever(read) == cid

OwnersReread(read) ==
  IF footer' = 0 /\ read THEN slot ELSE cid

TickCyd(read) ==
  /\ profile = "cyd2usb_st7789" /\ screen.agent # None
  /\ UNCHANGED footer
  /\ Turned(cid, read)

\* The battery of the co5300 is painted by Battery.
TickAmoled(read) ==
  /\ profile # "cyd2usb_st7789" /\ screen.agent # None
  /\ Reread(read)
  /\ Turned(OwnersReread(read), read)

Tick(read) ==
  /\ TickCyd(read) \/ TickAmoled(read)
  /\ fresh' = TRUE
  /\ UNCHANGED <<profile, store, slot, clock, restore>>

-----------------------------------------------------------------------------
(* on_wifi_state.  An address was obtained: count, then wait or copy, show. *)

Restoring == restore.pc # "idle"

RestoreStart == restore' = [NotRestoring EXCEPT !.pc = "count"]

\* Mutant of RestoreCount: the store is not looked at.
RestoreCountBlind ==
  /\ restore.pc = "count"
  /\ restore' = [restore EXCEPT !.pc = "wait"]
  /\ UNCHANGED <<profile, store, slot, clock, screen, cid, cycle, footer, fresh>>

RestoreCount ==
  /\ restore.pc = "count"
  /\ restore' = [restore EXCEPT !.pc = IF store = <<>> THEN "wait" ELSE "copy"]
  /\ UNCHANGED <<profile, store, slot, clock, screen, cid, cycle, footer, fresh>>

RestoreWait ==
  /\ restore.pc = "wait" /\ restore' = NotRestoring
  /\ ShowStatus("Waiting for daemon...")

RestoreCopy ==
  /\ restore.pc = "copy"
  /\ restore' = [pc |-> "show", copy |-> store[1]]
  /\ UNCHANGED <<profile, store, slot, clock, screen, cid, cycle, footer, fresh>>

RestoreShow(read) ==
  /\ restore.pc = "show" /\ restore' = NotRestoring
  /\ ShowAgent(restore.copy, read)

-----------------------------------------------------------------------------
(* What is decided elsewhere.                                              *)

\* The clock is set, or goes on.
Clock ==
  /\ clock < MaxClock /\ clock' = clock + 1
  /\ UNCHANGED <<profile, store, slot, screen, cid, cycle, footer, restore, fresh>>

\* A first push binds; a long press of the button erases.
Bind(a, o) ==
  /\ slot' = [slot EXCEPT ![a] = IF slot[a] = None THEN o ELSE slot[a]]
  /\ UNCHANGED <<profile, store, clock, screen, cid, cycle, footer, restore, fresh>>

Erase ==
  /\ slot' = [a \in Agents |-> None]
  /\ UNCHANGED <<profile, store, clock, screen, cid, cycle, footer, restore, fresh>>
=============================================================================
