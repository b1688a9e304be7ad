------------------------------ MODULE BurnIdle ------------------------------
(***************************************************************************)
(* The idle state machine in time: burn_idle_step is called with any event *)
(* at any moment, the clock never goes back.  What it promises             *)
(* is FR-2.3 and FR-2.4 of docs/fsd/oled-burn-in-mitigation-fsd.md.        *)
(***************************************************************************)
EXTENDS IdleStep

CONSTANTS
  Configs,   \* the configurations to start with
  Horizon    \* bound: the last moment of the clock

ASSUME BurnIdleAssumption ==
  /\ \A c \in Configs : Valid(c)
  /\ Horizon \in Nat

VARIABLES
  cfg,       \* sm.cfg
  sm,        \* the machine: state, last_activity_us
  now,       \* the caller's clock
  ev,        \* history: the event of the last step; "none" once time has passed
  user,      \* history: the moment of the last user event (boot counts as one)
  push,      \* history: the moment of the last push (boot counts as one)
  soft       \* history: was the last of them a push to a screen that was idle?

vars == <<cfg, sm, now, ev, user, push, soft>>

Init ==
  /\ cfg \in Configs
  /\ sm = Boot
  /\ now = 0
  /\ ev = "none"
  /\ user = 0
  /\ push = 0
  /\ soft = FALSE

Handle(e) ==
  /\ sm' = Step(cfg, sm, e, now)
  /\ ev' = e
  /\ user' = IF e \in UserEvents THEN now ELSE user
  /\ push' = IF e = "PUSH" THEN now ELSE push
  /\ soft' = IF e = "TIME" THEN soft ELSE e = "PUSH" /\ sm.state # "ACTIVE"
  /\ UNCHANGED <<cfg, now>>

Pass ==
  /\ now < Horizon
  /\ now' = now + 1
  /\ ev' = "none"
  /\ UNCHANGED <<cfg, sm, user, push, soft>>

Next == Pass \/ \E e \in Events : Handle(e)

Spec == Init /\ [][Next]_vars

-----------------------------------------------------------------------------
\* Every variable has its type; the last activity lies in the past, by at
\* most the dim threshold before boot.
TypeOK ==
  /\ cfg \in Configs
  /\ sm \in Machines
  /\ sm.last >= -cfg.dim
  /\ sm.last <= now
  /\ now \in 0..Horizon
  /\ ev \in Events \cup {"none"}
  /\ user \in 0..now
  /\ push \in 0..now
  /\ soft \in BOOLEAN

\* The screen is never dimmed within the dim threshold of a user event, and
\* never off before off_after_us of no user and off - dim of no push
\* (burn_idle.c:20-29, 100-120).
NotBeforeTime ==
  /\ sm.state # "ACTIVE" => now - user >= cfg.dim
  /\ sm.state = "OFF" => /\ now - user >= cfg.off
                         /\ now - push >= cfg.off - cfg.dim

\* A tick finds the screen off once nothing has happened for off_after_us, and
\* already off - dim after a push that only softly woke it: pushes can prolong
\* the dimmed phase but never grant a full window (burn_idle.c:96-99).
SilenceDarkens ==
  ev = "TIME" =>
    /\ now - user >= cfg.off /\ now - push >= cfg.off => sm.state = "OFF"
    /\ soft /\ now - push >= cfg.off - cfg.dim => sm.state = "OFF"

\* Only a user event brings back full brightness: neither a push (FR-2.3) nor
\* a tick that finds less idle time than an earlier one did.
OnlyUsersLight ==
  [][sm.state # "ACTIVE" /\ sm'.state = "ACTIVE" => ev' \in UserEvents]_vars

\* No event, the backdated push included, brings the next dimming or the next
\* power-off forward (burn_idle.c:104-106).
NeverShortens == [][sm'.last >= sm.last]_vars

=============================================================================
