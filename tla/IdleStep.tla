------------------------------ MODULE IdleStep ------------------------------
(***************************************************************************)
(* The idle state machine of burn_protection/burn_idle.c as operators: a   *)
(* configuration and a machine go in, the next machine or its output comes *)
(* out.  BurnIdle gives it time and events, Panel the queue, the tasks and *)
(* the screen around it.  The previous output the code keeps is a function *)
(* of the previous state and is left out.                                  *)
(***************************************************************************)
EXTENDS Integers

States == {"ACTIVE", "DIMMED", "OFF"}

\* Motion, touch and button: somebody is there.  A push only says that an
\* agent was used, a tick only that time has passed.
UserEvents == {"MOTION", "TOUCH", "BUTTON"}
Events     == UserEvents \cup {"PUSH", "TIME"}

Machines == [state : States, last : Int]

\* Thresholds in units of time, brightness in percent.
Valid(cfg) ==
  /\ cfg \in [dim : Int, off : Int, active : Nat, dimmed : Nat]
  /\ cfg.dim > 0
  /\ cfg.off >= cfg.dim
  /\ cfg.active <= 100
  /\ cfg.dimmed <= cfg.active

Boot == [state |-> "ACTIVE", last |-> 0]

\* Mutant of StateFor: the dim threshold is looked at first.
StateForDimFirst(cfg, idle) ==
  IF idle >= cfg.dim THEN "DIMMED" ELSE IF idle >= cfg.off THEN "OFF" ELSE "ACTIVE"

\* The off threshold is looked at first: it wins when both are equal.
StateFor(cfg, idle) ==
  IF idle >= cfg.off THEN "OFF" ELSE IF idle >= cfg.dim THEN "DIMMED" ELSE "ACTIVE"

\* Mutants of Pushed: dated ahead, not backdated at all, committed to full
\* brightness, backdated while in use.
PushedAhead(cfg, sm, now) ==
  IF sm.state = "ACTIVE" THEN [state |-> "ACTIVE", last |-> now]
                         ELSE [state |-> "DIMMED", last |-> now + cfg.dim]
PushedFresh(cfg, sm, now) ==
  [state |-> IF sm.state = "ACTIVE" THEN "ACTIVE" ELSE "DIMMED", last |-> now]
PushedLit(cfg, sm, now) == [state |-> "ACTIVE", last |-> now]
PushedInUse(cfg, sm, now) ==
  [state |-> IF sm.state = "ACTIVE" THEN "ACTIVE" ELSE "DIMMED", last |-> now - cfg.dim]

\* A push never lights an idle screen fully: it is backdated by the dim
\* threshold, so that only off - dim of silence remain.
Pushed(cfg, sm, now) ==
  IF sm.state = "ACTIVE" THEN [state |-> "ACTIVE", last |-> now]
                         ELSE [state |-> "DIMMED", last |-> now - cfg.dim]

\* A tick re-evaluates; a clock that went back counts as no idle time.
Timed(cfg, sm, now) ==
  [state |-> StateFor(cfg, IF now < sm.last THEN 0 ELSE now - sm.last),
   last  |-> sm.last]

\* Mutant of Woken: only a change of state is activity.
WokenIfIdle(cfg, sm, now) ==
  IF sm.state = "ACTIVE" THEN sm ELSE [state |-> "ACTIVE", last |-> now]

Woken(cfg, sm, now) == [state |-> "ACTIVE", last |-> now]

Step(cfg, sm, ev, now) ==
  IF ev = "PUSH" THEN Pushed(cfg, sm, now)
  ELSE IF ev \in UserEvents THEN Woken(cfg, sm, now)
  ELSE Timed(cfg, sm, now)

Lit(state) == state # "OFF"

Brightness(cfg, state) ==
  IF state = "ACTIVE" THEN cfg.active ELSE IF state = "DIMMED" THEN cfg.dimmed ELSE 0
=============================================================================
