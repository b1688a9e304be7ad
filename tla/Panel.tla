------------------------------- MODULE Panel --------------------------------
(***************************************************************************)
(* The burn-in adapter of an AMOLED panel (displays/amoled_sh8601): the    *)
(* queue of events, the drain task that steps the idle machine and applies *)
(* its output, the fade engine driven by an esp_timer callback, the        *)
(* panel's two registers, and the orientation task, which takes the        *)
(* brightness away from the fade engine while it rotates the screen.       *)
(*                                                                         *)
(* Three tasks and the callback run on two cores.  Every critical section, *)
(* every call of the timer library and every write to the panel is a step  *)
(* of its own.  Time is counted back from the present: sm.last is minus    *)
(* the idle time, cut off at the off threshold, where nothing changes any  *)
(* more.                                                                   *)
(***************************************************************************)
EXTENDS IdleStep, Sequences

CONSTANTS
  Cfg,          \* the configuration
  WakePeriods,  \* callback periods of a fade up (0: no fade)
  SleepPeriods, \* callback periods of a fade down (0: no fade)
  Depth,        \* EVENT_QUEUE_DEPTH
  Sources,      \* events posted from outside: pushes and user events
  Builds,       \* values of BURNSCOPE_AMOLED_ORIENTATION_AUTO
  MaxStimuli    \* bound: pushes, user events and rotations of a behaviour

ASSUME PanelAssumption ==
  /\ Valid(Cfg)
  /\ WakePeriods \in Nat
  /\ SleepPeriods \in Nat
  /\ Depth \in Nat \ {0}
  /\ Sources \subseteq Events \ {"TIME"}
  /\ Builds \subseteq BOOLEAN
  /\ MaxStimuli \in Nat

VARIABLES
  auto,      \* was orientation_task built in?
  queue,     \* s_queue
  sm,        \* s_sm
  fade,      \* s_fade
  timer,     \* is s_fade_timer running?
  cb,        \* fade_step_cb in the esp_timer task
  task,      \* the drain task and the orientation task
  panel,     \* the panel: is it on, and its brightness register
  stimuli,   \* how many stimuli are left
  late       \* history: did a wake ever come between the last check of
             \* fade_step_cb and the DISPOFF it allows?

vars == <<auto, queue, sm, fade, timer, cb, task, panel, stimuli, late>>

Levels == 0..100

\* A fade from start to target over `periods` callback periods, of which `past`
\* have gone by; cur is current_pct, off is pending_panel_off.
Fades == [start : Levels, target : Levels, cur : Levels, periods : Nat,
          past : Nat, off : BOOLEAN, active : BOOLEAN]

\* The callback: what it does next, whether the fade it has read is still the
\* current one (generation = my_gen), what it writes, whether that is the end.
Callbacks == [pc : {"idle", "read", "commit", "write", "check", "dispoff"},
              mine : BOOLEAN, level : Levels, fin : BOOLEAN, off : BOOLEAN]
IdleCb == [pc |-> "idle", mine |-> FALSE, level |-> 0, fin |-> FALSE, off |-> FALSE]

\* A task and its call start_fade(target, periods, off): what it does next and
\* where it goes on afterwards; bright is brightness_changed.
Tasks == {"drain", "orient"}
Calls == [pc : {"wait", "lock", "dispon", "fade", "start", "stop", "bright",
                "dispoff", "down", "up"},
          ret : {"wait", "down"}, target : Levels, periods : Nat,
          off : BOOLEAN, bright : BOOLEAN]
Call(pc, ret, target, periods, off) ==
  [pc |-> pc, ret |-> ret, target |-> target, periods |-> periods,
   off |-> off, bright |-> FALSE]
Waiting == Call("wait", "wait", 0, 0, FALSE)

Init ==
  /\ auto \in Builds
  /\ queue = <<>>
  /\ sm = Boot
  /\ fade = [start |-> 0, target |-> 0, cur |-> Cfg.active, periods |-> 0,
             past |-> 0, off |-> FALSE, active |-> FALSE]
  /\ timer = FALSE
  /\ cb = IdleCb
  /\ task = [t \in Tasks |-> Waiting]
  /\ panel = [on |-> TRUE, level |-> Cfg.active]
  /\ stimuli = MaxStimuli
  /\ late = FALSE

-----------------------------------------------------------------------------
(* Events.                                                                 *)

\* Mutant of Post: the queue has no end.
PostAnyway(e) == Append(queue, e)

\* An event that finds the queue full is dropped.
Post(e) == IF Len(queue) < Depth THEN Append(queue, e) ELSE queue

Stimulus(e) ==
  /\ stimuli > 0
  /\ stimuli' = stimuli - 1
  /\ queue' = Post(e)
  /\ UNCHANGED <<auto, sm, fade, timer, cb, task, panel, late>>

\* The tick runs in the same task as fade_step_cb, hence not during it.
Tick ==
  /\ cb.pc = "idle"
  /\ sm' = [sm EXCEPT !.last = IF @ > -Cfg.off THEN @ - 1 ELSE @]
  /\ queue' = Post("TIME")
  /\ UNCHANGED <<auto, fade, timer, cb, task, panel, stimuli, late>>

-----------------------------------------------------------------------------
(* start_fade, by either task.                                             *)

\* The orientation task holds the LVGL lock from before its first anchor to
\* after its last; every write to the panel takes that lock.
Rotating == task["orient"].pc \notin {"wait", "lock"}
CanWrite(t) == t = "orient" \/ ~Rotating

Goes(t, pc) == task' = [task EXCEPT ![t].pc = pc]
Returns(t) ==
  IF task[t].ret = "wait" THEN task' = [task EXCEPT ![t] = Waiting]
                          ELSE Goes(t, task[t].ret)

\* Mutants of Ramp: a pending power-off is never withdrawn; it is forgotten when
\* the fade replaces one in flight.
RampKeepsOff(r) ==
  [start |-> fade.cur, target |-> r.target, cur |-> fade.cur, periods |-> r.periods,
   past |-> 0, off |-> r.off \/ fade.off, active |-> TRUE]
RampDropsOff(r) ==
  [start |-> fade.cur, target |-> r.target, cur |-> fade.cur, periods |-> r.periods,
   past |-> 0, off |-> r.off /\ ~fade.active, active |-> TRUE]

\* The new fade starts where the one in flight has got to.
Ramp(r) ==
  [start |-> fade.cur, target |-> r.target, cur |-> fade.cur, periods |-> r.periods,
   past |-> 0, off |-> r.off, active |-> TRUE]

\* The part under s_fade_mux.  A call with no duration or no distance cancels
\* the fade in flight and goes on to stop its timer; any other replaces it,
\* and starts the timer unless a fade was active.
StartFade(t) ==
  LET r == task[t]
      short == r.periods = 0 \/ fade.cur = r.target
  IN /\ r.pc = "fade"
     /\ cb' = [cb EXCEPT !.mine = FALSE]
     /\ \/ /\ short
           /\ fade' = [fade EXCEPT !.cur = r.target, !.active = FALSE, !.off = FALSE]
           /\ task' = [task EXCEPT ![t].pc = "stop", ![t].bright = fade.cur # r.target]
        \/ /\ ~short
           /\ fade' = Ramp(r)
           /\ IF fade.active THEN Returns(t) ELSE Goes(t, "start")
     /\ UNCHANGED <<auto, queue, sm, timer, panel, stimuli, late>>

\* Starting a running timer fails and changes nothing.
TimerStart(t) ==
  /\ task[t].pc = "start"
  /\ timer' = TRUE
  /\ Returns(t)
  /\ UNCHANGED <<auto, queue, sm, fade, cb, panel, stimuli, late>>

TimerStop(t) ==
  /\ task[t].pc = "stop"
  /\ timer' = FALSE
  /\ IF task[t].bright THEN Goes(t, "bright")
     ELSE IF task[t].off THEN Goes(t, "dispoff") ELSE Returns(t)
  /\ UNCHANGED <<auto, queue, sm, fade, cb, panel, stimuli, late>>

ShortBrightness(t) ==
  /\ task[t].pc = "bright"
  /\ CanWrite(t)
  /\ panel' = [panel EXCEPT !.level = task[t].target]
  /\ IF task[t].off THEN Goes(t, "dispoff") ELSE Returns(t)
  /\ UNCHANGED <<auto, queue, sm, fade, timer, cb, stimuli, late>>

ShortOff(t) ==
  /\ task[t].pc = "dispoff"
  /\ CanWrite(t)
  /\ panel' = [panel EXCEPT !.on = FALSE]
  /\ Returns(t)
  /\ UNCHANGED <<auto, queue, sm, fade, timer, cb, stimuli, late>>

Fading(t) ==
  \/ StartFade(t)
  \/ TimerStart(t)
  \/ TimerStop(t)
  \/ ShortBrightness(t)
  \/ ShortOff(t)

-----------------------------------------------------------------------------
(* The drain task.                                                         *)

\* What apply_output asks for when the machine goes to a new state: first the
\* panel on, then up; or down, then the panel off; or up or down.
\* s_prev_panel_on is whether the old state was lit.
Applied(state) ==
  LET level == Brightness(Cfg, state)
  IN IF Lit(state) /\ ~Lit(sm.state)
       THEN Call("dispon", "wait", level, WakePeriods, FALSE)
     ELSE IF ~Lit(state)
       THEN Call("fade", "wait", 0, SleepPeriods, TRUE)
     ELSE Call("fade", "wait", level,
               IF level > fade.cur THEN WakePeriods ELSE SleepPeriods, FALSE)

Receive ==
  /\ task["drain"].pc = "wait"
  /\ queue # <<>>
  /\ queue' = Tail(queue)
  /\ sm' = Step(Cfg, sm, Head(queue), 0)
  /\ task' = [task EXCEPT !["drain"] =
                IF sm'.state = sm.state THEN Waiting ELSE Applied(sm'.state)]
  /\ late' = (late \/ (cb.pc = "dispoff" /\ Lit(sm'.state)))
  /\ UNCHANGED <<auto, fade, timer, cb, panel, stimuli>>

DispOn ==
  /\ task["drain"].pc = "dispon"
  /\ CanWrite("drain")
  /\ panel' = [panel EXCEPT !.on = TRUE]
  /\ Goes("drain", "fade")
  /\ UNCHANGED <<auto, queue, sm, fade, timer, cb, stimuli, late>>

Drain == Receive \/ DispOn \/ Fading("drain")

-----------------------------------------------------------------------------
(* The orientation task.                                                   *)

\* A new stable orientation: the level to restore is read before the lock is
\* taken.  A dark panel is rotated without touching the brightness.
Rotate ==
  /\ auto
  /\ stimuli > 0
  /\ task["orient"].pc = "wait"
  /\ fade.cur # 0
  /\ stimuli' = stimuli - 1
  /\ task' = [task EXCEPT !["orient"] = Call("lock", "down", fade.cur, 0, FALSE)]
  /\ UNCHANGED <<auto, queue, sm, fade, timer, cb, panel, late>>

TakeLock ==
  /\ task["orient"].pc = "lock"
  /\ Goes("orient", "fade")
  /\ UNCHANGED <<auto, queue, sm, fade, timer, cb, panel, stimuli, late>>

\* The inline ramps; what is between their ends is left out.
RampDown ==
  /\ task["orient"].pc = "down"
  /\ panel' = [panel EXCEPT !.level = 0]
  /\ Goes("orient", "up")
  /\ UNCHANGED <<auto, queue, sm, fade, timer, cb, stimuli, late>>

RampUp ==
  /\ task["orient"].pc = "up"
  /\ panel' = [panel EXCEPT !.level = task["orient"].target]
  /\ task' = [task EXCEPT !["orient"].pc = "fade", !["orient"].ret = "wait"]
  /\ UNCHANGED <<auto, queue, sm, fade, timer, cb, stimuli, late>>

Orient == TakeLock \/ RampDown \/ RampUp \/ Fading("orient")

-----------------------------------------------------------------------------
(* fade_step_cb.                                                           *)

Fire ==
  /\ timer
  /\ cb.pc = "idle"
  /\ cb' = [cb EXCEPT !.pc = "read"]
  /\ UNCHANGED <<auto, queue, sm, fade, timer, task, panel, stimuli, late>>

\* Mutant of Interpolated: one period behind, hence short of the target.
InterpolatedBehind(past) ==
  IF fade.target >= fade.start
  THEN fade.start + ((fade.target - fade.start) * (past - 1)) \div fade.periods
  ELSE fade.start - ((fade.start - fade.target) * (past - 1)) \div fade.periods

\* Linear between start and target; the division truncates towards zero.
Interpolated(past) ==
  IF fade.target >= fade.start
  THEN fade.start + ((fade.target - fade.start) * past) \div fade.periods
  ELSE fade.start - ((fade.start - fade.target) * past) \div fade.periods

\* Pass 1, and what it computes from the time: at least one more period has
\* gone by, more if the callback is late.
CbRead ==
  /\ cb.pc = "read"
  /\ \/ ~fade.active /\ cb' = IdleCb /\ UNCHANGED fade
     \/ /\ fade.active
        /\ \E past \in fade.past + 1 .. fade.periods :
             /\ fade' = [fade EXCEPT !.past = past]
             /\ cb' = [pc |-> "commit", mine |-> TRUE, level |-> Interpolated(past),
                       fin |-> past = fade.periods, off |-> FALSE]
  /\ UNCHANGED <<auto, queue, sm, timer, task, panel, stimuli, late>>

\* generation # my_gen
Stale == ~cb.mine

\* Pass 2: commits, and at the end of the fade stops the timer under the lock.
CbCommit ==
  /\ cb.pc = "commit"
  /\ \/ Stale /\ cb' = IdleCb /\ UNCHANGED <<fade, timer>>
     \/ /\ ~Stale
        /\ fade' = [fade EXCEPT !.cur = cb.level,
                                !.active = ~cb.fin,
                                !.off = @ /\ ~cb.fin]
        /\ timer' = (timer /\ ~cb.fin)
        /\ cb' = [cb EXCEPT !.pc = "write", !.off = fade.off /\ cb.fin]
  /\ UNCHANGED <<auto, queue, sm, task, panel, stimuli, late>>

\* Mutant of CbWrite: the timer is stopped only now, outside the lock.
CbWriteStops ==
  /\ cb.pc = "write"
  /\ CanWrite("cb")
  /\ panel' = [panel EXCEPT !.level = cb.level]
  /\ timer' = (timer /\ ~cb.fin)
  /\ cb' = IF cb.off THEN [cb EXCEPT !.pc = "check"] ELSE IdleCb
  /\ UNCHANGED <<auto, queue, sm, fade, task, stimuli, late>>

CbWrite ==
  /\ cb.pc = "write"
  /\ CanWrite("cb")
  /\ panel' = [panel EXCEPT !.level = cb.level]
  /\ cb' = IF cb.off THEN [cb EXCEPT !.pc = "check"] ELSE IdleCb
  /\ UNCHANGED <<auto, queue, sm, fade, timer, task, stimuli, late>>

CbCheck ==
  /\ cb.pc = "check"
  /\ cb' = IF Stale THEN IdleCb ELSE [cb EXCEPT !.pc = "dispoff"]
  /\ UNCHANGED <<auto, queue, sm, fade, timer, task, panel, stimuli, late>>

CbOff ==
  /\ cb.pc = "dispoff"
  /\ CanWrite("cb")
  /\ panel' = [panel EXCEPT !.on = FALSE]
  /\ cb' = IdleCb
  /\ UNCHANGED <<auto, queue, sm, fade, timer, task, stimuli, late>>

FadeStep == Fire \/ CbRead \/ CbCommit \/ CbWrite \/ CbCheck \/ CbOff

-----------------------------------------------------------------------------
Next ==
  \/ \E e \in Sources : Stimulus(e)
  \/ Tick
  \/ Drain
  \/ Rotate
  \/ Orient
  \/ FadeStep

\* Tasks that can go on do; both timers of the esp_timer task fire.  Nobody has
\* to touch, push or rotate.
Fairness ==
  /\ WF_vars(Drain)
  /\ WF_vars(Orient)
  /\ WF_vars(FadeStep)
  /\ SF_vars(Tick)

Spec == Init /\ [][Next]_vars /\ Fairness

-----------------------------------------------------------------------------
\* Every variable has its type; the queue is never longer than EVENT_QUEUE_DEPTH.
TypeOK ==
  /\ auto \in Builds
  /\ queue \in Seq(Events) /\ Len(queue) <= Depth
  /\ sm \in Machines /\ sm.last \in -Cfg.off..0
  /\ fade \in Fades
  /\ timer \in BOOLEAN
  /\ cb \in Callbacks
  /\ task \in [Tasks -> Calls]
  /\ panel \in [on : BOOLEAN, level : Levels]
  /\ stimuli \in 0..MaxStimuli
  /\ late \in BOOLEAN

\* Nothing is under way: no event queued, no call of start_fade unfinished, no
\* fade in flight and nothing left to write for the callback.
Settled ==
  /\ queue = <<>>
  /\ \A t \in Tasks : task[t] = Waiting
  /\ ~fade.active
  /\ cb.pc \in {"idle", "read"}

\* The panel is off whenever the machine is and all is settled, whatever events
\* preempted the fade and its pending DISPOFF (burn_idle_adapter.c:81-83).
PanelOff == Settled /\ sm.state = "OFF" => ~panel.on

\* The same in a build where nobody else takes over the brightness.
OffIsDark == ~auto => PanelOff

\* Without rotation a lit panel ends up at the brightness of the machine's
\* state: no write of a preempted fade lasts (burn_idle_adapter.c:218-220).
LevelAgrees ==
  ~auto /\ Settled /\ Lit(sm.state) => panel.level = Brightness(Cfg, sm.state)

\* Without rotation a fade in flight has its timer running, or its start_fade
\* still to start it: the stall of burn_idle_adapter.c:197-202.
NoStall == ~auto /\ fade.active => timer \/ task["drain"].pc = "start"

\* A DISPOFF is pending only while the machine is off: a wake withdraws it
\* before the drain task looks at the next event (burn_idle_adapter.c:270-272).
PendingIsSleep == fade.off /\ task["drain"] = Waiting => sm.state = "OFF"

\* Once stimuli cease the panel goes off for good, however they interleaved
\* with the fades, and even if ticks were dropped on the way.
EventuallyDark == auto \/ <>[](~panel.on)

\* A panel whose machine is lit does not stay off, except after a wake in the
\* narrow window the comment at burn_idle_adapter.c:218-226 accepts, between
\* the last check of the generation and the DISPOFF.
WakeIsLit == ~auto /\ Settled /\ Lit(sm.state) => panel.on \/ late
=============================================================================
