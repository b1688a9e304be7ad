---------------------------- MODULE Panel_proofs ----------------------------
(***************************************************************************)
(* What the adapter promises of the panel, for any thresholds, brightness, *)
(* lengths of the fades, depth of the queue, and whatever is posted.       *)
(***************************************************************************)
EXTENDS Panel, TLAPS

drain  == task["drain"]
orient == task["orient"]

\* The drain task asks for what the machine says: nothing else changes sm, and it
\* does not look at another event before it is done.
DrainSound ==
  /\ drain.pc \in {"wait", "dispon", "fade", "start", "stop", "bright", "dispoff"}
  /\ drain.ret = "wait"
  /\ drain.pc = "wait" => drain = Waiting
  /\ drain.pc # "wait" =>
       /\ drain.target = Brightness(Cfg, sm.state)
       /\ drain.off = ~Lit(sm.state)
  /\ drain.pc = "dispon" => Lit(sm.state)

\* The orientation task only ever anchors the brightness, and only where it is
\* built in.
OrientSound ==
  /\ orient.pc # "dispon"
  /\ orient.pc = "wait" => orient = Waiting
  /\ orient.periods = 0 /\ ~orient.off
  /\ ~auto => orient = Waiting

\* Asked, but not yet begun.
Ahead == drain.pc \in {"dispon", "fade"}

\* A pending DISPOFF is part of a fade, and was asked for by a machine that was off
\* when the drain task last went into start_fade.
PendingSound ==
  fade.off => fade.active /\ (Ahead \/ sm.state = "OFF")

\* Only the drain task begins a fade, and only the callback ends one, so that the
\* timer runs as long as the fade.
TimerSound ==
  ~auto =>
    /\ fade.active => timer \/ drain.pc = "start"
    /\ drain.pc \in {"stop", "bright", "dispoff"} => ~fade.active

\* What start_fade has begun leads to what the machine says.
FadeSound ==
  ~auto /\ ~Ahead =>
    IF fade.active THEN /\ fade.target = Brightness(Cfg, sm.state)
                        /\ fade.off = ~Lit(sm.state)
                   ELSE fade.cur = Brightness(Cfg, sm.state)

\* A callback that will commit has read the fade as it still is.
CommitSound ==
  cb.pc = "commit" /\ cb.mine =>
    fade.active /\ (cb.fin => cb.level = fade.target)

\* While the machine is off the DISPOFF is yet to be asked for, is pending with
\* the fade, is in the hands of the callback or the drain task, or has happened.
Darkening ==
  \/ ~panel.on
  \/ drain.pc \in {"fade", "stop", "bright", "dispoff"}
  \/ fade.active /\ fade.off
  \/ cb.pc \in {"write", "check"} /\ cb.off /\ cb.mine
  \/ cb.pc = "dispoff"
DarkSound == ~auto /\ sm.state = "OFF" => Darkening

IInv ==
  /\ TypeOK
  /\ DrainSound
  /\ OrientSound
  /\ PendingSound
  /\ TimerSound
  /\ FadeSound
  /\ CommitSound
  /\ DarkSound

\* With fades that take time the brightness moves in the callback alone, which
\* writes what it has committed: the panel is never behind it by more than one
\* write that is on its way.
WriteSound ==
  ~auto =>
    /\ drain.pc \notin {"wait", "stop", "dispoff"} => drain.periods > 0
    /\ ~drain.bright
    /\ drain.pc # "bright"
    /\ IF cb.pc = "write" THEN cb.level = fade.cur ELSE panel.level = fade.cur

-----------------------------------------------------------------------------
(* The machine and the fade.                                               *)

LEMMA ValidCfg ==
  /\ Cfg.dim \in Int /\ Cfg.off \in Int /\ Cfg.active \in Nat /\ Cfg.dimmed \in Nat
  /\ Cfg.dim > 0 /\ Cfg.off >= Cfg.dim
  /\ Cfg.active <= 100 /\ Cfg.dimmed <= Cfg.active
BY PanelAssumption DEF Valid

LEMMA BrightnessIsLevel ==
  ASSUME NEW s \in States
  PROVE  /\ Brightness(Cfg, s) \in Levels
         /\ ~Lit(s) => Brightness(Cfg, s) = 0
BY ValidCfg DEF Brightness, Lit, States, Levels

\* The machine never lies further back than the off threshold, nor ahead.
LEMMA StepStays ==
  ASSUME sm \in Machines, sm.last \in -Cfg.off..0, NEW e \in Events
  PROVE  /\ Step(Cfg, sm, e, 0) \in Machines
         /\ Step(Cfg, sm, e, 0).last \in -Cfg.off..0
BY ValidCfg DEF Step, Pushed, Woken, Timed, StateFor, Machines, States, Events, UserEvents

LEMMA Scaled ==
  ASSUME NEW d \in Nat, NEW p \in Nat \ {0}, NEW q \in 0..p
  PROVE  (d * q) \div p \in 0..d
<1>1. d * q \in Nat /\ d * q <= d * p
  <2>1. PICK r \in Nat : p = q + r
    <3>1. p - q \in Nat /\ p = q + (p - q)
      OBVIOUS
    <3> QED BY <3>1
  <2>2. d * p = d * q + d * r /\ d * r \in Nat /\ d * q \in Nat
    BY <2>1
  <2> QED BY <2>2
<1> QED BY <1>1

\* The last value of a fade is its target.
LEMMA ScaledWhole ==
  ASSUME NEW d \in Nat, NEW p \in Nat \ {0}
  PROVE  (d * p) \div p = d
OBVIOUS

\* A part of the way up from s to t, and of the way down.
LEMMA Between ==
  ASSUME NEW s \in 0..100, NEW t \in 0..100, NEW p \in Nat \ {0}, NEW q \in 0..p
  PROVE  /\ t >= s => /\ s + ((t - s) * q) \div p \in 0..100
                      /\ s + ((t - s) * p) \div p = t
         /\ t < s => /\ s - ((s - t) * q) \div p \in 0..100
                     /\ s - ((s - t) * p) \div p = t
<1>1. ASSUME t >= s
      PROVE  /\ s + ((t - s) * q) \div p \in 0..100
             /\ s + ((t - s) * p) \div p = t
  <2>1. t - s \in Nat
    BY <1>1
  <2>2. ((t - s) * q) \div p \in 0..(t - s)
    BY <2>1, Scaled
  <2>3. ((t - s) * p) \div p = t - s
    BY <2>1, ScaledWhole
  <2>4. ASSUME NEW x \in 0..(t - s) PROVE s + x \in 0..100
    BY <2>4, <1>1
  <2>5. s + (t - s) = t
    OBVIOUS
  <2> QED BY ONLY <2>2, <2>3, <2>4, <2>5
<1>2. ASSUME t < s
      PROVE  /\ s - ((s - t) * q) \div p \in 0..100
             /\ s - ((s - t) * p) \div p = t
  <2>1. s - t \in Nat
    BY <1>2
  <2>2. ((s - t) * q) \div p \in 0..(s - t)
    BY <2>1, Scaled
  <2>3. ((s - t) * p) \div p = s - t
    BY <2>1, ScaledWhole
  <2>4. ASSUME NEW x \in 0..(s - t) PROVE s - x \in 0..100
    BY <2>4, <1>2
  <2>5. s - (s - t) = t
    OBVIOUS
  <2> QED BY ONLY <2>2, <2>3, <2>4, <2>5
<1> QED BY <1>1, <1>2

LEMMA InterpolatedFits ==
  ASSUME fade \in Fades, NEW past \in 0..fade.periods, fade.periods # 0
  PROVE  /\ Interpolated(past) \in Levels
         /\ past = fade.periods => Interpolated(past) = fade.target
<1>1. fade.periods \in Nat \ {0} /\ fade.start \in 0..100 /\ fade.target \in 0..100
  BY DEF Fades, Levels
<1>2. /\ fade.target >= fade.start =>
           /\ fade.start + ((fade.target - fade.start) * past) \div fade.periods \in 0..100
           /\ fade.start + ((fade.target - fade.start) * fade.periods) \div fade.periods
                = fade.target
      /\ fade.target < fade.start =>
           /\ fade.start - ((fade.start - fade.target) * past) \div fade.periods \in 0..100
           /\ fade.start - ((fade.start - fade.target) * fade.periods) \div fade.periods
                = fade.target
  BY ONLY <1>1, past \in 0..fade.periods, Between
<1>3. fade.target >= fade.start \/ fade.target < fade.start
  BY <1>1
<1>4. ~(fade.target >= fade.start /\ fade.target < fade.start)
  BY <1>1
<1> QED BY <1>2, <1>3, <1>4, Zenon DEF Interpolated, Levels

-----------------------------------------------------------------------------
(* The types.                                                              *)

LEMMA TasksTyped ==
  ASSUME task \in [Tasks -> Calls], NEW t \in Tasks
  PROVE  /\ Waiting \in Calls
         /\ \A pc \in {"wait", "lock", "dispon", "fade", "start", "stop", "bright",
                       "dispoff", "down", "up"} :
              Goes(t, pc) => task' \in [Tasks -> Calls]
         /\ Returns(t) => task' \in [Tasks -> Calls]
<1>1. Waiting \in Calls
  BY DEF Waiting, Call, Calls, Levels
<1>2. \A pc \in {"wait", "lock", "dispon", "fade", "start", "stop", "bright",
                 "dispoff", "down", "up"} :
        Goes(t, pc) => task' \in [Tasks -> Calls]
  BY DEF Goes, Calls
<1>3. task[t].ret \in {"wait", "down"}
  BY DEF Calls
<1>4. Returns(t) => task' \in [Tasks -> Calls]
  BY <1>1, <1>2, <1>3 DEF Returns
<1> QED BY <1>1, <1>2, <1>4

LEMMA PostTyped ==
  ASSUME TypeOK, NEW e \in Events
  PROVE  Post(e) \in Seq(Events) /\ Len(Post(e)) <= Depth
BY PanelAssumption DEF TypeOK, Post

LEMMA TypeFading ==
  ASSUME TypeOK, NEW t \in Tasks, Fading(t)
  PROVE  TypeOK'
<1> USE DEF TypeOK
<1>1. CASE StartFade(t)
  <2>1. cb' \in Callbacks
    BY <1>1 DEF StartFade, Callbacks
  <2>2. fade' \in Fades
    <3>1. /\ task[t].target \in Levels /\ task[t].periods \in Nat
          /\ task[t].off \in BOOLEAN /\ fade.cur \in Levels
      BY DEF Calls, Fades
    <3>2. [fade EXCEPT !.cur = task[t].target, !.active = FALSE, !.off = FALSE] \in Fades
      BY <3>1 DEF Fades
    <3>3. Ramp(task[t]) \in Fades
      BY <3>1 DEF Ramp, Fades
    <3> QED BY <1>1, <3>2, <3>3 DEF StartFade
  <2>3. task' \in [Tasks -> Calls]
    <3>1. ASSUME NEW b \in BOOLEAN
          PROVE  [task EXCEPT ![t].pc = "stop", ![t].bright = b] \in [Tasks -> Calls]
      BY DEF Calls
    <3>2. (fade.cur # task[t].target) \in BOOLEAN
      OBVIOUS
    <3> QED BY <1>1, <3>1, <3>2, TasksTyped DEF StartFade
  <2> QED BY <1>1, <2>1, <2>2, <2>3 DEF StartFade
<1>2. CASE TimerStart(t)
  BY <1>2, TasksTyped DEF TimerStart
<1>3. CASE TimerStop(t)
  BY <1>3, TasksTyped DEF TimerStop
<1>4. CASE ShortBrightness(t)
  <2>1. panel' \in [on : BOOLEAN, level : Levels]
    BY <1>4 DEF ShortBrightness, Calls
  <2> QED BY <1>4, <2>1, TasksTyped DEF ShortBrightness
<1>5. CASE ShortOff(t)
  BY <1>5, TasksTyped DEF ShortOff
<1> QED BY <1>1, <1>2, <1>3, <1>4, <1>5 DEF Fading

LEMMA TypeReceive ==
  ASSUME TypeOK, Receive
  PROVE  TypeOK'
<1> USE DEF TypeOK
<1>1. Head(queue) \in Events /\ queue' \in Seq(Events) /\ Len(queue') <= Depth
  BY PanelAssumption DEF Receive
<1>2. sm' \in Machines /\ sm'.last \in -Cfg.off..0
  BY <1>1, StepStays DEF Receive
<1>3. sm'.state \in States
  BY <1>2 DEF Machines
<1>4. Applied(sm'.state) \in Calls
  BY <1>3, BrightnessIsLevel, PanelAssumption DEF Applied, Call, Calls, Levels
<1>5. task' \in [Tasks -> Calls]
  BY <1>4, TasksTyped DEF Receive, Tasks
<1>6. late' \in BOOLEAN
  BY DEF Receive
<1> QED BY <1>1, <1>2, <1>5, <1>6 DEF Receive

LEMMA TypeOrient ==
  ASSUME TypeOK, Rotate \/ TakeLock \/ RampDown \/ RampUp
  PROVE  TypeOK'
<1> USE DEF TypeOK
<1> "orient" \in Tasks
  BY DEF Tasks
<1>1. CASE Rotate
  <2>1. Call("lock", "down", fade.cur, 0, FALSE) \in Calls
    BY DEF Call, Calls, Fades
  <2>2. task' \in [Tasks -> Calls]
    BY <1>1, <2>1 DEF Rotate
  <2>3. stimuli' \in 0..MaxStimuli
    BY <1>1, PanelAssumption DEF Rotate
  <2> QED BY <1>1, <2>2, <2>3 DEF Rotate
<1>2. CASE TakeLock
  BY <1>2, TasksTyped DEF TakeLock
<1>3. CASE RampDown
  BY <1>3, TasksTyped DEF RampDown, Levels
<1>4. CASE RampUp
  <2>1. panel' \in [on : BOOLEAN, level : Levels]
    BY <1>4 DEF RampUp, Calls
  <2>2. [task["orient"] EXCEPT !.pc = "fade", !.ret = "wait"] \in Calls
    BY DEF Calls
  <2>3. task' = [task EXCEPT !["orient"] = [@ EXCEPT !.pc = "fade", !.ret = "wait"]]
    BY <1>4 DEF RampUp
  <2>4. task' \in [Tasks -> Calls]
    BY <2>2, <2>3
  <2> QED BY <1>4, <2>1, <2>4 DEF RampUp
<1> QED BY <1>1, <1>2, <1>3, <1>4

LEMMA TypeFadeStep ==
  ASSUME TypeOK, FadeStep
  PROVE  TypeOK'
<1> USE DEF TypeOK
<1>0. IdleCb \in Callbacks
  BY DEF IdleCb, Callbacks, Levels
<1>1. CASE Fire
  BY <1>1 DEF Fire, Callbacks
<1>2. CASE CbRead
  <2>1. CASE ~fade.active /\ cb' = IdleCb /\ UNCHANGED fade
    BY <1>0, <1>2, <2>1 DEF CbRead
  <2>2. ASSUME NEW past \in fade.past + 1 .. fade.periods,
               fade' = [fade EXCEPT !.past = past],
               cb' = [pc |-> "commit", mine |-> TRUE, level |-> Interpolated(past),
                      fin |-> past = fade.periods, off |-> FALSE]
        PROVE  TypeOK'
    <3>1. fade.past \in Nat /\ fade.periods \in Nat
      BY DEF Fades
    <3>2. past \in Nat /\ past \in 0..fade.periods /\ fade.periods # 0
      BY <2>2, <3>1
    <3>3. Interpolated(past) \in Levels
      BY <3>2, InterpolatedFits
    <3>4. cb' \in Callbacks
      BY <2>2, <3>3 DEF Callbacks
    <3>5. fade' \in Fades
      BY <2>2, <3>2 DEF Fades
    <3> QED BY <1>2, <3>4, <3>5 DEF CbRead
  <2> QED BY <1>2, <2>1, <2>2 DEF CbRead
<1>3. CASE CbCommit
  <2>1. cb' \in Callbacks
    BY <1>0, <1>3 DEF CbCommit, Callbacks, Fades
  <2>2. fade' \in Fades /\ timer' \in BOOLEAN
    BY <1>3 DEF CbCommit, Callbacks, Fades
  <2> QED BY <1>3, <2>1, <2>2 DEF CbCommit
<1>4. CASE CbWrite
  BY <1>0, <1>4 DEF CbWrite, Callbacks
<1>5. CASE CbCheck
  BY <1>0, <1>5 DEF CbCheck, Callbacks
<1>6. CASE CbOff
  BY <1>0, <1>6 DEF CbOff
<1> QED BY <1>1, <1>2, <1>3, <1>4, <1>5, <1>6 DEF FadeStep

LEMMA TypeInit == Init => TypeOK
<1> SUFFICES ASSUME Init PROVE TypeOK
  OBVIOUS
<1>1. queue \in Seq(Events) /\ Len(queue) <= Depth
  BY PanelAssumption DEF Init
<1>2. sm \in Machines /\ sm.last \in -Cfg.off..0
  BY ValidCfg DEF Init, Boot, Machines, States
<1>3. fade \in Fades /\ cb \in Callbacks /\ panel \in [on : BOOLEAN, level : Levels]
  <2>1. Cfg.active \in Levels /\ 0 \in Levels
    BY ValidCfg DEF Levels
  <2>2. IdleCb \in Callbacks
    BY <2>1 DEF Callbacks, IdleCb
  <2> QED BY <2>1, <2>2 DEF Init, Fades
<1>4. task \in [Tasks -> Calls]
  <2>1. Waiting \in Calls
    BY DEF Waiting, Call, Calls, Levels
  <2>2. task = [t \in Tasks |-> Waiting]
    BY DEF Init
  <2> QED BY <2>1, <2>2
<1>5. auto \in Builds /\ timer \in BOOLEAN /\ stimuli \in 0..MaxStimuli /\ late \in BOOLEAN
  <2>1. auto \in Builds /\ timer = FALSE /\ stimuli = MaxStimuli /\ late = FALSE
    BY Zenon DEF Init
  <2>2. MaxStimuli \in Nat
    BY PanelAssumption
  <2>3. stimuli \in 0..MaxStimuli
    BY ONLY <2>1, <2>2
  <2>4. timer \in BOOLEAN /\ late \in BOOLEAN
    BY ONLY <2>1
  <2> QED BY <2>1, <2>3, <2>4
<1> QED BY <1>1, <1>2, <1>3, <1>4, <1>5, Zenon DEF TypeOK

LEMMA TypeNext == TypeOK /\ [Next]_vars => TypeOK'
<1> SUFFICES ASSUME TypeOK, [Next]_vars PROVE TypeOK'
  OBVIOUS
<1>1. CASE \E e \in Sources : Stimulus(e)
  <2>1. PICK e \in Sources : Stimulus(e)
    BY <1>1
  <2>2. e \in Events
    BY PanelAssumption
  <2> QED BY <2>1, <2>2, PostTyped, PanelAssumption DEF Stimulus, TypeOK
<1>2. CASE Tick
  <2>1. queue' \in Seq(Events) /\ Len(queue') <= Depth
    BY <1>2, PostTyped DEF Tick, Events
  <2>2. sm' \in Machines /\ sm'.last \in -Cfg.off..0
    BY <1>2, ValidCfg DEF Tick, TypeOK, Machines
  <2> QED BY <1>2, <2>1, <2>2 DEF Tick, TypeOK
<1>3. CASE Drain
  <2>1. CASE DispOn
    BY <2>1, TasksTyped DEF DispOn, TypeOK, Tasks
  <2> QED BY <1>3, <2>1, TypeReceive, TypeFading DEF Drain, Tasks
<1>4. CASE Rotate \/ Orient
  BY <1>4, TypeOrient, TypeFading DEF Orient, Tasks
<1>5. CASE FadeStep
  BY <1>5, TypeFadeStep
<1>6. CASE UNCHANGED vars
  BY <1>6 DEF vars, TypeOK
<1> QED BY <1>1, <1>2, <1>3, <1>4, <1>5, <1>6 DEF Next

-----------------------------------------------------------------------------
(* The inductive invariant.  A task's step leaves the other task alone.    *)

LEMMA Waits ==
  /\ Waiting.pc = "wait" /\ Waiting.ret = "wait" /\ Waiting.periods = 0
  /\ Waiting.off = FALSE
BY DEF Waiting, Call

LEMMA DrainMoves ==
  ASSUME task \in [Tasks -> Calls]
  PROVE  /\ \A pc \in {"wait", "fade", "start", "stop", "bright", "dispoff"} :
              Goes("drain", pc) =>
                /\ drain'.pc = pc /\ drain'.ret = drain.ret /\ drain'.target = drain.target
                /\ drain'.off = drain.off /\ drain'.periods = drain.periods
                /\ drain'.bright = drain.bright /\ orient' = orient
         /\ Returns("drain") /\ drain.ret = "wait" => drain' = Waiting /\ orient' = orient
<1>1. task["drain"] \in Calls /\ "drain" \in Tasks /\ "orient" \in Tasks
  BY DEF Tasks
<1>2. ASSUME NEW pc \in {"wait", "fade", "start", "stop", "bright", "dispoff"},
             Goes("drain", pc)
      PROVE  /\ drain'.pc = pc /\ drain'.ret = drain.ret /\ drain'.target = drain.target
             /\ drain'.off = drain.off /\ drain'.periods = drain.periods
             /\ drain'.bright = drain.bright /\ orient' = orient
  BY <1>1, <1>2 DEF Goes, drain, orient, Calls
<1>3. ASSUME Returns("drain"), drain.ret = "wait"
      PROVE  drain' = Waiting /\ orient' = orient
  BY <1>1, <1>3 DEF Returns, drain, orient
<1> QED BY <1>2, <1>3

LEMMA OrientMoves ==
  ASSUME task \in [Tasks -> Calls]
  PROVE  /\ \A pc \in {"fade", "start", "stop", "bright", "dispoff", "down", "up"} :
              Goes("orient", pc) =>
                /\ orient'.pc = pc /\ orient'.off = orient.off
                /\ orient'.periods = orient.periods /\ drain' = drain
         /\ Returns("orient") /\ orient.ret = "wait" => orient' = Waiting /\ drain' = drain
<1>1. task["orient"] \in Calls /\ "drain" \in Tasks /\ "orient" \in Tasks
  BY DEF Tasks
<1>2. ASSUME NEW pc \in {"fade", "start", "stop", "bright", "dispoff", "down", "up"},
             Goes("orient", pc)
      PROVE  /\ orient'.pc = pc /\ orient'.off = orient.off
             /\ orient'.periods = orient.periods /\ drain' = drain
  BY <1>1, <1>2 DEF Goes, drain, orient, Calls
<1>3. ASSUME Returns("orient"), orient.ret = "wait"
      PROVE  orient' = Waiting /\ drain' = drain
  BY <1>1, <1>3 DEF Returns, drain, orient
<1> QED BY <1>2, <1>3

\* start_fade in the drain task: what the machine says is begun, done at once, or
\* left for the steps that follow.
LEMMA DrainFading ==
  ASSUME IInv, Fading("drain")
  PROVE  /\ DrainSound' /\ OrientSound' /\ PendingSound' /\ TimerSound'
         /\ FadeSound' /\ CommitSound' /\ DarkSound'
<1> USE DEF IInv
<1>0. /\ task \in [Tasks -> Calls] /\ fade \in Fades /\ cb \in Callbacks
      /\ sm.state \in States /\ drain.ret = "wait"
  BY DEF TypeOK, DrainSound, Machines
<1>1. CASE StartFade("drain")
  <2>1. drain.pc = "fade" /\ UNCHANGED <<auto, sm, timer, panel>>
    BY <1>1 DEF StartFade, drain
  <2>2. drain.target = Brightness(Cfg, sm.state) /\ drain.off = ~Lit(sm.state)
    BY <2>1 DEF DrainSound
  <2>3. cb'.mine = FALSE /\ cb'.pc = cb.pc
    BY <1>0, <1>1 DEF StartFade, Callbacks
  <2>4. CASE drain.periods = 0 \/ fade.cur = drain.target
    <3>1. /\ fade'.cur = drain.target /\ fade'.active = FALSE /\ fade'.off = FALSE
          /\ drain'.pc = "stop" /\ drain'.ret = "wait" /\ drain'.target = drain.target
          /\ drain'.off = drain.off /\ orient' = orient
      <4>1. /\ fade' = [fade EXCEPT !.cur = drain.target, !.active = FALSE, !.off = FALSE]
            /\ task' = [task EXCEPT !["drain"] =
                          [@ EXCEPT !.pc = "stop", !.bright = fade.cur # drain.target]]
        BY <1>1, <2>4 DEF StartFade, drain
      <4>2. task["drain"] \in Calls /\ "drain" \in Tasks /\ "orient" \in Tasks
        BY <1>0 DEF Tasks
      <4>3. fade'.cur = drain.target /\ fade'.active = FALSE /\ fade'.off = FALSE
        BY <1>0, <4>1 DEF Fades
      <4>4. drain' = [drain EXCEPT !.pc = "stop", !.bright = fade.cur # drain.target]
            /\ orient' = orient
        BY <1>0, <4>1, <4>2 DEF drain, orient
      <4> QED BY <1>0, <4>2, <4>3, <4>4 DEF Calls, drain
    <3> QED BY <2>1, <2>2, <2>3, <3>1 DEF DrainSound, OrientSound, PendingSound, TimerSound,
              FadeSound, CommitSound, DarkSound, Darkening, Ahead
  <2>5. CASE ~(drain.periods = 0 \/ fade.cur = drain.target)
    <3>1. /\ fade'.target = drain.target /\ fade'.active = TRUE /\ fade'.off = drain.off
          /\ IF fade.active THEN Returns("drain") ELSE Goes("drain", "start")
      <4>1. fade' = Ramp(drain)
        BY <1>1, <2>5 DEF StartFade, drain
      <4>2. IF fade.active THEN Returns("drain") ELSE Goes("drain", "start")
        BY <1>1, <2>5 DEF StartFade, drain
      <4> QED BY <4>1, <4>2 DEF Ramp
    <3>2. CASE fade.active
      <4>1. drain' = Waiting /\ orient' = orient
        BY <1>0, <3>1, <3>2, DrainMoves
      <4>2. ~auto => timer
        BY <2>1, <3>2 DEF TimerSound
      <4> QED BY <2>1, <2>2, <2>3, <3>1, <4>1, <4>2, Waits DEF DrainSound, OrientSound,
                PendingSound, TimerSound, FadeSound, CommitSound, DarkSound, Darkening,
                Ahead, Lit
    <3>3. CASE ~fade.active
      <4>1. /\ drain'.pc = "start" /\ drain'.ret = "wait" /\ drain'.target = drain.target
            /\ drain'.off = drain.off /\ orient' = orient
        BY <1>0, <3>1, <3>3, DrainMoves
      <4> QED BY <2>1, <2>2, <2>3, <3>1, <4>1 DEF DrainSound, OrientSound,
                PendingSound, TimerSound, FadeSound, CommitSound, DarkSound, Darkening,
                Ahead, Lit
    <3> QED BY <3>2, <3>3
  <2> QED BY <2>4, <2>5
<1>2. CASE TimerStart("drain")
  <2>1. drain.pc = "start" /\ timer' = TRUE /\ UNCHANGED <<auto, sm, fade, cb, panel>>
    BY <1>2 DEF TimerStart, drain
  <2>2. drain' = Waiting /\ orient' = orient
    BY <1>0, <1>2, DrainMoves DEF TimerStart
  <2> QED BY <2>1, <2>2, Waits DEF DrainSound, OrientSound, PendingSound, TimerSound,
            FadeSound, CommitSound, DarkSound, Darkening, Ahead
<1>3. ASSUME drain.pc \in {"stop", "bright", "dispoff"},
             UNCHANGED <<auto, sm, fade, cb>>,
             drain.pc \in {"stop", "bright"} => panel'.on = panel.on,
             drain.pc = "dispoff" => panel'.on = FALSE,
             \/ Goes("drain", "bright") /\ drain.pc = "stop"
             \/ Goes("drain", "dispoff") /\ drain.pc # "dispoff"
             \/ Returns("drain") /\ (drain.pc = "dispoff" \/ ~drain.off)
      PROVE  /\ DrainSound' /\ OrientSound' /\ PendingSound' /\ TimerSound'
             /\ FadeSound' /\ CommitSound' /\ DarkSound'
  <2>1. drain.target = Brightness(Cfg, sm.state) /\ drain.off = ~Lit(sm.state)
    BY <1>3 DEF DrainSound
  <2>2. ~auto => ~fade.active
    BY <1>3 DEF TimerSound
  <2>3. CASE Returns("drain") /\ (drain.pc = "dispoff" \/ ~drain.off)
    <3>1. drain' = Waiting /\ orient' = orient
      BY <1>0, <2>3, DrainMoves
    <3> QED BY <1>3, <2>1, <2>2, <2>3, <3>1, Waits DEF DrainSound, OrientSound, PendingSound,
              TimerSound, FadeSound, CommitSound, DarkSound, Darkening, Ahead, Lit
  <2>4. CASE \/ Goes("drain", "bright") /\ drain.pc = "stop"
             \/ Goes("drain", "dispoff") /\ drain.pc # "dispoff"
    <3>1. /\ drain'.pc \in {"bright", "dispoff"} /\ drain'.ret = "wait"
          /\ drain'.target = drain.target /\ drain'.off = drain.off /\ orient' = orient
      BY <1>0, <2>4, DrainMoves
    <3> QED BY <1>3, <2>1, <2>2, <2>4, <3>1 DEF DrainSound, OrientSound, PendingSound,
              TimerSound, FadeSound, CommitSound, DarkSound, Darkening, Ahead
  <2> QED BY <1>3, <2>3, <2>4
<1>4. CASE TimerStop("drain")
  BY <1>3, <1>4 DEF TimerStop, drain
<1>5. CASE ShortBrightness("drain")
  <2>1. panel'.on = panel.on
    BY <1>5 DEF ShortBrightness, TypeOK
  <2> QED BY <1>3, <1>5, <2>1 DEF ShortBrightness, drain
<1>6. CASE ShortOff("drain")
  <2>1. panel'.on = FALSE
    BY <1>6 DEF ShortOff, TypeOK
  <2> QED BY <1>3, <1>6, <2>1 DEF ShortOff, drain
<1> QED BY <1>1, <1>2, <1>4, <1>5, <1>6 DEF Fading

\* A step of the orientation task: it only happens where that task is built in, and
\* leaves the machine, the drain task and a pending DISPOFF alone.
LEMMA OrientSteps ==
  ASSUME IInv, Rotate \/ Orient
  PROVE  /\ DrainSound' /\ OrientSound' /\ PendingSound' /\ TimerSound'
         /\ FadeSound' /\ CommitSound' /\ DarkSound'
<1> USE DEF IInv
<1>0. /\ task \in [Tasks -> Calls] /\ fade \in Fades /\ cb \in Callbacks
      /\ task["orient"] \in Calls /\ "orient" \in Tasks /\ "drain" \in Tasks
  BY DEF TypeOK, Tasks
<1>1. ASSUME auto, UNCHANGED <<auto, sm>>, drain' = drain,
             orient'.pc # "dispon", orient'.pc = "wait" => orient' = Waiting,
             orient'.periods = 0, ~orient'.off,
             \/ UNCHANGED <<fade, cb>>
             \/ fade'.off = FALSE /\ cb'.mine = FALSE
      PROVE  /\ DrainSound' /\ OrientSound' /\ PendingSound' /\ TimerSound'
             /\ FadeSound' /\ CommitSound' /\ DarkSound'
  BY <1>1 DEF DrainSound, OrientSound, PendingSound, TimerSound, FadeSound, CommitSound,
       DarkSound, Ahead
<1>2. orient.periods = 0 /\ ~orient.off
  BY DEF OrientSound
<1>3. ASSUME auto, UNCHANGED <<auto, sm, fade, cb>>,
             \/ \E pc \in {"fade", "start", "stop", "bright", "dispoff", "down", "up"} :
                  Goes("orient", pc)
             \/ Returns("orient")
      PROVE  /\ DrainSound' /\ OrientSound' /\ PendingSound' /\ TimerSound'
             /\ FadeSound' /\ CommitSound' /\ DarkSound'
  <2>1. CASE \E pc \in {"fade", "start", "stop", "bright", "dispoff", "down", "up"} :
                  Goes("orient", pc)
    <3>1. /\ orient'.pc \in {"fade", "start", "stop", "bright", "dispoff", "down", "up"}
          /\ orient'.off = orient.off /\ orient'.periods = orient.periods /\ drain' = drain
      BY <1>0, <2>1, OrientMoves
    <3> QED BY <1>1, <1>2, <1>3, <3>1
  <2>2. CASE Returns("orient")
    <3>1. CASE orient.ret = "wait"
      BY <1>0, <1>1, <1>3, <2>2, <3>1, OrientMoves, Waits
    <3>2. CASE orient.ret # "wait"
      <4>1. Goes("orient", "down")
        BY <1>0, <2>2, <3>2 DEF Returns, orient, Calls
      <4> QED BY <2>1, <4>1
    <3> QED BY <3>1, <3>2
  <2> QED BY <1>3, <2>1, <2>2
<1>4. orient.pc # "wait" => auto
  BY Waits DEF OrientSound
<1>5. CASE Rotate
  <2>1. task' = [task EXCEPT !["orient"] = Call("lock", "down", fade.cur, 0, FALSE)]
    BY <1>5 DEF Rotate
  <2>2. orient' = Call("lock", "down", fade.cur, 0, FALSE) /\ drain' = drain
    BY <1>0, <2>1 DEF orient, drain
  <2> QED BY <1>1, <1>5, <2>2 DEF Rotate, Call
<1>6. CASE TakeLock \/ RampDown
  <2>1. orient.pc # "wait"
    BY <1>6 DEF TakeLock, RampDown, orient
  <2> QED BY <1>3, <1>4, <1>6, <2>1 DEF TakeLock, RampDown
<1>7. CASE RampUp
  <2>1. orient.pc # "wait"
    BY <1>7 DEF RampUp, orient
  <2>2. task' = [task EXCEPT !["orient"] = [@ EXCEPT !.pc = "fade", !.ret = "wait"]]
    BY <1>7 DEF RampUp
  <2>3. orient' = [orient EXCEPT !.pc = "fade", !.ret = "wait"] /\ drain' = drain
    BY <1>0, <2>2 DEF orient, drain
  <2>4. orient'.pc = "fade" /\ orient'.off = orient.off /\ orient'.periods = orient.periods
    BY <1>0, <2>3 DEF orient, Calls
  <2> QED BY <1>1, <1>2, <1>4, <1>7, <2>1, <2>3, <2>4 DEF RampUp
<1>8. CASE StartFade("orient")
  <2>1. orient.pc # "wait"
    BY <1>8 DEF StartFade, orient
  <2>2. /\ fade' = [fade EXCEPT !.cur = orient.target, !.active = FALSE, !.off = FALSE]
        /\ task' = [task EXCEPT !["orient"] =
                      [@ EXCEPT !.pc = "stop", !.bright = fade.cur # orient.target]]
    BY <1>2, <1>8 DEF StartFade, orient
  <2>3. fade'.off = FALSE /\ cb'.mine = FALSE
    BY <1>0, <1>8, <2>2 DEF StartFade, Fades, Callbacks
  <2>4. orient' = [orient EXCEPT !.pc = "stop", !.bright = fade.cur # orient.target]
        /\ drain' = drain
    BY <1>0, <2>2 DEF orient, drain
  <2>5. orient'.pc = "stop" /\ orient'.off = orient.off /\ orient'.periods = orient.periods
    BY <1>0, <2>4 DEF orient, Calls
  <2> QED BY <1>1, <1>2, <1>4, <1>8, <2>1, <2>3, <2>4, <2>5 DEF StartFade
<1>9. CASE \/ TimerStart("orient") \/ TimerStop("orient")
           \/ ShortBrightness("orient") \/ ShortOff("orient")
  <2>1. orient.pc # "wait"
    BY <1>9 DEF TimerStart, TimerStop, ShortBrightness, ShortOff, orient
  <2> QED BY <1>3, <1>4, <1>9, <2>1 DEF TimerStart, TimerStop, ShortBrightness, ShortOff
<1> QED BY <1>5, <1>6, <1>7, <1>8, <1>9 DEF Orient, Fading

\* The next event: a new state of the machine is asked for at once.
LEMMA ReceiveSound ==
  ASSUME IInv, Receive
  PROVE  /\ DrainSound' /\ OrientSound' /\ PendingSound' /\ TimerSound'
         /\ FadeSound' /\ CommitSound' /\ DarkSound'
<1> USE DEF IInv
<1>0. task \in [Tasks -> Calls] /\ "orient" \in Tasks /\ "drain" \in Tasks
  BY DEF TypeOK, Tasks
<1>1. drain.pc = "wait" /\ drain = Waiting /\ UNCHANGED <<auto, fade, timer, cb, panel>>
  BY DEF Receive, DrainSound, drain
<1>2. /\ drain' = IF sm'.state = sm.state THEN Waiting ELSE Applied(sm'.state)
      /\ orient' = orient
  BY <1>0 DEF Receive, drain, orient
<1>3. CASE sm'.state = sm.state
  BY <1>1, <1>2, <1>3 DEF DrainSound, OrientSound, PendingSound, TimerSound, FadeSound,
       CommitSound, DarkSound, Darkening, Ahead
<1>4. CASE sm'.state # sm.state
  <2>1. sm'.state \in States
    BY TypeReceive DEF TypeOK, Machines
  <2>2. drain' = Applied(sm'.state)
    BY <1>2, <1>4
  <2>3. /\ drain'.pc \in {"dispon", "fade"} /\ drain'.ret = "wait"
        /\ drain'.pc = "dispon" => Lit(sm'.state)
        /\ drain'.target = Brightness(Cfg, sm'.state)
        /\ drain'.off = ~Lit(sm'.state)
    BY <2>1, <2>2, BrightnessIsLevel DEF Applied, Call
  <2>4. sm'.state = "OFF" => drain'.pc = "fade"
    BY <2>3 DEF Lit
  <2> QED BY <1>1, <1>2, <2>3, <2>4 DEF DrainSound, OrientSound, PendingSound, TimerSound,
            FadeSound, CommitSound, DarkSound, Darkening, Ahead
<1> QED BY <1>3, <1>4

LEMMA DispOnSound ==
  ASSUME IInv, DispOn
  PROVE  /\ DrainSound' /\ OrientSound' /\ PendingSound' /\ TimerSound'
         /\ FadeSound' /\ CommitSound' /\ DarkSound'
<1> USE DEF IInv
<1>1. drain.pc = "dispon" /\ UNCHANGED <<auto, sm, fade, timer, cb>>
  BY DEF DispOn, drain
<1>2. /\ drain'.pc = "fade" /\ drain'.ret = drain.ret /\ drain'.target = drain.target
      /\ drain'.off = drain.off /\ orient' = orient
  BY DrainMoves DEF DispOn, TypeOK
<1> QED BY <1>1, <1>2 DEF DrainSound, OrientSound, PendingSound, TimerSound, FadeSound,
          CommitSound, DarkSound, Darkening, Ahead

\* The callback: it moves the brightness along the fade, and hands over the DISPOFF
\* in the step that ends the fade.
LEMMA FadeStepSound ==
  ASSUME IInv, FadeStep
  PROVE  /\ DrainSound' /\ OrientSound' /\ PendingSound' /\ TimerSound'
         /\ FadeSound' /\ CommitSound' /\ DarkSound'
<1> USE DEF IInv
<1>0. /\ fade \in Fades /\ cb \in Callbacks /\ panel \in [on : BOOLEAN, level : Levels]
  BY DEF TypeOK
<1>1. UNCHANGED <<auto, sm, task>> /\ drain' = drain /\ orient' = orient
  BY DEF FadeStep, Fire, CbRead, CbCommit, CbWrite, CbCheck, CbOff, drain, orient
<1>2. ASSUME UNCHANGED <<fade, timer>>, cb'.pc = "commit" => ~cb'.mine,
             ~panel.on => ~panel'.on,
             (cb.pc \in {"write", "check"} /\ cb.off /\ cb.mine) \/ cb.pc = "dispoff" =>
               \/ cb'.pc \in {"write", "check"} /\ cb'.off /\ cb'.mine
               \/ cb'.pc = "dispoff"
               \/ ~panel'.on
      PROVE  /\ DrainSound' /\ OrientSound' /\ PendingSound' /\ TimerSound'
             /\ FadeSound' /\ CommitSound' /\ DarkSound'
  BY <1>1, <1>2 DEF DrainSound, OrientSound, PendingSound, TimerSound, FadeSound, CommitSound,
       DarkSound, Darkening, Ahead
<1>3. IdleCb.pc = "idle"
  BY DEF IdleCb
<1>4. CASE Fire
  <2>1. cb.pc = "idle" /\ cb'.pc = "read"
    BY <1>0, <1>4 DEF Fire, Callbacks
  <2> QED BY <1>2, <1>4, <2>1 DEF Fire
<1>5. CASE CbRead
  <2>1. CASE ~fade.active /\ cb' = IdleCb /\ UNCHANGED fade
    BY <1>2, <1>3, <1>5, <2>1 DEF CbRead
  <2>2. ASSUME NEW past \in fade.past + 1 .. fade.periods, fade.active,
               fade' = [fade EXCEPT !.past = past],
               cb' = [pc |-> "commit", mine |-> TRUE, level |-> Interpolated(past),
                      fin |-> past = fade.periods, off |-> FALSE]
        PROVE  /\ DrainSound' /\ OrientSound' /\ PendingSound' /\ TimerSound'
               /\ FadeSound' /\ CommitSound' /\ DarkSound'
    <3>1. fade.past \in Nat /\ fade.periods \in Nat
      BY <1>0 DEF Fades
    <3>2. past \in 0..fade.periods /\ fade.periods # 0
      BY <2>2, <3>1
    <3>3. past = fade.periods => Interpolated(past) = fade.target
      BY <1>0, <3>2, InterpolatedFits
    <3>4. /\ fade'.active = fade.active /\ fade'.off = fade.off
          /\ fade'.target = fade.target /\ fade'.cur = fade.cur
      BY <1>0, <2>2 DEF Fades
    <3>5. cb'.pc = "commit" /\ (cb'.fin => cb'.level = fade.target)
      BY <2>2, <3>3
    <3>6. cb.pc = "read" /\ UNCHANGED <<timer, panel>>
      BY <1>5 DEF CbRead
    <3> QED BY <1>1, <2>2, <3>4, <3>5, <3>6 DEF DrainSound, OrientSound, PendingSound,
              TimerSound, FadeSound, CommitSound, DarkSound, Darkening, Ahead
  <2> QED BY <1>5, <2>1, <2>2 DEF CbRead
<1>6. CASE CbCommit
  <2>1. CASE Stale /\ cb' = IdleCb /\ UNCHANGED <<fade, timer>>
    BY <1>2, <1>3, <1>6, <2>1 DEF CbCommit
  <2>2. ASSUME ~Stale,
               fade' = [fade EXCEPT !.cur = cb.level, !.active = ~cb.fin,
                                    !.off = @ /\ ~cb.fin],
               timer' = (timer /\ ~cb.fin),
               cb' = [cb EXCEPT !.pc = "write", !.off = fade.off /\ cb.fin]
        PROVE  /\ DrainSound' /\ OrientSound' /\ PendingSound' /\ TimerSound'
               /\ FadeSound' /\ CommitSound' /\ DarkSound'
    <3>1. cb.pc = "commit" /\ cb.mine /\ UNCHANGED panel
      BY <1>6, <2>2 DEF CbCommit, Stale
    <3>2. fade.active /\ (cb.fin => cb.level = fade.target)
      BY <3>1 DEF CommitSound
    <3>3. /\ fade'.cur = cb.level /\ fade'.active = ~cb.fin
          /\ fade'.off = (fade.off /\ ~cb.fin) /\ fade'.target = fade.target
      BY <1>0, <2>2 DEF Fades
    <3>4. /\ cb'.pc = "write" /\ cb'.off = (fade.off /\ cb.fin) /\ cb'.mine = cb.mine
      BY <1>0, <2>2 DEF Callbacks
    <3>5. cb.fin \in BOOLEAN /\ fade.off \in BOOLEAN /\ fade.active \in BOOLEAN
      BY <1>0 DEF Callbacks, Fades
    <3>6. CASE cb.fin
      BY <1>1, <2>2, <3>1, <3>2, <3>3, <3>4, <3>5, <3>6 DEF DrainSound, OrientSound,
           PendingSound, TimerSound, FadeSound, CommitSound, DarkSound, Darkening, Ahead
    <3>7. CASE ~cb.fin
      <4>1. fade'.active /\ (fade'.off <=> fade.off) /\ (timer' <=> timer)
        BY <2>2, <3>3, <3>7
      <4>2. DrainSound' /\ OrientSound' /\ CommitSound'
        BY <1>1, <3>4 DEF DrainSound, OrientSound, CommitSound
      <4>3. PendingSound' /\ TimerSound' /\ FadeSound'
        BY <1>1, <3>2, <3>3, <3>5, <3>7, <4>1 DEF PendingSound, TimerSound, FadeSound, Ahead
      <4>4. DarkSound'
        BY <1>1, <3>1, <3>2, <4>1 DEF DarkSound, Darkening
      <4> QED BY <4>2, <4>3, <4>4
    <3> QED BY <3>6, <3>7
  <2> QED BY <1>6, <2>1, <2>2 DEF CbCommit
<1>7. CASE CbWrite
  <2>1. panel'.on = panel.on
    BY <1>0, <1>7 DEF CbWrite
  <2>2. cb.pc = "write" /\ cb' = IF cb.off THEN [cb EXCEPT !.pc = "check"] ELSE IdleCb
    BY <1>7 DEF CbWrite
  <2>3. cb.off => cb'.pc = "check" /\ cb'.off = cb.off /\ cb'.mine = cb.mine
    BY <1>0, <2>2 DEF Callbacks
  <2> QED BY <1>2, <1>3, <1>7, <2>1, <2>2, <2>3 DEF CbWrite
<1>8. CASE CbCheck
  <2>1. cb.pc = "check" /\ UNCHANGED panel
        /\ cb' = IF Stale THEN IdleCb ELSE [cb EXCEPT !.pc = "dispoff"]
    BY <1>8 DEF CbCheck
  <2>2. cb.mine => cb'.pc = "dispoff"
    BY <1>0, <2>1 DEF Callbacks, Stale
  <2>3. ~cb.mine => cb' = IdleCb
    BY <2>1 DEF Stale
  <2> QED BY <1>2, <1>3, <1>8, <2>1, <2>2, <2>3 DEF CbCheck
<1>9. CASE CbOff
  <2>1. panel'.on = FALSE /\ cb' = IdleCb
    BY <1>0, <1>9 DEF CbOff
  <2> QED BY <1>2, <1>3, <1>9, <2>1 DEF CbOff
<1> QED BY <1>4, <1>5, <1>6, <1>7, <1>8, <1>9 DEF FadeStep

\* An event posted, a tick of the clock, a stutter: the machine's state, the fade and
\* the tasks stay as they are.
LEMMA Stays ==
  ASSUME IInv, UNCHANGED <<auto, fade, timer, cb, task, panel>>, sm'.state = sm.state
  PROVE  /\ DrainSound' /\ OrientSound' /\ PendingSound' /\ TimerSound'
         /\ FadeSound' /\ CommitSound' /\ DarkSound'
BY DEF IInv, DrainSound, OrientSound, PendingSound, TimerSound, FadeSound, CommitSound,
     DarkSound, Darkening, Ahead, drain, orient

LEMMA InvInit == Init => IInv
<1> SUFFICES ASSUME Init PROVE IInv
  OBVIOUS
<1>1. TypeOK
  BY TypeInit
<1>2. task = [t \in Tasks |-> Waiting]
  BY DEF Init
<1>3. drain = Waiting /\ orient = Waiting
  BY <1>2 DEF Tasks, drain, orient
<1>4. /\ sm.state = "ACTIVE" /\ panel.on = TRUE /\ cb.pc = "idle"
      /\ fade.cur = Cfg.active /\ fade.off = FALSE /\ fade.active = FALSE
  BY DEF Init, Boot, IdleCb
<1>5. fade.cur = Brightness(Cfg, sm.state)
  BY <1>4 DEF Brightness
<1> QED BY <1>1, <1>3, <1>4, <1>5, Waits DEF IInv, DrainSound, OrientSound, PendingSound,
          TimerSound, FadeSound, CommitSound, DarkSound, Ahead

LEMMA InvNext == IInv /\ [Next]_vars => IInv'
<1> SUFFICES ASSUME IInv, [Next]_vars PROVE IInv'
  OBVIOUS
<1>1. TypeOK'
  BY TypeNext DEF IInv
<1>2. CASE (\E e \in Sources : Stimulus(e)) \/ Tick \/ UNCHANGED vars
  <2>1. UNCHANGED <<auto, fade, timer, cb, task, panel>>
    BY <1>2 DEF Stimulus, Tick, vars
  <2>2. sm'.state = sm.state
    BY <1>2 DEF Stimulus, Tick, vars, IInv, TypeOK, Machines
  <2> QED BY <1>1, <2>1, <2>2, Stays DEF IInv
<1>3. CASE Drain
  BY <1>1, <1>3, ReceiveSound, DispOnSound, DrainFading DEF Drain, IInv
<1>4. CASE Rotate \/ Orient
  BY <1>1, <1>4, OrientSteps DEF IInv
<1>5. CASE FadeStep
  BY <1>1, <1>5, FadeStepSound DEF IInv
<1> QED BY <1>2, <1>3, <1>4, <1>5 DEF Next

LEMMA Invariant == Spec => []IInv
BY InvInit, InvNext, PTL DEF Spec

LEMMA WriteInit == Init => WriteSound
<1> SUFFICES ASSUME Init PROVE WriteSound
  OBVIOUS
<1>1. task = [t \in Tasks |-> Waiting]
  BY DEF Init
<1>2. drain = Waiting
  BY <1>1 DEF Tasks, drain
<1>3. fade.cur = Cfg.active /\ panel.level = Cfg.active /\ cb.pc = "idle"
  BY DEF Init, IdleCb
<1>4. Waiting.bright = FALSE
  BY DEF Waiting, Call
<1> QED BY <1>2, <1>3, <1>4, Waits DEF WriteSound

\* With fades that take time start_fade never moves the brightness itself.
LEMMA WriteNext ==
  ASSUME WakePeriods > 0, SleepPeriods > 0, IInv, WriteSound, [Next]_vars
  PROVE  WriteSound'
<1> USE DEF IInv
<1>0. /\ task \in [Tasks -> Calls] /\ fade \in Fades /\ cb \in Callbacks
      /\ panel \in [on : BOOLEAN, level : Levels]
      /\ "orient" \in Tasks /\ "drain" \in Tasks /\ drain.ret = "wait"
  BY DEF TypeOK, Tasks, DrainSound
<1>1. auto' = auto
  BY DEF Next, Stimulus, Tick, Drain, Receive, DispOn, Fading, StartFade, TimerStart,
       TimerStop, ShortBrightness, ShortOff, Rotate, Orient, TakeLock, RampDown, RampUp,
       FadeStep, Fire, CbRead, CbCommit, CbWrite, CbCheck, CbOff, vars
<1>2. CASE auto
  BY <1>1, <1>2 DEF WriteSound
<1>3. CASE ~auto
  <2>0. Waiting.bright = FALSE
    BY DEF Waiting, Call
  <2>1. orient = Waiting
    BY <1>3 DEF OrientSound
  <2>2. ASSUME UNCHANGED <<fade, cb, panel, task>>
        PROVE  WriteSound'
    BY <1>1, <2>2 DEF WriteSound, drain
  <2>3. ASSUME UNCHANGED <<fade, cb, panel>>, drain' = Waiting
        PROVE  WriteSound'
    BY <1>1, <2>0, <2>3, Waits DEF WriteSound
  <2>4. CASE Receive
    <3>1. drain' = IF sm'.state = sm.state THEN Waiting ELSE Applied(sm'.state)
      BY <1>0, <2>4 DEF Receive, drain
    <3>2. CASE sm'.state = sm.state
      BY <2>3, <2>4, <3>1, <3>2 DEF Receive
    <3>3. CASE sm'.state # sm.state
      <4>1. Applied(sm'.state).periods > 0 /\ Applied(sm'.state).bright = FALSE
            /\ Applied(sm'.state).pc # "bright"
        BY DEF Applied, Call
      <4> QED BY <1>1, <2>4, <3>1, <3>3, <4>1 DEF WriteSound, Receive
    <3> QED BY <3>2, <3>3
  <2>5. CASE DispOn
    <3>1. drain.pc = "dispon" /\ UNCHANGED <<fade, cb>> /\ panel'.level = panel.level
      BY <1>0, <2>5 DEF DispOn, drain
    <3>2. drain'.pc = "fade" /\ drain'.periods = drain.periods /\ drain'.bright = drain.bright
      BY <1>0, <2>5, DrainMoves DEF DispOn
    <3> QED BY <1>1, <1>3, <3>1, <3>2 DEF WriteSound
  <2>6. CASE StartFade("drain")
    <3>1. drain.pc = "fade" /\ drain.periods > 0 /\ ~drain.bright /\ UNCHANGED panel
      BY <1>3, <2>6 DEF StartFade, WriteSound, drain
    <3>2. cb'.pc = cb.pc /\ cb'.level = cb.level
      BY <1>0, <2>6 DEF StartFade, Callbacks
    <3>3. CASE fade.cur = drain.target
      <4>1. /\ fade' = [fade EXCEPT !.cur = drain.target, !.active = FALSE, !.off = FALSE]
            /\ task' = [task EXCEPT !["drain"] =
                          [@ EXCEPT !.pc = "stop", !.bright = fade.cur # drain.target]]
        BY <2>6, <3>3 DEF StartFade, drain
      <4>2. fade'.cur = fade.cur
        BY <1>0, <3>3, <4>1 DEF Fades
      <4>3. task["drain"] \in Calls
        BY <1>0
      <4>4. drain' = [drain EXCEPT !.pc = "stop", !.bright = fade.cur # drain.target]
        BY <1>0, <4>1, <4>3 DEF drain
      <4>5. drain'.pc = "stop" /\ drain'.bright = FALSE
        BY <3>3, <4>3, <4>4 DEF Calls, drain
      <4> QED BY <1>1, <1>3, <3>1, <3>2, <4>2, <4>5 DEF WriteSound
    <3>4. CASE fade.cur # drain.target
      <4>1. fade' = Ramp(drain)
        BY <1>0, <2>6, <3>1, <3>4 DEF StartFade, drain, Calls
      <4>2. fade'.cur = fade.cur
        BY <4>1 DEF Ramp
      <4>3. Returns("drain") \/ Goes("drain", "start")
        BY <1>0, <2>6, <3>1, <3>4 DEF StartFade, drain, Calls
      <4>4. \/ drain' = Waiting
            \/ drain'.pc = "start" /\ drain'.periods = drain.periods
               /\ drain'.bright = drain.bright
        BY <1>0, <4>3, DrainMoves
      <4> QED BY <1>1, <1>3, <2>0, <3>1, <3>2, <4>2, <4>4, Waits DEF WriteSound
    <3> QED BY <3>3, <3>4
  <2>7. CASE TimerStart("drain")
    BY <1>0, <2>3, <2>7, DrainMoves DEF TimerStart
  <2>8. CASE TimerStop("drain")
    <3>1. drain.pc = "stop" /\ ~drain.bright /\ UNCHANGED <<fade, cb, panel>>
      BY <1>3, <2>8 DEF TimerStop, WriteSound, drain
    <3>2. Goes("drain", "dispoff") \/ Returns("drain")
      BY <2>8, <3>1 DEF TimerStop, drain
    <3>3. CASE Goes("drain", "dispoff")
      <4>1. drain'.pc = "dispoff" /\ drain'.bright = drain.bright
        BY <1>0, <3>3, DrainMoves
      <4> QED BY <1>1, <1>3, <3>1, <4>1 DEF WriteSound
    <3> QED BY <1>0, <2>3, <3>1, <3>2, <3>3, DrainMoves
  <2>9. CASE ShortOff("drain")
    <3>1. panel'.level = panel.level /\ UNCHANGED <<fade, cb>> /\ drain' = Waiting
      BY <1>0, <2>9, DrainMoves DEF ShortOff
    <3> QED BY <1>1, <1>3, <2>0, <3>1, Waits DEF WriteSound
  <2>10. ~ShortBrightness("drain")
    BY <1>3 DEF ShortBrightness, WriteSound, drain
  <2>11. ~(Rotate \/ Orient)
    BY <1>3, <2>1, Waits DEF Rotate, Orient, TakeLock, RampDown, RampUp, Fading, StartFade,
         TimerStart, TimerStop, ShortBrightness, ShortOff, orient
  <2>12. CASE FadeStep
    <3>1. UNCHANGED task /\ drain' = drain
      BY <2>12 DEF FadeStep, Fire, CbRead, CbCommit, CbWrite, CbCheck, CbOff, drain
    <3>2. ASSUME cb.pc # "write", cb'.pc # "write", fade'.cur = fade.cur,
                 panel'.level = panel.level
          PROVE  WriteSound'
      BY <1>1, <3>1, <3>2 DEF WriteSound
    <3>3. IdleCb.pc = "idle"
      BY DEF IdleCb
    <3>4. CASE Fire
      <4>1. cb.pc = "idle" /\ cb'.pc = "read" /\ UNCHANGED <<fade, panel>>
        BY <1>0, <3>4 DEF Fire, Callbacks
      <4> QED BY <3>2, <4>1
    <3>5. CASE CbRead
      <4>1. cb.pc = "read" /\ cb'.pc \in {"idle", "commit"} /\ UNCHANGED panel
        BY <3>3, <3>5 DEF CbRead
      <4>2. fade'.cur = fade.cur
        BY <1>0, <3>5 DEF CbRead, Fades
      <4> QED BY <3>2, <4>1, <4>2
    <3>6. CASE CbCommit
      <4>1. cb.pc = "commit" /\ UNCHANGED panel
        BY <3>6 DEF CbCommit
      <4>2. CASE cb' = IdleCb /\ UNCHANGED fade
        BY <3>2, <3>3, <4>1, <4>2
      <4>3. CASE /\ fade' = [fade EXCEPT !.cur = cb.level, !.active = ~cb.fin,
                                         !.off = @ /\ ~cb.fin]
                 /\ cb' = [cb EXCEPT !.pc = "write", !.off = fade.off /\ cb.fin]
        <5>1. fade'.cur = cb.level
          BY <1>0, <4>3 DEF Fades
        <5>2. cb'.pc = "write" /\ cb'.level = cb.level
          BY <1>0, <4>3 DEF Callbacks
        <5> QED BY <1>1, <3>1, <5>1, <5>2 DEF WriteSound
      <4> QED BY <3>6, <4>2, <4>3 DEF CbCommit
    <3>7. CASE CbWrite
      <4>1. cb.pc = "write" /\ UNCHANGED fade
        BY <3>7 DEF CbWrite
      <4>2. panel'.level = cb.level
        BY <1>0, <3>7 DEF CbWrite
      <4>3. cb'.pc \in {"check", "idle"}
        BY <1>0, <3>3, <3>7 DEF CbWrite, Callbacks
      <4> QED BY <1>1, <3>1, <4>1, <4>2, <4>3 DEF WriteSound
    <3>8. CASE CbCheck
      <4>1. cb.pc = "check" /\ cb'.pc \in {"idle", "dispoff"} /\ UNCHANGED <<fade, panel>>
        BY <1>0, <3>3, <3>8 DEF CbCheck, Callbacks
      <4> QED BY <3>2, <4>1
    <3>9. CASE CbOff
      <4>1. cb.pc = "dispoff" /\ cb'.pc = "idle" /\ UNCHANGED fade
            /\ panel'.level = panel.level
        BY <1>0, <3>3, <3>9 DEF CbOff
      <4> QED BY <3>2, <4>1
    <3> QED BY <2>12, <3>4, <3>5, <3>6, <3>7, <3>8, <3>9 DEF FadeStep
  <2>13. CASE (\E e \in Sources : Stimulus(e)) \/ Tick \/ UNCHANGED vars
    <3>1. UNCHANGED <<fade, cb, panel, task>>
      BY <2>13 DEF Stimulus, Tick, vars
    <3> QED BY <2>2, <3>1
  <2> QED BY <2>4, <2>5, <2>6, <2>7, <2>8, <2>9, <2>10, <2>11, <2>12, <2>13
          DEF Next, Drain, Fading
<1> QED BY <1>2, <1>3

-----------------------------------------------------------------------------
(* The theorems.                                                           *)

\* Every variable of the adapter stays in its type, and the queue within its depth
\* (burn_idle_adapter.c:44, EVENT_QUEUE_DEPTH).
THEOREM TypeCorrect == Spec => []TypeOK
<1>1. IInv => TypeOK
  BY DEF IInv
<1> QED BY <1>1, Invariant, PTL

\* Where nobody rotates the screen, a settled panel is off whenever the machine is,
\* whatever preempted the fade and its DISPOFF (burn_idle_adapter.c:81-83).
THEOREM DarkWhenOff == Spec => []OffIsDark
<1>1. IInv => OffIsDark
  <2> SUFFICES ASSUME IInv, ~auto, Settled, sm.state = "OFF" PROVE ~panel.on
    BY DEF OffIsDark, PanelOff
  <2>1. drain = Waiting /\ ~fade.active /\ cb.pc \in {"idle", "read"}
    BY DEF Settled, Tasks, drain
  <2> QED BY <2>1, Waits DEF IInv, DarkSound, Darkening
<1> QED BY <1>1, Invariant, PTL

\* Where nobody rotates the screen, no order of preemptions leaves a fade active
\* without a timer to step it (burn_idle_adapter.c:197-202).
THEOREM NeverStalls == Spec => []NoStall
<1>1. IInv => NoStall
  BY DEF IInv, NoStall, TimerSound, drain
<1> QED BY <1>1, Invariant, PTL

\* With or without rotation, a DISPOFF is pending only while the machine is off, once
\* the drain task has done what the last event asked for
\* (burn_idle_adapter.c:270-272).
THEOREM PendingOnlyAsleep == Spec => []PendingIsSleep
<1>1. IInv => PendingIsSleep
  BY Waits DEF IInv, PendingIsSleep, PendingSound, Ahead, drain
<1> QED BY <1>1, Invariant, PTL

\* Where nobody rotates the screen and both fades take time, no write of a preempted
\* fade lasts: a settled, lit panel has the brightness of the machine's state
\* (burn_idle_adapter.c:218-220).
THEOREM LevelFollows ==
  ASSUME WakePeriods > 0, SleepPeriods > 0
  PROVE  Spec => []LevelAgrees
<1>1. IInv /\ WriteSound /\ [Next]_vars => WriteSound'
  BY WriteNext
<1>2. IInv /\ WriteSound => LevelAgrees
  <2> SUFFICES ASSUME IInv, WriteSound, ~auto, Settled
               PROVE  panel.level = Brightness(Cfg, sm.state)
    BY DEF LevelAgrees
  <2>1. drain = Waiting /\ ~fade.active /\ cb.pc \in {"idle", "read"}
    BY DEF Settled, Tasks, drain
  <2>2. fade.cur = Brightness(Cfg, sm.state)
    BY <2>1, Waits DEF IInv, FadeSound, Ahead
  <2> QED BY <2>1, <2>2 DEF WriteSound
<1> QED BY <1>1, <1>2, Invariant, WriteInit, PTL DEF Spec
=============================================================================
