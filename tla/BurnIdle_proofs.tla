-------------------------- MODULE BurnIdle_proofs ---------------------------
(***************************************************************************)
(* BurnIdle keeps its promises for every configuration that                *)
(* burn_idle_config_valid accepts and however long it runs.                *)
(***************************************************************************)
EXTENDS BurnIdle, TLAPS

\* What relates the machine's one timestamp to what has really happened: it is
\* never before the last user event, at most a dim threshold before the last
\* push, and after neither.
Dated ==
  /\ sm.last >= user
  /\ sm.last >= push - cfg.dim
  /\ sm.last <= user \/ sm.last <= push
  /\ soft => sm.last <= push - cfg.dim

\* An idle state has been reached: the thresholds lie behind.
Reached ==
  /\ sm.state = "DIMMED" => now - sm.last >= cfg.dim
  /\ sm.state = "OFF" => now - sm.last >= cfg.off

\* Right after a tick the state is the one the thresholds ask for.
Evaluated == ev = "TIME" => sm.state = StateFor(cfg, now - sm.last)

IInv == TypeOK /\ Dated /\ Reached /\ Evaluated

-----------------------------------------------------------------------------
\* What a valid configuration is, for the provers.
LEMMA ConfigFacts ==
  ASSUME NEW c \in Configs
  PROVE  c.dim \in Int /\ c.off \in Int /\ c.dim > 0 /\ c.off >= c.dim
BY BurnIdleAssumption DEF Valid

\* The machine starts as IInv describes it.
LEMMA InitIInv == Init => IInv
<1> SUFFICES ASSUME Init PROVE IInv
  OBVIOUS
<1>1. cfg.dim \in Int /\ cfg.off \in Int /\ cfg.dim > 0 /\ cfg.off >= cfg.dim
  BY ConfigFacts DEF Init
<1>a. sm \in Machines /\ sm.last = 0
  BY DEF Init, Boot, Machines, States
<1>b. Horizon \in Nat
  BY BurnIdleAssumption
<1>c. soft \in BOOLEAN /\ ev \in Events \cup {"none"}
  BY DEF Init
<1>2. TypeOK
  <2>1. cfg \in Configs /\ now = 0 /\ user = 0 /\ push = 0
    BY DEF Init
  <2> QED
    BY <1>1, <1>a, <1>b, <1>c, <2>1 DEF TypeOK
<1>3. Dated /\ Reached /\ Evaluated
  BY <1>1 DEF Init, Boot, Dated, Reached, Evaluated
<1> QED
  BY <1>2, <1>3 DEF IInv

\* Time passing takes an idle state only further past its thresholds.
LEMMA PassIInv == IInv /\ Pass => IInv'
<1> SUFFICES ASSUME IInv, Pass PROVE IInv'
  OBVIOUS
<1>1. cfg.dim \in Int /\ cfg.off \in Int /\ cfg.dim > 0 /\ cfg.off >= cfg.dim
  BY ConfigFacts DEF IInv, TypeOK
<1>2. sm.last \in Int /\ now \in Int
  BY DEF IInv, TypeOK, Machines
<1>3. TypeOK'
  BY <1>1, <1>2, BurnIdleAssumption DEF IInv, TypeOK, Pass
<1>4. Dated' /\ Reached' /\ Evaluated'
  BY <1>1, <1>2 DEF IInv, Dated, Reached, Evaluated, Pass
<1> QED
  BY <1>3, <1>4 DEF IInv

\* The machine after each kind of event; an idle machine's timestamp is at
\* least a dim threshold old, which is why backdating a push to that age can
\* only move it forward.
LEMMA PushStep ==
  ASSUME IInv, Handle("PUSH")
  PROVE  /\ sm'.last = IF sm.state = "ACTIVE" THEN now ELSE now - cfg.dim
         /\ sm'.state = IF sm.state = "ACTIVE" THEN "ACTIVE" ELSE "DIMMED"
         /\ sm' \in Machines
         /\ sm'.last >= sm.last
<1>1. cfg.dim \in Int /\ cfg.off \in Int /\ cfg.dim > 0 /\ cfg.off >= cfg.dim
  BY ConfigFacts DEF IInv, TypeOK
<1>2. sm.last \in Int /\ now \in Int /\ sm.last <= now /\ sm.state \in States
  BY DEF IInv, TypeOK, Machines
<1>3. sm' = Pushed(cfg, sm, now)
  BY DEF Handle, Step
<1>4. sm.state # "ACTIVE" => now - cfg.dim >= sm.last
  BY <1>1, <1>2 DEF IInv, Reached, States
<1> QED
  BY <1>1, <1>2, <1>3, <1>4 DEF Pushed, Machines, States

\* A user event dates the machine now.
LEMMA UserStep ==
  ASSUME IInv, NEW e \in UserEvents, Handle(e)
  PROVE  sm' = [state |-> "ACTIVE", last |-> now] /\ sm'.last >= sm.last
<1>1. sm' = Woken(cfg, sm, now)
  BY DEF Handle, Step, UserEvents
<1> QED
  BY <1>1 DEF Woken, IInv, TypeOK, Machines

\* A tick leaves the timestamp alone and never makes the screen brighter.
LEMMA TimeStep ==
  ASSUME IInv, Handle("TIME")
  PROVE  /\ sm'.last = sm.last
         /\ sm'.state = StateFor(cfg, now - sm.last)
         /\ sm' \in Machines
         /\ sm.state # "ACTIVE" => sm'.state # "ACTIVE"
<1>1. cfg.dim \in Int /\ cfg.off \in Int /\ cfg.dim > 0 /\ cfg.off >= cfg.dim
  BY ConfigFacts DEF IInv, TypeOK
<1>2. sm.last \in Int /\ now \in Int /\ sm.last <= now /\ sm.state \in States
  BY DEF IInv, TypeOK, Machines
<1>3. sm' = Timed(cfg, sm, now)
  BY DEF Handle, Step, UserEvents
<1>4. sm'.last = sm.last /\ sm'.state = StateFor(cfg, now - sm.last)
  BY <1>2, <1>3 DEF Timed
<1>5. StateFor(cfg, now - sm.last) \in States
  BY DEF StateFor, States
<1>6. sm.state # "ACTIVE" => now - sm.last >= cfg.dim
  BY <1>1, <1>2 DEF IInv, Reached, States
<1>7. sm.state # "ACTIVE" => StateFor(cfg, now - sm.last) # "ACTIVE"
  BY <1>6 DEF StateFor
<1> QED
  BY <1>2, <1>3, <1>4, <1>5, <1>7 DEF Timed, Machines

\* Every event preserves IInv.
LEMMA HandleIInv ==
  ASSUME IInv, NEW e \in Events, Handle(e)
  PROVE  IInv'
<1>1. cfg.dim \in Int /\ cfg.off \in Int /\ cfg.dim > 0 /\ cfg.off >= cfg.dim
  BY ConfigFacts DEF IInv, TypeOK
<1>2. /\ sm.last \in Int /\ now \in Int /\ sm.last <= now /\ sm.last >= -cfg.dim
      /\ sm.state \in States /\ user \in Int /\ push \in Int /\ 0 <= now
      /\ user <= now /\ push <= now /\ soft \in BOOLEAN
  BY BurnIdleAssumption DEF IInv, TypeOK, Machines
<1>3. cfg' = cfg /\ now' = now
  BY DEF Handle
<1>4. CASE e = "PUSH"
  <2>1. /\ sm'.last = IF sm.state = "ACTIVE" THEN now ELSE now - cfg.dim
        /\ sm'.state = IF sm.state = "ACTIVE" THEN "ACTIVE" ELSE "DIMMED"
        /\ sm' \in Machines
        /\ sm'.last >= sm.last
    BY <1>4, PushStep
  <2>2. /\ ev' = "PUSH" /\ user' = user /\ push' = now
        /\ soft' \in BOOLEAN /\ (soft' => sm.state # "ACTIVE")
    BY <1>4 DEF Handle, UserEvents
  <2>3. TypeOK'
    BY <1>1, <1>2, <1>3, <2>1, <2>2 DEF IInv, TypeOK, Events
  <2>4. Dated'
    BY <1>1, <1>2, <1>3, <2>1, <2>2 DEF IInv, Dated
  <2>5. Reached' /\ Evaluated'
    BY <1>1, <1>2, <1>3, <2>1, <2>2 DEF IInv, Reached, Evaluated, States
  <2> QED
    BY <2>3, <2>4, <2>5 DEF IInv
<1>5. CASE e \in UserEvents
  <2>1. sm'.state = "ACTIVE" /\ sm'.last = now /\ sm' \in Machines
    BY <1>2, <1>5, UserStep DEF Machines, States
  <2>2. ev' = e /\ user' = now /\ push' = push /\ ~soft' /\ soft' \in BOOLEAN
    BY <1>5 DEF Handle, UserEvents
  <2>3. TypeOK'
    BY <1>1, <1>2, <1>3, <1>5, <2>1, <2>2 DEF IInv, TypeOK, Events
  <2>4. Dated'
    BY <1>1, <1>2, <1>3, <2>1, <2>2 DEF Dated
  <2>5. Reached' /\ Evaluated'
    BY <1>5, <2>1, <2>2 DEF Reached, Evaluated, UserEvents
  <2> QED
    BY <2>3, <2>4, <2>5 DEF IInv
<1>6. CASE e = "TIME"
  <2>1. /\ sm'.last = sm.last
        /\ sm'.state = StateFor(cfg, now - sm.last)
        /\ sm' \in Machines
    BY <1>6, TimeStep
  <2>2. ev' = "TIME" /\ user' = user /\ push' = push /\ soft' = soft
    BY <1>6 DEF Handle, UserEvents
  <2>3. TypeOK'
    BY <1>3, <2>1, <2>2 DEF IInv, TypeOK, Events
  <2>4. Dated'
    BY <1>3, <2>1, <2>2 DEF IInv, Dated
  <2>5. Reached' /\ Evaluated'
    BY <1>1, <1>2, <1>3, <2>1 DEF Reached, Evaluated, StateFor
  <2> QED
    BY <2>3, <2>4, <2>5 DEF IInv
<1> QED
  BY <1>4, <1>5, <1>6 DEF Events

\* IInv is an invariant.
THEOREM Invariance == Spec => []IInv
<1>1. IInv /\ [Next]_vars => IInv'
  <2> SUFFICES ASSUME IInv, [Next]_vars PROVE IInv'
    OBVIOUS
  <2>1. CASE Pass
    BY <2>1, PassIInv
  <2>2. ASSUME NEW e \in Events, Handle(e) PROVE IInv'
    BY <2>2, HandleIInv
  <2>3. CASE UNCHANGED vars
    BY <2>3 DEF vars, IInv, TypeOK, Dated, Reached, Evaluated
  <2> QED
    BY <2>1, <2>2, <2>3 DEF Next
<1> QED
  BY InitIInv, <1>1, PTL DEF Spec

-----------------------------------------------------------------------------
\* Every variable keeps its type (burn_idle.c:73-127).
THEOREM TypeCorrect == Spec => []TypeOK
<1>1. IInv => TypeOK
  BY DEF IInv
<1> QED
  BY Invariance, <1>1, PTL

\* The screen is never dimmed or turned off too early, whatever the
\* configuration and the order of events (burn_idle.c:20-29, 100-120).
THEOREM NeverTooEarly == Spec => []NotBeforeTime
<1>1. IInv => NotBeforeTime
  <2> SUFFICES ASSUME IInv PROVE NotBeforeTime
    OBVIOUS
  <2>1. cfg.dim \in Int /\ cfg.off \in Int /\ cfg.dim > 0 /\ cfg.off >= cfg.dim
    BY ConfigFacts DEF IInv, TypeOK
  <2>2. /\ sm.last \in Int /\ now \in Int /\ user \in Int /\ push \in Int
        /\ sm.state \in States
    BY BurnIdleAssumption DEF IInv, TypeOK, Machines
  <2> QED
    BY <2>1, <2>2 DEF IInv, Dated, Reached, NotBeforeTime, States
<1> QED
  BY Invariance, <1>1, PTL

\* Silence turns the screen off at the next tick, however many pushes have
\* prolonged the dimmed phase before (burn_idle.c:96-99).
THEOREM SilenceIsDark == Spec => []SilenceDarkens
<1>1. IInv => SilenceDarkens
  <2> SUFFICES ASSUME IInv, ev = "TIME" PROVE SilenceDarkens
    BY DEF SilenceDarkens
  <2>1. cfg.dim \in Int /\ cfg.off \in Int /\ cfg.dim > 0 /\ cfg.off >= cfg.dim
    BY ConfigFacts DEF IInv, TypeOK
  <2>2. sm.last \in Int /\ now \in Int /\ user \in Int /\ push \in Int
    BY BurnIdleAssumption DEF IInv, TypeOK, Machines
  <2>3. now - sm.last >= cfg.off => sm.state = "OFF"
    BY DEF IInv, Evaluated, StateFor
  <2> QED
    BY <2>1, <2>2, <2>3 DEF IInv, Dated, SilenceDarkens
<1> QED
  BY Invariance, <1>1, PTL

\* No push and no tick ever restores full brightness (FR-2.3).
THEOREM PushesOnlyDim == Spec => OnlyUsersLight
<1>1. IInv /\ [Next]_vars =>
        [sm.state # "ACTIVE" /\ sm'.state = "ACTIVE" => ev' \in UserEvents]_vars
  <2> SUFFICES ASSUME IInv, Next, sm.state # "ACTIVE", sm'.state = "ACTIVE"
               PROVE  ev' \in UserEvents
    OBVIOUS
  <2>1. PICK e \in Events : Handle(e)
    BY DEF Next, Pass
  <2>2. e # "PUSH"
    BY <2>1, PushStep
  <2>3. e # "TIME"
    BY <2>1, TimeStep
  <2> QED
    BY <2>1, <2>2, <2>3 DEF Events, Handle
<1> QED
  BY Invariance, <1>1, PTL DEF Spec, OnlyUsersLight

\* No event ever brings the next dimming forward: the backdated timestamp of a
\* push is not before the one it replaces (burn_idle.c:104-106).
THEOREM ActivityMovesForward == Spec => NeverShortens
<1>1. IInv /\ [Next]_vars => [sm'.last >= sm.last]_vars
  <2> SUFFICES ASSUME IInv, Next PROVE sm'.last >= sm.last
    OBVIOUS
  <2>1. sm.last \in Int
    BY DEF IInv, TypeOK, Machines
  <2>2. CASE Pass
    BY <2>1, <2>2 DEF Pass
  <2>3. ASSUME NEW e \in Events, Handle(e) PROVE sm'.last >= sm.last
    <3>1. CASE e = "PUSH"
      BY <2>3, <3>1, PushStep
    <3>2. CASE e = "TIME"
      BY <2>1, <2>3, <3>2, TimeStep
    <3>3. CASE e \in UserEvents
      BY <2>3, <3>3, UserStep
    <3> QED
      BY <3>1, <3>2, <3>3 DEF Events
  <2> QED
    BY <2>2, <2>3 DEF Next
<1> QED
  BY Invariance, <1>1, PTL DEF Spec, NeverShortens
=============================================================================
