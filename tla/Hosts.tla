------------------------------- MODULE Hosts --------------------------------
(***************************************************************************)
(* A host and the displays it is paired with: the Codex daemon or the      *)
(* children of the Claude status line (they share no file and no slot of a *)
(* display, so a behaviour has the one or the other), the LAN and the      *)
(* displays.  What goes wrong is counted against the study's bound.        *)
(***************************************************************************)
EXTENDS CodexDaemon, StatusLine

CONSTANT Studies  \* bound: who pushes, which displays are there and paired at first, the
                  \* usage at first, what may go wrong, and how often

ASSUME HostsAssumption ==
  \A s \in Studies : s.cached \in Maps /\ s.first \in Snaps /\ s.faults \in Nat

VARIABLES study, faults

vars == <<world, cache, call, told, memory, round, study, faults>>

HostsTypeOK ==
  /\ TypeOK
  /\ DaemonTypeOK
  /\ study \in Studies /\ faults \in 0..study.faults

HostsInit ==
  /\ study \in Studies
  /\ Init(study.present, study.cached, study.first)
  /\ DaemonInit
  /\ faults = 0

May(kind) ==
  /\ kind \in study.kinds
  /\ faults < study.faults
  /\ faults' = faults + 1

Codex  == study.agent = "codex"
Claude == study.agent = "claude"

Agents == {q \in Procs : (q[1] = "child") = Claude}
Subsets(f) == {[d \in S |-> f[d]] : S \in SUBSET DOMAIN f \ {DOMAIN f}}

-----------------------------------------------------------------------------
(* What goes right.                                                        *)

UsageChanges ==
  /\ \/ Codex /\ \E n \in BOOLEAN : Change(n)
     \/ Claude /\ Work /\ UNCHANGED <<memory, round>>
  /\ UNCHANGED <<study, faults>>

Draws(q) ==
  /\ Claude /\ q \in Children
  /\ Turn(q)
  /\ UNCHANGED <<memory, round, study, faults>>

Child(q) ==
  /\ q \in Children
  /\ ChildStep(q)
  /\ UNCHANGED <<memory, round, study, faults>>

\* Each worker of the daemon goes on by itself.
Serves  == Codex /\ Bootstrap /\ UNCHANGED <<study, faults>>
Polls   == Codex /\ Poll /\ UNCHANGED <<study, faults>>
Pushes(g) ==
  /\ Codex
  /\ Take(g) \/ CallStep(Pusher(g)) \/ Record(Pusher(g))
  /\ UNCHANGED <<study, faults>>
Checks(g) ==
  /\ Codex
  /\ HealthStep(g) \/ CallStep(Health(g)) \/ Record(Health(g))
  /\ UNCHANGED <<study, faults>>

Cools(d) == Cooldown(d) /\ UNCHANGED <<memory, round, study, faults>>

-----------------------------------------------------------------------------
(* What goes wrong.                                                        *)

LosesAnswer ==
  /\ May("loss")
  /\ \E d \in Devices :
       \/ /\ \E q \in Agents : Claim(q, d, TRUE) \/ Send(q, d, TRUE) \/ Retry(q, d, TRUE)
          /\ UNCHANGED <<memory, round>>
       \/ Codex /\ \E g \in Servers : Probe(g, d, TRUE) \/ ProbeAgain(g, d, TRUE)
  /\ UNCHANGED study

\* A browse misses some displays, or fails.
MissesDisplay ==
  /\ May("mdns")
  /\ \/ \E found \in Subsets(Visible) :
          \/ /\ \E q \in Agents : Find(q, found) \/ Browse(q, found) \/ Split(q, found)
             /\ UNCHANGED <<memory, round>>
          \/ Codex /\ \E g \in Servers :
               Relocate(g, found) \/ Rebind(g, found) \/ Part(g, found)
     \/ (\E q \in Agents : SplitFails(q)) /\ UNCHANGED <<memory, round>>
     \/ Codex /\ \E g \in Servers : PartFails(g)
  /\ UNCHANGED study

ProcessDies ==
  /\ May("crash")
  /\ \/ Codex /\ ServerEnds
     \/ Codex /\ \E g \in Servers : WorkerDies(Pusher(g)) \/ WorkerDies(Health(g))
     \/ Codex /\ DaemonDies /\ UNCHANGED <<world, cache, told>>
     \/ Claude /\ (\E q \in Children : ChildDies(q)) /\ UNCHANGED <<memory, round>>
  /\ UNCHANGED study

DisplayChanges ==
  /\ \/ May("power") /\ \E d \in Devices : Switch(d)
     \/ May("dhcp") /\ \E d \in Devices, h \in Hosts : Move(d, h)
     \/ May("reboot") /\ \E d \in Devices : Reboot(d, slot[d])
     \/ May("reset") /\ \E d \in Devices, o \in {"none", "other"} : Reboot(d, o)
  /\ UNCHANGED <<memory, round, study>>

Next ==
  \/ UsageChanges \/ Serves \/ Polls
  \/ \E q \in Procs : Draws(q) \/ Child(q)
  \/ \E g \in Servers : Pushes(g) \/ Checks(g)
  \/ \E d \in Devices : Cools(d)
  \/ LosesAnswer \/ MissesDisplay \/ ProcessDies \/ DisplayChanges

\* asyncio runs every coroutine that is ready, the timers of the polls and of the
\* probes expire, the cooldown of each display passes.  The children of the status
\* line owe nothing.
Fairness ==
  /\ WF_vars(Serves) /\ WF_vars(Polls)
  /\ \A g \in Servers : WF_vars(Pushes(g)) /\ WF_vars(Checks(g))
  /\ \A d \in Devices : WF_vars(Cools(d))

Spec == HostsInit /\ [][Next]_vars /\ Fairness

-----------------------------------------------------------------------------
(* Properties.                                                             *)

Reachable(d) == d \in DOMAIN paired /\ up[d]

\* Of the push to a display that was recorded last it was the display itself that
\* answered, if anybody did, and it has not restarted since.
Attested(d) == told[d] # 0

\* When the status says ok of a paired display, the display holds what the push that
\* was recorded last was to bring, or something newer, if that push is attested: a
\* failed delivery is not painted over by a healthy probe, by the forgetting of a
\* process, or by the pushes of other displays.  It does not speak of a display for
\* which another answered at a shared address, which may be marked ok and hold
\* nothing once the addresses are parted; nor of the push that was sent last, which
\* an older one may be recorded after.  (_push_to_devices, _do_fanout,
\* _mark_health_ok; compute_aggregate_ok makes the glyph of these files.)
OkIsDelivered ==
  \A d \in DOMAIN paired : outcome[d] = "ok" /\ Attested(d) => store[d] >= told[d]

\* Once nothing happens to the LAN and the usage any more, every paired display
\* that can be reached ends up with the usage as it is, and keeps it: whatever was
\* dropped from the queue, lost, overtaken or forgotten in a crash is pushed again
\* by the poll or by the health loop.
Delivered ==
  Codex => <>[](\A d \in Devices : Reachable(d) => store[d] = usage)

\* The red of a display that can be reached and has an address of its own does not
\* last, unless a push to it failed: the health loop clears what its probes wrote.
RedHeals ==
  Codex => <>[](\A d \in Devices :
     Reachable(d) /\ d \notin Sharing(paired) => outcome[d] = "ok" \/ d \in failing)
=============================================================================
