---------------------------- MODULE CodexDaemon -----------------------------
(***************************************************************************)
(* The Codex daemon (codex_daemon.py): it hears of the usage from the app  *)
(* server, by notification or by asking once a minute, pushes what is new, *)
(* and asks the displays every half minute what they hold.                 *)
(*                                                                         *)
(* asyncio runs one coroutine at a time and no step spans an await, so     *)
(* what a step reads is current when it acts.  Worker <<k, g>> belongs to  *)
(* the g-th app server: gather does not cancel the workers of a server     *)
(* that has ended, and they go on beside those of the next.                *)
(***************************************************************************)
EXTENDS Fanout, Sequences

CONSTANTS
  QueueMax,   \* SNAPSHOT_QUEUE_MAX
  Threshold,  \* HEALTH_FAILURE_THRESHOLD
  MaxServers  \* bound: app servers in the life of one daemon

Servers == 1..MaxServers
Pusher(g) == <<"pusher", g>>
Health(g) == <<"health", g>>

ASSUME DaemonAssumption ==
  /\ QueueMax \in Nat \ {0} /\ Threshold \in Nat /\ MaxServers \in Nat
  /\ \A g \in Servers : {Pusher(g), Health(g)} \subseteq Procs

VARIABLES
  queue,    \* _snapshot_queue
  pushed,   \* _last_pushed_snapshot, or 0
  failing,  \* devices with a count in _push_failures
  missed,   \* _health_failures
  server,   \* is there an app server, and how many have been bootstrapped
  dead,     \* workers that ended with an exception
  round     \* of each health loop: where it is in its round

memory == <<queue, pushed, failing, missed, server, dead>>

\* A round: the devices and hosts it has read, those still to be asked, the one
\* being asked and the answer, and what it has sorted them into.
Silence == <<"none">>
Bodies == {Silence, <<"auth">>} \cup {"body"} \X Devices \X Snaps
Rounds == [pc : {"asleep", "probe", "browse", "relocate", "verify", "share", "split",
                 "repush"},
           list : Maps, todo : SUBSET Devices, of : SUBSET Devices, body : Bodies,
           diverged : SUBSET Devices, failed : SUBSET Devices, rebind : SUBSET Devices,
           sought : SUBSET Devices]
Asleep == [pc |-> "asleep", list |-> Nowhere, todo |-> {}, of |-> {}, body |-> Silence,
           diverged |-> {}, failed |-> {}, rebind |-> {}, sought |-> {}]

DaemonTypeOK ==
  /\ queue \in UNION {[1..n -> Snaps] : n \in 0..QueueMax}
  /\ pushed \in Snaps
  /\ failing \subseteq Devices
  /\ missed \in [Devices -> 0..Threshold]
  /\ server \in [up : BOOLEAN, count : 0..MaxServers]
  /\ dead \subseteq Procs
  /\ round \in [Servers -> Rounds]
  /\ \A g \in Servers : round[g].diverged \cup round[g].rebind \subseteq DOMAIN round[g].list

DaemonInit ==
  /\ queue = << >> /\ pushed = 0 /\ failing = {} /\ missed = [d \in Devices |-> 0]
  /\ server = [up |-> FALSE, count |-> 0] /\ dead = {}
  /\ round = [g \in Servers |-> Asleep]

Works(w) == w[2] <= server.count /\ w \notin dead

-----------------------------------------------------------------------------
(* What the app server says.                                               *)

\* Mutant of Enqueue: nothing makes room.
EnqueueUnbounded(s) == queue' = Append(queue, s)

\* _enqueue_bounded: the oldest makes room.
Enqueue(s) ==
  queue' = Append(IF Len(queue) = QueueMax THEN Tail(queue) ELSE queue, s)

\* The usage changes; with a notification, if this app server sees it.
Change(notified) ==
  /\ usage < MaxUsage
  /\ usage' = usage + 1
  /\ notified => server.up
  /\ IF notified THEN Enqueue(usage') ELSE UNCHANGED queue
  /\ UNCHANGED <<store, slot, up, addr, cache, call, told, pushed, failing, missed,
                 server, dead, round>>

Bootstrap ==
  /\ ~server.up /\ server.count < MaxServers
  /\ server' = [up |-> TRUE, count |-> server.count + 1]
  /\ Enqueue(usage)
  /\ UNCHANGED <<world, cache, call, told, pushed, failing, missed, dead, round>>

\* _reader_loop meets the end of the stream.
ServerEnds ==
  /\ server.up /\ server.count < MaxServers
  /\ server' = [server EXCEPT !.up = FALSE]
  /\ UNCHANGED <<world, cache, call, told, queue, pushed, failing, missed, dead, round>>

\* _poll_loop
Poll ==
  /\ server.up
  /\ usage # pushed
  /\ Enqueue(usage)
  /\ UNCHANGED <<world, cache, call, told, pushed, failing, missed, server, dead, round>>

-----------------------------------------------------------------------------
(* _pusher_loop and _push_to_devices.                                      *)

Take(g) ==
  /\ Works(Pusher(g)) /\ call[Pusher(g)].pc = "idle"
  /\ queue # << >>
  /\ Start(Pusher(g), Head(queue))
  /\ queue' = Tail(queue)
  /\ UNCHANGED <<world, cache, told, pushed, failing, missed, server, dead, round>>

\* The awaits of a call.
CallStep(w) ==
  /\ \/ \E d \in Devices : Claim(w, d, FALSE) \/ Send(w, d, FALSE) \/ Retry(w, d, FALSE)
     \/ Find(w, Visible) \/ Browse(w, Visible) \/ Split(w, Visible)
     \/ Claimed(w) \/ Refresh(w) \/ Settle(w)
  /\ UNCHANGED <<memory, round>>

\* _push_to_devices, its last part, which has no await.  The status is written
\* before the pairing is looked at.
Record(w) ==
  /\ Book(w, DOMAIN call[w].res, [d \in Devices |-> "failed"])
  /\ failing' = (failing \ (Good(w) \cup Evicted(w)))
                \cup (DOMAIN call[w].res \ (Good(w) \cup Evicted(w)))
  /\ missed' = [d \in Devices |-> IF d \in Good(w) \cup Evicted(w) THEN 0 ELSE missed[d]]
  /\ pushed' = IF Good(w) # {} THEN call[w].snap ELSE pushed
  /\ UNCHANGED <<queue, server, dead, round>>

\* A browse that fails outside of a try ends the worker, and with it gather: the
\* app server is replaced, and so is the worker.
WorkerDies(w) ==
  /\ call[w].pc \in {"find", "browse"}
  /\ server.count < MaxServers
  /\ call' = [call EXCEPT ![w] = Idle]
  /\ dead' = dead \cup {w}
  /\ server' = IF w[2] = server.count THEN [server EXCEPT !.up = FALSE] ELSE server
  /\ UNCHANGED <<world, cache, told, queue, pushed, failing, missed, round>>

-----------------------------------------------------------------------------
(* _health_loop.                                                           *)

Awake(g) == Works(Health(g)) /\ call[Health(g)].pc = "idle"

Wake(g) ==
  /\ Awake(g) /\ round[g].pc = "asleep"
  /\ DOMAIN paired # {}
  /\ round' = [round EXCEPT ![g] = [Asleep EXCEPT !.pc = "probe", !.list = paired,
                                                  !.todo = DOMAIN paired]]
  /\ UNCHANGED <<world, cache, call, told, memory>>

\* What GET /health at h brings: nothing, 401, or who answers and what it holds.
Body(h, lost) ==
  IF lost THEN {Silence}
  ELSE IF At(h) = {} THEN {Silence}
  ELSE {IF slot[e] = "us" THEN <<"body", e, store[e]>> ELSE <<"auth">> : e \in At(h)}

\* GET /health to d; the devices in rest are still to be asked.
Asks(g, d, rest, lost) ==
  /\ round[g].of = {}
  /\ \E b \in Body(round[g].list[d], lost) :
       round' = [round EXCEPT ![g].todo = rest, ![g].of = {d}, ![g].body = b]

\* In the order of the list.
Probe(g, d, lost) ==
  /\ Awake(g) /\ round[g].pc = "probe"
  /\ d \in round[g].todo /\ \A e \in round[g].todo : d <= e
  /\ Asks(g, d, round[g].todo \ {d}, lost)
  /\ UNCHANGED <<world, cache, call, told, memory>>

\* write_push_state
Write(d, ok) == outcome' = [outcome EXCEPT ![d] = IF ok THEN "ok" ELSE "failed"]

\* Mutant of MarkOk: a push that has failed is not asked about.
MarkOkReached(d, e, v) ==
  /\ missed' = [missed EXCEPT ![d] = 0]
  /\ IF pushed # 0 /\ v = pushed
     THEN /\ Write(d, TRUE)
          /\ told' = IF e = d THEN told ELSE [told EXCEPT ![d] = 0]
     ELSE UNCHANGED <<outcome, told>>

\* Mutant of MarkOk: only a red that came of misses is cleared.
MarkOkMissed(d, e, v) ==
  /\ missed' = [missed EXCEPT ![d] = 0]
  /\ IF pushed # 0 /\ v = pushed /\ d \notin failing /\ missed[d] > 0
     THEN /\ Write(d, TRUE)
          /\ told' = IF e = d THEN told ELSE [told EXCEPT ![d] = 0]
     ELSE UNCHANGED <<outcome, told>>

\* _mark_health_ok: d answered, it seems, and holds v.  A green that rests on what
\* another display said is no promise about d.
MarkOk(d, e, v) ==
  /\ missed' = [missed EXCEPT ![d] = 0]
  /\ IF pushed # 0 /\ v = pushed /\ d \notin failing
     THEN /\ Write(d, TRUE)
          /\ told' = IF e = d THEN told ELSE [told EXCEPT ![d] = 0]
     ELSE UNCHANGED <<outcome, told>>

\* Mutant of Diverged: a display that holds nothing does not differ.
DivergedHeld(d, v) == IF pushed # 0 /\ v # 0 /\ v # pushed THEN {d} ELSE {}

\* _firmware_diverged
Diverged(d, v) == IF pushed # 0 /\ v # pushed THEN {d} ELSE {}

\* _record_health_failure
Missed(S) ==
  LET count == [d \in Devices |-> IF d \in S /\ missed[d] < Threshold THEN missed[d] + 1
                                                                      ELSE missed[d]]
  IN  /\ missed' = count
      /\ outcome' = [d \in Devices |-> IF d \in S /\ count[d] = Threshold THEN "failed"
                                                                         ELSE outcome[d]]

\* The answer is weighed, after the await.
Weigh(g, d) ==
  LET b == round[g].body IN
  /\ round[g].pc = "probe" /\ round[g].of = {d}
  /\ \/ /\ b = Silence
        /\ round' = [round EXCEPT ![g].of = {}, ![g].body = Silence, ![g].failed = @ \cup {d}]
        /\ UNCHANGED <<outcome, missed, told>>
     \/ /\ b[1] = "auth"
        /\ round' = [round EXCEPT ![g].of = {}, ![g].body = Silence, ![g].rebind = @ \cup {d}]
        /\ Write(d, FALSE)
        /\ UNCHANGED <<missed, told>>
     \/ /\ b[1] = "body" /\ b[2] # d
        /\ round' = [round EXCEPT ![g].of = {}, ![g].body = Silence, ![g].failed = @ \cup {d}]
        /\ Write(d, FALSE)
        /\ UNCHANGED <<missed, told>>
     \/ /\ b[1] = "body" /\ b[2] = d
        /\ MarkOk(d, d, b[3])
        /\ round' = [round EXCEPT ![g].of = {}, ![g].body = Silence,
                                  ![g].diverged = @ \cup Diverged(d, b[3])]
  /\ UNCHANGED <<world, paired, cool, call, queue, pushed, failing, server, dead>>

-----------------------------------------------------------------------------
(* _reconcile_health_failures.                                             *)

Probed(g) == round[g].pc = "probe" /\ round[g].todo = {} /\ round[g].of = {}

Reconcile(g) ==
  LET failed == round[g].failed IN
  /\ Awake(g) /\ Probed(g) /\ failed # {}
  /\ cool' = cool \cup failed
  /\ IF Eligible(failed) = {}
     THEN /\ Missed(failed)
          /\ round' = [round EXCEPT ![g].pc = "relocate"]
     ELSE /\ round' = [round EXCEPT ![g].pc = "browse", ![g].sought = Eligible(failed)]
          /\ UNCHANGED <<outcome, missed>>
  /\ UNCHANGED <<world, paired, call, told, queue, pushed, failing, server, dead>>

\* The browse tells who is elsewhere; one that fails has seen nobody.
Relocate(g, found) ==
  LET elsewhere == {d \in round[g].sought \cap DOMAIN found :
                      found[d] # round[g].list[d]}
  IN
  /\ round[g].pc = "browse"
  /\ round' = [round EXCEPT ![g].pc = "relocate", ![g].todo = round[g].failed,
                            ![g].sought = elsewhere, ![g].list = Moved(@, found, elsewhere)]
  /\ UNCHANGED <<world, cache, call, told, memory>>

\* Those seen elsewhere are asked there, one after the other, unless they were
\* removed by then; the others have missed.
Askable(g) == round[g].todo \cap round[g].sought \cap DOMAIN paired

ProbeAgain(g, d, lost) ==
  LET before == {e \in round[g].todo : e < d} IN
  /\ round[g].pc = "relocate"
  /\ d \in Askable(g) /\ \A e \in Askable(g) : d <= e
  /\ Asks(g, d, round[g].todo \ (before \cup {d}), lost)
  /\ Missed(before \ round[g].sought)
  /\ paired' = [paired EXCEPT ![d] = round[g].list[d]]
  /\ UNCHANGED <<world, cool, call, told, queue, pushed, failing, server, dead>>

NoneAgain(g) ==
  /\ round[g].pc = "relocate" /\ round[g].of = {}
  /\ round[g].todo # {} /\ Askable(g) = {}
  /\ Missed(round[g].todo \ round[g].sought)
  /\ round' = [round EXCEPT ![g].todo = {}]
  /\ UNCHANGED <<world, paired, cool, call, told, queue, pushed, failing, server, dead>>

\* Nobody asks here who answered.
WeighAgain(g, d) ==
  LET b == round[g].body IN
  /\ round[g].pc = "relocate" /\ round[g].of = {d}
  /\ \/ /\ b = Silence /\ Missed({d})
        /\ round' = [round EXCEPT ![g].of = {}, ![g].body = Silence]
        /\ UNCHANGED told
     \/ /\ b[1] = "auth" /\ Write(d, FALSE)
        /\ round' = [round EXCEPT ![g].of = {}, ![g].body = Silence]
        /\ UNCHANGED <<missed, told>>
     \/ /\ b[1] = "body"
        /\ MarkOk(d, b[2], b[3])
        /\ round' = [round EXCEPT ![g].of = {}, ![g].body = Silence,
                                  ![g].diverged = @ \cup Diverged(d, b[3])]
  /\ UNCHANGED <<world, paired, cool, call, queue, pushed, failing, server, dead>>

-----------------------------------------------------------------------------
(* _verify_rebind_hosts, the check for shared hosts, and the targeted push. *)

Reconciled(g) ==
  \/ Probed(g) /\ round[g].failed = {}
  \/ round[g].pc = "relocate" /\ round[g].todo = {} /\ round[g].of = {}

\* A display that has lost its slot is claimed again, where mDNS sees it.
Verify(g) ==
  LET wanted == IF pushed = 0 THEN {} ELSE round[g].rebind IN
  /\ Awake(g) /\ Reconciled(g)
  /\ cool' = cool \cup wanted
  /\ round' = [round EXCEPT ![g].pc = IF Eligible(wanted) = {} THEN "share" ELSE "verify",
                            ![g].sought = Eligible(wanted)]
  /\ UNCHANGED <<world, paired, outcome, call, told, memory>>

Rebind(g, found) ==
  LET seen  == {d \in round[g].sought \cap DOMAIN found :
                  found[d] # round[g].list[d] => d \in DOMAIN paired}
      moved == {d \in seen : found[d] # round[g].list[d]}
  IN
  /\ round[g].pc = "verify"
  /\ paired' = Moved(paired, found, moved)
  /\ round' = [round EXCEPT ![g].pc = "share", ![g].diverged = @ \cup seen,
                            ![g].list = Moved(@, found, moved)]
  /\ UNCHANGED <<world, outcome, cool, call, told, memory>>

Doubt(S) == outcome' = [d \in Devices |-> IF d \in S THEN "failed" ELSE outcome[d]]

Share(g) ==
  LET sharing == Sharing(paired) IN
  /\ round[g].pc = "share"
  /\ cool' = cool \cup sharing
  /\ IF Eligible(sharing) = {}
     THEN Doubt(sharing) /\ round' = [round EXCEPT ![g].pc = "repush"]
     ELSE /\ round' = [round EXCEPT ![g].pc = "split", ![g].sought = Eligible(sharing),
                                    ![g].failed = sharing]
          /\ UNCHANGED outcome
  /\ UNCHANGED <<world, paired, call, told, memory>>

Part(g, found) ==
  /\ round[g].pc = "split"
  /\ paired' = Moved(paired, found, round[g].sought)
  /\ Doubt(Sharing(paired'))
  /\ round' = [round EXCEPT ![g].pc = "repush"]
  /\ UNCHANGED <<world, cool, call, told, memory>>
PartFails(g) ==
  /\ round[g].pc = "split"
  /\ Doubt(round[g].failed)
  /\ round' = [round EXCEPT ![g].pc = "repush"]
  /\ UNCHANGED <<world, paired, cool, call, told, memory>>

\* What some display took last is pushed to those that need it.
Repush(g) ==
  LET need == round[g].diverged IN
  /\ round[g].pc = "repush"
  /\ IF need # {} /\ pushed # 0
     THEN Calling(Health(g), pushed, [d \in need |-> round[g].list[d]])
     ELSE UNCHANGED call
  /\ round' = [round EXCEPT ![g] = Asleep]
  /\ UNCHANGED <<world, cache, told, memory>>

HealthStep(g) ==
  \/ Wake(g) \/ Reconcile(g) \/ NoneAgain(g) \/ Verify(g) \/ Share(g) \/ Repush(g)
  \/ \E d \in Devices : \/ Probe(g, d, FALSE) \/ Weigh(g, d)
                        \/ ProbeAgain(g, d, FALSE) \/ WeighAgain(g, d)
  \/ Relocate(g, Visible) \/ Rebind(g, Visible) \/ Part(g, Visible)

-----------------------------------------------------------------------------
\* The daemon is killed; its supervisor starts another.
DaemonDies ==
  /\ server.count > 0
  /\ queue' = << >> /\ pushed' = 0 /\ failing' = {} /\ missed' = [d \in Devices |-> 0]
  /\ server' = [up |-> FALSE, count |-> 0] /\ dead' = {}
  /\ round' = [g \in Servers |-> Asleep]
  /\ call' = [q \in Procs |-> Idle]
=============================================================================
