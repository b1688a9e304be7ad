----------------------------- MODULE HostCache ------------------------------
(***************************************************************************)
(* The files an agent's processes share on the host (host_cache.py): the   *)
(* list of paired devices, the outcome of the last push to each device and *)
(* the mDNS reconcile cooldown.  The processes are the push children of    *)
(* successive status lines, the Codex daemon and the burnscope command;    *)
(* any of them may call any operation at any moment and may be killed at   *)
(* any point of it.                                                        *)
(*                                                                         *)
(* Each read, replacement or removal of a file is a step: _atomic_write    *)
(* makes a replacement all or nothing.  Some operations hold the agent's   *)
(* flock from the first step to the last, others take no lock.  An absent  *)
(* file reads as the empty list, and None is what is not in the list.      *)
(***************************************************************************)
EXTENDS Integers

CONSTANTS
  Procs,     \* processes of one agent
  Devices,   \* device ids
  Hosts,     \* addresses
  None,
  Cooldown,  \* RECONCILE_COOLDOWN_DEFAULT_S, or its override (0: none)
  Menus,     \* bound: sets of operations called in the same behaviour
  MaxFails,  \* bound: no bump starts once a count has reached it
  MaxClock   \* bound: the latest moment

\* Operations on the list, all that lock, all.
ListOps == {"add", "update", "remove"}
LockedOps == ListOps \cup {"bump", "claim"}
Ops == LockedOps \cup {"record", "clear"}

\* What is recorded of a push: its success, and the failures since the last one.
Outcomes == [ok : BOOLEAN, fails : Nat]

ASSUME HostCacheAssumption ==
  /\ None \notin Procs \cup Devices \cup Hosts \cup Nat \cup Outcomes
  /\ Cooldown \in Nat
  /\ Menus \subseteq SUBSET Ops
  /\ MaxFails \in Nat
  /\ MaxClock \in Nat

VARIABLES
  menu,     \* the operations called in this behaviour
  paired,   \* paired-devices.<agent>.json
  push,     \* last-push.<agent>.<device>: ok and consecutive_failures
  stamp,    \* mdns-reconcile.<agent>.json: when a device was last claimed
  lock,     \* holder of paired-devices.<agent>.lock
  call,     \* call[p]: the operation process p is in, with its arguments
  at,       \* at[p]: its next step
  read,     \* read[p]: what it has read of the file it will replace
  clock,    \* time.time()
  overtaken,\* history: processes whose list was cleared after they read it
  failed,   \* history: failures written since the last other outcome
  won       \* history: when a device was last granted since the last reset

files == <<paired, push, stamp>>
history == <<overtaken, failed, won>>
vars == <<menu, paired, push, stamp, lock, call, at, read, clock, overtaken, failed, won>>

Lists == [Devices -> Hosts \cup {None}]
Stamps == [Devices -> Nat \cup {None}]

Stages == {"idle", "lock", "load", "save", "unlink", "glob", "files", "stamps"}

\* Arguments: a device and its host, the devices asked for (of a clear: the
\* files it has listed), the moment of a claim, the outcome to be recorded.
Calls == [op : Ops \cup {"none"}, dev : Devices \cup {None}, host : Hosts \cup {None},
          want : SUBSET Devices, now : Nat, ok : BOOLEAN]
NoCall == [op |-> "none", dev |-> None, host |-> None, want |-> {},
           now |-> 0, ok |-> FALSE]

NoList == [d \in Devices |-> None]
NoFails == [d \in Devices |-> 0]

Init ==
  /\ menu \in Menus
  /\ paired \in Lists
  /\ push = NoList
  /\ stamp = NoList
  /\ lock = None
  /\ call = [p \in Procs |-> NoCall]
  /\ at = [p \in Procs |-> "idle"]
  /\ read = [p \in Procs |-> None]
  /\ clock = 0
  /\ overtaken = {}
  /\ failed = NoFails
  /\ won = NoList

(***************************************************************************)
(* Calls and returns.                                                      *)
(***************************************************************************)
Begin(p, c, first) ==
  /\ at[p] = "idle"
  /\ c.op \in menu
  /\ call' = [call EXCEPT ![p] = c]
  /\ at' = [at EXCEPT ![p] = first]
  /\ UNCHANGED <<files, lock, read, clock, history>>

Add(p, d, h) ==
  Begin(p, [NoCall EXCEPT !.op = "add", !.dev = d, !.host = h], "lock")

\* Mutant of Update: the lock is forgotten.
UpdateUnlocked(p, d, h) ==
  Begin(p, [NoCall EXCEPT !.op = "update", !.dev = d, !.host = h], "load")

Update(p, d, h) ==
  Begin(p, [NoCall EXCEPT !.op = "update", !.dev = d, !.host = h], "lock")

Remove(p, d) == Begin(p, [NoCall EXCEPT !.op = "remove", !.dev = d], "lock")

Fails(d) == IF push[d] = None THEN 0 ELSE push[d].fails

\* Mutant of Bump: the lock is forgotten.
BumpUnlocked(p, d) ==
  /\ Fails(d) < MaxFails
  /\ Begin(p, [NoCall EXCEPT !.op = "bump", !.dev = d], "load")

Bump(p, d) ==
  /\ Fails(d) < MaxFails
  /\ \A q \in Procs : call[q].op = "bump" /\ at[q] = "save" => read[q] < MaxFails
  /\ Begin(p, [NoCall EXCEPT !.op = "bump", !.dev = d], "lock")

\* Mutant of Claim: the lock is forgotten.
ClaimUnlocked(p, D) ==
  /\ D # {}
  /\ Begin(p, [NoCall EXCEPT !.op = "claim", !.want = D, !.now = clock], "load")

\* time.time() is read before the lock is asked for.
Claim(p, D) ==
  /\ D # {}
  /\ Begin(p, [NoCall EXCEPT !.op = "claim", !.want = D, !.now = clock], "lock")

\* write_push_state and reset_push_failures take no lock.
Record(p, d, ok) ==
  Begin(p, [NoCall EXCEPT !.op = "record", !.dev = d, !.ok = ok], "save")

\* Nor does pair-reset.
Clear(p) == Begin(p, [NoCall EXCEPT !.op = "clear"], "save")

Acquire(p) ==
  /\ at[p] = "lock"
  /\ lock = None
  /\ lock' = p
  /\ at' = [at EXCEPT ![p] = "load"]
  /\ UNCHANGED <<files, call, read, clock, history>>

\* p is done: its flock, if it holds it, is released, and the call forgotten.
Return(p) ==
  /\ lock' = IF lock = p THEN None ELSE lock
  /\ call' = [call EXCEPT ![p] = NoCall]
  /\ at' = [at EXCEPT ![p] = "idle"]
  /\ read' = [read EXCEPT ![p] = None]

\* p keeps what it has read and goes on to its next step.
Keep(p, content, next) ==
  /\ read' = [read EXCEPT ![p] = content]
  /\ at' = [at EXCEPT ![p] = next]
  /\ UNCHANGED <<lock, call>>

(***************************************************************************)
(* The list of paired devices.                                             *)
(***************************************************************************)
\* Mutant of NothingToDo: an update inserts a device that is gone.
NothingToDoInserts(c, list) ==
  \/ c.op = "update" /\ list[c.dev] = c.host
  \/ c.op = "remove" /\ list[c.dev] = None

\* Nothing to write: an update of a device that is gone or has the host
\* already, a removal of a device that is gone.
NothingToDo(c, list) ==
  \/ c.op = "update" /\ list[c.dev] \in {None, c.host}
  \/ c.op = "remove" /\ list[c.dev] = None

LoadList(p) ==
  /\ at[p] = "load"
  /\ call[p].op \in ListOps
  /\ IF NothingToDo(call[p], paired) THEN Return(p) ELSE Keep(p, paired, "save")
  /\ UNCHANGED <<files, clock, history>>

\* Mutant of Edited: the file holds nothing but the edited entry.
EditedAlone(p) == [d \in {call[p].dev} |-> call[p].host]

\* The list to be written: of a removal, host is None.
Edited(p) == [read[p] EXCEPT ![call[p].dev] = call[p].host]

SaveList(p) ==
  /\ at[p] = "save"
  /\ call[p].op \in ListOps
  /\ paired' = Edited(p)
  /\ overtaken' = overtaken \ {p}
  /\ IF call[p].op = "remove" THEN Keep(p, None, "unlink") ELSE Return(p)
  /\ UNCHANGED <<push, stamp, clock, failed, won>>

\* A removal deletes the outcome file before it lets go of the lock.
Unlink(p) ==
  /\ at[p] = "unlink"
  /\ push' = [push EXCEPT ![call[p].dev] = None]
  /\ failed' = [failed EXCEPT ![call[p].dev] = 0]
  /\ Return(p)
  /\ UNCHANGED <<paired, stamp, clock, overtaken, won>>

(***************************************************************************)
(* The outcome of the last push.                                           *)
(***************************************************************************)
LoadFails(p) ==
  /\ at[p] = "load"
  /\ call[p].op = "bump"
  /\ Keep(p, Fails(call[p].dev), "save")
  /\ UNCHANGED <<files, clock, history>>

SaveFails(p) ==
  /\ at[p] = "save"
  /\ call[p].op = "bump"
  /\ push' = [push EXCEPT ![call[p].dev] = [ok |-> FALSE, fails |-> read[p] + 1]]
  /\ failed' = [failed EXCEPT ![call[p].dev] = @ + 1]
  /\ Return(p)
  /\ UNCHANGED <<paired, stamp, clock, overtaken, won>>

SaveOutcome(p) ==
  /\ at[p] = "save"
  /\ call[p].op = "record"
  /\ push' = [push EXCEPT ![call[p].dev] = [ok |-> call[p].ok, fails |-> 0]]
  /\ failed' = [failed EXCEPT ![call[p].dev] = 0]
  /\ Return(p)
  /\ UNCHANGED <<paired, stamp, clock, overtaken, won>>

(***************************************************************************)
(* The reconcile cooldown.                                                 *)
(***************************************************************************)
\* Those of D whose cooldown is over at `now`, by the stamps in s.
Eligible(D, now, s) == {d \in D : s[d] = None \/ now - s[d] >= Cooldown}

LoadStamps(p) ==
  /\ at[p] = "load"
  /\ call[p].op = "claim"
  /\ IF Eligible(call[p].want, call[p].now, stamp) = {}
       THEN Return(p)
       ELSE Keep(p, stamp, "save")
  /\ UNCHANGED <<files, clock, history>>

SaveStamps(p) ==
  LET granted == Eligible(call[p].want, call[p].now, read[p])
      Stamped(s) == [d \in Devices |-> IF d \in granted THEN call[p].now ELSE s[d]]
  IN  /\ at[p] = "save"
      /\ call[p].op = "claim"
      /\ stamp' = Stamped(read[p])
      /\ won' = Stamped(won)
      /\ Return(p)
      /\ UNCHANGED <<paired, push, clock, overtaken, failed>>

(***************************************************************************)
(* pair-reset, a step per file.  The client id it also removes is not      *)
(* modelled.                                                               *)
(***************************************************************************)
ClearList(p) ==
  /\ at[p] = "save"
  /\ call[p].op = "clear"
  /\ paired' = NoList
  /\ overtaken' = overtaken \cup {q \in Procs : at[q] = "save" /\ call[q].op \in ListOps}
  /\ at' = [at EXCEPT ![p] = "glob"]
  /\ UNCHANGED <<push, stamp, lock, call, read, clock, failed, won>>

ClearGlob(p) ==
  /\ at[p] = "glob"
  /\ call' = [call EXCEPT ![p].want = {d \in Devices : push[d] # None}]
  /\ at' = [at EXCEPT ![p] = "files"]
  /\ UNCHANGED <<files, lock, read, clock, history>>

ClearFile(p, d) ==
  /\ at[p] = "files"
  /\ d \in call[p].want
  /\ push' = [push EXCEPT ![d] = None]
  /\ failed' = [failed EXCEPT ![d] = 0]
  /\ call' = [call EXCEPT ![p].want = @ \ {d}]
  /\ UNCHANGED <<paired, stamp, lock, at, read, clock, overtaken, won>>

ClearStamps(p) ==
  /\ at[p] = "files"
  /\ call[p].want = {}
  /\ stamp' = NoList
  /\ won' = NoList
  /\ Return(p)
  /\ UNCHANGED <<paired, push, clock, overtaken, failed>>

(***************************************************************************)
(* The whole.                                                              *)
(***************************************************************************)
\* Mutant of Crash: the lock outlives its holder, as a lock file would.
CrashKeepsLock(p) ==
  /\ at[p] # "idle"
  /\ call' = [call EXCEPT ![p] = NoCall]
  /\ at' = [at EXCEPT ![p] = "idle"]
  /\ read' = [read EXCEPT ![p] = None]
  /\ overtaken' = overtaken \ {p}
  /\ UNCHANGED <<files, lock, clock, failed, won>>

\* A process dies (killed, or a write failed and the exception ends it): the
\* kernel releases its flock, the files stay as they are.
Crash(p) ==
  /\ at[p] # "idle"
  /\ overtaken' = overtaken \ {p}
  /\ Return(p)
  /\ UNCHANGED <<files, clock, failed, won>>

\* Only claims look at the clock.
Tick ==
  /\ "claim" \in menu
  /\ clock < MaxClock
  /\ clock' = clock + 1
  /\ UNCHANGED <<files, lock, call, at, read, history>>

Start(p) ==
  \/ \E d \in Devices, h \in Hosts : Add(p, d, h) \/ Update(p, d, h)
  \/ \E d \in Devices : Remove(p, d) \/ Bump(p, d)
  \/ \E d \in Devices, ok \in BOOLEAN : Record(p, d, ok)
  \/ \E D \in SUBSET Devices : Claim(p, D)
  \/ Clear(p)

Step(p) ==
  \/ LoadList(p) \/ SaveList(p) \/ Unlink(p)
  \/ LoadFails(p) \/ SaveFails(p) \/ SaveOutcome(p)
  \/ LoadStamps(p) \/ SaveStamps(p)
  \/ ClearList(p) \/ ClearGlob(p) \/ ClearStamps(p)
  \/ \E d \in Devices : ClearFile(p, d)

Next ==
  /\ Tick \/ \E p \in Procs : Start(p) \/ Acquire(p) \/ Step(p) \/ Crash(p)
  /\ UNCHANGED menu

\* A running process goes on; flock wakes those who wait for it in their turn.
Fairness == \A p \in Procs : /\ WF_vars(Step(p) /\ UNCHANGED menu)
                              /\ SF_vars(Acquire(p) /\ UNCHANGED menu)

Spec == Init /\ [][Next]_vars
FairSpec == Spec /\ Fairness

(***************************************************************************)
(* Properties.                                                             *)
(***************************************************************************)
SavesList(p) == at[p] = "save" /\ call[p].op \in ListOps

\* What p has read is what the operation it is in reads.
ReadOK(p) ==
  /\ SavesList(p) => read[p] \in Lists
  /\ at[p] = "save" /\ call[p].op = "bump" => read[p] \in Nat
  /\ at[p] = "save" /\ call[p].op = "claim" => read[p] \in Stamps
  /\ at[p] # "save" \/ call[p].op \notin LockedOps => read[p] = None

\* The files hold what the code can write, and a process what it can have read.
TypeOK ==
  /\ menu \in Menus
  /\ paired \in Lists
  /\ push \in [Devices -> Outcomes \cup {None}]
  /\ stamp \in Stamps
  /\ lock \in Procs \cup {None}
  /\ call \in [Procs -> Calls]
  /\ at \in [Procs -> Stages]
  /\ read = [p \in Procs |-> read[p]]
  /\ \A p \in Procs : ReadOK(p)
  /\ clock \in Nat
  /\ overtaken \subseteq Procs
  /\ failed \in [Devices -> Nat]
  /\ won \in Stamps

Store == INSTANCE PairedStore

\* The list changes by whole operations only, whoever runs at the same time and
\* whoever is killed (host_cache.py:219-289: load, edit and save under the
\* flock), except that an edit which pair-reset has overtaken puts its own copy
\* in place of the cleared list.
KeepsPromise == [][Store!Next \/ \E p \in overtaken : SavesList(p)]_paired

Inserts(p, d) == SavesList(p) /\ call[p].op = "add" /\ call[p].dev = d

\* A device enters the list only by an add of that device: an update driven by
\* a stale browse never brings back what a 401 has removed, nor does an
\* operation on another device (host_cache.py:239-270); again pair-reset is
\* the exception.
OnlyAddsInsert ==
  [][\A d \in Devices : paired[d] = None /\ paired'[d] # None =>
       \E p \in Procs : Inserts(p, d) \/ (p \in overtaken /\ SavesList(p))]_paired

\* For updates without that exception, as update_paired_device_host has it: "a
\* stale browse that started before a concurrent removal cannot resurrect a
\* forgotten pairing", where the removal may be a pair-reset
\* (host_cache.py:243-249, pusher.py:156-159).
UpdatesNeverInsert ==
  [][\A d \in Devices : paired[d] = None /\ paired'[d] # None =>
       \A p \in Procs : SavesList(p) => call[p].op # "update"]_paired

\* Concurrent children never miss each other's failures (host_cache.py:430-458):
\* as long as no other outcome was written, all of them are counted.
NoFailureLost ==
  \A d \in Devices :
    failed[d] > 0 => push[d] # None /\ ~push[d].ok /\ push[d].fails >= failed[d]

\* Of the processes that ask for a device's reconcile slot within a cooldown,
\* one is granted it (host_cache.py:345-388): whoever is about to be granted
\* one is due, by the stamp of whoever was granted it last.
OneWinner ==
  \A p \in Procs : at[p] = "save" /\ call[p].op = "claim" =>
    \A d \in Eligible(call[p].want, call[p].now, read[p]) :
      won[d] = None \/ call[p].now - won[d] >= Cooldown

\* Every operation ends, also when a process dies with the lock
\* (host_cache.py:109-126).
CallsEnd == \A p \in Procs : at[p] # "idle" ~> at[p] = "idle"
=============================================================================
