-------------------------- MODULE HostCache_proofs --------------------------
(***************************************************************************)
(* The cache keeps its promises for any number of processes and devices,   *)
(* any cooldown, and whatever the processes do and whenever they die.      *)
(***************************************************************************)
EXTENDS HostCache, TLAPS

\* The arguments of a call are those of its operation.
Args(p) ==
  /\ call[p].op \in ListOps \cup {"bump", "record"} => call[p].dev \in Devices
  /\ call[p].op \in {"add", "update"} => call[p].host \in Hosts
  /\ call[p].op = "remove" => call[p].host = None

\* Who has read a file to replace it holds the lock, if its operation locks.
Holds(p) ==
  /\ at[p] \in {"lock", "load"} => call[p].op \in LockedOps
  /\ at[p] = "unlink" => call[p].op = "remove"
  /\ at[p] \in {"load", "save"} /\ call[p].op \in LockedOps => lock = p

\* What it has read is still what the file holds: of the list, unless it was
\* cleared; of the failures, at least those that count.
ListFresh(p) ==
  SavesList(p) =>
    /\ p \in overtaken \/ read[p] = paired
    /\ call[p].op = "update" => read[p][call[p].dev] # None

FailsFresh(p) ==
  at[p] = "save" /\ call[p].op = "bump" => read[p] >= failed[call[p].dev]

StampsFresh(p) ==
  at[p] = "save" /\ call[p].op = "claim" =>
    \A d \in Devices : won[d] = None \/ read[p][d] = won[d]

Sound(p) == Args(p) /\ Holds(p) /\ ListFresh(p) /\ FailsFresh(p) /\ StampsFresh(p)

\* A grant since the last reset is on file.
GrantsOnFile == \A d \in Devices : won[d] = None \/ stamp[d] = won[d]

IInv ==
  /\ TypeOK
  /\ \A p \in Procs : Sound(p)
  /\ NoFailureLost
  /\ GrantsOnFile

-----------------------------------------------------------------------------
\* A step of p leaves the other processes where they are.
Others(p) ==
  \A q \in Procs \ {p} :
    at'[q] = at[q] /\ call'[q] = call[q] /\ read'[q] = read[q]

LEMMA NoCallType == NoCall \in Calls
BY DEF NoCall, Calls

LEMMA NoneIsNew ==
  /\ None \notin Procs /\ None \notin Devices /\ None \notin Hosts
  /\ None \notin Nat /\ None \notin Outcomes
BY HostCacheAssumption

\* The locals of p after a return.
LEMMA ReturnStep ==
  ASSUME TypeOK, NEW p \in Procs, Return(p)
  PROVE  /\ at'[p] = "idle" /\ call'[p] = NoCall /\ read'[p] = None
         /\ call' \in [Procs -> Calls] /\ at' \in [Procs -> Stages]
         /\ read' = [q \in Procs |-> read'[q]]
         /\ lock' \in Procs \cup {None} /\ lock' \in {lock, None} /\ lock' # p
         /\ Others(p)
<1>1. "idle" \in Stages
  BY DEF Stages
<1> QED
  BY <1>1, NoCallType, NoneIsNew DEF TypeOK, Return, Others

LEMMA KeepStep ==
  ASSUME TypeOK, NEW p \in Procs, NEW content, NEW next \in Stages, Keep(p, content, next)
  PROVE  /\ at'[p] = next /\ read'[p] = content
         /\ at' \in [Procs -> Stages]
         /\ read' = [q \in Procs |-> read'[q]]
         /\ lock' = lock /\ call' = call
         /\ Others(p)
BY DEF TypeOK, Keep, Others

\* What holds of a process still holds after a step of another one, which
\* - takes the lock only when it is free and releases only its own,
\* - writes the list only with the lock in hand, or marks the readers,
\* - adds to failures and grants only with the lock in hand.
LEMMA OthersSound ==
  ASSUME IInv, NEW p \in Procs, NEW q \in Procs \ {p}, Others(p),
         lock' = lock \/ lock = None \/ lock = p,
         SavesList(q) => paired' = paired \/ lock = p \/ q \in overtaken',
         q \in overtaken => q \in overtaken',
         \A d \in Devices : failed'[d] = failed[d] \/ failed'[d] = 0 \/ lock = p,
         \A d \in Devices : won'[d] = won[d] \/ won'[d] = None \/ lock = p
  PROVE  Sound(q)'
<1>1. at'[q] = at[q] /\ call'[q] = call[q] /\ read'[q] = read[q]
  BY DEF Others
<1>2. Sound(q)
  BY DEF IInv
<1>3. Args(q)'
  BY <1>1, <1>2 DEF Sound, Args
<1>4. Holds(q)'
  BY <1>1, <1>2, NoneIsNew DEF Sound, Holds
<1>5. at[q] = "save" /\ call[q].op \in LockedOps => lock # p
  BY <1>2 DEF Sound, Holds
<1>6. ListFresh(q)'
  BY <1>1, <1>2, <1>5 DEF Sound, ListFresh, SavesList, LockedOps
<1>7. FailsFresh(q)'
  <2> SUFFICES ASSUME at[q] = "save", call[q].op = "bump"
               PROVE  read[q] >= failed'[call[q].dev]
    BY <1>1 DEF FailsFresh
  <2>1. lock # p /\ call[q].dev \in Devices
    BY <1>2, <1>5 DEF LockedOps, Sound, Args
  <2>2. read[q] \in Nat
    BY DEF IInv, TypeOK, ReadOK
  <2> QED
    BY <1>2, <2>1, <2>2 DEF Sound, FailsFresh
<1>8. StampsFresh(q)'
  BY <1>1, <1>2, <1>5 DEF Sound, StampsFresh, LockedOps
<1> QED
  BY <1>3, <1>4, <1>6, <1>7, <1>8 DEF Sound

\* After a return there is nothing left to be wrong about p itself.
LEMMA ReturnSound ==
  ASSUME TypeOK, NEW p \in Procs, Return(p)
  PROVE  ReadOK(p)' /\ Sound(p)'
<1>1. at'[p] = "idle" /\ call'[p] = NoCall /\ read'[p] = None
  BY ReturnStep
<1>2. NoCall.op = "none"
  BY DEF NoCall
<1>3. ReadOK(p)'
  BY <1>1 DEF ReadOK, SavesList
<1>4. Args(p)' /\ Holds(p)'
  BY <1>1, <1>2 DEF Args, Holds, ListOps
<1>5. ListFresh(p)' /\ FailsFresh(p)' /\ StampsFresh(p)'
  BY <1>1 DEF ListFresh, FailsFresh, StampsFresh, SavesList
<1> QED
  BY <1>3, <1>4, <1>5 DEF Sound

\* A step of p keeps what p and the other processes have read well-typed.
LEMMA ReadsOK ==
  ASSUME TypeOK, NEW p \in Procs, Others(p), ReadOK(p)'
  PROVE  (\A q \in Procs : ReadOK(q))'
<1> SUFFICES ASSUME NEW q \in Procs, q # p PROVE ReadOK(q)'
  OBVIOUS
<1> QED
  BY DEF Others, TypeOK, ReadOK, SavesList

\* A step of p that leaves the files alone.
LEMMA QuietStep ==
  ASSUME IInv, NEW p \in Procs, Others(p),
         UNCHANGED <<files, clock, failed, won, menu>>,
         overtaken' = overtaken \/ overtaken' = overtaken \ {p},
         lock' = lock \/ lock = None \/ lock = p, lock' \in Procs \cup {None},
         call' \in [Procs -> Calls], at' \in [Procs -> Stages],
         read' = [q \in Procs |-> read'[q]], ReadOK(p)', Sound(p)'
  PROVE  IInv'
<1>1. UNCHANGED <<paired, push, stamp, clock, failed, won, menu>>
  BY DEF files
<1>2. TypeOK'
  <2>1. (\A q \in Procs : ReadOK(q))'
    BY ReadsOK DEF IInv
  <2> QED
    BY <1>1, <2>1 DEF IInv, TypeOK
<1>3. (\A q \in Procs : Sound(q))'
  <2> SUFFICES ASSUME NEW q \in Procs, q # p PROVE Sound(q)'
    OBVIOUS
  <2> QED
    BY <1>1, OthersSound
<1>4. NoFailureLost' /\ GrantsOnFile'
  BY <1>1 DEF IInv, NoFailureLost, GrantsOnFile
<1> QED
  BY <1>2, <1>3, <1>4 DEF IInv

\* Any such step that ends in a return.
LEMMA QuietReturn ==
  ASSUME IInv, NEW p \in Procs, Return(p), UNCHANGED <<files, clock, failed, won, menu>>,
         overtaken' = overtaken \/ overtaken' = overtaken \ {p}
  PROVE  IInv'
<1>1. lock' = lock \/ lock = p
  BY DEF Return
<1> QED
  BY <1>1, ReturnStep, ReturnSound, QuietStep DEF IInv

\* The beginning of a call.
LEMMA BeginIInv ==
  ASSUME IInv, NEW p \in Procs, NEW c \in Calls, NEW first \in {"lock", "save"},
         Begin(p, c, first), UNCHANGED menu,
         c.op \in ListOps \cup {"bump", "record"} => c.dev \in Devices,
         c.op \in {"add", "update"} => c.host \in Hosts,
         c.op = "remove" => c.host = None,
         first = "lock" <=> c.op \in LockedOps
  PROVE  IInv'
<1>1. /\ at[p] = "idle" /\ at'[p] = first /\ call'[p] = c /\ read'[p] = read[p]
      /\ call' \in [Procs -> Calls] /\ at' \in [Procs -> Stages]
      /\ read' = [q \in Procs |-> read'[q]] /\ lock' = lock /\ Others(p)
  BY DEF IInv, TypeOK, Begin, Others, Stages
<1>2. read'[p] = None
  BY <1>1 DEF IInv, TypeOK, ReadOK
<1>3. first = "save" => c.op \notin LockedOps
  OBVIOUS
<1>4. ReadOK(p)'
  BY <1>1, <1>2, <1>3 DEF ReadOK, SavesList, LockedOps
<1>5. Args(p)' /\ Holds(p)'
  BY <1>1, <1>3 DEF Args, Holds
<1>6. ListFresh(p)' /\ FailsFresh(p)' /\ StampsFresh(p)'
  BY <1>1, <1>3 DEF ListFresh, FailsFresh, StampsFresh, SavesList, LockedOps
<1>7. UNCHANGED <<files, clock, failed, won, menu>> /\ overtaken' = overtaken
  BY DEF Begin, history
<1>8. lock \in Procs \cup {None}
  BY DEF IInv, TypeOK
<1> QED
  BY <1>1, <1>4, <1>5, <1>6, <1>7, <1>8, QuietStep DEF Sound

\* Each call has the arguments of its operation.
LEMMA StartIInv ==
  ASSUME IInv, NEW p \in Procs, Start(p), UNCHANGED menu
  PROVE  IInv'
<1>1. CASE \E d \in Devices, h \in Hosts : Add(p, d, h) \/ Update(p, d, h)
  <2> PICK d \in Devices, h \in Hosts : Add(p, d, h) \/ Update(p, d, h)
    BY <1>1
  <2> DEFINE c(o) == [NoCall EXCEPT !.op = o, !.dev = d, !.host = h]
  <2>1. \A o \in {"add", "update"} :
          c(o) \in Calls /\ c(o).op = o /\ c(o).dev = d /\ c(o).host = h
    BY DEF NoCall, Calls, Ops, LockedOps, ListOps
  <2>2. \E o \in {"add", "update"} : Begin(p, c(o), "lock")
    BY DEF Add, Update
  <2> HIDE DEF c
  <2> QED
    BY <2>1, <2>2, BeginIInv DEF LockedOps, ListOps
<1>2. CASE \E d \in Devices : Remove(p, d) \/ Bump(p, d)
  <2> PICK d \in Devices : Remove(p, d) \/ Bump(p, d)
    BY <1>2
  <2> DEFINE c(o) == [NoCall EXCEPT !.op = o, !.dev = d]
  <2>1. \A o \in {"remove", "bump"} :
          c(o) \in Calls /\ c(o).op = o /\ c(o).dev = d /\ c(o).host = None
    BY DEF NoCall, Calls, Ops, LockedOps, ListOps
  <2>2. \E o \in {"remove", "bump"} : Begin(p, c(o), "lock")
    BY DEF Remove, Bump
  <2> HIDE DEF c
  <2> QED
    BY <2>1, <2>2, BeginIInv DEF LockedOps, ListOps
<1>3. CASE \E d \in Devices, ok \in BOOLEAN : Record(p, d, ok)
  <2> PICK d \in Devices, ok \in BOOLEAN : Record(p, d, ok)
    BY <1>3
  <2> DEFINE c == [NoCall EXCEPT !.op = "record", !.dev = d, !.ok = ok]
  <2>1. c \in Calls /\ c.op = "record" /\ c.dev = d
    BY DEF NoCall, Calls, Ops
  <2>2. Begin(p, c, "save")
    BY DEF Record
  <2> HIDE DEF c
  <2> QED
    BY <2>1, <2>2, BeginIInv DEF LockedOps, ListOps
<1>4. CASE \E D \in SUBSET Devices : Claim(p, D)
  <2> PICK D \in SUBSET Devices : Claim(p, D)
    BY <1>4
  <2> DEFINE c == [NoCall EXCEPT !.op = "claim", !.want = D, !.now = clock]
  <2>1. c \in Calls /\ c.op = "claim"
    BY DEF NoCall, Calls, Ops, LockedOps, IInv, TypeOK
  <2>2. Begin(p, c, "lock")
    BY DEF Claim
  <2> HIDE DEF c
  <2> QED
    BY <2>1, <2>2, BeginIInv DEF LockedOps, ListOps
<1>5. CASE Clear(p)
  <2> DEFINE c == [NoCall EXCEPT !.op = "clear"]
  <2>1. c \in Calls /\ c.op = "clear"
    BY DEF NoCall, Calls, Ops
  <2>2. Begin(p, c, "save")
    BY <1>5 DEF Clear
  <2> HIDE DEF c
  <2> QED
    BY <2>1, <2>2, BeginIInv DEF LockedOps, ListOps
<1> QED
  BY <1>1, <1>2, <1>3, <1>4, <1>5 DEF Start
\* The lock is taken: whoever else has it would have to be None.
LEMMA AcquireIInv ==
  ASSUME IInv, NEW p \in Procs, Acquire(p), UNCHANGED menu
  PROVE  IInv'
<1>1. /\ at[p] = "lock" /\ lock = None /\ lock' = p /\ at'[p] = "load"
      /\ at' \in [Procs -> Stages] /\ Others(p)
      /\ call' = call /\ read' = read
  BY DEF IInv, TypeOK, Acquire, Others, Stages
<1>2. /\ Sound(p) /\ ReadOK(p) /\ call \in [Procs -> Calls]
      /\ read = [q \in Procs |-> read[q]]
  BY DEF IInv, TypeOK
<1>3. read' = [q \in Procs |-> read'[q]]
  BY <1>1, <1>2
<1>4. ReadOK(p)'
  BY <1>1, <1>2 DEF ReadOK, SavesList
<1>5. Sound(p)'
  BY <1>1, <1>2 DEF Sound, Args, Holds, ListFresh, FailsFresh, StampsFresh, SavesList
<1>6. UNCHANGED <<files, clock, failed, won, menu>> /\ overtaken' = overtaken
  BY DEF Acquire, history
<1> QED
  BY <1>1, <1>2, <1>3, <1>4, <1>5, <1>6, QuietStep

\* What is loaded is what the file holds.
LEMMA LoadIInv ==
  ASSUME IInv, NEW p \in Procs, LoadList(p) \/ LoadFails(p) \/ LoadStamps(p), UNCHANGED menu
  PROVE  IInv'
<1>1. at[p] = "load" /\ Sound(p) /\ "save" \in Stages
  BY DEF IInv, LoadList, LoadFails, LoadStamps, Stages
<1>2. UNCHANGED <<files, clock, failed, won, menu>> /\ overtaken' = overtaken
  BY DEF LoadList, LoadFails, LoadStamps, history
<1>3. ASSUME NEW content, Keep(p, content, "save"),
             \/ /\ call[p].op \in ListOps /\ content = paired
                /\ ~NothingToDo(call[p], paired)
             \/ call[p].op = "bump" /\ content = Fails(call[p].dev)
             \/ call[p].op = "claim" /\ content = stamp
      PROVE  IInv'
  <2>1. /\ at'[p] = "save" /\ read'[p] = content /\ lock' = lock /\ call' = call
        /\ at' \in [Procs -> Stages] /\ read' = [q \in Procs |-> read'[q]] /\ Others(p)
    BY <1>1, <1>3, KeepStep DEF IInv
  <2>2. call \in [Procs -> Calls] /\ lock \in Procs \cup {None}
    BY DEF IInv, TypeOK
  <2>3. UNCHANGED <<paired, push, stamp, failed, won>>
    BY <1>2 DEF files
  <2>4. call[p].op = "bump" =>
          call[p].dev \in Devices /\ content \in Nat /\ content >= failed[call[p].dev]
    <3> SUFFICES ASSUME call[p].op = "bump"
                 PROVE  LET d == call[p].dev IN
                          d \in Devices /\ Fails(d) \in Nat /\ Fails(d) >= failed[d]
      BY <1>3 DEF ListOps
    <3>1. call[p].dev \in Devices
      BY <1>1 DEF Sound, Args
    <3> QED
      BY <3>1 DEF Fails, IInv, TypeOK, Outcomes, NoFailureLost
  <2>5. ReadOK(p)'
    <3>1. call[p].op \in LockedOps
      BY <1>1 DEF Sound, Holds
    <3>2. paired \in Lists /\ stamp \in Stamps
      BY DEF IInv, TypeOK
    <3> QED
      BY <1>3, <2>1, <2>4, <3>1, <3>2 DEF ReadOK, SavesList, ListOps
  <2>6. Args(p)' /\ Holds(p)'
    BY <1>1, <2>1 DEF Sound, Args, Holds
  <2>7. ListFresh(p)'
    BY <1>3, <2>1, <2>3 DEF ListFresh, SavesList, ListOps, NothingToDo
  <2>8. FailsFresh(p)'
    BY <2>1, <2>3, <2>4 DEF FailsFresh
  <2>9. StampsFresh(p)'
    BY <1>3, <2>1, <2>3 DEF StampsFresh, ListOps, IInv, GrantsOnFile
  <2> QED
    BY <1>2, <2>1, <2>2, <2>5, <2>6, <2>7, <2>8, <2>9, QuietStep DEF Sound
<1>4. CASE Return(p)
  BY <1>2, <1>4, QuietReturn
<1> QED
  BY <1>3, <1>4 DEF LoadList, LoadFails, LoadStamps

\* A dying process leaves the files alone.
LEMMA CrashIInv ==
  ASSUME IInv, NEW p \in Procs, Crash(p), UNCHANGED menu
  PROVE  IInv'
BY QuietReturn DEF Crash

-----------------------------------------------------------------------------
\* A step of p that ends its call and writes files: it is enough to look at the
\* files and at the processes that have read them.
LEMMA WriteReturn ==
  ASSUME IInv, NEW p \in Procs, Return(p), UNCHANGED <<clock, menu>>,
         paired' \in Lists, push' \in [Devices -> Outcomes \cup {None}],
         stamp' \in Stamps, overtaken' \in SUBSET Procs,
         failed' \in [Devices -> Nat], won' \in Stamps,
         paired' = paired \/ lock = p,
         \A q \in Procs \ {p} : q \in overtaken => q \in overtaken',
         \A d \in Devices : failed'[d] = failed[d] \/ failed'[d] = 0 \/ lock = p,
         \A d \in Devices : won'[d] = won[d] \/ won'[d] = None \/ lock = p,
         NoFailureLost', GrantsOnFile'
  PROVE  IInv'
<1>1. lock' = lock \/ lock = p
  BY DEF Return
<1>2. /\ call' \in [Procs -> Calls] /\ at' \in [Procs -> Stages]
      /\ read' = [q \in Procs |-> read'[q]] /\ lock' \in Procs \cup {None}
      /\ Others(p)
  BY ReturnStep DEF IInv
<1>3. ReadOK(p)' /\ Sound(p)'
  BY ReturnSound DEF IInv
<1>4. (\A q \in Procs : Sound(q))'
  <2> SUFFICES ASSUME NEW q \in Procs \ {p} PROVE Sound(q)'
    BY <1>3
  <2> QED
    BY <1>1, <1>2, OthersSound
<1>5. (\A q \in Procs : ReadOK(q))'
  BY <1>2, <1>3, ReadsOK DEF IInv
<1>6. TypeOK'
  BY <1>2, <1>5 DEF IInv, TypeOK
<1> QED
  BY <1>4, <1>6 DEF IInv

\* The edited list.
LEMMA EditedType ==
  ASSUME IInv, NEW p \in Procs, SavesList(p)
  PROVE  Edited(p) \in Lists
<1>1. read[p] \in Lists /\ call[p].host \in Hosts \cup {None}
  BY DEF IInv, TypeOK, ReadOK, Calls
<1> QED
  BY <1>1 DEF Edited, Lists
\* The list is replaced by whoever holds the lock, so no one else has read it.
LEMMA SaveListIInv ==
  ASSUME IInv, NEW p \in Procs, SaveList(p), UNCHANGED menu
  PROVE  IInv'
<1>1. /\ SavesList(p) /\ paired' = Edited(p) /\ overtaken' = overtaken \ {p}
      /\ UNCHANGED <<push, stamp, clock, failed, won>>
  BY DEF SaveList, SavesList
<1>2. lock = p
  BY <1>1 DEF IInv, Sound, Holds, SavesList, LockedOps
<1>3. paired' \in Lists
  BY <1>1, EditedType
<1>4. NoFailureLost' /\ GrantsOnFile'
  BY <1>1 DEF IInv, NoFailureLost, GrantsOnFile
<1>5. CASE Return(p)
  BY <1>1, <1>2, <1>3, <1>4, <1>5, WriteReturn DEF IInv, TypeOK
<1>6. CASE call[p].op = "remove" /\ Keep(p, None, "unlink")
  <2>1. /\ at'[p] = "unlink" /\ read'[p] = None /\ lock' = lock /\ call' = call
        /\ at' \in [Procs -> Stages] /\ read' = [q \in Procs |-> read'[q]] /\ Others(p)
    <3>1. "unlink" \in Stages
      BY DEF Stages
    <3> QED
      BY <1>6, <3>1, KeepStep DEF IInv
  <2>2. ReadOK(p)' /\ Sound(p)'
    BY <1>6, <2>1 DEF ReadOK, SavesList, IInv, Sound, Args, Holds, ListFresh, FailsFresh, StampsFresh
  <2>3. (\A q \in Procs : ReadOK(q))'
    BY <2>1, <2>2, ReadsOK DEF IInv
  <2>4. TypeOK'
    BY <1>1, <1>3, <2>1, <2>3 DEF IInv, TypeOK
  <2>5. (\A q \in Procs : Sound(q))'
    <3> SUFFICES ASSUME NEW q \in Procs \ {p} PROVE Sound(q)'
      BY <2>2
    <3> QED
      BY <1>1, <1>2, <2>1, OthersSound
  <2> QED
    BY <1>4, <2>4, <2>5 DEF IInv
<1> QED
  BY <1>5, <1>6 DEF SaveList

\* An outcome file is replaced or deleted, and the history with it.
LEMMA OutcomeIInv ==
  ASSUME IInv, NEW p \in Procs, Unlink(p) \/ SaveFails(p) \/ SaveOutcome(p), UNCHANGED menu
  PROVE  IInv'
<1>1. Return(p) /\ UNCHANGED <<paired, stamp, clock, overtaken, won, menu>>
  BY DEF Unlink, SaveFails, SaveOutcome
<1>2. TypeOK /\ GrantsOnFile'
  BY <1>1 DEF IInv, GrantsOnFile
<1> DEFINE Counted(o, n) == n > 0 => o # None /\ ~o.ok /\ o.fails >= n
<1>3. ASSUME NEW d \in Devices, NEW o \in Outcomes \cup {None}, NEW n \in Nat,
             push' = [push EXCEPT ![d] = o], failed' = [failed EXCEPT ![d] = n],
             n = 0 \/ lock = p, Counted(o, n)
      PROVE  IInv'
  <2>1. /\ push' \in [Devices -> Outcomes \cup {None}] /\ failed' \in [Devices -> Nat]
        /\ \A e \in Devices : failed'[e] = failed[e] \/ failed'[e] = 0 \/ lock = p
    BY <1>2, <1>3 DEF TypeOK
  <2>2. NoFailureLost'
    <3> SUFFICES ASSUME NEW e \in Devices, failed'[e] > 0
                 PROVE  push'[e] # None /\ ~push'[e].ok /\ push'[e].fails >= failed'[e]
      BY DEF NoFailureLost
    <3>1. CASE e = d
      <4>1. push'[e] = o /\ failed'[e] = n
        BY <1>2, <1>3, <3>1 DEF TypeOK
      <4> QED
        BY <1>3, <4>1
    <3>2. CASE e # d
      <4>1. push'[e] = push[e] /\ failed'[e] = failed[e]
        BY <1>2, <1>3, <3>2 DEF TypeOK
      <4> QED
        BY <4>1 DEF IInv, NoFailureLost
    <3> QED
      BY <3>1, <3>2
  <2> QED
    BY <1>1, <1>2, <2>1, <2>2, WriteReturn DEF TypeOK
<1>4. Sound(p) /\ ReadOK(p) /\ \A o : Counted(o, 0)
  BY DEF IInv, TypeOK
<1> HIDE DEF Counted
<1>5. CASE Unlink(p)
  <2>1. call[p].dev \in Devices
    BY <1>4, <1>5 DEF Unlink, Sound, Holds, Args, ListOps
  <2>2. push' = [push EXCEPT ![call[p].dev] = None] /\ failed' = [failed EXCEPT ![call[p].dev] = 0]
    BY <1>5 DEF Unlink
  <2>3. 0 \in Nat /\ None \in Outcomes \cup {None} /\ Counted(None, 0)
    BY <1>4
  <2> QED
    BY <1>3, <2>1, <2>2, <2>3
<1>6. CASE SaveFails(p)
  <2> DEFINE n == failed[call[p].dev] + 1
             o == [ok |-> FALSE, fails |-> read[p] + 1]
  <2>1. call[p].dev \in Devices /\ read[p] \in Nat /\ read[p] >= failed[call[p].dev]
    BY <1>4, <1>6 DEF SaveFails, Sound, Args, FailsFresh, ReadOK
  <2>2. lock = p
    BY <1>4, <1>6 DEF SaveFails, Sound, Holds, LockedOps
  <2>3. n \in Nat /\ read[p] + 1 \in Nat /\ read[p] + 1 >= n
    BY <2>1 DEF IInv, TypeOK
  <2>4. o \in Outcomes /\ Counted(o, n)
    <3>1. o \in Outcomes /\ ~o.ok /\ o.fails = read[p] + 1
      BY <2>3 DEF Outcomes
    <3>2. o # None
      BY <3>1, NoneIsNew
    <3> QED
      BY <2>3, <3>1, <3>2 DEF Counted
  <2>5. push' = [push EXCEPT ![call[p].dev] = o] /\ failed' = [failed EXCEPT ![call[p].dev] = n]
    BY <1>6 DEF SaveFails
  <2> HIDE DEF n, o
  <2> QED
    BY <1>3, <2>1, <2>2, <2>3, <2>4, <2>5
<1>7. CASE SaveOutcome(p)
  <2> DEFINE o == [ok |-> call[p].ok, fails |-> 0]
  <2>1. call[p].dev \in Devices /\ o \in Outcomes
    BY <1>4, <1>7 DEF SaveOutcome, Sound, Args, Outcomes, IInv, TypeOK, Calls
  <2>2. push' = [push EXCEPT ![call[p].dev] = o] /\ failed' = [failed EXCEPT ![call[p].dev] = 0]
    BY <1>7 DEF SaveOutcome
  <2>3. 0 \in Nat /\ Counted(o, 0)
    BY <1>4
  <2> HIDE DEF o
  <2> QED
    BY <1>3, <2>1, <2>2, <2>3
<1> QED
  BY <1>5, <1>6, <1>7
\* The stamps of those granted are replaced, on file and in the history.
LEMMA SaveStampsIInv ==
  ASSUME IInv, NEW p \in Procs, SaveStamps(p), UNCHANGED menu
  PROVE  IInv'
<1> DEFINE granted == Eligible(call[p].want, call[p].now, read[p])
           Stamped(s) == [d \in Devices |-> IF d \in granted THEN call[p].now ELSE s[d]]
<1>1. /\ stamp' = Stamped(read[p]) /\ won' = Stamped(won) /\ Return(p)
      /\ at[p] = "save" /\ call[p].op = "claim"
      /\ UNCHANGED <<paired, push, clock, overtaken, failed>>
  BY DEF SaveStamps
<1>2. lock = p /\ \A d \in Devices : won[d] = None \/ read[p][d] = won[d]
  BY <1>1 DEF IInv, Sound, Holds, StampsFresh, LockedOps
<1>3. read[p] \in Stamps /\ won \in Stamps /\ call[p].now \in Nat
  BY <1>1 DEF IInv, TypeOK, ReadOK, Calls
<1>4. \A s \in Stamps : Stamped(s) \in Stamps
  BY <1>3 DEF Stamps
<1>5. GrantsOnFile'
  BY <1>1, <1>2 DEF GrantsOnFile
<1>6. NoFailureLost'
  BY <1>1 DEF IInv, NoFailureLost
<1> HIDE DEF Stamped
<1> QED
  BY <1>1, <1>2, <1>3, <1>4, <1>5, <1>6, WriteReturn DEF IInv, TypeOK

-----------------------------------------------------------------------------
\* pair-reset: its first step marks whoever has read the list.
LEMMA ClearListIInv ==
  ASSUME IInv, NEW p \in Procs, ClearList(p), UNCHANGED menu
  PROVE  IInv'
<1> DEFINE readers == {q \in Procs : at[q] = "save" /\ call[q].op \in ListOps}
<1>1. /\ paired' = NoList /\ overtaken' = overtaken \cup readers
      /\ at' = [at EXCEPT ![p] = "glob"] /\ at[p] = "save" /\ call[p].op = "clear"
      /\ UNCHANGED <<menu, push, stamp, lock, call, read, clock, failed, won>>
  BY DEF ClearList
<1>2. TypeOK /\ Sound(p) /\ call[p].op \notin ListOps
  BY <1>1 DEF IInv, ListOps
<1>3. at'[p] = "glob" /\ at' \in [Procs -> Stages] /\ Others(p)
  BY <1>1, <1>2 DEF TypeOK, Stages, Others
<1>4. read[p] = None
  BY <1>1 DEF IInv, TypeOK, ReadOK, LockedOps, ListOps
<1>5. ReadOK(p)' /\ Sound(p)'
  BY <1>1, <1>2, <1>3, <1>4
  DEF ReadOK, SavesList, Sound, Args, Holds, ListFresh, FailsFresh, StampsFresh
<1>6. read' = [q \in Procs |-> read'[q]] /\ call' \in [Procs -> Calls]
  BY <1>1, <1>2 DEF TypeOK
<1>7. NoList \in Lists /\ overtaken' \subseteq Procs
  BY <1>1, <1>2 DEF NoList, Lists, TypeOK
<1>8. TypeOK'
  <2>1. (\A q \in Procs : ReadOK(q))'
    BY <1>2, <1>3, <1>5, ReadsOK
  <2> QED
    BY <1>1, <1>2, <1>3, <1>6, <1>7, <2>1 DEF TypeOK
<1>9. (\A q \in Procs : Sound(q))'
  <2> SUFFICES ASSUME NEW q \in Procs \ {p} PROVE Sound(q)'
    BY <1>5
  <2>1. SavesList(q) => q \in overtaken'
    BY <1>1 DEF SavesList
  <2> HIDE DEF readers
  <2> QED
    BY <1>1, <1>3, <2>1, OthersSound
<1>10. NoFailureLost' /\ GrantsOnFile'
  BY <1>1 DEF IInv, NoFailureLost, GrantsOnFile
<1> QED
  BY <1>8, <1>9, <1>10 DEF IInv

\* It lists the outcome files and deletes them one by one.
LEMMA ClearGlobIInv ==
  ASSUME IInv, NEW p \in Procs, ClearGlob(p), UNCHANGED menu
  PROVE  IInv'
<1> DEFINE D == {d \in Devices : push[d] # None}
<1>1. TypeOK /\ Sound(p) /\ ReadOK(p) /\ at[p] = "glob" /\ at'[p] = "files"
  BY DEF IInv, TypeOK, ClearGlob
<1>2. /\ at' \in [Procs -> Stages] /\ call' \in [Procs -> Calls]
      /\ Others(p) /\ call'[p] = [call[p] EXCEPT !.want = D]
  BY <1>1 DEF ClearGlob, TypeOK, Calls, Stages, Others
<1>3. call'[p].op = call[p].op /\ call'[p].dev = call[p].dev /\ call'[p].host = call[p].host
  BY <1>1, <1>2 DEF TypeOK, Calls
<1>4. UNCHANGED <<files, clock, failed, won, menu, lock, read>> /\ overtaken' = overtaken
  BY DEF ClearGlob, history
<1>5. ReadOK(p)' /\ Sound(p)'
  BY <1>1, <1>3, <1>4
  DEF ReadOK, SavesList, Sound, Args, Holds, ListFresh, FailsFresh, StampsFresh
<1>6. read' = [q \in Procs |-> read'[q]] /\ lock \in Procs \cup {None}
  BY <1>1, <1>4 DEF TypeOK
<1> QED
  BY <1>2, <1>4, <1>5, <1>6, QuietStep

LEMMA ClearFileIInv ==
  ASSUME IInv, NEW p \in Procs, NEW d \in Devices, ClearFile(p, d), UNCHANGED menu
  PROVE  IInv'
<1>1. TypeOK /\ Sound(p) /\ ReadOK(p) /\ at[p] = "files"
  BY DEF IInv, TypeOK, ClearFile
<1>2. /\ call' \in [Procs -> Calls] /\ Others(p)
      /\ call'[p] = [call[p] EXCEPT !.want = @ \ {d}]
  BY <1>1 DEF ClearFile, TypeOK, Calls, Others
<1>3. call'[p].op = call[p].op /\ call'[p].dev = call[p].dev /\ call'[p].host = call[p].host
  BY <1>1, <1>2 DEF TypeOK, Calls
<1>4. /\ push' = [push EXCEPT ![d] = None] /\ failed' = [failed EXCEPT ![d] = 0]
      /\ UNCHANGED <<menu, paired, stamp, lock, at, read, clock, overtaken, won>>
  BY DEF ClearFile
<1>5. ReadOK(p)' /\ Sound(p)'
  BY <1>1, <1>3, <1>4
  DEF ReadOK, SavesList, Sound, Args, Holds, ListFresh, FailsFresh, StampsFresh
<1>6. TypeOK'
  <2>1. (\A q \in Procs : ReadOK(q))'
    BY <1>1, <1>2, <1>5, ReadsOK
  <2> QED
    BY <1>1, <1>2, <1>4, <2>1 DEF TypeOK
<1>7. (\A q \in Procs : Sound(q))'
  <2> SUFFICES ASSUME NEW q \in Procs \ {p} PROVE Sound(q)'
    BY <1>5
  <2>1. \A e \in Devices : failed'[e] = failed[e] \/ failed'[e] = 0
    BY <1>1, <1>4 DEF TypeOK
  <2> QED
    BY <1>2, <1>4, <2>1, OthersSound
<1>8. NoFailureLost'
  BY <1>1, <1>4 DEF TypeOK, IInv, NoFailureLost
<1>9. GrantsOnFile'
  BY <1>4 DEF IInv, GrantsOnFile
<1> QED
  BY <1>6, <1>7, <1>8, <1>9 DEF IInv

\* Last it resets the cooldown.
LEMMA ClearStampsIInv ==
  ASSUME IInv, NEW p \in Procs, ClearStamps(p), UNCHANGED menu
  PROVE  IInv'
<1>1. NoList \in Stamps /\ \A d \in Devices : NoList[d] = None
  BY DEF NoList, Stamps
<1>2. /\ Return(p) /\ stamp' = NoList /\ won' = NoList
      /\ UNCHANGED <<paired, push, clock, overtaken, failed, menu>>
  BY DEF ClearStamps
<1>3. NoFailureLost' /\ GrantsOnFile'
  BY <1>1, <1>2 DEF IInv, NoFailureLost, GrantsOnFile
<1> QED
  BY <1>1, <1>2, <1>3, WriteReturn DEF IInv, TypeOK
-----------------------------------------------------------------------------
LEMMA TickIInv ==
  ASSUME IInv, Tick, UNCHANGED menu
  PROVE  IInv'
<1>1. clock' \in Nat
  BY DEF IInv, TypeOK, Tick
<1>2. UNCHANGED <<menu, paired, push, stamp, lock, call, at, read, overtaken, failed, won>>
  BY DEF Tick, files, history
<1>3. TypeOK'
  BY <1>1, <1>2 DEF IInv, TypeOK, ReadOK, SavesList
<1>4. (\A p \in Procs : Sound(p))'
  BY <1>2 DEF IInv, Sound, Args, Holds, ListFresh, FailsFresh, StampsFresh, SavesList
<1>5. NoFailureLost' /\ GrantsOnFile'
  BY <1>2 DEF IInv, NoFailureLost, GrantsOnFile
<1> QED
  BY <1>3, <1>4, <1>5 DEF IInv

LEMMA StutterIInv ==
  ASSUME IInv, UNCHANGED vars
  PROVE  IInv'
BY DEF vars, IInv, TypeOK, ReadOK, SavesList, Sound, Args, Holds, ListFresh, FailsFresh,
       StampsFresh, NoFailureLost, GrantsOnFile

\* Nothing runs at first, and nothing has been pushed or claimed.
LEMMA InitIInv == Init => IInv
<1> SUFFICES ASSUME Init PROVE IInv
  OBVIOUS
<1>1. NoList \in Stamps /\ NoList \in [Devices -> Outcomes \cup {None}]
      /\ NoFails \in [Devices -> Nat] /\ "idle" \in Stages
  BY DEF NoList, Stamps, NoFails, Stages
<1>2. TypeOK
  BY <1>1, NoCallType DEF Init, TypeOK, ReadOK, SavesList
<1>3. \A p \in Procs : Sound(p)
  BY DEF Init, Sound, Args, Holds, ListFresh, FailsFresh, StampsFresh, SavesList, NoCall, ListOps
<1>4. NoFailureLost /\ GrantsOnFile
  BY DEF Init, NoFailureLost, GrantsOnFile, NoFails, NoList
<1> QED
  BY <1>2, <1>3, <1>4 DEF IInv

LEMMA NextIInv == IInv /\ [Next]_vars => IInv'
<1> SUFFICES ASSUME IInv, Next PROVE IInv'
  BY StutterIInv
<1>1. CASE Tick
  BY <1>1, TickIInv DEF Next
<1>2. ASSUME NEW p \in Procs, Start(p) \/ Acquire(p) \/ Step(p) \/ Crash(p), UNCHANGED menu
      PROVE  IInv'
  <2>1. CASE Start(p) \/ Acquire(p) \/ Crash(p)
    BY <1>2, <2>1, StartIInv, AcquireIInv, CrashIInv
  <2>2. CASE Step(p)
    BY <1>2, <2>2, LoadIInv, SaveListIInv, OutcomeIInv, SaveStampsIInv, ClearListIInv,
       ClearGlobIInv, ClearFileIInv, ClearStampsIInv DEF Step
  <2> QED
    BY <1>2, <2>1, <2>2
<1> QED
  BY <1>1, <1>2 DEF Next

-----------------------------------------------------------------------------
\* IInv holds of every state the processes can reach.
THEOREM Invariance == Spec => []IInv
BY InitIInv, NextIInv, PTL DEF Spec

\* The files hold what the code can write, and what a process has read is of
\* the kind its operation reads.
THEOREM TypeCorrect == Spec => []TypeOK
<1>1. IInv => TypeOK
  BY DEF IInv
<1> QED
  BY <1>1, Invariance, PTL

\* No child's failure is lost to another's (bump_push_failures).
THEOREM FailuresAreCounted == Spec => []NoFailureLost
<1>1. IInv => NoFailureLost
  BY DEF IInv
<1> QED
  BY <1>1, Invariance, PTL

\* A reconcile slot has one winner per cooldown (claim_reconcile_slots).
THEOREM SlotsHaveOneWinner == Spec => []OneWinner
<1>1. IInv => OneWinner
  <2> SUFFICES ASSUME IInv, NEW p \in Procs, at[p] = "save", call[p].op = "claim",
                      NEW d \in Eligible(call[p].want, call[p].now, read[p]), won[d] # None
               PROVE  call[p].now - won[d] >= Cooldown
    BY DEF OneWinner
  <2>1. d \in Devices
    BY DEF Eligible, IInv, TypeOK, Calls
  <2>2. read[p][d] = won[d]
    BY <2>1 DEF IInv, Sound, StampsFresh
  <2> QED
    BY <2>2 DEF Eligible
<1> QED
  BY <1>1, Invariance, PTL

\* Only a clear and the end of a list operation write the list.
LEMMA ListSteps ==
  ASSUME Next
  PROVE  \/ paired' = paired
         \/ paired' = NoList
         \/ \E p \in Procs : SaveList(p)
BY DEF Next, Tick, files, Start, Add, Update, Remove, Bump, Record, Claim, Clear, Begin, Acquire,
       Crash, Step, LoadList, Unlink, LoadFails, SaveFails, SaveOutcome, LoadStamps, SaveStamps,
       ClearList, ClearGlob, ClearFile, ClearStamps

\* What is saved by a process that was not overtaken is its edit of the list as
\* it stands.
LEMMA SavedList ==
  ASSUME IInv, NEW p \in Procs, SaveList(p), p \notin overtaken
  PROVE  /\ SavesList(p) /\ call[p].dev \in Devices
         /\ paired' = [paired EXCEPT ![call[p].dev] = call[p].host]
         /\ call[p].op = "update" => paired[call[p].dev] # None
         /\ call[p].op = "remove" => call[p].host = None
         /\ call[p].op # "remove" => call[p].host \in Hosts
<1>1. SavesList(p) /\ Sound(p)
  BY DEF SaveList, SavesList, IInv
<1>2. read[p] = paired
  BY <1>1 DEF Sound, ListFresh
<1> QED
  BY <1>1, <1>2 DEF SaveList, Edited, Sound, Args, ListFresh, SavesList, ListOps

\* The list changes by whole operations, but for an edit that pair-reset has
\* overtaken.
THEOREM ListIsAtomic == Spec => KeepsPromise
<1>1. IInv /\ [Next]_vars => [Store!Next \/ \E p \in overtaken : SavesList(p)]_paired
  <2> SUFFICES ASSUME IInv, Next, paired' # paired
               PROVE  Store!Next \/ \E p \in overtaken : SavesList(p)
    BY DEF vars
  <2>1. CASE paired' = NoList
    BY <2>1 DEF Store!Next, Store!ForgetAll, NoList
  <2>2. ASSUME NEW p \in Procs, SaveList(p)
        PROVE  Store!Next \/ \E q \in overtaken : SavesList(q)
    <3>1. CASE p \in overtaken
      BY <2>2, <3>1 DEF SaveList, SavesList
    <3>2. CASE p \notin overtaken
      BY <2>2, <3>2, SavedList DEF Store!Next, Store!Put, Store!Forget
    <3> QED
      BY <3>1, <3>2
  <2> QED
    BY <2>1, <2>2, ListSteps
<1> QED
  BY <1>1, Invariance, PTL DEF Spec, KeepsPromise

\* A device enters the list by an add of that device only, but for the same
\* exception.
THEOREM AddsInsert == Spec => OnlyAddsInsert
<1>1. IInv /\ [Next]_vars =>
        [\A d \in Devices : paired[d] = None /\ paired'[d] # None =>
           \E p \in Procs : Inserts(p, d) \/ (p \in overtaken /\ SavesList(p))]_paired
  <2> SUFFICES ASSUME IInv, Next, NEW d \in Devices, paired[d] = None, paired'[d] # None
               PROVE  \E p \in Procs : Inserts(p, d) \/ (p \in overtaken /\ SavesList(p))
    BY DEF vars
  <2>1. NoList[d] = None
    BY DEF NoList
  <2>2. PICK p \in Procs : SaveList(p)
    BY <2>1, ListSteps
  <2>3. CASE p \in overtaken
    BY <2>2, <2>3 DEF SaveList, SavesList
  <2>4. CASE p \notin overtaken
    <3>1. call[p].dev = d
      BY <2>2, <2>4, SavedList DEF IInv, TypeOK, Lists
    <3>2. SavesList(p) /\ call[p].op = "add"
      BY <2>2, <2>4, <3>1, SavedList DEF IInv, TypeOK, Lists, SavesList, ListOps
    <3> QED
      BY <3>1, <3>2 DEF Inserts
  <2> QED
    BY <2>3, <2>4
<1> QED
  BY <1>1, Invariance, PTL DEF Spec, OnlyAddsInsert
=============================================================================
