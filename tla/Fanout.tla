------------------------------- MODULE Fanout -------------------------------
(***************************************************************************)
(* One host pushes its usage to the displays it is paired with: pusher.py, *)
(* the cached addresses of host_cache.py it repairs on the way, and the    *)
(* bookkeeping that follows.  CodexDaemon and StatusLine say who pushes    *)
(* what and when.                                                          *)
(*                                                                         *)
(* The displays, the LAN and mDNS are external.  A snapshot is the number  *)
(* of the change of usage it tells of, and is as old as that change.  A    *)
(* call goes on in a step of its own after each await; HostCache has the   *)
(* single accesses to the files.                                           *)
(***************************************************************************)
EXTENDS Integers, FiniteSets

CONSTANTS
  Devices,   \* displays
  Hosts,     \* addresses of the LAN; a display's first address bears its name
  Procs,     \* workers of the daemon and children of the status line
  MaxUsage   \* bound: changes of usage

ASSUME FanoutAssumption == Devices \subseteq Hosts /\ MaxUsage \in Nat \ {0}

VARIABLES
  store, slot, up, addr, \* of each display: the snapshot it holds, who owns its
                         \* pairing slot, is it on the LAN, and where
  usage,                 \* the usage, as it is
  paired,                \* the paired list: the cached host of each device in it
  outcome,               \* last-push.<agent>.<device_id>
  cool,                  \* devices whose reconcile slot is taken
  call,                  \* of each process: its call of push_to_all and what follows
  told   \* history: the snapshot of the push to a device that was recorded last; 0
         \* if none was since it started, or if another display answered that one

Snaps == 0..MaxUsage
Maps  == UNION {[S -> Hosts] : S \in SUBSET Devices}
Nowhere == [d \in {} |-> {}]

\* A call: its targets with the hosts it uses, the result of each, those it may
\* look for, and those it cannot tell apart.  History: those another display
\* answered for, and those that have restarted since.
Calls == [pc : {"idle", "find", "claim", "send", "browse", "retry", "split", "book"},
          snap : Snaps, host : Maps,
          res : UNION {[S -> {"todo", "ok", "auth", "transport"}] : S \in SUBSET Devices},
          sought : SUBSET Devices, unverified : SUBSET Devices, void : SUBSET Devices]
Idle == [pc |-> "idle", snap |-> 0, host |-> Nowhere, res |-> Nowhere,
         sought |-> {}, unverified |-> {}, void |-> {}]

TypeOK ==
  /\ store \in [Devices -> Snaps]
  /\ slot \in [Devices -> {"none", "us", "other"}]
  /\ up \in [Devices -> BOOLEAN]
  /\ addr \in [Devices -> Hosts]
  /\ usage \in Snaps
  /\ paired \in Maps
  /\ outcome \in [Devices -> {"none", "ok", "failed"}]
  /\ cool \subseteq Devices
  /\ call \in [Procs -> Calls]
  /\ told \in [Devices -> Snaps]

\* Some displays are on the LAN, some in the paired list, maybe with an address
\* they no longer have.
Init(present, cached, first) ==
  /\ store = [d \in Devices |-> 0]
  /\ slot = [d \in Devices |-> "us"]
  /\ up = [d \in Devices |-> d \in present]
  /\ addr = [d \in Devices |-> d]
  /\ paired = cached
  /\ usage = first
  /\ outcome = [d \in Devices |-> "none"]
  /\ cool = {}
  /\ call = [q \in Procs |-> Idle]
  /\ told = [d \in Devices |-> 0]

world == <<store, slot, up, addr, usage>>
cache == <<paired, outcome, cool>>

-----------------------------------------------------------------------------
(* The LAN.                                                                *)

At(h)   == {e \in Devices : up[e] /\ addr[e] = h}
Visible == [d \in {e \in Devices : up[e]} |-> addr[d]]

\* POST /summary at h: 401, 409 or 204.
Reply(e, s) == IF slot[e] = "other" THEN "auth" ELSE IF s < store[e] THEN "stale"
                                                                     ELSE "ok"
Taken(e, s) ==
  /\ slot' = [slot EXCEPT ![e] = IF @ = "none" THEN "us" ELSE @]
  /\ store' = [store EXCEPT ![e] = IF Reply(e, s) = "ok" THEN s ELSE @]

-----------------------------------------------------------------------------
(* push_to_all.                                                            *)

Todo(q) == {d \in DOMAIN call[q].res : call[q].res[d] = "todo"}

\* What push makes of the answer of e: anything but 204 and 401 is a failure of
\* the transport.
Result(e, s, lost) == IF lost \/ Reply(e, s) = "stale" THEN "transport" ELSE Reply(e, s)

Noted(q, d, result, e) ==
  [call EXCEPT ![q].res[d] = result,
               ![q].void = IF e = d THEN @ \ {d} ELSE @ \cup {d}]

\* A push is answered, its answer is lost, or it reaches nobody.
Answered(q, d, lost) ==
  \E e \in At(call[q].host[d]) :
    LET s == call[q].snap IN
    /\ Taken(e, s)
    /\ call' = Noted(q, d, Result(e, s, lost), e)
Unanswered(q, d, lost) ==
  /\ lost \/ At(call[q].host[d]) = {}
  /\ call' = Noted(q, d, "transport", d)
  /\ UNCHANGED <<store, slot>>
Post(q, d, lost) == Answered(q, d, lost) \/ Unanswered(q, d, lost)

Send(q, d, lost) ==
  /\ call[q].pc = "send" /\ d \in Todo(q)
  /\ Post(q, d, lost)
  /\ UNCHANGED <<up, addr, usage, cache, told>>

\* Who pushes what to whom.
Calling(q, s, hosts) ==
  call' = [call EXCEPT ![q] =
             [Idle EXCEPT !.pc = "send", !.snap = s, !.host = hosts,
                          !.res = [d \in DOMAIN hosts |-> "todo"]]]

-----------------------------------------------------------------------------
(* _resolve_paired_devices: an empty list is filled from mDNS.             *)

Start(q, s) ==
  IF DOMAIN paired # {} THEN Calling(q, s, paired)
  ELSE call' = [call EXCEPT ![q] = [Idle EXCEPT !.pc = "find", !.snap = s]]

Find(q, found) ==
  /\ call[q].pc = "find"
  /\ call' = [call EXCEPT ![q].pc = "claim", ![q].host = found,
                          ![q].res = [d \in DOMAIN found |-> "todo"]]
  /\ UNCHANGED <<world, cache, told>>

Claim(q, d, lost) ==
  /\ call[q].pc = "claim" /\ d \in Todo(q)
  /\ Post(q, d, lost)
  /\ IF call'[q].res[d] = "ok"
     THEN /\ paired' = [e \in DOMAIN paired \cup {d} |->
                          IF e = d THEN call[q].host[d] ELSE paired[e]]
          /\ outcome' = [outcome EXCEPT ![d] = "ok"]
          /\ told' = [told EXCEPT ![d] = IF d \in call'[q].void THEN 0 ELSE call[q].snap]
     ELSE UNCHANGED <<paired, outcome, told>>
  /\ UNCHANGED <<up, addr, usage, cool>>

\* Those that were claimed are pushed to like any other.
Claimed(q) ==
  /\ call[q].pc = "claim" /\ Todo(q) = {}
  /\ LET ours == {d \in DOMAIN call[q].res : call[q].res[d] = "ok"}
     IN  IF ours = {} THEN call' = [call EXCEPT ![q] = Idle]
         ELSE Calling(q, call[q].snap, [d \in ours |-> call[q].host[d]])
  /\ UNCHANGED <<world, cache, told>>

-----------------------------------------------------------------------------
(* refresh_and_retry_transport_failures.                                   *)

Failed(q)   == {d \in DOMAIN call[q].res : call[q].res[d] = "transport"}
Eligible(S) == S \ cool

Refresh(q) ==
  /\ call[q].pc = "send" /\ Todo(q) = {}
  /\ Eligible(Failed(q)) # {}
  /\ cool' = cool \cup Failed(q)
  /\ call' = [call EXCEPT ![q].pc = "browse", ![q].sought = Eligible(Failed(q))]
  /\ UNCHANGED <<world, paired, outcome, told>>

\* Those found somewhere else are tried again there.
Browse(q, found) ==
  LET moved == {d \in call[q].sought \cap DOMAIN found : found[d] # call[q].host[d]} IN
  /\ call[q].pc = "browse"
  /\ call' = [call EXCEPT ![q].pc = "retry",
                ![q].host = [d \in DOMAIN @ |-> IF d \in moved THEN found[d] ELSE @[d]],
                ![q].res = [d \in DOMAIN @ |-> IF d \in moved THEN "todo" ELSE @[d]]]
  /\ UNCHANGED <<world, cache, told>>

\* Update-only: no retry for a pairing that was removed meanwhile.
Retry(q, d, lost) ==
  /\ call[q].pc = "retry" /\ d \in Todo(q)
  /\ IF d \in DOMAIN paired
     THEN paired' = [paired EXCEPT ![d] = call[q].host[d]] /\ Post(q, d, lost)
     ELSE /\ ~lost
          /\ call' = [call EXCEPT ![q].res[d] = "transport"]
          /\ UNCHANGED <<paired, store, slot>>
  /\ UNCHANGED <<up, addr, usage, outcome, cool, told>>

-----------------------------------------------------------------------------
(* reconcile_duplicate_hosts.                                              *)

Sharing(list) == {d \in DOMAIN list : \E e \in DOMAIN list \ {d} : list[e] = list[d]}

Moved(list, found, sought) ==
  [d \in DOMAIN list |-> IF d \in sought \cap DOMAIN found THEN found[d] ELSE list[d]]

Sent(q) == /\ Todo(q) = {}
           /\ \/ call[q].pc = "send" /\ Eligible(Failed(q)) = {}
              \/ call[q].pc = "retry"

Settle(q) ==
  LET sharing == Sharing(paired) IN
  /\ Sent(q)
  /\ cool' = cool \cup sharing
  /\ call' = [call EXCEPT ![q].unverified = sharing, ![q].sought = Eligible(sharing),
                          ![q].pc = IF Eligible(sharing) = {} THEN "book" ELSE "split"]
  /\ UNCHANGED <<world, paired, outcome, told>>

\* The browse may fail: then nothing is verified.
Split(q, found) ==
  /\ call[q].pc = "split"
  /\ paired' = Moved(paired, found, call[q].sought)
  /\ call' = [call EXCEPT ![q].pc = "book",
                          ![q].unverified = Sharing(paired')]
  /\ UNCHANGED <<world, outcome, cool, told>>
SplitFails(q) ==
  /\ call[q].pc = "split"
  /\ call' = [call EXCEPT ![q].pc = "book"]
  /\ UNCHANGED <<world, cache, told>>

-----------------------------------------------------------------------------
(* The bookkeeping of _push_to_devices and _do_fanout.                     *)

Told(q)    == DOMAIN call[q].res \ call[q].unverified
Good(q)    == {d \in Told(q) : call[q].res[d] = "ok"}
Evicted(q) == {d \in Told(q) : call[q].res[d] = "auth"}

\* remove_paired_device takes the status of a device away with its pairing, and
\* does neither if the pairing is gone: then the status is what `gone` says.
Outcome(q, d, gone) ==
  IF d \in Good(q) THEN "ok"
  ELSE IF d \notin Evicted(q) THEN "failed"
  ELSE IF d \in DOMAIN paired THEN "none" ELSE gone[d]

\* What the call is to say of the devices in S is written down, whatever another
\* call, of a newer snapshot, has written meanwhile.
Book(q, S, gone) ==
  LET rest == DOMAIN call[q].res \ S IN
  /\ call[q].pc = "book"
  /\ outcome' = [d \in Devices |-> IF d \in S THEN Outcome(q, d, gone) ELSE outcome[d]]
  /\ paired' = [d \in DOMAIN paired \ (Evicted(q) \cap S) |-> paired[d]]
  /\ told' = [d \in Devices |-> IF d \notin S THEN told[d]
                                ELSE IF d \in call[q].void THEN 0 ELSE call[q].snap]
  /\ call' = [call EXCEPT ![q] =
                IF rest = {} THEN Idle
                ELSE [@ EXCEPT !.host = [d \in rest |-> call[q].host[d]],
                               !.res = [d \in rest |-> call[q].res[d]]]]
  /\ UNCHANGED <<world, cool>>

-----------------------------------------------------------------------------
(* What happens meanwhile.                                                 *)

Cooldown(d) ==
  /\ d \in cool /\ cool' = cool \ {d}
  /\ UNCHANGED <<world, paired, outcome, call, told>>

Switch(d) ==
  /\ ~up[d] => At(addr[d]) = {}
  /\ up' = [up EXCEPT ![d] = ~@]
  /\ UNCHANGED <<store, slot, addr, usage, cache, call, told>>

\* DHCP: another address, maybe one that another record still names.
Move(d, h) ==
  /\ h # addr[d] /\ At(h) = {}
  /\ addr' = [addr EXCEPT ![d] = h]
  /\ UNCHANGED <<store, slot, up, usage, cache, call, told>>

\* A display restarts, and may have been reset.
Reboot(d, owner) ==
  /\ store' = [store EXCEPT ![d] = 0]
  /\ slot' = [slot EXCEPT ![d] = owner]
  /\ told' = [told EXCEPT ![d] = 0]
  /\ call' = [q \in Procs |-> IF d \in DOMAIN call[q].res
                              THEN [call[q] EXCEPT !.void = @ \cup {d}] ELSE call[q]]
  /\ UNCHANGED <<up, addr, usage, cache>>
=============================================================================
