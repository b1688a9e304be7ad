---------------------------- MODULE PairedStore -----------------------------
(***************************************************************************)
(* What the list of paired devices promises the processes that share it:   *)
(* every change is one whole operation on the list as it then stands, so   *)
(* none is lost and none undoes another.                                   *)
(***************************************************************************)
CONSTANTS Devices, Hosts, None

VARIABLE paired   \* paired[d]: the host of device d, or None

Init == paired \in [Devices -> Hosts \cup {None}]

\* Insert a device, or move it to another host.
Put(d, h) == paired' = [paired EXCEPT ![d] = h]

Forget(d) == paired' = [paired EXCEPT ![d] = None]

ForgetAll == paired' = [d \in Devices |-> None]

Next ==
  \/ \E d \in Devices, h \in Hosts : Put(d, h)
  \/ \E d \in Devices : Forget(d)
  \/ ForgetAll

Spec == Init /\ [][Next]_paired
=============================================================================
