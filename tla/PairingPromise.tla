--------------------------- MODULE PairingPromise ---------------------------
(***************************************************************************)
(* What a BurnScope device promises the hosts that push to it, with no     *)
(* HTTP, flash or mDNS in sight.  Each agent has at most one owner, chosen *)
(* by trust on first use; an owner loses its claim only by a wipe; a push  *)
(* is published only for a client that was let in while it was the owner;  *)
(* and what the display shows for an agent never goes back in time until   *)
(* the device restarts.                                                    *)
(***************************************************************************)
EXTENDS Integers

CONSTANTS Agents, Clients, Times, None

VARIABLES
  owner,      \* owner[a]: the client an agent is paired with, or None
  admitted,   \* the <<agent, client>> pairs let in and not yet answered
  shown       \* shown[a]: the newest published capture time, or None

vars == <<owner, admitted, shown>>

Init ==
  /\ owner \in [Agents -> Clients \cup {None}]
  /\ admitted = {}
  /\ shown = [a \in Agents |-> None]

\* The first client to push for an unowned agent becomes its owner.
Claim(a, c) ==
  /\ owner[a] = None
  /\ owner' = [owner EXCEPT ![a] = c]
  /\ admitted' \in {admitted, {<<a, c>>}}
  /\ UNCHANGED shown

\* A push by the owner is let in.
Admit(a, c) ==
  /\ owner[a] = c
  /\ admitted' = {<<a, c>>}
  /\ UNCHANGED <<owner, shown>>

\* An admitted push is published, unless something newer is on show.
Publish(a, c, t) ==
  /\ <<a, c>> \in admitted
  /\ shown[a] # None => t >= shown[a]
  /\ shown' = [shown EXCEPT ![a] = t]
  /\ admitted' = {}
  /\ UNCHANGED owner

\* An admitted push is dropped: it was older than what is on show.
Drop ==
  /\ admitted' = {}
  /\ UNCHANGED <<owner, shown>>

\* A wipe frees some agents; nobody gains a claim by it.
Wipe(S) ==
  /\ owner' = [a \in Agents |-> IF a \in S THEN None ELSE owner[a]]
  /\ UNCHANGED <<admitted, shown>>

\* A restart forgets everything but the owners, or those too.
Restart ==
  /\ shown' = [a \in Agents |-> None]
  /\ admitted' = {}
  /\ owner' \in {owner, [a \in Agents |-> None]}

Next ==
  \/ Drop
  \/ Restart
  \/ \E a \in Agents, c \in Clients : Claim(a, c) \/ Admit(a, c)
  \/ \E a \in Agents, c \in Clients, t \in Times : Publish(a, c, t)
  \/ \E S \in SUBSET Agents : Wipe(S)

Spec == Init /\ [][Next]_vars
=============================================================================
