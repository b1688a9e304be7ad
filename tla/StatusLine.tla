----------------------------- MODULE StatusLine -----------------------------
(***************************************************************************)
(* The Claude status line (claude_statusline.py): every line Claude draws  *)
(* leaves behind a child that pushes the usage it was drawn with.  The     *)
(* children share the files and nothing else, and may overtake each other. *)
(***************************************************************************)
EXTENDS Fanout

Children == {q \in Procs : q[1] = "child"}

\* The usage that is drawn is the usage of that moment.
Work ==
  /\ usage < MaxUsage
  /\ usage' = usage + 1
  /\ UNCHANGED <<store, slot, up, addr, cache, call, told>>

Turn(q) ==
  /\ call[q].pc = "idle"
  /\ Start(q, usage)
  /\ UNCHANGED <<world, cache, told>>

\* A child writes one file after the other, and others run in between.
Writes(q, d) ==
  /\ d \in DOMAIN call[q].res /\ \A e \in DOMAIN call[q].res : d <= e
  /\ Book(q, {d}, outcome)

ChildStep(q) ==
  \/ \E d \in Devices : \/ Claim(q, d, FALSE) \/ Send(q, d, FALSE)
                        \/ Retry(q, d, FALSE) \/ Writes(q, d)
  \/ Find(q, Visible) \/ Browse(q, Visible) \/ Split(q, Visible)
  \/ Claimed(q) \/ Refresh(q) \/ Settle(q)

\* It is killed, or a browse fails outside of a try.
ChildDies(q) ==
  /\ call[q].pc # "idle"
  /\ call' = [call EXCEPT ![q] = Idle]
  /\ UNCHANGED <<world, cache, told>>
=============================================================================
