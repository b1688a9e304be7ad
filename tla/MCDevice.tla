------------------------------ MODULE MCDevice ------------------------------
(***************************************************************************)
(* Device on two clients, two capture times and a two-poll button hold.    *)
(***************************************************************************)
EXTENDS Device, TLC

MCTimes == {1, 2}

\* Clients are interchangeable; no property tells one from the other.
Symmetry == Permutations(Clients)
=============================================================================
