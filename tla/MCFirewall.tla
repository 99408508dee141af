----------------------------- MODULE MCFirewall -----------------------------
(***************************************************************************)
(* Instances of Firewall: a client that may reach everything, the default, *)
(* and one with a list of its own.                                         *)
(***************************************************************************)
EXTENDS Firewall, TLC

CONSTANTS c1, c2, w1, w2

Open == (c1 :> Place) @@ (c2 :> {"site"})

\* The lockdown off, without a target, or with one of either family; the
\* proxy is switched by requests of its own.
NoProxy == {r \in Row : ~r.proxy /\ (~r.dns => r.target = "none" /\ ~r.strict)}

TaskSymmetry == Permutations({w1, w2})
=============================================================================
