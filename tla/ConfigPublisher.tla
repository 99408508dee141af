-------------------------- MODULE ConfigPublisher --------------------------
(***************************************************************************)
(* What save_config promises its callers: the interface serves a set of    *)
(* peers that was wanted at some time, and a change that has been made but *)
(* not yet taken up is owed a snapshot.  Nothing is said of files, tasks   *)
(* or subprocesses.                                                        *)
(***************************************************************************)
CONSTANT NoSnapshot

VARIABLES
  wanted,   \* the peers the roster grants access to
  owed,     \* a change was committed and no snapshot taken since
  taken,    \* the snapshot on its way to the interface
  live      \* the peers the interface serves

vars == <<wanted, owed, taken, live>>

Init == wanted = {} /\ live = {} /\ taken = NoSnapshot /\ owed = FALSE

\* Whoever changes the roster owes a snapshot.
Change == owed' = TRUE /\ UNCHANGED <<taken, live>>

\* One snapshot is on its way at a time; other callers may still owe theirs.
Take ==
  /\ owed /\ taken = NoSnapshot
  /\ taken' = wanted
  /\ UNCHANGED <<wanted, live>>

Publish ==
  /\ taken # NoSnapshot
  /\ live' = taken /\ taken' = NoSnapshot
  /\ UNCHANGED <<wanted, owed>>

\* A restart drops the peers and brings the same ones back.
Restart ==
  /\ taken = NoSnapshot
  /\ taken' = live /\ live' = {}
  /\ UNCHANGED <<wanted, owed>>

Next == Change \/ Take \/ Publish \/ Restart

Spec == Init /\ [][Next]_vars

-----------------------------------------------------------------------------
\* Nothing is owed and nothing is on its way only if the interface serves
\* what is wanted.
Served == owed \/ taken # NoSnapshot \/ live = wanted

\* The snapshot on its way is the latest, unless a newer one is owed.
Fresh == taken # NoSnapshot => owed \/ taken = wanted
=============================================================================
