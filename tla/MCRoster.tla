------------------------------ MODULE MCRoster ------------------------------
(***************************************************************************)
(* Instances of Roster over a 3-bit address space: two blocks of four      *)
(* addresses, so a block has one host beside the server's and the          *)
(* allocator runs out, or one block of eight.                              *)
(***************************************************************************)
EXTENDS Roster, TLC

CONSTANTS u1, w1, w2

Lower == [addr |-> 0, size |-> 4]
Upper == [addr |-> 4, size |-> 4]
Whole == [addr |-> 0, size |-> 8]

OneBlock    == {Whole}
TwoBlocks   == {Lower, Whole}
ThreeBlocks == {Lower, Upper, Whole}

\* An admin moves a client to an address the allocator hands out too.
MoveClient == {[NoChange EXCEPT !.ip = 3]}

\* A client is renewed, in one request or along with its enabling.
Renew == {[NoChange EXCEPT !.expiry = "ahead"],
          [NoChange EXCEPT !.expiry = "ahead", !.enabled = TRUE]}

TaskSymmetry == Permutations({w1, w2})
=============================================================================
