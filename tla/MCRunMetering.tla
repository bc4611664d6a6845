---------------------------- MODULE MCRunMetering ----------------------------
(***************************************************************************)
(* Instances of RunMetering for TLC.                                       *)
(***************************************************************************)
EXTENDS RunMetering, TLC

CONSTANTS a1, a2, r1, r2, r3

\* two requests of one user and one of another
TwoUsers == r1 :> a1 @@ r2 :> a1 @@ r3 :> a2
OneUser == r1 :> a1 @@ r2 :> a1
EachOwnUser == r1 :> a1 @@ r2 :> a2
UnitCalls == {1}
=============================================================================
