--------------------------- MODULE MCGenericWalk ---------------------------
(***************************************************************************)
(* A diamond of jobs: J1 spawns J2 and J3, which both spawn J4 (the walker *)
(* does not deduplicate, so J4 runs twice), and J4 spawns nothing.         *)
(***************************************************************************)
EXTENDS GenericWalk

CONSTANTS J1, J2, J3, J4, w1, w2, w3

MCJobIds == {J1, J2, J3, J4}
MCSpawns == J1 :> <<J2, J3>> @@ J2 :> <<J4>> @@ J3 :> <<J4>> @@ J4 :> << >>
MCInitial == <<J1>>

=============================================================================
