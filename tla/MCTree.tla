-------------------------------- MODULE MCTree --------------------------------
(***************************************************************************)
(* Three servers, a connection between any two; 3 lets only 2 have servers  *)
(* behind it.                                                               *)
(***************************************************************************)
EXTENDS Tree, TLC

MCEnds == (1 :> <<1, 2>>) @@ (2 :> <<2, 3>>) @@ (3 :> <<3, 1>>)
MCNLines == [s \in Site |-> Site]
MCHLines == [s \in Site |-> IF s = 3 THEN {2} ELSE Site]

TSpec == TInit /\ [][TNext]_tvars
===============================================================================
