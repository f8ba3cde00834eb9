-------------------------------- MODULE MCTold --------------------------------
(***************************************************************************)
(* A channel with two of our clients and one behind the link; netjoins      *)
(* bring each kind of mode.                                                 *)
(***************************************************************************)
EXTENDS Told

MCOffered == {Plain, [Plain EXCEPT !.flags = {"K"}], [Plain EXCEPT !.flags = {"m"}, !.limit = 1],
              [Plain EXCEPT !.limit = 2, !.key = 1], [Plain EXCEPT !.msgs = 2]}
=============================================================================
