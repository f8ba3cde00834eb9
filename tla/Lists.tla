--------------------------------- MODULE Lists ---------------------------------
(***************************************************************************)
(* What is left of a linked list when nodes are taken out of it.            *)
(***************************************************************************)
EXTENDS Naturals, Sequences, FiniteSets

(* The nodes of s at the places I, in their order.                          *)
Pick(s, I) == [k \in 1 .. Cardinality(I) |->
                  s[CHOOSE i \in I : Cardinality({j \in I : j <= i}) = k]]
===============================================================================
