------------------------------- MODULE MCSplit -------------------------------
(***************************************************************************)
(* What becomes of the network when links break and servers meet: the       *)
(* members of a channel (ChanTS) on a line of three servers, its topic      *)
(* (Topic) on three servers and services, what is told of it on one server  *)
(* (Told), or the tree of three servers itself (Tree).  A behaviour is one  *)
(* of one of the four, and the others stay as they began.                   *)
(***************************************************************************)
EXTENDS MCChanTS, MCTold, Topic, MCTree, Integers

VARIABLE part

SInit ==
    /\ part \in {"members", "topic", "told", "tree"}
    /\ Init /\ OInit /\ ToInit /\ TInit
    /\ part # "topic" => joined = Joint
SNext == /\ UNCHANGED part
         /\ \/ part = "members" /\ Next /\ UNCHANGED <<ovars, tvars_, tvars>>
            \/ part = "topic" /\ ONext /\ UNCHANGED <<vars, tvars_, tvars>>
            \/ part = "told" /\ ToNext /\ UNCHANGED <<vars, ovars, tvars>>
            \/ part = "tree" /\ TNext /\ UNCHANGED <<vars, ovars, tvars_>>
SSpec == SInit /\ [][SNext]_<<part, vars, ovars, tvars_, tvars>>

(* 1 - 2 - 3 - services, linked, or in two halves of which one has them or  *)
(* not.                                                                     *)
Chain == <<1, 2, 3, 9>>
At(h) == CHOOSE i \in DOMAIN Chain : Chain[i] = h
MCJoint == [h \in Host |-> {n \in Host : At(n) - At(h) \in {1, -1}}]
MCBehind == [h \in Host |-> [x \in Host |->
                {y \in Host : IF At(x) < At(h) THEN At(y) <= At(x)
                              ELSE IF x = h THEN y = h ELSE At(x) <= At(y)}]]
MCSides == {{Host}, {{1, 2}, {3, 9}}, {{1, 2}, {3}, {9}}}
=============================================================================
