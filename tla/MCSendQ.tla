------------------------------- MODULE MCSendQ -------------------------------
(* Small instances of SendQ: a compressed link and a client, which is an    *)
(* operator too and lists channels of two buckets, one of them new.         *)
EXTENDS SendQ, TLC

MCOrder == <<"s", "u">>
MCLimit == ("s" :> 1) @@ ("u" :> 3)
MCChains == <<<<"#a", "#b">>, << >>>>
MCHash == ("#a" :> 1) @@ ("#b" :> 1) @@ ("#c" :> 1)

(* A line to both, a short one to the client, and a burst to the link.      *)
Line(src, to, n, burst) == [src |-> src, to |-> to, n |-> n, burst |-> burst]
MCTraffic == {Line("u", {"s", "u"}, 2, 0), Line("s", {"u"}, 1, 0),
              Line("u", {"s"}, 2, 1)}
===============================================================================
