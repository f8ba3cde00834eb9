-------------------------------- MODULE MCConn --------------------------------
(* Small instances of Conn: two connections, a neighbour at h1, one user    *)
(* class (1), one server class (2), operators in class 0.                   *)
EXTENDS Conn, TLC

MCLine  == {"I", "O", "C", "N", "H"}
MCKind  == [l \in MCLine |-> l]
MCClass == 0 .. 2
MCLineClass == [l \in MCLine |-> IF l = "I" THEN 1 ELSE IF l \in {"C", "N"} THEN 2 ELSE 0]
MCLineHost  == [l \in MCLine |-> "h1"]
MCPerHost   == [k \in MCClass |-> IF k = 1 THEN 1 ELSE 0]

File(lines, classes, ports) ==
    [lines |-> lines, classes |-> classes, ports |-> ports,
     max |-> [k \in MCClass |-> IF k = 1 THEN 1 ELSE 0]]

(* The full file; one that lost the operators, a class and the port; one    *)
(* that lost the users and the H line.                                      *)
MCConfig == {File(MCLine, MCClass, {"p"}),
             File({"I", "C", "N", "H"}, {0, 2}, {}),
             File({"O", "C", "N"}, {0, 1}, {"p"})}
MCUsers == {File({"I", "C", "N"}, MCClass, {"p"})}

SymmetryConn == Permutations(Conn)
===============================================================================
