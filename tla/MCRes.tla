-------------------------------- MODULE MCRes --------------------------------
(* Small instances of Res: a client and a conf item.  The name of the       *)
(* address 1 is x, which has two addresses, or only the other one; w is an  *)
(* alias of x, or of y, whose address is also one of x.                     *)
EXTENDS Res, TLC

Z(name, aliases, addrs) == [name |-> name, aliases |-> aliases, addrs |-> addrs]

MCIp == [c \in Client |-> "1"]
MCHost == [f \in Conf |-> "w"]
MCZone == ("1" :> {Z("x", << >>, << >>), Z(None, << >>, << >>)})
          @@ ("x" :> {Z("x", << >>, <<"1", "2">>), Z("x", << >>, <<"2">>)})
          @@ ("w" :> {Z("x", <<"w">>, <<"2", "1">>), Z("y", <<"w">>, <<"2">>)})
          @@ ("y" :> {Z("y", << >>, <<"2">>)})
MCHashName == ("x" :> 0) @@ ("w" :> 1) @@ ("y" :> 0)
MCHashNum == ("1" :> 0) @@ ("2" :> 1)
=============================================================================
