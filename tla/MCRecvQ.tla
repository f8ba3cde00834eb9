------------------------------- MODULE MCRecvQ -------------------------------
(* A small instance of RecvQ: a user who floods with a line that is too     *)
(* long and becomes an operator or exempt, and a server.  The sizes keep    *)
(* their order: NoLine < BufSize < Flood < ReadMax < ReadBuf.  A line that  *)
(* exceeds ReadBuf would take along those behind it; none does.            *)
EXTENDS RecvQ

Flooder == <<"R", "|", "m", "x", "x", "x", "|", "|", "O", "|", "m", "x", "|", "Q", "|">>
Link == <<"S", "|", "|", "m", "x", "x", "|", "m">>

MCConn == {"u", "s"}
MCScript == [c \in MCConn |-> CASE c = "u" -> Flooder [] c = "s" -> Link]
===============================================================================
