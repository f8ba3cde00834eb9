--------------------------------- MODULE Pipe ---------------------------------
(***************************************************************************)
(* What the SendQ of a connection promises.  Bytes handed to a connection   *)
(* that is up reach the peer in the order in which they were handed over,   *)
(* none missing and none twice; a connection that goes down delivers        *)
(* nothing more.  Bytes are named by their place in the stream of their     *)
(* connection, 0, 1, 2, ...                                                 *)
(***************************************************************************)
EXTENDS Integers

CONSTANT Link

VARIABLES sent,   \* sent[c]: number of bytes handed to connection c
          seen,   \* seen[c]: the bytes its peer has received
          up      \* up[c]: neither dead nor closed

vars == <<sent, seen, up>>

First(n) == 0 .. (n - 1)

Init == /\ sent = [c \in Link |-> 0]
        /\ seen = [c \in Link |-> {}]
        /\ up = [c \in Link |-> TRUE]

Send(c) == /\ up[c]
           /\ sent'[c] > sent[c]
           /\ sent' = [sent EXCEPT ![c] = sent'[c]]
           /\ UNCHANGED <<seen, up>>

(* The peer receives the next bytes, never one that was not sent.           *)
Deliver(c) == /\ up[c]
              /\ \E k \in 1 .. sent[c] : /\ seen[c] \subseteq First(k)
                                         /\ seen' = [seen EXCEPT ![c] = First(k)]
              /\ UNCHANGED <<sent, up>>

(* An error, a full queue or the end of the connection; the peer may still  *)
(* have received what one last write took.                                  *)
Down(c) == up' = [up EXCEPT ![c] = FALSE] /\ UNCHANGED <<sent, seen>>

Next == \E c \in Link : Send(c) \/ Deliver(c) \/ Down(c)

Spec == Init /\ [][Next]_vars
===============================================================================
