------------------------------ MODULE MCNickTS ------------------------------
(***************************************************************************)
(* Clients of the servers 1 - 2 - 3: their nicks (NickTS) when the servers  *)
(* are linked already, or meet while a client or services (3) change a      *)
(* nick; or their modes (Users).  A behaviour is one of one part, and the   *)
(* others stay as they began.                                               *)
(***************************************************************************)
EXTENDS NickTS, Users, TLC

VARIABLE part

LineVia == [s \in 1..3 |-> [t \in 1..3 |->
              CASE s = t -> t [] s = 2 -> t [] OTHER -> 2]]

LineHome == ("u1" :> 1) @@ ("u2" :> 2) @@ ("u3" :> 3)

(* All clients are different users.                                        *)
Strangers == [u \in Client |-> u]

(* Any nicks and timestamps.                                               *)
StartAny == [nick : [Present -> Nick], ts : [Present -> Now]]

(* The meeting: everybody is registered, with the nick a or b; u1 and u2    *)
(* are one user, and only their nicks may collide with the one of u3.       *)
Begun == {st \in [nick : [Client -> {"a", "b"}], ts : [Client -> Now]] :
             \A u \in {"u1", "u2"} : st.nick[u] # st.nick["u3"]}
Cloned == [u \in Client |-> IF u = "u2" THEN "u1" ELSE u]
M == INSTANCE NickTS WITH
        UserHost <- Cloned, Services <- {3}, Present <- Client, Start <- Begun, Linked <- FALSE,
        Acts <- {"refuse", "svsnick", "change", "quit"}, MaxOps <- 1

(* The modes of two clients, one at either end.                             *)
MCNear == (1 :> {2}) @@ (2 :> {1, 3}) @@ (3 :> {2})
MCTowards == [s \in 1 .. 3 |-> [t \in 1 .. 3 |-> IF s = t THEN t ELSE IF s = 2 THEN t ELSE 2]]
MCSeat == ("u" :> 1) @@ ("v" :> 3)
MCSpeaks == ("*v" :> {"v"}) @@ ("*" :> {"u", "v"})
MCDoing ==
    ({"welcome", "leave", "oper"} :> 4) @@ ({"welcome", "leave", "svsmode"} :> 3)
    @@ ({"welcome", "mode", "oper", "noopers"} :> 4)
    @@ ({"welcome", "svsmode", "mode", "rename"} :> 3)
    @@ ({"welcome", "silence", "speak", "leave"} :> 5)
    @@ ({"welcome", "away", "speak", "leave"} :> 4)

-----------------------------------------------------------------------------
MInit == /\ part \in {"linked", "meeting", "modes"} /\ UInit
         /\ IF part = "meeting" THEN M!Init ELSE Init
         /\ part = "modes" => /\ tab[1].name["u1"] = "a" /\ tab[1].name["u2"] = "b"
                              /\ tab[1].ts["u1"] = 1 /\ tab[1].ts["u2"] = 1
         /\ part # "modes" => doing = CHOOSE d \in DOMAIN Doing : TRUE
MNext == /\ UNCHANGED part
         /\ \/ part = "linked" /\ Next /\ UNCHANGED uvars
            \/ part = "meeting" /\ M!Next /\ UNCHANGED uvars
            \/ part = "modes" /\ UNext /\ UNCHANGED vars
MReceive(s, t) == IF part = "meeting" THEN M!Receive(s, t) ELSE Receive(s, t)
MSpec == /\ MInit /\ [][MNext]_<<part, vars, uvars>>
         /\ \A s, t \in Server : WF_vars(MReceive(s, t)) /\ WF_vars(Connect(t, s))

(* Commands cross on linked servers only; a meeting is judged by            *)
(* NetjoinAgrees.                                                           *)
CrossingAgrees == part = "linked" => NicksAgree
=============================================================================
