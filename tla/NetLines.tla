------------------------------- MODULE NetLines -------------------------------
(***************************************************************************)
(* The lists that servers share: G-lines and Z-lines of the operators, and  *)
(* the SQ-, SX-, SV-lines and vlinks of the services.  Each server adds and *)
(* removes what it is told, passes it on to its other links, and sends what *)
(* it has when a link comes up.  A list is a sequence, newest line first;   *)
(* G- and Z-lines run out, and are removed when a search passes them.       *)
(***************************************************************************)
EXTENDS Integers, Sequences, SequencesExt, FiniteSetsExt

CONSTANTS
    Server, Peers,   \* servers; Peers[s]: the neighbours of s in a tree
    Uplink,          \* Uplink[s]: the next server towards the services
    Services,        \* the server that the services link to
    Mask, Sort,      \* masks; Sort[m]: the list that m belongs to
    Matching,        \* Matching[m]: the masks that a search finds m for
    Person, Home,    \* clients; Home[c]: their server
    Hits, Sits,      \* Hits[m], Sits[m]: the clients m is about when they
                     \* register and afterwards (see apply_gline)
    Auto,            \* Auto[c]: the mask *@host of c
    Immune,          \* clients with an exempt I line
    Begin,           \* sets of the services' lines that every server may begin with
    Secs,            \* how long a G-line or Z-line lasts
    MaxTime, MaxOps, MaxCuts    \* bounds: clock, commands, broken links

ASSUME NetLinesAssumption ==
    /\ Services \in Server /\ Home \in [Person -> Server]
    /\ \A s \in Server : Peers[s] \subseteq Server \ {s}
    /\ Sort \in [Mask -> {"G", "Z", "SQ", "SX", "SV", "VL"}]
    /\ Matching \in [Mask -> SUBSET Mask] /\ \A m \in Mask : m \in Matching[m]
    /\ \A m \in Mask : Sits[m] \subseteq Hits[m] /\ Hits[m] \subseteq Person
    /\ Auto \in [Person -> Mask] /\ Immune \subseteq Person /\ Begin \subseteq SUBSET Mask

VARIABLES
    lines,     \* lines[s][k]: list k of server s
    person,    \* person[c]: "off", "nick" (has sent NICK), "person"
    svsinfo,   \* my_svsinfo_ts
    wire,      \* wire[<<s, t>>]: what s has sent to t
    up,        \* the directed links that stand
    time, ops, cuts,    \* CurrentTime; commands and breaks so far
    crossed    \* history: lines whose removal met their arrival, see Agree

nvars == <<lines, person, svsinfo, wire, up, time, ops, cuts, crossed>>

Pair == UNION {{s} \X Peers[s] : s \in Server}
ListName == {"G", "Z", "SQ", "SX", "SV", "VL"}
OfServices == {"SQ", "SX", "SV", "VL"}
Timed == {"G", "Z"}
SMasks == {m \in Mask : Sort[m] \in OfServices}
Forever == MaxTime + Secs + 1

Message == [t : {"add"}, m : Mask, secs : Int] \cup [t : {"del"}, m : Mask]
           \cup [t : {"ungline_all"}] \cup [t : {"svsinfo"}, ts : Nat, services : BOOLEAN]

Entry(m, secs) == [m |-> m, hold |-> IF Sort[m] \in Timed THEN time + secs ELSE Forever]

NInit ==
    /\ \E b \in Begin :
           lines = [s \in Server |-> [k \in ListName |->
                      [i \in 1 .. Cardinality({m \in b : Sort[m] = k}) |->
                          Entry(SetToSeq({m \in b : Sort[m] = k})[i], 0)]]]
    /\ person = [c \in Person |-> "off"]
    /\ svsinfo = [s \in Server |-> 0]
    /\ wire = [l \in Pair |-> << >>] /\ up = Pair
    /\ time = 0 /\ ops = 0 /\ cuts = 0 /\ crossed = {}

-----------------------------------------------------------------------------
(* Searches.  find_is_glined takes a line out that is over, find_zline one  *)
(* that has been over for a second; both stop at the first line that fits.  *)
Over(x) == \/ Sort[x.m] = "G" /\ x.hold <= time
           \/ Sort[x.m] = "Z" /\ time > x.hold
Fits(x, m) == ~Over(x) /\ m \in Matching[x.m]
Covered(q, m) == \E i \in DOMAIN q : Fits(q[i], m)
Searched(q, Test(_)) ==
    LET stop == {i \in DOMAIN q : ~Over(q[i]) /\ Test(q[i])}
        cut == IF stop = {} THEN Len(q) ELSE CHOOSE i \in stop : \A j \in stop : i <= j
        Stands(x) == ~Over(x)
    IN  SelectSeq(SubSeq(q, 1, cut), Stands) \o SubSeq(q, cut + 1, Len(q))
AfterSearch(q, m) == LET T(x) == m \in Matching[x.m] IN Searched(q, T)
Has(s, m) == \E i \in DOMAIN lines[s][Sort[m]] : lines[s][Sort[m]][i].m = m

(* apply_gline: the clients of s whom the lines in ms strike.  It compares  *)
(* the name with its ~, find_gkill at registration the name without.        *)
apply_gline_Others(s, ms) ==
    {c \in Person : /\ person[c] # "off" /\ Home[c] # s /\ c \notin Immune
                    /\ \E m \in ms : c \in Sits[m]}

apply_gline(s, ms) ==
    {c \in Person : /\ person[c] # "off" /\ Home[c] = s /\ c \notin Immune
                    /\ \E m \in ms : c \in Sits[m]}
Struck(s, ms) == [c \in Person |-> IF c \in apply_gline(s, ms) THEN "off" ELSE person[c]]

-----------------------------------------------------------------------------
(* m_gline, m_zline, m_sqline, m_sxline, m_svline and m_vlink: a line that  *)
(* the list covers already goes no further, except a vlink.                     *)
Add(s, m, secs) ==
    LET k == Sort[m]
        q == AfterSearch(lines[s][k], m)
        known == Covered(lines[s][k], m)
        msg == <<[t |-> "add", m |-> m, secs |-> secs]>>
    IN  [lines |-> [lines EXCEPT ![s][k] = IF known THEN q ELSE <<Entry(m, secs)>> \o q],
         person |-> IF k = "G" /\ ~known THEN Struck(s, {m}) ELSE person,
         msgs |-> IF known /\ k # "VL" THEN << >> ELSE msg]

(* m_ungline, m_unzline and so on: the first line with that very mask;      *)
(* UNSQLINE and VLINK - are passed on even when there is none.              *)
Del(s, m) ==
    LET q == lines[s][Sort[m]]
        at == {i \in DOMAIN q : q[i].m = m}
        first == CHOOSE i \in at : \A j \in at : i <= j
    IN  [lines |-> [lines EXCEPT ![s][Sort[m]] = IF at = {} THEN @ ELSE RemoveAt(@, first)],
         person |-> person,
         msgs |-> IF at = {} /\ Sort[m] \notin {"SQ", "VL"} THEN << >>
                  ELSE <<[t |-> "del", m |-> m]>>]

Cleared(s) == [lines EXCEPT ![s] = [k \in ListName |-> IF k \in OfServices THEN << >> ELSE lines[s][k]]]

(* m_svsinfo: newer services data, or the services themselves, clear what   *)
(* the server has of it.                                                    *)
m_svsinfo(s, msg) == msg.services \/ svsinfo[s] < msg.ts

(* What s does with a message: its lists and clients, and what it passes on *)
(* to every link but the one the message came from (sendto_serv_butone).    *)
Handling(s, msg) ==
    CASE msg.t = "add" -> Add(s, msg.m, msg.secs)
      [] msg.t = "del" -> Del(s, msg.m)
      [] msg.t = "ungline_all" ->
             [lines |-> [lines EXCEPT ![s]["G"] = << >>], person |-> person, msgs |-> <<msg>>]
      [] msg.t = "svsinfo" /\ m_svsinfo(s, msg) ->
             [lines |-> Cleared(s), person |-> person, msgs |-> <<msg>>]
      [] OTHER -> [lines |-> lines, person |-> person, msgs |-> << >>]

Pass(s, from, msgs) ==
    wire' = [l \in Pair |-> IF l = <<from, s>> THEN Tail(wire[l])
                            ELSE IF l \in up /\ l[1] = s /\ l[2] # from
                            THEN wire[l] \o msgs ELSE wire[l]]

Handle(s, from, msg) ==
    LET h == Handling(s, msg)
    IN  /\ lines' = h.lines /\ person' = h.person
        /\ svsinfo' = IF msg.t = "svsinfo" /\ m_svsinfo(s, msg)
                      THEN [svsinfo EXCEPT ![s] = msg.ts] ELSE svsinfo
        /\ Pass(s, from, h.msgs)

-----------------------------------------------------------------------------
Command == ops < MaxOps /\ ops' = ops + 1
Unchanged == UNCHANGED <<up, time, cuts>>

(* Operators place and remove G-lines and Z-lines.                          *)
OperAdd(s, m) ==
    /\ Command /\ Sort[m] \in Timed
    /\ Handle(s, s, [t |-> "add", m |-> m, secs |-> Secs])
    /\ Unchanged /\ UNCHANGED crossed
OperDel(s, m) ==
    /\ Command /\ Sort[m] \in Timed /\ Handle(s, s, [t |-> "del", m |-> m])
    /\ Unchanged /\ UNCHANGED crossed
UnglineAll(s) ==
    /\ Command /\ Handle(s, s, [t |-> "ungline_all"])
    /\ Unchanged /\ UNCHANGED crossed

(* GLINE #channel: a line for each member, then every line of the list is   *)
(* applied, one that is over too.                                           *)
ChannelGline(s, C) ==
    LET OneMore(x, c) ==
            LET q == AfterSearch(x.q, Auto[c])
            IN  IF Covered(x.q, Auto[c]) THEN [x EXCEPT !.q = q]
                ELSE [q |-> <<Entry(Auto[c], Secs)>> \o q,
                      msgs |-> Append(x.msgs, [t |-> "add", m |-> Auto[c], secs |-> Secs])]
        x == FoldLeft(OneMore, [q |-> lines[s]["G"], msgs |-> << >>], SetToSeq(C))
    IN  /\ Command /\ C # {} /\ \A c \in C : person[c] = "person"
        /\ lines' = [lines EXCEPT ![s]["G"] = x.q]
        /\ person' = Struck(s, {x.q[i].m : i \in DOMAIN x.q})
        /\ Pass(s, s, x.msgs)
        /\ Unchanged /\ UNCHANGED <<svsinfo, crossed>>

(* m_message: a client says what an SV-line forbids (GLineOnSVline).        *)
SvlineSaid(c) ==
    LET s == Home[c]
    IN  /\ Command /\ person[c] = "person"
        /\ \E i \in DOMAIN lines[s]["SV"] : c \in Hits[lines[s]["SV"][i].m]
        /\ lines' = [lines EXCEPT ![s]["G"] = <<Entry(Auto[c], Secs)>> \o @]
        /\ person' = Struck(s, {Auto[c]})
        /\ Pass(s, s, <<[t |-> "add", m |-> Auto[c], secs |-> Secs]>>)
        /\ Unchanged /\ UNCHANGED <<svsinfo, crossed>>

(* The services add, remove, or begin anew.                                 *)
Rising(m) == \E s \in Server \ {Services} :
                [t |-> "add", m |-> m, secs |-> 0] \in ToSet(wire[<<s, Uplink[s]>>])
ServicesAdd(m) ==
    /\ Command /\ m \in SMasks
    /\ Handle(Services, Services, [t |-> "add", m |-> m, secs |-> 0])
    /\ Unchanged /\ UNCHANGED crossed
ServicesDel(m) ==
    /\ Command /\ m \in SMasks /\ Handle(Services, Services, [t |-> "del", m |-> m])
    /\ crossed' = crossed \cup {x \in {m} : Rising(x)}
    /\ Unchanged
ServicesSync ==
    /\ Command
    /\ Handle(Services, Services, [t |-> "svsinfo", ts |-> svsinfo[Services] + 1, services |-> TRUE])
    /\ crossed' = crossed \cup {x \in SMasks : Rising(x)}
    /\ Unchanged

(* A server takes the next message of a link.                               *)
Receive(s, t) ==
    /\ wire[<<s, t>>] # << >> /\ Handle(t, s, Head(wire[<<s, t>>]))
    /\ Unchanged /\ UNCHANGED <<ops, crossed>>

-----------------------------------------------------------------------------
(* A link breaks; it comes up, and each side sends what it has              *)
(* (server_estab).  Z-lines are not sent: nothing calls send_all_zlines.    *)
Cut(s, t) ==
    /\ cuts < MaxCuts /\ cuts' = cuts + 1 /\ <<s, t>> \in up
    /\ up' = up \ {<<s, t>>, <<t, s>>}
    /\ wire' = [wire EXCEPT ![<<s, t>>] = << >>, ![<<t, s>>] = << >>]
    /\ UNCHANGED <<lines, person, svsinfo, time, ops, crossed>>

Sent(q) == [i \in DOMAIN q |-> [t |-> "add", m |-> q[i].m,
                                secs |-> IF Sort[q[i].m] = "G" THEN q[i].hold - time ELSE 0]]
server_estab(s) ==
    <<[t |-> "svsinfo", ts |-> svsinfo[s], services |-> FALSE]>>
    \o Sent(lines[s]["SQ"]) \o Sent(lines[s]["SX"]) \o Sent(lines[s]["SV"])
    \o Sent(lines[s]["VL"]) \o Sent(lines[s]["G"])

(* Lines that come up to the services' side while their removal, or newer   *)
(* data that lacks them, is on its way down.                                *)
Falling(m) == \E l \in up : \E msg \in ToSet(wire[l]) :
                 \/ msg.t = "del" /\ msg.m = m
                 \/ msg.t = "svsinfo" /\ msg.services
Meet(s, t) == {m \in SMasks : /\ Has(s, m)
                              /\ Falling(m) \/ (svsinfo[s] < svsinfo[t] /\ ~Has(t, m))}
Link(s, t) ==
    /\ <<s, t>> \notin up
    /\ up' = up \cup {<<s, t>>, <<t, s>>}
    /\ wire' = [wire EXCEPT ![<<s, t>>] = server_estab(s), ![<<t, s>>] = server_estab(t)]
    /\ crossed' = crossed \cup Meet(s, t)
    /\ UNCHANGED <<lines, person, svsinfo, time, ops, cuts>>

-----------------------------------------------------------------------------
(* m_nick looks at the SQ-lines, verify_access at the others.               *)
Struckby(q, c) == \E i \in DOMAIN q : ~Over(q[i]) /\ c \in Hits[q[i].m]
Passed(q, c) == LET T(x) == c \in Hits[x.m] IN Searched(q, T)
Nick(c) ==
    /\ person[c] = "off" /\ ~Struckby(lines[Home[c]]["SQ"], c)
    /\ person' = [person EXCEPT ![c] = "nick"]
    /\ Unchanged /\ UNCHANGED <<lines, svsinfo, wire, ops, crossed>>

find_gkill(q, c) == Struckby(q, c)

Register(c) ==
    LET my == lines[Home[c]]
        zapped == Struckby(my["Z"], c)
        banned == c \notin Immune /\ (find_gkill(my["G"], c) \/ Struckby(my["SX"], c))
    IN  /\ person[c] = "nick"
        /\ person' = [person EXCEPT ![c] = IF zapped \/ banned THEN "off" ELSE "person"]
        /\ lines' = [lines EXCEPT
                       ![Home[c]]["Z"] = Passed(@, c),
                       ![Home[c]]["G"] = IF zapped \/ c \in Immune THEN @ ELSE Passed(@, c)]
        /\ Unchanged /\ UNCHANGED <<svsinfo, wire, ops, crossed>>

Quit(c) ==
    /\ person[c] # "off" /\ person' = [person EXCEPT ![c] = "off"]
    /\ Unchanged /\ UNCHANGED <<lines, svsinfo, wire, ops, crossed>>

Tick == /\ time < MaxTime /\ time' = time + 1
        /\ UNCHANGED <<lines, person, svsinfo, wire, up, ops, cuts, crossed>>

NNext == \/ \E s \in Server, m \in Mask : OperAdd(s, m) \/ OperDel(s, m)
         \/ \E s \in Server : UnglineAll(s) \/ \E C \in SUBSET Person : ChannelGline(s, C)
         \/ \E m \in Mask : ServicesAdd(m) \/ ServicesDel(m)
         \/ ServicesSync
         \/ \E s \in Server : \E t \in Peers[s] : Receive(s, t)
         \/ \E s \in Server \ {Services} : Cut(s, Uplink[s]) \/ Link(s, Uplink[s])
         \/ \E c \in Person : SvlineSaid(c) \/ Nick(c) \/ Register(c) \/ Quit(c)
         \/ Tick

NSpec == NInit /\ [][NNext]_nvars

-----------------------------------------------------------------------------
(* Nobody is on a server whom one of its G-lines in force is about, however *)
(* the line came: from an operator, a message, a channel or a netjoin.      *)
(* (m_gline, apply_gline, find_gkill, send_all_glines.)                     *)
Enforced ==
    \A c \in Person \ Immune : person[c] = "person" =>
        ~\E i \in DOMAIN lines[Home[c]]["G"] :
            LET x == lines[Home[c]]["G"][i] IN ~Over(x) /\ c \in Sits[x.m]

(* When nothing is on its way, linked servers have the same lines of the    *)
(* services; except for a line that a netjoin brought up while its removal  *)
(* was on its way down.  (m_svsinfo, server_estab and the handlers.)        *)
Agree ==
    (\A l \in Pair : wire[l] = << >>) =>
        \A l \in up, m \in SMasks \ crossed : Has(l[1], m) <=> Has(l[2], m)

(* Every server acts on the lines that it has, and they have the same: both *)
(* of the above.                                                            *)
NetLinesRight == Enforced /\ Agree
===============================================================================
