--------------------------------- MODULE Topic ---------------------------------
(***************************************************************************)
(* The topic of one channel on the servers of a tree.  A client's TOPIC     *)
(* goes everywhere and always wins; the TOPIC of a netjoin loses to an      *)
(* older one, unless services are about: then only the side they are on is  *)
(* believed.  Whether they are about is a flag of each server               *)
(* (services_on) and a mark on the link they are behind.                    *)
(***************************************************************************)
EXTENDS Naturals, Sequences, FiniteSets

CONSTANTS
    Host, Joint,        \* servers; Joint[h]: those with a link to h, a tree
    Behind_,            \* Behind_[h][x]: the servers that are x or behind x as h sees it
    ServicesServer,     \* a leaf of the tree, with no topics of its own
    Sides,              \* partitions of the servers into those linked at first
    Words, NoTopic,     \* topics
    MaxAge, MaxSets, MaxLosses      \* bounds: times, TOPICs, links lost, those at first included

ASSUME TopicAssumption ==
    /\ IsFiniteSet(Host)
    /\ Joint \in [Host -> SUBSET Host] /\ \A h, n \in Host : n \in Joint[h] <=> h \in Joint[n]
    /\ ServicesServer \in Host /\ Cardinality(Joint[ServicesServer]) = 1
    /\ NoTopic \notin Words /\ Sides \subseteq SUBSET SUBSET Host
    /\ MaxAge \in Nat

(* The links make a tree: another server is behind one link, and on one side *)
(* of each; what is behind a server is behind the link it is behind; each    *)
(* side hangs together.                                                      *)
ASSUME TopicTree ==
    /\ \A h \in Host : \A x \in Host \ {h} :
          /\ x \in Behind_[h][x] /\ \E p \in Joint[h] : x \in Behind_[h][p]
          /\ x \notin Joint[h] => Behind_[h][x] \cap Joint[h] = {}
    /\ \A h \in Host : \A p \in Joint[h] :
          /\ h # p /\ h \notin Behind_[h][p] /\ Behind_[h][p] \subseteq Host
          /\ Behind_[h][p] \cap Behind_[p][h] = {}
          /\ \A n \in Joint[h] \ {p} : /\ Behind_[h][p] \cap Behind_[h][n] = {}
                                     /\ Behind_[h][p] \subseteq Behind_[n][h]
    /\ \A P \in Sides : \A side \in P : \A h, x \in side :
          x # h => \E p \in Joint[h] \cap side : x \in Behind_[h][p]

VARIABLES
    joined,         \* joined[h]: the links of h that are established
    seen,           \* seen[h]: the servers h knows
    topic,          \* topic[h]: text and topic_time
    services_on,    \* the servers that believe there are services
    spath,          \* spath[h]: the links of h with FLAGS_SPATH
    wire,           \* wire[h][n]: what h has yet to read of n
    sets, losses,
    \* history
    orderly,        \* nothing has happened that topics do not survive
    misled          \* the servers that lost services with a server in between

ovars == <<joined, seen, topic, services_on, spath, wire, sets, losses, orderly, misled>>

IrcServer == Host \ {ServicesServer}
Nothing_said == [h \in Host |-> [n \in Host |-> << >>]]

OInit ==
    /\ \E P \in Sides :
        /\ losses = Cardinality(P) - 1
        /\ seen = [h \in Host |-> {n \in Host \ {h} : \E side \in P : {h, n} \subseteq side}]
        /\ joined = [h \in Host |-> Joint[h] \cap seen[h]]
    /\ services_on = {h \in Host : ServicesServer \in seen[h]}
    /\ spath = [h \in Host |-> {n \in joined[h] : h \in services_on
                                                   /\ ServicesServer \in Behind_[h][n]}]
    /\ topic = [h \in Host |-> [text |-> NoTopic, time |-> 0]]
    /\ wire = Nothing_said /\ sets = 0 /\ orderly = TRUE /\ misled = {}

Server_line(x) == [cmd |-> "SERVER", name |-> x]
Squit_line(x) == [cmd |-> "SQUIT", name |-> x]
Topic_line(t, server) == [cmd |-> "TOPIC", text |-> t.text, time |-> t.time, server |-> server]
Closed == [cmd |-> "EOF"]

(* What h sends to the links N; to one whose other end is closed it is lost. *)
Shut(lines) == \E i \in 1 .. Len(lines) : lines[i] = Closed
Sends(w, h, N, lines) ==
    [n \in Host |-> [m \in Host |->
        IF m = h /\ n \in N /\ ~Shut(w[h][n]) THEN w[n][m] \o lines ELSE w[n][m]]]
Next_line(h, p, cmd) == wire[h][p] # << >> /\ Head(wire[h][p]).cmd = cmd
Rest_of(h, p) == [wire EXCEPT ![h][p] = Tail(@)]

-----------------------------------------------------------------------------
(* server_estab and the end of a burst: the other links hear of p, and p of *)
(* all that h knows, and of the topic if it has a time.                     *)
Quiet_wires == wire = Nothing_said
In_order(E) == CHOOSE s \in [1 .. Cardinality(E) -> E] : \A x \in E : \E i \in DOMAIN s : s[i] = x
Burst_to(h) == [i \in 1 .. Cardinality(seen[h]) |-> Server_line(In_order(seen[h])[i])]
               \o IF topic[h].time # 0 /\ h # ServicesServer
                  THEN <<Topic_line(topic[h], TRUE)>> ELSE << >>
Services_came(h, p, x) ==
    /\ services_on' = IF x = ServicesServer THEN services_on \cup {h} ELSE services_on
    /\ spath' = IF x = ServicesServer THEN [spath EXCEPT ![h] = @ \cup {p}] ELSE spath
    /\ misled' = IF x = ServicesServer THEN misled \ {h} ELSE misled
Joins(h, p, w, first) ==
    /\ joined' = [joined EXCEPT ![h] = @ \cup {p}]
    /\ seen' = [seen EXCEPT ![h] = @ \cup {p}]
    /\ Services_came(h, p, p)
    /\ wire' = Sends(Sends(w, h, joined[h], <<Server_line(p)>>), h, {p}, first \o Burst_to(h))
    /\ UNCHANGED <<topic, sets, losses>>

(* Two sides that meet end up with one topic if nothing else is on its way,  *)
(* each has one topic, and these are equal or one of the sides gives way: it *)
(* has no services and another time than the other; and if the other has no  *)
(* services either, it has no topic or the younger one, and nobody who still *)
(* believes in services.                                                    *)
One_topic(h, C) ==
    /\ h \in C /\ \A k \in C : joined[k] \subseteq C
    /\ \A k \in C \cap IrcServer : topic[k] = topic[h]
GivesWay(h, n, C) ==
    \/ topic[h] = topic[n]
    \/ /\ topic[n].time \notin {0, topic[h].time}
       /\ \A k \in C : ServicesServer \notin seen[k]
       /\ \/ ServicesServer \in seen[n]
          \/ /\ C \cap services_on = {}
             /\ topic[h].time = 0 \/ topic[n].time < topic[h].time
Meet_well(h, n) ==
    /\ Quiet_wires
    /\ \/ ServicesServer \in {h, n}
       \/ \E A, B \in SUBSET Host :
             /\ One_topic(h, A) /\ One_topic(n, B)
             /\ GivesWay(h, n, A) \/ GivesWay(n, h, B)

(* m_server of the server that was dialled, and of the one that dialled.    *)
Take_link(h, p) ==
    /\ p \in Joint[h] \ joined[h] /\ h \notin joined[p]
    /\ wire[h][p] = << >> /\ wire[p][h] = << >>
    /\ Joins(h, p, wire, <<Server_line(h)>>)
    /\ orderly' = (orderly /\ Meet_well(h, p))
Hear_link(h, p) ==
    /\ Next_line(h, p, "SERVER") /\ Head(wire[h][p]).name = p
    /\ Joins(h, p, Rest_of(h, p), << >>) /\ UNCHANGED orderly

(* m_server of a server behind p.                                           *)
Hear_server(h, p) ==
    /\ Next_line(h, p, "SERVER") /\ Head(wire[h][p]).name # p
    /\ LET x == Head(wire[h][p]).name
       IN  /\ seen' = [seen EXCEPT ![h] = @ \cup {x}] /\ Services_came(h, p, x)
           /\ wire' = Sends(Rest_of(h, p), h, joined[h] \ {p}, <<Server_line(x)>>)
    /\ UNCHANGED <<joined, topic, sets, losses, orderly>>

-----------------------------------------------------------------------------
(* exit_client of x, which is behind p.  Services that go by themselves are *)
(* noticed; services that go because a server in between does are not.      *)
Forgotten(x) == x = ServicesServer
Gone_server(h, p, x, w) ==
    /\ seen' = [seen EXCEPT ![h] = @ \ Behind_[h][x]]
    /\ services_on' = IF Forgotten(x) THEN services_on \ {h} ELSE services_on
    /\ misled' = IF ~Forgotten(x) /\ ServicesServer \in seen[h] \cap Behind_[h][x]
                 THEN misled \cup {h} ELSE misled
    /\ wire' = Sends(w, h, joined[h] \ {p}, <<Squit_line(x)>>)
Lose_link(h, p, w) ==
    /\ joined' = [joined EXCEPT ![h] = @ \ {p}] /\ spath' = [spath EXCEPT ![h] = @ \ {p}]
    /\ Gone_server(h, p, p, w)

(* A link is lost: h closes its end, p reads on to the end.                 *)
Lose(h, p) ==
    /\ losses < MaxLosses /\ losses' = losses + 1 /\ p \in joined[h]
    /\ Lose_link(h, p, [wire EXCEPT ![h][p] = << >>, ![p][h] =
                            IF Shut(wire[h][p]) THEN @ ELSE Append(@, Closed)])
    /\ orderly' = (orderly /\ Quiet_wires) /\ UNCHANGED <<topic, sets>>
Hear_close(h, p) ==
    /\ Next_line(h, p, "EOF")
    /\ Lose_link(h, p, [wire EXCEPT ![h][p] = << >>])
    /\ UNCHANGED <<topic, sets, losses, orderly>>

(* m_squit.                                                                 *)
Hear_squit(h, p) ==
    /\ Next_line(h, p, "SQUIT")
    /\ LET x == Head(wire[h][p]).name
       IN  IF x \in seen[h]
           THEN /\ Gone_server(h, p, x, Rest_of(h, p))
                /\ spath' = IF Forgotten(x) THEN [spath EXCEPT ![h] = @ \ {p}] ELSE spath
           ELSE wire' = Rest_of(h, p) /\ UNCHANGED <<seen, services_on, spath, misled>>
    /\ UNCHANGED <<joined, topic, sets, losses, orderly>>

-----------------------------------------------------------------------------
(* m_topic.  Of a client of h: set again, the same text only loses its time. *)
Same_text(h, text) == topic[h].text = text
Set_topic(h, text) ==
    /\ sets < MaxSets /\ sets' = sets + 1 /\ h # ServicesServer
    /\ \E now \in 1 .. MaxAge :
        IF Same_text(h, text)
        THEN /\ topic' = [topic EXCEPT ![h].time = 0] /\ UNCHANGED wire
             /\ orderly' = FALSE
        ELSE LET t == [text |-> text, time |-> now]
             IN  /\ topic' = [topic EXCEPT ![h] = t]
                 /\ wire' = Sends(wire, h, joined[h], <<Topic_line(t, FALSE)>>)
                 /\ orderly' = (orderly /\ Quiet_wires)
    /\ UNCHANGED <<joined, seen, services_on, spath, losses, misled>>

(* Of another server, about a client's change or in a netjoin.              *)
Keeps_ours_AnyPath(h, p, m) ==
    /\ m.server
    /\ \/ m.time = topic[h].time
       \/ h \notin services_on /\ topic[h].time # 0 /\ topic[h].time <= m.time
Keeps_ours(h, p, m) ==
    /\ m.server
    /\ \/ m.time = topic[h].time
       \/ h \notin services_on /\ topic[h].time # 0 /\ topic[h].time <= m.time
       \/ h \in services_on /\ p \notin spath[h]
Hear_topic(h, p) ==
    /\ Next_line(h, p, "TOPIC")
    /\ LET m == Head(wire[h][p])
           t == [text |-> m.text, time |-> m.time]
       IN  IF Keeps_ours(h, p, m) \/ h = ServicesServer
           THEN wire' = Rest_of(h, p) /\ UNCHANGED topic
           ELSE /\ topic' = [topic EXCEPT ![h] = t]
                /\ wire' = IF Same_text(h, m.text) THEN Rest_of(h, p)
                           ELSE Sends(Rest_of(h, p), h, joined[h] \ {p}, <<m>>)
    /\ UNCHANGED <<joined, seen, services_on, spath, sets, losses, orderly, misled>>

ONext ==
    \E h \in Host :
        \/ \E p \in Joint[h] :
              \/ Take_link(h, p) \/ Hear_link(h, p) \/ Hear_server(h, p)
              \/ Lose(h, p) \/ Hear_close(h, p) \/ Hear_squit(h, p) \/ Hear_topic(h, p)
        \/ \E text \in Words : Set_topic(h, text)

OSpec == OInit /\ [][ONext]_ovars

-----------------------------------------------------------------------------
(* When all lines are read, servers that are linked have one topic, unless  *)
(* two changes, or a change and a netjoin, crossed, or a topic was set to   *)
(* what it was.  (m_topic, server_estab.)                                   *)
TopicsAgree ==
    Quiet_wires /\ orderly =>
        \A h \in IrcServer : \A n \in joined[h] \cap IrcServer : topic[h].text = topic[n].text

(* A server believes in services while it knows of them, and has marked the *)
(* link they are behind; after that only if they went with a server in      *)
(* between.  (server_estab, m_server, exit_client.)                         *)
ServicesMarked ==
    \A h \in IrcServer :
        LET known == ServicesServer \in seen[h]
        IN  /\ h \in services_on <=> known \/ h \in misled
            /\ known => spath[h] = {n \in joined[h] : ServicesServer \in Behind_[h][n]}
            /\ spath[h] # {} => h \in services_on

TopicsRight == TopicsAgree /\ ServicesMarked
===============================================================================
