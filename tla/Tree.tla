--------------------------------- MODULE Tree ---------------------------------
(***************************************************************************)
(* The servers of a network keep it a tree.  A server dials another, both   *)
(* name themselves, each tells its other links of the new server and the    *)
(* new one of all it knows (m_server, server_estab); a server that is       *)
(* known already means a circle, and the younger of the two links goes; a   *)
(* link that goes takes all behind it along, here and, by SQUIT, elsewhere  *)
(* (exit_client).  Each connection has two ends, each end its own idea of   *)
(* the connection and of its age.                                           *)
(***************************************************************************)
EXTENDS Naturals, Sequences, FiniteSets
LOCAL INSTANCE SequencesExt
LOCAL INSTANCE Graphs

CONSTANTS
    Site,
    Slot, Ends,     \* connections there can be; Ends[k]: <<who dials, who listens>>
    NLines,         \* NLines[s]: the servers s has C: and N: lines and a password for
    HLines,         \* HLines[s]: the peers s allows to have servers behind them
    Moody,          \* the servers whose operator switches AUTOCONN off
    MaxClock, MaxDials, MaxTroubles     \* bounds

ASSUME TreeAssumption ==
    /\ Ends \in [Slot -> Site \X Site] /\ \A k \in Slot : Ends[k][1] # Ends[k][2]
    /\ NLines \in [Site -> SUBSET Site] /\ HLines \in [Site -> SUBSET Site]

VARIABLES
    stage,      \* stage[e]: "free", "backlog", "unknown", "connecting", "handshake", "server"
    firsttime,  \* firsttime[e]
    transit,    \* transit[e]: what is on its way to e
    tree,       \* tree[s]: the servers s knows, as they were added to GlobalClientList
    autoconn,   \* autoconn[s]: GlobalSetOptions.autoconn
    clock, dials,
    troubles    \* what went wrong so far: "break", "SQUIT", "AUTOCONN"

tvars == <<stage, firsttime, transit, tree, autoconn, clock, dials, troubles>>

End == Slot \X {"dials", "listens"}
Peer(e) == <<e[1], IF e[2] = "dials" THEN "listens" ELSE "dials">>
Owner(e) == Ends[e[1]][IF e[2] = "dials" THEN 1 ELSE 2]
Far(e) == Owner(Peer(e))

TInit ==
    /\ stage = [e \in End |-> "free"] /\ firsttime = [e \in End |-> 0]
    /\ transit = [e \in End |-> <<>>] /\ tree = [s \in Site |-> <<>>]
    /\ autoconn = [s \in Site |-> TRUE] /\ clock = 1
    /\ dials = 0 /\ troubles = {}

Trouble(what) == /\ Cardinality(troubles) < MaxTroubles /\ what \notin troubles
                 /\ troubles' = troubles \cup {what} /\ UNCHANGED dials

-----------------------------------------------------------------------------
(* What a handler changes, threaded through the steps it takes.             *)
Net == [stage |-> stage, transit |-> transit, tree |-> tree]
Becomes(w) == stage' = w.stage /\ transit' = w.transit /\ tree' = w.tree

Known(w, s) == {r.name : r \in ToSet(w.tree[s])}
Record(w, s, n) == CHOOSE r \in ToSet(w.tree[s]) : r.name = n
Links(w, s) == {e \in End : Owner(e) = s /\ w.stage[e] = "server"}

Server_(p, n) == [cmd |-> "SERVER", prefix |-> p, name |-> n]
Squit_(p, n) == [cmd |-> "SQUIT", prefix |-> p, name |-> n]
Hello == [cmd |-> "PASS CAPAB SERVER"]
Eof == [cmd |-> "EOF"]

(* sendto_one; what is sent to an end that is closed is lost.               *)
Send(w, E, ms) ==
    [w EXCEPT !.transit = [e \in End |-> IF Peer(e) \in E /\ w.stage[e] # "free"
                                      THEN w.transit[e] \o ms ELSE w.transit[e]]]
close_connection(w, e) ==
    Send([w EXCEPT !.stage[e] = "free", !.transit[e] = <<>>], {e}, <<Eof>>)

(* recurse_remove_clients: a server, and all whose servptr leads to it.     *)
Under(w, s, n) ==
    FoldLeft(LAMBDA S, r : IF r.servptr \in S THEN S \cup {r.name} ELSE S, {n}, w.tree[s])
Without(w, s, S) == [w EXCEPT !.tree[s] = SelectSeq(@, LAMBDA r : r.name \notin S)]

(* exit_client: the other links hear of it, except the one it came from,    *)
(* and of a server that is not linked here the link towards it.             *)
exit_client(w, s, cptr, r, from) ==
    LET mine == r.servptr = s
        closed == IF mine THEN close_connection(w, r.from) ELSE w
        told == Send(closed, Links(w, s) \ {cptr, r.from}, <<Squit_(s, r.name)>>)
        up == IF mine \/ r.from = cptr THEN told
              ELSE Send(told, {r.from}, <<Squit_(from, r.name)>>)
    IN  Without(up, s, Under(w, s, r.name))
exit_link_Closed(w, e, cptr) == close_connection(w, e)

exit_link(w, e, cptr) ==
    IF w.stage[e] = "server" THEN exit_client(w, Owner(e), cptr, Record(w, Owner(e), Far(e)), Owner(e))
    ELSE close_connection(w, e)

-----------------------------------------------------------------------------
(* To a server that is not known, the one who asks having looked, too.      *)
connect_server(k) ==
    LET s == Ends[k][1] IN
    /\ \A side \in {"dials", "listens"} : stage[<<k, side>>] = "free"
    /\ dials < MaxDials /\ dials' = dials + 1
    /\ Ends[k][2] \in NLines[s] \ Known(Net, s)
    /\ stage' = [stage EXCEPT ![<<k, "dials">>] = "connecting", ![<<k, "listens">>] = "backlog"]
    /\ firsttime' = [firsttime EXCEPT ![<<k, "dials">>] = clock]
    /\ UNCHANGED <<transit, tree, autoconn, clock, troubles>>

(* By itself, unless AUTOCONN is off; for an operator.                      *)
try_connections(k) == autoconn[Ends[k][1]] /\ connect_server(k)
m_connect(k) == connect_server(k)

(* The connection is there: the dialling server names itself.               *)
completed_connection(e) ==
    /\ stage[e] = "connecting"
    /\ Becomes(Send([Net EXCEPT !.stage[e] = "handshake"], {e}, <<Hello>>))
    /\ UNCHANGED <<firsttime, autoconn, clock, dials, troubles>>

accept_connection(e) ==
    /\ stage[e] = "backlog"
    /\ stage' = [stage EXCEPT ![e] = "unknown"]
    /\ firsttime' = [firsttime EXCEPT ![e] = clock]
    /\ UNCHANGED <<transit, tree, autoconn, clock, dials, troubles>>

-----------------------------------------------------------------------------
(* m_server, the server n being known already: the younger link, which is   *)
(* e if n is the server itself.                                             *)
Younger(w, e, n) ==
    IF n = Owner(e) THEN e
    ELSE LET f == Record(w, Owner(e), n).from IN IF firsttime[e] > firsttime[f] THEN e ELSE f

(* m_server until it knows there is no circle; done if the link went.       *)
Dropped(w, e, n) ==
    IF ~autoconn[Owner(e)] THEN exit_link(w, e, e)
    ELSE IF n = Owner(e) \/ n \in Known(w, Owner(e))
         THEN LET f == Younger(w, e, n) IN exit_link(w, f, f)
         ELSE w

(* server_estab: the answer, if the other side dialled; what the other      *)
(* links are told; what the new server is told.                             *)
establish(w, e) ==
    LET s == Owner(e)  n == Far(e)
        known == SelectSeq(w.tree[s], LAMBDA r : r.from # e)
        burst == [i \in DOMAIN known |-> Server_(known[i].servptr, known[i].name)]
        answer == IF w.stage[e] = "unknown" THEN <<Hello>> ELSE <<>>
        told == Send(w, Links(w, s), <<Server_(s, n)>>)
        sent == Send(told, {e}, answer \o burst)
    IN  [sent EXCEPT !.stage[e] = "server",
                     !.tree[s] = Append(@, [name |-> n, from |-> e, servptr |-> s])]

(* SERVER of the peer itself.                                               *)
Estab(w, e) ==
    LET d == Dropped(w, e, Far(e)) IN
    IF Far(e) \notin NLines[Owner(e)] THEN close_connection(w, e)
    ELSE IF d.stage[e] = "free" THEN d
    ELSE establish(d, e)

(* SERVER of one behind the peer.                                           *)
Introduce(w, e, m) ==
    LET s == Owner(e)
        d == Dropped(w, e, m.name)
        added == [d EXCEPT !.tree[s] =
                     Append(@, [name |-> m.name, from |-> e, servptr |-> m.prefix])]
    IN  IF d.stage[e] = "free" THEN d
        ELSE IF Far(e) \notin HLines[s] THEN exit_link(d, e, e)
        ELSE Send(added, Links(d, s) \ {e}, <<Server_(m.prefix, m.name)>>)

(* m_squit from a link: a SQUIT of this server means the link.              *)
m_squit(w, e, m) ==
    LET s == Owner(e) IN
    IF m.name = s THEN exit_link(w, e, e)
    ELSE IF m.name \notin Known(w, s) THEN w
    ELSE exit_client(w, s, e, Record(w, s, m.name), m.prefix)

(* parse: a prefix that is unknown is squitted, one of another direction    *)
(* is not listened to.                                                      *)
Parse(w, e, m) ==
    LET s == Owner(e) IN
    IF m.prefix = s THEN w
    ELSE IF m.prefix \notin Known(w, s) THEN Send(w, {e}, <<Squit_(s, m.prefix)>>)
    ELSE IF Record(w, s, m.prefix).from # e THEN w
    ELSE IF m.cmd = "SERVER" THEN Introduce(w, e, m)
    ELSE m_squit(w, e, m)

ReadLink(e) ==
    /\ stage[e] \in {"unknown", "handshake", "server"} /\ transit[e] # <<>>
    /\ LET m == Head(transit[e])
           w == [Net EXCEPT !.transit[e] = Tail(@)]
       IN  Becomes(IF m = Eof THEN exit_link(w, e, e)
                   ELSE IF m = Hello THEN Estab(w, e)
                   ELSE Parse(w, e, m))
    /\ UNCHANGED <<firsttime, autoconn, clock, dials, troubles>>

-----------------------------------------------------------------------------
(* SQUIT from an operator of s.                                             *)
OperSquit(s, n) ==
    /\ Trouble("SQUIT")
    /\ n \in Known(Net, s)
    /\ Becomes(exit_client(Net, s, <<>>, Record(Net, s, n), s))
    /\ UNCHANGED <<firsttime, autoconn, clock>>

(* SET AUTOCONN.                                                            *)
quote_autoconn(s) ==
    /\ s \in Moody /\ Trouble("AUTOCONN")
    /\ autoconn' = [autoconn EXCEPT ![s] = ~@]
    /\ UNCHANGED <<stage, firsttime, transit, tree, clock>>

(* A connection breaks; both ends find out on their own.                    *)
Snap(k) ==
    /\ Trouble("break")
    /\ \A side \in {"dials", "listens"} : stage[<<k, side>>] \notin {"free", "backlog"}
    /\ transit' = [e \in End |-> IF e[1] = k THEN <<Eof>> ELSE transit[e]]
    /\ UNCHANGED <<stage, firsttime, tree, autoconn, clock>>

ClockTick == clock < MaxClock /\ clock' = clock + 1 /\ UNCHANGED <<stage, firsttime, transit, tree, autoconn, dials, troubles>>

TNext ==
    \/ \E k \in Slot : try_connections(k) \/ m_connect(k) \/ Snap(k)
    \/ \E e \in End : completed_connection(e) \/ accept_connection(e) \/ ReadLink(e)
    \/ \E s \in Site : (\E n \in Site : OperSquit(s, n)) \/ quote_autoconn(s)
    \/ ClockTick

-----------------------------------------------------------------------------
(* Links were made; nothing is under way.                                                    *)
AllRead == dials > 0 /\ \A e \in End : transit[e] = <<>> /\ stage[e] \in {"free", "server"}

Up == {k \in Slot : \A side \in {"dials", "listens"} : stage[<<k, side>>] = "server"}
Graph == [node |-> Site,
          edge |-> {Ends[k] : k \in Up} \cup {<<Ends[k][2], Ends[k][1]>> : k \in Up}]

(* Each server knows another once, behind a link that is up and behind a    *)
(* server it knows behind the same link (m_server.c:281-343, client.c:1230).*)
Rooted(s) ==
    \A i \in DOMAIN tree[s] :
        LET r == tree[s][i] IN
        /\ r.name # s /\ \A j \in DOMAIN tree[s] : tree[s][j].name = r.name => i = j
        /\ Owner(r.from) = s /\ stage[r.from] = "server"
        /\ IF r.servptr = s THEN r.name = Far(r.from)
           ELSE \E j \in 1 .. i - 1 : tree[s][j].name = r.servptr /\ tree[s][j].from = r.from

(* When nothing is under way the links make no circle, both ends of each    *)
(* agree that it is up, and each server knows those it is connected with.   *)
Connected == ConnectionsIn(Graph)
Spanning ==
    LET C == Connected IN
    /\ \A k \in Slot : stage[<<k, "dials">>] = stage[<<k, "listens">>]
    /\ \A s \in Site : {t \in Site \ {s} : C[s, t]} \subseteq Known(Net, s)
    /\ Cardinality(Up) = Cardinality(Site)
                               - Cardinality({{t \in Site : C[s, t]} : s \in Site})

(* And it knows no other: a server that is gone is gone everywhere.         *)
(* m_squit.c:185 has a SQUIT that reaches the server with the link go out   *)
(* "also to the link from which the orinal SQUIT came"; remove_dependents   *)
(* leaves that link out.                                                    *)
NoGhostServer ==
    AllRead => LET C == Connected IN
             \A s \in Site : \A n \in Known(Net, s) : C[s, n]

(* The tree is a tree; without a SQUIT of an operator there are no ghosts.  *)
TreeRight ==
    /\ \A s \in Site : Rooted(s)
    /\ AllRead => Spanning
    /\ "SQUIT" \notin troubles => NoGhostServer
===============================================================================
