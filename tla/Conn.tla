-------------------------------- MODULE Conn --------------------------------
(***************************************************************************)
(* The local connections of one server and everything they hold: a slot in *)
(* the ident and DNS lookups (s_auth.c), a listener (listener.c), a count  *)
(* of their address and references to lines of the configuration           *)
(* (s_conf.c), which in turn count in connection classes (class.c).  A     *)
(* rehash replaces the configuration under them; timeouts and broken       *)
(* sockets take them away (client.c, s_bsd.c).                             *)
(*                                                                         *)
(* The program is one thread, so that each operation is one step.  Its     *)
(* tables are one record t: an operation is a function of it, and a step   *)
(* is a composition of operations.  One neighbour server is modelled: all  *)
(* C, N and H lines carry its name and are told apart by their host.       *)
(***************************************************************************)
EXTENDS Integers, FiniteSets

CONSTANTS
    Conn,            \* slots for client structures; a freed one is used again
    Addr,            \* addresses, which are also the hosts of C and N lines
    Port,            \* listening ports
    Line,            \* lines of the configuration files
    Kind,            \* Kind[l]: "I", "O", "C", "N" or "H" (H and L lines)
    LineClass,       \* LineClass[l]: the class number written in the line
    LineHost,        \* LineHost[l]: the host of a C or N line
    Named,           \* the C and N lines whose host has to be resolved
    Exempt,          \* the I lines with '>', which ignore the limits
    Class, Class0,   \* class numbers; Class0 exists without a Y line
    PerHost,         \* PerHost[k]: clients of one address in a class, 0: any
    Config,          \* what the configuration files may say
    MaxGen,          \* bound: number of rehashes
    Adns,            \* built with adns, else with the resolver of res.c
    ReverseLookup,   \* clients are looked up in the DNS
    CheckIdentd,     \* clients are asked for at the ident port
    ConnectTimeout,  \* CONNECTTIMEOUT
    Ping,            \* ping frequency of the classes
    MaxIdle,         \* bound: idle times are counted up to it, 0: no timeouts
    NoPort, NoClass

VARIABLE t

Gen    == 0 .. MaxGen
Item   == Line \X Gen      \* a line as read in one generation: ConfItem
Struct == Class \X Gen     \* struct Class, by the generation that made it

Statuses == {"free", "auth", "unknown", "connecting", "handshake", "server",
             "person"}

(* attach_conf and detach_conf count only these in the class.              *)
ClientMask == {"I", "O", "C", "N"}

ASSUME ConnAssumption ==
    /\ IsFiniteSet(Conn) /\ IsFiniteSet(Line) /\ IsFiniteSet(Class)
    /\ Addr # {}
    /\ MaxGen \in Nat
    /\ Kind \in [Line -> ClientMask \cup {"H"}]
    /\ LineClass \in [Line -> Class] /\ Class0 \in Class
    /\ LineHost \in [Line -> Addr]
    /\ Named \subseteq {l \in Line : Kind[l] \in {"C", "N"}}
    /\ PerHost \in [Class -> Nat]
    /\ Config \subseteq [lines : SUBSET Line, classes : SUBSET Class,
                         max : [Class -> Nat], ports : SUBSET Port]
    /\ \A cf \in Config : Class0 \in cf.classes
    /\ ConnectTimeout \in Nat \ {0} /\ Ping \in Nat \ {0}
    /\ MaxIdle \in Nat
    /\ MaxIdle > 0 => MaxIdle >= 2 * Ping /\ MaxIdle >= 2 * ConnectTimeout
    /\ Adns \in BOOLEAN /\ ReverseLookup \in BOOLEAN /\ CheckIdentd \in BOOLEAN
    /\ NoPort \notin Port /\ NoClass \notin Struct

Client == [st      : Statuses,
           ident   : {"none", "connect", "pending"},
           dns     : BOOLEAN,              \* DNS answer outstanding
           dead    : BOOLEAN,              \* FLAGS_DEADSOCKET
           pinged  : BOOLEAN,              \* FLAGS_PINGSENT
           idle    : 0 .. MaxIdle,         \* time since lasttime
           counted : BOOLEAN,              \* FLAGS_IPHASH
           addr    : Addr,
           port    : Port \cup {NoPort},   \* the listener
           oper    : {"no", "given", "listed"}]   \* listed: oper_cptr_list

ItemRec == [alloc   : BOOLEAN,
            illegal : BOOLEAN,             \* CONF_ILLEGAL: of an old file
            clients : Int,
            class   : Struct \cup {NoClass},
            pending : {"no", "conf", "connect"},   \* dns_pending, by callback
            known   : BOOLEAN]             \* ipnum is set

StructRec == [alloc : BOOLEAN, listed : BOOLEAN, links : Nat]

Table == [cl       : [Conn -> Client],
          held     : SUBSET (Conn \X Item),  \* the lists cptr->confs
          ip       : [Addr -> Nat],        \* count of an IP_ENTRY, 0: none
          lis      : [Port -> [open : BOOLEAN, active : BOOLEAN, ref : Int]],
          item     : [Item -> ItemRec],
          klass    : [Struct -> StructRec],
          asking   : SUBSET Conn,          \* resolver queries for clients
          resolving : SUBSET Item,         \* resolver queries for C and N lines
          gen      : Gen,
          conf     : Config,
          rehashed : BOOLEAN,
          olines   : BOOLEAN,              \* O lines not disabled by services
          stale    : BOOLEAN]              \* freed memory has been used

-----------------------------------------------------------------------------
(* The tables.                                                             *)

Gone == [st |-> "free", ident |-> "none", dns |-> FALSE, dead |-> FALSE,
         pinged |-> FALSE, idle |-> 0, counted |-> FALSE,
         addr |-> CHOOSE a \in Addr : TRUE, port |-> NoPort,
         oper |-> "no"]

Freed == [alloc |-> FALSE, illegal |-> FALSE, clients |-> 0,
          class |-> NoClass, pending |-> "no", known |-> FALSE]

NoStruct == [alloc |-> FALSE, listed |-> FALSE, links |-> 0]

KindOf(i)   == Kind[i[1]]
Counts(i)   == KindOf(i) \in ClientMask
RefsOf(s, D) == {r \in s.held : r[1] \in D}
Lines(s, c) == {r[2] : r \in RefsOf(s, {c})}
Listed(s)   == {i \in Item : s.item[i].alloc /\ ~s.item[i].illegal}
ListedAs(s, kind) == {i \in Listed(s) : KindOf(i) = kind}

(* local[]: the auth module keeps its clients to itself.                   *)
Local(s) == {c \in Conn : s.cl[c].st \notin {"free", "auth"}}

(* Of the references refs, those to item i, and those that count in class k. *)
ToItem(refs, i) == {r \in refs : r[2] = i}
ToClass(s, refs, k) == {r \in refs : Counts(r[2]) /\ s.item[r[2]].class = k}

(* is_attached and the linking half of attach_conf, for several items.     *)
Attach(s, c, S) ==
    LET refs == {<<c, i>> : i \in S \ Lines(s, c)}
    IN  [s EXCEPT
           !.held = @ \cup refs,
           !.item = [i \in Item |->
               [s.item[i] EXCEPT !.clients = @ + Cardinality(ToItem(refs, i))]],
           !.klass = [k \in Struct |->
               [s.klass[k] EXCEPT !.links = @ + Cardinality(ToClass(s, refs, k))]]]

(* The counts of addresses and of classes stop at 0.                       *)
Less(n, S) == IF Cardinality(S) > n THEN 0 ELSE n - Cardinality(S)

(* detach_conf of references: an illegal item and a class that the file no *)
(* longer has go with their last reference.                                *)
LeftOf(s, refs, i) == s.item[i].clients - Cardinality(ToItem(refs, i))

LinksOf(s, refs, k) == Less(s.klass[k].links, ToClass(s, refs, k))

(* Mutant: what is still attached elsewhere is not looked at.              *)
Dropped_Kept(s, refs) == {i \in {r[2] : r \in refs} : LeftOf(s, refs, i) < 0}

Dropped(s, refs) ==
    {i \in {r[2] : r \in refs} : LeftOf(s, refs, i) = 0 /\ s.item[i].illegal}

Detach(s, refs) ==
    LET freed == Dropped(s, refs)
    IN  [s EXCEPT
           !.held = @ \ refs,
           !.item = [i \in Item |->
               IF i \in freed THEN Freed
               ELSE [s.item[i] EXCEPT !.clients = LeftOf(s, refs, i)]],
           !.klass = [k \in Struct |->
               IF /\ \E r \in refs : s.item[r[2]].class = k
                  /\ ~s.klass[k].listed
                  /\ LinksOf(s, refs, k) = 0
               THEN NoStruct
               ELSE [s.klass[k] EXCEPT !.links = LinksOf(s, refs, k)]],
           !.resolving = IF Adns THEN @ ELSE @ \ freed]

(* Mutant: the address count is taken back from registered clients only.   *)
Exit_Registered(s, D) ==
    LET users == {c \in D : s.cl[c].st = "person"}
    IN  [Detach(s, RefsOf(s, D)) EXCEPT
            !.cl = [c \in Conn |-> IF c \in D THEN Gone ELSE s.cl[c]],
            !.ip = [a \in Addr |-> Less(s.ip[a], {c \in users : s.cl[c].addr = a})],
            !.lis = [p \in Port |-> [s.lis[p] EXCEPT
                !.ref = @ - Cardinality({c \in D : s.cl[c].port = p})]]]

(* exit_client and close_connection for the clients of D.                  *)
Exit(s, D) ==
    LET u   == Detach(s, RefsOf(s, D))
        ref(p) == s.lis[p].ref - Cardinality({c \in D : s.cl[c].port = p})
    IN  [u EXCEPT
           !.cl = [c \in Conn |-> IF c \in D THEN Gone ELSE s.cl[c]],
           !.ip = [a \in Addr |-> Less(s.ip[a],
               {c \in D : s.cl[c].counted /\ s.cl[c].addr = a})],
           !.lis = [p \in Port |->
               [s.lis[p] EXCEPT
                  !.ref = ref(p),
                  !.open = @ /\ (\/ s.lis[p].active
                                 \/ ref(p) > 0
                                 \/ ref(p) = s.lis[p].ref)]]]

(* read_packet: whatever comes in resets the timers.                       *)
Heard(s, c) == [s EXCEPT !.cl[c].idle = 0, !.cl[c].pinged = FALSE]

(* release_auth_client, when neither ident nor DNS keep the client.        *)
Release(s, c) ==
    IF s.cl[c].ident = "none" /\ ~s.cl[c].dns
    THEN [s EXCEPT !.cl[c].st = "unknown"] ELSE s

-----------------------------------------------------------------------------
(* The configuration.                                                      *)

(* A line whose class has no Y line is put into class 0.                   *)
ClassIn(cf, l) == IF LineClass[l] \in cf.classes THEN LineClass[l] ELSE Class0

(* find_class and add_class: a class that is still listed is updated in    *)
(* place, else a new struct is made.                                       *)
StructIn(s, k) ==
    IF \E g \in Gen : s.klass[<<k, g>>].listed
    THEN CHOOSE q \in Struct : q[1] = k /\ s.klass[q].listed
    ELSE <<k, s.gen + 1>>

(* initconf: the items and classes of file cf, and add_listener for its    *)
(* ports, next to what is in s.                                            *)
ReadFile(s, cf) ==
    LET g == s.gen + 1
    IN  [s EXCEPT
           !.gen = g,
           !.conf = cf,
           !.olines = TRUE,
           !.item = [i \in Item |->
               IF i[2] = g /\ i[1] \in cf.lines
               THEN [alloc |-> TRUE, illegal |-> FALSE, clients |-> 0,
                     class |-> IF Counts(i) THEN StructIn(s, ClassIn(cf, i[1]))
                                            ELSE NoClass,
                     pending |-> IF i[1] \in Named THEN "conf" ELSE "no",
                     known |-> i[1] \notin Named]
               ELSE s.item[i]],
           !.resolving = @ \cup {i \in Item : i[2] = g /\ i[1] \in cf.lines \cap Named},
           !.klass = [q \in Struct |->
               IF \E k \in cf.classes : q = StructIn(s, k)
               THEN [s.klass[q] EXCEPT !.alloc = TRUE, !.listed = TRUE]
               ELSE s.klass[q]],
           !.lis = [p \in Port |->
               IF p \in cf.ports
               THEN [s.lis[p] EXCEPT !.open = TRUE, !.active = TRUE]
               ELSE s.lis[p]]]

(* Mutant: the classes that the file lost go with their links.             *)
ClearOut_Classes(s, cf) ==
    [s EXCEPT
       !.item = [i \in Item |->
           IF s.item[i].clients = 0 THEN Freed
           ELSE [s.item[i] EXCEPT !.illegal = TRUE]],
       !.resolving = {},
       !.klass = [q \in Struct |->
           IF q[1] \in cf.classes THEN s.klass[q] ELSE NoStruct]]

(* clear_out_old_conf: what is attached is kept as illegal, the rest freed. *)
(* check_class and close_listeners, which come after the reading, drop     *)
(* what the new file cf does not have.                                     *)
ClearOut(s, cf) ==
    LET freed == {i \in Item : s.item[i].alloc /\ s.item[i].clients = 0}
    IN  [s EXCEPT
           !.item = [i \in Item |->
               IF i \in freed THEN Freed
               ELSE [s.item[i] EXCEPT !.illegal = s.item[i].alloc]],
           !.resolving = IF Adns THEN @ ELSE @ \ freed,
           !.klass = [q \in Struct |->
               IF q[1] \in cf.classes \/ ~s.klass[q].listed THEN s.klass[q]
               ELSE IF s.klass[q].links <= 0 THEN NoStruct
               ELSE [s.klass[q] EXCEPT !.listed = FALSE]],
           !.lis = [p \in Port |->
               [s.lis[p] EXCEPT !.active = FALSE, !.open = @ /\ s.lis[p].ref # 0]]]

-----------------------------------------------------------------------------
(* Clients.                                                                *)

(* accept_connection, add_connection and start_auth; asked is whether the  *)
(* connection to the ident port could be started.                          *)
Accept(c, a, p, asked) ==
    /\ t.cl[c].st = "free" /\ t.lis[p].open /\ t.lis[p].active
    /\ asked => CheckIdentd
    /\ LET new == [Gone EXCEPT !.st = "auth", !.addr = a, !.port = p,
                               !.ident = IF asked THEN "connect" ELSE "none",
                               !.dns = ReverseLookup]
           s == [t EXCEPT !.cl[c] = new, !.lis[p].ref = @ + 1,
                          !.asking = IF ReverseLookup THEN @ \cup {c} ELSE @]
       IN  t' = Release(s, c)

(* send_auth_query has connected.                                          *)
SendAuthQuery(c) ==
    /\ t.cl[c].ident = "connect"
    /\ t' = [t EXCEPT !.cl[c].ident = "pending"]

(* read_auth_reply, with an answer or without, or auth_error before it.    *)
EndIdent(c) ==
    /\ t.cl[c].ident # "none"
    /\ t' = Release([t EXCEPT !.cl[c].ident = "none"], c)

(* auth_dns_callback.                                                      *)
DnsAnswer(c) ==
    /\ c \in t.asking
    /\ t' = Release([t EXCEPT !.cl[c].dns = FALSE, !.asking = @ \ {c}], c)

(* register_user up to the I line: nobody let in, or check_client refuses. *)
RefuseClient(c) ==
    /\ t.cl[c].st = "unknown"
    /\ t' = Exit(Heard(t, c), {c})

(* attach_iline counts the address before it looks at the limits, and what *)
(* refuses the client after that has to take all of it back by exit_client: *)
(* the address limit, a full class, the throttle, the password, X lines.   *)
Register(c, i, welcome) ==
    /\ t.cl[c].st = "unknown" /\ i \in ListedAs(t, "I")
    /\ LET a == t.cl[c].addr
           s == [Heard(t, c) EXCEPT !.cl[c].counted = TRUE, !.ip[a] = @ + 1]
           k == s.item[i].class
           fits == \/ i[1] \in Exempt
                   \/ /\ PerHost[k[1]] > 0 => s.ip[a] <= PerHost[k[1]]
                      /\ t.conf.max[k[1]] > 0 => s.klass[k].links < t.conf.max[k[1]]
       IN  t' = IF ~fits THEN Exit(s, {c})
                ELSE IF welcome THEN [Attach(s, c, {i}) EXCEPT !.cl[c].st = "person"]
                ELSE Exit(Attach(s, c, {i}), {c})

(* m_oper with the right password.                                         *)
Oper(c, i) ==
    /\ t.cl[c].st = "person" /\ t.cl[c].oper = "no"
    /\ i \in ListedAs(t, "O") \ Lines(t, c) /\ t.olines
    /\ t' = [Attach(Heard(t, c), c, {i}) EXCEPT !.cl[c].oper = "listed"]

(* m_svsmode +o.                                                           *)
SvsOper(c) ==
    /\ t.cl[c].st = "person" /\ t.cl[c].oper = "no"
    /\ t' = [t EXCEPT !.cl[c].oper = "given"]

(* Without operator status a client loses the line it attached last: the O *)
(* line, which no other line of a user comes after, or else the I line.    *)
LastLine(s, c) ==
    LET o == {r \in RefsOf(s, {c}) : KindOf(r[2]) = "O"}
    IN  IF o # {} THEN o ELSE RefsOf(s, {c})

(* m_umode -o, and m_svsmode -o.                                           *)
Deoper(c) ==
    /\ t.cl[c].st = "person" /\ t.cl[c].oper # "no"
    /\ t' = [Detach(t, LastLine(t, c)) EXCEPT !.cl[c].oper = "no"]

(* m_svsadmin, operators off: those of oper_cptr_list lose their status,   *)
(* and the O lines are disabled until the next rehash.                     *)
SvsAdmin ==
    LET opers == {c \in Conn : t.cl[c].oper = "listed"}
        s == Detach(t, UNION {LastLine(t, c) : c \in opers})
    IN  /\ t.olines
        /\ t' = [s EXCEPT !.olines = FALSE,
                          !.cl = [c \in Conn |-> IF c \in opers
                                     THEN [s.cl[c] EXCEPT !.oper = "no"]
                                     ELSE s.cl[c]]]

(* read_packet with something that changes nothing else.                   *)
Read(c) ==
    /\ c \in Local(t) /\ t.cl[c].idle > 0
    /\ t' = Heard(t, c)

(* dead_link: a send failed or the SendQ is full.                          *)
SendFails(c) ==
    /\ c \in Local(t) /\ ~t.cl[c].dead
    /\ t' = [t EXCEPT !.cl[c].dead = TRUE]

(* End of file, an error, QUIT, KILL, ERROR, SQUIT, a failed connect.      *)
Lose(c) == c \in Local(t) /\ t' = Exit(t, {c})

-----------------------------------------------------------------------------
(* Links.                                                                  *)

Linked(s) == \E c \in Conn : s.cl[c].st = "server"
NoLine(s, kind, a) == {i \in ListedAs(s, kind) : LineHost[i[1]] = a} = {}

(* connect_server for C line i, whose address is known: a connection in    *)
(* progress with its C and N lines attached (attach_cn_lines), or, if the  *)
(* socket or the lines fail, nothing.                                      *)
StartLink(s, i, c) ==
    LET a == LineHost[i[1]]
        pick(kind) == CHOOSE j \in ListedAs(s, kind) : LineHost[j[1]] = a
    IN  IF s.cl[c].st # "free" \/ Linked(s) \/ NoLine(s, "C", a) \/ NoLine(s, "N", a)
        THEN s
        ELSE Attach([s EXCEPT !.cl[c] = [Gone EXCEPT !.st = "connecting", !.addr = a]],
                    c, {pick("C"), pick("N")})

(* try_connections and m_connect: a host that is not known yet is looked   *)
(* up first.                                                               *)
Connect(i, c) ==
    /\ i \in ListedAs(t, "C") /\ t.item[i].pending = "no" /\ ~Linked(t)
    /\ t' = IF t.item[i].known THEN StartLink(t, i, c)
            ELSE [t EXCEPT !.item[i].pending = "connect", !.resolving = @ \cup {i}]

(* conf_dns_callback and connect_dns_callback, which trust the item.       *)
LineResolved(i, c, ok) ==
    /\ i \in t.resolving
    /\ LET s == [t EXCEPT !.resolving = @ \ {i}, !.item[i].pending = "no",
                          !.item[i].known = @ \/ ok]
       IN  t' = IF ~t.item[i].alloc
                THEN [t EXCEPT !.resolving = @ \ {i}, !.stale = TRUE]
                ELSE IF ok /\ t.item[i].pending = "connect" THEN StartLink(s, i, c)
                ELSE s

(* completed_connection: the lines are still attached, even if illegal.    *)
Connected(c) ==
    /\ t.cl[c].st = "connecting"
    /\ {"C", "N"} \subseteq {KindOf(i) : i \in Lines(t, c)}
    /\ t' = [t EXCEPT !.cl[c].st = "handshake"]

(* SERVER from a new link.  check_server attaches every C and N line of    *)
(* the name, looks among what is then attached for those of the host, the  *)
(* latest attached first, detaches all and attaches the two it found with  *)
(* the H and L lines; that it attached the listed ones in between leaves   *)
(* no trace.                                                               *)
LinesAt(s, S, c, kind) ==
    {i \in S : KindOf(i) = kind /\ LineHost[i[1]] = s.cl[c].addr}

Choice(s, S, c, kind) ==
    LET fresh == LinesAt(s, S, c, kind) \cap Listed(s)
    IN  CHOOSE i \in LinesAt(s, S, c, kind) : fresh # {} => i \in fresh

(* Mutant: server_estab keeps no line.                                     *)
Estab_All(s, c) == [Detach(s, RefsOf(s, {c})) EXCEPT !.cl[c].st = "server"]

(* server_estab keeps the N, H and L lines.                                *)
Estab(s, c) ==
    LET out == {r \in RefsOf(s, {c}) : KindOf(r[2]) \notin {"N", "H"}}
    IN  [Detach(s, out) EXCEPT !.cl[c].st = "server"]

CheckServer(s, c, accepted) ==
    LET cn  == ListedAs(s, "C") \cup ListedAs(s, "N")
        all == Lines(s, c) \cup cn
        two == {Choice(s, all, c, "C"), Choice(s, all, c, "N")}
        u   == Detach(s, RefsOf(s, {c}))
        v   == Attach(u, c, (two \cap Listed(u)) \cup ListedAs(u, "H"))
    IN  IF \/ Cardinality(cn) < 2
           \/ LinesAt(s, all, c, "C") = {} \/ LinesAt(s, all, c, "N") = {}
        THEN Exit(s, {c})
        ELSE IF \E i \in two : ~u.item[i].alloc THEN [u EXCEPT !.stale = TRUE]
        ELSE IF ~(two \subseteq Listed(u)) \/ ~accepted THEN Exit(v, {c})
        ELSE Estab([v EXCEPT !.item[Choice(s, all, c, "C")].known = TRUE], c)

(* m_server lets the younger of two links with one name go first.          *)
ServerCmd(c, accepted, younger) ==
    /\ t.cl[c].st \in {"unknown", "handshake"}
    /\ LET s == Heard(t, c)
           others == {d \in Conn : t.cl[d].st = "server"}
       IN  t' = IF (others # {} /\ younger) \/ ListedAs(t, "N") = {}
                THEN Exit(s, {c})
                ELSE CheckServer(IF others = {} THEN s ELSE Exit(s, others),
                                 c, accepted)

-----------------------------------------------------------------------------
(* Time and the configuration.                                             *)

(* The clock: a second is worth of the timeouts.                           *)
Tick ==
    /\ \E c \in Conn : t.cl[c].st # "free" /\ t.cl[c].idle < MaxIdle
    /\ t' = [t EXCEPT !.cl = [c \in Conn |->
                IF t.cl[c].st = "free" \/ t.cl[c].idle = MaxIdle THEN t.cl[c]
                ELSE [t.cl[c] EXCEPT !.idle = @ + 1]]]

PingOf(s, c) == IF s.cl[c].st \in {"server", "person"} THEN Ping ELSE ConnectTimeout
Silent(s, c)   == c \in Local(s) /\ s.cl[c].idle > PingOf(s, c)
TimedOut(s, c) == Silent(s, c) /\ s.cl[c].pinged /\ s.cl[c].idle >= 2 * PingOf(s, c)

(* Mutant: FLAGS_DEADSOCKET is not looked at.                              *)
Dying_Alive(s) == {c \in Local(s) : TimedOut(s, c)}

(* check_pings: the dead and the silent, and of Refusable those it finds   *)
(* banned by the new lines or unregistered for UNKNOWN_TIME.  Who is silent *)
(* gets one PING.                                                          *)
Dying(s) == {c \in Local(s) : s.cl[c].dead \/ TimedOut(s, c)}

Refusable(s) ==
    {c \in Conn : \/ s.cl[c].st = "unknown"
                  \/ s.cl[c].st = "person" /\ s.rehashed}

SendPing(s, c) == [s.cl[c] EXCEPT !.pinged = TRUE, !.idle = PingOf(s, c)]

(* Mutant: only those who wait for ident.                                  *)
Late_Ident(s) == {c \in Conn : s.cl[c].ident # "none" /\ s.cl[c].idle > ConnectTimeout}

(* timeout_auth_queries: let the clients through and drop their queries.   *)
Late(s) == {c \in Conn : s.cl[c].st = "auth" /\ s.cl[c].idle > ConnectTimeout}

ReleaseLate(s, c) ==
    [s.cl[c] EXCEPT !.st = "unknown", !.ident = "none", !.dns = FALSE]

(* Mutant: the DNS queries of those let through are left running.          *)
Periodic_Queries(refused) ==
    LET out == Dying(t) \cup refused
    IN  t' = [Exit(t, out) EXCEPT
                 !.rehashed = FALSE,
                 !.cl = [c \in Conn |->
                     IF c \in out THEN Gone
                     ELSE IF c \in Late(t) THEN ReleaseLate(t, c) ELSE t.cl[c]]]

(* The housekeeping of io_loop.                                            *)
Periodic(refused) ==
    LET out == Dying(t) \cup refused
    IN  t' = [Exit(t, out) EXCEPT
                 !.rehashed = FALSE,
                 !.asking = @ \ Late(t),
                 !.cl = [c \in Conn |->
                     IF c \in out THEN Gone
                     ELSE IF c \in Late(t) THEN ReleaseLate(t, c)
                     ELSE IF Silent(t, c) /\ ~t.cl[c].pinged THEN SendPing(t, c)
                     ELSE t.cl[c]]]

Rehash(cf) ==
    /\ t.gen < MaxGen
    /\ t' = [ReadFile(ClearOut(t, cf), cf) EXCEPT !.rehashed = TRUE]

-----------------------------------------------------------------------------

Boot(cf) ==
    LET bare == [cl |-> [c \in Conn |-> Gone], held |-> {},
                 ip |-> [a \in Addr |-> 0],
                 lis |-> [p \in Port |-> [open |-> FALSE, active |-> FALSE, ref |-> 0]],
                 item |-> [i \in Item |-> Freed],
                 klass |-> [k \in Struct |-> NoStruct],
                 asking |-> {}, resolving |-> {}, gen |-> -1, conf |-> cf,
                 rehashed |-> FALSE, olines |-> TRUE, stale |-> FALSE]
    IN  ReadFile(bare, cf)

Init == \E cf \in Config : t = Boot(cf)

Housekeeping == \E refused \in SUBSET Refusable(t) : Periodic(refused)

(* Nothing is said of what follows the use of freed memory.                *)
Next ==
    /\ ~t.stale
    /\ \/ \E c \in Conn, a \in Addr, p \in Port, asked \in BOOLEAN : Accept(c, a, p, asked)
       \/ \E c \in Conn : SendAuthQuery(c)
       \/ \E c \in Conn : EndIdent(c)
       \/ \E c \in Conn : DnsAnswer(c)
       \/ \E c \in Conn : RefuseClient(c)
       \/ \E c \in Conn, i \in Item, welcome \in BOOLEAN : Register(c, i, welcome)
       \/ \E c \in Conn, i \in Item : Oper(c, i)
       \/ \E c \in Conn : SvsOper(c)
       \/ \E c \in Conn : Deoper(c)
       \/ SvsAdmin
       \/ \E c \in Conn : Read(c)
       \/ \E c \in Conn : SendFails(c)
       \/ \E c \in Conn : Lose(c)
       \/ \E i \in Item, c \in Conn : Connect(i, c)
       \/ \E i \in Item, c \in Conn, ok \in BOOLEAN : LineResolved(i, c, ok)
       \/ \E c \in Conn : Connected(c)
       \/ \E c \in Conn, accepted, younger \in BOOLEAN : ServerCmd(c, accepted, younger)
       \/ Tick
       \/ Housekeeping
       \/ \E cf \in Config : Rehash(cf)

(* Time passes, and io_loop runs the timeouts.                             *)
Spec == Init /\ [][Next]_t /\ WF_t(Tick) /\ WF_t(Housekeeping)

-----------------------------------------------------------------------------
(* Properties.                                                             *)

TypeOK == t \in Table

(* The counters by which the program decides who may come in and what may  *)
(* be freed - clients of an item (attach_conf, detach_conf), links of a    *)
(* class, clients of an address (attach_iline, remove_one_ip) and of a     *)
(* listener - are what one would count, on every way out of every state.   *)
AddrRefs(s, a) == {c \in Conn : s.cl[c].counted /\ s.cl[c].addr = a}
PortRefs(s, p) == {c \in Conn : s.cl[c].port = p}

CountsExact ==
    /\ \A i \in Item : t.item[i].clients = Cardinality(ToItem(t.held, i))
    /\ \A k \in Struct : t.klass[k].links = Cardinality(ToClass(t, t.held, k))
    /\ \A a \in Addr : t.ip[a] = Cardinality(AddrRefs(t, a))
    /\ \A p \in Port : t.lis[p].ref = Cardinality(PortRefs(t, p))

(* What a client refers to exists: its lines, which a rehash may have made *)
(* illegal, their classes, which it may have dropped, and its listener.    *)
NoDangling ==
    /\ \A i \in Item : (ToItem(t.held, i) # {} \/ t.item[i].alloc) =>
          /\ t.item[i].alloc
          /\ t.item[i].class # NoClass => t.klass[t.item[i].class].alloc
    /\ \A c \in Conn : t.cl[c].port # NoPort => t.lis[t.cl[c].port].open

(* What nobody refers to is gone: old lines, dropped classes, listeners    *)
(* that a rehash closed; and no class is listed twice.                     *)
NoLeak ==
    /\ \A i \in Item : t.item[i].alloc /\ t.item[i].illegal => ToItem(t.held, i) # {}
    /\ \A k \in Struct : t.klass[k].alloc =>
          t.klass[k].listed \/ ToClass(t, t.held, k) # {}
    /\ \A p \in Port : t.lis[p].open =>
          t.lis[p].active \/ PortRefs(t, p) # {}
    /\ \A k, q \in Struct : t.klass[k].listed /\ t.klass[q].listed /\ k[1] = q[1] => k = q

(* A resolver query is for a client that waits for it or a line that       *)
(* exists, so that no answer is written into freed memory (res.c:575), and *)
(* check_server never follows a line it has just freed.                    *)
QueryForConf == \A i \in t.resolving : t.item[i].alloc

QueriesLive ==
    /\ QueryForConf
    /\ t.asking = {c \in Conn : t.cl[c].dns}
    /\ \A c \in Conn : t.cl[c].dns \/ t.cl[c].ident # "none" <=> t.cl[c].st = "auth"
    /\ \A i \in Item : i \in t.resolving <=> t.item[i].pending # "no"
    /\ ~t.stale

(* What later code takes from the lines without asking: a link has its N   *)
(* line (serv->nline), on its way also its C line, an operator the O line  *)
(* that m_svsadmin and m_umode detach; and the neighbour is linked once.   *)
(* (Where check_server has followed a freed line nothing is said.)         *)
Kinds(s, c) == {KindOf(i) : i \in Lines(s, c)}

LinesHeld == ~t.stale =>
    /\ \A c \in Conn :
          LET held == Kinds(t, c)
          IN  /\ t.cl[c].st = "server" => "N" \in held /\ held \subseteq {"N", "H"}
              /\ t.cl[c].st \in {"connecting", "handshake"} => held = {"C", "N"}
              /\ "O" \in held <=> t.cl[c].oper = "listed"
              /\ held # {} => t.cl[c].st \notin {"free", "auth", "unknown"}
    /\ Cardinality({c \in Conn : t.cl[c].st = "server"}) <= 1

(* Nobody is held in the auth module for good: whatever becomes of ident   *)
(* and DNS, timeout_auth_queries lets the client into local[].             *)
AuthReleased == \A c \in Conn : t.cl[c].st = "auth" ~> t.cl[c].st # "auth"

(* check_pings removes a dead client, and one that no longer says anything. *)
SilentGone ==
    \A c \in Conn :
      /\ t.cl[c].dead ~> t.cl[c].st = "free"
      /\ (c \in Local(t) /\ t.cl[c].idle > 0) ~> (t.cl[c].st = "free" \/ t.cl[c].idle = 0)

=============================================================================
