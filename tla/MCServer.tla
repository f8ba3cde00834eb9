------------------------------- MODULE MCServer -------------------------------
(***************************************************************************)
(* Small instances of the parts of a server that share no state: its tables *)
(* of configured lines, the bans it is given, those of the network; WATCH   *)
(* lists; channels; what holds back messages and clients that come   *)
(* too fast; and the history of nicks.  A behaviour is one of one part, and *)
(* the others stay as they began.                                           *)
(***************************************************************************)
EXTENDS ConfTables, KLines, NetLines, Watch, Room,
        Talk, Throttle, Past

VARIABLE part

Most == <<vars, kvars, nvars, wvars>>
Rest == <<rvars, lvars, hvars, pvars>>

PInit ==
    /\ part \in {"tables", "bans", "netbans", "watch", "room", "talk",
                 "throttle", "past"}
    /\ Init /\ KInit /\ NInit /\ WInit /\ RInit /\ LInit /\ HInit /\ PaInit
    /\ part # "tables" => file = CHOOSE f \in File : TRUE
    /\ part # "room" => scene = CHOOSE s \in DOMAIN Scene : TRUE
    /\ part # "talk" => talking = CHOOSE s \in DOMAIN Talking : TRUE

PNext ==
    /\ UNCHANGED part
    /\ \/ part = "tables" /\ Next /\ UNCHANGED <<kvars, nvars, wvars, Rest>>
       \/ part = "bans" /\ KNext /\ UNCHANGED <<vars, nvars, wvars, Rest>>
       \/ part = "netbans" /\ NNext /\ UNCHANGED <<vars, kvars, wvars, Rest>>
       \/ part = "watch" /\ WNext /\ UNCHANGED <<vars, kvars, nvars, Rest>>
       \/ part = "room" /\ RNext /\ UNCHANGED <<Most, lvars, hvars, pvars>>
       \/ part = "talk" /\ LNext /\ UNCHANGED <<Most, rvars, hvars, pvars>>
       \/ part = "throttle" /\ HNext /\ UNCHANGED <<Most, rvars, lvars, pvars>>
       \/ part = "past" /\ PaNext /\ UNCHANGED <<Most, rvars, lvars, hvars>>

PSpec == PInit /\ [][PNext]_<<Most, Rest, part>>

-----------------------------------------------------------------------------
(* ConfTables: eight addresses; hosts under com with labels that share      *)
(* buckets or not; small conf files, read in every order.                   *)
MCLabel == {"com", "foo", "fred", "bar", "ns", "*", "*oo"}
MCBucket == ("com" :> 1) @@ ("foo" :> 2) @@ ("fred" :> 2) @@ ("bar" :> 3)
            @@ ("ns" :> 4) @@ ("*" :> 0) @@ ("*oo" :> 0)
MCMatches == {<<x, x>> : x \in MCLabel} \cup {<<"*", x>> : x \in MCLabel}
             \cup {<<"*oo", "foo">>}

Hosts == {<<"com", "foo">>, <<"com", "fred">>, <<"com", "bar">>, <<"com", "foo", "ns">>}
MCClient == {[host |-> h, user |-> u, ip |-> ip] :
                h \in Hosts, u \in {"a", "b"}, ip \in {0, 2, 5}}

Blank == [type |-> "K", exempt |-> FALSE, user |-> "*", form |-> "host", host |-> << >>,
          wild |-> FALSE, odd |-> {}, ip |-> 0, len |-> Width]
D(ip, len) == [Blank EXCEPT !.type = "D", !.form = "ip", !.ip = ip, !.len = len]
Exempted(l) == [l EXCEPT !.exempt = TRUE]
Kip(user, ip, len) == [Blank EXCEPT !.form = "ip", !.user = user, !.ip = ip, !.len = len]
On(t, user, host) == [Blank EXCEPT !.type = t, !.user = user, !.host = host]
OnAny(t, user, host) == [On(t, user, host) EXCEPT !.wild = TRUE]
Odd(t, user, hosts) == [Blank EXCEPT !.type = t, !.user = user, !.form = "odd", !.odd = hosts]

MCDef ==
    ("D0" :> D(0, 3)) @@ ("D1" :> D(1, 3)) @@ ("D2" :> D(2, 3)) @@ ("D4" :> D(4, 3))
    @@ ("D23" :> D(2, 2)) @@ ("D47" :> D(4, 1)) @@ ("D5" :> D(5, 1))
    @@ ("d3" :> Exempted(D(3, 3))) @@ ("d4" :> Exempted(D(4, 3))) @@ ("d45" :> Exempted(D(4, 2)))
    @@ ("Ka0" :> Kip("a", 0, 3)) @@ ("K0" :> Kip("*", 0, 3)) @@ ("Ka03" :> Kip("a", 0, 1))
    @@ ("Kb03" :> Kip("b", 0, 1)) @@ ("K23" :> Kip("*", 2, 2)) @@ ("K5" :> Kip("*", 5, 3))
    @@ ("I" :> [Blank EXCEPT !.type = "I", !.form = "any"])
    @@ ("Icom" :> OnAny("I", "*", <<"com", "*">>))
    @@ ("Ifoo" :> On("I", "*", <<"com", "foo">>))
    @@ ("Efoo" :> Exempted(On("I", "*", <<"com", "foo">>)))
    @@ ("Eafred" :> Exempted(On("I", "a", <<"com", "fred">>)))
    @@ ("Eodd" :> Exempted(Odd("I", "b", {<<"com", "bar">>, <<"com", "fred">>})))
    @@ ("Iip" :> [Kip("a", 4, 1) EXCEPT !.type = "I"])
    @@ ("Kfoo" :> On("K", "*", <<"com", "foo">>)) @@ ("Kafoo" :> On("K", "a", <<"com", "foo">>))
    @@ ("Kbfoo" :> On("K", "b", <<"com", "foo">>)) @@ ("Kfred" :> On("K", "*", <<"com", "fred">>))
    @@ ("Kbar" :> On("K", "b", <<"com", "bar">>)) @@ ("Kns" :> On("K", "a", <<"com", "foo", "ns">>))
    @@ ("Kafredns" :> On("K", "a", <<"com", "fred", "ns">>))
    @@ ("Kacom" :> OnAny("K", "a", <<"com", "*">>)) @@ ("Kcom" :> OnAny("K", "*", <<"com", "*">>))
    @@ ("Koo" :> OnAny("K", "b", <<"com", "*oo">>))
    @@ ("Kodd" :> Odd("K", "*", {<<"com", "bar">>, <<"com", "foo", "ns">>}))

MCFile == {{"D0", "D1", "D2", "D4", "D23", "d3"}, {"D4", "D47", "D5", "d45", "d4"},
           {"I", "Ka0", "K0", "Ka03", "Kb03", "K23"},
           {"I", "Efoo", "Kfoo", "Kafoo", "Kns", "Kodd"},
           {"I", "Icom", "Kafoo", "Kbar", "Kcom", "K5"},
           {"Iip", "Icom", "Eafred", "Kacom", "Koo", "Kfoo"},
           {"I", "Kafoo", "Kbfoo", "Kafredns", "Koo", "Ka0"}, {"I", "Kacom", "Kafoo", "Koo"},
           {"I", "Ifoo", "Eodd", "Kbfoo", "Kafoo", "Kfred"}}

-----------------------------------------------------------------------------
(* KLines: u2 is exempt, k12 is on an address.                              *)
MCKind == ("k1" :> "K") @@ ("k12" :> "K") @@ ("d1" :> "D")
MCForm == ("k1" :> "host") @@ ("k12" :> "ip") @@ ("d1" :> "ip")
MCWhom == ("k1" :> {"u1"}) @@ ("k12" :> {"u1", "u2"}) @@ ("d1" :> {"u1", "u2"})
MCSpared == ("K" :> {"u2"}) @@ ("D" :> {"u2"})

-----------------------------------------------------------------------------
(* NetLines: the line 1 - 2 - 3, services at 1, the client at 3; the G-line *)
(* gall covers g1.                                                          *)
MCPeers == (1 :> {2}) @@ (2 :> {1, 3}) @@ (3 :> {2})
MCUplink == (2 :> 1) @@ (3 :> 2)
MCSort == ("g1" :> "G") @@ ("gall" :> "G") @@ ("v" :> "SV") @@ ("q" :> "SQ")
MCMatching == [m \in Mask |-> IF m = "gall" THEN {"g1", "gall"} ELSE {m}]
MCHome == ("c" :> 3)
MCHits == [m \in Mask |-> {"c"}]
MCAuto == ("c" :> "g1")

-----------------------------------------------------------------------------
(* Room: a is nobody, b an operator, r a client of another server.          *)
MCTraits == ("a" :> {"id"}) @@ ("b" :> {"oper"}) @@ ("r" :> {}) @@ ("services" :> {"service"})
MCBanned == ("*a" :> {"a"}) @@ ("*" :> {"a", "b", "r"})
MCScene == ({"join", "part", "invite", "i", "A"} :> 5) @@ ({"join", "part", "r"} :> 5)
           @@ ({"join", "part", "b", "S"} :> 5) @@ ({"svs", "part", "i", "S"} :> 4)
           @@ ({"join", "say", "f", "o"} :> 6)

(* Talk: a and b are ours, r is not, services have an alias.                *)
MCHash == ("a" :> 1) @@ ("b" :> 0) @@ ("r" :> 3) @@ ("srv" :> 4) @@ ("#a" :> 5)
MCTalking == ({"a", "r", "person", "ctcp", "exit", "wait"} :> 5)
             @@ ({"a", "person", "channel", "plain", "wait"} :> 6)
             @@ ({"r", "b", "person", "plain", "wait"} :> 5)
             @@ ({"a", "channel", "ctcp", "notice", "exit"} :> 4)
             @@ ({"a", "person", "spam", "banned", "dcc"} :> 4)

(* Throttle: the addresses share a bucket of one hash, not of the other.    *)
MCXor == ("x" :> 1) @@ ("y" :> 1)
MCSum == ("x" :> 1) @@ ("y" :> 2)

(* Past: two nicks of one bucket and one of another.                        *)
MCHashOf == ("x" :> 1) @@ ("y" :> 1) @@ ("z" :> 2)
===============================================================================
