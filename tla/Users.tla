--------------------------------- MODULE Users ---------------------------------
(***************************************************************************)
(* What a network of servers keeps of each client beyond its nick: the user *)
(* modes, AWAY, the silence list, and the counters of LUSERS.  The server   *)
(* of a client decides, the others follow its MODE, NICK, AWAY, SILENCE and *)
(* QUIT, and get everything anew when a link comes up.  On its own server a *)
(* client also has the conf items attached to it and a place in             *)
(* oper_cptr_list.                                                          *)
(***************************************************************************)
EXTENDS Integers, Sequences, FiniteSets, SequencesExt

CONSTANTS
    Node, Near,      \* servers; Near[s]: the neighbours of s in a tree
    Towards,         \* Towards[s][t]: the neighbour of s on the way to t
    User, Seat,        \* clients; Seat[u]: their server
    Letter,          \* the modes of an instance
    OperFlags,       \* what an O-line gives: its own flags, or OPER_UMODES
    SilMask, Speaks, \* silence masks; Speaks[m]: the clients that m matches
    MAXSILES,
    Doing,           \* sets of commands, each with the bound of their number
    MaxBreaks        \* bound of the broken links

ASSUME UsersAssumption ==
    /\ Seat \in [User -> Node] /\ Near \in [Node -> SUBSET Node]
    /\ Speaks \in [SilMask -> SUBSET User] /\ MAXSILES \in Nat

VARIABLES
    known,     \* known[s]: the clients s knows of
    umodes,    \* umodes[s][u]
    count,     \* count[s]: Count.total, local, oper, invisi
    drift,     \* history: the counters that are off until the next recount
    silence,   \* silence[s][u]: user->silence
    away,      \* away[s]: the clients that s takes to be away
    autoaway,  \* those with FLAGS_AUTOAWAY, on their own server
    confs,     \* confs[u]: the conf items attached to it, last one first
    oper_cptr_list, olines,   \* olines[s]: the O-lines work
    line, linked,             \* what is on its way; the links that stand
    doing, done, breaks       \* the commands of this behaviour

uvars == <<known, umodes, count, drift, silence, away, autoaway, confs, oper_cptr_list,
           olines, line, linked, doing, done, breaks>>
idle  == <<away, autoaway>>

USER_UMODES == {"i", "w", "h", "B", "r", "p", "R", "S", "s", "f"}
ALL_UMODES  == USER_UMODES \cup {"o", "O", "y", "a", "z", "H", "A", "T", "N"}
OnlyServers == {"v", "z", "r", "B"}             \* set and cleared by servers only
AddedByServers == {"S", "N", "T", "h", "A", "a"}

IsOper(m) == "o" \in m
IsAnOper(m) == m \cap {"o", "O"} # {}
Pipes == UNION {{s} \X Near[s] : s \in Node}

UInit ==
    /\ known = [s \in Node |-> {}] /\ umodes = [s \in Node |-> [u \in User |-> {}]]
    /\ count = [s \in Node |-> [total |-> 0, local |-> 0, oper |-> 0, invisi |-> 0]]
    /\ drift = [s \in Node |-> {}]
    /\ silence = [s \in Node |-> [u \in User |-> {}]]
    /\ away = [s \in Node |-> {}] /\ autoaway = {}
    /\ confs = [u \in User |-> << >>]
    /\ oper_cptr_list = [s \in Node |-> {}] /\ olines = [s \in Node |-> TRUE]
    /\ line = [l \in Pipes |-> << >>] /\ linked = Pipes
    /\ doing \in DOMAIN Doing /\ done = 0 /\ breaks = 0

-----------------------------------------------------------------------------
(* sendto_serv_butone; `from' is s itself, or the link that the message     *)
(* being handled came from.                                                 *)
Said(s, from, msgs) ==
    line' = [l \in Pipes |->
               LET rest == IF l = <<from, s>> THEN Tail(line[l]) ELSE line[l]
               IN  IF l \in linked /\ l[1] = s /\ l[2] # from THEN rest \o msgs ELSE rest]
(* The same, and then sendto_one to what is reached over t.                 *)
SaidTo(s, from, t, first, msgs) ==
    line' = [l \in Pipes |->
               LET rest == IF l = <<from, s>> THEN Tail(line[l]) ELSE line[l]
                   all  == IF l[1] = s /\ l[2] # from THEN first ELSE << >>
               IN  IF l \notin linked THEN rest
                   ELSE rest \o all \o (IF l = <<s, t>> THEN msgs ELSE << >>)]

Order(a) == a \in doing /\ done < Doing[doing] /\ done' = done + 1
Still == UNCHANGED <<linked, doing, breaks>>
One(x) == IF x THEN 1 ELSE 0

(* send_umode_out: what has changed, if anything.                           *)
Changed(u, old, new) ==
    LET add == (new \ old) \cap ALL_UMODES
        del == (old \ new) \cap ALL_UMODES
    IN  IF add \cup del = {} THEN << >>
        ELSE <<[t |-> "mode", u |-> u, add |-> add, del |-> del]>>

(* The end of user_mode: a client that is no operator keeps no flag of one, *)
(* and +i is counted.                                                       *)
Normal(m) == IF IsAnOper(m) THEN m ELSE m \cap (USER_UMODES \cup {"z"})
invisi(old, new) == One("i" \in new) - One("i" \in old)

Recounted(s) ==
    LET U == known[s]
    IN  [total |-> Cardinality(U), local |-> Cardinality({u \in U : Seat[u] = s}),
         oper |-> Cardinality({u \in U : IsAnOper(umodes[s][u])}),
         invisi |-> Cardinality({u \in U : "i" \in umodes[s][u]})]

-----------------------------------------------------------------------------
(* register_user: a local client is made invisible.  show_lusers may count  *)
(* anew; it does so on the way or at a LUSERS.                              *)
Welcome(u) ==
    LET s == Seat[u]
    IN  /\ Order("welcome") /\ u \notin known[s]
        /\ known' = [known EXCEPT ![s] = @ \cup {u}]
        /\ umodes' = [umodes EXCEPT ![s][u] = {"i"}]
        /\ count' = [count EXCEPT ![s].total = @ + 1, ![s].local = @ + 1, ![s].invisi = @ + 1]
        /\ confs' = [confs EXCEPT ![u] = <<"I">>]
        /\ Said(s, s, <<[t |-> "nick", u |-> u, modes |-> {"i"}]>>)
        /\ Still /\ UNCHANGED <<idle, drift, silence, oper_cptr_list, olines>>

show_lusers(s) ==
    /\ drift[s] # {}
    /\ count' = [count EXCEPT ![s] = Recounted(s)] /\ drift' = [drift EXCEPT ![s] = {}]
    /\ Still /\ UNCHANGED <<idle, known, umodes, silence, confs, oper_cptr_list, olines, line, done>>

(* update_client_exit_stats                                                 *)
Opers_Global(s, U) == {u \in U : IsOper(umodes[s][u])}

Opers(s, U) == {u \in U : IsAnOper(umodes[s][u])}
Uncount(s, U) ==
    [count[s] EXCEPT !.total = @ - Cardinality(U),
                     !.local = @ - Cardinality({u \in U : Seat[u] = s}),
                     !.oper = @ - Cardinality(Opers(s, U)),
                     !.invisi = @ - Cardinality({u \in U : "i" \in umodes[s][u]})]
(* exit_client and exit_one_client: all that s keeps of the clients U goes. *)
Emptied(f, U) == [u \in User |-> IF u \in U THEN {} ELSE f[u]]
exit_one_client(s, U) ==
    /\ known' = [known EXCEPT ![s] = @ \ U]
    /\ umodes' = [umodes EXCEPT ![s] = Emptied(@, U)]
    /\ silence' = [silence EXCEPT ![s] = Emptied(@, U)]
    /\ away' = [away EXCEPT ![s] = @ \ U]
    /\ count' = [count EXCEPT ![s] = Uncount(s, U)]

Leave(u) ==
    LET s == Seat[u]
    IN  /\ Order("leave") /\ u \in known[s]
        /\ exit_one_client(s, {u})
        /\ oper_cptr_list' = [oper_cptr_list EXCEPT ![s] = @ \ {u}]
        /\ confs' = [confs EXCEPT ![u] = << >>]
        /\ Said(s, s, <<[t |-> "quit", U |-> {u}]>>)
        /\ autoaway' = autoaway \ {u}
        /\ Still /\ UNCHANGED <<drift, olines>>

-----------------------------------------------------------------------------
(* user_mode by the client itself, one letter at a time.                    *)
MayAdd(u, x) ==
    /\ x \notin {"o", "O", "s", "f"} \cup OnlyServers \cup AddedByServers
    /\ x = "R" => "r" \in umodes[Seat[u]][u]
MayDrop(x) == x \notin {"o", "O", "s", "f"} \cup OnlyServers

Set(u, old, new) ==
    LET s == Seat[u]
    IN  /\ umodes' = [umodes EXCEPT ![s][u] = new]
        /\ Said(s, s, Changed(u, old, new))

UserMode(u, new) ==
    LET s == Seat[u]
        old == umodes[s][u]
    IN  /\ Order("mode") /\ u \in known[s]
        /\ Set(u, old, Normal(new))
        /\ count' = [count EXCEPT ![s].invisi = @ + invisi(old, Normal(new))]
        /\ Still /\ UNCHANGED <<idle, known, drift, silence, confs, oper_cptr_list, olines>>
AddMode(u, x) == MayAdd(u, x) /\ UserMode(u, umodes[Seat[u]][u] \cup {x})
DropMode(u, x) == MayDrop(x) /\ UserMode(u, umodes[Seat[u]][u] \ {x})

(* -o: the conf item attached last is taken for the O-line.                 *)
Unlisted(s, u) == [oper_cptr_list EXCEPT ![s] = @ \ {u}]

Detached(u) == [confs EXCEPT ![u] = IF @ = << >> THEN @ ELSE Tail(@)]
Deop(u) ==
    LET s == Seat[u]
        old == umodes[s][u]
    IN  /\ Order("mode") /\ u \in known[s] /\ IsAnOper(old)
        /\ Set(u, old, old \cap USER_UMODES)
        /\ count' = [count EXCEPT ![s].oper = @ - 1]
        /\ confs' = Detached(u) /\ oper_cptr_list' = Unlisted(s, u)
        /\ Still /\ UNCHANGED <<idle, known, drift, silence, olines>>

(* m_oper, with the name and password of an o-line ("O") or an O-line ("o"). *)
m_oper(u, x) ==
    LET s == Seat[u]
        old == umodes[s][u]
    IN  /\ Order("oper") /\ u \in known[s] /\ ~IsAnOper(old) /\ olines[s]
        /\ Set(u, old, old \cup {x} \cup OperFlags)
        /\ count' = [count EXCEPT ![s].oper = @ + 1]
        /\ confs' = [confs EXCEPT ![u] = <<"O">> \o @]
        /\ oper_cptr_list' = [oper_cptr_list EXCEPT ![s] = @ \cup {u}]
        /\ Still /\ UNCHANGED <<idle, known, drift, silence, olines>>

(* m_svsmode at the client's server.  It looks after neither the count of   *)
(* invisible clients nor the flags of operators, and counts a local         *)
(* operator once more.                                                      *)
SvsMode(u, new, opers, off) ==
    LET s == Seat[u]
    IN  /\ Order("svsmode") /\ u \in known[s]
        /\ Set(u, umodes[s][u], new)
        /\ count' = [count EXCEPT ![s].oper = @ + opers]
        /\ drift' = [drift EXCEPT ![s] = @ \cup off]
        /\ Still /\ UNCHANGED <<idle, known, silence, olines>>
SvsFlag(u, x) ==
    LET old == umodes[Seat[u]][u]
    IN  /\ x \notin {"o", "O"}
        /\ \E new \in {old \cup {x}, old \ {x}} :
              SvsMode(u, new, 0, IF x = "i" /\ new # old THEN {"invisi"} ELSE {})
        /\ UNCHANGED <<confs, oper_cptr_list>>
SvsOper(u) ==
    LET old == umodes[Seat[u]][u]
    IN  /\ ~IsOper(old)
        /\ SvsMode(u, old \cup {"o"}, 1, IF IsAnOper(old) THEN {"oper"} ELSE {})
        /\ UNCHANGED <<confs, oper_cptr_list>>
SvsDeop(u) ==
    LET old == umodes[Seat[u]][u]
    IN  /\ IsAnOper(old) /\ SvsMode(u, old \ {"o", "O"}, -1, {})
        /\ confs' = Detached(u) /\ oper_cptr_list' = Unlisted(Seat[u], u)

(* m_svsadmin noopers: the operators of the list lose everything but their  *)
(* place in the count.                                                      *)
m_svsadmin(s) ==
    LET U == oper_cptr_list[s]
        old(u) == umodes[s][u]
    IN  /\ Order("noopers")
        /\ umodes' = [umodes EXCEPT ![s] =
                          [u \in User |-> IF u \in U THEN @[u] \cap USER_UMODES ELSE @[u]]]
        /\ confs' = [u \in User |-> IF u \in U THEN Tail(confs[u]) ELSE confs[u]]
        /\ oper_cptr_list' = [oper_cptr_list EXCEPT ![s] = {}]
        /\ olines' = [olines EXCEPT ![s] = FALSE]
        /\ drift' = [drift EXCEPT ![s] = @ \cup (IF U = {} THEN {} ELSE {"oper"})]
        /\ Said(s, s, FlattenSeq([i \in 1 .. Cardinality(U) |->
                       LET u == SetToSeq(U)[i] IN Changed(u, old(u), old(u) \cap USER_UMODES)]))
        /\ Still /\ UNCHANGED <<idle, known, count, silence>>

(* m_nick with another nick, m_svsnick and m_svsguest: the nick is not      *)
(* identified any more.  m_nick takes +R away too, and tells only the       *)
(* client.                                                                  *)
nickkilldone(u, services) ==
    LET s == Seat[u]
        gone == IF "r" \notin umodes[s][u] THEN {} ELSE IF services THEN {"r"} ELSE {"r", "R"}
    IN  /\ Order("rename") /\ u \in known[s]
        /\ umodes' = [umodes EXCEPT ![s][u] = @ \ gone]
        /\ Said(s, s, <<[t |-> "rename", u |-> u]>>)
        /\ Still /\ UNCHANGED <<idle, known, count, drift, silence, confs, oper_cptr_list, olines>>

-----------------------------------------------------------------------------
(* m_silence by the client.                                                 *)
AddSilence(u, m) ==
    LET s == Seat[u]
    IN  /\ Order("silence") /\ u \in known[s]
        /\ ~(\E k \in silence[s][u] : Speaks[m] \subseteq Speaks[k])
        /\ Cardinality(silence[s][u]) < MAXSILES
        /\ silence' = [silence EXCEPT ![s][u] = @ \cup {m}]
        /\ Still /\ UNCHANGED <<idle, known, umodes, count, drift, confs, oper_cptr_list, olines, line>>
DelSilence(u, m) ==
    LET s == Seat[u]
    IN  /\ Order("silence") /\ u \in known[s] /\ m \in silence[s][u]
        /\ silence' = [silence EXCEPT ![s][u] = @ \ {m}]
        /\ Said(s, s, <<[t |-> "unsilence", u |-> u, m |-> m]>>)
        /\ Still /\ UNCHANGED <<idle, known, umodes, count, drift, confs, oper_cptr_list, olines>>

-----------------------------------------------------------------------------
(* m_away by the client, or for it (check_idle_actions at a PING or PONG).  *)
AwayMessage(u, on) == [t |-> "away", u |-> u, on |-> on]
SetAway(s, u, on) == away' = [away EXCEPT ![s] = IF on THEN @ \cup {u} ELSE @ \ {u}]
m_away(u, on) ==
    LET s == Seat[u]
    IN  /\ Order("away") /\ u \in known[s]
        /\ SetAway(s, u, on) /\ Said(s, s, <<AwayMessage(u, on)>>)
        /\ Still /\ UNCHANGED <<autoaway, known, umodes, count, drift, silence, confs,
                                oper_cptr_list, olines>>
check_idle_actions(u) ==
    LET s == Seat[u]
    IN  /\ Order("away") /\ u \in known[s] \ away[s]
        /\ SetAway(s, u, TRUE) /\ Said(s, s, <<AwayMessage(u, TRUE)>>)
        /\ autoaway' = autoaway \cup {u}
        /\ Still /\ UNCHANGED <<known, umodes, count, drift, silence, confs, oper_cptr_list, olines>>

(* A message of c to u, at server s (m_message): +R is for those who have   *)
(* identified, and is_silenced answers the server that it came from with    *)
(* the mask, for it to stop the next one.                                   *)
Way(s, u) == IF Seat[u] = s THEN s ELSE Towards[s][Seat[u]]
Relay(s, from, msg, first) ==
    LET hits == {m \in silence[s][msg.u] : msg.c \in Speaks[m]}
        deaf == "R" \in umodes[s][msg.u] /\ "r" \notin umodes[s][msg.c]
    IN  IF ~({msg.c, msg.u} \subseteq known[s]) THEN Said(s, from, << >>)
        ELSE IF deaf THEN Said(s, from, first)
        ELSE IF hits # {}
        THEN \E m \in hits :
               SaidTo(s, from, Way(s, msg.c), first,
                      <<[t |-> "silence", u |-> msg.u, c |-> msg.c, m |-> m]>>)
        ELSE SaidTo(s, from, Way(s, msg.u), first, <<msg>>)
(* remove_autoaway: at its own server the client is back, if it is away and *)
(* ever was so by itself.                                                   *)
Speak(c, u) ==
    LET s == Seat[c]
        back == c \in autoaway /\ c \in away[s] /\ u \in known[s]
    IN  /\ Order("speak") /\ c \in known[s] /\ c # u
        /\ IF back THEN SetAway(s, c, FALSE) /\ autoaway' = autoaway \ {c}
           ELSE UNCHANGED idle
        /\ Relay(s, s, [t |-> "msg", c |-> c, u |-> u],
                 IF back THEN <<AwayMessage(c, FALSE)>> ELSE << >>)
        /\ Still /\ UNCHANGED <<known, umodes, count, drift, silence, confs, oper_cptr_list, olines>>

-----------------------------------------------------------------------------
(* Messages of other servers.  MODE: user_mode with a server behind it.     *)
FromServer(old, msg) ==
    LET m == (old \cup msg.add) \ msg.del
    IN  Normal(IF msg.del \cap {"o", "O"} # {} /\ IsAnOper(old) THEN m \cap USER_UMODES ELSE m)
MoreOpers(old, msg) == One(IsAnOper(msg.add) /\ ~IsOper(old)) - One(IsAnOper(msg.del) /\ IsAnOper(old))

GetMode(s, from, msg) ==
    LET old == umodes[s][msg.u]
        new == FromServer(old, msg)
        again == IsAnOper(msg.add) /\ ~IsOper(old) /\ IsAnOper(old)
    IN  /\ umodes' = [umodes EXCEPT ![s][msg.u] = new]
        /\ count' = [count EXCEPT ![s].oper = @ + MoreOpers(old, msg),
                                  ![s].invisi = @ + invisi(old, new)]
        /\ drift' = [drift EXCEPT ![s] = @ \cup IF again THEN {"oper"} ELSE {}]
        /\ Said(s, from, Changed(msg.u, old, new))
        /\ UNCHANGED <<known, silence, away>>

(* NICK of a new client: +o is counted, +O is not.  register_user passes    *)
(* the modes of a remote client on as they are.                             *)
Carried(m) == m \cap ALL_UMODES

GetNick(s, from, msg) ==
    /\ known' = [known EXCEPT ![s] = @ \cup {msg.u}]
    /\ umodes' = [umodes EXCEPT ![s][msg.u] = msg.modes \cap ALL_UMODES]
    /\ count' = [count EXCEPT ![s].total = @ + 1, ![s].oper = @ + One(IsOper(msg.modes)),
                              ![s].invisi = @ + One("i" \in msg.modes)]
    /\ drift' = [drift EXCEPT ![s] = @ \cup IF IsAnOper(msg.modes) /\ ~IsOper(msg.modes)
                                            THEN {"oper"} ELSE {}]
    /\ Said(s, from, <<[msg EXCEPT !.modes = Carried(@)]>>)
    /\ UNCHANGED <<silence, away>>

GetRename(s, from, msg) ==
    /\ umodes' = [umodes EXCEPT ![s][msg.u] = @ \ {"r"}]
    /\ Said(s, from, <<msg>>)
    /\ UNCHANGED <<known, count, drift, silence, away>>

GetQuit(s, from, msg) ==
    LET U == msg.U \cap known[s]
    IN  /\ exit_one_client(s, U) /\ Said(s, from, IF U = {} THEN << >> ELSE <<msg>>)
        /\ UNCHANGED drift

GetSilence(s, from, msg) ==
    /\ silence' = [silence EXCEPT ![s][msg.u] =
                       IF msg.c \in known[s] THEN @ \cup {msg.m} ELSE @]
    /\ IF msg.c \in known[s] /\ Seat[msg.c] # s
       THEN SaidTo(s, from, Towards[s][Seat[msg.c]], << >>, <<msg>>) ELSE Said(s, from, << >>)
    /\ UNCHANGED <<known, umodes, count, drift, away>>
(* A server that does not have the mask does not pass the removal on.       *)
GetUnsilence(s, from, msg) ==
    /\ silence' = [silence EXCEPT ![s][msg.u] = @ \ {msg.m}]
    /\ Said(s, from, IF msg.m \in silence[s][msg.u] THEN <<msg>> ELSE << >>)
    /\ UNCHANGED <<known, umodes, count, drift, away>>

GetAway(s, from, msg) ==
    /\ SetAway(s, msg.u, msg.on) /\ Said(s, from, <<msg>>)
    /\ UNCHANGED <<known, umodes, count, drift, silence>>

Ignore(s, from) == Said(s, from, << >>) /\ UNCHANGED <<known, umodes, count, drift, silence, away>>

Take(s, from) ==
    LET msg == Head(line[<<from, s>>])
        has == msg.t \notin {"quit", "nick"} => msg.u \in known[s]
    IN  /\ line[<<from, s>>] # << >>
        /\ \/ ~has /\ Ignore(s, from)
           \/ has /\ \/ msg.t = "mode" /\ GetMode(s, from, msg)
                     \/ msg.t = "nick" /\ GetNick(s, from, msg)
                     \/ msg.t = "rename" /\ GetRename(s, from, msg)
                     \/ msg.t = "quit" /\ GetQuit(s, from, msg)
                     \/ msg.t = "silence" /\ GetSilence(s, from, msg)
                     \/ msg.t = "away" /\ GetAway(s, from, msg)
                     \/ msg.t = "unsilence" /\ GetUnsilence(s, from, msg)
                     \/ /\ msg.t = "msg" /\ Relay(s, from, msg, << >>)
                        /\ UNCHANGED <<known, umodes, count, drift, silence, away>>
        /\ Still /\ UNCHANGED <<autoaway, confs, oper_cptr_list, olines, done>>

-----------------------------------------------------------------------------
(* A link breaks: each end loses the clients behind it and says so on.      *)
Lost(s, t) == {u \in known[s] : Seat[u] # s /\ Towards[s][Seat[u]] = t}
Split(s, t) ==
    LET lost(x) == IF x = s THEN Lost(s, t) ELSE IF x = t THEN Lost(t, s) ELSE {}
    IN  /\ breaks < MaxBreaks /\ breaks' = breaks + 1 /\ <<s, t>> \in linked
        /\ linked' = linked \ {<<s, t>>, <<t, s>>}
        /\ known' = [x \in Node |-> known[x] \ lost(x)]
        /\ umodes' = [x \in Node |-> Emptied(umodes[x], lost(x))]
        /\ silence' = [x \in Node |-> Emptied(silence[x], lost(x))]
        /\ away' = [x \in Node |-> away[x] \ lost(x)]
        /\ count' = [x \in Node |-> Uncount(x, lost(x))]
        /\ line' = [l \in Pipes |->
                      IF l \notin linked' THEN << >>
                      ELSE IF lost(l[1]) = {} THEN line[l]
                      ELSE Append(line[l], [t |-> "quit", U |-> lost(l[1])])]
        /\ UNCHANGED <<drift, autoaway, confs, oper_cptr_list, olines, doing, done>>

(* server_estab: sendnick_TS for every client.                              *)
Told_NoAway(s, u) == << >>

Told(s, u) == IF u \in away[s] THEN <<AwayMessage(u, TRUE)>> ELSE << >>
Burst(s) ==
    LET U == SetToSeq(known[s])
    IN  FlattenSeq([i \in DOMAIN U |->
            <<[t |-> "nick", u |-> U[i], modes |-> umodes[s][U[i]] \cap ALL_UMODES]>>
            \o Told(s, U[i])])
Join(s, t) ==
    /\ <<s, t>> \notin linked
    /\ linked' = linked \cup {<<s, t>>, <<t, s>>}
    /\ line' = [line EXCEPT ![<<s, t>>] = Burst(s), ![<<t, s>>] = Burst(t)]
    /\ UNCHANGED <<known, umodes, count, drift, silence, idle, confs, oper_cptr_list, olines,
                   doing, done, breaks>>

UNext ==
    \/ \E u \in User : \/ Welcome(u) \/ Leave(u) \/ Deop(u) \/ SvsOper(u) \/ SvsDeop(u)
                       \/ check_idle_actions(u)
                       \/ \E b \in BOOLEAN : nickkilldone(u, b) \/ m_away(u, b)
                       \/ \E x \in Letter : AddMode(u, x) \/ DropMode(u, x) \/ SvsFlag(u, x)
                       \/ \E x \in {"o", "O"} : m_oper(u, x)
                       \/ \E m \in SilMask : AddSilence(u, m) \/ DelSilence(u, m)
                       \/ \E c \in User : Speak(c, u)
    \/ \E s \in Node : show_lusers(s) \/ m_svsadmin(s)
    \/ \E l \in Pipes : Take(l[2], l[1]) \/ Split(l[1], l[2]) \/ Join(l[1], l[2])

USpec == UInit /\ [][UNext]_uvars

-----------------------------------------------------------------------------
Actual(s, k) == Recounted(s)[k]

(* When nothing is on its way, every server that knows a client has the     *)
(* modes of its own server, but for flags of operators that services gave   *)
(* to somebody who was none then, and for an +R that went with a nick; it   *)
(* is away at all of them or at none; and no server silences for it whom it *)
(* does not silence.  (send_umode_out, user_mode, m_svsmode, m_nick,        *)
(* m_away, remove_autoaway, sendnick_TS, m_silence, is_silenced.)           *)
ModesAgree ==
    (\A l \in Pipes : line[l] = << >>) =>
        \A s \in Node : \A u \in known[s] :
            LET own   == umodes[Seat[u]][u]
                there == umodes[s][u]
                Firm  == (USER_UMODES \cup {"o", "O"}) \ {"R"}
            IN  /\ u \in known[Seat[u]]
                /\ there \cap Firm = own \cap Firm
                /\ there \ {"R"} \subseteq own
                /\ "R" \in own => "R" \in there
                /\ silence[s][u] \subseteq silence[Seat[u]][u]
                /\ u \in away[s] <=> u \in away[Seat[u]]

(* The counters of every server are what a recount would give, but for      *)
(* those that SVSMODE, noopers, a second +o or a netjoin with a local       *)
(* operator has put wrong since the last one; and whoever is in its list of *)
(* operators is an operator with an O-line attached, and nobody else has    *)
(* one.  The modes agree.  (register_user, user_mode, m_oper, m_svsmode,    *)
(* m_svsadmin, m_nick, update_client_exit_stats, exit_client, show_lusers.) *)
UsersRight ==
    /\ ModesAgree
    /\ \A s \in Node : \A k \in {"total", "local", "oper", "invisi"} \ drift[s] :
           count[s][k] = Actual(s, k)
    /\ \A u \in User : LET s == Seat[u] IN
           /\ u \in oper_cptr_list[s] => u \in known[s] /\ IsAnOper(umodes[s][u])
           /\ u \in oper_cptr_list[s] <=> Contains(confs[u], "O")
===============================================================================
