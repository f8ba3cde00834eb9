------------------------------- MODULE NickTS -------------------------------
(***************************************************************************)
(* Nicknames on a tree of PTlink servers (src/src/s_user.c, m_kill.c,      *)
(* whowas.c, parse.c): clients register, change their nick, quit and are   *)
(* killed while NICK, QUIT and KILL lines that name clients by nick are in *)
(* flight; a nick held by two clients is a collision that each server      *)
(* decides on its own, from the two timestamps and user@hosts.             *)
(*                                                                         *)
(* Clients have an identity here that the program does not send: a line    *)
(* carries nicks, and every handler looks them up in its own tables.  A    *)
(* nick is an element of Nick (case changes are not modelled).  Links stay *)
(* up once established, and lines arrive within KILLCHASETIMELIMIT, so the *)
(* nick history neither expires nor wraps.                                 *)
(***************************************************************************)
EXTENDS Naturals, Sequences, FiniteSets

CONSTANTS
  Server,       \* the servers
  Client,       \* the clients
  Home,         \* Home[u]: the server the client u is connected to
  Via,          \* Via[s][t]: the neighbour of s on the way to t (s itself if s = t)
  UserHost,     \* UserHost[u]: what stands for user@host of u
  Services,     \* the services servers
  Nick,         \* the nicknames
  NoNick,       \* no nickname
  Nobody,       \* no client
  MaxTS,        \* bound on timestamps (clocks of servers are not synchronised)
  Present,      \* the clients registered at the start
  Start,        \* the nicks and timestamps they may have
  Linked,       \* TRUE iff the servers are already linked at the start
  Acts,         \* the commands the environment issues
  MaxOps        \* bound on the commands issued

TSVal == 0..MaxTS

(* CurrentTime, which may stand still, run or be set back. *)
Now == 1..MaxTS

ASSUME ConstAssumption ==
  /\ IsFiniteSet(Client)
  /\ Home \in [Client -> Server]
  /\ Via \in [Server -> [Server -> Server]]
  /\ \A s, t \in Server : Via[s][t] = s <=> s = t
  /\ Services \subseteq Server
  /\ NoNick \notin Nick /\ Nobody \notin Client
  /\ MaxTS \in Nat /\ MaxOps \in Nat
  /\ Present \subseteq Client
  /\ Start \subseteq [nick : [Present -> Nick], ts : [Present -> Now]]
  /\ Linked \in BOOLEAN

(***************************************************************************)
(* What a server knows: the nick and tsinfo of every client in its hash    *)
(* table, which of them are registered (IsPerson), and per nick the client *)
(* the newest whowas entry points to.                                      *)
(***************************************************************************)
Table == [name : [Client -> Nick \cup {NoNick}], ts : [Client -> TSVal],
          reg : SUBSET Client, hist : [Nick -> Client \cup {Nobody}]]

Known(t) == {u \in Client : t.name[u] # NoNick}

(* The lines servers exchange. *)
NickMsg == [type : {"NICK"}, who : Client, nick : Nick, ts : TSVal]
ChangeMsg == [type : {"CHANGE"}, src : Nick, nick : Nick, ts : TSVal]
QuitMsg == [type : {"QUIT"}, src : Nick]
KillMsg == [type : {"KILL"}, nick : Nick]
SvsMsg == [type : {"SVSNICK"}, nick : Nick, ts : TSVal, new : Nick]
ServerMsg == [type : {"SERVER"}]
Msg == NickMsg \cup ChangeMsg \cup QuitMsg \cup KillMsg \cup SvsMsg \cup ServerMsg

NICK(t, u) == [type |-> "NICK", who |-> u, nick |-> t.name[u], ts |-> t.ts[u]]
CHANGE(src, n, ts) == [type |-> "CHANGE", src |-> src, nick |-> n, ts |-> ts]
QUIT(src) == [type |-> "QUIT", src |-> src]
KILL(n) == [type |-> "KILL", nick |-> n]

VARIABLES
  links,   \* links[s]: the servers s has established a link with
  tab,     \* tab[s]: the table of s
  q,       \* q[s][t]: lines sent by s that t has not handled yet
  met,     \* the clients that have connected so far
  ops      \* number of commands issued so far

vars == <<links, tab, q, met, ops>>

-----------------------------------------------------------------------------
(* Operations on a table. *)

find_client(t, n) ==
  IF \E u \in Client : t.name[u] = n THEN CHOOSE u \in Client : t.name[u] = n ELSE Nobody

(* Mutant: a KILL does not follow nick changes.                            *)
find_chasing_NoHist(t, n) == find_client(t, n)

(* The client a KILL for n hits: the holder, or who last gave the nick up. *)
find_chasing(t, n) == IF find_client(t, n) # Nobody THEN find_client(t, n) ELSE t.hist[n]

(* Mutant: off_history is not called.                                      *)
Exit_KeepHist(t, u) ==
  [t EXCEPT !.name[u] = NoNick, !.ts[u] = 0, !.reg = @ \ {u}]

(* exit_one_client, release_client_state: u leaves the hash table; its     *)
(* last nick gets a whowas entry that points to nobody, and off_history    *)
(* clears the entries that point to u.  An unregistered client has none.   *)
Exit(t, u) ==
  [name |-> [t.name EXCEPT ![u] = NoNick],
   ts |-> [t.ts EXCEPT ![u] = 0],
   reg |-> t.reg \ {u},
   hist |-> [n \in Nick |-> IF t.hist[n] = u \/ (u \in t.reg /\ t.name[u] = n)
                            THEN Nobody ELSE t.hist[n]]]

(* nickkilldone for a client that a server introduces.                     *)
Introduce(t, u, n, ts) ==
  [t EXCEPT !.name[u] = n, !.ts[u] = ts, !.reg = @ \cup {u}]

(* nickkilldone for a nick change: the old nick goes to the history.       *)
Rename(t, u, n, ts) ==
  [t EXCEPT !.name[u] = n, !.ts[u] = ts, !.hist[t.name[u]] = u]

(* The verdict on a nick that is taken here by the registered client a and *)
(* claimed by u: the older of two strangers and the newer of two           *)
(* connections of one user wins.                                           *)
sameuser(a, u) == UserHost[a] = UserHost[u]

(* Mutant: with equal timestamps ours stays.                               *)
Verdict_Tie(t, a, u, ts) ==
  IF ts # 0 /\ t.ts[a] # 0 /\ (sameuser(a, u) <=> ts > t.ts[a]) THEN "ours" ELSE "theirs"

Verdict(t, a, u, ts) ==
  CASE ts = 0 \/ t.ts[a] = 0 \/ ts = t.ts[a] -> "both"
    [] sameuser(a, u) /\ ts < t.ts[a] -> "theirs"
    [] ~sameuser(a, u) /\ ts > t.ts[a] -> "theirs"
    [] OTHER -> "ours"

(* The nick n is not taken by a registered client: one that has not        *)
(* registered yet is overridden.                                           *)
Free(t, n) == find_client(t, n) \notin t.reg

(* Mutant: it is not removed.                                              *)
Overridden_Kept(t, n) == t
Overridden(t, n) == IF find_client(t, n) = Nobody THEN t ELSE Exit(t, find_client(t, n))

-----------------------------------------------------------------------------
(* sendto_serv_butone: qs after s has sent the lines ms to all links but   *)
(* one; nobody is left out if that one is s itself.                        *)
Send(qs, s, except, ms) ==
  [qs EXCEPT ![s] = [t \in Server |->
      IF t \in links[s] \ {except} THEN qs[s][t] \o ms ELSE qs[s][t]]]

(* sendto_one *)
SendOne(qs, s, p, m) == [qs EXCEPT ![s][p] = Append(@, m)]

Consume(s, p) == [q EXCEPT ![p][s] = Tail(@)]

NextLine(p, s, type) == q[p][s] # << >> /\ Head(q[p][s]).type = type

(* What happens to a line from p with the nick n as prefix: nobody has     *)
(* that nick (remove_unknown has p KILL it), its holder is not behind p    *)
(* (cancel_clients ignores the line), or the holder is the source.         *)
Unknown(s, n) == find_client(tab[s], n) = Nobody
Genuine(s, p, n) == ~Unknown(s, n) /\ Via[s][Home[find_client(tab[s], n)]] = p

(* server_estab: a line for every registered client, in some order.        *)
Bursts(s) ==
  LET S == tab[s].reg
      N == Cardinality(S)
  IN  { [i \in 1..N |-> NICK(tab[s], f[i])] :
        f \in {g \in [1..N -> S] : \A i, j \in 1..N : g[i] = g[j] => i = j} }

-----------------------------------------------------------------------------
Neighbours(s) == {t \in Server : t # s /\ Via[s][t] = t /\ Via[t][s] = s}

(* Every server starts alone with some registered clients of its own, or   *)
(* all of them are linked and know the same clients.                       *)
Init ==
  /\ links = [s \in Server |-> IF Linked THEN Neighbours(s) ELSE {}]
  /\ \E st \in Start :
       /\ \A u, v \in Present :
            (Linked \/ Home[u] = Home[v]) /\ st.nick[u] = st.nick[v] => u = v
       /\ tab = [s \in Server |->
            LET mine == {u \in Present : Linked \/ Home[u] = s}
            IN  [name |-> [u \in Client |-> IF u \in mine THEN st.nick[u] ELSE NoNick],
                 ts |-> [u \in Client |-> IF u \in mine THEN st.ts[u] ELSE 0],
                 reg |-> mine,
                 hist |-> [n \in Nick |-> Nobody]]]
  /\ q = [s \in Server |-> [t \in Server |-> << >>]]
  /\ met = Present
  /\ ops = 0

(* t has accepted s's SERVER line: server_estab bursts to s.               *)
Connect(t, s) ==
  /\ s \in Neighbours(t)
  /\ s \notin links[t] /\ t \notin links[s] /\ q[t][s] = << >>
  /\ links' = [links EXCEPT ![t] = @ \cup {s}]
  /\ \E b \in Bursts(t) : q' = [q EXCEPT ![t][s] = <<[type |-> "SERVER"]>> \o b]
  /\ UNCHANGED <<tab, met, ops>>

(* The answer to our SERVER line: we establish the link and burst as well. *)
RecvServer(s, p) ==
  /\ NextLine(p, s, "SERVER")
  /\ links' = [links EXCEPT ![s] = @ \cup {p}]
  /\ \E b \in Bursts(s) : q' = [Consume(s, p) EXCEPT ![s][p] = @ \o b]
  /\ UNCHANGED <<tab, met, ops>>

(* m_nick, m_nnick: a server introduces a client.                          *)
RecvNick(s, p) ==
  /\ NextLine(p, s, "NICK")
  /\ LET m == Head(q[p][s])
         t == tab[s]
         qs == Consume(s, p)
         a == find_client(t, m.nick)
         verdict == IF Home[m.who] \in Services THEN "ours" ELSE Verdict(t, a, m.who, m.ts)
         Accept(t2, q2) ==
           /\ tab' = [tab EXCEPT ![s] = Introduce(t2, m.who, m.nick, m.ts)]
           /\ q' = Send(q2, s, p, <<m>>)
     IN  \/ a \notin t.reg /\ Accept(Overridden(t, m.nick), qs)
         \/ /\ a \in t.reg /\ verdict = "ours"
            /\ Accept(Exit(t, a), Send(qs, s, p, <<KILL(m.nick)>>))
         \/ /\ a \in t.reg /\ verdict = "theirs"
            /\ q' = qs /\ UNCHANGED tab
         \/ /\ a \in t.reg /\ verdict = "both"
            /\ tab' = [tab EXCEPT ![s] = Exit(t, a)]
            /\ q' = Send(qs, s, s, <<KILL(m.nick)>>)
  /\ UNCHANGED <<links, met, ops>>

(* m_nick: a client behind p changes its nick.                             *)
RecvChange(s, p) ==
  /\ NextLine(p, s, "CHANGE")
  /\ LET m == Head(q[p][s])
         t == tab[s]
         qs == Consume(s, p)
         u == find_client(t, m.src)
         a == find_client(t, m.nick)
         verdict == Verdict(t, a, u, m.ts)
         Accept(t2, q2) ==
           /\ tab' = [tab EXCEPT ![s] = Rename(t2, u, m.nick, m.ts)]
           /\ q' = Send(q2, s, p, <<m>>)
     IN  \/ Unknown(s, m.src) /\ q' = SendOne(qs, s, p, KILL(m.src)) /\ UNCHANGED tab
         \/ /\ ~Unknown(s, m.src) /\ (~Genuine(s, p, m.src) \/ a = u)
            /\ q' = qs /\ UNCHANGED tab
         \/ /\ Genuine(s, p, m.src) /\ a # u /\ a \notin t.reg
            /\ Accept(Overridden(t, m.nick), qs)
         \/ /\ Genuine(s, p, m.src) /\ a # u /\ a \in t.reg /\ verdict = "ours"
            /\ Accept(Exit(t, a), Send(qs, s, p, <<KILL(m.nick)>>))
         \/ /\ Genuine(s, p, m.src) /\ a # u /\ a \in t.reg /\ verdict = "theirs"
            /\ tab' = [tab EXCEPT ![s] = Exit(t, u)]
            /\ q' = Send(qs, s, p, <<KILL(m.src)>>)
         \/ /\ Genuine(s, p, m.src) /\ a # u /\ a \in t.reg /\ verdict = "both"
            /\ tab' = [tab EXCEPT ![s] = Exit(Exit(t, a), u)]
            /\ q' = Send(qs, s, s, <<KILL(m.src), KILL(m.nick)>>)
  /\ UNCHANGED <<links, met, ops>>

RecvQuit(s, p) ==
  /\ NextLine(p, s, "QUIT")
  /\ LET m == Head(q[p][s])
         qs == Consume(s, p)
     IN  \/ Unknown(s, m.src) /\ q' = SendOne(qs, s, p, KILL(m.src)) /\ UNCHANGED tab
         \/ ~Unknown(s, m.src) /\ ~Genuine(s, p, m.src) /\ q' = qs /\ UNCHANGED tab
         \/ /\ Genuine(s, p, m.src)
            /\ tab' = [tab EXCEPT ![s] = Exit(@, find_client(@, m.src))]
            /\ q' = Send(qs, s, p, <<m>>)
  /\ UNCHANGED <<links, met, ops>>

(* Mutant: a KILL for nobody goes back.                                    *)
RecvKill_Echo(s, p) ==
  /\ NextLine(p, s, "KILL")
  /\ LET m == Head(q[p][s])
         t == tab[s]
         a == find_client(t, m.nick)
     IN  \/ a = Nobody /\ q' = SendOne(Consume(s, p), s, p, m) /\ UNCHANGED tab
         \/ /\ a # Nobody
            /\ tab' = [tab EXCEPT ![s] = Exit(t, a)]
            /\ q' = Send(Consume(s, p), s, p, <<m>>)
  /\ UNCHANGED <<links, met, ops>>

(* m_kill from a server.  A KILL that was chased to a new nick also goes   *)
(* back where it came from.                                                *)
RecvKill(s, p) ==
  /\ NextLine(p, s, "KILL")
  /\ LET m == Head(q[p][s])
         t == tab[s]
         qs == Consume(s, p)
         a == find_chasing(t, m.nick)
     IN  \/ a = Nobody /\ q' = qs /\ UNCHANGED tab
         \/ /\ a # Nobody
            /\ tab' = [tab EXCEPT ![s] = Exit(t, a)]
            /\ q' = Send(qs, s, IF find_client(t, m.nick) = Nobody THEN s ELSE p,
                         <<KILL(t.name[a])>>)
  /\ UNCHANGED <<links, met, ops>>

(* m_svsnick: services rename a client, on the server it is connected to.  *)
(* A client whose new nick is taken here exits, and the link the line came *)
(* from is not told.                                                       *)
RecvSvsNick(s, p) ==
  /\ NextLine(p, s, "SVSNICK")
  /\ LET m == Head(q[p][s])
         t == tab[s]
         qs == Consume(s, p)
         a == find_client(t, m.nick)
         mine == a \in t.reg /\ Home[a] = s
         meant == mine /\ m.ts \in {0, t.ts[a]}
     IN  \/ (a \notin t.reg \/ (mine /\ ~meant)) /\ q' = qs /\ UNCHANGED tab
         \/ /\ meant /\ m.new # m.nick /\ find_client(t, m.new) # Nobody
            /\ tab' = [tab EXCEPT ![s] = Exit(t, a)]
            /\ q' = Send(qs, s, p, <<QUIT(m.nick)>>)
         \/ /\ meant /\ (m.new = m.nick \/ find_client(t, m.new) = Nobody)
            /\ \E now \in Now :
                 /\ tab' = [tab EXCEPT ![s] = Rename(t, a, m.new, now)]
                 /\ q' = Send(qs, s, s, <<CHANGE(m.nick, m.new, now)>>)
         \/ /\ a \in t.reg /\ ~mine /\ Via[s][Home[a]] = p
            /\ q' = qs /\ UNCHANGED tab
         \/ /\ a \in t.reg /\ ~mine /\ Via[s][Home[a]] # p
            /\ q' = SendOne(qs, s, Via[s][Home[a]], m) /\ UNCHANGED tab
  /\ UNCHANGED <<links, met, ops>>

Receive(s, p) ==
  \/ RecvServer(s, p) \/ RecvNick(s, p) \/ RecvChange(s, p)
  \/ RecvQuit(s, p) \/ RecvKill(s, p) \/ RecvSvsNick(s, p)

-----------------------------------------------------------------------------
(* Commands of local clients. *)
Issue(act) == act \in Acts /\ ops < MaxOps /\ ops' = ops + 1

(* NICK of a client that has not registered yet.                           *)
SetNick(u, n) ==
  LET s == Home[u]
      t == tab[s]
  IN
  /\ Issue("nick")
  /\ u \notin met \/ (u \in Known(t) \ t.reg /\ t.name[u] # n)
  /\ Free(t, n)
  /\ \E now \in Now :
       tab' = [tab EXCEPT ![s] =
                 [Overridden(t, n) EXCEPT !.name[u] = n, !.ts[u] = now]]
  /\ met' = met \cup {u}
  /\ UNCHANGED <<links, q>>

(* register_user: the network is told.                                     *)
Register(u) ==
  LET s == Home[u] IN
  /\ u \in Known(tab[s]) \ tab[s].reg
  /\ tab' = [tab EXCEPT ![s].reg = @ \cup {u}]
  /\ q' = Send(q, s, s, <<NICK(tab[s], u)>>)
  /\ UNCHANGED <<links, met, ops>>

(* NICK of a registered client.                                            *)
ChangeNick(u, n) ==
  LET s == Home[u]
      t == tab[s]
  IN
  /\ Issue("change")
  /\ u \in t.reg /\ Free(t, n)
  /\ \E now \in Now :
       /\ tab' = [tab EXCEPT ![s] = Rename(Overridden(t, n), u, n, now)]
       /\ q' = Send(q, s, s, <<CHANGE(t.name[u], n, now)>>)
  /\ UNCHANGED <<links, met>>

(* The same, refused by nickkilldone (locked nicks, a ban, +N, too many    *)
(* changes) after the timestamp has been set.                              *)
RefuseChange(u, n) ==
  LET s == Home[u]
      t == tab[s]
  IN
  /\ Issue("refuse")
  /\ u \in t.reg /\ Free(t, n)
  /\ \E now \in Now : tab' = [tab EXCEPT ![s] = [Overridden(t, n) EXCEPT !.ts[u] = now]]
  /\ UNCHANGED <<links, q, met>>

(* u leaves its server; only registered clients are known elsewhere.       *)
LeaveHome(u) ==
  LET s == Home[u] IN
  /\ tab' = [tab EXCEPT ![s] = Exit(@, u)]
  /\ q' = IF u \in tab[s].reg THEN Send(q, s, s, <<QUIT(tab[s].name[u])>>) ELSE q
  /\ UNCHANGED <<links, met>>

Quit(u) == Issue("quit") /\ u \in Known(tab[Home[u]]) /\ LeaveHome(u)

(* m_kill of an oper on s.  A client of s just quits, for the others.      *)
OperKill(s, n) ==
  LET a == find_chasing(tab[s], n) IN
  /\ Issue("kill")
  /\ a # Nobody
  /\ \/ Home[a] = s /\ LeaveHome(a)
     \/ /\ Home[a] # s
        /\ tab' = [tab EXCEPT ![s] = Exit(@, a)]
        /\ q' = Send(q, s, s, <<KILL(tab[s].name[a])>>)
        /\ UNCHANGED <<links, met>>

(* Services enforce a nick; the timestamp 0 matches any client.            *)
SvsNick(s, u, n) ==
  /\ Issue("svsnick")
  /\ s \in Services /\ u \in tab[s].reg /\ Home[u] # s
  /\ \E ts \in {0, tab[s].ts[u]} :
       q' = SendOne(q, s, Via[s][Home[u]],
              [type |-> "SVSNICK", nick |-> tab[s].name[u], ts |-> ts, new |-> n])
  /\ UNCHANGED <<links, tab, met>>

Next ==
  \/ \E s, t \in Server : Connect(t, s) \/ Receive(s, t)
  \/ \E u \in Client :
       \/ Register(u) \/ Quit(u)
       \/ \E n \in Nick : SetNick(u, n) \/ ChangeNick(u, n) \/ RefuseChange(u, n)
  \/ \E s \in Server, n \in Nick :
       OperKill(s, n) \/ \E u \in Client : SvsNick(s, u, n)

Spec == Init /\ [][Next]_vars

(* Servers keep reading their links, and the configured links come up.     *)
Fairness ==
  \A s, t \in Server : WF_vars(Receive(s, t)) /\ WF_vars(Connect(t, s))

FairSpec == Spec /\ Fairness

-----------------------------------------------------------------------------
(* Type invariant: every table and every line is of its type.              *)
TypeOK ==
  /\ links \in [Server -> SUBSET Server]
  /\ tab \in [Server -> Table]
  /\ q \in [Server -> [Server -> Seq(Msg)]]
  /\ met \in SUBSET Client
  /\ ops \in 0..MaxOps

(* No server ever has two clients with one nick in its hash table, however *)
(* NICK, KILL and QUIT lines cross (m_nick).                               *)
NickUnique ==
  \A s \in Server : \A u, v \in Known(tab[s]) :
    tab[s].name[u] = tab[s].name[v] => u = v

(* The nick history never points to a client that is gone: off_history     *)
(* runs before a client is freed, whichever way it leaves.                 *)
NoDangling ==
  \A s \in Server, n \in Nick :
    tab[s].hist[n] # Nobody => tab[s].hist[n] \in Known(tab[s])

Quiet == \A s, t \in Server : q[s][t] = << >>

(* What a server tells the network about a client. *)
View(t) == [u \in t.reg |-> <<t.name[u], t.ts[u]>>]

(* Once every line of a netjoin has been handled linked servers know the   *)
(* same clients by the same nicks and timestamps: whoever lost a collision *)
(* is gone everywhere ("the sanitization works anyway", README.TSora:134). *)
NetjoinAgrees ==
  Quiet /\ ops = 0 => \A s \in Server : \A t \in links[s] : View(tab[s]) = View(tab[t])

(* The same on a network whose clients register, change nicks, quit and    *)
(* are killed, whatever crosses on the way (the KILL chase of m_kill       *)
(* "keeps servers in synch when nick change and kill collide").            *)
NicksAgree ==
  Quiet => \A s \in Server : \A t \in links[s] : View(tab[s]) = View(tab[t])

(* Every line is eventually handled: KILLs that are answered and chased do *)
(* not bounce between servers forever.                                     *)
Settles == <>[](Quiet /\ \A s \in Server : links[s] = Neighbours(s))
=============================================================================
