---------------------------- MODULE NickTSProofs ----------------------------
(***************************************************************************)
(* Proofs about NickTS, for every network, every number of clients and     *)
(* nicks and every bound: the type invariant, the uniqueness of nicks on   *)
(* each server and the soundness of the pointers of the nick history.  All *)
(* three follow from the inductive invariant IInv.                         *)
(***************************************************************************)
EXTENDS NickTS, TLAPS, SequenceTheorems, FiniteSetTheorems

(***************************************************************************)
(* A good table: nicks are unique, and the registered clients and those    *)
(* the history points to are in the hash table.                            *)
(***************************************************************************)
GoodTable(t) ==
  /\ \A u, v \in Client : t.name[u] # NoNick /\ t.name[u] = t.name[v] => u = v
  /\ \A u \in t.reg : t.name[u] # NoNick
  /\ \A n \in Nick : t.hist[n] # Nobody => t.name[t.hist[n]] # NoNick

IInv == TypeOK /\ \A s \in Server : GoodTable(tab[s])

Queues == [Server -> [Server -> Seq(Msg)]]

-----------------------------------------------------------------------------
(* find_client finds the holder of a nick, or nobody has it.               *)
LEMMA FindFacts ==
  ASSUME NEW t \in Table, NEW n \in Nick
  PROVE  LET a == find_client(t, n) IN
         /\ a = Nobody => \A u \in Client : t.name[u] # n
         /\ a # Nobody => a \in Client /\ t.name[a] = n
<1>1. CASE \E u \in Client : t.name[u] = n
  <2>1. find_client(t, n) = CHOOSE u \in Client : t.name[u] = n
    BY <1>1 DEF find_client
  <2>2. find_client(t, n) \in Client /\ t.name[find_client(t, n)] = n
    BY <1>1, <2>1
  <2> QED BY <2>2, ConstAssumption
<1>2. CASE ~\E u \in Client : t.name[u] = n
  BY <1>2, ConstAssumption DEF find_client
<1> QED BY <1>1, <1>2

(* exit_client keeps a table good: nothing is left that refers to u.       *)
LEMMA ExitGood ==
  ASSUME NEW t \in Table, NEW u \in Client, GoodTable(t)
  PROVE  /\ Exit(t, u) \in Table
         /\ GoodTable(Exit(t, u))
         /\ \A v \in Client : Exit(t, u).name[v] = IF v = u THEN NoNick ELSE t.name[v]
<1> DEFINE e == Exit(t, u)
<1>1. e \in Table
  BY ConstAssumption DEF Exit, Table, TSVal
<1>2. \A v \in Client : e.name[v] = IF v = u THEN NoNick ELSE t.name[v]
  BY DEF Exit, Table
<1>3. e.reg = t.reg \ {u} /\ t.reg \subseteq Client
  BY DEF Exit, Table
<1>4. \A n \in Nick : e.hist[n] # Nobody => e.hist[n] = t.hist[n] /\ t.hist[n] # u
  BY DEF Exit
<1>5. \A n \in Nick : t.hist[n] # Nobody => t.hist[n] \in Client
  BY DEF Table
<1> HIDE DEF e
<1>6. GoodTable(e)
  BY <1>2, <1>3, <1>4, <1>5 DEF GoodTable
<1> QED BY <1>1, <1>2, <1>6 DEF e

(* Once its holder is overridden nobody has the nick, the others keep theirs. *)
LEMMA OverriddenGood ==
  ASSUME NEW t \in Table, NEW n \in Nick, GoodTable(t)
  PROVE  LET o == Overridden(t, n)
             a == find_client(t, n) IN
         /\ o \in Table /\ GoodTable(o)
         /\ \A v \in Client : o.name[v] # n
         /\ \A v \in Client \ {a} : o.name[v] = t.name[v]
         /\ a # Nobody => o = Exit(t, a)
<1> DEFINE a == find_client(t, n)
<1>0. NoNick # n
  BY ConstAssumption
<1>1. CASE a = Nobody
  BY <1>1, FindFacts DEF Overridden
<1>2. CASE a # Nobody
  <2>1. a \in Client /\ t.name[a] = n
    BY <1>2, FindFacts
  <2>2. Overridden(t, n) = Exit(t, a)
    BY <1>2 DEF Overridden
  <2>3. \A v \in Client : v # a => t.name[v] # n
    BY <1>0, <2>1 DEF GoodTable
  <2> QED BY <1>0, <1>2, <2>1, <2>2, <2>3, ExitGood
<1> QED BY <1>1, <1>2

(* A nick that nobody else has can be given to a client.                   *)
LEMMA NamedGood ==
  ASSUME NEW t \in Table, NEW u \in Client, NEW n \in Nick, NEW ts \in TSVal,
         GoodTable(t), \A v \in Client \ {u} : t.name[v] # n
  PROVE  LET e == [t EXCEPT !.name[u] = n, !.ts[u] = ts] IN
         /\ e \in Table /\ GoodTable(e)
         /\ Introduce(t, u, n, ts) \in Table /\ GoodTable(Introduce(t, u, n, ts))
         /\ t.name[u] # NoNick =>
              Rename(t, u, n, ts) \in Table /\ GoodTable(Rename(t, u, n, ts))
<1>0. NoNick # n
  BY ConstAssumption
<1>1. \A m \in Nick : t.hist[m] # Nobody => t.hist[m] \in Client
  BY DEF Table
<1>2. ASSUME NEW e \in Table,
             \A v \in Client : e.name[v] = IF v = u THEN n ELSE t.name[v],
             e.reg \subseteq t.reg \cup {u},
             \A m \in Nick : e.hist[m] # Nobody => e.hist[m] \in {t.hist[m], u}
      PROVE  GoodTable(e)
  <2>1. t.reg \subseteq Client
    BY DEF Table
  <2>2. \A v, w \in Client : e.name[v] # NoNick /\ e.name[v] = e.name[w] => v = w
    BY <1>2 DEF GoodTable
  <2>3. \A v \in e.reg : e.name[v] # NoNick
    BY <1>0, <1>2, <2>1 DEF GoodTable
  <2>4. ASSUME NEW m \in Nick, e.hist[m] # Nobody PROVE e.name[e.hist[m]] # NoNick
    BY <1>0, <1>1, <1>2, <2>4 DEF GoodTable
  <2> QED BY <2>2, <2>3, <2>4 DEF GoodTable
<1>3. /\ [t EXCEPT !.name[u] = n, !.ts[u] = ts] \in Table
      /\ GoodTable([t EXCEPT !.name[u] = n, !.ts[u] = ts])
  <2> DEFINE e == [t EXCEPT !.name[u] = n, !.ts[u] = ts]
  <2>1. e \in Table
    BY DEF Table
  <2>2. /\ \A v \in Client : e.name[v] = IF v = u THEN n ELSE t.name[v]
        /\ e.reg = t.reg /\ e.hist = t.hist
    BY DEF Table
  <2> HIDE DEF e
  <2>3. GoodTable(e)
    BY <1>2, <2>1, <2>2
  <2> QED BY <2>1, <2>3 DEF e
<1>4. Introduce(t, u, n, ts) \in Table /\ GoodTable(Introduce(t, u, n, ts))
  <2> DEFINE e == Introduce(t, u, n, ts)
  <2>1. e \in Table
    BY DEF Introduce, Table
  <2>2. /\ \A v \in Client : e.name[v] = IF v = u THEN n ELSE t.name[v]
        /\ e.reg = t.reg \cup {u} /\ e.hist = t.hist
    BY DEF Introduce, Table
  <2> HIDE DEF e
  <2>3. GoodTable(e)
    BY <1>2, <2>1, <2>2
  <2> QED BY <2>1, <2>3 DEF e
<1>5. ASSUME t.name[u] # NoNick
      PROVE  Rename(t, u, n, ts) \in Table /\ GoodTable(Rename(t, u, n, ts))
  <2> DEFINE e == Rename(t, u, n, ts)
  <2>0. t.name[u] \in Nick
    BY <1>5 DEF Table
  <2>1. e \in Table
    BY <2>0 DEF Rename, Table
  <2>2. /\ \A v \in Client : e.name[v] = IF v = u THEN n ELSE t.name[v]
        /\ e.reg = t.reg
        /\ \A m \in Nick : e.hist[m] \in {t.hist[m], u}
    BY <2>0 DEF Rename, Table
  <2> HIDE DEF e
  <2>3. GoodTable(e)
    BY <1>2, <2>1, <2>2
  <2> QED BY <2>1, <2>3 DEF e
<1> QED BY <1>3, <1>4, <1>5

(* A refused nick change only moves the timestamp.                         *)
LEMMA StampedGood ==
  ASSUME NEW t \in Table, NEW u \in Client, NEW ts \in TSVal, GoodTable(t)
  PROVE  [t EXCEPT !.ts[u] = ts] \in Table /\ GoodTable([t EXCEPT !.ts[u] = ts])
BY DEF Table, GoodTable

(* The registration of a client in the table.                              *)
LEMMA RegisteredGood ==
  ASSUME NEW t \in Table, NEW u \in Known(t), GoodTable(t)
  PROVE  [t EXCEPT !.reg = @ \cup {u}] \in Table /\ GoodTable([t EXCEPT !.reg = @ \cup {u}])
BY DEF Table, GoodTable, Known

-----------------------------------------------------------------------------
(* The line a server reads next has the fields of its type.                *)
LEMMA NextLineType ==
  ASSUME TypeOK, NEW s \in Server, NEW p \in Server, q[p][s] # << >>
  PROVE  LET m == Head(q[p][s]) IN
         /\ m \in Msg
         /\ m.type = "NICK" => m \in NickMsg
         /\ m.type = "CHANGE" => m \in ChangeMsg
         /\ m.type = "QUIT" => m \in QuitMsg
         /\ m.type = "KILL" => m \in KillMsg
         /\ m.type = "SVSNICK" => m \in SvsMsg
<1> DEFINE m == Head(q[p][s])
<1>1. q[p][s] \in Seq(Msg)
  BY DEF TypeOK
<1>2. m \in Msg
  BY <1>1
<1>3. \A x \in Msg :
         /\ x.type = "NICK" => x \in NickMsg
         /\ x.type = "CHANGE" => x \in ChangeMsg
         /\ x.type = "QUIT" => x \in QuitMsg
         /\ x.type = "KILL" => x \in KillMsg
         /\ x.type = "SVSNICK" => x \in SvsMsg
  BY DEF Msg, NickMsg, ChangeMsg, QuitMsg, KillMsg, SvsMsg, ServerMsg
<1> HIDE DEF m
<1>4. /\ m \in Msg
      /\ m.type = "NICK" => m \in NickMsg
      /\ m.type = "CHANGE" => m \in ChangeMsg
      /\ m.type = "QUIT" => m \in QuitMsg
      /\ m.type = "KILL" => m \in KillMsg
      /\ m.type = "SVSNICK" => m \in SvsMsg
  BY <1>2, <1>3
<1> QED BY <1>4 DEF m

(* Sending keeps the queues typed.                                         *)
LEMMA SendType ==
  ASSUME NEW qs \in Queues, NEW s \in Server, NEW x, NEW ms \in Seq(Msg)
  PROVE  Send(qs, s, x, ms) \in Queues
<1>1. \A t \in Server : qs[s][t] \in Seq(Msg) /\ qs[s][t] \o ms \in Seq(Msg)
  BY DEF Queues
<1> QED BY <1>1 DEF Send, Queues

(* Sending to one link.                                                    *)
LEMMA SendOneType ==
  ASSUME NEW qs \in Queues, NEW s \in Server, NEW p \in Server, NEW m \in Msg
  PROVE  SendOne(qs, s, p, m) \in Queues
<1>1. Append(qs[s][p], m) \in Seq(Msg)
  BY DEF Queues
<1> QED BY <1>1 DEF SendOne, Queues

(* Taking a line off a queue.                                              *)
LEMMA ConsumeType ==
  ASSUME TypeOK, NEW s \in Server, NEW p \in Server, q[p][s] # << >>
  PROVE  Consume(s, p) \in Queues
<1>1. q \in Queues /\ Tail(q[p][s]) \in Seq(Msg)
  BY DEF TypeOK, Queues
<1> QED BY <1>1 DEF Consume, Queues

(* One line, or two.                                                       *)
LEMMA Lines ==
  /\ \A a \in Msg : <<a>> \in Seq(Msg)
  /\ \A a, b \in Msg : <<a, b>> \in Seq(Msg)
OBVIOUS

(* The lines the handlers build from nicks.                                *)
LEMMA LineTypes ==
  ASSUME NEW n \in Nick
  PROVE  /\ KILL(n) \in Msg /\ QUIT(n) \in Msg
         /\ \A m \in Nick, ts \in TSVal : CHANGE(n, m, ts) \in Msg
BY DEF KILL, QUIT, CHANGE, Msg, KillMsg, QuitMsg, ChangeMsg

(* The NICK line of a client in the table.                                 *)
LEMMA NickLineType ==
  ASSUME NEW t \in Table, NEW u \in Client, t.name[u] # NoNick
  PROVE  NICK(t, u) \in Msg
<1>1. t.name[u] \in Nick /\ t.ts[u] \in TSVal
  BY DEF Table
<1> QED BY <1>1 DEF NICK, NickMsg, Msg

(* A burst is a sequence of lines.                                         *)
LEMMA BurstsType ==
  ASSUME IInv, NEW s \in Server, NEW b \in Bursts(s)
  PROVE  b \in Seq(Msg)
<1> DEFINE S == tab[s].reg
           N == Cardinality(S)
<1>1. S \subseteq Client /\ tab[s] \in Table
  BY DEF IInv, TypeOK, Table
<1>2. N \in Nat
  BY <1>1, ConstAssumption, FS_Subset, FS_CardinalityType
<1>3. PICK f \in [1..N -> S] : b = [i \in 1..N |-> NICK(tab[s], f[i])]
  BY DEF Bursts
<1> HIDE DEF N, S
<1>4. ASSUME NEW i \in 1..N PROVE NICK(tab[s], f[i]) \in Msg
  <2>1. f[i] \in S
    BY <1>3
  <2>2. tab[s].name[f[i]] # NoNick
    BY <2>1 DEF IInv, GoodTable, S
  <2> QED BY <1>1, <2>1, <2>2, NickLineType
<1>5. b \in [1..N -> Msg]
  BY <1>3, <1>4
<1> QED BY <1>2, <1>5

-----------------------------------------------------------------------------
(* What the steps use of the invariant.                                    *)
LEMMA TableFacts ==
  ASSUME IInv, NEW s \in Server
  PROVE  /\ TypeOK /\ tab[s] \in Table /\ GoodTable(tab[s]) /\ q \in Queues
         /\ tab[s].reg \subseteq Client
         /\ tab = [tab EXCEPT ![s] = tab[s]]
         /\ \A u \in tab[s].reg : tab[s].name[u] # NoNick /\ tab[s].name[u] \in Nick
BY DEF IInv, TypeOK, Queues, Table, GoodTable

(* A step that replaces one table by a good one keeps the invariant.       *)
LEMMA OneTable ==
  ASSUME IInv, NEW s \in Server, NEW t \in Table, GoodTable(t),
         tab' = [tab EXCEPT ![s] = t], q' \in Queues,
         links' \in [Server -> SUBSET Server], met' \in SUBSET Client, ops' \in 0..MaxOps
  PROVE  IInv'
<1>1. TypeOK'
  BY DEF IInv, TypeOK, Queues
<1>2. ASSUME NEW x \in Server PROVE GoodTable(tab'[x])
  BY DEF IInv, TypeOK
<1> QED BY <1>1, <1>2 DEF IInv

(* The same for a step that handles a line.                                *)
LEMMA OneTableSame ==
  ASSUME IInv, NEW s \in Server, NEW t \in Table, GoodTable(t),
         tab' = [tab EXCEPT ![s] = t], q' \in Queues, UNCHANGED <<links, met, ops>>
  PROVE  IInv'
<1>1. /\ links' \in [Server -> SUBSET Server] /\ met' \in SUBSET Client
      /\ ops' \in 0..MaxOps
  BY DEF IInv, TypeOK
<1> QED BY <1>1, OneTable

(* A step that touches no table.                                           *)
LEMMA NoTable ==
  ASSUME IInv, UNCHANGED <<tab, met>>, q' \in Queues,
         links' \in [Server -> SUBSET Server], ops' \in 0..MaxOps
  PROVE  IInv'
BY DEF IInv, TypeOK, Queues

(* A command is counted up to its bound.                                   *)
LEMMA IssueType ==
  ASSUME TypeOK, NEW act, Issue(act) PROVE ops' \in 0..MaxOps
BY ConstAssumption DEF Issue, TypeOK

(* Connect and RecvServer only touch the link and its queue.               *)
LEMMA ConnectStep ==
  ASSUME IInv, NEW s \in Server, NEW t \in Server, Connect(t, s) PROVE IInv'
<1>1. PICK b \in Bursts(t) : q' = [q EXCEPT ![t][s] = <<[type |-> "SERVER"]>> \o b]
  BY DEF Connect
<1>2. <<[type |-> "SERVER"]>> \o b \in Seq(Msg)
  <2>1. <<[type |-> "SERVER"]>> \in Seq(Msg)
    BY DEF Msg, ServerMsg
  <2> QED BY <2>1, BurstsType
<1>3. q' \in Queues
  BY <1>1, <1>2 DEF IInv, TypeOK, Queues
<1>4. links' \in [Server -> SUBSET Server] /\ UNCHANGED <<tab, met, ops>>
  BY DEF Connect, IInv, TypeOK
<1> QED BY <1>3, <1>4, NoTable DEF IInv, TypeOK

(* The answer to a SERVER line.                                            *)
LEMMA RecvServerStep ==
  ASSUME IInv, NEW s \in Server, NEW p \in Server, RecvServer(s, p) PROVE IInv'
<1> DEFINE r == Consume(s, p)
<1>1. PICK b \in Bursts(s) : q' = [r EXCEPT ![s][p] = @ \o b]
  BY DEF RecvServer
<1>2. b \in Seq(Msg)
  BY BurstsType
<1>3. r \in Queues
  BY ConsumeType DEF RecvServer, NextLine, IInv
<1> HIDE DEF r
<1>4. r[s][p] \o b \in Seq(Msg)
  BY <1>2, <1>3 DEF Queues
<1>5. [r EXCEPT ![s][p] = @ \o b] \in Queues
  BY <1>3, <1>4 DEF Queues
<1>6. links' \in [Server -> SUBSET Server] /\ UNCHANGED <<tab, met, ops>>
  BY DEF RecvServer, IInv, TypeOK
<1> QED BY <1>1, <1>5, <1>6, NoTable DEF IInv, TypeOK

(* A NICK line: whoever is introduced gets a nick that nobody has by then. *)
LEMMA RecvNickStep ==
  ASSUME IInv, NEW s \in Server, NEW p \in Server, RecvNick(s, p) PROVE IInv'
<1> DEFINE m == Head(q[p][s])
           t == tab[s]
           r == Consume(s, p)
           a == find_client(t, m.nick)
           o == Overridden(t, m.nick)
<1>1. q[p][s] # << >> /\ m.type = "NICK" /\ UNCHANGED <<links, met, ops>>
  BY DEF RecvNick, NextLine
<1>2. m \in Msg /\ m.who \in Client /\ m.nick \in Nick /\ m.ts \in TSVal
  BY <1>1, NextLineType, TableFacts DEF NickMsg
<1>3. t \in Table /\ GoodTable(t) /\ r \in Queues /\ t.reg \subseteq Client
  BY <1>1, TableFacts, ConsumeType
<1>4. \/ /\ tab' = [tab EXCEPT ![s] = Introduce(o, m.who, m.nick, m.ts)]
         /\ q' = Send(r, s, p, <<m>>)
      \/ /\ a \in t.reg
         /\ tab' = [tab EXCEPT ![s] = Introduce(Exit(t, a), m.who, m.nick, m.ts)]
         /\ q' = Send(Send(r, s, p, <<KILL(m.nick)>>), s, p, <<m>>)
      \/ q' = r /\ UNCHANGED tab
      \/ /\ a \in t.reg
         /\ tab' = [tab EXCEPT ![s] = Exit(t, a)]
         /\ q' = Send(r, s, s, <<KILL(m.nick)>>)
  BY DEF RecvNick
<1> HIDE DEF m, t, r, a, o
<1>5. a \in t.reg => a # Nobody /\ a \in Client
  BY <1>3, ConstAssumption
<1>6. /\ o \in Table /\ GoodTable(o) /\ \A v \in Client : o.name[v] # m.nick
      /\ a \in t.reg => o = Exit(t, a)
  BY <1>2, <1>3, <1>5, OverriddenGood DEF o, a
<1>7. LET e == Introduce(o, m.who, m.nick, m.ts) IN e \in Table /\ GoodTable(e)
  BY <1>2, <1>6, NamedGood
<1>8. q' \in Queues
  <2>1. KILL(m.nick) \in Msg /\ <<m>> \in Seq(Msg)
    BY <1>2, LineTypes, Lines
  <2>2. <<KILL(m.nick)>> \in Seq(Msg)
    BY <2>1, Lines
  <2>3. \A x : Send(r, s, x, <<KILL(m.nick)>>) \in Queues
    BY <1>3, <2>2, SendType
  <2>4. /\ Send(r, s, p, <<m>>) \in Queues
        /\ Send(Send(r, s, p, <<KILL(m.nick)>>), s, p, <<m>>) \in Queues
    BY <1>3, <2>1, <2>3, SendType
  <2> QED BY <1>3, <1>4, <2>3, <2>4
<1>9. \/ tab' = [tab EXCEPT ![s] = Introduce(o, m.who, m.nick, m.ts)]
      \/ tab' = [tab EXCEPT ![s] = t]
      \/ tab' = [tab EXCEPT ![s] = o]
  BY <1>4, <1>6, TableFacts DEF t
<1> QED BY <1>1, <1>3, <1>6, <1>7, <1>8, <1>9, OneTableSame

(* A nick change of a remote client, with all its collisions.              *)
LEMMA RecvChangeStep ==
  ASSUME IInv, NEW s \in Server, NEW p \in Server, RecvChange(s, p) PROVE IInv'
<1> DEFINE m == Head(q[p][s])
           t == tab[s]
           r == Consume(s, p)
           u == find_client(t, m.src)
           a == find_client(t, m.nick)
           o == Overridden(t, m.nick)
<1>1. q[p][s] # << >> /\ m.type = "CHANGE" /\ UNCHANGED <<links, met, ops>>
  BY DEF RecvChange, NextLine
<1>2. m \in Msg /\ m.src \in Nick /\ m.nick \in Nick /\ m.ts \in TSVal
  BY <1>1, NextLineType, TableFacts DEF ChangeMsg
<1>3. t \in Table /\ GoodTable(t) /\ r \in Queues /\ t.reg \subseteq Client
  BY <1>1, TableFacts, ConsumeType
<1>4. \/ q' = SendOne(r, s, p, KILL(m.src)) /\ UNCHANGED tab
      \/ q' = r /\ UNCHANGED tab
      \/ /\ u # Nobody /\ a # u
         /\ tab' = [tab EXCEPT ![s] = Rename(o, u, m.nick, m.ts)]
         /\ q' = Send(r, s, p, <<m>>)
      \/ /\ u # Nobody /\ a # u /\ a \in t.reg
         /\ tab' = [tab EXCEPT ![s] = Rename(Exit(t, a), u, m.nick, m.ts)]
         /\ q' = Send(Send(r, s, p, <<KILL(m.nick)>>), s, p, <<m>>)
      \/ /\ u # Nobody
         /\ tab' = [tab EXCEPT ![s] = Exit(t, u)]
         /\ q' = Send(r, s, p, <<KILL(m.src)>>)
      \/ /\ u # Nobody /\ a \in t.reg
         /\ tab' = [tab EXCEPT ![s] = Exit(Exit(t, a), u)]
         /\ q' = Send(r, s, s, <<KILL(m.src), KILL(m.nick)>>)
  <2>1. CASE a = u
    BY <2>1 DEF RecvChange, Unknown, Genuine
  <2>2. CASE a # u
    BY <2>2 DEF RecvChange, Unknown, Genuine
  <2> QED BY <2>1, <2>2
<1> HIDE DEF m, t, r, u, a, o
<1>5. a \in t.reg => a # Nobody /\ a \in Client
  BY <1>3, ConstAssumption
<1>6. u # Nobody => u \in Client /\ t.name[u] = m.src
  BY <1>2, <1>3, FindFacts DEF u
<1>7. /\ o \in Table /\ GoodTable(o) /\ \A v \in Client : o.name[v] # m.nick
      /\ u # Nobody /\ a # u => o.name[u] = m.src
      /\ a \in t.reg => o = Exit(t, a)
  BY <1>2, <1>3, <1>5, <1>6, OverriddenGood DEF o, a
<1>8. ASSUME u # Nobody, a # u
      PROVE  LET e == Rename(o, u, m.nick, m.ts) IN e \in Table /\ GoodTable(e)
  <2>1. o.name[u] # NoNick /\ u \in Client
    BY <1>2, <1>6, <1>7, <1>8, ConstAssumption
  <2> QED BY <1>2, <1>7, <2>1, NamedGood
<1>9. u # Nobody => /\ Exit(t, u) \in Table /\ GoodTable(Exit(t, u))
                    /\ Exit(o, u) \in Table /\ GoodTable(Exit(o, u))
  BY <1>3, <1>6, <1>7, ExitGood
<1>10. q' \in Queues
  <2>1. /\ KILL(m.nick) \in Msg /\ KILL(m.src) \in Msg /\ <<m>> \in Seq(Msg)
    BY <1>2, LineTypes, Lines
  <2>2. /\ <<KILL(m.nick)>> \in Seq(Msg) /\ <<KILL(m.src)>> \in Seq(Msg)
        /\ <<KILL(m.src), KILL(m.nick)>> \in Seq(Msg)
    BY <2>1, Lines
  <2>3. /\ Send(r, s, p, <<KILL(m.nick)>>) \in Queues
        /\ Send(r, s, p, <<KILL(m.src)>>) \in Queues
        /\ Send(r, s, s, <<KILL(m.src), KILL(m.nick)>>) \in Queues
        /\ Send(r, s, p, <<m>>) \in Queues
        /\ SendOne(r, s, p, KILL(m.src)) \in Queues
    BY <1>3, <2>1, <2>2, SendType, SendOneType
  <2>4. Send(Send(r, s, p, <<KILL(m.nick)>>), s, p, <<m>>) \in Queues
    BY <2>1, <2>3, SendType
  <2> QED BY <1>3, <1>4, <2>3, <2>4
<1>11. \/ tab' = [tab EXCEPT ![s] = t]
       \/ u # Nobody /\ a # u /\ tab' = [tab EXCEPT ![s] = Rename(o, u, m.nick, m.ts)]
       \/ u # Nobody /\ tab' = [tab EXCEPT ![s] = Exit(t, u)]
       \/ u # Nobody /\ tab' = [tab EXCEPT ![s] = Exit(o, u)]
  BY <1>4, <1>7, TableFacts DEF t
<1> QED BY <1>1, <1>3, <1>8, <1>9, <1>10, <1>11, OneTableSame

(* QUIT removes the client its prefix names.                               *)
LEMMA RecvQuitStep ==
  ASSUME IInv, NEW s \in Server, NEW p \in Server, RecvQuit(s, p) PROVE IInv'
<1> DEFINE m == Head(q[p][s])
           t == tab[s]
           r == Consume(s, p)
           u == find_client(t, m.src)
<1>1. q[p][s] # << >> /\ m.type = "QUIT" /\ UNCHANGED <<links, met, ops>>
  BY DEF RecvQuit, NextLine
<1>2. m \in Msg /\ m.src \in Nick
  BY <1>1, NextLineType, TableFacts DEF QuitMsg
<1>3. t \in Table /\ GoodTable(t) /\ r \in Queues
  BY <1>1, TableFacts, ConsumeType
<1>4. \/ q' = SendOne(r, s, p, KILL(m.src)) /\ UNCHANGED tab
      \/ q' = r /\ UNCHANGED tab
      \/ u # Nobody /\ tab' = [tab EXCEPT ![s] = Exit(t, u)] /\ q' = Send(r, s, p, <<m>>)
  BY TableFacts DEF RecvQuit, Genuine, Unknown
<1> HIDE DEF m, t, r, u
<1>5. u # Nobody => Exit(t, u) \in Table /\ GoodTable(Exit(t, u))
  BY <1>2, <1>3, FindFacts, ExitGood DEF u
<1>6. q' \in Queues
  <2>1. KILL(m.src) \in Msg /\ <<m>> \in Seq(Msg)
    BY <1>2, LineTypes, Lines
  <2> QED BY <1>3, <1>4, <2>1, SendType, SendOneType
<1>7. \/ tab' = [tab EXCEPT ![s] = t]
      \/ u # Nobody /\ tab' = [tab EXCEPT ![s] = Exit(t, u)]
  BY <1>4, TableFacts DEF t
<1> QED BY <1>1, <1>3, <1>5, <1>6, <1>7, OneTableSame

(* Whoever a KILL is chased to is in the table and has a nick.             *)
LEMMA ChasingFacts ==
  ASSUME NEW t \in Table, NEW n \in Nick, GoodTable(t), find_chasing(t, n) # Nobody
  PROVE  LET a == find_chasing(t, n) IN
         a \in Client /\ t.name[a] \in Nick /\ t.name[a] # NoNick
<1>1. CASE find_client(t, n) # Nobody
  BY <1>1, FindFacts, ConstAssumption DEF find_chasing
<1>2. CASE find_client(t, n) = Nobody
  <2>1. find_chasing(t, n) = t.hist[n] /\ t.hist[n] # Nobody
    BY <1>2 DEF find_chasing
  <2>2. t.hist[n] \in Client /\ t.name[t.hist[n]] # NoNick
    BY <2>1 DEF Table, GoodTable
  <2> QED BY <2>1, <2>2 DEF Table
<1> QED BY <1>1, <1>2

(* KILL removes the holder of the nick or whom the history points to.      *)
LEMMA RecvKillStep ==
  ASSUME IInv, NEW s \in Server, NEW p \in Server, RecvKill(s, p) PROVE IInv'
<1> DEFINE m == Head(q[p][s])
           t == tab[s]
           r == Consume(s, p)
           a == find_chasing(t, m.nick)
<1>1. q[p][s] # << >> /\ m.type = "KILL" /\ UNCHANGED <<links, met, ops>>
  BY DEF RecvKill, NextLine
<1>2. m.nick \in Nick
  BY <1>1, NextLineType, TableFacts DEF KillMsg
<1>3. t \in Table /\ GoodTable(t) /\ r \in Queues
  BY <1>1, TableFacts, ConsumeType
<1>4. \/ q' = r /\ UNCHANGED tab
      \/ /\ a # Nobody /\ tab' = [tab EXCEPT ![s] = Exit(t, a)]
         /\ \E x : q' = Send(r, s, x, <<KILL(t.name[a])>>)
  BY DEF RecvKill
<1> HIDE DEF m, t, r, a
<1>5. a # Nobody => a \in Client /\ t.name[a] \in Nick
  BY <1>2, <1>3, ChasingFacts DEF a
<1>6. a # Nobody => Exit(t, a) \in Table /\ GoodTable(Exit(t, a))
  BY <1>3, <1>5, ExitGood
<1>7. q' \in Queues
  <2>1. a # Nobody => <<KILL(t.name[a])>> \in Seq(Msg)
    BY <1>5, LineTypes, Lines
  <2> QED BY <1>3, <1>4, <2>1, SendType
<1>8. \/ tab' = [tab EXCEPT ![s] = t]
      \/ a # Nobody /\ tab' = [tab EXCEPT ![s] = Exit(t, a)]
  BY <1>4, TableFacts DEF t
<1> QED BY <1>1, <1>3, <1>6, <1>7, <1>8, OneTableSame

(* SVSNICK renames a client to a free nick, or removes it.                 *)
LEMMA RecvSvsNickStep ==
  ASSUME IInv, NEW s \in Server, NEW p \in Server, RecvSvsNick(s, p) PROVE IInv'
<1> DEFINE m == Head(q[p][s])
           t == tab[s]
           r == Consume(s, p)
           a == find_client(t, m.nick)
           b == find_client(t, m.new)
<1>1. q[p][s] # << >> /\ m.type = "SVSNICK" /\ UNCHANGED <<links, met, ops>>
  BY DEF RecvSvsNick, NextLine
<1>2. m \in Msg /\ m.nick \in Nick /\ m.new \in Nick
  BY <1>1, NextLineType, TableFacts DEF SvsMsg
<1>3. t \in Table /\ GoodTable(t) /\ r \in Queues /\ t.reg \subseteq Client
  BY <1>1, TableFacts, ConsumeType
<1>4. \/ q' = r /\ UNCHANGED tab
      \/ /\ a \in t.reg /\ tab' = [tab EXCEPT ![s] = Exit(t, a)]
         /\ q' = Send(r, s, p, <<QUIT(m.nick)>>)
      \/ /\ a \in t.reg /\ (m.new = m.nick \/ b = Nobody)
         /\ \E now \in Now : /\ tab' = [tab EXCEPT ![s] = Rename(t, a, m.new, now)]
                             /\ q' = Send(r, s, s, <<CHANGE(m.nick, m.new, now)>>)
      \/ a \in t.reg /\ q' = SendOne(r, s, Via[s][Home[a]], m) /\ UNCHANGED tab
  <2>1. CASE a \notin t.reg
    BY <2>1 DEF RecvSvsNick
  <2>2. CASE a \in t.reg /\ Home[a] = s
    BY <2>2 DEF RecvSvsNick
  <2>3. CASE a \in t.reg /\ Home[a] # s
    BY <2>3 DEF RecvSvsNick
  <2> QED BY <2>1, <2>2, <2>3
<1> HIDE DEF m, t, r, a, b
<1>5. a \in t.reg => a # Nobody /\ a \in Client /\ t.name[a] = m.nick
  <2>1. a \in t.reg => a # Nobody
    BY <1>3, ConstAssumption
  <2>2. a # Nobody => a \in Client /\ t.name[a] = m.nick
    BY <1>2, <1>3, FindFacts DEF a
  <2> QED BY <2>1, <2>2
<1>6. CASE UNCHANGED tab
  <2>1. a \in t.reg => Via[s][Home[a]] \in Server
    BY <1>5, ConstAssumption
  <2>3. a \in t.reg => SendOne(r, s, Via[s][Home[a]], m) \in Queues
    BY <1>2, <1>3, <2>1, SendOneType
  <2>4. /\ a \in t.reg => Send(r, s, p, <<QUIT(m.nick)>>) \in Queues
        /\ \A now \in Now : Send(r, s, s, <<CHANGE(m.nick, m.new, now)>>) \in Queues
    <3>1. \A now \in Now : now \in TSVal
      BY DEF Now, TSVal
    <3>2. QUIT(m.nick) \in Msg /\ \A now \in Now : CHANGE(m.nick, m.new, now) \in Msg
      BY <1>2, <3>1, LineTypes
    <3>3. <<QUIT(m.nick)>> \in Seq(Msg) /\ \A now \in Now : <<CHANGE(m.nick, m.new, now)>> \in Seq(Msg)
      BY <3>2, Lines
    <3> QED BY <1>3, <3>3, SendType
  <2>5. q' \in Queues
    BY <1>3, <1>4, <2>3, <2>4
  <2> QED BY <1>1, <1>6, <2>5, NoTable DEF IInv, TypeOK
<1>7. CASE a \in t.reg /\ tab' = [tab EXCEPT ![s] = Exit(t, a)]
           /\ q' = Send(r, s, p, <<QUIT(m.nick)>>)
  <2>1. <<QUIT(m.nick)>> \in Seq(Msg)
    BY <1>2, LineTypes, Lines
  <2>2. q' \in Queues
    BY <1>3, <1>7, <2>1, SendType
  <2>3. Exit(t, a) \in Table /\ GoodTable(Exit(t, a))
    BY <1>3, <1>5, <1>7, ExitGood
  <2> QED BY <1>1, <1>7, <2>2, <2>3, OneTableSame
<1>8. CASE /\ a \in t.reg /\ (m.new = m.nick \/ b = Nobody)
           /\ \E now \in Now : /\ tab' = [tab EXCEPT ![s] = Rename(t, a, m.new, now)]
                               /\ q' = Send(r, s, s, <<CHANGE(m.nick, m.new, now)>>)
  <2>1. PICK now \in Now : /\ tab' = [tab EXCEPT ![s] = Rename(t, a, m.new, now)]
                           /\ q' = Send(r, s, s, <<CHANGE(m.nick, m.new, now)>>)
    BY <1>8
  <2>2. now \in TSVal
    BY DEF Now, TSVal
  <2>3. CHANGE(m.nick, m.new, now) \in Msg
    BY <1>2, <2>2, LineTypes
  <2>4. <<CHANGE(m.nick, m.new, now)>> \in Seq(Msg)
    BY <2>3, Lines
  <2>5. q' \in Queues
    BY <1>3, <2>1, <2>4, SendType
  <2>6. t.name[a] # NoNick /\ a \in Client
    <3>1. NoNick # m.nick
      BY <1>2, ConstAssumption
    <3> QED BY <1>5, <1>8, <3>1
  <2>7. \A v \in Client \ {a} : t.name[v] # m.new
    <3>1. CASE m.new = m.nick
      BY <1>3, <1>5, <1>8, <2>6, <3>1 DEF GoodTable
    <3>2. CASE b = Nobody
      BY <1>2, <1>3, <3>2, FindFacts DEF b
    <3> QED BY <1>8, <3>1, <3>2
  <2>8. LET e == Rename(t, a, m.new, now) IN e \in Table /\ GoodTable(e)
    BY <1>2, <1>3, <2>2, <2>6, <2>7, NamedGood
  <2> QED BY <1>1, <2>1, <2>5, <2>8, OneTableSame
<1> QED BY <1>4, <1>6, <1>7, <1>8

-----------------------------------------------------------------------------
(* The first NICK of a connection: it gets a nick that nobody has by then. *)
LEMMA SetNickStep ==
  ASSUME IInv, NEW u \in Client, NEW n \in Nick, SetNick(u, n) PROVE IInv'
<1> DEFINE s == Home[u]
           t == tab[s]
           o == Overridden(t, n)
<1>1. s \in Server
  BY ConstAssumption
<1>2. PICK now \in Now : tab' = [tab EXCEPT ![s] = [o EXCEPT !.name[u] = n, !.ts[u] = now]]
  BY DEF SetNick
<1>3. UNCHANGED <<links, q>> /\ met' = met \cup {u} /\ Issue("nick")
  BY DEF SetNick
<1> HIDE DEF s
<1>4. TypeOK /\ t \in Table /\ GoodTable(t) /\ q \in Queues
  BY <1>1, TableFacts
<1>5. o \in Table /\ GoodTable(o) /\ \A v \in Client : o.name[v] # n
  BY <1>4, OverriddenGood
<1>6. now \in TSVal
  BY DEF Now, TSVal
<1> HIDE DEF o
<1>7. LET e == [o EXCEPT !.name[u] = n, !.ts[u] = now] IN e \in Table /\ GoodTable(e)
  BY <1>5, <1>6, NamedGood
<1>8. /\ q' \in Queues /\ links' \in [Server -> SUBSET Server]
      /\ met' \in SUBSET Client /\ ops' \in 0..MaxOps
  BY <1>3, <1>4, IssueType DEF TypeOK
<1> QED BY <1>1, <1>2, <1>7, <1>8, OneTable

(* register_user announces a client that is in the table.                  *)
LEMMA RegisterStep ==
  ASSUME IInv, NEW u \in Client, Register(u) PROVE IInv'
<1> DEFINE s == Home[u]
           t == tab[s]
<1>1. s \in Server
  BY ConstAssumption
<1>2. TypeOK /\ t \in Table /\ GoodTable(t) /\ q \in Queues
  BY <1>1, TableFacts
<1>3. u \in Known(t) /\ UNCHANGED <<links, met, ops>> /\ q' = Send(q, s, s, <<NICK(t, u)>>)
  BY DEF Register
<1>4. tab' = [tab EXCEPT ![s] = [t EXCEPT !.reg = @ \cup {u}]]
  BY <1>1, <1>2 DEF Register, TypeOK
<1> HIDE DEF s, t
<1>5. LET e == [t EXCEPT !.reg = @ \cup {u}] IN e \in Table /\ GoodTable(e)
  BY <1>2, <1>3, RegisteredGood
<1>6. <<NICK(t, u)>> \in Seq(Msg)
  BY <1>2, <1>3, NickLineType, Lines DEF Known
<1>7. q' \in Queues
  BY <1>1, <1>2, <1>3, <1>6, SendType
<1> QED BY <1>1, <1>3, <1>4, <1>5, <1>7, OneTableSame

(* A free nick belongs to nobody registered; once it is overridden a       *)
(* registered client still has its own.                                    *)
LEMMA FreeNick ==
  ASSUME NEW t \in Table, GoodTable(t), NEW u \in t.reg, NEW n \in Nick, Free(t, n)
  PROVE  LET o == Overridden(t, n) IN
         /\ u \in Client /\ t.name[u] \in Nick
         /\ o \in Table /\ GoodTable(o) /\ o.name[u] = t.name[u] /\ o.name[u] # NoNick
         /\ \A v \in Client : o.name[v] # n
<1>1. u \in Client /\ u # find_client(t, n)
  BY DEF Free, Table
<1>2. t.name[u] \in Nick /\ t.name[u] # NoNick
  BY <1>1 DEF GoodTable, Table
<1> QED BY <1>1, <1>2, OverriddenGood

(* A nick change of a local client.                                        *)
LEMMA ChangeNickStep ==
  ASSUME IInv, NEW u \in Client, NEW n \in Nick, ChangeNick(u, n) PROVE IInv'
<1> DEFINE s == Home[u]
           t == tab[s]
           o == Overridden(t, n)
<1>1. s \in Server
  BY ConstAssumption
<1>2. TypeOK /\ t \in Table /\ GoodTable(t) /\ q \in Queues
  BY <1>1, TableFacts
<1>3. /\ u \in t.reg /\ Free(t, n) /\ Issue("change") /\ UNCHANGED <<links, met>>
      /\ \E now \in Now : /\ tab' = [tab EXCEPT ![s] = Rename(o, u, n, now)]
                          /\ q' = Send(q, s, s, <<CHANGE(t.name[u], n, now)>>)
  BY DEF ChangeNick
<1> HIDE DEF s, t
<1>4. PICK now \in Now : /\ tab' = [tab EXCEPT ![s] = Rename(o, u, n, now)]
                         /\ q' = Send(q, s, s, <<CHANGE(t.name[u], n, now)>>)
  BY <1>3
<1>5. now \in TSVal
  BY DEF Now, TSVal
<1>6. /\ t.name[u] \in Nick /\ o \in Table /\ GoodTable(o) /\ o.name[u] # NoNick
      /\ \A v \in Client : o.name[v] # n
  BY <1>2, <1>3, FreeNick
<1> HIDE DEF o
<1>7. LET e == Rename(o, u, n, now) IN e \in Table /\ GoodTable(e)
  BY <1>5, <1>6, NamedGood
<1>8. q' \in Queues
  <2>1. CHANGE(t.name[u], n, now) \in Msg
    BY <1>5, <1>6, LineTypes
  <2>2. <<CHANGE(t.name[u], n, now)>> \in Seq(Msg)
    BY <2>1, Lines
  <2> QED BY <1>1, <1>2, <1>4, <2>2, SendType
<1>9. /\ links' \in [Server -> SUBSET Server]
      /\ met' \in SUBSET Client /\ ops' \in 0..MaxOps
  BY <1>2, <1>3, IssueType DEF TypeOK
<1> QED BY <1>1, <1>4, <1>7, <1>8, <1>9, OneTable

(* A nick change that is refused after the timestamp was set.              *)
LEMMA RefuseChangeStep ==
  ASSUME IInv, NEW u \in Client, NEW n \in Nick, RefuseChange(u, n) PROVE IInv'
<1> DEFINE s == Home[u]
           t == tab[s]
           o == Overridden(t, n)
<1>1. s \in Server
  BY ConstAssumption
<1>2. TypeOK /\ t \in Table /\ GoodTable(t) /\ q \in Queues
  BY <1>1, TableFacts
<1>3. PICK now \in Now : tab' = [tab EXCEPT ![s] = [o EXCEPT !.ts[u] = now]]
  BY DEF RefuseChange
<1>4. u \in t.reg /\ Free(t, n) /\ Issue("refuse") /\ UNCHANGED <<links, q, met>>
  BY DEF RefuseChange
<1> HIDE DEF s, t
<1>5. now \in TSVal
  BY DEF Now, TSVal
<1>6. o \in Table /\ GoodTable(o)
  BY <1>2, <1>4, FreeNick
<1> HIDE DEF o
<1>7. LET e == [o EXCEPT !.ts[u] = now] IN e \in Table /\ GoodTable(e)
  BY <1>5, <1>6, StampedGood
<1>8. /\ q' \in Queues /\ links' \in [Server -> SUBSET Server]
      /\ met' \in SUBSET Client /\ ops' \in 0..MaxOps
  BY <1>2, <1>4, IssueType DEF TypeOK
<1> QED BY <1>1, <1>3, <1>7, <1>8, OneTable

(* A local client leaves, by its own QUIT or an oper's KILL.               *)
LEMMA LeaveHomeStep ==
  ASSUME IInv, NEW u \in Client, NEW act, Issue(act), LeaveHome(u) PROVE IInv'
<1> DEFINE s == Home[u]
           t == tab[s]
<1>1. s \in Server
  BY ConstAssumption
<1>2. /\ TypeOK /\ t \in Table /\ GoodTable(t) /\ q \in Queues
      /\ u \in t.reg => t.name[u] \in Nick
  BY <1>1, TableFacts
<1>3. tab' = [tab EXCEPT ![s] = Exit(t, u)] /\ UNCHANGED <<links, met>>
  BY <1>1, <1>2 DEF LeaveHome, TypeOK
<1>4. q' = q \/ (u \in t.reg /\ q' = Send(q, s, s, <<QUIT(t.name[u])>>))
  BY DEF LeaveHome
<1> HIDE DEF s, t
<1>5. Exit(t, u) \in Table /\ GoodTable(Exit(t, u))
  BY <1>2, ExitGood
<1>6. u \in t.reg => <<QUIT(t.name[u])>> \in Seq(Msg)
  BY <1>2, LineTypes, Lines
<1>7. q' \in Queues
  BY <1>1, <1>2, <1>4, <1>6, SendType
<1>8. /\ links' \in [Server -> SUBSET Server]
      /\ met' \in SUBSET Client /\ ops' \in 0..MaxOps
  BY <1>2, <1>3, IssueType DEF TypeOK
<1> QED BY <1>1, <1>3, <1>5, <1>7, <1>8, OneTable

(* An oper's KILL, also of a client that the history points to.            *)
LEMMA OperKillStep ==
  ASSUME IInv, NEW s \in Server, NEW n \in Nick, OperKill(s, n) PROVE IInv'
<1> DEFINE t == tab[s]
           a == find_chasing(t, n)
<1>1. TypeOK /\ t \in Table /\ GoodTable(t) /\ q \in Queues
  BY TableFacts
<1>2. Issue("kill") /\ a # Nobody
  BY DEF OperKill
<1>3. \/ LeaveHome(a)
      \/ /\ tab' = [tab EXCEPT ![s] = Exit(t, a)] /\ UNCHANGED <<links, met>>
         /\ q' = Send(q, s, s, <<KILL(t.name[a])>>)
  BY <1>1 DEF OperKill, TypeOK
<1>4. a \in Client /\ t.name[a] \in Nick
  BY <1>1, <1>2, ChasingFacts
<1> HIDE DEF t, a
<1>5. CASE LeaveHome(a)
  BY <1>2, <1>4, <1>5, LeaveHomeStep
<1>6. CASE /\ tab' = [tab EXCEPT ![s] = Exit(t, a)] /\ UNCHANGED <<links, met>>
           /\ q' = Send(q, s, s, <<KILL(t.name[a])>>)
  <2>1. <<KILL(t.name[a])>> \in Seq(Msg)
    BY <1>4, LineTypes, Lines
  <2>2. q' \in Queues
    BY <1>1, <1>6, <2>1, SendType
  <2>3. Exit(t, a) \in Table /\ GoodTable(Exit(t, a))
    BY <1>1, <1>4, ExitGood
  <2>4. /\ links' \in [Server -> SUBSET Server]
        /\ met' \in SUBSET Client /\ ops' \in 0..MaxOps
    BY <1>1, <1>2, <1>6, IssueType DEF TypeOK
  <2> QED BY <1>6, <2>2, <2>3, <2>4, OneTable
<1> QED BY <1>3, <1>5, <1>6

(* Services send an SVSNICK line.                                          *)
LEMMA SvsNickStep ==
  ASSUME IInv, NEW s \in Server, NEW u \in Client, NEW n \in Nick, SvsNick(s, u, n)
  PROVE  IInv'
<1> DEFINE t == tab[s]
           line(ts) == [type |-> "SVSNICK", nick |-> t.name[u], ts |-> ts, new |-> n]
<1>1. TypeOK /\ t \in Table /\ q \in Queues /\ (u \in t.reg => t.name[u] \in Nick)
  BY TableFacts
<1>2. u \in t.reg /\ Issue("svsnick") /\ UNCHANGED <<links, tab, met>>
  BY DEF SvsNick
<1>3. PICK ts \in {0, t.ts[u]} : q' = SendOne(q, s, Via[s][Home[u]], line(ts))
  BY DEF SvsNick
<1>4. ts \in TSVal
  <2>1. t.ts[u] \in TSVal
    BY <1>1 DEF Table
  <2>2. 0 \in TSVal
    BY ConstAssumption DEF TSVal
  <2> QED BY <2>1, <2>2
<1>5. line(ts) \in Msg
  BY <1>1, <1>2, <1>4 DEF Msg, SvsMsg
<1>6. Via[s][Home[u]] \in Server
  BY ConstAssumption
<1> HIDE DEF line, t
<1>7. q' \in Queues
  BY <1>1, <1>3, <1>5, <1>6, SendOneType
<1>8. links' \in [Server -> SUBSET Server] /\ ops' \in 0..MaxOps
  BY <1>1, <1>2, IssueType DEF TypeOK
<1> QED BY <1>2, <1>7, <1>8, NoTable

-----------------------------------------------------------------------------
(* The invariant holds initially.                                          *)
LEMMA InitIInv ==
  ASSUME Init PROVE IInv
<1>1. PICK st \in Start :
       /\ \A u, v \in Present :
            (Linked \/ Home[u] = Home[v]) /\ st.nick[u] = st.nick[v] => u = v
       /\ tab = [s \in Server |->
            LET mine == {u \in Present : Linked \/ Home[u] = s}
            IN  [name |-> [u \in Client |-> IF u \in mine THEN st.nick[u] ELSE NoNick],
                 ts |-> [u \in Client |-> IF u \in mine THEN st.ts[u] ELSE 0],
                 reg |-> mine,
                 hist |-> [n \in Nick |-> Nobody]]]
  BY DEF Init
<1>2. \A u \in Present : st.nick[u] \in Nick /\ st.ts[u] \in TSVal /\ u \in Client
  BY ConstAssumption DEF Now, TSVal
<1>3. 0 \in TSVal
  BY ConstAssumption DEF TSVal
<1>4. ASSUME NEW s \in Server PROVE tab[s] \in Table /\ GoodTable(tab[s])
  <2> DEFINE mine == {u \in Present : Linked \/ Home[u] = s}
             e == [name |-> [u \in Client |-> IF u \in mine THEN st.nick[u] ELSE NoNick],
                   ts |-> [u \in Client |-> IF u \in mine THEN st.ts[u] ELSE 0],
                   reg |-> mine,
                   hist |-> [n \in Nick |-> Nobody]]
  <2>1. tab[s] = e
    BY <1>1
  <2>2. mine \subseteq Present /\ mine \subseteq Client
    BY <1>2
  <2>3. \A u, v \in mine : st.nick[u] = st.nick[v] => u = v
    BY <1>1
  <2> HIDE DEF mine
  <2>4. e \in Table
    BY <1>2, <1>3, <2>2 DEF Table
  <2>5. GoodTable(e)
    BY <1>2, <2>2, <2>3, ConstAssumption DEF GoodTable
  <2> QED BY <2>1, <2>4, <2>5
<1>5. tab \in [Server -> Table]
  BY <1>1, <1>4
<1>6. /\ links \in [Server -> SUBSET Server] /\ q \in [Server -> [Server -> Seq(Msg)]]
      /\ met \in SUBSET Client /\ ops \in 0..MaxOps
  <2>1. \A s \in Server : Neighbours(s) \subseteq Server
    BY DEF Neighbours
  <2>2. << >> \in Seq(Msg)
    OBVIOUS
  <2> QED BY <2>1, <2>2, ConstAssumption DEF Init
<1> QED BY <1>4, <1>5, <1>6 DEF IInv, TypeOK

(* Every step keeps it.                                                    *)
LEMMA NextIInv ==
  ASSUME IInv, [Next]_vars PROVE IInv'
<1>1. CASE UNCHANGED vars
  BY <1>1 DEF vars, IInv, TypeOK
<1>2. ASSUME NEW s \in Server, NEW t \in Server, Connect(t, s) \/ Receive(s, t)
      PROVE  IInv'
  BY <1>2, ConnectStep, RecvServerStep, RecvNickStep, RecvChangeStep, RecvQuitStep,
     RecvKillStep, RecvSvsNickStep DEF Receive
<1>3. ASSUME NEW u \in Client, Register(u) \/ Quit(u)
      PROVE  IInv'
  BY <1>3, RegisterStep, LeaveHomeStep DEF Quit
<1>4. ASSUME NEW u \in Client, NEW n \in Nick,
             SetNick(u, n) \/ ChangeNick(u, n) \/ RefuseChange(u, n)
      PROVE  IInv'
  BY <1>4, SetNickStep, ChangeNickStep, RefuseChangeStep
<1>5. ASSUME NEW s \in Server, NEW n \in Nick,
             OperKill(s, n) \/ \E u \in Client : SvsNick(s, u, n)
      PROVE  IInv'
  BY <1>5, OperKillStep, SvsNickStep
<1> QED BY <1>1, <1>2, <1>3, <1>4, <1>5 DEF Next

(***************************************************************************)
(* The tables and lines of every server are always of their types,         *)
(* whatever crosses on the links.                                          *)
(***************************************************************************)
THEOREM NickTypeCorrect == Spec => []TypeOK
<1>1. IInv => TypeOK
  BY DEF IInv
<1> QED BY <1>1, InitIInv, NextIInv, PTL DEF Spec

(***************************************************************************)
(* No hash table ever holds two clients with one nick (m_nick overrides,   *)
(* kills or refuses the holder before it names the claimant).              *)
(***************************************************************************)
THEOREM NicksAreUnique == Spec => []NickUnique
<1>1. IInv => NickUnique
  BY DEF IInv, GoodTable, NickUnique, Known
<1> QED BY <1>1, InitIInv, NextIInv, PTL DEF Spec

(***************************************************************************)
(* The nick history only points to clients in the hash table: exit_client  *)
(* clears it, whichever handler a client leaves through.                   *)
(***************************************************************************)
THEOREM HistoryIsSound == Spec => []NoDangling
<1>1. ASSUME IInv PROVE NoDangling
  <2> SUFFICES ASSUME NEW s \in Server, NEW n \in Nick, tab[s].hist[n] # Nobody
               PROVE  tab[s].hist[n] \in Known(tab[s])
    BY DEF NoDangling
  <2>1. tab[s] \in Table /\ GoodTable(tab[s])
    BY <1>1, TableFacts
  <2> QED BY <2>1 DEF Table, GoodTable, Known
<1> QED BY <1>1, InitIInv, NextIInv, PTL DEF Spec
=============================================================================
