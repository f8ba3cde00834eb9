---------------------------- MODULE ChanTSProofs ----------------------------
(***************************************************************************)
(* Proofs about ChanTS, for every network, every number of clients and     *)
(* every bound:                                                            *)
(*   - the type invariant, the exclusion of CHFL_CHANOP and CHFL_DEOPPED,  *)
(*     and the two sides of membership, which follow from one inductive    *)
(*     invariant, IInv, with one lemma per action;                         *)
(*   - that a server only knows clients it can reach, from the invariant   *)
(*     Reach about the lines on the links, on a tree of servers;           *)
(*   - what a step may do: timestamps of channels with operators never     *)
(*     rise and a younger SJOIN gains nothing; and that the two ends of a  *)
(*     new link merge their channels to the same one;                      *)
(*   - without KILL: linked servers at rest know the same clients, every   *)
(*     line is understood where it is read, and no channel stays empty;    *)
(*     without KICK, too, they list the same members; from the invariant   *)
(*     Told about what the lines say of clients and members.               *)
(***************************************************************************)
EXTENDS ChanTS, TLAPS, SequenceTheorems

(* m_sjoin turns a channel copy into a channel copy.                       *)
LEMMA SjoinChanType ==
  ASSUME NEW c \in Chan, NEW m \in SjoinMsg, NEW kept \in SUBSET User
  PROVE  SjoinChan(c, m, kept) \in Chan
<1> DEFINE d == SjoinChan(c, m, kept)
<1>1. SjoinTS(c, m) \in TSVal
  BY ConstAssumption DEF SjoinTS, Compared, Chan, SjoinMsg, TSVal
<1>2. SjoinModes(c, m) \in ModeRec
  <2>1. MergedModes(c.mode, m.mode) \in ModeRec
    BY ConstAssumption DEF MergedModes, Larger, ModeRec, Arg, Chan, SjoinMsg
  <2> QED BY <2>1 DEF SjoinModes, Chan, SjoinMsg
<1>3. ASSUME NEW u \in User PROVE JoinFlags(c, m, u) \subseteq Flag
  BY DEF JoinFlags, SjoinMsg, Flag
<1>4. d.fl \in [User -> SUBSET Flag]
  BY <1>3 DEF SjoinChan, Chan
<1> QED BY <1>1, <1>2, <1>4 DEF SjoinChan, Chan

(* What m_sjoin relays is again an SJOIN line.                             *)
LEMMA SjoinRelayType ==
  ASSUME NEW c \in Chan, NEW m \in SjoinMsg, NEW kept \in SUBSET User, NEW lead \in User
  PROVE  SjoinRelay(c, m, kept, lead) \in SjoinMsg
<1>1. SjoinTS(c, m) \in TSVal
  BY ConstAssumption DEF SjoinTS, Compared, Chan, SjoinMsg, TSVal
<1>2. SjoinModes(c, m) \in ModeRec
  BY SjoinChanType, kept \in SUBSET User DEF SjoinChan, Chan
<1>3. NoMode \in ModeRec
  BY ConstAssumption DEF NoMode, ModeRec, Arg
<1>4. keep_new_modes(c, m) \in BOOLEAN
  BY DEF keep_new_modes
<1> QED BY <1>1, <1>2, <1>3, <1>4 DEF SjoinRelay, Sjoin, SjoinMsg

(* Removing clients from a channel copy gives a channel copy.              *)
LEMMA RemoveUsersType ==
  ASSUME NEW c \in Chan, NEW gone \in SUBSET User
  PROVE  RemoveUsers(c, gone) \in Chan
<1>1. NoChan \in Chan /\ NoFlags \in [User -> SUBSET Flag]
  BY ConstAssumption DEF NoChan, Chan, NoFlags, NoMode, ModeRec, Arg, TSVal
<1> QED BY <1>1 DEF RemoveUsers, Chan

(* change_chan_flag and set_deopped keep a channel copy one.               *)
LEMMA FlagChangeType ==
  ASSUME NEW c \in Chan, NEW u \in User
  PROVE  /\ set_deopped(c, u) \in Chan
         /\ \A f \in Prefix, add \in BOOLEAN : change_chan_flag(c, u, f, add) \in Chan
BY DEF set_deopped, change_chan_flag, Chan, Flag

(* So does a change of the channel's modes.                                *)
LEMMA ApplyChangeType ==
  ASSUME NEW mode \in ModeRec, NEW change \in ModeRec, NEW add \in BOOLEAN
  PROVE  ApplyChange(mode, change, add) \in ModeRec
<1>1. 0 \in Arg
  BY ConstAssumption DEF Arg
<1>2. CASE add
  BY <1>1, <1>2 DEF ApplyChange, ModeRec
<1>3. CASE ~add
  BY <1>1, <1>3 DEF ApplyChange, ModeRec
<1> QED BY <1>2, <1>3

(* Sequences of one and of two elements.                                   *)
LEMMA ShortSeq ==
  ASSUME NEW S, NEW a \in S, NEW b \in S
  PROVE  <<a>> \in Seq(S) /\ <<a, b>> \in Seq(S)
OBVIOUS

(* A burst is a sequence of lines.                                         *)
LEMMA NjoinLinesType ==
  ASSUME NEW c \in Chan
  PROVE  NjoinLines(c) \subseteq Seq(Msg)
<1>1. Prefixes(c) \in [User -> SUBSET Prefix]
  BY DEF Prefixes, Chan
<1>2. NoMode \in ModeRec
  BY ConstAssumption DEF NoMode, ModeRec, Arg
<1>3. ASSUME NEW l \in User, NEW n \in SUBSET User
      PROVE  /\ Sjoin(c.ts, FALSE, c.mode, l, n, Prefixes(c)) \in Msg
             /\ Sjoin(c.ts, TRUE, NoMode, l, n, Prefixes(c)) \in Msg
  BY <1>1, <1>2 DEF Sjoin, SjoinMsg, Msg, Chan
<1>4. Leads(c, c.mem) \subseteq User
  BY DEF Leads, Ops, Chan
<1>5. c.mem \subseteq User
  BY DEF Chan
<1>6. ASSUME NEW x \in NjoinLines(c) PROVE x \in Seq(Msg)
  <2>1. CASE c.mem = {}
    BY <2>1 DEF NjoinLines
  <2>2. CASE c.mem # {}
    <3>1. CASE \E l \in Leads(c, c.mem) :
                 x = <<Sjoin(c.ts, FALSE, c.mode, l, c.mem, Prefixes(c))>>
      <4>1. PICK l \in User : x = <<Sjoin(c.ts, FALSE, c.mode, l, c.mem, Prefixes(c))>>
        BY <3>1, <1>4
      <4>2. Sjoin(c.ts, FALSE, c.mode, l, c.mem, Prefixes(c)) \in Msg
        BY <1>3, <1>5
      <4> QED BY <4>1, <4>2, ShortSeq
    <3>2. CASE \E p \in c.mem \X c.mem \X SUBSET c.mem :
                 x = << Sjoin(c.ts, FALSE, c.mode, p[1], p[3], Prefixes(c)),
                        Sjoin(c.ts, TRUE, NoMode, p[2], c.mem \ p[3], Prefixes(c)) >>
      <4>1. PICK p \in c.mem \X c.mem \X SUBSET c.mem :
                 x = << Sjoin(c.ts, FALSE, c.mode, p[1], p[3], Prefixes(c)),
                        Sjoin(c.ts, TRUE, NoMode, p[2], c.mem \ p[3], Prefixes(c)) >>
        BY <3>2
      <4>2. p[1] \in User /\ p[2] \in User /\ p[3] \in SUBSET User
        BY <1>5
      <4>3. /\ Sjoin(c.ts, FALSE, c.mode, p[1], p[3], Prefixes(c)) \in Msg
            /\ Sjoin(c.ts, TRUE, NoMode, p[2], c.mem \ p[3], Prefixes(c)) \in Msg
        BY <4>2, <1>3, <1>5
      <4> QED BY <4>1, <4>3, ShortSeq
    <3> QED BY <2>2, <3>1, <3>2 DEF NjoinLines
  <2> QED BY <2>1, <2>2
<1> QED BY <1>6

(* The whole burst, which starts with the SERVER line.                     *)
LEMMA BurstsType ==
  ASSUME TypeOK, NEW s \in Server, NEW b \in Bursts(s)
  PROVE  b \in Seq(Msg) /\ b # << >> /\ Tail(b) \in Seq(Msg)
<1>1. PICK l \in NjoinLines(ch[s]) :
        b = <<[type |-> "SERVER"], [type |-> "NICK", names |-> known[s]]>> \o l
  BY DEF Bursts
<1>2. l \in Seq(Msg)
  BY <1>1, NjoinLinesType DEF TypeOK
<1>3. <<[type |-> "SERVER"], [type |-> "NICK", names |-> known[s]]>> \in Seq(Msg)
  BY DEF TypeOK, Msg, ServerMsg, NickMsg
<1>4. b \in Seq(Msg)
  BY <1>1, <1>2, <1>3
<1>5. Len(b) = 2 + Len(l)
  BY <1>1, <1>2, <1>3
<1> QED BY <1>4, <1>5, <1>2

-----------------------------------------------------------------------------
Queues == [Server -> [Server -> Seq(Msg)]]

(* The line a server reads next has the fields of its type.                *)
LEMMA NextLineType ==
  ASSUME TypeOK, NEW s \in Server, NEW p \in Server, q[p][s] # << >>
  PROVE  LET m == Head(q[p][s]) IN
         /\ m \in Msg
         /\ m.type = "SJOIN" => m \in SjoinMsg
         /\ m.type = "MODE" => m \in ModeMsg
         /\ m.type = "CMODE" => m \in CModeMsg
         /\ m.type = "PART" => m \in PartMsg
         /\ m.type = "KICK" => m \in KickMsg
         /\ m.type = "NICK" => m \in NickMsg
         /\ m.type = "EXIT" => m \in ExitMsg
<1> DEFINE m == Head(q[p][s])
<1>1. q[p][s] \in Seq(Msg)
  BY DEF TypeOK
<1>2. m \in Msg
  BY <1>1
<1>3. \A x \in Msg :
         /\ x.type = "SJOIN" => x \in SjoinMsg
         /\ x.type = "MODE" => x \in ModeMsg
         /\ x.type = "CMODE" => x \in CModeMsg
         /\ x.type = "PART" => x \in PartMsg
         /\ x.type = "KICK" => x \in KickMsg
         /\ x.type = "NICK" => x \in NickMsg
         /\ x.type = "EXIT" => x \in ExitMsg
  BY DEF Msg, SjoinMsg, ModeMsg, CModeMsg, PartMsg, KickMsg, NickMsg, ExitMsg, ServerMsg
<1> HIDE DEF m
<1>4. /\ m \in Msg
      /\ m.type = "SJOIN" => m \in SjoinMsg
      /\ m.type = "MODE" => m \in ModeMsg
      /\ m.type = "CMODE" => m \in CModeMsg
      /\ m.type = "PART" => m \in PartMsg
      /\ m.type = "KICK" => m \in KickMsg
      /\ m.type = "NICK" => m \in NickMsg
      /\ m.type = "EXIT" => m \in ExitMsg
  BY <1>2, <1>3
<1> QED BY <1>4 DEF m

(* Relaying a line keeps the queues typed.                                 *)
LEMMA RelayType ==
  ASSUME TypeOK, NEW s \in Server, NEW x \in Server, NEW m \in Msg
  PROVE  Relay(s, x, m) \in Queues
<1>1. \A t \in Server : q[s][t] \in Seq(Msg) /\ Append(q[s][t], m) \in Seq(Msg)
  BY DEF TypeOK
<1> QED BY <1>1 DEF Relay, Queues, TypeOK

(* So does consuming a line, and relaying or answering it.                 *)
LEMMA ConsumeType ==
  ASSUME TypeOK, NEW s \in Server, NEW p \in Server, q[p][s] # << >>
  PROVE  /\ Consume(s, p) \in Queues
         /\ \A m \in Msg : ConsumeRelay(s, p, m) \in Queues
         /\ \A u \in User : ConsumeUnknown(s, p, u) \in Queues
<1>1. q \in Queues /\ q[p][s] \in Seq(Msg) /\ Tail(q[p][s]) \in Seq(Msg)
  BY DEF TypeOK, Queues
<1>2. Consume(s, p) \in Queues
  BY <1>1 DEF Consume, Queues
<1>3. ASSUME NEW m \in Msg PROVE ConsumeRelay(s, p, m) \in Queues
  <2>1. \A t \in Server : q[s][t] \in Seq(Msg) /\ Append(q[s][t], m) \in Seq(Msg)
    BY <1>1 DEF Queues
  <2> QED BY <1>1, <2>1 DEF ConsumeRelay, Queues
<1>4. ASSUME NEW u \in User PROVE ConsumeUnknown(s, p, u) \in Queues
  <2> DEFINE e == [type |-> "EXIT", gone |-> {u}]
             r == Consume(s, p)
  <2>1. e \in Msg
    BY DEF Msg, ExitMsg
  <2>2. r \in Queues
    BY <1>2
  <2> HIDE DEF r
  <2>3. Append(r[s][p], e) \in Seq(Msg)
    BY <2>1, <2>2 DEF Queues
  <2>4. [r EXCEPT ![s][p] = Append(@, e)] \in Queues
    BY <2>2, <2>3 DEF Queues
  <2> QED BY <2>4 DEF ConsumeUnknown, r
<1> QED BY <1>2, <1>3, <1>4

-----------------------------------------------------------------------------
(***************************************************************************)
(* The inductive invariant, copy by copy: members are clients the server   *)
(* knows, only members have flags, only an allocated channel has members,  *)
(* and nobody is both opped and marked as deopped.                         *)
(***************************************************************************)
GoodChan(c, K) == c.mem \subseteq K /\ WellFormed(c)

IInv == TypeOK /\ \A s \in Server : GoodChan(ch[s], known[s])

(* m_sjoin keeps a copy good: it adds known nicks, and what it gives them  *)
(* is either their prefixes or the mark, never both.                       *)
LEMMA SjoinGood ==
  ASSUME NEW c \in Chan, NEW m \in SjoinMsg, NEW K, NEW kept \in SUBSET User,
         GoodChan(c, K), kept \subseteq K
  PROVE  GoodChan(SjoinChan(c, m, kept), K)
<1> DEFINE d == SjoinChan(c, m, kept)
<1>1. "d" \notin Prefix
  BY DEF Prefix
<1>2. \A u \in User : ~({"o", "d"} \subseteq JoinFlags(c, m, u))
  BY <1>1 DEF JoinFlags, SjoinMsg
<1>3. /\ d.on = TRUE
      /\ d.mem = c.mem \cup kept
      /\ \A u \in User : d.fl[u] =
           CASE u \in c.mem -> IF keep_our_modes(c, m) THEN c.fl[u] ELSE c.fl[u] \ Prefix
             [] u \notin c.mem /\ u \in kept -> JoinFlags(c, m, u)
             [] OTHER -> {}
  BY DEF SjoinChan
<1> HIDE DEF d
<1>4. d.mem \subseteq K
  BY <1>3 DEF GoodChan, WellFormed
<1>5. ASSUME NEW u \in User, d.fl[u] # {} PROVE u \in d.mem
  BY <1>3, <1>5
<1>6. ASSUME NEW u \in User PROVE ~({"o", "d"} \subseteq d.fl[u])
  <2>1. CASE u \in c.mem
    <3>1. d.fl[u] \subseteq c.fl[u]
      BY <1>3, <2>1
    <3>2. ~({"o", "d"} \subseteq c.fl[u])
      BY DEF GoodChan, WellFormed
    <3> QED BY <3>1, <3>2
  <2>2. CASE u \notin c.mem /\ u \in kept
    <3>1. d.fl[u] = JoinFlags(c, m, u)
      BY <1>3, <2>2
    <3> QED BY <1>2, <3>1
  <2>3. CASE u \notin c.mem /\ u \notin kept
    <3>1. d.fl[u] = {}
      BY <1>3, <2>3
    <3> QED BY <3>1
  <2> QED BY <2>1, <2>2, <2>3
<1>7. GoodChan(d, K)
  BY <1>3, <1>4, <1>5, <1>6 DEF GoodChan, WellFormed
<1> QED BY <1>7 DEF d

(* Removing clients from a copy keeps it good, also once the server has    *)
(* forgotten those clients.                                                *)
LEMMA RemoveGood ==
  ASSUME NEW c \in Chan, NEW K, NEW gone \in SUBSET User, GoodChan(c, K)
  PROVE  GoodChan(RemoveUsers(c, gone), K \ gone) /\ GoodChan(RemoveUsers(c, gone), K)
<1> DEFINE d == RemoveUsers(c, gone)
<1>1. CASE gone \cap c.mem = {}
  BY <1>1 DEF RemoveUsers, GoodChan, WellFormed
<1>2. CASE gone \cap c.mem # {} /\ c.mem \subseteq gone
  BY <1>2 DEF RemoveUsers, GoodChan, WellFormed, NoChan, NoFlags, Chan
<1>3. CASE gone \cap c.mem # {} /\ ~(c.mem \subseteq gone)
  <2>1. /\ d.mem = c.mem \ gone /\ d.on = c.on
        /\ \A u \in User : d.fl[u] = IF u \in gone THEN {} ELSE c.fl[u]
    BY <1>3 DEF RemoveUsers, Chan
  <2> HIDE DEF d
  <2>2. GoodChan(d, K \ gone) /\ GoodChan(d, K)
    BY <2>1 DEF GoodChan, WellFormed
  <2> QED BY <2>2 DEF d
<1> QED BY <1>1, <1>2, <1>3

(* A change of a member's flags keeps a copy good: opping clears the mark. *)
LEMMA FlagChangeGood ==
  ASSUME NEW c \in Chan, NEW K, NEW u \in c.mem, GoodChan(c, K)
  PROVE  /\ GoodChan(set_deopped(c, u), K)
         /\ \A f \in Prefix, add \in BOOLEAN : GoodChan(change_chan_flag(c, u, f, add), K)
<1>1. u \in User
  BY DEF Chan
<1>2. GoodChan(set_deopped(c, u), K)
  BY <1>1 DEF set_deopped, GoodChan, WellFormed, Chan
<1>3. ASSUME NEW f \in Prefix, NEW add \in BOOLEAN
      PROVE  GoodChan(change_chan_flag(c, u, f, add), K)
  <2> DEFINE d == change_chan_flag(c, u, f, add)
  <2>1. /\ d.mem = c.mem /\ d.on = c.on
        /\ \A v \in User : v # u => d.fl[v] = c.fl[v]
        /\ d.fl[u] = IF add THEN (c.fl[u] \cup {f}) \ (IF f = "o" THEN {"d"} ELSE {})
                            ELSE c.fl[u] \ {f}
    BY <1>1 DEF change_chan_flag, Chan
  <2>2. f # "d"
    BY DEF Prefix
  <2> HIDE DEF d
  <2>3. ~({"o", "d"} \subseteq d.fl[u])
    BY <1>1, <2>1, <2>2 DEF GoodChan, WellFormed
  <2>4. GoodChan(d, K)
    BY <1>1, <2>1, <2>3 DEF GoodChan, WellFormed
  <2> QED BY <2>4 DEF d
<1> QED BY <1>2, <1>3

-----------------------------------------------------------------------------
(* A step that replaces one copy by a good one keeps the invariant.        *)
LEMMA OneCopy ==
  ASSUME IInv, NEW s \in Server, NEW c \in Chan, NEW K \in SUBSET User,
         GoodChan(c, K),
         ch' = [ch EXCEPT ![s] = c], known' = [known EXCEPT ![s] = K],
         links' \in [Server -> SUBSET Server], q' \in Queues,
         ops' \in 0..MaxOps, cuts' \in 0..MaxCuts
  PROVE  IInv'
<1>1. TypeOK'
  BY DEF IInv, TypeOK, Queues
<1>2. ASSUME NEW t \in Server PROVE GoodChan(ch'[t], known'[t])
  BY DEF IInv, TypeOK
<1> QED BY <1>1, <1>2 DEF IInv

(* The same when no client is learnt or forgotten.                         *)
LEMMA OneCopySame ==
  ASSUME IInv, NEW s \in Server, NEW c \in Chan, GoodChan(c, known[s]),
         ch' = [ch EXCEPT ![s] = c], UNCHANGED <<links, known>>, q' \in Queues,
         ops' \in 0..MaxOps, cuts' \in 0..MaxCuts
  PROVE  IInv'
<1>1. known[s] \in SUBSET User /\ known' = [known EXCEPT ![s] = known[s]]
      /\ links' \in [Server -> SUBSET Server]
  BY DEF IInv, TypeOK
<1> QED BY <1>1, OneCopy

(* A step that touches no copy.                                            *)
LEMMA NoCopy ==
  ASSUME IInv, UNCHANGED <<known, ch>>,
         links' \in [Server -> SUBSET Server], q' \in Queues,
         ops' \in 0..MaxOps, cuts' \in 0..MaxCuts
  PROVE  IInv'
BY DEF IInv, TypeOK, Queues

(* What the steps below use of the invariant.                              *)
LEMMA CopyFacts ==
  ASSUME IInv, NEW s \in Server
  PROVE  /\ TypeOK /\ ch[s] \in Chan /\ GoodChan(ch[s], known[s])
         /\ known[s] \in SUBSET User /\ ch[s].mem \subseteq User
         /\ ch = [ch EXCEPT ![s] = ch[s]]
         /\ ops \in 0..MaxOps /\ cuts \in 0..MaxCuts
         /\ links \in [Server -> SUBSET Server]
BY DEF IInv, TypeOK, Chan

(* Connect and RecvServer only touch the link and its queue.               *)
LEMMA ConnectStep ==
  ASSUME IInv, NEW s \in Server, NEW t \in Server, Connect(t, s) PROVE IInv'
<1>1. PICK b \in Bursts(t) : q' = [q EXCEPT ![t][s] = b]
  BY DEF Connect
<1>2. b \in Seq(Msg)
  BY BurstsType DEF IInv
<1>3. q' \in Queues
  BY <1>1, <1>2 DEF IInv, TypeOK, Queues
<1>4. links' \in [Server -> SUBSET Server] /\ UNCHANGED <<known, ch, ops, cuts>>
  BY DEF Connect, IInv, TypeOK
<1> QED BY <1>3, <1>4, NoCopy DEF IInv, TypeOK

(* The answer to a SERVER line preserves the invariant.                    *)
LEMMA RecvServerStep ==
  ASSUME IInv, NEW s \in Server, NEW p \in Server, RecvServer(s, p) PROVE IInv'
<1> DEFINE r == Consume(s, p)
<1>1. PICK b \in Bursts(s) : q' = [r EXCEPT ![s][p] = @ \o Tail(b)]
  BY DEF RecvServer
<1>2. Tail(b) \in Seq(Msg)
  BY BurstsType DEF IInv
<1>3. q[p][s] # << >>
  BY DEF RecvServer, NextLine
<1>4. r \in Queues
  BY <1>3, CopyFacts, ConsumeType
<1> HIDE DEF r
<1>5. r[s][p] \o Tail(b) \in Seq(Msg)
  BY <1>2, <1>4 DEF Queues
<1>6. [r EXCEPT ![s][p] = @ \o Tail(b)] \in Queues
  BY <1>4, <1>5 DEF Queues
<1>7. links' \in [Server -> SUBSET Server] /\ UNCHANGED <<known, ch, ops, cuts>>
  BY DEF RecvServer, IInv, TypeOK
<1> QED BY <1>1, <1>6, <1>7, NoCopy DEF IInv, TypeOK

(* So does NICK: it only makes more clients known.                         *)
LEMMA RecvNickStep ==
  ASSUME IInv, NEW s \in Server, NEW p \in Server, RecvNick(s, p) PROVE IInv'
<1> DEFINE m == Head(q[p][s])
<1>1. /\ q[p][s] # << >> /\ m.type = "NICK"
      /\ known' = [known EXCEPT ![s] = known[s] \cup m.names]
      /\ q' = ConsumeRelay(s, p, m) /\ UNCHANGED <<links, ch, ops, cuts>>
  BY DEF RecvNick, NextLine
<1>2. m \in Msg /\ m \in NickMsg
  BY <1>1, CopyFacts, NextLineType
<1>3. q' \in Queues
  BY <1>1, <1>2, CopyFacts, ConsumeType
<1>4. known[s] \cup m.names \in SUBSET User
  BY <1>2, CopyFacts DEF NickMsg
<1>5. GoodChan(ch[s], known[s] \cup m.names)
  BY CopyFacts DEF GoodChan, WellFormed
<1>6. ch' = [ch EXCEPT ![s] = ch[s]]
  BY <1>1, CopyFacts
<1> HIDE DEF m
<1> QED BY <1>1, <1>3, <1>4, <1>5, <1>6, CopyFacts, OneCopy

(* SJOIN admits only nicks that are known here.                            *)
LEMMA RecvSjoinStep ==
  ASSUME IInv, NEW s \in Server, NEW p \in Server, RecvSjoin(s, p) PROVE IInv'
<1> DEFINE m == Head(q[p][s])
           kept == {u \in m.names : u \in known[s] /\ Via[s][Home[u]] = p}
           c == SjoinChan(ch[s], m, kept)
<1>1. /\ q[p][s] # << >> /\ m.type = "SJOIN"
      /\ ch' = [ch EXCEPT ![s] = c] /\ UNCHANGED <<links, known, ops, cuts>>
  BY DEF RecvSjoin, NextLine
<1>2. m \in Msg /\ m \in SjoinMsg
  BY <1>1, CopyFacts, NextLineType
<1>3. kept \in SUBSET User /\ kept \subseteq known[s]
  BY CopyFacts
<1>4. q' \in Queues
  <2>1. CASE q' = Consume(s, p)
    BY <1>1, <2>1, CopyFacts, ConsumeType
  <2>2. CASE \E lead \in kept : q' = ConsumeRelay(s, p, SjoinRelay(ch[s], m, kept, lead))
    <3>1. PICK lead \in kept : q' = ConsumeRelay(s, p, SjoinRelay(ch[s], m, kept, lead))
      BY <2>2
    <3>2. SjoinRelay(ch[s], m, kept, lead) \in Msg
      <4>1. ch[s] \in Chan /\ lead \in User
        BY <1>2, CopyFacts
      <4>2. SjoinRelay(ch[s], m, kept, lead) \in SjoinMsg
        BY <1>2, <1>3, <4>1, SjoinRelayType
      <4> QED BY <4>2 DEF Msg
    <3> QED BY <1>1, <3>1, <3>2, CopyFacts, ConsumeType
  <2>3. \/ q' = Consume(s, p)
        \/ \E lead \in kept : q' = ConsumeRelay(s, p, SjoinRelay(ch[s], m, kept, lead))
    BY DEF RecvSjoin
  <2> QED BY <2>1, <2>2, <2>3
<1> HIDE DEF m, kept
<1>5. c \in Chan /\ GoodChan(c, known[s])
  BY <1>2, <1>3, CopyFacts, SjoinChanType, SjoinGood
<1> HIDE DEF c
<1> QED BY <1>1, <1>4, <1>5, CopyFacts, OneCopySame

(* A MODE line for a member's flag is applied, marks its target, or is     *)
(* dropped.                                                                *)
LEMMA RecvModeStep ==
  ASSUME IInv, NEW s \in Server, NEW p \in Server, RecvMode(s, p) PROVE IInv'
<1> DEFINE m == Head(q[p][s])
           c == ch[s]
<1>1. q[p][s] # << >> /\ m.type = "MODE" /\ UNCHANGED <<links, known, ops, cuts>>
  BY DEF RecvMode, NextLine
<1>2. m \in Msg /\ m \in ModeMsg
  BY <1>1, CopyFacts, NextLineType
<1>3. q' \in Queues /\ \E d \in Chan : GoodChan(d, known[s]) /\ ch' = [ch EXCEPT ![s] = d]
  <2>1. CASE m.src \notin known[s]
    <3>1. q' = ConsumeUnknown(s, p, m.src) /\ UNCHANGED ch
      BY <2>1 DEF RecvMode
    <3> QED BY <1>1, <1>2, <3>1, CopyFacts, ConsumeType DEF ModeMsg
  <2>2. CASE m.src \in known[s] /\ c.on /\ ModeAccepted(c, m.src, m.who, m.flag, m.add, TRUE)
    <3>1. /\ ch' = [ch EXCEPT ![s] = change_chan_flag(c, m.who, m.flag, m.add)]
          /\ q' = ConsumeRelay(s, p, m)
      BY <2>2 DEF RecvMode
    <3>2. m.who \in c.mem /\ m.flag \in Prefix /\ m.add \in BOOLEAN /\ m.who \in User
      BY <1>2, <2>2 DEF ModeAccepted, ModeMsg
    <3> HIDE DEF m
    <3>3. /\ change_chan_flag(c, m.who, m.flag, m.add) \in Chan
          /\ GoodChan(change_chan_flag(c, m.who, m.flag, m.add), known[s])
      BY <3>2, CopyFacts, FlagChangeType, FlagChangeGood
    <3> QED BY <1>1, <1>2, <3>1, <3>3, CopyFacts, ConsumeType DEF m
  <2>3. CASE /\ m.src \in known[s]
             /\ ~(c.on /\ ModeAccepted(c, m.src, m.who, m.flag, m.add, TRUE))
    <3>1. /\ ch' = [ch EXCEPT ![s] =
                     IF c.on /\ ModeDeops(c, m.src, m.who, m.flag, m.add)
                     THEN set_deopped(c, m.who) ELSE c]
          /\ q' = Consume(s, p)
      BY <2>3 DEF RecvMode
    <3>2. ModeDeops(c, m.src, m.who, m.flag, m.add) => m.who \in c.mem
      BY DEF ModeDeops
    <3>3. m.who \in User
      BY <1>2 DEF ModeMsg
    <3> HIDE DEF m
    <3>4. CASE c.on /\ ModeDeops(c, m.src, m.who, m.flag, m.add)
      <4>1. set_deopped(c, m.who) \in Chan /\ GoodChan(set_deopped(c, m.who), known[s])
        BY <3>2, <3>3, <3>4, CopyFacts, FlagChangeType, FlagChangeGood
      <4> QED BY <1>1, <3>1, <3>4, <4>1, CopyFacts, ConsumeType
    <3>5. CASE ~(c.on /\ ModeDeops(c, m.src, m.who, m.flag, m.add))
      BY <1>1, <3>1, <3>5, CopyFacts, ConsumeType
    <3> QED BY <3>4, <3>5
  <2> QED BY <2>1, <2>2, <2>3
<1>4. PICK d \in Chan : GoodChan(d, known[s]) /\ ch' = [ch EXCEPT ![s] = d]
  BY <1>3
<1> HIDE DEF m
<1> QED BY <1>1, <1>3, <1>4, CopyFacts, OneCopySame

(* A mode change without a nick leaves members and their flags alone.      *)
LEMMA RecvCModeStep ==
  ASSUME IInv, NEW s \in Server, NEW p \in Server, RecvCMode(s, p) PROVE IInv'
<1> DEFINE m == Head(q[p][s])
           c == ch[s]
<1>1. q[p][s] # << >> /\ m.type = "CMODE" /\ UNCHANGED <<links, known, ops, cuts>>
  BY DEF RecvCMode, NextLine
<1>2. m \in Msg /\ m \in CModeMsg
  BY <1>1, CopyFacts, NextLineType
<1>3. q' \in Queues /\ \E d \in Chan : GoodChan(d, known[s]) /\ ch' = [ch EXCEPT ![s] = d]
  <2>1. CASE m.src \notin known[s]
    <3>1. q' = ConsumeUnknown(s, p, m.src) /\ UNCHANGED ch
      BY <2>1 DEF RecvCMode
    <3> QED BY <1>1, <1>2, <3>1, CopyFacts, ConsumeType DEF CModeMsg
  <2>2. CASE m.src \in known[s] /\ ChangeAccepted(c, m.src, m.change, TRUE)
    <3>1. /\ ch' = [ch EXCEPT ![s].mode = ApplyChange(@, m.change, m.add)]
          /\ q' = ConsumeRelay(s, p, m)
      BY <2>2 DEF RecvCMode
    <3> DEFINE d == [c EXCEPT !.mode = ApplyChange(@, m.change, m.add)]
    <3>2. ch' = [ch EXCEPT ![s] = d]
      BY <3>1 DEF IInv, TypeOK
    <3>3. ApplyChange(c.mode, m.change, m.add) \in ModeRec
      BY <1>2, CopyFacts, ApplyChangeType DEF CModeMsg, Chan
    <3>4. d \in Chan /\ GoodChan(d, known[s])
      BY <3>3, CopyFacts DEF Chan, GoodChan, WellFormed
    <3> QED BY <1>1, <1>2, <3>1, <3>2, <3>4, CopyFacts, ConsumeType
  <2>3. CASE m.src \in known[s] /\ ~ChangeAccepted(c, m.src, m.change, TRUE)
    <3>1. q' = Consume(s, p) /\ UNCHANGED ch
      BY <2>3 DEF RecvCMode
    <3> QED BY <1>1, <3>1, CopyFacts, ConsumeType
  <2> QED BY <2>1, <2>2, <2>3
<1>4. PICK d \in Chan : GoodChan(d, known[s]) /\ ch' = [ch EXCEPT ![s] = d]
  BY <1>3
<1> HIDE DEF m
<1> QED BY <1>1, <1>3, <1>4, CopyFacts, OneCopySame

(* PART removes its source, or nobody.                                     *)
LEMMA RecvPartStep ==
  ASSUME IInv, NEW s \in Server, NEW p \in Server, RecvPart(s, p) PROVE IInv'
<1> DEFINE m == Head(q[p][s])
           c == ch[s]
<1>1. q[p][s] # << >> /\ m.type = "PART" /\ UNCHANGED <<links, known, ops, cuts>>
  BY DEF RecvPart, NextLine
<1>2. m \in Msg /\ m \in PartMsg
  BY <1>1, CopyFacts, NextLineType
<1>3. q' \in Queues /\ \E d \in Chan : GoodChan(d, known[s]) /\ ch' = [ch EXCEPT ![s] = d]
  <2>1. CASE m.src \notin known[s]
    <3>1. q' = ConsumeUnknown(s, p, m.src) /\ UNCHANGED ch
      BY <2>1 DEF RecvPart
    <3> QED BY <1>1, <1>2, <3>1, CopyFacts, ConsumeType DEF PartMsg
  <2>2. CASE m.src \in known[s] /\ m.src \in c.mem
    <3>1. ch' = [ch EXCEPT ![s] = RemoveUsers(c, {m.src}) ] /\ q' = ConsumeRelay(s, p, m)
      BY <2>2 DEF RecvPart
    <3>2. {m.src} \in SUBSET User
      BY <1>2 DEF PartMsg
    <3>3. RemoveUsers(c, {m.src}) \in Chan /\ GoodChan(RemoveUsers(c, {m.src}), known[s])
      BY <3>2, CopyFacts, RemoveUsersType, RemoveGood
    <3> QED BY <1>1, <1>2, <3>1, <3>3, CopyFacts, ConsumeType
  <2>3. CASE m.src \in known[s] /\ ~(m.src \in c.mem)
    <3>1. q' = Consume(s, p) /\ UNCHANGED ch
      BY <2>3 DEF RecvPart
    <3> QED BY <1>1, <3>1, CopyFacts, ConsumeType
  <2> QED BY <2>1, <2>2, <2>3
<1>4. PICK d \in Chan : GoodChan(d, known[s]) /\ ch' = [ch EXCEPT ![s] = d]
  BY <1>3
<1> HIDE DEF m
<1> QED BY <1>1, <1>3, <1>4, CopyFacts, OneCopySame

(* KICK removes its target, or nobody.                                     *)
LEMMA RecvKickStep ==
  ASSUME IInv, NEW s \in Server, NEW p \in Server, RecvKick(s, p) PROVE IInv'
<1> DEFINE m == Head(q[p][s])
           c == ch[s]
<1>1. q[p][s] # << >> /\ m.type = "KICK" /\ UNCHANGED <<links, known, ops, cuts>>
  BY DEF RecvKick, NextLine
<1>2. m \in Msg /\ m \in KickMsg
  BY <1>1, CopyFacts, NextLineType
<1>3. q' \in Queues /\ \E d \in Chan : GoodChan(d, known[s]) /\ ch' = [ch EXCEPT ![s] = d]
  <2>1. CASE m.src \notin known[s]
    <3>1. q' = ConsumeUnknown(s, p, m.src) /\ UNCHANGED ch
      BY <2>1 DEF RecvKick
    <3> QED BY <1>1, <1>2, <3>1, CopyFacts, ConsumeType DEF KickMsg
  <2>2. CASE m.src \in known[s] /\ KickAccepted(c, m.src, m.who, TRUE)
    <3>1. ch' = [ch EXCEPT ![s] = RemoveUsers(c, {m.who}) ] /\ q' = ConsumeRelay(s, p, m)
      BY <2>2 DEF RecvKick
    <3>2. {m.who} \in SUBSET User
      BY <1>2 DEF KickMsg
    <3>3. RemoveUsers(c, {m.who}) \in Chan /\ GoodChan(RemoveUsers(c, {m.who}), known[s])
      BY <3>2, CopyFacts, RemoveUsersType, RemoveGood
    <3> QED BY <1>1, <1>2, <3>1, <3>3, CopyFacts, ConsumeType
  <2>3. CASE m.src \in known[s] /\ ~(KickAccepted(c, m.src, m.who, TRUE))
    <3>1. q' = Consume(s, p) /\ UNCHANGED ch
      BY <2>3 DEF RecvKick
    <3> QED BY <1>1, <3>1, CopyFacts, ConsumeType
  <2> QED BY <2>1, <2>2, <2>3
<1>4. PICK d \in Chan : GoodChan(d, known[s]) /\ ch' = [ch EXCEPT ![s] = d]
  BY <1>3
<1> HIDE DEF m
<1> QED BY <1>1, <1>3, <1>4, CopyFacts, OneCopySame

(* QUIT, KILL and SQUIT remove clients and forget them in one step.        *)
LEMMA RecvExitStep ==
  ASSUME IInv, NEW s \in Server, NEW p \in Server, RecvExit(s, p) PROVE IInv'
<1> DEFINE gone == Head(q[p][s]).gone \cap known[s]
<1>1. /\ q[p][s] # << >> /\ UNCHANGED <<links, ops, cuts>>
      /\ known' = [known EXCEPT ![s] = known[s] \ gone]
      /\ ch' = [ch EXCEPT ![s] = RemoveUsers(ch[s], gone)]
      /\ q' = IF gone = {} THEN Consume(s, p)
              ELSE ConsumeRelay(s, p, [type |-> "EXIT", gone |-> gone])
  BY DEF RecvExit, NextLine
<1>2. gone \in SUBSET User
  BY CopyFacts
<1> HIDE DEF gone
<1>3. [type |-> "EXIT", gone |-> gone] \in Msg
  BY <1>2 DEF Msg, ExitMsg
<1>4. q' \in Queues
  BY <1>1, <1>3, CopyFacts, ConsumeType
<1>5. /\ RemoveUsers(ch[s], gone) \in Chan /\ known[s] \ gone \in SUBSET User
      /\ GoodChan(RemoveUsers(ch[s], gone), known[s] \ gone)
  BY <1>2, CopyFacts, RemoveUsersType, RemoveGood
<1> QED BY <1>1, <1>4, <1>5, CopyFacts, OneCopy

-----------------------------------------------------------------------------
(* Commands of local clients; each one counts against MaxOps.              *)
LEMMA IssueType ==
  ASSUME IInv, NEW act, Issue(act) PROVE ops' \in 0..MaxOps
BY ConstAssumption DEF Issue, IInv, TypeOK

(* m_join: a known client joins, or creates the channel as its operator.   *)
LEMMA JoinStep ==
  ASSUME IInv, NEW u \in User, Join(u) PROVE IInv'
<1> DEFINE s == Home[u]
<1>1. /\ s \in Server /\ u \in known[s] /\ u \notin ch[s].mem
      /\ ops' \in 0..MaxOps /\ UNCHANGED <<links, known, cuts>>
  BY ConstAssumption, IssueType DEF Join
<1> HIDE DEF s
<1>2. NoMode \in ModeRec /\ NoFlags \in [User -> SUBSET Prefix] /\ "o" \in Prefix /\ "o" \in Flag
      /\ Prefix \subseteq Flag
  BY ConstAssumption DEF NoMode, ModeRec, Arg, NoFlags, Prefix, Flag
<1>3. q' \in Queues /\ \E d \in Chan : GoodChan(d, known[s]) /\ ch' = [ch EXCEPT ![s] = d]
  <2>1. CASE ch[s].on
    <3> DEFINE m == Sjoin(ch[s].ts, FALSE, NoMode, u, {u}, NoFlags)
               d == [ch[s] EXCEPT !.mem = @ \cup {u}]
    <3>1. ch' = [ch EXCEPT ![s].mem = @ \cup {u}] /\ q' = Relay(s, s, m)
      BY <2>1 DEF Join, s
    <3>2. m \in Msg
      BY <1>2, <1>1, CopyFacts DEF Sjoin, SjoinMsg, Msg, Chan
    <3>3. ch' = [ch EXCEPT ![s] = d]
      BY <3>1, <1>1 DEF IInv, TypeOK
    <3>4. d \in Chan /\ GoodChan(d, known[s])
      BY <2>1, <1>1, CopyFacts DEF Chan, GoodChan, WellFormed
    <3> HIDE DEF m
    <3> QED BY <1>1, <3>1, <3>2, <3>3, <3>4, CopyFacts, RelayType
  <2>2. CASE ~ch[s].on
    <3> DEFINE mode == [NoMode EXCEPT !.flags = NewModes]
               fl == [NoFlags EXCEPT ![u] = {"o"}]
    <3>1. PICK now \in TSVal \ {0} :
            /\ ch' = [ch EXCEPT ![s] = [on |-> TRUE, ts |-> now, mem |-> {u},
                                       fl |-> fl, mode |-> mode]]
            /\ q' = Relay(s, s, Sjoin(now, FALSE, mode, u, {u}, fl))
      BY <2>2 DEF Join, s
    <3>2. mode \in ModeRec
      BY <1>2, ConstAssumption DEF ModeRec
    <3>3. fl \in [User -> SUBSET Prefix] /\ fl[u] = {"o"}
          /\ \A v \in User : v # u => fl[v] = {}
      BY <1>2 DEF NoFlags
    <3> HIDE DEF mode, fl
    <3>4. Sjoin(now, FALSE, mode, u, {u}, fl) \in Msg
      BY <3>2, <3>3 DEF Sjoin, SjoinMsg, Msg
    <3> DEFINE d == [on |-> TRUE, ts |-> now, mem |-> {u}, fl |-> fl, mode |-> mode]
    <3>5. d \in Chan
      BY <1>2, <3>2, <3>3 DEF Chan
    <3>6. GoodChan(d, known[s])
      BY <1>1, <3>3 DEF GoodChan, WellFormed
    <3>7. Relay(s, s, Sjoin(now, FALSE, mode, u, {u}, fl)) \in Queues
      BY <1>1, <3>4, CopyFacts, RelayType
    <3> QED BY <3>1, <3>5, <3>6, <3>7
  <2> QED BY <2>1, <2>2
<1>4. PICK d \in Chan : GoodChan(d, known[s]) /\ ch' = [ch EXCEPT ![s] = d]
  BY <1>3
<1> QED BY <1>1, <1>3, <1>4, CopyFacts, OneCopySame

(* PART of a local client.                                                 *)
LEMMA PartStep ==
  ASSUME IInv, NEW u \in User, Part(u) PROVE IInv'
<1> DEFINE s == Home[u]
           d == RemoveUsers(ch[s], {u})
<1>1. /\ s \in Server /\ ops' \in 0..MaxOps /\ UNCHANGED <<links, known, cuts>>
      /\ ch' = [ch EXCEPT ![s] = d] /\ q' = Relay(s, s, [type |-> "PART", src |-> u])
  BY ConstAssumption, IssueType DEF Part
<1>2. [type |-> "PART", src |-> u] \in Msg
  BY DEF Msg, PartMsg
<1> HIDE DEF s
<1>3. d \in Chan /\ GoodChan(d, known[s])
  BY <1>1, CopyFacts, RemoveUsersType, RemoveGood
<1>4. q' \in Queues
  BY <1>1, <1>2, CopyFacts, RelayType
<1> HIDE DEF d
<1> QED BY <1>1, <1>3, <1>4, CopyFacts, OneCopySame

(* KICK of a local client.                                                 *)
LEMMA KickStep ==
  ASSUME IInv, NEW u \in User, NEW w \in User, Kick(u, w) PROVE IInv'
<1> DEFINE s == Home[u]
           d == RemoveUsers(ch[s], {w})
<1>1. /\ s \in Server /\ ops' \in 0..MaxOps /\ UNCHANGED <<links, known, cuts>>
      /\ ch' = [ch EXCEPT ![s] = d] /\ q' = Relay(s, s, [type |-> "KICK", src |-> u, who |-> w])
  BY ConstAssumption, IssueType DEF Kick
<1>2. [type |-> "KICK", src |-> u, who |-> w] \in Msg
  BY DEF Msg, KickMsg
<1> HIDE DEF s
<1>3. d \in Chan /\ GoodChan(d, known[s])
  BY <1>1, CopyFacts, RemoveUsersType, RemoveGood
<1>4. q' \in Queues
  BY <1>1, <1>2, CopyFacts, RelayType
<1> HIDE DEF d
<1> QED BY <1>1, <1>3, <1>4, CopyFacts, OneCopySame

(* MODE of a local client on a member.                                     *)
LEMMA UserModeStep ==
  ASSUME IInv, NEW u \in User, NEW w \in User, NEW f \in Prefix, NEW add \in BOOLEAN,
         UserMode(u, w, f, add)
  PROVE  IInv'
<1> DEFINE s == Home[u]
           d == change_chan_flag(ch[s], w, f, add)
           m == [type |-> "MODE", src |-> u, who |-> w, flag |-> f, add |-> add]
<1>1. /\ s \in Server /\ w \in ch[s].mem
      /\ ops' \in 0..MaxOps /\ UNCHANGED <<links, known, cuts>>
      /\ ch' = [ch EXCEPT ![s] = d] /\ q' = Relay(s, s, m)
  BY ConstAssumption, IssueType DEF UserMode, ModeAccepted
<1>2. m \in Msg
  BY DEF Msg, ModeMsg
<1> HIDE DEF s, m
<1>3. d \in Chan /\ GoodChan(d, known[s])
  BY <1>1, CopyFacts, FlagChangeType, FlagChangeGood
<1>4. q' \in Queues
  BY <1>1, <1>2, CopyFacts, RelayType
<1> HIDE DEF d
<1> QED BY <1>1, <1>3, <1>4, CopyFacts, OneCopySame

(* MODE of a local client on the channel.                                  *)
LEMMA ChanModeStep ==
  ASSUME IInv, NEW u \in User, NEW change \in Change, NEW add \in BOOLEAN,
         ChanMode(u, change, add)
  PROVE  IInv'
<1> DEFINE s == Home[u]
           d == [ch[s] EXCEPT !.mode = ApplyChange(@, change, add)]
           m == [type |-> "CMODE", src |-> u, change |-> change, add |-> add]
<1>0. change \in ModeRec
  BY ConstAssumption DEF Change, ModeRec, Arg
<1>1. /\ s \in Server /\ ops' \in 0..MaxOps /\ UNCHANGED <<links, known, cuts>>
      /\ ch' = [ch EXCEPT ![s].mode = ApplyChange(@, change, add)] /\ q' = Relay(s, s, m)
  BY ConstAssumption, IssueType DEF ChanMode
<1>2. m \in Msg
  BY <1>0 DEF Msg, CModeMsg
<1> HIDE DEF s, m
<1>3. ch' = [ch EXCEPT ![s] = d]
  BY <1>1 DEF IInv, TypeOK
<1>4. ApplyChange(ch[s].mode, change, add) \in ModeRec
  BY <1>0, <1>1, CopyFacts, ApplyChangeType DEF Chan
<1>5. d \in Chan /\ GoodChan(d, known[s])
  <2>1. ch[s] \in Chan /\ GoodChan(ch[s], known[s])
    BY <1>1, CopyFacts
  <2>2. d \in Chan /\ d.on = ch[s].on /\ d.mem = ch[s].mem /\ d.fl = ch[s].fl
    BY <1>4, <2>1 DEF Chan
  <2> HIDE DEF d
  <2> QED BY <2>1, <2>2 DEF GoodChan, WellFormed
<1>6. q' \in Queues
  BY <1>1, <1>2, CopyFacts, RelayType
<1> HIDE DEF d
<1> QED BY <1>1, <1>3, <1>5, <1>6, CopyFacts, OneCopySame

(* QUIT at home or KILL anywhere.                                          *)
LEMMA LeaveStep ==
  ASSUME IInv, NEW s \in Server, NEW u \in User, Leave(s, u), ops' \in 0..MaxOps
  PROVE  IInv'
<1>1. [type |-> "EXIT", gone |-> {u}] \in Msg
  BY DEF Msg, ExitMsg
<1>2. q' \in Queues
  BY <1>1, CopyFacts, RelayType DEF Leave
<1>3. /\ RemoveUsers(ch[s], {u}) \in Chan /\ known[s] \ {u} \in SUBSET User
      /\ GoodChan(RemoveUsers(ch[s], {u}), known[s] \ {u})
  BY CopyFacts, RemoveUsersType, RemoveGood
<1>4. /\ known' = [known EXCEPT ![s] = known[s] \ {u}]
      /\ ch' = [ch EXCEPT ![s] = RemoveUsers(ch[s], {u})]
      /\ UNCHANGED <<links, cuts>>
  BY DEF Leave
<1> QED BY <1>2, <1>3, <1>4, CopyFacts, OneCopy

(* A broken link: both ends forget the clients behind it.                  *)
LEMMA SplitStep ==
  ASSUME IInv, NEW s \in Server, NEW t \in Server, Split(s, t) PROVE IInv'
<1> DEFINE lost == [x \in {s, t} |-> IF x = s THEN Behind(s, t) \cap known[s]
                                             ELSE Behind(t, s) \cap known[t]]
<1>1. \A x \in {s, t} : lost[x] \in SUBSET User
  BY CopyFacts
<1>2. /\ cuts' = cuts + 1 /\ cuts < MaxCuts /\ UNCHANGED ops
      /\ links' = [links EXCEPT ![s] = @ \ {t}, ![t] = @ \ {s}]
      /\ known' = [x \in Server |-> IF x \in {s, t} THEN known[x] \ lost[x] ELSE known[x]]
      /\ ch' = [x \in Server |-> IF x \in {s, t} THEN RemoveUsers(ch[x], lost[x]) ELSE ch[x]]
      /\ q' = [x \in Server |-> [y \in Server |->
                 CASE x \in {s, t} /\ y \in {s, t} -> << >>
                   [] x \in {s, t} /\ y \notin {s, t} ->
                        IF y \in links[x] /\ lost[x] # {}
                        THEN Append(q[x][y], [type |-> "EXIT", gone |-> lost[x]])
                        ELSE q[x][y]
                   [] OTHER -> q[x][y]]]
  BY DEF Split
<1> HIDE DEF lost
<1>3. q' \in Queues
  <2>1. \A x, y \in Server : q[x][y] \in Seq(Msg) /\ << >> \in Seq(Msg)
    BY DEF IInv, TypeOK
  <2>2. \A x \in {s, t} : [type |-> "EXIT", gone |-> lost[x]] \in Msg
    BY <1>1 DEF Msg, ExitMsg
  <2>3. \A x \in {s, t}, y \in Server :
          Append(q[x][y], [type |-> "EXIT", gone |-> lost[x]]) \in Seq(Msg)
    BY <2>1, <2>2
  <2> QED BY <1>2, <2>1, <2>3 DEF Queues
<1>4. ASSUME NEW x \in Server PROVE ch'[x] \in Chan /\ GoodChan(ch'[x], known'[x])
                                     /\ known'[x] \in SUBSET User
  <2>1. CASE x \in {s, t}
    BY <1>1, <1>2, <2>1, CopyFacts, RemoveUsersType, RemoveGood
  <2>2. CASE x \notin {s, t}
    BY <1>2, <2>2, CopyFacts
  <2> QED BY <2>1, <2>2
<1>5. ch' \in [Server -> Chan] /\ known' \in [Server -> SUBSET User]
  BY <1>2, <1>4
<1>6. links' \in [Server -> SUBSET Server]
  BY <1>2, CopyFacts
<1>7. ops' \in 0..MaxOps /\ cuts' \in 0..MaxCuts
  <2>1. ops \in 0..MaxOps /\ cuts \in 0..MaxCuts /\ MaxCuts \in Nat
    BY CopyFacts, ConstAssumption
  <2> QED BY <1>2, <2>1
<1>8. TypeOK'
  BY <1>3, <1>5, <1>6, <1>7 DEF TypeOK, Queues
<1> QED BY <1>4, <1>8 DEF IInv

-----------------------------------------------------------------------------
(* The servers start with well-formed copies of their own.                 *)
LEMMA InitIInv ==
  ASSUME Init PROVE IInv
<1>1. TypeOK
  BY ConstAssumption DEF Init, TypeOK
<1>2. ASSUME NEW s \in Server PROVE GoodChan(ch[s], known[s])
  <2>1. ch[s] \in Start /\ ch[s].mem \subseteq known[s]
    BY DEF Init
  <2> QED BY <2>1, ConstAssumption DEF GoodChan
<1> QED BY <1>1, <1>2 DEF IInv

(* Every step of every server and client preserves the invariant.          *)
LEMMA NextIInv ==
  ASSUME IInv, [Next]_vars PROVE IInv'
<1>1. CASE UNCHANGED vars
  <2>1. TypeOK'
    BY <1>1 DEF IInv, TypeOK, vars
  <2> QED BY <1>1, <2>1 DEF IInv, vars
<1>2. ASSUME NEW s \in Server, NEW t \in Server, Connect(t, s) PROVE IInv'
  BY <1>2, ConnectStep
<1>3. ASSUME NEW s \in Server, NEW t \in Server, Receive(s, t) PROVE IInv'
  BY <1>3, RecvServerStep, RecvNickStep, RecvSjoinStep, RecvModeStep,
     RecvCModeStep, RecvPartStep, RecvKickStep, RecvExitStep DEF Receive
<1>4. ASSUME NEW s \in Server, NEW t \in Server, Split(s, t) PROVE IInv'
  BY <1>4, SplitStep
<1>5. ASSUME NEW u \in Actors, \/ Join(u) \/ Part(u)
                               \/ \E w \in User : Kick(u, w)
      PROVE  IInv'
  BY <1>5, ConstAssumption, JoinStep, PartStep, KickStep
<1>6. ASSUME NEW u \in Actors, Quit(u) PROVE IInv'
  <2>1. u \in User /\ Home[u] \in Server
    BY ConstAssumption
  <2> QED BY <1>6, <2>1, IssueType, LeaveStep DEF Quit
<1>7. ASSUME NEW u \in Actors, NEW w \in User, NEW f \in Prefix, NEW add \in BOOLEAN,
             UserMode(u, w, f, add)
      PROVE  IInv'
  BY <1>7, ConstAssumption, UserModeStep
<1>8. ASSUME NEW u \in Actors, NEW change \in Change, NEW add \in BOOLEAN,
             ChanMode(u, change, add)
      PROVE  IInv'
  BY <1>8, ConstAssumption, ChanModeStep
<1>9. ASSUME NEW s \in Server, NEW u \in Victims, Kill(s, u) PROVE IInv'
  BY <1>9, ConstAssumption, IssueType, LeaveStep DEF Kill
<1> QED BY <1>1, <1>2, <1>3, <1>4, <1>5, <1>6, <1>7, <1>8, <1>9 DEF Next

(* Type correctness: channel copies, queues and link tables keep the shape *)
(* that channel.h and the lines of the protocol give them.                 *)
THEOREM TypeCorrect == Spec => []TypeOK
<1>1. IInv => TypeOK
  BY DEF IInv
<1> QED BY <1>1, InitIInv, NextIInv, PTL DEF Spec

(* No member ever is CHFL_CHANOP and CHFL_DEOPPED at once, whatever        *)
(* m_sjoin, change_chan_flag and set_deopped do in whatever order.         *)
THEOREM OpsAreNotDeopped == Spec => []OpNotDeopped
<1>1. IInv => OpNotDeopped
  BY DEF IInv, GoodChan, WellFormed, OpNotDeopped
<1> QED BY <1>1, InitIInv, NextIInv, PTL DEF Spec

(* Members are known clients, flags belong to members and a channel that   *)
(* is not allocated has none, also after KILL, QUIT and SQUIT.             *)
THEOREM MembersAreKnown == Spec => []MembersKnown
<1>1. IInv => MembersKnown
  BY DEF IInv, GoodChan, WellFormed, MembersKnown
<1> QED BY <1>1, InitIInv, NextIInv, PTL DEF Spec

-----------------------------------------------------------------------------
(***************************************************************************)
(* The links: a server only knows clients it can reach.  The inductive     *)
(* invariant, Reach, says for each direction of each link what may be on   *)
(* its way: lines only while the sender holds the link, a SERVER line      *)
(* first until the receiver holds it too, and NICK lines for clients       *)
(* behind the sender.                                                      *)
(***************************************************************************)
(* The clients of S are behind p, as s sees it.                            *)
BehindLink(s, p, S) == \A u \in S : Via[s][Home[u]] = p

(* The lines w from p to s; up: p holds the link, back: s does.            *)
Fits(p, s, w, up, back) ==
  /\ w # << >> => up
  /\ up => s \in Neighbours(p)
  /\ up /\ ~back => w # << >> /\ w[1].type = "SERVER"
  /\ \A i \in 1 .. Len(w) : w[i].type = "SERVER" => i = 1 /\ ~back
  /\ \A i \in 1 .. Len(w) : w[i].type = "NICK" => BehindLink(s, p, w[i].names)

FitsAll(Q, L) == \A p, s \in Server : Fits(p, s, Q[p][s], s \in L[p], p \in L[s])

Reach == FitsAll(q, links) /\ KnownReachable

(* What may be sent on an established link from p to s.                    *)
Plain(p, s, m) ==
  m.type # "SERVER" /\ (m.type = "NICK" => BehindLink(s, p, m.names))

(* A line is added by one who holds the link.                              *)
LEMMA FitsAppend ==
  ASSUME NEW p, NEW s, NEW back \in BOOLEAN, NEW w \in Seq(Msg), NEW m \in Msg,
         Fits(p, s, w, TRUE, back), Plain(p, s, m)
  PROVE  Fits(p, s, Append(w, m), TRUE, back)
<1> DEFINE x == Append(w, m)
<1>1. /\ Len(w) \in Nat /\ Len(x) = Len(w) + 1 /\ x # << >> /\ x[Len(w) + 1] = m
      /\ \A i \in 1 .. Len(w) : x[i] = w[i]
  OBVIOUS
<1>2. w # << >> => 1 \in 1 .. Len(w)
  OBVIOUS
<1> HIDE DEF x
<1>3. \A i \in 1 .. Len(x) : i \in 1 .. Len(w) \/ i = Len(w) + 1
  BY <1>1
<1>4. ~back => x # << >> /\ x[1].type = "SERVER"
  BY <1>1, <1>2 DEF Fits
<1>5. \A i \in 1 .. Len(x) : x[i].type = "SERVER" => i = 1 /\ ~back
  BY <1>1, <1>3 DEF Fits, Plain
<1>6. \A i \in 1 .. Len(x) : x[i].type = "NICK" => BehindLink(s, p, x[i].names)
  BY <1>1, <1>3 DEF Fits, Plain
<1>7. Fits(p, s, x, TRUE, back)
  BY <1>4, <1>5, <1>6 DEF Fits
<1> QED BY <1>7 DEF x

(* A line is read by one who holds the link, or it is SERVER.              *)
LEMMA FitsTail ==
  ASSUME NEW p, NEW s, NEW up \in BOOLEAN, NEW back \in BOOLEAN, NEW w \in Seq(Msg), w # << >>,
         Fits(p, s, w, up, back)
  PROVE  /\ up /\ s \in Neighbours(p)
         /\ Head(w).type = "SERVER" <=> ~back
         /\ Head(w).type = "NICK" => BehindLink(s, p, Head(w).names)
         /\ Fits(p, s, Tail(w), TRUE, TRUE)
<1> DEFINE x == Tail(w)
<1>1. /\ Len(w) \in Nat /\ Len(w) > 0 /\ Len(x) = Len(w) - 1 /\ Head(w) = w[1]
      /\ \A i \in 1 .. Len(x) : x[i] = w[i + 1]
  OBVIOUS
<1> HIDE DEF x
<1>2. 1 \in 1 .. Len(w) /\ \A i \in 1 .. Len(x) : i + 1 \in 1 .. Len(w) /\ i + 1 # 1
  BY <1>1
<1>3. up /\ s \in Neighbours(p)
  BY DEF Fits
<1>4. Head(w).type = "SERVER" <=> ~back
  BY <1>1, <1>2, <1>3 DEF Fits
<1>5. Head(w).type = "NICK" => BehindLink(s, p, Head(w).names)
  BY <1>1, <1>2 DEF Fits
<1>6. \A i \in 1 .. Len(x) : x[i].type # "SERVER"
  BY <1>1, <1>2 DEF Fits
<1>7. \A i \in 1 .. Len(x) : x[i].type = "NICK" => BehindLink(s, p, x[i].names)
  BY <1>1, <1>2 DEF Fits
<1>8. Fits(p, s, x, TRUE, TRUE)
  BY <1>3, <1>6, <1>7 DEF Fits
<1> QED BY <1>3, <1>4, <1>5, <1>8 DEF x

(* Lines that follow one another.                                          *)
LEMMA FitsBoth ==
  ASSUME NEW p, NEW s, NEW w \in Seq(Msg), NEW v \in Seq(Msg),
         Fits(p, s, w, TRUE, TRUE), Fits(p, s, v, TRUE, TRUE)
  PROVE  Fits(p, s, w \o v, TRUE, TRUE)
<1> DEFINE x == w \o v
<1>1. /\ Len(w) \in Nat /\ Len(v) \in Nat /\ Len(x) = Len(w) + Len(v)
      /\ \A i \in 1 .. Len(w) : x[i] = w[i]
      /\ \A i \in 1 .. Len(x) : i > Len(w) => x[i] = v[i - Len(w)]
  OBVIOUS
<1> HIDE DEF x
<1>2. \A i \in 1 .. Len(x) : i \in 1 .. Len(w) \/ (i > Len(w) /\ i - Len(w) \in 1 .. Len(v))
  BY <1>1
<1>3. \A i \in 1 .. Len(x) : x[i].type # "SERVER"
  BY <1>1, <1>2 DEF Fits
<1>4. \A i \in 1 .. Len(x) : x[i].type = "NICK" => BehindLink(s, p, x[i].names)
  BY <1>1, <1>2 DEF Fits
<1>5. Fits(p, s, x, TRUE, TRUE)
  BY <1>3, <1>4 DEF Fits
<1> QED BY <1>5 DEF x

(* What is behind one end of a link is not behind the other.               *)
LEMMA Sides ==
  ASSUME NEW s \in Server, NEW t \in Neighbours(s), NEW h \in Server
  PROVE  /\ t \in Server /\ s # t /\ s \in Neighbours(t)
         /\ Via[s][h] # t <=> Via[t][h] = s
  BY RouteAssumption DEF Neighbours

(* The channel part of a burst is made of SJOIN lines.                     *)
LEMMA NjoinLinesSjoin ==
  ASSUME NEW c \in Chan
  PROVE  NjoinLines(c) \subseteq Seq(SjoinMsg)
<1>1. Prefixes(c) \in [User -> SUBSET Prefix]
  BY DEF Prefixes, Chan
<1>2. NoMode \in ModeRec
  BY ConstAssumption DEF NoMode, ModeRec, Arg
<1>3. ASSUME NEW l \in User, NEW n \in SUBSET User
      PROVE  /\ Sjoin(c.ts, FALSE, c.mode, l, n, Prefixes(c)) \in SjoinMsg
             /\ Sjoin(c.ts, TRUE, NoMode, l, n, Prefixes(c)) \in SjoinMsg
  BY <1>1, <1>2 DEF Sjoin, SjoinMsg, Chan
<1>4. Leads(c, c.mem) \subseteq User
  BY DEF Leads, Ops, Chan
<1>5. c.mem \subseteq User
  BY DEF Chan
<1>6. ASSUME NEW x \in NjoinLines(c) PROVE x \in Seq(SjoinMsg)
  <2>1. CASE c.mem = {}
    BY <2>1 DEF NjoinLines
  <2>2. CASE c.mem # {}
    <3>1. CASE \E l \in Leads(c, c.mem) :
                 x = <<Sjoin(c.ts, FALSE, c.mode, l, c.mem, Prefixes(c))>>
      <4>1. PICK l \in User : x = <<Sjoin(c.ts, FALSE, c.mode, l, c.mem, Prefixes(c))>>
        BY <3>1, <1>4
      <4>2. Sjoin(c.ts, FALSE, c.mode, l, c.mem, Prefixes(c)) \in SjoinMsg
        BY <1>3, <1>5
      <4> QED BY <4>1, <4>2, ShortSeq
    <3>2. CASE \E p \in c.mem \X c.mem \X SUBSET c.mem :
                 x = << Sjoin(c.ts, FALSE, c.mode, p[1], p[3], Prefixes(c)),
                        Sjoin(c.ts, TRUE, NoMode, p[2], c.mem \ p[3], Prefixes(c)) >>
      <4>1. PICK p \in c.mem \X c.mem \X SUBSET c.mem :
                 x = << Sjoin(c.ts, FALSE, c.mode, p[1], p[3], Prefixes(c)),
                        Sjoin(c.ts, TRUE, NoMode, p[2], c.mem \ p[3], Prefixes(c)) >>
        BY <3>2
      <4>2. p[1] \in User /\ p[2] \in User /\ p[3] \in SUBSET User
        BY <1>5
      <4>3. /\ Sjoin(c.ts, FALSE, c.mode, p[1], p[3], Prefixes(c)) \in SjoinMsg
            /\ Sjoin(c.ts, TRUE, NoMode, p[2], c.mem \ p[3], Prefixes(c)) \in SjoinMsg
        BY <4>2, <1>3, <1>5
      <4> QED BY <4>1, <4>3, ShortSeq
    <3> QED BY <2>2, <3>1, <3>2 DEF NjoinLines
  <2> QED BY <2>1, <2>2
<1> QED BY <1>6

(* A burst names the clients its sender knows, all of them on its side as  *)
(* long as it does not hold the link.                                      *)
LEMMA BurstFits ==
  ASSUME TypeOK, NEW s \in Server, NEW t \in Neighbours(s), KnownReachable, t \notin links[s],
         NEW b \in Bursts(s)
  PROVE  /\ b \in Seq(Msg) /\ b # << >>
         /\ Fits(s, t, b, TRUE, FALSE)
         /\ Fits(s, t, Tail(b), TRUE, TRUE)
<1>1. BehindLink(t, s, known[s])
  <2> SUFFICES ASSUME NEW u \in known[s] PROVE Via[t][Home[u]] = s
    BY DEF BehindLink
  <2>1. u \in User /\ Home[u] \in Server
    BY ConstAssumption DEF TypeOK
  <2>2. Via[s][Home[u]] # t
    <3>1. Via[s][s] = s /\ s # t
      BY ConstAssumption, Sides
    <3>2. Home[u] = s \/ Via[s][Home[u]] \in links[s]
      BY DEF KnownReachable
    <3> QED BY <3>1, <3>2
  <2> QED BY <2>1, <2>2, Sides
<1>2. PICK l \in NjoinLines(ch[s]) :
        b = <<[type |-> "SERVER"], [type |-> "NICK", names |-> known[s]]>> \o l
  BY DEF Bursts
<1>3. l \in Seq(SjoinMsg) /\ ch[s] \in Chan
  BY NjoinLinesSjoin DEF TypeOK
<1>4. b \in Seq(Msg) /\ b # << >>
  BY <1>2, BurstsType
<1>5. /\ Len(l) \in Nat /\ Len(b) = 2 + Len(l)
      /\ b[1] = [type |-> "SERVER"] /\ b[2] = [type |-> "NICK", names |-> known[s]]
      /\ \A i \in 1 .. Len(l) : b[i + 2] = l[i]
  BY <1>2, <1>3
<1>6. \A i \in 1 .. Len(l) : l[i].type = "SJOIN"
  <2>1. \A x \in SjoinMsg : x.type = "SJOIN"
    BY DEF SjoinMsg
  <2>2. \A i \in 1 .. Len(l) : l[i] \in SjoinMsg
    BY <1>3
  <2> QED BY <2>1, <2>2
<1>7. \A i \in 1 .. Len(b) : i = 1 \/ i = 2 \/ (i - 2 \in 1 .. Len(l) /\ b[i] = l[i - 2])
  <2> SUFFICES ASSUME NEW i \in 1 .. Len(b), i # 1, i # 2
               PROVE  i - 2 \in 1 .. Len(l) /\ b[i] = l[i - 2]
    OBVIOUS
  <2>1. i - 2 \in 1 .. Len(l) /\ (i - 2) + 2 = i
    BY <1>5
  <2> QED BY <1>5, <2>1
<1>8. Fits(s, t, b, TRUE, FALSE)
  <2>1. \A i \in 1 .. Len(b) : b[i].type = "SERVER" => i = 1
    BY <1>5, <1>6, <1>7
  <2>2. ASSUME NEW i \in 1 .. Len(b), b[i].type = "NICK"
        PROVE  BehindLink(t, s, b[i].names)
    <3>1. i = 2
      BY <1>5, <1>6, <1>7, <2>2
    <3> QED BY <1>1, <1>5, <3>1
  <2> QED BY <1>4, <1>5, <2>1, <2>2 DEF Fits
<1>9. Fits(s, t, Tail(b), TRUE, TRUE)
  BY <1>4, <1>8, FitsTail
<1> QED BY <1>4, <1>8, <1>9
-----------------------------------------------------------------------------
(* The queues after a line has been relayed, read, or both.                *)
LEMMA RelayFits ==
  ASSUME TypeOK, FitsAll(q, links), NEW s \in Server, NEW x \in Server, NEW m \in Msg,
         \A t \in links[s] \ {x} : Plain(s, t, m)
  PROVE  FitsAll(Relay(s, x, m), links)
<1> DEFINE Q == Relay(s, x, m)
<1>1. SUFFICES ASSUME NEW a \in Server, NEW b \in Server
               PROVE  Fits(a, b, Q[a][b], b \in links[a], a \in links[b])
  BY DEF FitsAll
<1>2. q[a][b] \in Seq(Msg) /\ Fits(a, b, q[a][b], b \in links[a], a \in links[b])
  BY DEF TypeOK, FitsAll
<1>3. Q[a][b] = IF a = s /\ b \in links[s] \ {x} THEN Append(q[a][b], m) ELSE q[a][b]
  BY DEF Relay, TypeOK
<1> HIDE DEF Q
<1>4. CASE a = s /\ b \in links[s] \ {x}
  <2>1. (b \in links[a]) = TRUE /\ (a \in links[b]) \in BOOLEAN /\ Plain(a, b, m)
    BY <1>4
  <2>2. Fits(a, b, q[a][b], TRUE, a \in links[b])
    BY <1>2, <2>1
  <2>3. Fits(a, b, Append(q[a][b], m), TRUE, a \in links[b])
    BY <1>2, <2>1, <2>2, FitsAppend
  <2> QED BY <1>3, <1>4, <2>1, <2>3
<1>5. CASE ~(a = s /\ b \in links[s] \ {x})
  BY <1>2, <1>3, <1>5
<1> QED BY <1>4, <1>5

(* What a line that is read says of its sender.                            *)
LEMMA HeadFits ==
  ASSUME TypeOK, FitsAll(q, links), NEW s \in Server, NEW p \in Server, q[p][s] # << >>
  PROVE  /\ s \in links[p] /\ s \in Neighbours(p)
         /\ Head(q[p][s]).type = "SERVER" <=> p \notin links[s]
         /\ Head(q[p][s]).type = "NICK" => BehindLink(s, p, Head(q[p][s]).names)
         /\ Fits(p, s, Tail(q[p][s]), TRUE, TRUE)
<1>1. q[p][s] \in Seq(Msg) /\ Fits(p, s, q[p][s], s \in links[p], p \in links[s])
  BY DEF TypeOK, FitsAll
<1>2. (s \in links[p]) = TRUE
  BY <1>1 DEF Fits
<1>3. CASE p \in links[s]
  <2>1. Fits(p, s, q[p][s], TRUE, TRUE) /\ TRUE \in BOOLEAN
    BY <1>1, <1>2, <1>3
  <2> QED BY <1>1, <1>2, <1>3, <2>1, FitsTail
<1>4. CASE p \notin links[s]
  <2>1. (p \in links[s]) = FALSE
    BY <1>4
  <2>2. Fits(p, s, q[p][s], TRUE, FALSE) /\ FALSE \in BOOLEAN /\ TRUE \in BOOLEAN
    BY <1>1, <1>2, <2>1
  <2> QED BY <1>1, <1>2, <1>4, <2>2, FitsTail
<1> QED BY <1>3, <1>4

LEMMA ConsumeFits ==
  ASSUME TypeOK, FitsAll(q, links), NEW s \in Server, NEW p \in Server,
         q[p][s] # << >>, Head(q[p][s]).type # "SERVER"
  PROVE  /\ FitsAll(Consume(s, p), links)
         /\ \A u \in User : FitsAll(ConsumeUnknown(s, p, u), links)
         /\ \A m \in Msg : (\A t \in links[s] \ {p} : Plain(s, t, m)) =>
                            FitsAll(ConsumeRelay(s, p, m), links)
<1>1. /\ s \in links[p] /\ p \in links[s] /\ s # p
      /\ Fits(p, s, Tail(q[p][s]), TRUE, TRUE)
  <2>1. /\ s \in links[p] /\ p \in links[s] /\ s \in Neighbours(p)
        /\ Fits(p, s, Tail(q[p][s]), TRUE, TRUE)
    BY HeadFits
  <2> QED BY <2>1 DEF Neighbours
<1>2. \A a, b \in Server : q[a][b] \in Seq(Msg)
                           /\ Fits(a, b, q[a][b], b \in links[a], a \in links[b])
  BY DEF TypeOK, FitsAll
<1>3. FitsAll(Consume(s, p), links)
  <2> SUFFICES ASSUME NEW a \in Server, NEW b \in Server
               PROVE  Fits(a, b, Consume(s, p)[a][b], b \in links[a], a \in links[b])
    BY DEF FitsAll
  <2>1. Consume(s, p)[a][b] = IF a = p /\ b = s THEN Tail(q[p][s]) ELSE q[a][b]
    BY DEF Consume, TypeOK
  <2>2. CASE a = p /\ b = s
    <3>1. (b \in links[a]) = TRUE /\ (a \in links[b]) = TRUE
      BY <1>1, <2>2
    <3> QED BY <1>1, <2>1, <2>2, <3>1
  <2>3. CASE ~(a = p /\ b = s)
    BY <1>2, <2>1, <2>3
  <2> QED BY <2>2, <2>3
<1>4. ASSUME NEW u \in User PROVE FitsAll(ConsumeUnknown(s, p, u), links)
  <2> DEFINE e == [type |-> "EXIT", gone |-> {u}]
  <2>0. e \in Msg /\ Plain(s, p, e)
    BY DEF Msg, ExitMsg, Plain
  <2> HIDE DEF e
  <2> SUFFICES ASSUME NEW a \in Server, NEW b \in Server
               PROVE  Fits(a, b, ConsumeUnknown(s, p, u)[a][b], b \in links[a], a \in links[b])
    BY DEF FitsAll
  <2>1. ConsumeUnknown(s, p, u)[a][b] =
          IF a = s /\ b = p THEN Append(q[s][p], e) ELSE Consume(s, p)[a][b]
    BY <1>1 DEF ConsumeUnknown, Consume, TypeOK, e
  <2>2. CASE a = s /\ b = p
    <3>1. (b \in links[a]) = TRUE /\ (a \in links[b]) = TRUE
      BY <1>1, <2>2
    <3>2. Fits(s, p, q[s][p], TRUE, TRUE)
      BY <1>2, <2>2, <3>1
    <3>3. Fits(s, p, Append(q[s][p], e), TRUE, TRUE)
      BY <1>2, <2>0, <3>2, FitsAppend
    <3> QED BY <2>1, <2>2, <3>1, <3>3
  <2>3. CASE ~(a = s /\ b = p)
    BY <1>3, <2>1, <2>3 DEF FitsAll
  <2> QED BY <2>2, <2>3
<1>5. ASSUME NEW m \in Msg, \A t \in links[s] \ {p} : Plain(s, t, m)
      PROVE  FitsAll(ConsumeRelay(s, p, m), links)
  <2> SUFFICES ASSUME NEW a \in Server, NEW b \in Server
               PROVE  Fits(a, b, ConsumeRelay(s, p, m)[a][b], b \in links[a], a \in links[b])
    BY DEF FitsAll
  <2>1. ConsumeRelay(s, p, m)[a][b] =
          IF a = s THEN Relay(s, p, m)[a][b] ELSE Consume(s, p)[a][b]
    BY <1>1 DEF ConsumeRelay, Relay, Consume, TypeOK
  <2>2. FitsAll(Relay(s, p, m), links)
    BY <1>5, RelayFits
  <2> QED BY <1>3, <2>1, <2>2 DEF FitsAll
<1> QED BY <1>3, <1>4, <1>5

-----------------------------------------------------------------------------
(* A step that learns nobody and opens or closes no link.                  *)
LEMMA SameLinks ==
  ASSUME Reach, UNCHANGED links, FitsAll(q', links),
         \A s \in Server : known'[s] \subseteq known[s]
  PROVE  Reach'
BY DEF Reach, KnownReachable, FitsAll

LEMMA ConnectReach ==
  ASSUME TypeOK, Reach, NEW s \in Server, NEW t \in Server, Connect(t, s) PROVE Reach'
<1>1. PICK x \in Bursts(t) : q' = [q EXCEPT ![t][s] = x]
  BY DEF Connect
<1>2. /\ s \in Neighbours(t) /\ s \notin links[t] /\ t \notin links[s]
      /\ q[s][t] = << >> /\ q[t][s] = << >>
      /\ links' = [links EXCEPT ![t] = @ \cup {s}] /\ known' = known
  BY DEF Connect
<1>3. Fits(t, s, x, TRUE, FALSE) /\ s # t /\ t \in Neighbours(s)
  BY <1>1, <1>2, BurstFits, Sides DEF Reach
<1>4. \A a, b \in Server : b \in links'[a] <=> b \in links[a] \/ (a = t /\ b = s)
  BY <1>2 DEF TypeOK
<1>5. \A a, b \in Server : q'[a][b] = IF a = t /\ b = s THEN x ELSE q[a][b]
  BY <1>1 DEF TypeOK
<1>6. ASSUME NEW a \in Server, NEW b \in Server
      PROVE  Fits(a, b, q'[a][b], b \in links'[a], a \in links'[b])
  <2>0. Fits(a, b, q[a][b], b \in links[a], a \in links[b])
    BY DEF Reach, FitsAll
  <2>1. CASE a = t /\ b = s
    <3>1. (b \in links'[a]) = TRUE /\ (a \in links'[b]) = FALSE
      BY <1>2, <1>3, <1>4, <2>1
    <3> QED BY <1>3, <1>5, <2>1, <3>1
  <2>2. CASE a = s /\ b = t
    <3>1. (b \in links'[a]) = FALSE /\ (a \in links'[b]) = TRUE /\ q'[a][b] = << >>
      BY <1>2, <1>3, <1>4, <1>5, <2>2
    <3>2. Fits(a, b, << >>, FALSE, TRUE)
      BY DEF Fits
    <3> QED BY <3>1, <3>2
  <2>3. CASE ~(a = t /\ b = s) /\ ~(a = s /\ b = t)
    <3>1. /\ (b \in links'[a]) = (b \in links[a]) /\ (a \in links'[b]) = (a \in links[b])
          /\ q'[a][b] = q[a][b]
      BY <1>4, <1>5, <2>3
    <3> QED BY <2>0, <3>1
  <2> QED BY <2>1, <2>2, <2>3
<1>7. KnownReachable'
  BY <1>2, <1>4, ConstAssumption DEF Reach, KnownReachable, TypeOK
<1> QED BY <1>6, <1>7 DEF Reach, FitsAll
(* The SERVER line comes from a server that is not linked yet, and our own *)
(* burst, but for its own SERVER line, follows.                            *)
LEMMA RecvServerReach ==
  ASSUME TypeOK, Reach, NEW s \in Server, NEW p \in Server, RecvServer(s, p) PROVE Reach'
<1>1. PICK x \in Bursts(s) : q' = [Consume(s, p) EXCEPT ![s][p] = @ \o Tail(x)]
  BY DEF RecvServer
<1>2. /\ q[p][s] # << >> /\ Head(q[p][s]).type = "SERVER"
      /\ links' = [links EXCEPT ![s] = @ \cup {p}] /\ known' = known
  BY DEF RecvServer, NextLine
<1>3. /\ s \in links[p] /\ p \notin links[s] /\ s \in Neighbours(p)
      /\ Fits(p, s, Tail(q[p][s]), TRUE, TRUE)
  BY <1>2, HeadFits DEF Reach
<1>4. p # s /\ p \in Neighbours(s)
  BY <1>3, Sides
<1>5. Tail(x) \in Seq(Msg) /\ Fits(s, p, Tail(x), TRUE, TRUE)
  BY <1>1, <1>3, <1>4, BurstFits, BurstsType DEF Reach
<1>6. q[s][p] = << >>
  BY <1>3 DEF Reach, FitsAll, Fits
<1>7. \A a, b \in Server : b \in links'[a] <=> b \in links[a] \/ (a = s /\ b = p)
  BY <1>2 DEF TypeOK
<1>8. \A a, b \in Server : q'[a][b] =
        IF a = s /\ b = p THEN Tail(x) ELSE IF a = p /\ b = s THEN Tail(q[p][s]) ELSE q[a][b]
  <2>1. << >> \o Tail(x) = Tail(x)
    BY <1>5
  <2> QED BY <1>1, <1>4, <1>6, <2>1 DEF Consume, TypeOK
<1>9. ASSUME NEW a \in Server, NEW b \in Server
      PROVE  Fits(a, b, q'[a][b], b \in links'[a], a \in links'[b])
  <2>0. Fits(a, b, q[a][b], b \in links[a], a \in links[b])
    BY DEF Reach, FitsAll
  <2>1. CASE a = s /\ b = p
    <3>1. (b \in links'[a]) = TRUE /\ (a \in links'[b]) = TRUE
      BY <1>3, <1>7, <2>1
    <3> QED BY <1>5, <1>8, <2>1, <3>1
  <2>2. CASE a = p /\ b = s
    <3>1. /\ (b \in links'[a]) = TRUE /\ (a \in links'[b]) = TRUE
          /\ q'[a][b] = Tail(q[p][s])
      BY <1>3, <1>4, <1>7, <1>8, <2>2
    <3> QED BY <1>3, <2>2, <3>1
  <2>3. CASE ~(a = s /\ b = p) /\ ~(a = p /\ b = s)
    <3>1. /\ (b \in links'[a]) = (b \in links[a]) /\ (a \in links'[b]) = (a \in links[b])
          /\ q'[a][b] = q[a][b]
      BY <1>7, <1>8, <2>3
    <3> QED BY <2>0, <3>1
  <2> QED BY <2>1, <2>2, <2>3
<1>10. KnownReachable'
  BY <1>2, <1>7, ConstAssumption DEF Reach, KnownReachable, TypeOK
<1> QED BY <1>9, <1>10 DEF Reach, FitsAll

(* The clients a NICK line names are behind the link it came by, and the   *)
(* servers it is relayed to have them behind this one.                     *)
LEMMA RecvNickReach ==
  ASSUME TypeOK, Reach, NEW s \in Server, NEW p \in Server, RecvNick(s, p) PROVE Reach'
<1> DEFINE m == Head(q[p][s])
<1>1. /\ q[p][s] # << >> /\ m.type = "NICK" /\ links' = links
      /\ known' = [known EXCEPT ![s] = @ \cup m.names] /\ q' = ConsumeRelay(s, p, m)
  BY DEF RecvNick, NextLine
<1>2. m \in Msg /\ m.names \subseteq User
  BY <1>1, NextLineType DEF NickMsg
<1>3. BehindLink(s, p, m.names) /\ p \in links[s]
  BY <1>1, HeadFits DEF Reach
<1> HIDE DEF m
<1>4. ASSUME NEW t \in links[s] \ {p} PROVE Plain(s, t, m)
  <2>1. t \in Server /\ t \in Neighbours(s)
    BY DEF Reach, FitsAll, Fits, TypeOK
  <2>2. ASSUME NEW u \in m.names PROVE Via[t][Home[u]] = s
    <3>1. Home[u] \in Server /\ Via[s][Home[u]] # t
      BY <1>2, <1>3, ConstAssumption DEF BehindLink
    <3> QED BY <2>1, <3>1, Sides
  <2> QED BY <1>1, <2>2 DEF Plain, BehindLink
<1>5. FitsAll(q', links')
  BY <1>1, <1>2, <1>4, ConsumeFits DEF Reach, m
<1>6. KnownReachable'
  BY <1>1, <1>3 DEF Reach, KnownReachable, BehindLink, TypeOK
<1> QED BY <1>5, <1>6 DEF Reach

(* The other lines are relayed to servers that are linked already.         *)
LEMMA PlainTypes ==
  ASSUME NEW s, NEW t, NEW m, m.type \notin {"SERVER", "NICK"} PROVE Plain(s, t, m)
BY DEF Plain

LEMMA RecvReach ==
  ASSUME TypeOK, Reach, NEW s \in Server, NEW p \in Server,
         q[p][s] # << >>, Head(q[p][s]).type # "SERVER",
         UNCHANGED links, \A x \in Server : known'[x] \subseteq known[x],
         \/ q' = Consume(s, p)
         \/ \E u \in User : q' = ConsumeUnknown(s, p, u)
         \/ \E m \in Msg : m.type \notin {"SERVER", "NICK"} /\ q' = ConsumeRelay(s, p, m)
  PROVE  Reach'
<1>1. FitsAll(q', links)
  BY ConsumeFits, PlainTypes DEF Reach
<1> QED BY <1>1, SameLinks

LEMMA RecvSjoinReach ==
  ASSUME TypeOK, Reach, NEW s \in Server, NEW p \in Server, RecvSjoin(s, p) PROVE Reach'
<1> DEFINE m == Head(q[p][s])
           kept == {u \in m.names : u \in known[s] /\ Via[s][Home[u]] = p}
<1>1. q[p][s] # << >> /\ m.type = "SJOIN" /\ links' = links /\ known' = known
  BY DEF RecvSjoin, NextLine
<1>2. m \in SjoinMsg /\ ch[s] \in Chan
  <2>1. ch[s] \in Chan
    BY DEF TypeOK
  <2> QED BY <1>1, <2>1, NextLineType
<1>3. kept \in SUBSET User
  BY DEF TypeOK
<1>4. \/ q' = Consume(s, p)
      \/ \E lead \in kept : q' = ConsumeRelay(s, p, SjoinRelay(ch[s], m, kept, lead))
  BY DEF RecvSjoin
<1> HIDE DEF m, kept
<1>5. ASSUME NEW lead \in kept
      PROVE  /\ SjoinRelay(ch[s], m, kept, lead) \in Msg
             /\ SjoinRelay(ch[s], m, kept, lead).type \notin {"SERVER", "NICK"}
  <2>1. SjoinRelay(ch[s], m, kept, lead) \in SjoinMsg
    BY <1>2, <1>3, SjoinRelayType
  <2> QED BY <2>1 DEF Msg, SjoinMsg
<1> QED BY <1>1, <1>4, <1>5, RecvReach DEF m

LEMMA RecvLineReach ==
  ASSUME TypeOK, Reach, NEW s \in Server, NEW p \in Server,
         RecvMode(s, p) \/ RecvCMode(s, p) \/ RecvPart(s, p) \/ RecvKick(s, p)
  PROVE  Reach'
<1> DEFINE m == Head(q[p][s])
<1>1. /\ q[p][s] # << >> /\ m.type \in {"MODE", "CMODE", "PART", "KICK"}
      /\ links' = links /\ known' = known
  BY DEF RecvMode, RecvCMode, RecvPart, RecvKick, NextLine
<1>2. m \in Msg /\ m.src \in User
  BY <1>1, NextLineType DEF ModeMsg, CModeMsg, PartMsg, KickMsg
<1>3. q' \in {Consume(s, p), ConsumeUnknown(s, p, m.src), ConsumeRelay(s, p, m)}
  BY DEF RecvMode, RecvCMode, RecvPart, RecvKick
<1> HIDE DEF m
<1> QED BY <1>1, <1>2, <1>3, RecvReach DEF m

LEMMA RecvExitReach ==
  ASSUME TypeOK, Reach, NEW s \in Server, NEW p \in Server, RecvExit(s, p) PROVE Reach'
<1> DEFINE gone == Head(q[p][s]).gone \cap known[s]
           m == [type |-> "EXIT", gone |-> gone]
<1>1. /\ q[p][s] # << >> /\ Head(q[p][s]).type = "EXIT"
      /\ known' = [known EXCEPT ![s] = @ \ gone] /\ links' = links
      /\ q' = Consume(s, p) \/ q' = ConsumeRelay(s, p, m)
  BY DEF RecvExit, NextLine
<1>2. gone \in SUBSET User
  BY DEF TypeOK
<1> HIDE DEF gone
<1>3. m \in Msg /\ m.type = "EXIT"
  BY <1>2 DEF Msg, ExitMsg
<1>4. \A x \in Server : known'[x] \subseteq known[x]
  BY <1>1 DEF TypeOK
<1> HIDE DEF m
<1> QED BY <1>1, <1>3, <1>4, RecvReach

-----------------------------------------------------------------------------
(* Commands are told to the servers that are linked.                       *)
LEMMA CommandReach ==
  ASSUME TypeOK, Reach, NEW s \in Server, NEW m \in Msg, m.type \notin {"SERVER", "NICK"},
         UNCHANGED links, \A x \in Server : known'[x] \subseteq known[x],
         q' = Relay(s, s, m)
  PROVE  Reach'
<1>1. FitsAll(q', links)
  BY RelayFits, PlainTypes DEF Reach
<1> QED BY <1>1, SameLinks

LEMMA JoinReach ==
  ASSUME TypeOK, Reach, NEW u \in User, Join(u) PROVE Reach'
<1> DEFINE s == Home[u]
           mode == [NoMode EXCEPT !.flags = NewModes]
           fl == [NoFlags EXCEPT ![u] = {"o"}]
<1>1. s \in Server /\ links' = links /\ known' = known /\ ch[s] \in Chan
  BY ConstAssumption DEF Join, TypeOK
<1>2. /\ NoMode \in ModeRec /\ mode \in ModeRec
      /\ NoFlags \in [User -> SUBSET Prefix] /\ fl \in [User -> SUBSET Prefix]
  <2>1. NoMode \in ModeRec
    BY ConstAssumption DEF NoMode, ModeRec, Arg
  <2>2. NoFlags \in [User -> SUBSET Prefix] /\ "o" \in Prefix
    BY DEF NoFlags, Prefix
  <2>3. mode \in ModeRec
    BY <2>1, ConstAssumption DEF ModeRec
  <2>4. fl \in [User -> SUBSET Prefix]
    BY <2>2
  <2> QED BY <2>1, <2>2, <2>3, <2>4
<1>3. \/ q' = Relay(s, s, Sjoin(ch[s].ts, FALSE, NoMode, u, {u}, NoFlags))
      \/ \E now \in TSVal : q' = Relay(s, s, Sjoin(now, FALSE, mode, u, {u}, fl))
  BY DEF Join
<1> HIDE DEF mode, fl, s
<1>4. \A ts \in TSVal :
         /\ Sjoin(ts, FALSE, NoMode, u, {u}, NoFlags) \in SjoinMsg
         /\ Sjoin(ts, FALSE, mode, u, {u}, fl) \in SjoinMsg
  BY <1>2 DEF Sjoin, SjoinMsg
<1>5. ch[s].ts \in TSVal
  BY <1>1 DEF Chan
<1>6. \A x \in SjoinMsg : x \in Msg /\ x.type \notin {"SERVER", "NICK"}
  BY DEF SjoinMsg, Msg
<1>7. PICK x \in SjoinMsg : q' = Relay(s, s, x)
  BY <1>3, <1>4, <1>5
<1> QED BY <1>1, <1>6, <1>7, CommandReach

LEMMA PartReach ==
  ASSUME TypeOK, Reach, NEW u \in User, Part(u) PROVE Reach'
<1> DEFINE m == [type |-> "PART", src |-> u]
<1>1. m \in Msg /\ m.type = "PART" /\ Home[u] \in Server
  BY ConstAssumption DEF Msg, PartMsg
<1>2. links' = links /\ known' = known /\ q' = Relay(Home[u], Home[u], m)
  BY DEF Part
<1> HIDE DEF m
<1> QED BY <1>1, <1>2, CommandReach

LEMMA KickReach ==
  ASSUME TypeOK, Reach, NEW u \in User, NEW w \in User, Kick(u, w) PROVE Reach'
<1> DEFINE m == [type |-> "KICK", src |-> u, who |-> w]
<1>1. m \in Msg /\ m.type = "KICK" /\ Home[u] \in Server
  BY ConstAssumption DEF Msg, KickMsg
<1>2. links' = links /\ known' = known /\ q' = Relay(Home[u], Home[u], m)
  BY DEF Kick
<1> HIDE DEF m
<1> QED BY <1>1, <1>2, CommandReach

LEMMA UserModeReach ==
  ASSUME TypeOK, Reach, NEW u \in User, NEW w \in User, NEW f \in Prefix, NEW add \in BOOLEAN,
         UserMode(u, w, f, add)
  PROVE  Reach'
<1> DEFINE m == [type |-> "MODE", src |-> u, who |-> w, flag |-> f, add |-> add]
<1>1. m \in Msg /\ m.type = "MODE" /\ Home[u] \in Server
  BY ConstAssumption DEF Msg, ModeMsg
<1>2. links' = links /\ known' = known /\ q' = Relay(Home[u], Home[u], m)
  BY DEF UserMode
<1> HIDE DEF m
<1> QED BY <1>1, <1>2, CommandReach

LEMMA ChanModeReach ==
  ASSUME TypeOK, Reach, NEW u \in User, NEW change \in Change, NEW add \in BOOLEAN,
         ChanMode(u, change, add)
  PROVE  Reach'
<1> DEFINE m == [type |-> "CMODE", src |-> u, change |-> change, add |-> add]
<1>1. change \in ModeRec
  BY ConstAssumption DEF Change, ModeRec, Arg
<1>2. m \in Msg /\ m.type = "CMODE" /\ Home[u] \in Server
  BY <1>1, ConstAssumption DEF Msg, CModeMsg
<1>3. links' = links /\ known' = known /\ q' = Relay(Home[u], Home[u], m)
  BY DEF ChanMode
<1> HIDE DEF m
<1> QED BY <1>2, <1>3, CommandReach

LEMMA LeaveReach ==
  ASSUME TypeOK, Reach, NEW s \in Server, NEW u \in User, Leave(s, u) PROVE Reach'
<1>1. [type |-> "EXIT", gone |-> {u}] \in Msg
  BY DEF Msg, ExitMsg
<1>2. \A x \in Server : known'[x] \subseteq known[x]
  BY DEF Leave, TypeOK
<1> QED BY <1>1, <1>2, CommandReach DEF Leave

(* The two ends of a broken link forget whoever they reached through it.   *)
LEMMA SplitReach ==
  ASSUME TypeOK, Reach, NEW s \in Server, NEW t \in Server, Split(s, t) PROVE Reach'
<1> DEFINE lost == [x \in {s, t} |-> IF x = s THEN Behind(s, t) \cap known[s]
                                             ELSE Behind(t, s) \cap known[t]]
<1>1. /\ s # t /\ t \in links[s]
      /\ links' = [links EXCEPT ![s] = @ \ {t}, ![t] = @ \ {s}]
      /\ known' = [x \in Server |-> IF x \in {s, t} THEN known[x] \ lost[x] ELSE known[x]]
      /\ q' = [x \in Server |-> [y \in Server |->
                 CASE x \in {s, t} /\ y \in {s, t} -> << >>
                   [] x \in {s, t} /\ y \notin {s, t} ->
                        IF y \in links[x] /\ lost[x] # {}
                        THEN Append(q[x][y], [type |-> "EXIT", gone |-> lost[x]])
                        ELSE q[x][y]
                   [] OTHER -> q[x][y]]]
  BY DEF Split
<1>2. \A x \in {s, t} : lost[x] \subseteq User
  BY DEF TypeOK
<1>3. \A a, b \in Server : b \in links'[a] <=> b \in links[a] /\ {a, b} # {s, t}
  BY <1>1 DEF TypeOK
<1>4. KnownReachable'
  <2> SUFFICES ASSUME NEW a \in Server, NEW u \in known'[a]
               PROVE  Home[u] = a \/ Via[a][Home[u]] \in links'[a]
    BY DEF KnownReachable
  <2>0. known'[a] = IF a \in {s, t} THEN known[a] \ lost[a] ELSE known[a]
    BY <1>1
  <2>1. u \in known[a] /\ u \in User /\ Via[a][Home[u]] \in Server
    <3>1. u \in known[a]
      BY <2>0
    <3>2. u \in User
      BY <3>1 DEF TypeOK
    <3> QED BY <3>1, <3>2, ConstAssumption
  <2>2. Home[u] = a \/ Via[a][Home[u]] \in links[a]
    BY <2>1 DEF Reach, KnownReachable
  <2>3. CASE a = s
    <3>1. u \notin Behind(s, t)
      BY <1>1, <2>0, <2>1, <2>3
    <3>2. Home[u] = s \/ Via[s][Home[u]] # t
      BY <2>1, <3>1 DEF Behind
    <3>3. ASSUME Home[u] # s PROVE Via[s][Home[u]] \in links'[s]
      <4>1. Via[s][Home[u]] \in links[s] /\ {s, Via[s][Home[u]]} # {s, t}
        BY <2>2, <2>3, <3>2, <3>3
      <4> QED BY <1>3, <2>1, <2>3, <4>1
    <3> QED BY <2>3, <3>3
  <2>4. CASE a = t
    <3>1. u \notin Behind(t, s)
      BY <1>1, <2>0, <2>1, <2>4
    <3>2. Home[u] = t \/ Via[t][Home[u]] # s
      BY <2>1, <3>1 DEF Behind
    <3>3. ASSUME Home[u] # t PROVE Via[t][Home[u]] \in links'[t]
      <4>1. Via[t][Home[u]] \in links[t] /\ {t, Via[t][Home[u]]} # {s, t}
        BY <2>2, <2>4, <3>2, <3>3
      <4> QED BY <1>3, <2>1, <2>4, <4>1
    <3> QED BY <2>4, <3>3
  <2>5. CASE a \notin {s, t}
    BY <1>3, <2>1, <2>2, <2>5
  <2> QED BY <2>3, <2>4, <2>5
<1> HIDE DEF lost
<1>5. ASSUME NEW a \in Server, NEW b \in Server
      PROVE  Fits(a, b, q'[a][b], b \in links'[a], a \in links'[b])
  <2>0. q[a][b] \in Seq(Msg) /\ Fits(a, b, q[a][b], b \in links[a], a \in links[b])
    BY DEF Reach, FitsAll, TypeOK
  <2>1. CASE a \in {s, t} /\ b \in {s, t}
    <3>1. b \notin links'[a]
      <4>1. CASE a = b
        <5>1. a \notin links[a]
          BY <2>0, <4>1 DEF Fits, Neighbours
        <5> QED BY <1>3, <4>1, <5>1
      <4>2. CASE a # b
        BY <1>3, <2>1, <4>2
      <4> QED BY <4>1, <4>2
    <3>2. (b \in links'[a]) = FALSE /\ q'[a][b] = << >>
      BY <1>1, <2>1, <3>1
    <3>3. Fits(a, b, << >>, FALSE, a \in links'[b])
      BY DEF Fits
    <3> QED BY <3>2, <3>3
  <2>2. CASE ~(a \in {s, t} /\ b \in {s, t})
    <3>1. (b \in links'[a]) = (b \in links[a]) /\ (a \in links'[b]) = (a \in links[b])
      BY <1>3, <2>2
    <3>2. CASE a \in {s, t} /\ b \in links[a] /\ lost[a] # {}
      <4> DEFINE m == [type |-> "EXIT", gone |-> lost[a]]
      <4>1. q'[a][b] = Append(q[a][b], m)
        BY <1>1, <2>2, <3>2
      <4>2. m \in Msg /\ m.type = "EXIT"
        BY <1>2, <3>2 DEF Msg, ExitMsg
      <4>3. Plain(a, b, m)
        BY <4>2 DEF Plain
      <4> HIDE DEF m
      <4>4. (b \in links[a]) = TRUE /\ (a \in links[b]) \in BOOLEAN
        BY <3>2
      <4>5. Fits(a, b, q[a][b], TRUE, a \in links[b])
        BY <2>0, <4>4
      <4>6. Fits(a, b, Append(q[a][b], m), TRUE, a \in links[b])
        BY <2>0, <4>2, <4>3, <4>4, <4>5, FitsAppend
      <4> QED BY <3>1, <4>1, <4>4, <4>6
    <3>3. CASE ~(a \in {s, t} /\ b \in links[a] /\ lost[a] # {})
      <4>1. q'[a][b] = q[a][b]
        BY <1>1, <2>2, <3>3
      <4> QED BY <2>0, <3>1, <4>1
    <3> QED BY <3>2, <3>3
  <2> QED BY <2>1, <2>2
<1> QED BY <1>4, <1>5 DEF Reach, FitsAll

-----------------------------------------------------------------------------
LEMMA InitReach ==
  ASSUME Init PROVE Reach
<1>1. \A p, s \in Server : q[p][s] = << >> /\ (s \in links[p]) = FALSE
  BY DEF Init
<1>2. \A p, s \in Server, back \in BOOLEAN : Fits(p, s, << >>, FALSE, back)
  BY DEF Fits
<1>3. FitsAll(q, links)
  BY <1>1, <1>2 DEF FitsAll
<1>4. KnownReachable
  BY DEF Init, KnownReachable
<1> QED BY <1>3, <1>4 DEF Reach

LEMMA NextReach ==
  ASSUME IInv, Reach, [Next]_vars PROVE Reach'
<1>0. TypeOK
  BY DEF IInv
<1>1. CASE UNCHANGED vars
  BY <1>1 DEF vars, Reach, FitsAll, KnownReachable
<1>2. ASSUME NEW s \in Server, NEW t \in Server, Connect(t, s) PROVE Reach'
  BY <1>0, <1>2, ConnectReach
<1>3. ASSUME NEW s \in Server, NEW t \in Server, Receive(s, t) PROVE Reach'
  BY <1>0, <1>3, RecvServerReach, RecvNickReach, RecvSjoinReach, RecvLineReach, RecvExitReach
     DEF Receive
<1>4. ASSUME NEW s \in Server, NEW t \in Server, Split(s, t) PROVE Reach'
  BY <1>0, <1>4, SplitReach
<1>5. ASSUME NEW u \in Actors, Join(u) PROVE Reach'
  BY <1>0, <1>5, ConstAssumption, JoinReach
<1>6. ASSUME NEW u \in Actors, Quit(u) PROVE Reach'
  <2>1. u \in User /\ Home[u] \in Server
    BY ConstAssumption
  <2> QED BY <1>0, <1>6, <2>1, LeaveReach DEF Quit
<1>7. ASSUME NEW s \in Server, NEW u \in Victims, Kill(s, u) PROVE Reach'
  BY <1>0, <1>7, ConstAssumption, LeaveReach DEF Kill
<1>8. ASSUME NEW u \in Actors, NEW w \in User, NEW f \in Prefix, NEW add \in BOOLEAN,
             UserMode(u, w, f, add)
      PROVE  Reach'
  BY <1>0, <1>8, ConstAssumption, UserModeReach
<1>9. ASSUME NEW u \in Actors, NEW change \in Change, NEW add \in BOOLEAN,
             ChanMode(u, change, add)
      PROVE  Reach'
  BY <1>0, <1>9, ConstAssumption, ChanModeReach
<1>10. ASSUME NEW u \in Actors, Part(u) \/ \E w \in User : Kick(u, w) PROVE Reach'
  BY <1>0, <1>10, ConstAssumption, PartReach, KickReach
<1> QED BY <1>1, <1>2, <1>3, <1>4, <1>5, <1>6, <1>7, <1>8, <1>9, <1>10 DEF Next

(* A server only knows clients it can reach by the links it has, whatever  *)
(* SERVER, NICK, QUIT and SQUIT lines are still on their way.              *)
THEOREM KnownAreReachable == Spec => []KnownReachable
<1>1. Reach => KnownReachable
  BY DEF Reach
<1> QED BY <1>1, InitIInv, NextIInv, InitReach, NextReach, PTL DEF Spec

-----------------------------------------------------------------------------
(***************************************************************************)
(* What a step may do to the timestamp of a copy that has operators.       *)
(***************************************************************************)
TSKept(c, d) == c.on /\ d.on /\ haveops(c) => d.ts <= c.ts

(* A copy that is not changed keeps its timestamp.                         *)
LEMMA TSKeptSame == ASSUME NEW c \in Chan, NEW d, d.ts = c.ts PROVE TSKept(c, d)
<1>1. c.ts \in Nat
  BY ConstAssumption DEF Chan, TSVal
<1> QED BY <1>1 DEF TSKept

(* m_sjoin takes over a younger timestamp only on a channel without ops.   *)
LEMMA SjoinTSKept ==
  ASSUME NEW c \in Chan, NEW m \in SjoinMsg, NEW kept
  PROVE  TSKept(c, SjoinChan(c, m, kept))
<1>1. c.ts \in Nat /\ m.ts \in Nat
  BY ConstAssumption DEF Chan, SjoinMsg, TSVal
<1>2. SjoinChan(c, m, kept).ts = SjoinTS(c, m)
  BY DEF SjoinChan
<1> QED BY <1>1, <1>2 DEF TSKept, SjoinTS, Compared

(* Members leaving do not change the timestamp of what is left.            *)
LEMMA RemoveTSKept ==
  ASSUME NEW c \in Chan, NEW gone PROVE TSKept(c, RemoveUsers(c, gone))
<1>1. c.ts \in Nat
  BY ConstAssumption DEF Chan, TSVal
<1> QED BY <1>1 DEF TSKept, RemoveUsers, NoChan, Chan

(* Nor do the changes of member flags and of channel modes.                *)
LEMMA ChangeTSKept ==
  ASSUME NEW c \in Chan, NEW u, NEW f, NEW add
  PROVE  TSKept(c, change_chan_flag(c, u, f, add)) /\ TSKept(c, set_deopped(c, u))
<1>1. change_chan_flag(c, u, f, add).ts = c.ts /\ set_deopped(c, u).ts = c.ts
  BY DEF change_chan_flag, set_deopped, Chan
<1> QED BY <1>1, TSKeptSame

(* One copy changes to d, the others do not.                               *)
LEMMA OneTSKept ==
  ASSUME IInv, NEW s \in Server, NEW d, TSKept(ch[s], d), ch' = [ch EXCEPT ![s] = d]
  PROVE  \A x \in Server : TSKept(ch[x], ch'[x])
<1>1. ch \in [Server -> Chan]
  BY DEF IInv, TypeOK
<1>2. ASSUME NEW x \in Server PROVE TSKept(ch[x], ch'[x])
  <2>1. CASE x = s
    BY <1>1, <2>1
  <2>2. CASE x # s
    BY <1>1, <2>2, TSKeptSame
  <2> QED BY <2>1, <2>2
<1> QED BY <1>2

(* No copy changes.                                                        *)
LEMMA NoTSKept ==
  ASSUME IInv, UNCHANGED ch PROVE \A x \in Server : TSKept(ch[x], ch'[x])
BY TSKeptSame DEF IInv, TypeOK

(* The lines a server reads.                                               *)
LEMMA ReceiveTSKept ==
  ASSUME IInv, NEW s \in Server, NEW p \in Server, Receive(s, p)
  PROVE  \A x \in Server : TSKept(ch[x], ch'[x])
<1>1. ch[s] \in Chan
  BY CopyFacts
<1>2. CASE RecvServer(s, p) \/ RecvNick(s, p)
  BY <1>2, NoTSKept DEF RecvServer, RecvNick
<1>3. CASE RecvSjoin(s, p)
  <2>1. PICK m : m = Head(q[p][s])
    OBVIOUS
  <2>2. q[p][s] # << >> /\ m.type = "SJOIN" /\ TypeOK
    BY <1>3, <2>1, CopyFacts DEF RecvSjoin, NextLine
  <2>3. m \in SjoinMsg
    BY ONLY <2>1, <2>2, NextLineType, s \in Server, p \in Server
  <2>4. PICK kept : ch' = [ch EXCEPT ![s] = SjoinChan(ch[s], m, kept)]
    BY <1>3, <2>1 DEF RecvSjoin
  <2>5. TSKept(ch[s], SjoinChan(ch[s], m, kept))
    BY ONLY <1>1, <2>3, SjoinTSKept
  <2>6. PICK d : d = SjoinChan(ch[s], m, kept)
    OBVIOUS
  <2>7. TSKept(ch[s], d) /\ ch' = [ch EXCEPT ![s] = d]
    BY ONLY <2>4, <2>5, <2>6
  <2> QED BY ONLY <2>7, OneTSKept, IInv, s \in Server
<1>4. CASE RecvMode(s, p)
  <2> DEFINE m == Head(q[p][s])
  <2>1. \/ UNCHANGED ch
        \/ ch' = [ch EXCEPT ![s] = change_chan_flag(ch[s], m.who, m.flag, m.add)]
        \/ ch' = [ch EXCEPT ![s] = set_deopped(ch[s], m.who)]
        \/ ch' = [ch EXCEPT ![s] = ch[s]]
    BY <1>4 DEF RecvMode
  <2>2. TSKept(ch[s], ch[s])
    BY <1>1, TSKeptSame
  <2> HIDE DEF m
  <2> QED BY <1>1, <2>1, <2>2, ChangeTSKept, OneTSKept, NoTSKept
<1>5. CASE RecvCMode(s, p)
  <2>1. UNCHANGED ch \/ \E md : ch' = [ch EXCEPT ![s] = [ch[s] EXCEPT !.mode = md]]
    BY <1>5 DEF RecvCMode
  <2>2. ASSUME NEW md PROVE TSKept(ch[s], [ch[s] EXCEPT !.mode = md])
    BY <1>1, TSKeptSame DEF Chan
  <2> QED BY <2>1, <2>2, OneTSKept, NoTSKept
<1>6. CASE RecvPart(s, p) \/ RecvKick(s, p) \/ RecvExit(s, p)
  <2>1. UNCHANGED ch \/ \E gone : ch' = [ch EXCEPT ![s] = RemoveUsers(ch[s], gone)]
    BY <1>6 DEF RecvPart, RecvKick, RecvExit
  <2> QED BY <1>1, <2>1, RemoveTSKept, OneTSKept, NoTSKept
<1> QED BY <1>2, <1>3, <1>4, <1>5, <1>6 DEF Receive

(* The commands of local clients and of opers.                             *)
LEMMA CommandTSKept ==
  ASSUME IInv, NEW u \in User, NEW w \in User, NEW f, NEW add, NEW change,
         NEW s \in Server,
         \/ Join(u) \/ Part(u) \/ Quit(u) \/ Kick(u, w) \/ UserMode(u, w, f, add)
         \/ ChanMode(u, change, add) \/ Kill(s, u)
  PROVE  \A x \in Server : TSKept(ch[x], ch'[x])
<1> DEFINE h == Home[u]
<1>1. h \in Server
  BY ConstAssumption
<1>2. ch[h] \in Chan /\ ch[s] \in Chan
  BY <1>1, CopyFacts
<1> HIDE DEF h
<1>3. CASE Join(u)
  <2>1. CASE ch[h].on
    <3>1. PICK mem : ch' = [ch EXCEPT ![h] = [ch[h] EXCEPT !.mem = mem]]
      BY <1>3, <2>1 DEF Join, h
    <3>2. TSKept(ch[h], [ch[h] EXCEPT !.mem = mem])
      BY <1>2, TSKeptSame DEF Chan
    <3> QED BY <1>1, <3>1, <3>2, OneTSKept
  <2>2. CASE ~ch[h].on
    <3>1. PICK d : ch' = [ch EXCEPT ![h] = d]
      BY <1>3, <2>2 DEF Join, h
    <3>2. TSKept(ch[h], d)
      BY <2>2 DEF TSKept
    <3> QED BY <1>1, <3>1, <3>2, OneTSKept
  <2> QED BY <2>1, <2>2
<1>4. CASE Part(u) \/ Quit(u) \/ Kick(u, w)
  <2>1. \E gone : ch' = [ch EXCEPT ![h] = RemoveUsers(ch[h], gone)]
    BY <1>4 DEF Part, Quit, Leave, Kick, h
  <2> QED BY <1>1, <1>2, <2>1, RemoveTSKept, OneTSKept
<1>5. CASE UserMode(u, w, f, add)
  <2>1. ch' = [ch EXCEPT ![h] = change_chan_flag(ch[h], w, f, add)]
    BY <1>5 DEF UserMode, h
  <2> QED BY <1>1, <1>2, <2>1, ChangeTSKept, OneTSKept
<1>6. CASE ChanMode(u, change, add)
  <2>1. PICK md : ch' = [ch EXCEPT ![h] = [ch[h] EXCEPT !.mode = md]]
    BY <1>6 DEF ChanMode, h
  <2>2. TSKept(ch[h], [ch[h] EXCEPT !.mode = md])
    BY <1>2, TSKeptSame DEF Chan
  <2> QED BY <1>1, <2>1, <2>2, OneTSKept
<1>7. CASE Kill(s, u)
  <2>1. ch' = [ch EXCEPT ![s] = RemoveUsers(ch[s], {u})]
    BY <1>7 DEF Kill, Leave
  <2> QED BY <1>2, <2>1, RemoveTSKept, OneTSKept
<1> QED BY <1>3, <1>4, <1>5, <1>6, <1>7

(* A split.                                                                *)
LEMMA SplitTSKept ==
  ASSUME IInv, NEW s \in Server, NEW t \in Server, Split(s, t)
  PROVE  \A x \in Server : TSKept(ch[x], ch'[x])
<1>1. \A x \in Server : ch'[x] = ch[x] \/ \E gone : ch'[x] = RemoveUsers(ch[x], gone)
  BY DEF Split
<1>2. \A x \in Server : ch[x] \in Chan
  BY CopyFacts
<1> QED BY <1>1, <1>2, TSKeptSame, RemoveTSKept

(* While a channel has operators its timestamp only moves back, at every   *)
(* server and in every step (m_sjoin, sub1_from_channel, m_join).          *)
THEOREM TimestampsNeverRise == Spec => TSNeverRises
<1>1. IInv /\ [Next]_vars => \A x \in Server : TSKept(ch[x], ch'[x])
  <2> SUFFICES ASSUME IInv, [Next]_vars PROVE \A x \in Server : TSKept(ch[x], ch'[x])
    OBVIOUS
  <2>1. CASE UNCHANGED vars
    BY <2>1, NoTSKept DEF vars
  <2>2. CASE \E s, t \in Server : Connect(t, s) \/ Receive(s, t) \/ Split(s, t)
    BY <2>2, NoTSKept, ReceiveTSKept, SplitTSKept DEF Connect
  <2>3. CASE \E u \in Actors :
               \/ Join(u) \/ Part(u) \/ Quit(u)
               \/ \E w \in User : Kick(u, w)
               \/ \E w \in User, f \in Prefix, add \in BOOLEAN : UserMode(u, w, f, add)
               \/ \E change \in Change, add \in BOOLEAN : ChanMode(u, change, add)
    <3>1. PICK u \in Actors :
               \/ Join(u) \/ Part(u) \/ Quit(u)
               \/ \E w \in User : Kick(u, w)
               \/ \E w \in User, f \in Prefix, add \in BOOLEAN : UserMode(u, w, f, add)
               \/ \E change \in Change, add \in BOOLEAN : ChanMode(u, change, add)
      BY <2>3
    <3>2. u \in User /\ Home[u] \in Server
      BY ConstAssumption
    <3> QED BY <3>1, <3>2, CommandTSKept
  <2>4. CASE \E s \in Server, u \in Victims : Kill(s, u)
    <3>1. PICK s \in Server, u \in Victims : Kill(s, u)
      BY <2>4
    <3>2. u \in User
      BY ConstAssumption
    <3> QED BY <3>1, <3>2, CommandTSKept
  <2> QED BY <2>1, <2>2, <2>3, <2>4 DEF Next
<1>2. IInv /\ [Next]_vars => [\A s \in Server :
         ch[s].on /\ ch'[s].on /\ haveops(ch[s]) => ch'[s].ts <= ch[s].ts]_vars
  BY <1>1 DEF TSKept
<1> QED BY <1>2, InitIInv, NextIInv, PTL DEF Spec, TSNeverRises

-----------------------------------------------------------------------------
(* A description younger than a channel with operators gains nothing.      *)
LEMMA YoungerSjoin ==
  ASSUME NEW c \in Chan, NEW m \in SjoinMsg, NEW kept \in SUBSET User, WellFormed(c),
         haveops(c), c.ts # 0, m.ts > c.ts
  PROVE  LET d == SjoinChan(c, m, kept)
         IN  Ops(d) = Ops(c) /\ d.mode = c.mode /\ d.ts = c.ts
<1> DEFINE d == SjoinChan(c, m, kept)
<1>1. c.ts \in Nat /\ m.ts \in Nat /\ c.on
  BY ConstAssumption DEF Chan, SjoinMsg, TSVal, WellFormed, haveops, Ops
<1>2. keep_our_modes(c, m) /\ ~keep_new_modes(c, m)
  BY <1>1 DEF keep_our_modes, keep_new_modes, Compared
<1>3. d.ts = c.ts /\ d.mode = c.mode
  BY <1>1, <1>2 DEF SjoinChan, SjoinTS, SjoinModes, Compared
<1>4. ASSUME NEW u \in User PROVE u \in Ops(d) <=> u \in Ops(c)
  <2>1. "o" \notin JoinFlags(c, m, u)
    BY <1>2 DEF JoinFlags
  <2>2. /\ u \in d.mem <=> u \in c.mem \/ u \in kept
        /\ d.fl[u] = CASE u \in c.mem -> c.fl[u]
                       [] u \notin c.mem /\ u \in kept -> JoinFlags(c, m, u)
                       [] OTHER -> {}
    BY <1>2 DEF SjoinChan
  <2> HIDE DEF d
  <2> QED BY <2>1, <2>2 DEF Ops
<1> HIDE DEF d
<1>5. Ops(c) \subseteq User /\ Ops(d) \subseteq User
  BY DEF Ops, Chan, SjoinChan, d
<1> QED BY <1>3, <1>4, <1>5 DEF d

(* A step that leaves q[p][s] alone, or ch[s], or cuts the link.           *)
Apart(s, p) == q'[p][s] = q[p][s] \/ ch'[s] = ch[s] \/ p \notin links'[s]

(* Relaying from server s only appends to the queues out of s.             *)
LEMMA RelayLocal ==
  ASSUME IInv, NEW x \in Server, NEW e, NEW m, NEW s \in Server, NEW p \in Server, p # x
  PROVE  Relay(x, e, m)[p][s] = q[p][s]
BY DEF IInv, TypeOK, Relay

(* Reading a line from y at x touches the queue y -> x and those out of x. *)
LEMMA ConsumeLocal ==
  ASSUME IInv, NEW x \in Server, NEW y \in Server, NEW s \in Server, NEW p \in Server,
         p # x, <<p, s>> # <<y, x>>, NEW m
  PROVE  /\ Consume(x, y)[p][s] = q[p][s]
         /\ ConsumeRelay(x, y, m)[p][s] = q[p][s]
         /\ ConsumeUnknown(x, y, m)[p][s] = q[p][s]
<1>1. q \in [Server -> [Server -> Seq(Msg)]]
  BY DEF IInv, TypeOK
<1>2. Consume(x, y)[p][s] = q[p][s]
  BY <1>1 DEF Consume
<1>3. ConsumeRelay(x, y, m)[p][s] = q[p][s]
  BY <1>1 DEF ConsumeRelay
<1>4. ConsumeUnknown(x, y, m)[p][s] = q[p][s]
  BY <1>1, <1>2 DEF ConsumeUnknown, Consume
<1> QED BY <1>2, <1>3, <1>4

(* A line read by one server from another one, the SJOINs of p aside.      *)
LEMMA ReceiveApart ==
  ASSUME IInv, NEW x \in Server, NEW y \in Server, Receive(x, y),
         NEW s \in Server, NEW p \in Server, p # s, NextLine(p, s, "SJOIN")
  PROVE  Apart(s, p) \/ RecvSjoin(s, p)
<1>1. CASE x # s
  <2>1. UNCHANGED ch \/ \E c : ch' = [ch EXCEPT ![x] = c]
    BY DEF Receive, RecvServer, RecvNick, RecvSjoin, RecvMode, RecvCMode, RecvPart,
           RecvKick, RecvExit
  <2>2. TypeOK
    BY DEF IInv
  <2>3. ch \in [Server -> Chan]
    BY ONLY <2>2 DEF TypeOK
  <2>4. ch'[s] = ch[s]
    BY ONLY <1>1, <2>1, <2>3, s \in Server
  <2> QED BY <2>4 DEF Apart
<1>2. CASE x = s /\ y = p
  BY <1>2 DEF Receive, NextLine, RecvServer, RecvNick, RecvMode, RecvCMode, RecvPart,
              RecvKick, RecvExit
<1>3. CASE x = s /\ y # p
  <2>1. <<p, s>> # <<y, x>> /\ p # x
    BY <1>3
  <2>2. CASE RecvServer(x, y) \/ RecvNick(x, y)
    BY <2>2 DEF RecvServer, RecvNick, Apart
  <2>3. CASE ~RecvServer(x, y)
    <3>1. q' = Consume(x, y) \/ (\E m : q' = ConsumeRelay(x, y, m))
                             \/ (\E m : q' = ConsumeUnknown(x, y, m))
      BY <2>3 DEF Receive, RecvNick, RecvSjoin, RecvMode, RecvCMode, RecvPart,
                  RecvKick, RecvExit
    <3>2. q'[p][s] = q[p][s]
      BY <2>1, <3>1, ConsumeLocal
    <3> QED BY <3>2 DEF Apart
  <2> QED BY <2>2, <2>3
<1> QED BY <1>1, <1>2, <1>3

(* A command given at server x: it changes the copy and the queues of x.   *)
LEMMA CommandApart ==
  ASSUME IInv, NEW x \in Server, NEW s \in Server, NEW p \in Server, p # s,
         NEW m, q' = Relay(x, x, m), NEW c, ch' = [ch EXCEPT ![x] = c]
  PROVE  Apart(s, p)
<1>1. ch \in [Server -> Chan]
  BY DEF IInv, TypeOK
<1>2. CASE x = p
  BY <1>1, <1>2 DEF Apart
<1>3. CASE x # p
  BY <1>3, RelayLocal DEF Apart
<1> QED BY <1>2, <1>3

(* A split empties the queues of the broken link only.                     *)
LEMMA SplitApart ==
  ASSUME IInv, NEW x \in Server, NEW y \in Server, Split(x, y),
         NEW s \in Server, NEW p \in Server, p # s
  PROVE  Apart(s, p)
<1>1. links \in [Server -> SUBSET Server] /\ ch \in [Server -> Chan]
  BY DEF IInv, TypeOK
<1>2. CASE s \notin {x, y}
  <2>1. ch'[s] = ch[s]
    BY <1>2 DEF Split
  <2> QED BY <2>1 DEF Apart
<1>3. CASE s \in {x, y} /\ p \notin {x, y}
  <2>1. q'[p][s] = q[p][s]
    BY <1>3 DEF Split
  <2> QED BY <2>1 DEF Apart
<1>4. CASE s \in {x, y} /\ p \in {x, y}
  <2>1. links' = [links EXCEPT ![x] = @ \ {y}, ![y] = @ \ {x}] /\ x # y
    BY DEF Split
  <2>2. p \notin links'[s]
    BY <1>1, <1>4, <2>1
  <2> QED BY <2>2 DEF Apart
<1> QED BY <1>2, <1>3, <1>4

(* A client command touches the copy and the queues of one server.         *)
LEMMA CommandsApart ==
  ASSUME IInv, NEW s \in Server, NEW p \in Server, p # s,
         NEW u \in User, NEW w \in User, NEW f, NEW add, NEW change, NEW x \in Server,
         \/ Join(u) \/ Part(u) \/ Quit(u) \/ Kick(u, w) \/ UserMode(u, w, f, add)
         \/ ChanMode(u, change, add) \/ Kill(x, u)
  PROVE  Apart(s, p)
<1>1. Home[u] \in Server
  BY ConstAssumption
<1>2. CASE Kill(x, u)
  BY <1>2, CommandApart DEF Kill, Leave
<1>3. CASE ~Kill(x, u)
  <2>1. /\ \E m : q' = Relay(Home[u], Home[u], m)
        /\ \E c : ch' = [ch EXCEPT ![Home[u]] = c]
    <3>1. CASE Join(u)
      BY <3>1 DEF Join
    <3>2. CASE Part(u) \/ Quit(u) \/ Kick(u, w)
      BY <3>2 DEF Part, Quit, Leave, Kick
    <3>3. CASE UserMode(u, w, f, add) \/ ChanMode(u, change, add)
      BY <3>3 DEF UserMode, ChanMode
    <3> QED BY <1>3, <3>1, <3>2, <3>3
  <2> QED BY <1>1, <2>1, CommandApart
<1> QED BY <1>2, <1>3

(* A step reads an SJOIN from p at s only by handling it.                  *)
LEMMA OnlySjoin ==
  ASSUME IInv, [Next]_vars, NEW s \in Server, NEW p \in Server, p # s,
         NextLine(p, s, "SJOIN")
  PROVE  Apart(s, p) \/ RecvSjoin(s, p)
<1>1. CASE UNCHANGED vars
  BY <1>1 DEF Apart, vars
<1>2. CASE \E x, y \in Server : Connect(y, x) \/ Receive(x, y) \/ Split(x, y)
  <2>1. PICK x, y \in Server : Connect(y, x) \/ Receive(x, y) \/ Split(x, y)
    BY <1>2
  <2>2. CASE Connect(y, x)
    BY <2>2 DEF Connect, Apart
  <2> QED BY <2>1, <2>2, ReceiveApart, SplitApart
<1>3. CASE \E u \in Actors :
             \/ Join(u) \/ Part(u) \/ Quit(u)
             \/ \E w \in User : Kick(u, w)
             \/ \E w \in User, f \in Prefix, add \in BOOLEAN : UserMode(u, w, f, add)
             \/ \E change \in Change, add \in BOOLEAN : ChanMode(u, change, add)
  <2>1. \E u \in User, w \in User : \E f, add, change :
             \/ Join(u) \/ Part(u) \/ Quit(u) \/ Kick(u, w) \/ UserMode(u, w, f, add)
             \/ ChanMode(u, change, add)
    BY <1>3, ConstAssumption
  <2> QED BY <2>1, CommandsApart
<1>4. CASE \E x \in Server, u \in Victims : Kill(x, u)
  <2>1. PICK x \in Server, u \in Victims : Kill(x, u)
    BY <1>4
  <2>2. u \in User
    BY ConstAssumption
  <2> QED BY <2>1, <2>2, CommandsApart
<1> QED BY <1>1, <1>2, <1>3, <1>4 DEF Next

(* An SJOIN younger than the channel cannot op, deop, change a mode or     *)
(* move the timestamp while the channel has operators (m_sjoin).           *)
THEOREM YoungerSjoinGainsNothing == Spec => YoungerGainsNothing
<1> DEFINE A == \A s \in Server : \A p \in Neighbours(s) :
       /\ NextLine(p, s, "SJOIN") /\ q'[p][s] # q[p][s] /\ p \in links'[s]
       /\ haveops(ch[s]) /\ ch[s].ts # 0 /\ Head(q[p][s]).ts > ch[s].ts
       => /\ Ops(ch'[s]) = Ops(ch[s])
          /\ ch'[s].mode = ch[s].mode /\ ch'[s].ts = ch[s].ts
<1>1. IInv /\ [Next]_vars => A
  <2> SUFFICES ASSUME IInv, [Next]_vars, NEW s \in Server, NEW p \in Neighbours(s),
                      NextLine(p, s, "SJOIN"), q'[p][s] # q[p][s], p \in links'[s],
                      haveops(ch[s]), ch[s].ts # 0, Head(q[p][s]).ts > ch[s].ts
               PROVE  /\ Ops(ch'[s]) = Ops(ch[s])
                      /\ ch'[s].mode = ch[s].mode /\ ch'[s].ts = ch[s].ts
    OBVIOUS
  <2>1. p \in Server /\ p # s
    BY DEF Neighbours
  <2>2. CASE Apart(s, p)
    BY <2>2 DEF Apart
  <2>3. CASE RecvSjoin(s, p)
    <3> DEFINE m == Head(q[p][s])
               kept == {u \in m.names : u \in known[s] /\ Via[s][Home[u]] = p}
    <3>0. q[p][s] # << >> /\ m.type = "SJOIN" /\ TypeOK
      BY CopyFacts DEF NextLine
    <3>1. m \in SjoinMsg
      BY ONLY <2>1, <3>0, NextLineType, s \in Server
    <3>2. ch'[s] = SjoinChan(ch[s], m, kept)
      BY <2>3, CopyFacts DEF RecvSjoin, IInv, TypeOK
    <3>3. kept \in SUBSET User /\ ch[s] \in Chan /\ WellFormed(ch[s])
      BY <3>1, CopyFacts DEF SjoinMsg, GoodChan
    <3> HIDE DEF m, kept
    <3>4. m.ts > ch[s].ts
      BY DEF m
    <3> QED BY <3>1, <3>2, <3>3, <3>4, YoungerSjoin
  <2> QED BY <2>1, <2>2, <2>3, OnlySjoin
<1>2. IInv /\ [Next]_vars => [A]_vars
  BY <1>1
<1> QED BY <1>2, InitIInv, NextIInv, PTL DEF Spec, YoungerGainsNothing

-----------------------------------------------------------------------------
(***************************************************************************)
(* Two servers with a copy of the channel each link up and exchange their  *)
(* descriptions, one NJOIN line each.                                      *)
(***************************************************************************)
Description(c, lead) == Sjoin(c.ts, FALSE, c.mode, lead, c.mem, Prefixes(c))

(* The larger of two naturals does not depend on their order.              *)
LEMMA LargerSymmetric == \A i, j \in Nat : Larger(i, j) = Larger(j, i)
BY DEF Larger

(* The modes of two channels merge to the same, but for +f: m_sjoin keeps  *)
(* its own flood setting, so the settings have to be the same.             *)
LEMMA ModesMerge ==
  ASSUME NEW m1 \in ModeRec, NEW m2 \in ModeRec,
         m1.flood = m2.flood \/ m1.flood = 0 \/ m2.flood = 0
  PROVE  MergedModes(m1, m2) = MergedModes(m2, m1)
<1>1. /\ m1.limit \in Nat /\ m2.limit \in Nat /\ m1.key \in Nat /\ m2.key \in Nat
      /\ m1.flood \in Nat /\ m2.flood \in Nat
  BY ConstAssumption DEF ModeRec, Arg
<1> QED BY <1>1, LargerSymmetric DEF MergedModes

(* The first nick of a description is opped iff the channel has ops, which *)
(* is what m_sjoin concludes from it (send_channel_modes swaps an op to    *)
(* the front).                                                             *)
LEMMA LeadTellsOps ==
  ASSUME NEW c \in Chan, NEW l \in Leads(c, c.mem)
  PROVE  doesop(Description(c, l)) <=> haveops(c)
<1>1. l \in User /\ l \in c.mem
  BY DEF Leads, Ops, Chan
<1>2. Description(c, l).pf[l] = c.fl[l] \cap Prefix /\ Description(c, l).lead = l
  BY <1>1 DEF Description, Sjoin, Prefixes
<1>3. "o" \in Prefix
  BY DEF Prefix
<1> QED BY <1>1, <1>2, <1>3 DEF doesop, haveops, Leads, Ops

(* What each of the two servers keeps, by the ages of the two channels.    *)
LEMMA Verdicts ==
  ASSUME NEW c1 \in Chan, NEW c2 \in Chan, c1.on, c2.on,
         NEW l1 \in Leads(c1, c1.mem), NEW l2 \in Leads(c2, c2.mem)
  PROVE  LET m1 == Description(c1, l1)
             m2 == Description(c2, l2)
         IN  /\ keep_our_modes(c1, m2) <=> keep_new_modes(c2, m1)
             /\ keep_new_modes(c1, m2) <=> keep_our_modes(c2, m1)
             /\ SjoinTS(c1, m2) = SjoinTS(c2, m1)
             /\ keep_our_modes(c1, m2) \/ keep_new_modes(c1, m2)
<1>1. c1.ts \in Nat /\ c2.ts \in Nat
  BY ConstAssumption DEF Chan, TSVal
<1>2. Description(c1, l1).ts = c1.ts /\ Description(c2, l2).ts = c2.ts
  BY DEF Description, Sjoin
<1>3. /\ doesop(Description(c1, l1)) <=> haveops(c1)
      /\ doesop(Description(c2, l2)) <=> haveops(c2)
  BY LeadTellsOps
<1> QED BY <1>1, <1>2, <1>3 DEF keep_our_modes, keep_new_modes, Compared, SjoinTS

(* Two linking servers come out with the same channel: same timestamp,     *)
(* members, member status and modes, whatever their channels were, as long *)
(* as their +f settings do not conflict (m_sjoin, send_channel_modes).     *)
THEOREM MergeAgrees ==
  ASSUME NEW c1 \in Chan, NEW c2 \in Chan, c1.on, c2.on,
         c1.mem \cap c2.mem = {},
         NEW l1 \in Leads(c1, c1.mem), NEW l2 \in Leads(c2, c2.mem),
         \/ c1.mode.flood = c2.mode.flood
         \/ c1.mode.flood = 0 \/ c2.mode.flood = 0
  PROVE  View(SjoinChan(c1, Description(c2, l2), c2.mem))
           = View(SjoinChan(c2, Description(c1, l1), c1.mem))
<1> DEFINE m1 == Description(c1, l1)
           m2 == Description(c2, l2)
           d1 == SjoinChan(c1, m2, c2.mem)
           d2 == SjoinChan(c2, m1, c1.mem)
<1>1. /\ keep_our_modes(c1, m2) <=> keep_new_modes(c2, m1)
      /\ keep_new_modes(c1, m2) <=> keep_our_modes(c2, m1)
      /\ SjoinTS(c1, m2) = SjoinTS(c2, m1)
      /\ keep_our_modes(c1, m2) \/ keep_new_modes(c1, m2)
  BY Verdicts
<1>2. /\ m1.mode = c1.mode /\ m2.mode = c2.mode
      /\ \A u \in User : m1.pf[u] = c1.fl[u] \cap Prefix /\ m2.pf[u] = c2.fl[u] \cap Prefix
  BY DEF Description, Sjoin, Prefixes
<1>3. SjoinModes(c1, m2) = SjoinModes(c2, m1)
  <2>1. c1.mode \in ModeRec /\ c2.mode \in ModeRec
    BY DEF Chan
  <2>2. MergedModes(c1.mode, c2.mode) = MergedModes(c2.mode, c1.mode)
    BY <2>1, ModesMerge
  <2> HIDE DEF m1, m2
  <2> QED BY <1>1, <1>2, <2>2 DEF SjoinModes
<1>4. /\ d1.on = TRUE /\ d1.ts = SjoinTS(c1, m2) /\ d1.mem = c1.mem \cup c2.mem
      /\ d1.mode = SjoinModes(c1, m2)
      /\ d2.on = TRUE /\ d2.ts = SjoinTS(c2, m1) /\ d2.mem = c2.mem \cup c1.mem
      /\ d2.mode = SjoinModes(c2, m1)
  BY DEF SjoinChan
<1>5. ASSUME NEW u \in User PROVE d1.fl[u] \ {"d"} = d2.fl[u] \ {"d"}
  <2>1. "d" \notin Prefix /\ Flag = Prefix \cup {"d"}
        /\ c1.fl[u] \subseteq Flag /\ c2.fl[u] \subseteq Flag
    BY DEF Prefix, Flag, Chan
  <2>2. /\ d1.fl[u] = CASE u \in c1.mem -> IF keep_our_modes(c1, m2) THEN c1.fl[u] ELSE c1.fl[u] \ Prefix
                        [] u \notin c1.mem /\ u \in c2.mem -> JoinFlags(c1, m2, u)
                        [] OTHER -> {}
        /\ d2.fl[u] = CASE u \in c2.mem -> IF keep_our_modes(c2, m1) THEN c2.fl[u] ELSE c2.fl[u] \ Prefix
                        [] u \notin c2.mem /\ u \in c1.mem -> JoinFlags(c2, m1, u)
                        [] OTHER -> {}
    BY DEF SjoinChan
  <2>3. /\ keep_new_modes(c1, m2) => JoinFlags(c1, m2, u) = c2.fl[u] \cap Prefix
        /\ ~keep_new_modes(c1, m2) => JoinFlags(c1, m2, u) \subseteq {"d"}
        /\ keep_new_modes(c2, m1) => JoinFlags(c2, m1, u) = c1.fl[u] \cap Prefix
        /\ ~keep_new_modes(c2, m1) => JoinFlags(c2, m1, u) \subseteq {"d"}
    <3> HIDE DEF m1, m2
    <3> QED BY <1>2 DEF JoinFlags
  <2> HIDE DEF m1, m2, d1, d2
  <2>4. CASE u \in c1.mem
    <3>1. u \notin c2.mem
      BY <2>4
    <3> QED BY <1>1, <2>1, <2>2, <2>3, <2>4, <3>1
  <2>5. CASE u \in c2.mem
    <3>1. u \notin c1.mem
      BY <2>5
    <3> QED BY <1>1, <2>1, <2>2, <2>3, <2>5, <3>1
  <2>6. CASE u \notin c1.mem /\ u \notin c2.mem
    BY <2>2, <2>6
  <2> QED BY <2>4, <2>5, <2>6
<1> HIDE DEF m1, m2, d1, d2
<1>6. View(d1) = View(d2)
  BY <1>1, <1>3, <1>4, <1>5 DEF View
<1> QED BY <1>6 DEF d1, d2, m1, m2

-----------------------------------------------------------------------------
(***************************************************************************)
(* Without KILL a client leaves by its own server only, and what a server  *)
(* knows of the clients behind a neighbour is what that neighbour has told *)
(* it; without KICK the same goes for the members of the channel.  Told    *)
(* says for each direction a, b of each link which names b will have when  *)
(* it has read the lines that are on their way: those that a has now; and  *)
(* that it has the names a line speaks of when it reads it, so that no     *)
(* line is refused and no SJOIN comes without its nicks.                   *)
(***************************************************************************)
Lists == {"clients", "members"}
Names(k, s) == IF k = "clients" THEN known[s] ELSE ch[s].mem

Learn(k, m) ==
  IF m.type = (IF k = "clients" THEN "NICK" ELSE "SJOIN") THEN m.names ELSE {}
Lose(k, m) == CASE m.type = "EXIT" -> m.gone
                [] k = "members" /\ m.type = "PART" -> {m.src}
                [] OTHER -> {}
After(k, K, m) == (K \cup Learn(k, m)) \ Lose(k, m)

(* The names that have to be in the list where m is read.                  *)
Uses(k, m) ==
  CASE k = "clients" /\ m.type = "SJOIN" -> m.names
    [] k = "clients" /\ m.type \in {"MODE", "CMODE", "PART", "KICK"} -> {m.src}
    [] k = "members" /\ m.type = "PART" -> {m.src}
    [] OTHER -> {}
About(k, m) == Learn(k, m) \cup Lose(k, m) \cup Uses(k, m)

(* One who has the names K has u after the first n lines of w.             *)
Knows(k, w, K, n, u) ==
  \/ \E i \in 1 .. n : u \in Learn(k, w[i]) /\ \A j \in i .. n : u \notin Lose(k, w[j])
  \/ u \in K /\ \A j \in 1 .. n : u \notin Lose(k, w[j])

Good_line(k, a, b, m) == /\ \A u \in About(k, m) : Via[b][Home[u]] = a
                         /\ m.type = "SJOIN" => m.names # {}
                         /\ k = "members" => m.type # "KICK"

(* The lines w from a, who has A if it is linked, to b, who has K.         *)
Pair(k, a, b, w, K, A) ==
  /\ \A i \in 1 .. Len(w) : Good_line(k, a, b, w[i])
                            /\ \A u \in Uses(k, w[i]) : Knows(k, w, K, i - 1, u)
  /\ \A u \in User : Via[b][Home[u]] = a => (u \in A <=> Knows(k, w, K, Len(w), u))

Linked(k, a, b) == IF b \in links[a] THEN Names(k, a) ELSE {}
Told(k) ==
  \A a \in Server : \A b \in Neighbours(a) :
    Pair(k, a, b, q[a][b], Names(k, b), Linked(k, a, b))
ClientsTold == Told("clients")
MembersTold == Told("members")

(* The next line speaks of clients who are known where it is read.         *)
Understood ==
  \A s, p \in Server : q[p][s] # << >> =>
    LET m == Head(q[p][s]) IN
    /\ m.type \in {"MODE", "CMODE", "PART", "KICK"} => m.src \in known[s]
    /\ m.type = "SJOIN" =>
         m.names # {} /\ \A u \in m.names : u \in known[s] /\ Via[s][Home[u]] = p

(* Only whether u is known at the start matters.                           *)
LEMMA KnowsSame ==
  ASSUME NEW k, NEW w, NEW n, NEW u, NEW K, NEW M, u \in K <=> u \in M
  PROVE  Knows(k, w, K, n, u) <=> Knows(k, w, M, n, u)
BY DEF Knows

(* A line that is added, and one that is read.                             *)
LEMMA KnowsAppend ==
  ASSUME NEW k, NEW w \in Seq(Msg), NEW m \in Msg, NEW K, NEW u
  PROVE  /\ \A n \in 0 .. Len(w) : Knows(k, Append(w, m), K, n, u) <=> Knows(k, w, K, n, u)
         /\ Knows(k, Append(w, m), K, Len(w) + 1, u) <=>
              (Knows(k, w, K, Len(w), u) \/ u \in Learn(k, m)) /\ u \notin Lose(k, m)
<1> DEFINE x == Append(w, m)
           N == Len(w)
<1>1. N \in Nat /\ x[N + 1] = m /\ \A i \in 1 .. N : x[i] = w[i]
  OBVIOUS
<1> HIDE DEF x, N
<1>2. ASSUME NEW n \in 0 .. N PROVE Knows(k, x, K, n, u) <=> Knows(k, w, K, n, u)
  <2>1. \A i \in 1 .. n : i \in 1 .. N /\ x[i] = w[i]
    BY <1>1
  <2>2. \A i \in 1 .. n : \A j \in i .. n : j \in 1 .. n
    BY <1>1
  <2> QED BY <2>1, <2>2 DEF Knows
<1>3. \A j \in 1 .. N + 1 : j \in 1 .. N \/ j = N + 1
  BY <1>1
<1>4. \A i \in 1 .. N : /\ \A j \in i .. N : j \in i .. N + 1 /\ j \in 1 .. N
                        /\ \A j \in i .. N + 1 : j \in i .. N \/ j = N + 1
                        /\ N + 1 \in i .. N + 1 /\ i \in 1 .. N + 1
  BY <1>1
<1>5. /\ N + 1 \in 1 .. N + 1 /\ \A j \in (N + 1) .. (N + 1) : j = N + 1
      /\ \A j \in 1 .. N : j \in 1 .. N + 1
  BY <1>1
<1> DEFINE Since(z, i, n) == \A j \in i .. n : u \notin Lose(k, z[j])
<1>6. \A i \in 1 .. N : Since(x, i, N + 1) <=> Since(w, i, N) /\ u \notin Lose(k, m)
  BY <1>1, <1>4
<1>7. Since(x, N + 1, N + 1) <=> u \notin Lose(k, m)
  BY <1>1, <1>5
<1>8. Since(x, 1, N + 1) <=> Since(w, 1, N) /\ u \notin Lose(k, m)
  BY <1>1, <1>3, <1>5
<1>9. \A z, n : Knows(k, z, K, n, u) <=>
                  \/ \E i \in 1 .. n : u \in Learn(k, z[i]) /\ Since(z, i, n)
                  \/ u \in K /\ Since(z, 1, n)
  BY DEF Knows
<1> HIDE DEF Since
<1>10. (\E i \in 1 .. N + 1 : u \in Learn(k, x[i]) /\ Since(x, i, N + 1)) <=>
         \/ (\E i \in 1 .. N : u \in Learn(k, w[i]) /\ Since(w, i, N)) /\ u \notin Lose(k, m)
         \/ u \in Learn(k, m) /\ u \notin Lose(k, m)
  BY <1>1, <1>3, <1>5, <1>6, <1>7
<1>11. Knows(k, x, K, N + 1, u) <=> (Knows(k, w, K, N, u) \/ u \in Learn(k, m)) /\ u \notin Lose(k, m)
  BY <1>8, <1>9, <1>10
<1> QED BY <1>2, <1>11 DEF x, N

LEMMA KnowsTail ==
  ASSUME NEW k, NEW w \in Seq(Msg), w # << >>, NEW K, NEW n \in 1 .. Len(w), NEW u
  PROVE  Knows(k, Tail(w), After(k, K, Head(w)), n - 1, u) <=> Knows(k, w, K, n, u)
<1> DEFINE x == Tail(w)
           N == Len(w)
           m == Head(w)
<1>1. N \in Nat /\ w[1] = m /\ \A i \in 1 .. N - 1 : x[i] = w[i + 1]
  OBVIOUS
<1>2. n \in Nat /\ 1 <= n /\ n <= N
  BY <1>1
<1> HIDE DEF x, N, m
<1> DEFINE Since(z, i, j) == \A l \in i .. j : u \notin Lose(k, z[l])
<1>3. ASSUME NEW i \in 1 .. n - 1 PROVE Since(x, i, n - 1) <=> Since(w, i + 1, n)
  <2>1. \A l \in i .. n - 1 : l + 1 \in i + 1 .. n /\ x[l] = w[l + 1]
    BY <1>1, <1>2
  <2>2. \A l \in i + 1 .. n : l - 1 \in i .. n - 1 /\ x[l - 1] = w[l]
    BY <1>1, <1>2
  <2> QED BY <2>1, <2>2
<1>4. Since(w, 1, n) <=> u \notin Lose(k, m) /\ Since(x, 1, n - 1)
  <2>1. \A l \in 1 .. n - 1 : l + 1 \in 1 .. n /\ x[l] = w[l + 1]
    BY <1>1, <1>2
  <2>2. \A l \in 1 .. n : l = 1 \/ (l - 1 \in 1 .. n - 1 /\ x[l - 1] = w[l])
    BY <1>1, <1>2
  <2>3. 1 \in 1 .. n
    BY <1>2
  <2> QED BY <1>1, <2>1, <2>2, <2>3
<1>5. \A z, L, j : Knows(k, z, L, j, u) <=>
                     \/ \E i \in 1 .. j : u \in Learn(k, z[i]) /\ Since(z, i, j)
                     \/ u \in L /\ Since(z, 1, j)
  BY DEF Knows
<1> HIDE DEF Since
<1>6. (\E i \in 1 .. n : u \in Learn(k, w[i]) /\ Since(w, i, n)) <=>
        \/ u \in Learn(k, m) /\ Since(w, 1, n)
        \/ \E i \in 1 .. n - 1 : u \in Learn(k, x[i]) /\ Since(x, i, n - 1)
  <2>1. \A i \in 1 .. n : i = 1 \/ (i - 1 \in 1 .. n - 1 /\ (i - 1) + 1 = i)
    BY <1>2
  <2>2. \A i \in 1 .. n - 1 : i + 1 \in 1 .. n /\ x[i] = w[i + 1]
    BY <1>1, <1>2
  <2>3. 1 \in 1 .. n
    BY <1>2
  <2> QED BY <1>1, <1>3, <2>1, <2>2, <2>3
<1>7. u \in After(k, K, m) <=> (u \in K \/ u \in Learn(k, m)) /\ u \notin Lose(k, m)
  BY DEF After
<1>8. Knows(k, x, After(k, K, m), n - 1, u) <=> Knows(k, w, K, n, u)
  BY <1>4, <1>5, <1>6, <1>7
<1> QED BY <1>8 DEF x, m

(* What changes a pair: b reads, a says something, and something happens   *)
(* to other clients.                                                       *)
LEMMA PairReads ==
  ASSUME NEW k, NEW a, NEW b, NEW w \in Seq(Msg), NEW K, NEW A,
         Pair(k, a, b, w, K, A), w # << >>
  PROVE  /\ Good_line(k, a, b, Head(w)) /\ Uses(k, Head(w)) \subseteq K
         /\ Pair(k, a, b, Tail(w), After(k, K, Head(w)), A)
<1> DEFINE x == Tail(w)
           N == Len(w)
           m == Head(w)
           M == After(k, K, m)
<1>1. /\ N \in Nat /\ N > 0 /\ Len(x) = N - 1 /\ w[1] = m
      /\ \A i \in 1 .. N - 1 : x[i] = w[i + 1]
  OBVIOUS
<1>2. \A n \in 1 .. N : \A u : Knows(k, x, M, n - 1, u) <=> Knows(k, w, K, n, u)
  BY KnowsTail
<1>3. Good_line(k, a, b, m) /\ \A u \in Uses(k, m) : Knows(k, w, K, 0, u)
  BY <1>1 DEF Pair
<1>4. \A u : Knows(k, w, K, 0, u) => u \in K
  BY DEF Knows
<1> HIDE DEF x, N, m, M
<1>5. ASSUME NEW i \in 1 .. Len(x)
      PROVE  Good_line(k, a, b, x[i]) /\ \A u \in Uses(k, x[i]) : Knows(k, x, M, i - 1, u)
  <2>1. i \in 1 .. N /\ i + 1 \in 1 .. N /\ x[i] = w[i + 1] /\ (i + 1) - 1 = i
    BY <1>1
  <2>2. Good_line(k, a, b, w[i + 1]) /\ \A u \in Uses(k, w[i + 1]) : Knows(k, w, K, i, u)
    BY <2>1 DEF Pair, N
  <2> QED BY <1>2, <2>1, <2>2
<1>6. ASSUME NEW u \in User, Via[b][Home[u]] = a PROVE u \in A <=> Knows(k, x, M, Len(x), u)
  <2>1. N \in 1 .. N
    BY <1>1
  <2>2. u \in A <=> Knows(k, w, K, N, u)
    BY <1>6 DEF Pair, N
  <2> QED BY <1>1, <1>2, <2>1, <2>2
<1>7. Pair(k, a, b, x, M, A)
  BY <1>5, <1>6 DEF Pair
<1> QED BY <1>3, <1>4, <1>7 DEF x, m, M

LEMMA PairSays ==
  ASSUME NEW k, NEW a, NEW b, NEW w \in Seq(Msg), NEW K, NEW A, Pair(k, a, b, w, K, A),
         NEW m \in Msg, Good_line(k, a, b, m), Uses(k, m) \subseteq A, Uses(k, m) \subseteq User
  PROVE  Pair(k, a, b, Append(w, m), K, After(k, A, m))
<1> DEFINE x == Append(w, m)
           N == Len(w)
           B == After(k, A, m)
<1>1. /\ N \in Nat /\ Len(x) = N + 1 /\ x[N + 1] = m /\ \A i \in 1 .. N : x[i] = w[i]
  OBVIOUS
<1>2. \A u : /\ \A n \in 0 .. N : Knows(k, x, K, n, u) <=> Knows(k, w, K, n, u)
             /\ Knows(k, x, K, N + 1, u) <=>
                  (Knows(k, w, K, N, u) \/ u \in Learn(k, m)) /\ u \notin Lose(k, m)
  BY KnowsAppend
<1>3. \A u \in User : Via[b][Home[u]] = a => (u \in A <=> Knows(k, w, K, N, u))
  BY DEF Pair
<1>4. \A i \in 1 .. N : Good_line(k, a, b, w[i]) /\ \A u \in Uses(k, w[i]) : Knows(k, w, K, i - 1, u)
  BY DEF Pair
<1> HIDE DEF x, N, B
<1>5. ASSUME NEW i \in 1 .. Len(x)
      PROVE  Good_line(k, a, b, x[i]) /\ \A u \in Uses(k, x[i]) : Knows(k, x, K, i - 1, u)
  <2>1. CASE i = N + 1
    <3>1. x[i] = m /\ i - 1 = N /\ N \in 0 .. N
      BY <1>1, <2>1
    <3>2. ASSUME NEW u \in Uses(k, m) PROVE Knows(k, w, K, N, u)
      <4>1. u \in User /\ Via[b][Home[u]] = a /\ u \in A
        BY DEF Good_line, About
      <4> QED BY <1>3, <4>1
    <3> QED BY <1>2, <3>1, <3>2
  <2>2. CASE i # N + 1
    <3>1. i \in 1 .. N /\ x[i] = w[i] /\ i - 1 \in 0 .. N
      BY <1>1, <2>2
    <3> QED BY <1>2, <1>4, <3>1
  <2> QED BY <2>1, <2>2
<1>6. ASSUME NEW u \in User, Via[b][Home[u]] = a PROVE u \in B <=> Knows(k, x, K, Len(x), u)
  <2>1. u \in B <=> (u \in A \/ u \in Learn(k, m)) /\ u \notin Lose(k, m)
    BY DEF B, After
  <2> QED BY <1>1, <1>2, <1>3, <1>6, <2>1
<1>7. Pair(k, a, b, x, K, B)
  BY <1>5, <1>6 DEF Pair
<1> QED BY <1>7 DEF x, B

LEMMA PairElsewhere ==
  ASSUME NEW k, NEW a, NEW b, NEW w \in Seq(Msg), NEW K, NEW A, Pair(k, a, b, w, K, A),
         NEW M, NEW B,
         \A i \in 1 .. Len(w) : Uses(k, w[i]) \subseteq User,
         \A u \in User : Via[b][Home[u]] = a => (u \in K <=> u \in M) /\ (u \in A <=> u \in B)
  PROVE  Pair(k, a, b, w, M, B)
<1>1. ASSUME NEW u \in User, Via[b][Home[u]] = a, NEW n
      PROVE  Knows(k, w, K, n, u) <=> Knows(k, w, M, n, u)
  BY <1>1, KnowsSame
<1>2. ASSUME NEW i \in 1 .. Len(w)
      PROVE  Good_line(k, a, b, w[i]) /\ \A u \in Uses(k, w[i]) : Knows(k, w, M, i - 1, u)
  <2>1. Good_line(k, a, b, w[i]) /\ \A u \in Uses(k, w[i]) : Knows(k, w, K, i - 1, u)
    BY DEF Pair
  <2>2. \A u \in Uses(k, w[i]) : u \in User /\ Via[b][Home[u]] = a
    BY <2>1 DEF Good_line, About
  <2> QED BY <1>1, <2>1, <2>2
<1>3. ASSUME NEW u \in User, Via[b][Home[u]] = a PROVE u \in B <=> Knows(k, w, M, Len(w), u)
  BY <1>1, <1>3 DEF Pair
<1> QED BY <1>2, <1>3 DEF Pair

(* Nothing is on its way, and b knows nobody behind a.                     *)
LEMMA PairSilent ==
  ASSUME NEW k, NEW a, NEW b, NEW K, NEW A,
         \A u \in User : Via[b][Home[u]] = a => (u \in K <=> u \in A)
  PROVE  Pair(k, a, b, << >>, K, A)
<1>1. \A u : Knows(k, << >>, K, 0, u) <=> u \in K
  BY DEF Knows
<1> QED BY <1>1 DEF Pair

(* The lines speak of clients.                                             *)
LEMMA UsesType ==
  ASSUME NEW k, NEW m \in Msg
  PROVE  Uses(k, m) \subseteq User /\ Learn(k, m) \subseteq User /\ Lose(k, m) \subseteq User
BY DEF Msg, SjoinMsg, ModeMsg, CModeMsg, PartMsg, KickMsg, NickMsg, ExitMsg, ServerMsg,
       Uses, Learn, Lose

(* What is on its way, and the names.                                      *)
LEMMA QueueTypes ==
  ASSUME NEW k, TypeOK, NEW a \in Server, NEW b \in Server
  PROVE  /\ q[a][b] \in Seq(Msg) /\ \A i \in 1 .. Len(q[a][b]) : Uses(k, q[a][b][i]) \subseteq User
         /\ Names(k, a) \subseteq User
<1>1. q[a][b] \in Seq(Msg)
  BY DEF TypeOK
<1>2. \A i \in 1 .. Len(q[a][b]) : q[a][b][i] \in Msg
  BY <1>1
<1>3. Names(k, a) \subseteq User
  BY DEF TypeOK, Names, Chan
<1> QED BY <1>1, <1>2, <1>3, UsesType

(* Members are known.                                                      *)
LEMMA NamesKnown ==
  ASSUME NEW k, IInv, NEW s \in Server
  PROVE  Names(k, s) \subseteq known[s] /\ known[s] \subseteq User
BY DEF IInv, GoodChan, Names, TypeOK

(* Who is not behind t is behind s, as t sees it.                          *)
LEMMA OtherSide ==
  ASSUME NEW s \in Server, NEW t \in Neighbours(s), NEW u \in User, Via[s][Home[u]] # t
  PROVE  Via[t][Home[u]] = s
<1>1. Home[u] \in Server
  BY ConstAssumption
<1> QED BY <1>1, Sides

(* A line changes nothing for who it does not speak of.                    *)
LEMMA AfterOthers ==
  ASSUME NEW k, NEW K, NEW m, NEW u, u \notin About(k, m)
  PROVE  u \in After(k, K, m) <=> u \in K
BY DEF After, About

(* s reads m from p, and relays e, which says the same, or nothing.        *)
LEMMA HeardTold ==
  ASSUME NEW k, TypeOK, Reach, Told(k), NEW s \in Server, NEW p \in Server,
         q[p][s] # << >>, NEW m, m = Head(q[p][s]), m.type # "SERVER",
         UNCHANGED links, Names(k, s)' = After(k, Names(k, s), m),
         \A x \in Server : x # s => Names(k, x)' = Names(k, x),
         \/ q' = Consume(s, p) /\ After(k, Names(k, s), m) = Names(k, s)
         \/ \E e \in Msg : /\ q' = ConsumeRelay(s, p, e) /\ e.type = m.type
                           /\ About(k, e) \subseteq About(k, m)
                           /\ Uses(k, e) \subseteq Names(k, s)
                           /\ e.type = "SJOIN" => e.names # {}
                           /\ After(k, Names(k, s), e) = After(k, Names(k, s), m)
  PROVE  Told(k)'
<1> DEFINE L(x) == Names(k, x)
           J == After(k, L(s), m)
<1>1. /\ s \in links[p] /\ p \in links[s] /\ s \in Neighbours(p) /\ p \in Neighbours(s) /\ p # s
  BY HeadFits, Sides DEF Reach
<1>2. /\ q[p][s] \in Seq(Msg) /\ m \in Msg /\ Good_line(k, p, s, m)
      /\ Pair(k, p, s, Tail(q[p][s]), J, L(p))
  <2>1. q[p][s] \in Seq(Msg) /\ m \in Msg
    BY QueueTypes
  <2>2. Pair(k, p, s, q[p][s], L(s), L(p))
    BY <1>1 DEF Told, Linked
  <2> QED BY <2>1, <2>2, PairReads
<1>3. About(k, m) \subseteq User /\ \A u \in About(k, m) : Via[s][Home[u]] = p
  BY <1>2, UsesType DEF Good_line, About
<1>a. /\ q'[p][s] = Tail(q[p][s])
      /\ \A x, y \in Server : x # s /\ ~(x = p /\ y = s) => q'[x][y] = q[x][y]
      /\ \A y \in Server : y \notin links[s] \ {p} => q'[s][y] = q[s][y]
  <2>1. CASE q' = Consume(s, p)
    BY <1>1, <2>1 DEF Consume, TypeOK
  <2>2. ASSUME NEW e \in Msg, q' = ConsumeRelay(s, p, e)
        PROVE  /\ q'[p][s] = Tail(q[p][s])
               /\ \A x, y \in Server : x # s /\ ~(x = p /\ y = s) => q'[x][y] = q[x][y]
               /\ \A y \in Server : y \notin links[s] \ {p} => q'[s][y] = q[s][y]
    BY <1>1, <2>2 DEF ConsumeRelay, TypeOK
  <2> QED BY <2>1, <2>2
<1>4. /\ L(s)' = J /\ \A x \in Server : x # s => L(x)' = L(x)
      /\ \A x, y \in Server : (y \in links'[x]) = (y \in links[x])
  BY DEF TypeOK
<1> SUFFICES ASSUME NEW a \in Server, NEW b \in Neighbours(a)
             PROVE  Pair(k, a, b, q'[a][b], L(b)', Linked(k, a, b)')
  BY DEF Told, Neighbours
<1>5. /\ b \in Server /\ a # b /\ a \in Neighbours(b)
      /\ Pair(k, a, b, q[a][b], L(b), Linked(k, a, b))
      /\ q[a][b] \in Seq(Msg) /\ \A i \in 1 .. Len(q[a][b]) : Uses(k, q[a][b][i]) \subseteq User
  BY Sides, QueueTypes DEF Told, Neighbours
<1>6. CASE a = p /\ b = s
  <2>1. q'[p][s] = Tail(q[p][s])
    BY <1>a
  <2>2. Linked(k, p, s)' = L(p)
    BY <1>1, <1>4 DEF Linked
  <2> QED BY <1>2, <1>4, <1>6, <2>1, <2>2
<1>7. CASE a = s /\ b \in links[s] \ {p}
  <2>1. L(b)' = L(b) /\ Linked(k, s, b) = L(s) /\ Linked(k, s, b)' = J
    BY <1>4, <1>5, <1>7 DEF Linked
  <2>2. CASE q' = Consume(s, p) /\ J = L(s)
    <3>1. q'[s][b] = q[s][b]
      BY <1>1, <1>5, <1>7, <2>2 DEF Consume, TypeOK
    <3> QED BY <1>5, <1>7, <2>1, <2>2, <3>1
  <2>3. ASSUME NEW e \in Msg, q' = ConsumeRelay(s, p, e), e.type = m.type,
               About(k, e) \subseteq About(k, m),
               Uses(k, e) \subseteq L(s), e.type = "SJOIN" => e.names # {},
               After(k, L(s), e) = J
        PROVE  Pair(k, a, b, q'[a][b], L(b)', Linked(k, a, b)')
    <3>1. q'[s][b] = Append(q[s][b], e)
      BY <1>1, <1>5, <1>7, <2>3 DEF ConsumeRelay, TypeOK
    <3>2. \A u \in About(k, e) : Via[b][Home[u]] = s
      <4> SUFFICES ASSUME NEW u \in About(k, e) PROVE Via[b][Home[u]] = s
        OBVIOUS
      <4>1. u \in User /\ Via[s][Home[u]] # b
        BY <1>3, <1>7, <2>3
      <4>2. b \in Neighbours(s)
        BY <1>5, <1>7
      <4> QED BY <4>1, <4>2, OtherSide
    <3>3. Good_line(k, s, b, e)
      BY <1>2, <2>3, <3>2 DEF Good_line
    <3>4. Pair(k, s, b, q[s][b], L(b), L(s)) /\ q[s][b] \in Seq(Msg)
      BY <1>5, <1>7, <2>1
    <3>5. Pair(k, s, b, Append(q[s][b], e), L(b), After(k, L(s), e))
      BY <2>3, <3>3, <3>4, UsesType, PairSays
    <3> QED BY <1>7, <2>1, <2>3, <3>1, <3>5
  <2> QED BY <2>2, <2>3
<1>8. CASE a = s /\ b \notin links[s]
  <2>1. q'[s][b] = q[s][b]
    BY <1>1, <1>5, <1>8, <1>a
  <2>2. L(b)' = L(b) /\ Linked(k, s, b)' = Linked(k, s, b)
    BY <1>4, <1>5, <1>8 DEF Linked
  <2> QED BY <1>5, <1>8, <2>1, <2>2
<1>9. CASE a = s /\ b = p
  <2>1. q'[s][p] = q[s][p]
    BY <1>1, <1>a
  <2>2. L(p)' = L(p) /\ Linked(k, s, p) = L(s) /\ Linked(k, s, p)' = J
    BY <1>1, <1>4 DEF Linked
  <2>3. ASSUME NEW u \in User, Via[p][Home[u]] = s
        PROVE  u \in L(s) <=> u \in J
    <3>1. Via[s][Home[u]] # p
      BY <1>1, <2>3, OtherSide, ConstAssumption, Sides
    <3>2. u \notin About(k, m)
      BY <1>3, <3>1
    <3> QED BY <3>2, AfterOthers
  <2>4. Pair(k, s, p, q[s][p], L(p), L(s))
    BY <1>5, <1>9, <2>2
  <2>5. Pair(k, s, p, q[s][p], L(p), J)
    BY <1>5, <1>9, <2>3, <2>4, PairElsewhere
  <2> QED BY <1>9, <2>1, <2>2, <2>5
<1>10. CASE a # s /\ b = s /\ a # p
  <2>1. q'[a][s] = q[a][s]
    BY <1>1, <1>5, <1>10, <1>a
  <2>2. L(s)' = J /\ Linked(k, a, s)' = Linked(k, a, s)
    BY <1>4, <1>10 DEF Linked
  <2>3. \A u \in User : Via[s][Home[u]] = a => (u \in L(s) <=> u \in J)
    BY <1>3, <1>10, AfterOthers
  <2>4. Pair(k, a, s, q[a][s], J, Linked(k, a, s))
    BY <1>5, <1>10, <2>3, PairElsewhere
  <2> QED BY <1>10, <2>1, <2>2, <2>4
<1>11. CASE a # s /\ b # s
  <2>1. q'[a][b] = q[a][b]
    BY <1>1, <1>5, <1>11, <1>a
  <2>2. L(b)' = L(b) /\ Linked(k, a, b)' = Linked(k, a, b)
    BY <1>4, <1>5, <1>11 DEF Linked
  <2> QED BY <1>5, <2>1, <2>2
<1> QED BY <1>6, <1>7, <1>8, <1>9, <1>10, <1>11

(* s tells all its neighbours something of its own clients.                *)
LEMMA SpokenTold ==
  ASSUME NEW k, TypeOK, Reach, Told(k), NEW s \in Server, NEW e \in Msg,
         UNCHANGED links, Names(k, s)' = After(k, Names(k, s), e),
         \A x \in Server : x # s => Names(k, x)' = Names(k, x),
         q' = Relay(s, s, e), Uses(k, e) \subseteq Names(k, s),
         \A u \in About(k, e) : Home[u] = s,
         e.type = "SJOIN" => e.names # {}, k = "members" => e.type # "KICK"
  PROVE  Told(k)'
<1> DEFINE L(x) == Names(k, x)
           J == After(k, L(s), e)
<1>1. Via[s][s] = s /\ About(k, e) \in SUBSET User
  BY ConstAssumption, UsesType DEF About
<1>4. /\ L(s)' = J /\ \A x \in Server : x # s => L(x)' = L(x)
      /\ \A x, y \in Server : (y \in links'[x]) = (y \in links[x])
  BY DEF TypeOK
<1> SUFFICES ASSUME NEW a \in Server, NEW b \in Neighbours(a)
             PROVE  Pair(k, a, b, q'[a][b], L(b)', Linked(k, a, b)')
  BY DEF Told, Neighbours
<1>5. /\ b \in Server /\ a # b /\ a \in Neighbours(b)
      /\ Pair(k, a, b, q[a][b], L(b), Linked(k, a, b))
      /\ q[a][b] \in Seq(Msg) /\ \A i \in 1 .. Len(q[a][b]) : Uses(k, q[a][b][i]) \subseteq User
  BY Sides, QueueTypes DEF Told, Neighbours
<1>6. q'[a][b] = IF a = s /\ b \in links[s] THEN Append(q[a][b], e) ELSE q[a][b]
  BY <1>5 DEF Relay, TypeOK
<1>7. CASE a = s /\ b \in links[s]
  <2>1. L(b)' = L(b) /\ Linked(k, s, b) = L(s) /\ Linked(k, s, b)' = J
    BY <1>4, <1>5, <1>7 DEF Linked
  <2>2. \A u \in About(k, e) : Via[b][Home[u]] = s
    <3> SUFFICES ASSUME NEW u \in About(k, e) PROVE Via[b][Home[u]] = s
      OBVIOUS
    <3>1. u \in User /\ Via[s][Home[u]] # b
      BY <1>1, <1>5, <1>7
    <3>2. b \in Neighbours(s)
      BY <1>5, <1>7
    <3> QED BY <3>1, <3>2, OtherSide
  <2>3. Good_line(k, s, b, e)
    BY <2>2 DEF Good_line
  <2>4. Pair(k, s, b, q[s][b], L(b), L(s)) /\ q[s][b] \in Seq(Msg)
    BY <1>5, <1>7, <2>1
  <2>5. Pair(k, s, b, Append(q[s][b], e), L(b), J)
    BY <2>3, <2>4, UsesType, PairSays
  <2> QED BY <1>6, <1>7, <2>1, <2>5
<1>8. CASE a = s /\ b \notin links[s]
  <2>1. L(b)' = L(b) /\ Linked(k, s, b)' = Linked(k, s, b)
    BY <1>4, <1>5, <1>8 DEF Linked
  <2> QED BY <1>5, <1>6, <1>8, <2>1
<1>9. CASE b = s
  <2>1. Linked(k, a, s)' = Linked(k, a, s) /\ q'[a][s] = q[a][s]
    BY <1>4, <1>5, <1>6, <1>9 DEF Linked
  <2>2. \A u \in User : Via[s][Home[u]] = a => (u \in L(s) <=> u \in J)
    BY <1>1, <1>5, <1>9, AfterOthers
  <2>3. Pair(k, a, s, q[a][s], J, Linked(k, a, s))
    BY <1>5, <1>9, <2>2, PairElsewhere
  <2> QED BY <1>4, <1>9, <2>1, <2>3
<1>10. CASE a # s /\ b # s
  <2>1. L(b)' = L(b) /\ Linked(k, a, b)' = Linked(k, a, b)
    BY <1>4, <1>5, <1>10 DEF Linked
  <2> QED BY <1>5, <1>6, <1>10, <2>1
<1> QED BY <1>7, <1>8, <1>9, <1>10

(* What each line says of the names.                                       *)
LEMMA Effects ==
  ASSUME NEW k \in Lists, NEW m
  PROVE  LET C == k = "clients"
             Says(learn, lose, uses) ==
               Learn(k, m) = learn /\ Lose(k, m) = lose /\ Uses(k, m) = uses
         IN  /\ m.type = "NICK" => Says(IF C THEN m.names ELSE {}, {}, {})
             /\ m.type = "EXIT" => Says({}, m.gone, {})
             /\ m.type = "SERVER" => Says({}, {}, {})
             /\ m.type = "SJOIN" => Says(IF C THEN {} ELSE m.names, {}, IF C THEN m.names ELSE {})
             /\ m.type \in {"MODE", "CMODE", "KICK"} => Says({}, {}, IF C THEN {m.src} ELSE {})
             /\ m.type = "PART" => Says({}, IF C THEN {} ELSE {m.src}, {m.src})
BY DEF Learn, Lose, Uses, Lists

(* A line that brings nobody and takes nobody.                             *)
LEMMA NoEffect ==
  ASSUME NEW k, NEW K, NEW m, Learn(k, m) = {}, Lose(k, m) = {}
  PROVE  After(k, K, m) = K /\ About(k, m) = Uses(k, m)
BY DEF After, About

(* The line s reads next speaks of names s has, all of them behind p.      *)
LEMMA HeadTold ==
  ASSUME NEW k, TypeOK, Reach, Told(k), NEW s \in Server, NEW p \in Server, q[p][s] # << >>
  PROVE  /\ Head(q[p][s]) \in Msg
         /\ Uses(k, Head(q[p][s])) \subseteq Names(k, s) /\ Good_line(k, p, s, Head(q[p][s]))
         /\ Pair(k, p, s, Tail(q[p][s]), After(k, Names(k, s), Head(q[p][s])), Names(k, p))
<1>1. s \in links[p] /\ s \in Neighbours(p) /\ q[p][s] \in Seq(Msg)
  BY HeadFits, QueueTypes DEF Reach
<1>2. Pair(k, p, s, q[p][s], Names(k, s), Names(k, p))
  BY <1>1 DEF Told, Linked
<1>3. Head(q[p][s]) \in Msg
  BY <1>1
<1> QED BY ONLY <1>1, <1>2, <1>3, PairReads, q[p][s] # << >>

(* sub1_from_channel takes the members out and leaves the others.          *)
LEMMA RemoveMembers ==
  ASSUME NEW c \in Chan, NEW gone PROVE RemoveUsers(c, gone).mem = c.mem \ gone
<1>1. CASE gone \cap c.mem = {}
  BY <1>1 DEF RemoveUsers
<1>2. CASE c.mem \subseteq gone
  BY <1>2 DEF RemoveUsers, Chan, NoChan
<1>3. CASE gone \cap c.mem # {} /\ ~(c.mem \subseteq gone)
  BY <1>3 DEF RemoveUsers, Chan
<1> QED BY <1>1, <1>2, <1>3

(* One lemma for each line that is read.                                   *)
LEMMA RecvNickTold ==
  ASSUME NEW k \in Lists, IInv, Reach, Told(k), NEW s \in Server, NEW p \in Server, RecvNick(s, p)
  PROVE  Told(k)'
<1> DEFINE m == Head(q[p][s])
<1>1. /\ q[p][s] # << >> /\ m.type = "NICK" /\ links' = links /\ ch' = ch
      /\ known' = [known EXCEPT ![s] = @ \cup m.names] /\ q' = ConsumeRelay(s, p, m) /\ TypeOK
  BY DEF RecvNick, NextLine, IInv
<1>2. m \in Msg
  BY <1>1, HeadTold
<1>3. m = Head(q[p][s])
  OBVIOUS
<1> HIDE DEF m
<1>4. /\ Learn(k, m) = (IF k = "clients" THEN m.names ELSE {}) /\ Lose(k, m) = {}
      /\ Uses(k, m) = {}
  BY <1>1, Effects
<1>5. known'[s] = known[s] \cup m.names /\ \A x \in Server : x # s => known'[x] = known[x]
  BY <1>1 DEF TypeOK
<1>6. Names(k, s)' = After(k, Names(k, s), m) /\ \A x \in Server : x # s => Names(k, x)' = Names(k, x)
  BY <1>1, <1>4, <1>5 DEF After, Names
<1>7. \E e \in Msg : /\ q' = ConsumeRelay(s, p, e) /\ e.type = m.type
                     /\ About(k, e) \subseteq About(k, m) /\ Uses(k, e) \subseteq Names(k, s)
                     /\ e.type = "SJOIN" => e.names # {}
                     /\ After(k, Names(k, s), e) = After(k, Names(k, s), m)
  BY <1>1, <1>2, <1>4
<1>8. m.type # "SERVER" /\ q[p][s] # << >> /\ links' = links /\ TypeOK
  BY <1>1
<1> QED BY ONLY <1>3, <1>6, <1>7, <1>8, HeardTold, Reach, Told(k), s \in Server, p \in Server

LEMMA RecvExitTold ==
  ASSUME NEW k \in Lists, IInv, Reach, Told(k), NEW s \in Server, NEW p \in Server, RecvExit(s, p)
  PROVE  Told(k)'
<1> DEFINE m == Head(q[p][s])
           gone == m.gone \cap known[s]
           e == [type |-> "EXIT", gone |-> gone]
<1>1. /\ q[p][s] # << >> /\ m.type = "EXIT" /\ links' = links /\ TypeOK
      /\ known' = [known EXCEPT ![s] = @ \ gone]
      /\ ch' = [ch EXCEPT ![s] = RemoveUsers(@, gone)]
      /\ q' = IF gone = {} THEN Consume(s, p) ELSE ConsumeRelay(s, p, e)
  BY DEF RecvExit, NextLine, IInv
<1>2. m \in Msg /\ Names(k, s) \subseteq known[s] /\ known[s] \subseteq User
  BY <1>1, HeadTold, NamesKnown
<1>3. e \in Msg /\ e.type = "EXIT" /\ e.gone = gone
  BY <1>2 DEF Msg, ExitMsg
<1>4. m = Head(q[p][s]) /\ gone = m.gone \cap known[s]
  OBVIOUS
<1> HIDE DEF m, gone, e
<1>5. /\ Learn(k, m) = {} /\ Lose(k, m) = m.gone /\ Uses(k, m) = {}
      /\ Learn(k, e) = {} /\ Lose(k, e) = gone /\ Uses(k, e) = {}
  BY <1>1, <1>3, Effects
<1>6. /\ After(k, Names(k, s), m) = Names(k, s) \ gone
      /\ After(k, Names(k, s), e) = Names(k, s) \ gone
      /\ About(k, e) \subseteq About(k, m)
  BY <1>2, <1>4, <1>5 DEF After, About
<1>7. Names(k, s)' = Names(k, s) \ gone /\ \A x \in Server : x # s => Names(k, x)' = Names(k, x)
  <2>1. /\ known'[s] = known[s] \ gone /\ ch'[s] = RemoveUsers(ch[s], gone) /\ ch[s] \in Chan
        /\ \A x \in Server : x # s => known'[x] = known[x] /\ ch'[x] = ch[x]
    BY <1>1 DEF TypeOK
  <2>2. ch'[s].mem = ch[s].mem \ gone
    BY <2>1, RemoveMembers
  <2> QED BY <2>1, <2>2 DEF Names
<1>8. m.type # "SERVER" /\ q[p][s] # << >> /\ links' = links /\ TypeOK
  BY <1>1
<1>9. \/ q' = Consume(s, p) /\ After(k, Names(k, s), m) = Names(k, s)
      \/ \E x \in Msg : /\ q' = ConsumeRelay(s, p, x) /\ x.type = m.type
                        /\ About(k, x) \subseteq About(k, m) /\ Uses(k, x) \subseteq Names(k, s)
                        /\ x.type = "SJOIN" => x.names # {}
                        /\ After(k, Names(k, s), x) = After(k, Names(k, s), m)
  <2>1. CASE gone = {}
    BY <1>1, <1>6, <2>1
  <2>2. CASE gone # {}
    BY <1>1, <1>3, <1>5, <1>6, <2>2
  <2> QED BY <2>1, <2>2
<1>10. Names(k, s)' = After(k, Names(k, s), m)
  BY <1>6, <1>7
<1> QED BY ONLY <1>4, <1>7, <1>8, <1>9, <1>10, HeardTold, Reach, Told(k), s \in Server, p \in Server

(* m_sjoin accepts all the nicks of a line that is understood.             *)
LEMMA RecvSjoinTold ==
  ASSUME NEW k \in Lists, IInv, Reach, Understood, Told(k),
         NEW s \in Server, NEW p \in Server, RecvSjoin(s, p)
  PROVE  Told(k)'
<1> DEFINE m == Head(q[p][s])
           kept == {u \in m.names : u \in known[s] /\ Via[s][Home[u]] = p}
<1>1. /\ q[p][s] # << >> /\ m.type = "SJOIN" /\ links' = links /\ known' = known /\ TypeOK
      /\ ch' = [ch EXCEPT ![s] = SjoinChan(@, m, kept)]
      /\ \/ kept = {} /\ q' = Consume(s, p)
         \/ \E lead \in kept : q' = ConsumeRelay(s, p, SjoinRelay(ch[s], m, kept, lead))
  BY DEF RecvSjoin, NextLine, IInv
<1>2. m \in Msg /\ m \in SjoinMsg /\ ch[s] \in Chan
  BY <1>1, NextLineType, HeadTold DEF TypeOK
<1>3. m = Head(q[p][s]) /\ kept = m.names /\ m.names # {}
  BY <1>1 DEF Understood
<1>4. m.names \in SUBSET User /\ Uses(k, m) \subseteq Names(k, s)
  BY <1>1, <1>2, HeadTold DEF SjoinMsg
<1> HIDE DEF m, kept
<1>5. PICK lead \in m.names : q' = ConsumeRelay(s, p, SjoinRelay(ch[s], m, m.names, lead))
  BY <1>1, <1>3
<1>6. PICK e : e = SjoinRelay(ch[s], m, m.names, lead)
  OBVIOUS
<1>7. e \in Msg /\ e.type = "SJOIN" /\ e.names = m.names
  <2>1. e \in SjoinMsg
    BY <1>2, <1>4, <1>6, SjoinRelayType
  <2> QED BY <1>6, <2>1 DEF Msg, SjoinMsg, SjoinRelay, Sjoin
<1>8. /\ Learn(k, e) = Learn(k, m) /\ Lose(k, e) = Lose(k, m) /\ Uses(k, e) = Uses(k, m)
      /\ Learn(k, m) = (IF k = "clients" THEN {} ELSE m.names) /\ Lose(k, m) = {}
  <2>1. /\ Learn(k, m) = (IF k = "clients" THEN {} ELSE m.names) /\ Lose(k, m) = {}
        /\ Uses(k, m) = (IF k = "clients" THEN m.names ELSE {})
    BY <1>1, Effects
  <2>2. /\ Learn(k, e) = (IF k = "clients" THEN {} ELSE e.names) /\ Lose(k, e) = {}
        /\ Uses(k, e) = (IF k = "clients" THEN e.names ELSE {})
    BY <1>7, Effects
  <2> QED BY <1>7, <2>1, <2>2
<1>9. \E x \in Msg : /\ q' = ConsumeRelay(s, p, x) /\ x.type = m.type
                     /\ About(k, x) \subseteq About(k, m) /\ Uses(k, x) \subseteq Names(k, s)
                     /\ x.type = "SJOIN" => x.names # {}
                     /\ After(k, Names(k, s), x) = After(k, Names(k, s), m)
  BY <1>1, <1>3, <1>4, <1>5, <1>6, <1>7, <1>8 DEF After, About
<1>10. Names(k, s)' = After(k, Names(k, s), m) /\ \A x \in Server : x # s => Names(k, x)' = Names(k, x)
  <2>1. ch'[s] = SjoinChan(ch[s], m, m.names) /\ \A x \in Server : x # s => ch'[x] = ch[x]
    BY <1>1, <1>3 DEF TypeOK
  <2>2. ch'[s].mem = ch[s].mem \cup m.names
    BY <2>1 DEF SjoinChan
  <2> QED BY <1>1, <1>8, <2>1, <2>2 DEF After, Names
<1>11. m.type # "SERVER" /\ q[p][s] # << >> /\ links' = links /\ TypeOK
  BY <1>1
<1>12. m = Head(q[p][s])
  BY <1>3
<1>13. \/ q' = Consume(s, p) /\ After(k, Names(k, s), m) = Names(k, s)
       \/ \E x \in Msg : /\ q' = ConsumeRelay(s, p, x) /\ x.type = m.type
                         /\ About(k, x) \subseteq About(k, m) /\ Uses(k, x) \subseteq Names(k, s)
                         /\ x.type = "SJOIN" => x.names # {}
                         /\ After(k, Names(k, s), x) = After(k, Names(k, s), m)
  BY ONLY <1>9
<1> QED BY ONLY <1>10, <1>11, <1>12, <1>13, HeardTold, Reach, Told(k), s \in Server, p \in Server

(* MODE, PART and KICK: the client who speaks is known here.               *)
LEMMA RecvLineTold ==
  ASSUME NEW k \in Lists, IInv, Reach, Understood, Told(k), NEW s \in Server, NEW p \in Server,
         RecvMode(s, p) \/ RecvCMode(s, p) \/ RecvPart(s, p) \/ RecvKick(s, p)
  PROVE  Told(k)'
<1> DEFINE m == Head(q[p][s])
<1>1. /\ q[p][s] # << >> /\ m.type \in {"MODE", "CMODE", "PART", "KICK"} /\ TypeOK
      /\ links' = links /\ known' = known
  BY DEF RecvMode, RecvCMode, RecvPart, RecvKick, NextLine, IInv
<1>2. m \in Msg /\ m.src \in known[s] /\ Uses(k, m) \subseteq Names(k, s) /\ Good_line(k, p, s, m)
  BY <1>1, HeadTold DEF Understood
<1>3. /\ ch[s] \in Chan /\ \A x \in Server : x # s => ch'[x] = ch[x]
      /\ q' = Consume(s, p) \/ q' = ConsumeRelay(s, p, m)
  BY <1>1, <1>2 DEF RecvMode, RecvCMode, RecvPart, RecvKick, TypeOK
<1>4. CASE k = "clients" \/ m.type \in {"MODE", "CMODE"}
  <2>1. Learn(k, m) = {} /\ Lose(k, m) = {}
    BY <1>1, <1>4, Effects
  <2>2. After(k, Names(k, s), m) = Names(k, s)
    BY <2>1, NoEffect
  <2>3. k = "members" => ch'[s].mem = ch[s].mem
    <3>1. CASE m.type = "MODE"
      <4>1. \/ ch' = [ch EXCEPT ![s] = change_chan_flag(@, m.who, m.flag, m.add)]
            \/ ch' = [ch EXCEPT ![s] = set_deopped(@, m.who)] \/ ch' = ch
        <5>1. RecvMode(s, p)
          BY <3>1 DEF RecvMode, RecvCMode, RecvPart, RecvKick, NextLine
        <5>2. ch' = [ch EXCEPT ![s] = ch[s]] => ch' = ch
          BY <1>1 DEF TypeOK
        <5> QED BY <1>2, <5>1, <5>2 DEF RecvMode
      <4>2. /\ change_chan_flag(ch[s], m.who, m.flag, m.add).mem = ch[s].mem
            /\ set_deopped(ch[s], m.who).mem = ch[s].mem
        BY <1>3 DEF change_chan_flag, set_deopped, Chan
      <4>3. ch \in [Server -> Chan]
        BY <1>1 DEF TypeOK
      <4> QED BY ONLY <4>1, <4>2, <4>3, s \in Server
    <3>2. CASE m.type = "CMODE"
      <4>1. RecvCMode(s, p)
        BY <3>2 DEF RecvMode, RecvCMode, RecvPart, RecvKick, NextLine
      <4>2. (\E mode : ch' = [ch EXCEPT ![s].mode = mode]) \/ ch' = ch
        BY <1>2, <4>1 DEF RecvCMode
      <4> QED BY <1>1, <1>3, <4>2 DEF TypeOK, Chan
    <3> QED BY ONLY <1>4, <3>1, <3>2
  <2>4. Names(k, s)' = After(k, Names(k, s), m) /\ \A x \in Server : x # s => Names(k, x)' = Names(k, x)
    BY <1>1, <1>3, <2>2, <2>3 DEF Names, Lists
  <2>5. \/ q' = Consume(s, p) /\ After(k, Names(k, s), m) = Names(k, s)
        \/ \E e \in Msg : /\ q' = ConsumeRelay(s, p, e) /\ e.type = m.type
                          /\ About(k, e) \subseteq About(k, m) /\ Uses(k, e) \subseteq Names(k, s)
                          /\ e.type = "SJOIN" => e.names # {}
                          /\ After(k, Names(k, s), e) = After(k, Names(k, s), m)
    BY <1>1, <1>2, <1>3, <2>2
  <2>6. m.type # "SERVER" /\ q[p][s] # << >> /\ links' = links /\ TypeOK /\ m = Head(q[p][s])
    BY <1>1
  <2> HIDE DEF m
  <2> QED BY ONLY <2>4, <2>5, <2>6, HeardTold, Reach, Told(k), s \in Server, p \in Server
<1>5. CASE k = "members" /\ m.type = "PART"
  <2>1. Learn(k, m) = {} /\ Lose(k, m) = {m.src} /\ Uses(k, m) = {m.src}
    BY <1>5, Effects
  <2>2. m.src \in ch[s].mem
    BY <1>2, <1>5, <2>1 DEF Names
  <2>3. RecvPart(s, p)
    BY <1>5 DEF RecvMode, RecvCMode, RecvPart, RecvKick, NextLine
  <2>4. ch' = [ch EXCEPT ![s] = RemoveUsers(@, {m.src})] /\ q' = ConsumeRelay(s, p, m)
    BY <1>2, <2>2, <2>3 DEF RecvPart
  <2>5. ch'[s].mem = ch[s].mem \ {m.src}
    BY <1>1, <1>3, <2>4, RemoveMembers DEF TypeOK
  <2>6. Names(k, s)' = After(k, Names(k, s), m) /\ \A x \in Server : x # s => Names(k, x)' = Names(k, x)
    BY <1>3, <1>5, <2>1, <2>5 DEF Names, After
  <2>7. \E e \in Msg : /\ q' = ConsumeRelay(s, p, e) /\ e.type = m.type
                       /\ About(k, e) \subseteq About(k, m) /\ Uses(k, e) \subseteq Names(k, s)
                       /\ e.type = "SJOIN" => e.names # {}
                       /\ After(k, Names(k, s), e) = After(k, Names(k, s), m)
    BY <1>2, <1>5, <2>4
  <2>8. m.type # "SERVER" /\ q[p][s] # << >> /\ links' = links /\ TypeOK /\ m = Head(q[p][s])
    BY <1>1, <1>5
  <2> HIDE DEF m
  <2> QED BY ONLY <2>6, <2>7, <2>8, HeardTold, Reach, Told(k), s \in Server, p \in Server
<1>6. ~(k = "members" /\ m.type = "KICK")
  BY <1>2 DEF Good_line
<1> QED BY <1>1, <1>4, <1>5, <1>6 DEF Lists

(* The clients a command speaks of are the server's own.                   *)
LEMMA JoinTold ==
  ASSUME NEW k \in Lists, IInv, Reach, Told(k), NEW u \in User, Join(u) PROVE Told(k)'
<1> DEFINE s == Home[u]
           mode == [NoMode EXCEPT !.flags = NewModes]
           fl == [NoFlags EXCEPT ![u] = {"o"}]
<1>1. /\ s \in Server /\ links' = links /\ known' = known /\ ch[s] \in Chan /\ TypeOK
      /\ u \in known[s] /\ s = Home[u] /\ (~ch[s].on => ch[s].mem = {})
  BY ConstAssumption DEF Join, IInv, TypeOK, GoodChan, WellFormed
<1>2. /\ NoMode \in ModeRec /\ mode \in ModeRec
      /\ NoFlags \in [User -> SUBSET Prefix] /\ fl \in [User -> SUBSET Prefix]
  <2>1. NoMode \in ModeRec
    BY ConstAssumption DEF NoMode, ModeRec, Arg
  <2>2. NoFlags \in [User -> SUBSET Prefix] /\ "o" \in Prefix
    BY DEF NoFlags, Prefix
  <2>3. mode \in ModeRec
    BY <2>1, ConstAssumption DEF ModeRec
  <2>4. fl \in [User -> SUBSET Prefix]
    BY <2>2
  <2> QED BY <2>1, <2>2, <2>3, <2>4
<1>3. \/ q' = Relay(s, s, Sjoin(ch[s].ts, FALSE, NoMode, u, {u}, NoFlags))
      \/ \E now \in TSVal : q' = Relay(s, s, Sjoin(now, FALSE, mode, u, {u}, fl))
  BY DEF Join
<1>a. ch'[s].mem = ch[s].mem \cup {u} /\ \A x \in Server : x # s => ch'[x] = ch[x]
  <2>1. CASE ch[s].on
    <3>1. ch' = [ch EXCEPT ![s].mem = @ \cup {u}]
      BY <2>1 DEF Join
    <3> QED BY <1>1, <3>1 DEF TypeOK, Chan
  <2>2. CASE ~ch[s].on
    <3>1. PICK now : ch' = [ch EXCEPT ![s] = [on |-> TRUE, ts |-> now, mem |-> {u},
                                              fl |-> fl, mode |-> mode]]
      BY <2>2 DEF Join
    <3> QED BY <1>1, <2>2, <3>1 DEF TypeOK
  <2> QED BY <2>1, <2>2
<1> HIDE DEF mode, fl, s
<1>4. \A ts \in TSVal :
         /\ Sjoin(ts, FALSE, NoMode, u, {u}, NoFlags) \in SjoinMsg
         /\ Sjoin(ts, FALSE, NoMode, u, {u}, NoFlags).names = {u}
         /\ Sjoin(ts, FALSE, mode, u, {u}, fl) \in SjoinMsg
         /\ Sjoin(ts, FALSE, mode, u, {u}, fl).names = {u}
  BY <1>2 DEF Sjoin, SjoinMsg
<1>5. ch[s].ts \in TSVal
  BY <1>1 DEF Chan
<1>6. PICK e \in SjoinMsg : q' = Relay(s, s, e) /\ e.names = {u}
  BY <1>3, <1>4, <1>5
<1>7. e \in Msg /\ e.type = "SJOIN" /\ e.names # {}
  BY <1>6 DEF SjoinMsg, Msg
<1>8. /\ Learn(k, e) = (IF k = "clients" THEN {} ELSE {u}) /\ Lose(k, e) = {}
      /\ Uses(k, e) = (IF k = "clients" THEN {u} ELSE {})
  BY <1>6, <1>7, Effects
<1>9. Names(k, s)' = After(k, Names(k, s), e) /\ \A x \in Server : x # s => Names(k, x)' = Names(k, x)
  BY <1>1, <1>8, <1>a DEF After, Names
<1>10. Uses(k, e) \subseteq Names(k, s) /\ \A v \in About(k, e) : Home[v] = s
  BY <1>1, <1>8 DEF Names, About
<1>11. q' = Relay(s, s, e) /\ links' = links /\ TypeOK /\ s \in Server
  BY <1>1, <1>6
<1>12. (e.type = "SJOIN" => e.names # {}) /\ (k = "members" => e.type # "KICK")
  BY <1>7
<1> QED BY ONLY <1>7, <1>9, <1>10, <1>11, <1>12, SpokenTold, Reach, Told(k)

(* A MODE of a client of this server; also a KICK, for the clients' list.  *)
LEMMA SpeaksTold ==
  ASSUME NEW k \in Lists, IInv, Reach, Told(k), NEW u \in User, NEW e \in Msg, e.src = u,
         e.type \in {"MODE", "CMODE", "KICK"}, k = "members" => e.type # "KICK",
         u \in known[Home[u]], UNCHANGED <<links, known>>, q' = Relay(Home[u], Home[u], e),
         k = "members" => \A x \in Server : ch'[x].mem = ch[x].mem
  PROVE  Told(k)'
<1> DEFINE s == Home[u]
<1>1. s \in Server /\ q' = Relay(s, s, e) /\ u \in known[s] /\ s = Home[u] /\ TypeOK
  BY ConstAssumption DEF IInv
<1> HIDE DEF s
<1>2. /\ Learn(k, e) = {} /\ Lose(k, e) = {}
      /\ Uses(k, e) = (IF k = "clients" THEN {u} ELSE {})
  BY Effects
<1>3. After(k, Names(k, s), e) = Names(k, s) /\ About(k, e) = Uses(k, e)
  BY <1>2, NoEffect
<1>4. Names(k, s)' = After(k, Names(k, s), e) /\ \A x \in Server : x # s => Names(k, x)' = Names(k, x)
  BY <1>1, <1>3 DEF Names, Lists
<1>5. Uses(k, e) \subseteq Names(k, s) /\ (\A v \in About(k, e) : Home[v] = s) /\ links' = links
  BY <1>1, <1>2, <1>3 DEF Names
<1>6. e.type = "SJOIN" => e.names # {}
  OBVIOUS
<1> QED BY ONLY <1>1, <1>4, <1>5, <1>6, e \in Msg, k = "members" => e.type # "KICK",
           SpokenTold, Reach, Told(k)

LEMMA PartTold ==
  ASSUME NEW k \in Lists, IInv, Reach, Told(k), NEW u \in User, Part(u) PROVE Told(k)'
<1> DEFINE s == Home[u]
           e == [type |-> "PART", src |-> u]
<1>1. /\ s \in Server /\ s = Home[u] /\ links' = links /\ known' = known /\ TypeOK
      /\ u \in ch[s].mem /\ ch[s] \in Chan
      /\ ch' = [ch EXCEPT ![s] = RemoveUsers(@, {u})] /\ q' = Relay(s, s, e)
  BY ConstAssumption DEF Part, IInv, TypeOK
<1>2. e \in Msg /\ e.type = "PART" /\ e.src = u
  BY DEF Msg, PartMsg
<1>3. ch[s].mem \subseteq known[s]
  BY <1>1 DEF IInv, GoodChan
<1> HIDE DEF s, e
<1>4. /\ Learn(k, e) = {} /\ Lose(k, e) = (IF k = "clients" THEN {} ELSE {u})
      /\ Uses(k, e) = {u}
  BY <1>2, Effects
<1>5. ch'[s].mem = ch[s].mem \ {u} /\ \A x \in Server : x # s => ch'[x] = ch[x]
  BY <1>1, RemoveMembers DEF TypeOK
<1>6. Names(k, s)' = After(k, Names(k, s), e) /\ \A x \in Server : x # s => Names(k, x)' = Names(k, x)
  BY <1>1, <1>4, <1>5 DEF After, Names
<1>7. Uses(k, e) \subseteq Names(k, s) /\ \A v \in About(k, e) : Home[v] = s
  BY <1>1, <1>3, <1>4 DEF Names, About
<1>8. (e.type = "SJOIN" => e.names # {}) /\ (k = "members" => e.type # "KICK") /\ e \in Msg
  BY <1>2
<1> QED BY ONLY <1>1, <1>6, <1>7, <1>8, SpokenTold, Reach, Told(k)

(* A KICK takes nobody off the list of clients.                            *)
LEMMA KickTold ==
  ASSUME IInv, Reach, ClientsTold, NEW u \in User, NEW w \in User, Kick(u, w)
  PROVE  ClientsTold'
<1> DEFINE e == [type |-> "KICK", src |-> u, who |-> w]
<1>1. e \in Msg /\ e.type = "KICK" /\ e.src = u
  BY DEF Msg, KickMsg
<1>2. u \in known[Home[u]] /\ q' = Relay(Home[u], Home[u], e) /\ UNCHANGED <<links, known>>
  BY DEF Kick
<1>3. "clients" \in Lists /\ "clients" # "members"
  BY DEF Lists
<1> HIDE DEF e
<1>4. Told("clients")'
  BY <1>1, <1>2, <1>3, SpeaksTold DEF ClientsTold
<1> QED BY <1>4 DEF ClientsTold

LEMMA UserModeTold ==
  ASSUME NEW k \in Lists, IInv, Reach, Told(k), NEW u \in User, NEW w \in User,
         NEW f \in Prefix, NEW add \in BOOLEAN, UserMode(u, w, f, add)
  PROVE  Told(k)'
<1> DEFINE e == [type |-> "MODE", src |-> u, who |-> w, flag |-> f, add |-> add]
<1>1. e \in Msg /\ e.type = "MODE" /\ e.src = u
  BY DEF Msg, ModeMsg
<1>2. u \in known[Home[u]] /\ q' = Relay(Home[u], Home[u], e) /\ UNCHANGED <<links, known>>
  BY DEF UserMode
<1>3. \A x \in Server : ch'[x].mem = ch[x].mem
  <2>1. Home[u] \in Server /\ ch \in [Server -> Chan]
    BY ConstAssumption DEF IInv, TypeOK
  <2>2. ch' = [ch EXCEPT ![Home[u]] = change_chan_flag(@, w, f, add)]
    BY DEF UserMode
  <2>3. change_chan_flag(ch[Home[u]], w, f, add).mem = ch[Home[u]].mem
    BY <2>1 DEF change_chan_flag, Chan
  <2> QED BY <2>1, <2>2, <2>3
<1> HIDE DEF e
<1> QED BY <1>1, <1>2, <1>3, SpeaksTold

LEMMA ChanModeTold ==
  ASSUME NEW k \in Lists, IInv, Reach, Told(k), NEW u \in User, NEW change \in Change,
         NEW add \in BOOLEAN, ChanMode(u, change, add)
  PROVE  Told(k)'
<1> DEFINE e == [type |-> "CMODE", src |-> u, change |-> change, add |-> add]
<1>1. change \in ModeRec
  BY ConstAssumption DEF Change, ModeRec, Arg
<1>2. e \in Msg /\ e.type = "CMODE" /\ e.src = u
  BY <1>1 DEF Msg, CModeMsg
<1>3. u \in known[Home[u]] /\ q' = Relay(Home[u], Home[u], e) /\ UNCHANGED <<links, known>>
  BY DEF ChanMode
<1>4. \A x \in Server : ch'[x].mem = ch[x].mem
  <2>1. Home[u] \in Server /\ ch \in [Server -> Chan]
    BY ConstAssumption DEF IInv, TypeOK
  <2>2. \E mode : ch' = [ch EXCEPT ![Home[u]].mode = mode]
    BY DEF ChanMode
  <2> QED BY <2>1, <2>2 DEF Chan
<1> HIDE DEF e
<1> QED BY <1>2, <1>3, <1>4, SpeaksTold

(* A client leaves by its own server.                                      *)
LEMMA QuitTold ==
  ASSUME NEW k \in Lists, IInv, Reach, Told(k), NEW u \in User, Quit(u) PROVE Told(k)'
<1> DEFINE s == Home[u]
           e == [type |-> "EXIT", gone |-> {u}]
<1>1. /\ s \in Server /\ s = Home[u] /\ links' = links /\ TypeOK /\ ch[s] \in Chan
      /\ known' = [known EXCEPT ![s] = @ \ {u}]
      /\ ch' = [ch EXCEPT ![s] = RemoveUsers(@, {u})] /\ q' = Relay(s, s, e)
  BY ConstAssumption DEF Quit, Leave, IInv, TypeOK
<1>2. e \in Msg /\ e.type = "EXIT" /\ e.gone = {u}
  BY DEF Msg, ExitMsg
<1> HIDE DEF s, e
<1>3. Uses(k, e) = {} /\ Learn(k, e) = {} /\ Lose(k, e) = {u}
  BY <1>2, Effects
<1>4. /\ ch'[s].mem = ch[s].mem \ {u} /\ known'[s] = known[s] \ {u}
      /\ \A x \in Server : x # s => ch'[x] = ch[x] /\ known'[x] = known[x]
  BY <1>1, RemoveMembers DEF TypeOK
<1>5. Names(k, s)' = After(k, Names(k, s), e) /\ \A x \in Server : x # s => Names(k, x)' = Names(k, x)
  BY <1>1, <1>3, <1>4 DEF After, Names
<1>6. Uses(k, e) \subseteq Names(k, s) /\ \A v \in About(k, e) : Home[v] = s
  BY <1>1, <1>3 DEF About
<1>7. (e.type = "SJOIN" => e.names # {}) /\ (k = "members" => e.type # "KICK") /\ e \in Msg
  BY <1>2
<1> QED BY ONLY <1>1, <1>5, <1>6, <1>7, SpokenTold, Reach, Told(k)

(* What one end has is on its side, as long as it does not hold the link.  *)
LEMMA NamesBehind ==
  ASSUME NEW k, IInv, KnownReachable, NEW s \in Server, NEW t \in Neighbours(s), t \notin links[s]
  PROVE  /\ Names(k, s) \subseteq User /\ \A u \in Names(k, s) : Via[t][Home[u]] = s
         /\ \A u \in User : Via[s][Home[u]] = t => u \notin Names(k, s)
<1>1. ASSUME NEW u \in Names(k, s) PROVE u \in User /\ Via[s][Home[u]] # t
  <2>1. u \in User /\ u \in known[s]
    BY NamesKnown
  <2>2. Via[s][s] = s /\ s # t
    BY ConstAssumption, Sides
  <2>3. Home[u] = s \/ Via[s][Home[u]] \in links[s]
    BY <2>1 DEF KnownReachable
  <2> QED BY <2>1, <2>2, <2>3
<1>2. ASSUME NEW u \in Names(k, s) PROVE Via[t][Home[u]] = s
  BY <1>1, OtherSide
<1> QED BY <1>1, <1>2

(* The channel goes out in no, one or two lines, with all its members.     *)
LEMMA NjoinCases ==
  ASSUME NEW c \in Chan, NEW l \in NjoinLines(c)
  PROVE  \/ l = << >> /\ c.mem = {}
         \/ \E x \in SjoinMsg : l = <<x>> /\ x.names # {} /\ x.names = c.mem
         \/ \E x, y \in SjoinMsg : /\ l = <<x, y>> /\ x.names # {} /\ y.names # {}
                                   /\ x.names \cup y.names = c.mem
<1> DEFINE One(lead, n) == Sjoin(c.ts, FALSE, c.mode, lead, n, Prefixes(c))
           Two(lead, n) == Sjoin(c.ts, TRUE, NoMode, lead, n, Prefixes(c))
<1>1. Prefixes(c) \in [User -> SUBSET Prefix] /\ NoMode \in ModeRec
  BY ConstAssumption DEF Prefixes, Chan, NoMode, ModeRec, Arg
<1>2. ASSUME NEW lead \in User, NEW n \in SUBSET User
      PROVE  /\ One(lead, n) \in SjoinMsg /\ One(lead, n).names = n
             /\ Two(lead, n) \in SjoinMsg /\ Two(lead, n).names = n
  BY <1>1 DEF Sjoin, SjoinMsg, Chan
<1>3. c.mem \subseteq User /\ Leads(c, c.mem) \subseteq User
  BY DEF Leads, Ops, Chan
<1>4. \/ c.mem = {} /\ l = << >>
      \/ c.mem # {} /\ \E lead \in Leads(c, c.mem) : l = <<One(lead, c.mem)>>
      \/ \E r \in c.mem \X c.mem \X SUBSET c.mem :
           r[1] \in r[3] /\ r[2] \notin r[3] /\ l = <<One(r[1], r[3]), Two(r[2], c.mem \ r[3])>>
  BY DEF NjoinLines
<1> HIDE DEF One, Two
<1>5. CASE c.mem # {} /\ \E lead \in Leads(c, c.mem) : l = <<One(lead, c.mem)>>
  <2>1. PICK lead \in User : l = <<One(lead, c.mem)>>
    BY <1>3, <1>5
  <2>2. One(lead, c.mem) \in SjoinMsg /\ One(lead, c.mem).names = c.mem
    BY <1>2, <1>3
  <2> QED BY <1>5, <2>1, <2>2
<1>6. CASE \E r \in c.mem \X c.mem \X SUBSET c.mem :
             r[1] \in r[3] /\ r[2] \notin r[3] /\ l = <<One(r[1], r[3]), Two(r[2], c.mem \ r[3])>>
  <2>1. PICK r \in c.mem \X c.mem \X SUBSET c.mem :
             r[1] \in r[3] /\ r[2] \notin r[3] /\ l = <<One(r[1], r[3]), Two(r[2], c.mem \ r[3])>>
    BY <1>6
  <2>2. /\ r[1] \in User /\ r[2] \in User /\ r[3] \in SUBSET User
        /\ c.mem \ r[3] \in SUBSET User /\ r[3] # {} /\ r[3] \subseteq c.mem
        /\ c.mem \ r[3] # {}
    BY <1>3, <2>1
  <2>3. r[3] \cup (c.mem \ r[3]) = c.mem
    BY <2>2
  <2>4. /\ One(r[1], r[3]) \in SjoinMsg /\ One(r[1], r[3]).names = r[3]
        /\ Two(r[2], c.mem \ r[3]) \in SjoinMsg /\ Two(r[2], c.mem \ r[3]).names = c.mem \ r[3]
    BY <1>2, <2>2
  <2>5. PICK x \in SjoinMsg : x = One(r[1], r[3])
    BY <2>4
  <2>6. PICK y \in SjoinMsg : y = Two(r[2], c.mem \ r[3])
    BY <2>4
  <2>7. /\ l = <<x, y>> /\ x.names # {} /\ y.names # {} /\ x.names \cup y.names = c.mem
    BY <2>1, <2>2, <2>3, <2>4, <2>5, <2>6
  <2> QED BY <2>7
<1> QED BY <1>4, <1>5, <1>6

(* One and two lines.                                                      *)
LEMMA TwoLines ==
  ASSUME NEW x \in Msg, NEW y \in Msg
  PROVE  /\ Append(<< >>, x) = <<x>> /\ Append(<<x>>, y) = <<x, y>>
         /\ <<x>> \in Seq(Msg) /\ <<x, y>> \in Seq(Msg)
<1>1. Append(<< >>, x) = <<x>> /\ <<x>> \in Seq(Msg)
  OBVIOUS
<1> DEFINE w == <<x>>
           v == <<x, y>>
<1>2. w \in Seq(Msg) /\ Len(w) = 1 /\ w[1] = x
  OBVIOUS
<1>3. v \in Seq(Msg) /\ Len(v) = 2 /\ v[1] = x /\ v[2] = y
  BY ShortSeq
<1> HIDE DEF w, v
<1>4. /\ Append(w, y) \in Seq(Msg) /\ Len(Append(w, y)) = 2
      /\ Append(w, y)[1] = x /\ Append(w, y)[2] = y
  <2>1. /\ Append(w, y) \in Seq(Msg) /\ Len(Append(w, y)) = Len(w) + 1
        /\ \A i \in 1 .. Len(w) : Append(w, y)[i] = w[i]
        /\ Append(w, y)[Len(w) + 1] = y
    <3>1. w \in Seq(Msg) /\ y \in Msg
      BY <1>2
    <3> QED BY ONLY <3>1, AppendProperties
  <2>2. 1 \in 1 .. Len(w) /\ Len(w) + 1 = 2
    BY <1>2
  <2> QED BY <1>2, <2>1, <2>2
<1>5. Append(w, y) = v
  <2>1. \A i \in 1 .. 2 : Append(w, y)[i] = v[i]
    BY <1>3, <1>4
  <2> QED BY <1>3, <1>4, <2>1, SeqEqual
<1> QED BY <1>1, <1>3, <1>5 DEF w, v

(* An SJOIN of clients that have been introduced.                          *)
LEMMA PairSjoin ==
  ASSUME NEW k \in Lists, NEW a, NEW b, NEW w \in Seq(Msg), NEW K, NEW A, Pair(k, a, b, w, K, A),
         NEW m \in SjoinMsg, m.names # {}, \A u \in m.names : Via[b][Home[u]] = a,
         k = "clients" => m.names \subseteq A
  PROVE  /\ Append(w, m) \in Seq(Msg)
         /\ Pair(k, a, b, Append(w, m), K, IF k = "clients" THEN A ELSE A \cup m.names)
<1>1. m \in Msg /\ m.type = "SJOIN" /\ m.names \subseteq User
  BY DEF SjoinMsg, Msg
<1>2. /\ Learn(k, m) = (IF k = "clients" THEN {} ELSE m.names) /\ Lose(k, m) = {}
      /\ Uses(k, m) = (IF k = "clients" THEN m.names ELSE {})
  BY <1>1, Effects
<1>3. /\ Good_line(k, a, b, m) /\ Uses(k, m) \subseteq A /\ Uses(k, m) \subseteq User
      /\ After(k, A, m) = IF k = "clients" THEN A ELSE A \cup m.names
  BY <1>1, <1>2 DEF Good_line, About, After
<1>4. Pair(k, a, b, Append(w, m), K, After(k, A, m))
  BY ONLY <1>1, <1>3, PairSays, w \in Seq(Msg), Pair(k, a, b, w, K, A)
<1>5. Append(w, m) \in Seq(Msg)
  BY <1>1
<1> QED BY <1>3, <1>4, <1>5

(* A burst tells one who knows nobody behind s all that s has.             *)
LEMMA BurstPair ==
  ASSUME NEW k \in Lists, IInv, Reach, NEW s \in Server, NEW t \in Neighbours(s), t \notin links[s],
         NEW K, \A u \in User : Via[t][Home[u]] = s => u \notin K, NEW b \in Bursts(s)
  PROVE  Pair(k, s, t, b, K, Names(k, s)) /\ Pair(k, s, t, Tail(b), K, Names(k, s))
<1> DEFINE C == known[s]
           A == IF k = "clients" THEN C ELSE {}
           S == [type |-> "SERVER"]
           N == [type |-> "NICK", names |-> C]
<1>1. C \subseteq User /\ ch[s] \in Chan /\ ch[s].mem \subseteq C
  BY DEF IInv, TypeOK, GoodChan
<1>2. \A u \in C : Via[t][Home[u]] = s
  <2>1. Names("clients", s) = C
    BY DEF Names
  <2> QED BY <2>1, NamesBehind DEF Reach
<1>3. PICK l \in NjoinLines(ch[s]) : b = <<S, N>> \o l
  BY DEF Bursts
<1>4. S \in Msg /\ S.type = "SERVER" /\ N \in Msg /\ N.type = "NICK" /\ N.names = C
  BY <1>1 DEF Msg, ServerMsg, NickMsg
<1>e. A = IF k = "clients" THEN C ELSE {}
  OBVIOUS
<1> HIDE DEF C, A, S, N
<1>s. Learn(k, S) = {} /\ Lose(k, S) = {} /\ Uses(k, S) = {}
  BY <1>4, Effects
<1>n. Learn(k, N) = A /\ Lose(k, N) = {} /\ Uses(k, N) = {}
  BY <1>4, <1>e, Effects
<1>5. /\ About(k, S) = {} /\ (\A L : After(k, L, S) = L)
      /\ About(k, N) \subseteq C /\ After(k, {}, N) = A
  BY <1>e, <1>s, <1>n DEF About, After
<1>6. Good_line(k, s, t, S) /\ Good_line(k, s, t, N)
  BY <1>2, <1>4, <1>5 DEF Good_line
<1>7. Pair(k, s, t, << >>, K, {})
  BY PairSilent
<1>8. Pair(k, s, t, Append(<< >>, S), K, {})
  <2>1. << >> \in Seq(Msg)
    OBVIOUS
  <2>2. Uses(k, S) \subseteq {} /\ Uses(k, S) \subseteq User
    BY <1>s
  <2>3. Pair(k, s, t, Append(<< >>, S), K, After(k, {}, S))
    BY ONLY <1>4, <1>6, <1>7, <2>1, <2>2, PairSays
  <2> QED BY <1>5, <2>3
<1>9. Append(<< >>, S) = <<S>> /\ Append(<<S>>, N) = <<S, N>> /\ <<S>> \in Seq(Msg)
      /\ <<S, N>> \in Seq(Msg)
  BY <1>4, TwoLines
<1>10. Pair(k, s, t, <<S, N>>, K, A)
  <2>1. Pair(k, s, t, <<S>>, K, {}) /\ Uses(k, N) \subseteq {} /\ Uses(k, N) \subseteq User
    BY <1>8, <1>9, <1>n
  <2>2. Pair(k, s, t, Append(<<S>>, N), K, After(k, {}, N))
    BY ONLY <1>4, <1>6, <1>9, <2>1, PairSays
  <2> QED BY <1>5, <1>9, <2>2
<1>11. Pair(k, s, t, b, K, Names(k, s))
  <2> DEFINE w == <<S, N>>
             F(B, x) == IF k = "clients" THEN B ELSE B \cup x.names
  <2>1. w \in Seq(Msg) /\ Pair(k, s, t, w, K, A) /\ b = w \o l
    BY <1>3, <1>9, <1>10
  <2>2. l \in Seq(Msg)
    BY <1>1, NjoinLinesType
  <2>n. Names(k, s) = IF k = "clients" THEN C ELSE ch[s].mem
    BY DEF Names, C
  <2> HIDE DEF w
  <2>3. CASE l = << >> /\ ch[s].mem = {}
    <3>1. w \o << >> = w
      BY <2>1
    <3> QED BY <1>e, <2>1, <2>3, <2>n, <3>1
  <2>4. ASSUME NEW x \in SjoinMsg, l = <<x>>, x.names # {}, x.names = ch[s].mem
        PROVE  Pair(k, s, t, b, K, Names(k, s))
    <3>1. /\ x \in Msg /\ (\A u \in x.names : Via[t][Home[u]] = s)
          /\ k = "clients" => x.names \subseteq A
      BY <1>1, <1>2, <1>e, <2>4 DEF Msg
    <3>2. w \o <<x>> = Append(w, x)
      BY <2>1, <3>1
    <3>3. Pair(k, s, t, Append(w, x), K, F(A, x))
      BY ONLY <2>1, <2>4, <3>1, PairSjoin, k \in Lists
    <3>4. F(A, x) = Names(k, s)
      BY <1>e, <2>4, <2>n
    <3> QED BY <2>1, <2>4, <3>2, <3>3, <3>4
  <2>5. ASSUME NEW x \in SjoinMsg, NEW y \in SjoinMsg, l = <<x, y>>, x.names # {}, y.names # {},
               x.names \cup y.names = ch[s].mem
        PROVE  Pair(k, s, t, b, K, Names(k, s))
    <3>1. /\ x \in Msg /\ y \in Msg
          /\ (\A u \in x.names : Via[t][Home[u]] = s) /\ (\A u \in y.names : Via[t][Home[u]] = s)
          /\ k = "clients" => x.names \subseteq A /\ y.names \subseteq F(A, x)
      BY <1>1, <1>2, <1>e, <2>5 DEF Msg
    <3>2. w \o <<x, y>> = Append(Append(w, x), y)
      BY <2>1, <3>1
    <3>3. Append(w, x) \in Seq(Msg) /\ Pair(k, s, t, Append(w, x), K, F(A, x))
      BY ONLY <2>1, <2>5, <3>1, PairSjoin, k \in Lists
    <3>4. PICK B : B = F(A, x)
      OBVIOUS
    <3>5. Pair(k, s, t, Append(w, x), K, B) /\ (k = "clients" => y.names \subseteq B)
      BY <3>1, <3>3, <3>4
    <3>6. Pair(k, s, t, Append(Append(w, x), y), K, F(B, y))
      BY ONLY <2>5, <3>1, <3>3, <3>5, PairSjoin, k \in Lists
    <3>7. F(B, y) = Names(k, s)
      BY <1>e, <2>5, <2>n, <3>4
    <3> QED BY <2>1, <2>5, <3>2, <3>6, <3>7
  <2> QED BY <1>1, <2>3, <2>4, <2>5, NjoinCases
<1>12. b \in Seq(Msg) /\ b # << >> /\ Head(b) = S
  <2>1. l \in Seq(Msg)
    BY <1>1, NjoinLinesType
  <2>2. Len(b) = 2 + Len(l) /\ b[1] = S
    BY <1>3, <1>9, <2>1
  <2> QED BY <1>1, <1>3, <1>9, <2>1, <2>2
<1>13. Pair(k, s, t, Tail(b), K, Names(k, s))
  <2>1. Pair(k, s, t, Tail(b), After(k, K, Head(b)), Names(k, s))
    BY ONLY <1>11, <1>12, PairReads
  <2> QED BY <1>5, <1>12, <2>1
<1> QED BY <1>11, <1>13

(* The first burst.                                                        *)
LEMMA ConnectTold ==
  ASSUME NEW k \in Lists, IInv, Reach, Told(k), NEW s \in Server, NEW t \in Server,
         Connect(t, s)
  PROVE  Told(k)'
<1>1. PICK x \in Bursts(t) : q' = [q EXCEPT ![t][s] = x]
  BY DEF Connect
<1>2. /\ s \in Neighbours(t) /\ s \notin links[t] /\ t \notin links[s]
      /\ links' = [links EXCEPT ![t] = @ \cup {s}] /\ \A y : Names(k, y)' = Names(k, y)
  BY DEF Connect, Names
<1>3. TypeOK /\ t \in Neighbours(s) /\ s # t
  BY <1>2, Sides DEF IInv
<1>4. \A a, b \in Server : b \in links'[a] <=> b \in links[a] \/ (a = t /\ b = s)
  BY <1>2, <1>3 DEF TypeOK
<1>5. \A a, b \in Server : q'[a][b] = IF a = t /\ b = s THEN x ELSE q[a][b]
  BY <1>1, <1>3 DEF TypeOK
<1>6. Pair(k, t, s, x, Names(k, s), Names(k, t))
  <2>1. \A u \in User : Via[s][Home[u]] = t => u \notin Names(k, s)
    BY <1>2, <1>3, NamesBehind DEF Reach
  <2> QED BY <1>2, <2>1, BurstPair
<1> SUFFICES ASSUME NEW a \in Server, NEW b \in Neighbours(a)
             PROVE  Pair(k, a, b, q'[a][b], Names(k, b)', Linked(k, a, b)')
  BY DEF Told, Neighbours
<1>7. b \in Server /\ Pair(k, a, b, q[a][b], Names(k, b), Linked(k, a, b))
  BY DEF Told, Neighbours
<1>8. CASE a = t /\ b = s
  <2>1. Linked(k, t, s)' = Names(k, t)
    BY <1>2, <1>4 DEF Linked
  <2> QED BY <1>2, <1>5, <1>6, <1>8, <2>1
<1>9. CASE ~(a = t /\ b = s)
  <2>1. Linked(k, a, b)' = Linked(k, a, b)
    BY <1>2, <1>4, <1>7, <1>9 DEF Linked
  <2> QED BY <1>2, <1>5, <1>7, <1>9, <2>1
<1> QED BY <1>8, <1>9

(* The burst that comes back goes to one who knows nobody behind s yet.    *)
LEMMA RecvServerTold ==
  ASSUME NEW k \in Lists, IInv, Reach, Told(k), NEW s \in Server, NEW p \in Server,
         RecvServer(s, p)
  PROVE  Told(k)'
<1>1. PICK x \in Bursts(s) : q' = [Consume(s, p) EXCEPT ![s][p] = @ \o Tail(x)]
  BY DEF RecvServer
<1>2. /\ q[p][s] # << >> /\ Head(q[p][s]).type = "SERVER" /\ TypeOK
      /\ links' = [links EXCEPT ![s] = @ \cup {p}] /\ \A y : Names(k, y)' = Names(k, y)
  BY DEF RecvServer, NextLine, IInv, Names
<1>3. s \in links[p] /\ p \notin links[s] /\ s \in Neighbours(p)
  BY <1>2, HeadFits DEF Reach
<1>4. p # s /\ p \in Neighbours(s)
  BY <1>3, Sides
<1>5. Tail(x) \in Seq(Msg)
  BY <1>2, BurstsType
<1>6. q[s][p] = << >>
  BY <1>3 DEF Reach, FitsAll, Fits
<1>7. \A a, b \in Server : b \in links'[a] <=> b \in links[a] \/ (a = s /\ b = p)
  BY <1>2 DEF TypeOK
<1>8. \A a, b \in Server : q'[a][b] =
        IF a = s /\ b = p THEN Tail(x) ELSE IF a = p /\ b = s THEN Tail(q[p][s]) ELSE q[a][b]
  <2>1. << >> \o Tail(x) = Tail(x)
    BY <1>5
  <2> QED BY <1>1, <1>2, <1>4, <1>6, <2>1 DEF Consume, TypeOK
<1>9. Pair(k, s, p, Tail(x), Names(k, p), Names(k, s))
  <2>1. Pair(k, s, p, << >>, Names(k, p), {})
    BY <1>3, <1>4, <1>6 DEF Told, Linked
  <2>2. \A u : Knows(k, << >>, Names(k, p), Len(<< >>), u) <=> u \in Names(k, p)
    BY DEF Knows
  <2>3. \A u \in User : Via[p][Home[u]] = s => u \notin Names(k, p)
    BY <2>1, <2>2 DEF Pair
  <2> QED BY <1>3, <1>4, <2>3, BurstPair
<1>10. Pair(k, p, s, Tail(q[p][s]), Names(k, s), Names(k, p))
  <2>1. Pair(k, p, s, Tail(q[p][s]), After(k, Names(k, s), Head(q[p][s])), Names(k, p))
    BY <1>2, HeadTold
  <2>2. After(k, Names(k, s), Head(q[p][s])) = Names(k, s)
    <3>1. Learn(k, Head(q[p][s])) = {} /\ Lose(k, Head(q[p][s])) = {}
      BY <1>2, Effects
    <3> QED BY <3>1, NoEffect
  <2> QED BY <2>1, <2>2
<1> SUFFICES ASSUME NEW a \in Server, NEW b \in Neighbours(a)
             PROVE  Pair(k, a, b, q'[a][b], Names(k, b)', Linked(k, a, b)')
  BY DEF Told, Neighbours
<1>11. b \in Server /\ Pair(k, a, b, q[a][b], Names(k, b), Linked(k, a, b))
  BY DEF Told, Neighbours
<1>12. CASE a = s /\ b = p
  <2>1. Linked(k, s, p)' = Names(k, s)
    BY <1>2, <1>7 DEF Linked
  <2> QED BY <1>2, <1>8, <1>9, <1>12, <2>1
<1>13. CASE a = p /\ b = s
  <2>1. Linked(k, p, s)' = Names(k, p)
    BY <1>2, <1>3, <1>7 DEF Linked
  <2> QED BY <1>2, <1>4, <1>8, <1>10, <1>13, <2>1
<1>14. CASE ~(a = s /\ b = p) /\ ~(a = p /\ b = s)
  <2>1. Linked(k, a, b)' = Linked(k, a, b)
    BY <1>2, <1>7, <1>11, <1>14 DEF Linked
  <2> QED BY <1>2, <1>8, <1>11, <1>14, <2>1
<1> QED BY <1>12, <1>13, <1>14

(* The two ends of a broken link forget who is behind the other one, and   *)
(* tell their other links.                                                 *)
LEMMA SplitTold ==
  ASSUME NEW k \in Lists, IInv, Reach, Told(k), NEW s \in Server, NEW t \in Server,
         Split(s, t)
  PROVE  Told(k)'
<1> DEFINE other(x) == IF x = s THEN t ELSE s
           lost == [x \in {s, t} |-> IF x = s THEN Behind(s, t) \cap known[s]
                                             ELSE Behind(t, s) \cap known[t]]
<1>1. /\ s # t /\ t \in links[s] /\ TypeOK
      /\ links' = [links EXCEPT ![s] = @ \ {t}, ![t] = @ \ {s}]
      /\ known' = [x \in Server |-> IF x \in {s, t} THEN known[x] \ lost[x] ELSE known[x]]
      /\ ch' = [x \in Server |-> IF x \in {s, t} THEN RemoveUsers(ch[x], lost[x]) ELSE ch[x]]
      /\ q' = [x \in Server |-> [y \in Server |->
                 CASE x \in {s, t} /\ y \in {s, t} -> << >>
                   [] x \in {s, t} /\ y \notin {s, t} ->
                        IF y \in links[x] /\ lost[x] # {}
                        THEN Append(q[x][y], [type |-> "EXIT", gone |-> lost[x]])
                        ELSE q[x][y]
                   [] OTHER -> q[x][y]]]
  BY DEF Split, IInv
<1>2. s \in Neighbours(t) /\ t \in Neighbours(s)
  <2>1. t \in Neighbours(s)
    BY <1>1 DEF Reach, FitsAll, Fits
  <2> QED BY <2>1, Sides
<1>3. ASSUME NEW x \in {s, t}
      PROVE  /\ lost[x] \subseteq User
             /\ \A u \in User : u \in lost[x] <=> u \in known[x] /\ Via[x][Home[u]] = other(x)
             /\ \A u \in Names(k, x) : u \in lost[x] <=> Via[x][Home[u]] = other(x)
  <2>1. Via[x][x] = x /\ other(x) # x
    <3>1. x \in Server /\ other(x) # x
      BY <1>1
    <3>2. Via[x][x] = x
      BY ONLY <3>1, ConstAssumption
    <3> QED BY <3>1, <3>2
  <2>2. known[x] \subseteq User /\ Names(k, x) \subseteq known[x]
    BY NamesKnown
  <2>3. lost[x] = Behind(x, other(x)) \cap known[x]
    BY <1>1
  <2>4. \A u \in User : u \in Behind(x, other(x)) <=> Via[x][Home[u]] = other(x)
    BY <2>1 DEF Behind
  <2> QED BY <2>2, <2>3, <2>4
<1>4. \A a, b \in Server : b \in links'[a] <=> b \in links[a] /\ {a, b} # {s, t}
  BY <1>1 DEF TypeOK
<1>5. /\ \A x \in {s, t} : Names(k, x)' = Names(k, x) \ lost[x]
      /\ \A x \in Server : x \notin {s, t} => Names(k, x)' = Names(k, x)
  <2>1. ASSUME NEW x \in {s, t} PROVE Names(k, x)' = Names(k, x) \ lost[x]
    <3>1. /\ known'[x] = known[x] \ lost[x] /\ ch'[x] = RemoveUsers(ch[x], lost[x])
          /\ ch[x] \in Chan
      BY <1>1 DEF TypeOK
    <3>2. ch'[x].mem = ch[x].mem \ lost[x]
      BY <3>1, RemoveMembers
    <3> QED BY <3>1, <3>2 DEF Names
  <2>2. ASSUME NEW x \in Server, x \notin {s, t} PROVE Names(k, x)' = Names(k, x)
    BY <1>1, <2>2 DEF Names
  <2> QED BY <2>1, <2>2
<1> SUFFICES ASSUME NEW a \in Server, NEW b \in Neighbours(a)
             PROVE  Pair(k, a, b, q'[a][b], Names(k, b)', Linked(k, a, b)')
  BY DEF Told, Neighbours
<1>6. /\ b \in Server /\ a # b /\ a \in Neighbours(b)
      /\ Pair(k, a, b, q[a][b], Names(k, b), Linked(k, a, b))
      /\ q[a][b] \in Seq(Msg) /\ \A i \in 1 .. Len(q[a][b]) : Uses(k, q[a][b][i]) \subseteq User
  BY <1>1, Sides, QueueTypes DEF Told, Neighbours
<1>7. CASE a \in {s, t} /\ b \in {s, t}
  <2>1. a = other(b) /\ {a, b} = {s, t}
    BY <1>6, <1>7
  <2>2. q'[a][b] = << >>
    BY <1>1, <1>7
  <2>3. Linked(k, a, b)' = {}
    BY <1>4, <1>6, <2>1 DEF Linked
  <2>4. \A u \in User : Via[b][Home[u]] = a => u \notin Names(k, b)'
    BY <1>3, <1>5, <1>7, <2>1
  <2>5. Pair(k, a, b, << >>, Names(k, b)', {})
    BY ONLY <2>4, PairSilent
  <2> QED BY <2>2, <2>3, <2>5
<1>8. CASE a \in {s, t} /\ b \notin {s, t} /\ b \in links[a] /\ lost[a] # {}
  <2> DEFINE e == [type |-> "EXIT", gone |-> lost[a]]
  <2>1. q'[a][b] = Append(q[a][b], e)
    BY <1>1, <1>6, <1>8
  <2>2. e \in Msg /\ e.type = "EXIT" /\ e.gone = lost[a]
    BY <1>3, <1>8 DEF Msg, ExitMsg
  <2> HIDE DEF e
  <2>3. Uses(k, e) = {} /\ Learn(k, e) = {} /\ Lose(k, e) = lost[a]
    BY <2>2, Effects
  <2>4. About(k, e) = lost[a] /\ After(k, Names(k, a), e) = Names(k, a) \ lost[a]
    BY <2>3 DEF After, About
  <2>5. \A u \in lost[a] : Via[b][Home[u]] = a
    <3> SUFFICES ASSUME NEW u \in lost[a] PROVE Via[b][Home[u]] = a
      OBVIOUS
    <3>1. u \in User /\ Via[a][Home[u]] # b
      BY <1>3, <1>8
    <3> QED BY <3>1, OtherSide
  <2>6. Good_line(k, a, b, e) /\ Uses(k, e) \subseteq Names(k, a) /\ Uses(k, e) \subseteq User
    BY <2>2, <2>3, <2>4, <2>5 DEF Good_line
  <2>7. /\ Linked(k, a, b) = Names(k, a) /\ Linked(k, a, b)' = Names(k, a) \ lost[a]
        /\ Names(k, b)' = Names(k, b)
    BY <1>4, <1>5, <1>6, <1>8 DEF Linked
  <2>8. Pair(k, a, b, q[a][b], Names(k, b), Names(k, a))
    BY <1>6, <2>7
  <2>9. Pair(k, a, b, Append(q[a][b], e), Names(k, b), After(k, Names(k, a), e))
    BY ONLY <1>6, <2>2, <2>6, <2>8, PairSays
  <2> QED BY <2>1, <2>4, <2>7, <2>9
<1>9. CASE a \in {s, t} /\ b \notin {s, t} /\ ~(b \in links[a] /\ lost[a] # {})
  <2>1. q'[a][b] = q[a][b] /\ Names(k, b)' = Names(k, b)
    BY <1>1, <1>5, <1>6, <1>9
  <2>2. b \in links'[a] <=> b \in links[a]
    BY <1>4, <1>6, <1>9
  <2>3. b \in links[a] => Names(k, a)' = Names(k, a)
    BY <1>5, <1>9
  <2>4. Linked(k, a, b)' = Linked(k, a, b)
    BY <2>2, <2>3 DEF Linked
  <2> QED BY <1>6, <2>1, <2>4
<1>10. CASE a \notin {s, t} /\ b \in {s, t}
  <2>1. q'[a][b] = q[a][b] /\ a # other(b)
    BY <1>1, <1>6, <1>10
  <2>2. Linked(k, a, b)' = Linked(k, a, b)
    <3>1. (b \in links'[a] <=> b \in links[a]) /\ Names(k, a)' = Names(k, a)
      BY <1>4, <1>5, <1>6, <1>10
    <3> QED BY <3>1 DEF Linked
  <2>3. \A u \in User : Via[b][Home[u]] = a => (u \in Names(k, b) <=> u \in Names(k, b)')
    BY <1>3, <1>5, <1>10, <2>1
  <2>4. Pair(k, a, b, q[a][b], Names(k, b)', Linked(k, a, b))
    BY ONLY <1>6, <2>3, PairElsewhere
  <2> QED BY <2>1, <2>2, <2>4
<1>11. CASE a \notin {s, t} /\ b \notin {s, t}
  <2>1. q'[a][b] = q[a][b] /\ Names(k, b)' = Names(k, b)
    BY <1>1, <1>5, <1>6, <1>11
  <2>2. Linked(k, a, b)' = Linked(k, a, b)
    <3>1. (b \in links'[a] <=> b \in links[a]) /\ Names(k, a)' = Names(k, a)
      BY <1>4, <1>5, <1>6, <1>11
    <3> QED BY <3>1 DEF Linked
  <2> QED BY <1>6, <2>1, <2>2
<1> QED BY <1>7, <1>8, <1>9, <1>10, <1>11

LEMMA InitTold ==
  ASSUME NEW k, Init PROVE Told(k)
<1> SUFFICES ASSUME NEW a \in Server, NEW b \in Neighbours(a)
             PROVE  Pair(k, a, b, q[a][b], Names(k, b), Linked(k, a, b))
  BY DEF Told
<1>1. b \in Server /\ a # b /\ Via[b][b] = b
  BY ConstAssumption DEF Neighbours
<1>2. /\ q[a][b] = << >> /\ Linked(k, a, b) = {} /\ known[b] = {u \in User : Home[u] = b}
      /\ ch[b].mem \subseteq known[b]
  BY <1>1 DEF Init, Linked
<1>3. \A u \in User : Via[b][Home[u]] = a => u \notin Names(k, b)
  BY <1>1, <1>2 DEF Names
<1> QED BY <1>2, <1>3, PairSilent

LEMMA NextTold ==
  ASSUME NEW k \in Lists, "kill" \notin Acts, k = "members" => "kick" \notin Acts,
         IInv, Reach, Understood, Told(k), [Next]_vars
  PROVE  Told(k)'
<1>1. CASE UNCHANGED vars
  BY <1>1 DEF vars, Told, Linked, Names
<1>2. ASSUME NEW s \in Server, NEW t \in Server, Connect(t, s) PROVE Told(k)'
  BY <1>2, ConnectTold
<1>3. ASSUME NEW s \in Server, NEW t \in Server, Receive(s, t) PROVE Told(k)'
  BY <1>3, RecvServerTold, RecvNickTold, RecvSjoinTold, RecvLineTold, RecvExitTold DEF Receive
<1>4. ASSUME NEW s \in Server, NEW t \in Server, Split(s, t) PROVE Told(k)'
  BY <1>4, SplitTold
<1>5. ASSUME NEW u \in Actors, Join(u) PROVE Told(k)'
  BY <1>5, ConstAssumption, JoinTold
<1>6. ASSUME NEW u \in Actors, Quit(u) PROVE Told(k)'
  BY <1>6, ConstAssumption, QuitTold
<1>7. ASSUME NEW s \in Server, NEW u \in Victims PROVE ~Kill(s, u)
  BY DEF Kill, Issue
<1>8. ASSUME NEW u \in Actors, NEW w \in User, NEW f \in Prefix, NEW add \in BOOLEAN,
             UserMode(u, w, f, add)
      PROVE  Told(k)'
  BY <1>8, ConstAssumption, UserModeTold
<1>9. ASSUME NEW u \in Actors, NEW change \in Change, NEW add \in BOOLEAN,
             ChanMode(u, change, add)
      PROVE  Told(k)'
  BY <1>9, ConstAssumption, ChanModeTold
<1>10. ASSUME NEW u \in Actors, Part(u) PROVE Told(k)'
  BY <1>10, ConstAssumption, PartTold
<1>11. ASSUME NEW u \in Actors, NEW w \in User, Kick(u, w) PROVE Told(k)'
  <2>1. k = "clients"
    BY <1>11 DEF Kick, Issue, Lists
  <2>2. u \in User
    BY ConstAssumption
  <2> QED BY <1>11, <2>1, <2>2, KickTold DEF ClientsTold
<1> QED BY <1>1, <1>2, <1>3, <1>4, <1>5, <1>6, <1>7, <1>8, <1>9, <1>10, <1>11 DEF Next

-----------------------------------------------------------------------------
(***************************************************************************)
(* What Told gives: at rest linked servers know the same clients and list  *)
(* the same members, every line is understood where it is read, and no     *)
(* channel is left empty.                                                  *)
(***************************************************************************)
SameNames(k) == Quiet => \A s \in Server : \A t \in links[s] : Names(k, s) = Names(k, t)
SameClients == Quiet => \A s \in Server : \A t \in links[s] : known[s] = known[t]

(* With nothing on its way Told says it of both directions.                *)
LEMMA ToldAgree ==
  ASSUME NEW k, TypeOK, Reach, Told(k) PROVE SameNames(k)
<1> SUFFICES ASSUME Quiet, NEW s \in Server, NEW t \in links[s] PROVE Names(k, s) = Names(k, t)
  BY DEF SameNames
<1>1. t \in Server /\ q[s][t] = << >> /\ q[t][s] = << >>
  BY DEF Quiet, TypeOK
<1>2. t \in Neighbours(s) /\ s \in links[t]
  BY <1>1 DEF Reach, FitsAll, Fits
<1>3. s \in Neighbours(t)
  BY <1>2, Sides
<1>4. /\ Pair(k, s, t, << >>, Names(k, t), Names(k, s))
      /\ Pair(k, t, s, << >>, Names(k, s), Names(k, t))
  BY <1>1, <1>2, <1>3 DEF Told, Linked
<1>5. \A K, u : Knows(k, << >>, K, Len(<< >>), u) <=> u \in K
  BY DEF Knows
<1>6. \A u \in User : /\ Via[t][Home[u]] = s => (u \in Names(k, s) <=> u \in Names(k, t))
                      /\ Via[s][Home[u]] = t => (u \in Names(k, t) <=> u \in Names(k, s))
  BY <1>4, <1>5 DEF Pair
<1>7. \A u \in User : Via[s][Home[u]] = t \/ Via[t][Home[u]] = s
  BY <1>2, OtherSide
<1>8. Names(k, s) \subseteq User /\ Names(k, t) \subseteq User
  BY <1>1, QueueTypes
<1> QED BY <1>6, <1>7, <1>8

(* The next line is the first of those Told speaks of.                     *)
LEMMA ToldUnderstood ==
  ASSUME TypeOK, Reach, ClientsTold PROVE Understood
<1> SUFFICES ASSUME NEW s \in Server, NEW p \in Server, q[p][s] # << >>,
                    NEW m, m = Head(q[p][s])
             PROVE  /\ m.type \in {"MODE", "CMODE", "PART", "KICK"} => m.src \in known[s]
                    /\ m.type = "SJOIN" =>
                         m.names # {} /\ \A u \in m.names : u \in known[s] /\ Via[s][Home[u]] = p
  BY DEF Understood
<1>1. Uses("clients", m) \subseteq known[s] /\ Good_line("clients", p, s, m)
  <2>1. Names("clients", s) = known[s]
    BY DEF Names
  <2> QED BY <2>1, HeadTold DEF ClientsTold
<1>2. ASSUME m.type \in {"MODE", "CMODE", "PART", "KICK"} PROVE m.src \in known[s]
  <2>1. Uses("clients", m) = {m.src}
    BY <1>2, Effects DEF Lists
  <2> QED BY <1>1, <2>1
<1>3. ASSUME m.type = "SJOIN"
      PROVE  m.names # {} /\ \A u \in m.names : u \in known[s] /\ Via[s][Home[u]] = p
  <2>1. Uses("clients", m) = m.names
    BY <1>3, Effects DEF Lists
  <2> QED BY <1>1, <1>3, <2>1 DEF Good_line, About
<1> QED BY <1>2, <1>3

LEMMA NextClientsTold ==
  ASSUME "kill" \notin Acts, IInv, Reach, ClientsTold, [Next]_vars PROVE ClientsTold'
<1>1. Understood /\ "clients" \in Lists /\ "clients" # "members"
  BY ToldUnderstood DEF IInv, Lists
<1>2. Told("clients")'
  BY <1>1, NextTold DEF ClientsTold
<1> QED BY <1>2 DEF ClientsTold

LEMMA NextMembersTold ==
  ASSUME "kill" \notin Acts, "kick" \notin Acts, IInv, Reach, ClientsTold, MembersTold, [Next]_vars
  PROVE  MembersTold'
<1>1. Understood /\ "members" \in Lists
  BY ToldUnderstood DEF IInv, Lists
<1>2. Told("members")'
  BY <1>1, NextTold DEF MembersTold
<1> QED BY <1>2 DEF MembersTold

LEMMA InitBothTold == ASSUME Init PROVE ClientsTold /\ MembersTold
BY InitTold DEF ClientsTold, MembersTold

LEMMA ClientsToldAgree == ASSUME TypeOK, Reach, ClientsTold PROVE SameClients
<1>1. SameNames("clients") /\ \A s \in Server : Names("clients", s) = known[s]
  BY ToldAgree DEF ClientsTold, Names
<1>2. \A s \in Server : links[s] \subseteq Server
  BY DEF TypeOK
<1> QED BY <1>1, <1>2 DEF SameNames, SameClients

(* Without KILL, linked servers know the same clients once every line has  *)
(* been handled, whatever was cut and linked again meanwhile (m_nick,      *)
(* exit_client, server_estab).                                             *)
THEOREM ClientsAgree == ASSUME "kill" \notin Acts PROVE Spec => []SameClients
<1>1. IInv /\ Reach /\ ClientsTold /\ [Next]_vars => ClientsTold'
  BY NextClientsTold
<1>2. IInv /\ Reach /\ ClientsTold => SameClients
  BY ClientsToldAgree DEF IInv
<1>3. Init => ClientsTold
  BY InitBothTold
<1> QED BY <1>1, <1>2, <1>3, InitIInv, NextIInv, InitReach, NextReach, PTL DEF Spec

(* Without KILL and KICK they list the same members, too: whatever merges, *)
(* JOIN, PART and QUIT lines and splits come in between, the lists meet    *)
(* (m_sjoin, m_part, sub1_from_channel, send_channel_modes).               *)
THEOREM NamesAgreeHolds ==
  ASSUME "kill" \notin Acts, "kick" \notin Acts PROVE Spec => []NamesAgree
<1>1. IInv /\ Reach /\ ClientsTold /\ [Next]_vars => ClientsTold'
  BY NextClientsTold
<1>2. IInv /\ Reach /\ ClientsTold /\ MembersTold /\ [Next]_vars => MembersTold'
  BY NextMembersTold
<1>3. IInv /\ Reach /\ ClientsTold /\ MembersTold => NamesAgree
  <2> SUFFICES ASSUME IInv, Reach, ClientsTold, MembersTold PROVE NamesAgree
    OBVIOUS
  <2>1. SameClients /\ TypeOK
    BY ClientsToldAgree DEF IInv
  <2>2. SameNames("members") /\ \A s \in Server : Names("members", s) = ch[s].mem
    BY <2>1, ToldAgree DEF MembersTold, Names
  <2>3. \A s \in Server : links[s] \subseteq Server
    BY <2>1 DEF TypeOK
  <2> QED BY <2>1, <2>2, <2>3 DEF SameNames, SameClients, NamesAgree
<1>4. Init => ClientsTold /\ MembersTold
  BY InitBothTold
<1> QED BY <1>1, <1>2, <1>3, <1>4, InitIInv, NextIInv, InitReach, NextReach, PTL DEF Spec

(* Without KILL, remove_unknown is never called for a MODE, PART or KICK,  *)
(* and m_sjoin skips no nick: who a line speaks of is known where it is    *)
(* read, and reached by the link it came on.                               *)
THEOREM LinesUnderstood == ASSUME "kill" \notin Acts PROVE Spec => []Understood
<1>1. IInv /\ Reach /\ ClientsTold /\ [Next]_vars => ClientsTold'
  BY NextClientsTold
<1>2. IInv /\ Reach /\ ClientsTold => Understood
  BY ToldUnderstood DEF IInv
<1>3. Init => ClientsTold
  BY InitBothTold
<1> QED BY <1>1, <1>2, <1>3, InitIInv, NextIInv, InitReach, NextReach, PTL DEF Spec

-----------------------------------------------------------------------------
(* A step from copy c to copy d that leaves no empty channel behind.       *)
NotEmptied(c, d) ==
  (c.mem # {} \/ ~c.on) /\ d.on /\ d.mem = {} => d.mode.flags \cap Sticky # {}

(* Who only changes flags or modes empties nothing.                        *)
LEMMA MembersStay ==
  ASSUME NEW c, NEW d, d.on = c.on, d.mem = c.mem PROVE NotEmptied(c, d)
BY DEF NotEmptied

(* sub1_from_channel frees the copy with its last member.                  *)
LEMMA RemoveNotEmptied ==
  ASSUME NEW c \in Chan, NEW gone PROVE NotEmptied(c, RemoveUsers(c, gone))
<1>1. CASE gone \cap c.mem = {}
  BY <1>1, MembersStay DEF RemoveUsers
<1>2. CASE gone \cap c.mem # {} /\ c.mem \subseteq gone
  <2>1. CASE c.mode.flags \cap Sticky # {}
    <3>1. RemoveUsers(c, gone).mode = c.mode
      BY <1>2, <2>1 DEF RemoveUsers, Chan
    <3> QED BY <2>1, <3>1 DEF NotEmptied
  <2>2. CASE c.mode.flags \cap Sticky = {}
    <3>1. RemoveUsers(c, gone).on = FALSE
      BY <1>2, <2>2 DEF RemoveUsers, NoChan
    <3> QED BY <3>1 DEF NotEmptied
  <2> QED BY <2>1, <2>2
<1>3. CASE gone \cap c.mem # {} /\ ~(c.mem \subseteq gone)
  <2>1. RemoveUsers(c, gone).mem = c.mem \ gone
    BY <1>3 DEF RemoveUsers, Chan
  <2> QED BY <1>3, <2>1 DEF NotEmptied
<1> QED BY <1>1, <1>2, <1>3

(* One copy changes to d, the others do not.                               *)
LEMMA OneNotEmptied ==
  ASSUME IInv, NEW s \in Server, NEW d, NotEmptied(ch[s], d), ch' = [ch EXCEPT ![s] = d]
  PROVE  \A x \in Server : NotEmptied(ch[x], ch'[x])
<1>1. ch \in [Server -> Chan]
  BY DEF IInv, TypeOK
<1>2. ASSUME NEW x \in Server PROVE NotEmptied(ch[x], ch'[x])
  <2>1. CASE x = s
    BY <1>1, <2>1
  <2>2. CASE x # s
    BY <1>1, <2>2, MembersStay
  <2> QED BY <2>1, <2>2
<1> QED BY <1>2

(* No copy changes.                                                        *)
LEMMA NoneEmptied ==
  ASSUME UNCHANGED ch PROVE \A x \in Server : NotEmptied(ch[x], ch'[x])
BY MembersStay

(* The flags and the modes are not the members.                            *)
LEMMA ChangeNotEmptied ==
  ASSUME NEW c \in Chan, NEW u, NEW f, NEW add, NEW md
  PROVE  /\ NotEmptied(c, change_chan_flag(c, u, f, add)) /\ NotEmptied(c, set_deopped(c, u))
         /\ NotEmptied(c, [c EXCEPT !.mode = md]) /\ NotEmptied(c, c)
<1>1. /\ change_chan_flag(c, u, f, add).on = c.on /\ change_chan_flag(c, u, f, add).mem = c.mem
      /\ set_deopped(c, u).on = c.on /\ set_deopped(c, u).mem = c.mem
  BY DEF change_chan_flag, set_deopped, Chan
<1>2. [c EXCEPT !.mode = md].on = c.on /\ [c EXCEPT !.mode = md].mem = c.mem
  BY DEF Chan
<1> QED BY <1>1, <1>2, MembersStay

(* A line creates a channel for somebody.                                  *)
LEMMA ReceiveNotEmptied ==
  ASSUME IInv, Understood, NEW s \in Server, NEW p \in Server, Receive(s, p)
  PROVE  \A x \in Server : NotEmptied(ch[x], ch'[x])
<1>1. ch[s] \in Chan
  BY CopyFacts
<1>2. CASE RecvServer(s, p) \/ RecvNick(s, p)
  BY <1>2, NoneEmptied DEF RecvServer, RecvNick
<1>3. CASE RecvSjoin(s, p)
  <2> DEFINE m == Head(q[p][s])
             kept == {u \in m.names : u \in known[s] /\ Via[s][Home[u]] = p}
  <2>1. q[p][s] # << >> /\ m.type = "SJOIN" /\ ch' = [ch EXCEPT ![s] = SjoinChan(ch[s], m, kept)]
    BY <1>3 DEF RecvSjoin, NextLine
  <2>2. m.names # {} /\ \A u \in m.names : u \in known[s] /\ Via[s][Home[u]] = p
    BY <2>1 DEF Understood
  <2>3. kept # {}
    BY <2>2
  <2> HIDE DEF m, kept
  <2>4. SjoinChan(ch[s], m, kept).mem # {}
    BY <2>3 DEF SjoinChan
  <2>5. NotEmptied(ch[s], SjoinChan(ch[s], m, kept))
    BY <2>4 DEF NotEmptied
  <2> QED BY <2>1, <2>5, OneNotEmptied
<1>4. CASE RecvMode(s, p)
  <2> DEFINE m == Head(q[p][s])
  <2>1. \/ UNCHANGED ch
        \/ ch' = [ch EXCEPT ![s] = change_chan_flag(ch[s], m.who, m.flag, m.add)]
        \/ ch' = [ch EXCEPT ![s] = set_deopped(ch[s], m.who)]
        \/ ch' = [ch EXCEPT ![s] = ch[s]]
    BY <1>4 DEF RecvMode
  <2> HIDE DEF m
  <2> QED BY <1>1, <2>1, ChangeNotEmptied, OneNotEmptied, NoneEmptied
<1>5. CASE RecvCMode(s, p)
  <2>1. UNCHANGED ch \/ \E md : ch' = [ch EXCEPT ![s] = [ch[s] EXCEPT !.mode = md]]
    BY <1>5 DEF RecvCMode
  <2> QED BY <1>1, <2>1, ChangeNotEmptied, OneNotEmptied, NoneEmptied
<1>6. CASE RecvPart(s, p) \/ RecvKick(s, p) \/ RecvExit(s, p)
  <2>1. UNCHANGED ch \/ \E gone : ch' = [ch EXCEPT ![s] = RemoveUsers(ch[s], gone)]
    BY <1>6 DEF RecvPart, RecvKick, RecvExit
  <2> QED BY <1>1, <2>1, RemoveNotEmptied, OneNotEmptied, NoneEmptied
<1> QED BY <1>2, <1>3, <1>4, <1>5, <1>6 DEF Receive

(* The commands of local clients and of opers.                             *)
LEMMA CommandNotEmptied ==
  ASSUME IInv, NEW u \in User, NEW w \in User, NEW f, NEW add, NEW change, NEW s \in Server,
         \/ Join(u) \/ Part(u) \/ Quit(u) \/ Kick(u, w) \/ UserMode(u, w, f, add)
         \/ ChanMode(u, change, add) \/ Kill(s, u)
  PROVE  \A x \in Server : NotEmptied(ch[x], ch'[x])
<1> DEFINE h == Home[u]
<1>1. h \in Server
  BY ConstAssumption
<1>2. ch[h] \in Chan /\ ch[s] \in Chan
  BY <1>1, CopyFacts
<1> HIDE DEF h
<1>3. CASE Join(u)
  <2>1. CASE ch[h].on
    <3>1. PICK mem : ch' = [ch EXCEPT ![h] = [ch[h] EXCEPT !.mem = mem]] /\ mem # {}
      BY <1>3, <2>1 DEF Join, h
    <3>2. NotEmptied(ch[h], [ch[h] EXCEPT !.mem = mem])
      BY <1>2, <3>1 DEF Chan, NotEmptied
    <3> QED BY <1>1, <3>1, <3>2, OneNotEmptied
  <2>2. CASE ~ch[h].on
    <3> DEFINE New(now, fl, md) == [on |-> TRUE, ts |-> now, mem |-> {u}, fl |-> fl, mode |-> md]
    <3>1. \E now, fl, md : ch' = [ch EXCEPT ![h] = New(now, fl, md)]
      BY <1>3, <2>2 DEF Join, h
    <3>2. \A now, fl, md : NotEmptied(ch[h], New(now, fl, md))
      BY DEF NotEmptied
    <3> HIDE DEF New
    <3> QED BY <1>1, <3>1, <3>2, OneNotEmptied
  <2> QED BY <2>1, <2>2
<1>4. CASE Part(u) \/ Quit(u) \/ Kick(u, w)
  <2>1. \E gone : ch' = [ch EXCEPT ![h] = RemoveUsers(ch[h], gone)]
    BY <1>4 DEF Part, Quit, Leave, Kick, h
  <2> QED BY <1>1, <1>2, <2>1, RemoveNotEmptied, OneNotEmptied
<1>5. CASE UserMode(u, w, f, add)
  <2>1. ch' = [ch EXCEPT ![h] = change_chan_flag(ch[h], w, f, add)]
    BY <1>5 DEF UserMode, h
  <2> QED BY <1>1, <1>2, <2>1, ChangeNotEmptied, OneNotEmptied
<1>6. CASE ChanMode(u, change, add)
  <2>1. PICK md : ch' = [ch EXCEPT ![h] = [ch[h] EXCEPT !.mode = md]]
    BY <1>6 DEF ChanMode, h
  <2> QED BY <1>1, <1>2, <2>1, ChangeNotEmptied, OneNotEmptied
<1>7. CASE Kill(s, u)
  <2>1. ch' = [ch EXCEPT ![s] = RemoveUsers(ch[s], {u})]
    BY <1>7 DEF Kill, Leave
  <2> QED BY <1>2, <2>1, RemoveNotEmptied, OneNotEmptied
<1> QED BY <1>3, <1>4, <1>5, <1>6, <1>7

(* A split.                                                                *)
LEMMA SplitNotEmptied ==
  ASSUME IInv, NEW s \in Server, NEW t \in Server, Split(s, t)
  PROVE  \A x \in Server : NotEmptied(ch[x], ch'[x])
<1>1. \A x \in Server : ch'[x] = ch[x] \/ \E gone : ch'[x] = RemoveUsers(ch[x], gone)
  BY DEF Split
<1>2. \A x \in Server : ch[x] \in Chan
  BY CopyFacts
<1> QED BY <1>1, <1>2, MembersStay, RemoveNotEmptied

LEMMA NextNotEmptied ==
  ASSUME IInv, Understood, [Next]_vars PROVE \A x \in Server : NotEmptied(ch[x], ch'[x])
<1>1. CASE UNCHANGED vars
  BY <1>1, NoneEmptied DEF vars
<1>2. CASE \E s, t \in Server : Connect(t, s) \/ Receive(s, t) \/ Split(s, t)
  BY <1>2, NoneEmptied, ReceiveNotEmptied, SplitNotEmptied DEF Connect
<1>3. CASE \E u \in Actors :
             \/ Join(u) \/ Part(u) \/ Quit(u)
             \/ \E w \in User : Kick(u, w)
             \/ \E w \in User, f \in Prefix, add \in BOOLEAN : UserMode(u, w, f, add)
             \/ \E change \in Change, add \in BOOLEAN : ChanMode(u, change, add)
  <2>1. PICK u \in Actors :
             \/ Join(u) \/ Part(u) \/ Quit(u)
             \/ \E w \in User : Kick(u, w)
             \/ \E w \in User, f \in Prefix, add \in BOOLEAN : UserMode(u, w, f, add)
             \/ \E change \in Change, add \in BOOLEAN : ChanMode(u, change, add)
    BY <1>3
  <2>2. u \in User /\ Home[u] \in Server
    BY ConstAssumption
  <2> QED BY <2>1, <2>2, CommandNotEmptied
<1>4. CASE \E s \in Server, u \in Victims : Kill(s, u)
  <2>1. PICK s \in Server, u \in Victims : Kill(s, u)
    BY <1>4
  <2>2. u \in User
    BY ConstAssumption
  <2> QED BY <2>1, <2>2, CommandNotEmptied
<1> QED BY <1>1, <1>2, <1>3, <1>4 DEF Next

(* Without KILL no step leaves an empty channel behind but one a sticky    *)
(* letter holds: sub1_from_channel frees it with its last member, and the  *)
(* nicks an SJOIN creates it for are all accepted.                         *)
THEOREM NoGhostHolds == ASSUME "kill" \notin Acts PROVE Spec => NoGhost
<1>1. IInv /\ Reach /\ ClientsTold /\ [Next]_vars => ClientsTold'
  BY NextClientsTold
<1>2. IInv /\ Reach /\ ClientsTold /\ [Next]_vars => [\A s \in Server :
         /\ ch[s].mem # {} \/ ~ch[s].on
         /\ ch'[s].on /\ ch'[s].mem = {}
         => ch'[s].mode.flags \cap Sticky # {}]_vars
  <2> SUFFICES ASSUME IInv, Reach, ClientsTold, [Next]_vars
               PROVE  \A s \in Server : (ch[s].mem # {} \/ ~ch[s].on) /\ ch'[s].on /\ ch'[s].mem = {}
                                        => ch'[s].mode.flags \cap Sticky # {}
    OBVIOUS
  <2>1. Understood
    BY ToldUnderstood DEF IInv
  <2>2. \A x \in Server : NotEmptied(ch[x], ch'[x])
    BY <2>1, NextNotEmptied
  <2> QED BY <2>2 DEF NotEmptied
<1>3. Init => ClientsTold
  BY InitBothTold
<1> QED BY <1>1, <1>2, <1>3, InitIInv, NextIInv, InitReach, NextReach, PTL
       DEF Spec, NoGhost

=============================================================================

