------------------------------- MODULE ChanTS -------------------------------
(***************************************************************************)
(* The timestamped channel protocol of PTlink IRCd (src/src/channel.c,     *)
(* described in src/doc/README.TSora), for ONE global channel and a tree   *)
(* of servers.                                                             *)
(*                                                                         *)
(* Every server keeps its own copy of the channel.  Servers exchange full  *)
(* channel descriptions (NJOIN/SJOIN) when they link and when a user       *)
(* joins, and incremental MODE, PART, KICK, QUIT, KILL and SQUIT lines;    *)
(* every handler applies the line to its copy and relays it to the other   *)
(* linked servers.  A link is a pair of FIFO byte streams, so lines on it  *)
(* are neither lost nor reordered while it is up, and all of them are lost *)
(* when it goes down.                                                      *)
(*                                                                         *)
(* Data that the properties do not tell apart is abstract: a mode letter   *)
(* is an element of Modes, keys and limits are small naturals (0: not      *)
(* set), the members list is a set.  Of the order of the nicks on an SJOIN *)
(* line only the first one matters; it is the field "lead".                *)
(***************************************************************************)
EXTENDS Naturals, Sequences, FiniteSets

CONSTANTS
  Server,       \* the servers
  User,         \* the registered clients of the network
  Home,         \* Home[u]: the server the client u is connected to
  Via,          \* Via[s][t]: the neighbour of s on the way to t (s itself if s = t)
  Modes,        \* the parameterless channel mode letters
  Sticky,       \* the letters that keep an empty channel alive (+A, +O; +r on a restricted net)
  NewModes,     \* DefaultChanMode (new_cmodes): the letters of a new channel
  MaxTS,        \* bound on timestamps (clocks of servers are not synchronised)
  MaxArg,       \* bound on keys, limits and flood settings
  HalfOps,      \* TRUE iff built with --enable-halfops
  Start,        \* the channel copies a server may start with
  Actors,       \* the clients that issue channel commands
  Opers,        \* the clients that may set the sticky letters (opers; services for +r)
  Victims,      \* the clients that opers KILL
  Acts,         \* the commands the environment issues
  MaxOps,       \* bound on the commands issued
  MaxCuts       \* bound on the links that break

(***************************************************************************)
(* The member flags: CHFL_CHANADM, CHFL_CHANOP, CHFL_HALFOP, CHFL_VOICE    *)
(* and CHFL_DEOPPED (channel.h:145-163).  The last one is never sent.      *)
(***************************************************************************)
Prefix == {"a", "o", "v"} \cup (IF HalfOps THEN {"h"} ELSE {})
Flag == Prefix \cup {"d"}

TSVal == 0..MaxTS
Arg == 0..MaxArg

ModeRec == [flags : SUBSET Modes, limit : Arg, key : Arg, flood : Arg]
NoMode == [flags |-> {}, limit |-> 0, key |-> 0, flood |-> 0]

(* A server's copy of the channel; "on" says that a struct Channel exists. *)
Chan == [on : BOOLEAN, ts : TSVal, mem : SUBSET User,
         fl : [User -> SUBSET Flag], mode : ModeRec]
NoFlags == [u \in User |-> {}]
NoChan == [on |-> FALSE, ts |-> 0, mem |-> {}, fl |-> NoFlags, mode |-> NoMode]

Ops(c) == {u \in c.mem : "o" \in c.fl[u]}

(* A well-formed copy: only members have flags, only an allocated channel  *)
(* has members, and no operator is marked CHFL_DEOPPED.                    *)
WellFormed(c) ==
  /\ \A u \in User : c.fl[u] # {} => u \in c.mem
  /\ ~c.on => c.mem = {}
  /\ \A u \in User : ~({"o", "d"} \subseteq c.fl[u])

ASSUME ConstAssumption ==
  /\ IsFiniteSet(Server)
  /\ Home \in [User -> Server]
  /\ Via \in [Server -> [Server -> Server]]
  /\ \A s, t \in Server : Via[s][t] = s <=> s = t
  /\ MaxTS \in Nat /\ MaxArg \in Nat /\ MaxOps \in Nat /\ MaxCuts \in Nat
  /\ HalfOps \in BOOLEAN
  /\ Sticky \subseteq Modes /\ NewModes \subseteq Modes
  /\ Actors \subseteq User /\ Opers \subseteq User /\ Victims \subseteq User
  /\ Start \subseteq Chan /\ \A c \in Start : WellFormed(c)

(* The links make a tree: every server is on one side of a link.           *)
ASSUME RouteAssumption ==
  \A s, t \in Server : s # t /\ Via[s][t] = t /\ Via[t][s] = s =>
    \A h \in Server : Via[s][h] = t <=> Via[t][h] # s

-----------------------------------------------------------------------------
(* The lines servers exchange. *)

SjoinMsg == [type : {"SJOIN"}, ts : TSVal, zero : BOOLEAN, mode : ModeRec,
             lead : User, names : SUBSET User, pf : [User -> SUBSET Prefix]]
ModeMsg == [type : {"MODE"}, src : User, who : User, flag : Prefix, add : BOOLEAN]
CModeMsg == [type : {"CMODE"}, src : User, change : ModeRec, add : BOOLEAN]
PartMsg == [type : {"PART"}, src : User]
KickMsg == [type : {"KICK"}, src : User, who : User]
NickMsg == [type : {"NICK"}, names : SUBSET User]
ExitMsg == [type : {"EXIT"}, gone : SUBSET User]
ServerMsg == [type : {"SERVER"}]

Msg == SjoinMsg \cup ModeMsg \cup CModeMsg \cup PartMsg \cup KickMsg
       \cup NickMsg \cup ExitMsg \cup ServerMsg

Sjoin(ts, zero, mode, lead, names, pf) ==
  [type |-> "SJOIN", ts |-> ts, zero |-> zero, mode |-> mode,
   lead |-> lead, names |-> names, pf |-> pf]

VARIABLES
  links,   \* links[s]: the servers s has established a link with
  known,   \* known[s]: the clients s knows
  ch,      \* ch[s]: the copy of the channel at s
  q,       \* q[s][t]: lines sent by s that t has not handled yet
  ops,     \* number of commands issued so far
  cuts     \* number of links broken so far

vars == <<links, known, ch, q, ops, cuts>>

-----------------------------------------------------------------------------
(***************************************************************************)
(* m_sjoin: the merge of a received description m with the copy c.         *)
(***************************************************************************)
doesop(m) == "o" \in m.pf[m.lead]
haveops(c) == Ops(c) # {}

(* Both timestamps are real and the copy is not created by this line. *)
Compared(c, m) == c.on /\ m.ts # 0 /\ c.ts # 0

keep_our_modes(c, m) == ~(Compared(c, m) /\ m.ts < c.ts /\ doesop(m))
(* Mutant of the test below: an op on the line lifts it.                   *)
keep_new_modes_Lifted(c, m) ==
  ~(Compared(c, m) /\ m.ts > c.ts /\ haveops(c) /\ ~doesop(m))

keep_new_modes(c, m) == ~(Compared(c, m) /\ m.ts > c.ts /\ haveops(c))

(* The new channelts, which is also the timestamp the line is relayed with. *)
SjoinTS(c, m) ==
  CASE ~c.on -> m.ts
    [] c.on /\ (m.ts = 0 \/ c.ts = 0) -> 0
    [] Compared(c, m) /\ m.ts < c.ts ->
         IF haveops(c) /\ ~doesop(m) THEN c.ts ELSE m.ts
    [] Compared(c, m) /\ m.ts >= c.ts ->
         IF doesop(m) /\ ~haveops(c) THEN m.ts ELSE c.ts

Larger(i, j) == IF i > j THEN i ELSE j

(* Flags are united and the larger limit and key win, but an own +f stays. *)
MergedModes(old, new) ==
  [flags |-> new.flags \cup old.flags,
   limit |-> Larger(old.limit, new.limit),
   key   |-> Larger(old.key, new.key),
   flood |-> IF old.flood # 0 THEN old.flood ELSE new.flood]

SjoinModes(c, m) ==
  CASE ~keep_new_modes(c, m) -> c.mode
    [] keep_new_modes(c, m) /\ keep_our_modes(c, m) -> MergedModes(c.mode, m.mode)
    [] OTHER -> m.mode

(* What a nick that joins by the line is given. *)
JoinFlags(c, m, u) ==
  CASE keep_new_modes(c, m) -> m.pf[u]
    [] ~keep_new_modes(c, m) /\ "o" \in m.pf[u] /\ "a" \notin m.pf[u] -> {"d"}
    [] OTHER -> {}

(* The copy after the line; only the nicks in "kept" are accepted.         *)
SjoinChan(c, m, kept) ==
  [on |-> TRUE,
   ts |-> SjoinTS(c, m),
   mem |-> c.mem \cup kept,
   fl |-> [u \in User |->
             CASE u \in c.mem ->
                    IF keep_our_modes(c, m) THEN c.fl[u] ELSE c.fl[u] \ Prefix
               [] u \notin c.mem /\ u \in kept -> JoinFlags(c, m, u)
               [] OTHER -> {}],
   mode |-> SjoinModes(c, m)]

(* Mutant: the line is relayed with the prefixes it came with.             *)
SjoinRelay_Raw(c, m, kept, lead) ==
  Sjoin(SjoinTS(c, m), m.zero, IF m.zero THEN NoMode ELSE SjoinModes(c, m), lead, kept, m.pf)

(* The line relayed to the other servers. *)
SjoinRelay(c, m, kept, lead) ==
  LET zero == m.zero \/ ~keep_new_modes(c, m)
  IN  Sjoin(SjoinTS(c, m), zero, IF zero THEN NoMode ELSE SjoinModes(c, m),
            lead, kept,
            [u \in User |-> IF keep_new_modes(c, m) /\ u \in kept THEN m.pf[u] ELSE {}])

-----------------------------------------------------------------------------
(***************************************************************************)
(* The channel operations of set_channel_mode, m_part, m_kick, exit_client.*)
(***************************************************************************)
is_op(c, u) == u \in c.mem /\ "o" \in c.fl[u]
half_op(c, u) == u \in c.mem /\ "h" \in c.fl[u]
is_adm(c, u) == u \in c.mem /\ "a" \in c.fl[u]

isdeop(c, u) == ~is_op(c, u) /\ u \in c.mem /\ "d" \in c.fl[u]

(* May u change modes here?  "remote" is IsServer(cptr). *)
isok(c, u, remote) ==
  \/ is_op(c, u)
  \/ half_op(c, u)
  \/ ~isdeop(c, u) /\ remote /\ c.ts # 0

(* Mutant: opping does not clear the mark.                                 *)
change_chan_flag_NoClear(c, u, f, add) ==
  [c EXCEPT !.fl[u] = IF add THEN @ \cup {f} ELSE @ \ {f}]

change_chan_flag(c, u, f, add) ==
  [c EXCEPT !.fl[u] = IF add THEN (@ \cup {f}) \ (IF f = "o" THEN {"d"} ELSE {})
                             ELSE @ \ {f}]

set_deopped(c, u) ==
  IF "o" \in c.fl[u] THEN c ELSE [c EXCEPT !.fl[u] = @ \cup {"d"}]

(* Whether a MODE +/-a,o,h,v of src on who is accepted. *)
ModeAccepted(c, src, who, f, add, remote) ==
  /\ who \in c.mem
  /\ isok(c, src, remote)
  /\ f = "a" => remote \/ (~add /\ who = src)
  /\ f # "a" /\ ~remote => src \in c.mem
  /\ ~(f = "o" /\ add /\ who = src)
  /\ HalfOps /\ f \in {"o", "h"} => is_op(c, src)
  /\ f # "a" /\ ~remote /\ ~add => ~is_adm(c, who) \/ is_adm(c, src)

(* An op given by a client whose own op was rejected marks the target.     *)
ModeDeops(c, src, who, f, add) ==
  /\ ~HalfOps /\ f = "o" /\ add /\ who # src
  /\ who \in c.mem /\ isdeop(c, src)

(* One parameterless letter, +l or +f; the key is not changed by these.    *)
Change ==
  [flags : {{m} : m \in Modes}, limit : {0}, key : {0}, flood : {0}]
    \cup [flags : {{}}, limit : Arg \ {0}, key : {0}, flood : {0}]
    \cup [flags : {{}}, limit : {0}, key : {0}, flood : Arg \ {0}]

(* Sticky letters take an oper, all others a channel operator.             *)
ChangeAccepted(c, src, change, remote) ==
  /\ c.on
  /\ IF change.flags \cap Sticky # {} THEN src \in Opers ELSE isok(c, src, remote)

ApplyChange(mode, change, add) ==
  IF add
  THEN [mode EXCEPT !.flags = @ \cup change.flags,
                    !.limit = IF change.limit # 0 THEN change.limit ELSE @,
                    !.flood = IF change.flood # 0 THEN change.flood ELSE @]
  ELSE [mode EXCEPT !.flags = @ \ change.flags,
                    !.limit = IF change.limit # 0 THEN 0 ELSE @,
                    !.flood = IF change.flood # 0 THEN 0 ELSE @]

(* Mutants: the last one out does not free the channel; the entry is left  *)
(* in the channel's list.                                                  *)
RemoveUsers_NoFree(c, gone) ==
  [c EXCEPT !.mem = @ \ gone, !.fl = [u \in User |-> IF u \in gone THEN {} ELSE c.fl[u]]]
RemoveUsers_Dangling(c, gone) ==
  IF c.mem \subseteq gone /\ c.mem # {} THEN NoChan ELSE c

(* sub1_from_channel: an emptied channel is freed unless a sticky letter holds it. *)
RemoveUsers(c, gone) ==
  IF gone \cap c.mem = {} THEN c
  ELSE IF c.mem \subseteq gone
       THEN IF c.mode.flags \cap Sticky # {}
            THEN [c EXCEPT !.mem = {}, !.fl = NoFlags] ELSE NoChan
       ELSE [c EXCEPT !.mem = @ \ gone,
                      !.fl = [u \in User |-> IF u \in gone THEN {} ELSE c.fl[u]]]

(* Mutant: a remote kick needs an operator here, too.                      *)
KickAccepted_Op(c, src, who, remote) ==
  c.on /\ who \in c.mem /\ (is_op(c, src) \/ half_op(c, src))

KickAccepted(c, src, who, remote) ==
  /\ c.on /\ who \in c.mem
  /\ is_op(c, src) \/ half_op(c, src) \/ (remote /\ c.ts # 0)
  /\ ~remote => /\ is_adm(c, who) => is_adm(c, src)
                /\ half_op(c, src) => ~is_op(c, who) /\ ~half_op(c, who)

-----------------------------------------------------------------------------
(* sendto_match_servs(chptr, cptr, ...): to every linked server but one.   *)
Relay(s, except, m) ==
  [q EXCEPT ![s] = [t \in Server |->
      IF t \in links[s] \ {except} THEN Append(q[s][t], m) ELSE q[s][t]]]

(* The same after the head of the queue from p has been consumed.          *)
Consume(s, p) == [q EXCEPT ![p][s] = Tail(@)]
ConsumeRelay(s, p, m) ==
  [q EXCEPT ![p][s] = Tail(@),
            ![s] = [t \in Server |->
      IF t \in links[s] \ {p} THEN Append(q[s][t], m) ELSE q[s][t]]]

(* remove_unknown: a line whose prefix is unknown here is dropped, and the *)
(* server it came from is told to KILL that client.                        *)
ConsumeUnknown(s, p, src) ==
  LET r == Consume(s, p)
  IN  [r EXCEPT ![s][p] = Append(@, [type |-> "EXIT", gone |-> {src}])]

(* Mutant: only the clients of s itself. *)
Behind_Direct(t, s) == {u \in User : Home[u] # t /\ Home[u] = s}
(* The users t sees behind its neighbour s. *)
Behind(t, s) == {u \in User : Home[u] # t /\ Via[t][Home[u]] = s}

(***************************************************************************)
(* The netjoin burst (server_estab, send_channel_modes): the clients, then *)
(* the channel, with an op first if there is one.  A channel too long for  *)
(* one line goes out in two: the second one does not give the modes.       *)
(***************************************************************************)
Prefixes(c) == [u \in User |-> c.fl[u] \cap Prefix]
Leads(c, names) == IF Ops(c) \cap names # {} THEN Ops(c) \cap names ELSE names

NjoinLines(c) ==
  IF c.mem = {} THEN {<< >>}
  ELSE { <<Sjoin(c.ts, FALSE, c.mode, l, c.mem, Prefixes(c))>> : l \in Leads(c, c.mem) }
       \cup
       { << Sjoin(c.ts, FALSE, c.mode, p[1], p[3], Prefixes(c)),
            Sjoin(c.ts, TRUE, NoMode, p[2], c.mem \ p[3], Prefixes(c)) >> :
         p \in { r \in c.mem \X c.mem \X SUBSET c.mem :
                   /\ r[1] \in r[3] /\ r[2] \notin r[3]
                   /\ r[1] \in Leads(c, c.mem) } }

Bursts(s) ==
  { <<[type |-> "SERVER"], [type |-> "NICK", names |-> known[s]]>> \o l :
    l \in NjoinLines(ch[s]) }

-----------------------------------------------------------------------------
(* Every server starts alone, with its own clients and its own channel.    *)
Init ==
  /\ links = [s \in Server |-> {}]
  /\ known = [s \in Server |-> {u \in User : Home[u] = s}]
  /\ ch \in [Server -> Start]
  /\ \A s \in Server : ch[s].mem \subseteq known[s]
  /\ q = [s \in Server |-> [t \in Server |-> << >>]]
  /\ ops = 0
  /\ cuts = 0

Neighbours(s) == {t \in Server : t # s /\ Via[s][t] = t /\ Via[t][s] = s}

(* t has accepted s's SERVER line: server_estab bursts to s.  Neither side *)
(* may still hold the other one from an earlier link.                      *)
Connect(t, s) ==
  /\ s \in Neighbours(t)
  /\ s \notin links[t] /\ t \notin links[s]
  /\ q[s][t] = << >> /\ q[t][s] = << >>
  /\ links' = [links EXCEPT ![t] = @ \cup {s}]
  /\ \E b \in Bursts(t) : q' = [q EXCEPT ![t][s] = b]
  /\ UNCHANGED <<known, ch, ops, cuts>>

(* The next line s reads from p is of this type.                           *)
NextLine(p, s, type) == q[p][s] # << >> /\ Head(q[p][s]).type = type

(* The answer to our SERVER line: we establish the link and burst as well. *)
RecvServer(s, p) ==
  /\ NextLine(p, s, "SERVER")
  /\ links' = [links EXCEPT ![s] = @ \cup {p}]
  /\ LET r == Consume(s, p)
     IN  \E b \in Bursts(s) : q' = [r EXCEPT ![s][p] = @ \o Tail(b)]
  /\ UNCHANGED <<known, ch, ops, cuts>>

(* Mutant: a NICK is not passed on.                                        *)
RecvNick_NoRelay(s, p) ==
  /\ NextLine(p, s, "NICK")
  /\ known' = [known EXCEPT ![s] = @ \cup Head(q[p][s]).names]
  /\ q' = Consume(s, p)
  /\ UNCHANGED <<links, ch, ops, cuts>>

RecvNick(s, p) ==
  /\ NextLine(p, s, "NICK")
  /\ known' = [known EXCEPT ![s] = @ \cup Head(q[p][s]).names]
  /\ q' = ConsumeRelay(s, p, Head(q[p][s]))
  /\ UNCHANGED <<links, ch, ops, cuts>>

(* Nicks that are unknown here, or not reached through p, are skipped.  If *)
(* the first nick is skipped the relayed line starts with another one, and *)
(* if none is left nothing is relayed, but the channel has been created.   *)
RecvSjoin(s, p) ==
  /\ NextLine(p, s, "SJOIN")
  /\ LET m == Head(q[p][s])
         kept == {u \in m.names : u \in known[s] /\ Via[s][Home[u]] = p}
     IN  /\ ch' = [ch EXCEPT ![s] = SjoinChan(@, m, kept)]
         /\ \/ kept = {} /\ q' = Consume(s, p)
            \/ \E lead \in kept :
                 /\ m.lead \in kept => lead = m.lead
                 /\ q' = ConsumeRelay(s, p, SjoinRelay(ch[s], m, kept, lead))
  /\ UNCHANGED <<links, known, ops, cuts>>

RecvMode(s, p) ==
  /\ NextLine(p, s, "MODE")
  /\ LET m == Head(q[p][s])
         c == ch[s]
     IN  CASE m.src \notin known[s] ->
                q' = ConsumeUnknown(s, p, m.src) /\ UNCHANGED ch
           [] m.src \in known[s] /\ c.on /\ ModeAccepted(c, m.src, m.who, m.flag, m.add, TRUE) ->
                /\ ch' = [ch EXCEPT ![s] = change_chan_flag(@, m.who, m.flag, m.add)]
                /\ q' = ConsumeRelay(s, p, m)
           [] OTHER ->
                /\ ch' = [ch EXCEPT ![s] =
                      IF c.on /\ ModeDeops(c, m.src, m.who, m.flag, m.add)
                      THEN set_deopped(@, m.who) ELSE @]
                /\ q' = Consume(s, p)
  /\ UNCHANGED <<links, known, ops, cuts>>

RecvCMode(s, p) ==
  /\ NextLine(p, s, "CMODE")
  /\ LET m == Head(q[p][s])
         c == ch[s]
     IN  CASE m.src \notin known[s] ->
                q' = ConsumeUnknown(s, p, m.src) /\ UNCHANGED ch
           [] m.src \in known[s] /\ ChangeAccepted(c, m.src, m.change, TRUE) ->
                /\ ch' = [ch EXCEPT ![s].mode = ApplyChange(@, m.change, m.add)]
                /\ q' = ConsumeRelay(s, p, m)
           [] OTHER -> q' = Consume(s, p) /\ UNCHANGED ch
  /\ UNCHANGED <<links, known, ops, cuts>>

(* A PART of a non-member is not relayed.                                  *)
RecvPart(s, p) ==
  /\ NextLine(p, s, "PART")
  /\ LET m == Head(q[p][s])
     IN  CASE m.src \notin known[s] ->
                q' = ConsumeUnknown(s, p, m.src) /\ UNCHANGED ch
           [] m.src \in known[s] /\ m.src \in ch[s].mem ->
                /\ ch' = [ch EXCEPT ![s] = RemoveUsers(@, {m.src})]
                /\ q' = ConsumeRelay(s, p, m)
           [] OTHER -> q' = Consume(s, p) /\ UNCHANGED ch
  /\ UNCHANGED <<links, known, ops, cuts>>

RecvKick(s, p) ==
  /\ NextLine(p, s, "KICK")
  /\ LET m == Head(q[p][s])
     IN  CASE m.src \notin known[s] ->
                q' = ConsumeUnknown(s, p, m.src) /\ UNCHANGED ch
           [] m.src \in known[s] /\ KickAccepted(ch[s], m.src, m.who, TRUE) ->
                /\ ch' = [ch EXCEPT ![s] = RemoveUsers(@, {m.who})]
                /\ q' = ConsumeRelay(s, p, m)
           [] OTHER -> q' = Consume(s, p) /\ UNCHANGED ch
  /\ UNCHANGED <<links, known, ops, cuts>>

(* QUIT, KILL or SQUIT: clients that are no longer known are ignored.      *)
RecvExit(s, p) ==
  /\ NextLine(p, s, "EXIT")
  /\ LET gone == Head(q[p][s]).gone \cap known[s]
     IN  /\ known' = [known EXCEPT ![s] = @ \ gone]
         /\ ch' = [ch EXCEPT ![s] = RemoveUsers(@, gone)]
         /\ q' = IF gone = {} THEN Consume(s, p)
                 ELSE ConsumeRelay(s, p, [type |-> "EXIT", gone |-> gone])
  /\ UNCHANGED <<links, ops, cuts>>

Receive(s, p) ==
  \/ RecvServer(s, p) \/ RecvNick(s, p) \/ RecvSjoin(s, p)
  \/ RecvMode(s, p) \/ RecvCMode(s, p) \/ RecvPart(s, p)
  \/ RecvKick(s, p) \/ RecvExit(s, p)

-----------------------------------------------------------------------------
(* Commands of local clients. *)
Issue(act) == act \in Acts /\ ops < MaxOps /\ ops' = ops + 1

(* m_join: the first client in gets ops, the default modes and a new TS.   *)
Join(u) ==
  LET s == Home[u] IN
  /\ Issue("join")
  /\ u \in known[s] /\ u \notin ch[s].mem
  /\ IF ch[s].on
     THEN /\ ch' = [ch EXCEPT ![s].mem = @ \cup {u}]
          /\ q' = Relay(s, s, Sjoin(ch[s].ts, FALSE, NoMode, u, {u}, NoFlags))
     ELSE \E now \in TSVal \ {0} :
          LET mode == [NoMode EXCEPT !.flags = NewModes]
              fl == [NoFlags EXCEPT ![u] = {"o"}]
          IN  /\ ch' = [ch EXCEPT ![s] = [on |-> TRUE, ts |-> now, mem |-> {u},
                                         fl |-> fl, mode |-> mode]]
              /\ q' = Relay(s, s, Sjoin(now, FALSE, mode, u, {u}, fl))
  /\ UNCHANGED <<links, known, cuts>>

Part(u) ==
  LET s == Home[u] IN
  /\ Issue("part")
  /\ u \in ch[s].mem
  /\ ch' = [ch EXCEPT ![s] = RemoveUsers(@, {u})]
  /\ q' = Relay(s, s, [type |-> "PART", src |-> u])
  /\ UNCHANGED <<links, known, cuts>>

Kick(u, w) ==
  LET s == Home[u] IN
  /\ Issue("kick")
  /\ u \in known[s] /\ KickAccepted(ch[s], u, w, FALSE)
  /\ ch' = [ch EXCEPT ![s] = RemoveUsers(@, {w})]
  /\ q' = Relay(s, s, [type |-> "KICK", src |-> u, who |-> w])
  /\ UNCHANGED <<links, known, cuts>>

UserMode(u, w, f, add) ==
  LET s == Home[u] IN
  /\ Issue(IF f # "o" THEN "status" ELSE IF add THEN "op" ELSE "deop")
  /\ u \in known[s] /\ ch[s].on /\ ModeAccepted(ch[s], u, w, f, add, FALSE)
  /\ ch' = [ch EXCEPT ![s] = change_chan_flag(@, w, f, add)]
  /\ q' = Relay(s, s, [type |-> "MODE", src |-> u, who |-> w, flag |-> f, add |-> add])
  /\ UNCHANGED <<links, known, cuts>>

ChanMode(u, change, add) ==
  LET s == Home[u] IN
  /\ Issue("cmode")
  /\ u \in known[s] /\ ChangeAccepted(ch[s], u, change, FALSE)
  /\ ch' = [ch EXCEPT ![s].mode = ApplyChange(@, change, add)]
  /\ q' = Relay(s, s, [type |-> "CMODE", src |-> u, change |-> change, add |-> add])
  /\ UNCHANGED <<links, known, cuts>>

(* u leaves the network at s and the other servers are told.               *)
Leave(s, u) ==
  /\ u \in known[s]
  /\ known' = [known EXCEPT ![s] = @ \ {u}]
  /\ ch' = [ch EXCEPT ![s] = RemoveUsers(@, {u})]
  /\ q' = Relay(s, s, [type |-> "EXIT", gone |-> {u}])
  /\ UNCHANGED <<links, cuts>>

Quit(u) == Issue("quit") /\ Leave(Home[u], u)

(* m_kill by an oper on s: every server removes u, its own one too.        *)
Kill(s, u) == Issue("kill") /\ Leave(s, u)

(* The link between s and t breaks: what is in flight on it is lost, and   *)
(* both ends remove all the clients behind it and tell their other links.  *)
Split(s, t) ==
  LET lost == [x \in {s, t} |-> IF x = s THEN Behind(s, t) \cap known[s]
                                         ELSE Behind(t, s) \cap known[t]]
  IN
  /\ cuts < MaxCuts /\ cuts' = cuts + 1
  /\ s # t /\ t \in links[s]
  /\ links' = [links EXCEPT ![s] = @ \ {t}, ![t] = @ \ {s}]
  /\ known' = [x \in Server |-> IF x \in {s, t} THEN known[x] \ lost[x] ELSE known[x]]
  /\ ch' = [x \in Server |-> IF x \in {s, t} THEN RemoveUsers(ch[x], lost[x]) ELSE ch[x]]
  /\ q' = [x \in Server |-> [y \in Server |->
             CASE x \in {s, t} /\ y \in {s, t} -> << >>
               [] x \in {s, t} /\ y \notin {s, t} ->
                    IF y \in links[x] /\ lost[x] # {}
                    THEN Append(q[x][y], [type |-> "EXIT", gone |-> lost[x]])
                    ELSE q[x][y]
               [] OTHER -> q[x][y]]]
  /\ UNCHANGED ops

Next ==
  \/ \E s, t \in Server : Connect(t, s) \/ Receive(s, t) \/ Split(s, t)
  \/ \E u \in Actors :
       \/ Join(u) \/ Part(u) \/ Quit(u)
       \/ \E w \in User : Kick(u, w)
       \/ \E w \in User, f \in Prefix, add \in BOOLEAN : UserMode(u, w, f, add)
       \/ \E change \in Change, add \in BOOLEAN : ChanMode(u, change, add)
  \/ \E s \in Server, u \in Victims : Kill(s, u)

Spec == Init /\ [][Next]_vars

(* A server that is up keeps reading its links and its operators keep the  *)
(* configured links connected.                                             *)
Fairness ==
  \A s, t \in Server : WF_vars(Receive(s, t)) /\ WF_vars(Connect(t, s))

FairSpec == Spec /\ Fairness

-----------------------------------------------------------------------------
(* Type invariant: every copy is a struct Channel, every queue holds lines. *)
TypeOK ==
  /\ links \in [Server -> SUBSET Server]
  /\ known \in [Server -> SUBSET User]
  /\ ch \in [Server -> Chan]
  /\ q \in [Server -> [Server -> Seq(Msg)]]
  /\ ops \in 0..MaxOps
  /\ cuts \in 0..MaxCuts

(* No member is both a channel operator and marked CHFL_DEOPPED: the mark  *)
(* is only set on a client without ops and every opping clears it, so the  *)
(* mode changes of a real operator are never ignored.                      *)
OpNotDeopped ==
  \A s \in Server, u \in User : ~({"o", "d"} \subseteq ch[s].fl[u])

(* The two sides of the membership relation fit: a channel lists only      *)
(* clients the server knows, whatever KILL, QUIT or SQUIT overtook, only   *)
(* members have flags and only an allocated channel has members.           *)
MembersKnown ==
  \A s \in Server :
    /\ ch[s].mem \subseteq known[s]
    /\ \A u \in User : ch[s].fl[u] # {} => u \in ch[s].mem
    /\ ~ch[s].on => ch[s].mem = {}

(* A server only knows clients it can reach: its own, or those behind a    *)
(* server it has linked to; a split leaves nobody behind.                  *)
KnownReachable ==
  \A s \in Server : \A u \in known[s] : Home[u] = s \/ Via[s][Home[u]] \in links[s]

(* While a channel has operators its timestamp never moves to a younger    *)
(* value, whichever lines are handled ("the time of creation of the        *)
(* current ops on the channel", src/doc/README.TSora:180).                 *)
TSNeverRises ==
  [][\A s \in Server :
       ch[s].on /\ ch'[s].on /\ haveops(ch[s]) => ch'[s].ts <= ch[s].ts]_vars

(* A description younger than ours gains nothing on a channel with ops:    *)
(* nobody is opped or deopped, modes and timestamp stay (m_sjoin).         *)
YoungerGainsNothing ==
  [][\A s \in Server : \A p \in Neighbours(s) :
       /\ NextLine(p, s, "SJOIN") /\ q'[p][s] # q[p][s] /\ p \in links'[s]
       /\ haveops(ch[s]) /\ ch[s].ts # 0 /\ Head(q[p][s]).ts > ch[s].ts
       => /\ Ops(ch'[s]) = Ops(ch[s])
          /\ ch'[s].mode = ch[s].mode /\ ch'[s].ts = ch[s].ts]_vars

Quiet == \A s, t \in Server : q[s][t] = << >>

View(c) == [on |-> c.on, ts |-> c.ts, mem |-> c.mem, mode |-> c.mode,
            fl |-> [u \in User |-> c.fl[u] \ {"d"}]]

(* Once every line has been handled, linked servers hold the same channel: *)
(* timestamp, members, operators, voices and modes (README.TSora:318-330). *)
Agreement ==
  Quiet => \A s \in Server : \A t \in links[s] : View(ch[s]) = View(ch[t])

(* The last one out frees the channel unless a sticky letter holds it      *)
(* (sub1_from_channel), and no line creates a channel that nobody joins    *)
(* (m_sjoin), as long as nobody is KILLed meanwhile.                       *)
NoGhost ==
  [][\A s \in Server :
       /\ ch[s].mem # {} \/ ~ch[s].on
       /\ ch'[s].on /\ ch'[s].mem = {}
       => ch'[s].mode.flags \cap Sticky # {}]_vars

(* Once every line has been handled linked servers know the same clients   *)
(* and list the same members ("to keep the name list in sync",             *)
(* src/doc/README.TSora:314).  With more commands than the runs allow a    *)
(* KICK that crosses a PART and a new JOIN of its victim breaks this.      *)
NamesAgree ==
  Quiet => \A s \in Server : \A t \in links[s] :
             known[s] = known[t] /\ ch[s].mem = ch[t].mem

(* All links come up and all lines are handled: the relaying of lines ends,*)
(* and the network settles with one list of clients and of members.        *)
Converges ==
  <>[](/\ Quiet /\ \A s \in Server : links[s] = Neighbours(s)
       /\ \A s, t \in Server : known[s] = known[t] /\ ch[s].mem = ch[t].mem)

=============================================================================
