------------------------------- MODULE ToldProofs -------------------------------
(***************************************************************************)
(* Proofs about Told, for any clients, letters, limits and keys: the        *)
(* founder of a channel, who only ever hears what set_channel_mode and      *)
(* m_sjoin tell, knows its modes and the status of its members.  The        *)
(* inductive invariant is AsTold with the types of what it compares.        *)
(*                                                                         *)
(* And about Topic, for any tree of servers: who believes in services, and  *)
(* that linked servers have one topic.  There the inductive invariant is    *)
(* what may be on its way between two neighbours (Wired), what each server  *)
(* makes of its links (Sighted), and, while nothing crossed (In_order_still),*)
(* how far a new link or a new topic has come.                              *)
(***************************************************************************)
EXTENDS Told, Topic, FiniteSetTheorems, TLAPS

Marked == Status \cup {"d"}
ChanModes == [flags : SUBSET Letter, limit : Limits \cup {0},
              key : Keys \cup {0}, msgs : Msgs \cup {0}]

(* The founder is a member from the beginning and does not leave.           *)
ToTypes ==
    /\ members \subseteq Guests /\ Founder \in members
    /\ status \in [Guests -> SUBSET Marked]
    /\ modes \in ChanModes
    /\ told \in [modes : ChanModes, status : [Guests -> SUBSET Status]]

ToInv == ToTypes /\ AsTold

(* A step that leaves the modes and what is told of them alone.             *)
LEMMA SameModes ==
    ASSUME ToInv, UNCHANGED modes, told'.modes = told.modes,
           told' \in [modes : ChanModes, status : [Guests -> SUBSET Status]],
           members' \subseteq Guests, Founder \in members',
           status' \in [Guests -> SUBSET Marked],
           \A u \in members' : told'.status[u] = status'[u] \cap Status
    PROVE  ToInv'
BY DEF ToInv, ToTypes, AsTold

(* One that leaves the members and their statuses alone.                    *)
LEMMA SameMembers ==
    ASSUME ToInv, UNCHANGED <<members, status>>, told'.status = told.status,
           told' \in [modes : ChanModes, status : [Guests -> SUBSET Status]],
           modes' \in ChanModes,
           told'.modes.flags \ {"K"} = modes'.flags \ {"K"},
           modes'.flags \subseteq told'.modes.flags,
           told'.modes.limit = modes'.limit, told'.modes.key = modes'.key,
           told'.modes.msgs = modes'.msgs
    PROVE  ToInv'
BY DEF ToInv, ToTypes, AsTold

LEMMA EntersStep == ASSUME ToInv, NEW u \in Guests, Enters(u) PROVE ToInv'
<1>1. /\ members' = members \cup {u} /\ modes' = modes /\ u \in Guests
      /\ status' = [status EXCEPT ![u] = {}] /\ told' = [told EXCEPT !.status[u] = {}]
  BY DEF Enters
<1>2. /\ told'.modes = told.modes
      /\ told' \in [modes : ChanModes, status : [Guests -> SUBSET Status]]
      /\ \A v \in Guests : told'.status[v] = IF v = u THEN {} ELSE told.status[v]
  BY <1>1 DEF ToInv, ToTypes
<1>3. /\ status' \in [Guests -> SUBSET Marked]
      /\ \A v \in Guests : status'[v] = IF v = u THEN {} ELSE status[v]
  BY <1>1 DEF ToInv, ToTypes
<1>4. \A v \in members' : told'.status[v] = status'[v] \cap Status
  BY <1>1, <1>2, <1>3 DEF ToInv, ToTypes, AsTold
<1>5. members' \subseteq Guests /\ Founder \in members'
  BY <1>1 DEF ToInv, ToTypes
<1> QED BY <1>1, <1>2, <1>3, <1>4, <1>5, SameModes

LEMMA LeavesStep == ASSUME ToInv, NEW u \in Guests, Leaves(u) PROVE ToInv'
<1>1. /\ members' = members \ {u} /\ modes' = modes /\ u # Founder
      /\ status' = [status EXCEPT ![u] = {}] /\ told' = [told EXCEPT !.status[u] = {}]
  BY DEF Leaves
<1>2. /\ told'.modes = told.modes
      /\ told' \in [modes : ChanModes, status : [Guests -> SUBSET Status]]
      /\ \A v \in Guests : told'.status[v] = IF v = u THEN {} ELSE told.status[v]
  BY <1>1 DEF ToInv, ToTypes
<1>3. /\ status' \in [Guests -> SUBSET Marked]
      /\ \A v \in Guests : status'[v] = IF v = u THEN {} ELSE status[v]
  BY <1>1 DEF ToInv, ToTypes
<1>4. \A v \in members' : told'.status[v] = status'[v] \cap Status
  BY <1>1, <1>2, <1>3 DEF ToInv, ToTypes, AsTold
<1>5. members' \subseteq Guests /\ Founder \in members'
  BY <1>1 DEF ToInv, ToTypes
<1> QED BY <1>1, <1>2, <1>3, <1>4, <1>5, SameModes

-----------------------------------------------------------------------------
(* The modes a MODE line changes are told as they are set.                  *)
LEMMA LetteredStep ==
    ASSUME ToInv, NEW by \in Guests, NEW x \in Letter, Lettered(by, x) PROVE ToInv'
<1>1. PICK new \in SUBSET Letter :
        /\ modes' = [modes EXCEPT !.flags = new] /\ told' = [told EXCEPT !.modes.flags = new]
        /\ UNCHANGED <<members, status>>
  <2>1. modes.flags \cup {x} \in SUBSET Letter /\ modes.flags \ {x} \in SUBSET Letter
    BY DEF ToInv, ToTypes, ChanModes
  <2>2. \E new \in {modes.flags \cup {x}, modes.flags \ {x}} :
          /\ modes' = [modes EXCEPT !.flags = new] /\ told' = [told EXCEPT !.modes.flags = new]
          /\ UNCHANGED <<members, status>>
    BY DEF Lettered
  <2> QED BY <2>1, <2>2
<1>2. /\ told' \in [modes : ChanModes, status : [Guests -> SUBSET Status]]
      /\ told'.status = told.status
      /\ told'.modes = [told.modes EXCEPT !.flags = new]
  BY <1>1 DEF ToInv, ToTypes, ChanModes
<1>3. /\ modes' \in ChanModes /\ modes'.flags = new /\ modes'.limit = modes.limit
      /\ modes'.key = modes.key /\ modes'.msgs = modes.msgs
  BY <1>1 DEF ToInv, ToTypes, ChanModes
<1>4. /\ told'.modes.flags = new /\ told'.modes.limit = modes.limit
      /\ told'.modes.key = modes.key /\ told'.modes.msgs = modes.msgs
  BY <1>2 DEF ToInv, ToTypes, ChanModes, AsTold
<1> QED BY <1>1, <1>2, <1>3, <1>4, SameMembers

LEMMA LimitingStep ==
    ASSUME ToInv, NEW by \in Guests, Limiting(by) PROVE ToInv'
<1>1. PICK n \in Limits \cup {0} :
        /\ modes' = [modes EXCEPT !.limit = n] /\ told' = [told EXCEPT !.modes.limit = n]
        /\ UNCHANGED <<members, status>>
  BY DEF Limiting
<1>2. /\ told' \in [modes : ChanModes, status : [Guests -> SUBSET Status]]
      /\ told'.status = told.status
      /\ told'.modes = [told.modes EXCEPT !.limit = n]
  BY <1>1 DEF ToInv, ToTypes, ChanModes
<1>3. /\ modes' \in ChanModes /\ modes'.flags = modes.flags /\ modes'.limit = n
      /\ modes'.key = modes.key /\ modes'.msgs = modes.msgs
  BY <1>1 DEF ToInv, ToTypes, ChanModes
<1>4. /\ told'.modes.flags = told.modes.flags /\ told'.modes.limit = n
      /\ told'.modes.key = modes.key /\ told'.modes.msgs = modes.msgs
  BY <1>2 DEF ToInv, ToTypes, ChanModes, AsTold
<1>5. /\ told'.modes.flags \ {"K"} = modes'.flags \ {"K"}
      /\ modes'.flags \subseteq told'.modes.flags
  BY <1>3, <1>4 DEF ToInv, AsTold
<1> QED BY <1>1, <1>2, <1>3, <1>4, <1>5, SameMembers

LEMMA KeyingStep ==
    ASSUME ToInv, NEW by \in Guests, Keying(by) PROVE ToInv'
<1>1. PICK k \in Keys \cup {0} :
        /\ modes' = [modes EXCEPT !.key = k] /\ told' = [told EXCEPT !.modes.key = k]
        /\ UNCHANGED <<members, status>>
  BY DEF Keying
<1>2. /\ told' \in [modes : ChanModes, status : [Guests -> SUBSET Status]]
      /\ told'.status = told.status
      /\ told'.modes = [told.modes EXCEPT !.key = k]
  BY <1>1 DEF ToInv, ToTypes, ChanModes
<1>3. /\ modes' \in ChanModes /\ modes'.flags = modes.flags /\ modes'.limit = modes.limit
      /\ modes'.key = k /\ modes'.msgs = modes.msgs
  BY <1>1 DEF ToInv, ToTypes, ChanModes
<1>4. /\ told'.modes.flags = told.modes.flags /\ told'.modes.limit = modes.limit
      /\ told'.modes.key = k /\ told'.modes.msgs = modes.msgs
  BY <1>2 DEF ToInv, ToTypes, ChanModes, AsTold
<1>5. /\ told'.modes.flags \ {"K"} = modes'.flags \ {"K"}
      /\ modes'.flags \subseteq told'.modes.flags
  BY <1>3, <1>4 DEF ToInv, AsTold
<1> QED BY <1>1, <1>2, <1>3, <1>4, <1>5, SameMembers

LEMMA FloodingStep ==
    ASSUME ToInv, NEW by \in Guests, Flooding(by) PROVE ToInv'
<1>1. PICK n \in Msgs \cup {0} :
        /\ modes' = [modes EXCEPT !.msgs = n] /\ told' = [told EXCEPT !.modes.msgs = n]
        /\ UNCHANGED <<members, status>>
  BY DEF Flooding
<1>2. /\ told' \in [modes : ChanModes, status : [Guests -> SUBSET Status]]
      /\ told'.status = told.status
      /\ told'.modes = [told.modes EXCEPT !.msgs = n]
  BY <1>1 DEF ToInv, ToTypes, ChanModes
<1>3. /\ modes' \in ChanModes /\ modes'.flags = modes.flags /\ modes'.limit = modes.limit
      /\ modes'.key = modes.key /\ modes'.msgs = n
  BY <1>1 DEF ToInv, ToTypes, ChanModes
<1>4. /\ told'.modes.flags = told.modes.flags /\ told'.modes.limit = modes.limit
      /\ told'.modes.key = modes.key /\ told'.modes.msgs = n
  BY <1>2 DEF ToInv, ToTypes, ChanModes, AsTold
<1>5. /\ told'.modes.flags \ {"K"} = modes'.flags \ {"K"}
      /\ modes'.flags \subseteq told'.modes.flags
  BY <1>3, <1>4 DEF ToInv, AsTold
<1> QED BY <1>1, <1>2, <1>3, <1>4, <1>5, SameMembers

(* What a MODE gives or takes it gives or takes in both.                    *)
LEMMA GrantingStep ==
    ASSUME ToInv, NEW by \in Guests, NEW u \in Guests, NEW x \in Status, NEW sign \in {"+", "-"},
           Granting(by, u, x, sign)
    PROVE  ToInv'
<1> DEFINE g(s) == Granted(s, x, sign)
<1>1. /\ members' = members /\ modes' = modes
      /\ status' = [status EXCEPT ![u] = g(@)] /\ told' = [told EXCEPT !.status[u] = g(@)]
  BY DEF Granting
<1>2. /\ \A S \in SUBSET Marked : g(S) \in SUBSET Marked
      /\ \A S \in SUBSET Status : g(S) \in SUBSET Status
      /\ \A S \in SUBSET Marked : g(S \cap Status) = g(S) \cap Status
  BY DEF Granted, Marked, Status
<1> HIDE DEF g
<1>3. /\ told'.modes = told.modes
      /\ told' \in [modes : ChanModes, status : [Guests -> SUBSET Status]]
      /\ \A v \in Guests : told'.status[v] = IF v = u THEN g(told.status[v]) ELSE told.status[v]
  BY <1>1, <1>2 DEF ToInv, ToTypes
<1>4. /\ status' \in [Guests -> SUBSET Marked]
      /\ \A v \in Guests : status'[v] = IF v = u THEN g(status[v]) ELSE status[v]
  BY <1>1, <1>2 DEF ToInv, ToTypes
<1>5. \A v \in members' : told'.status[v] = status'[v] \cap Status
  BY <1>1, <1>2, <1>3, <1>4 DEF ToInv, ToTypes, AsTold
<1> QED BY <1>1, <1>3, <1>4, <1>5, SameModes DEF ToInv, ToTypes

(* The mark of the deopped is told to nobody, and is no status.             *)
LEMMA MarksStep ==
    ASSUME ToInv, NEW by \in Guests, NEW u \in Guests, Marks(by, u) PROVE ToInv'
<1>1. /\ members' = members /\ modes' = modes /\ told' = told
      /\ status' = [status EXCEPT ![u] = @ \cup {"d"}]
  BY DEF Marks
<1>2. /\ status' \in [Guests -> SUBSET Marked]
      /\ \A v \in Guests : status'[v] \cap Status = status[v] \cap Status
  BY <1>1 DEF ToInv, ToTypes, Marked, Status
<1>3. \A v \in members' : told'.status[v] = status'[v] \cap Status
  BY <1>1, <1>2 DEF ToInv, ToTypes, AsTold
<1> QED BY <1>1, <1>2, <1>3, SameModes DEF ToInv, ToTypes

-----------------------------------------------------------------------------
(* The modes after a netjoin.                                               *)
LEMMA ModeLineTells ==
    ASSUME ToInv, NEW new \in ChanModes
    PROVE  LET t == ModeLine(told.modes, modes, new) IN
           /\ t \in ChanModes
           /\ t.flags \ {"K"} = new.flags \ {"K"} /\ new.flags \subseteq t.flags
           /\ t.limit = new.limit /\ t.key = new.key /\ t.msgs = new.msgs
<1> DEFINE t == ModeLine(told.modes, modes, new)
<1>1. told.modes \in ChanModes /\ modes \in ChanModes
  BY DEF ToInv, ToTypes
<1>2. /\ told.modes.flags \ {"K"} = modes.flags \ {"K"} /\ modes.flags \subseteq told.modes.flags
      /\ told.modes.limit = modes.limit /\ told.modes.key = modes.key
      /\ told.modes.msgs = modes.msgs
  BY DEF ToInv, AsTold
<1>3. /\ t.flags = (told.modes.flags \cup (new.flags \ modes.flags))
                   \ ((modes.flags \ new.flags) \ {"K"})
      /\ t.limit = new.limit /\ t.key = new.key /\ t.msgs = new.msgs
  BY <1>2 DEF ModeLine, Parameters, Come, Gone
<1>4. t = [flags |-> t.flags, limit |-> t.limit, key |-> t.key, msgs |-> t.msgs]
  BY DEF ModeLine
<1> HIDE DEF t
<1>5. t.flags \ {"K"} = new.flags \ {"K"} /\ new.flags \subseteq t.flags
  BY <1>2, <1>3
<1>6. t.flags \subseteq Letter
  BY <1>1, <1>3 DEF ChanModes
<1>7. t \in ChanModes
  BY <1>3, <1>4, <1>6 DEF ChanModes
<1> QED BY <1>3, <1>5, <1>7 DEF t

LEMMA TogetherType ==
    ASSUME NEW old \in ChanModes, NEW new \in ChanModes PROVE Together(old, new) \in ChanModes
<1>1. \A i, j : Higher(i, j) \in {i, j}
  BY DEF Higher
<1>2. /\ Higher(old.limit, new.limit) \in Limits \cup {0}
      /\ Higher(old.key, new.key) \in Keys \cup {0}
  BY <1>1 DEF ChanModes
<1> QED BY <1>2 DEF Together, ChanModes

LEMMA NetjoinStep ==
    ASSUME ToInv, NEW u \in There, NEW pf \in SUBSET Status, NEW m \in Offered, NEW age,
           Netjoin(u, pf, m, age)
    PROVE  ToInv'
<1> DEFINE doesop  == "o" \in pf
           haveops == \E v \in members : "o" \in status[v]
           ours    == age = "older" => ~doesop
           theirs  == age = "younger" => ~haveops
           new     == IF ~theirs THEN modes ELSE IF ours THEN Together(modes, m) ELSE m
           given   == IF theirs THEN pf
                      ELSE IF "o" \in pf /\ "a" \notin pf THEN {"d"} ELSE {}
           left    == IF ours THEN {} ELSE Status
<1>1. /\ members' = members \cup {u} /\ modes' = new
      /\ status' = [v \in Guests |-> IF v = u THEN given ELSE status[v] \ left]
      /\ told' = [modes |-> ModeLine(told.modes, modes, new),
                  status |-> [v \in Guests |->
                      IF v = u THEN given \cap Status
                      ELSE told.status[v] \ (left \cap status[v])]]
  BY DEF Netjoin
<1>2. m \in ChanModes /\ modes \in ChanModes
  BY ToldAssumption DEF ToInv, ToTypes, ChanModes
<1>3. new \in ChanModes
  BY <1>2, TogetherType
<1>4. given \in SUBSET Marked /\ left \in SUBSET Status
  BY DEF Marked
<1>5. u \in Guests
  BY DEF Guests
<1> HIDE DEF new, given, left
<1>6. /\ status' \in [Guests -> SUBSET Marked]
      /\ \A v \in Guests : status'[v] = IF v = u THEN given ELSE status[v] \ left
  BY <1>1, <1>4 DEF ToInv, ToTypes
<1>7. /\ told' \in [modes : ChanModes, status : [Guests -> SUBSET Status]]
      /\ told'.modes = ModeLine(told.modes, modes, new)
      /\ \A v \in Guests : told'.status[v] =
           IF v = u THEN given \cap Status ELSE told.status[v] \ (left \cap status[v])
  <2>1. ModeLine(told.modes, modes, new) \in ChanModes
    BY <1>3, ModeLineTells
  <2> QED BY <1>1, <2>1 DEF ToInv, ToTypes
<1>8. ASSUME NEW v \in members' PROVE told'.status[v] = status'[v] \cap Status
  <2>1. v \in Guests /\ (v = u \/ v \in members)
    BY <1>1, <1>5 DEF ToInv, ToTypes
  <2>2. CASE v = u
    BY <1>6, <1>7, <2>1, <2>2
  <2>3. CASE v # u
    <3>1. told.status[v] = status[v] \cap Status
      BY <2>1, <2>3 DEF ToInv, AsTold
    <3> QED BY <1>6, <1>7, <2>1, <2>3, <3>1
  <2> QED BY <2>2, <2>3
<1>9. /\ told'.modes.flags \ {"K"} = modes'.flags \ {"K"}
      /\ modes'.flags \subseteq told'.modes.flags
      /\ told'.modes.limit = modes'.limit /\ told'.modes.key = modes'.key
      /\ told'.modes.msgs = modes'.msgs
  BY <1>1, <1>3, <1>7, ModeLineTells
<1>10. ToTypes'
  BY <1>1, <1>3, <1>5, <1>6, <1>7 DEF ToInv, ToTypes
<1>11. AsTold'
  BY <1>8, <1>9 DEF AsTold
<1> QED BY <1>10, <1>11 DEF ToInv

-----------------------------------------------------------------------------
LEMMA ToInitInv == ASSUME ToInit PROVE ToInv
<1>1. Founder \in Guests
  BY ToldAssumption DEF Guests
<1>2. /\ status \in [Guests -> SUBSET Marked] /\ status \in [Guests -> SUBSET Status]
  BY DEF ToInit, Nothing, Marked, Status
<1>3. modes \in ChanModes /\ told = [modes |-> modes, status |-> status]
  BY DEF ToInit, Plain, ChanModes
<1>4. ToTypes
  BY <1>1, <1>2, <1>3 DEF ToInit, ToTypes
<1>5. \A u \in Guests : status[u] = status[u] \cap Status
  BY <1>2
<1>6. AsTold
  BY <1>3, <1>4, <1>5 DEF AsTold, ToTypes
<1> QED BY <1>4, <1>6 DEF ToInv

LEMMA ToNextInv == ASSUME ToInv, [ToNext]_tvars_ PROVE ToInv'
<1>1. CASE UNCHANGED tvars_
  BY <1>1 DEF tvars_, ToInv, ToTypes, AsTold
<1>2. ASSUME NEW u \in Guests, Enters(u) \/ Leaves(u) PROVE ToInv'
  BY <1>2, EntersStep, LeavesStep
<1>3. ASSUME NEW u \in Guests, Speak(u) PROVE ToInv'
  BY <1>3 DEF Speak, ToInv, ToTypes, AsTold
<1>4. ASSUME NEW by \in Guests, Limiting(by) \/ Keying(by) \/ Flooding(by) PROVE ToInv'
  BY <1>4, LimitingStep, KeyingStep, FloodingStep
<1>5. ASSUME NEW by \in Guests, NEW x \in Letter, Lettered(by, x) PROVE ToInv'
  BY <1>5, LetteredStep
<1>6. ASSUME NEW by \in Guests, NEW u \in Guests, NEW x \in Status, NEW sign \in {"+", "-"},
             Granting(by, u, x, sign)
      PROVE  ToInv'
  BY <1>6, GrantingStep
<1>7. ASSUME NEW by \in Guests, NEW u \in Guests, Marks(by, u) PROVE ToInv'
  BY <1>7, MarksStep
<1>8. ASSUME NEW u \in There, NEW pf \in SUBSET Status, NEW m \in Offered, NEW age,
             Netjoin(u, pf, m, age)
      PROVE  ToInv'
  BY <1>8, NetjoinStep
<1> QED BY <1>1, <1>2, <1>3, <1>4, <1>5, <1>6, <1>7, <1>8 DEF ToNext

(* Who has been in a channel since it was made knows its modes and the      *)
(* status of its members, but for K, whatever set_channel_mode and m_sjoin  *)
(* do to them in whatever order.                                            *)
THEOREM FounderKnows == ToSpec => []AsTold
<1>1. ToInv => AsTold
  BY DEF ToInv
<1> QED BY <1>1, ToInitInv, ToNextInv, PTL DEF ToSpec

-----------------------------------------------------------------------------
(* Topic: who believes in services.  Sighted is what one server makes of    *)
(* its links J, the servers E it knows and its marked links P, when On are  *)
(* the servers that believe in services and Led those that lost them with a *)
(* server in between.                                                       *)
Sighted(h, J, E, P, On, Led) ==
    LET towards == {n \in J : ServicesServer \in Behind_[h][n]}
    IN  /\ J \subseteq Joint[h] /\ J \subseteq E
        /\ \A x \in E : \E n \in J : x \in Behind_[h][n]
        /\ P \subseteq towards
        /\ h \in Led => ServicesServer \notin E
        /\ h \in On <=> ServicesServer \in E \/ h \in Led
        /\ ServicesServer \in E => P = towards
        /\ P # {} => h \in On

(* The lines w that h has yet to read of p, and those v that p has of h,    *)
(* when A are h's links and B are p's.  The first line of a connection is   *)
(* SERVER p, with it the link is up; the others are about servers behind p; *)
(* none comes when p has closed.                                            *)
Wired(h, p, w, v, A, B) ==
    /\ w # << >> /\ p \notin A => w[1] = Server_line(p)
    /\ \A i \in 1 .. Len(w) : w[i].cmd = "SERVER" =>
          w[i].name \in Behind_[h][p] /\ (w[i].name = p => i = 1 /\ p \notin A)
    /\ \A i \in 1 .. Len(w) : w[i].cmd = "SQUIT" => w[i].name \in Behind_[h][p] \ {p}
    /\ w # << >> => h \in B \/ Shut(w)
    /\ Shut(w) => h \notin B /\ v = << >>
    /\ h \in B /\ p \notin A => w # << >> \/ Shut(v)
AllWired(W, J) ==
    \A h \in Host : \A p \in Joint[h] : Wired(h, p, W[h][p], W[p][h], J[h], J[p])

Topics == [text : Words \cup {NoTopic}, time : Nat]
Wire_lines == [cmd : {"SERVER", "SQUIT"}, name : Host] \cup {Closed}
              \cup [cmd : {"TOPIC"}, text : Words \cup {NoTopic}, time : Nat, server : BOOLEAN]
Wires == [Host -> [Host -> Seq(Wire_lines)]]
Links == [Host -> SUBSET Host]

OTypes ==
    /\ wire \in Wires /\ topic \in [Host -> Topics]
    /\ joined \in Links /\ seen \in Links /\ spath \in Links
    /\ services_on \subseteq Host /\ misled \subseteq Host
OSighted ==
    \A h \in Host : Sighted(h, joined[h], seen[h], spath[h], services_on, misled)
OInv == OTypes /\ AllWired(wire, joined) /\ OSighted

(* The tree, as the proofs use it.                                          *)
LEMMA Tree_facts ==
    /\ \A h \in Host : \A p \in Joint[h] :
          /\ p \in Host /\ p # h /\ h \in Joint[p] /\ p \in Behind_[h][p]
          /\ h \notin Behind_[h][p] /\ Behind_[h][p] \subseteq Host
    /\ \A h \in Host : \A p, n \in Joint[h] : p # n =>
          /\ \A x \in Behind_[h][p] : x \notin Behind_[h][n]
          /\ \A x \in Behind_[h][p] : x \in Behind_[n][h] /\ x # h
    /\ \A h \in Host : \A x \in Host \ {h} :
          /\ x \in Behind_[h][x]
          /\ x \notin Joint[h] => \A n \in Joint[h] : n \notin Behind_[h][x]
    /\ ServicesServer \in Host /\ IsFiniteSet(Host)
<1>1. \A h \in Host : \A p \in Joint[h] : p \in Host /\ h \in Joint[p]
    BY TopicAssumption
<1>2. \A h \in Host : \A p \in Joint[h] : p # h /\ h \notin Behind_[h][p] /\ Behind_[h][p] \subseteq Host
    BY TopicTree
<1>3. \A h \in Host : \A p, n \in Joint[h] : p # n =>
          Behind_[h][p] \cap Behind_[h][n] = {} /\ Behind_[h][p] \subseteq Behind_[n][h]
    BY TopicTree
<1>4. \A h \in Host : \A x \in Host \ {h} :
          x \in Behind_[h][x] /\ (x \notin Joint[h] => Behind_[h][x] \cap Joint[h] = {})
    BY TopicTree
<1> QED BY <1>1, <1>2, <1>3, <1>4, TopicAssumption

-----------------------------------------------------------------------------
(* What one server makes of a new link, a new server, a link or a server    *)
(* that is lost.                                                            *)
LEMMA Sight_link ==
    ASSUME NEW h \in Host, NEW p \in Joint[h], NEW J, NEW E, NEW P, NEW On, NEW Led,
           Sighted(h, J, E, P, On, Led), p \notin J, NEW On2, NEW Led2,
           h \in On2 <=> p = ServicesServer \/ h \in On,
           h \in Led2 <=> p # ServicesServer /\ h \in Led,
           NEW P2, P2 = IF p = ServicesServer THEN P \cup {p} ELSE P
    PROVE  Sighted(h, J \cup {p}, E \cup {p}, P2, On2, Led2)
<1>1. p \in Behind_[h][p] /\ \A n \in J : \A x \in Behind_[h][p] : x \notin Behind_[h][n]
    BY Tree_facts DEF Sighted
<1>2. CASE p = ServicesServer
    BY <1>1, <1>2 DEF Sighted
<1>3. CASE p # ServicesServer
    BY <1>1, <1>3 DEF Sighted
<1> QED BY <1>2, <1>3

LEMMA Sight_server ==
    ASSUME NEW h \in Host, NEW p, NEW J, NEW E, NEW P, NEW On, NEW Led,
           Sighted(h, J, E, P, On, Led), p \in J, NEW x \in Behind_[h][p], NEW On2, NEW Led2,
           h \in On2 <=> x = ServicesServer \/ h \in On,
           h \in Led2 <=> x # ServicesServer /\ h \in Led,
           NEW P2, P2 = IF x = ServicesServer THEN P \cup {p} ELSE P
    PROVE  Sighted(h, J, E \cup {x}, P2, On2, Led2)
<1>1. \A n \in J : n # p => x \notin Behind_[h][n]
    BY Tree_facts DEF Sighted
<1>2. CASE x = ServicesServer
    BY <1>1, <1>2 DEF Sighted
<1>3. CASE x # ServicesServer
    BY <1>1, <1>3 DEF Sighted
<1> QED BY <1>2, <1>3

LEMMA Sight_less ==
    ASSUME NEW h \in Host, NEW p, NEW J, NEW E, NEW P, NEW On, NEW Led,
           Sighted(h, J, E, P, On, Led), p \in J, NEW On2, NEW Led2,
           h \in On2 <=> p # ServicesServer /\ h \in On,
           h \in Led2 <=> h \in Led \/ (p # ServicesServer /\ ServicesServer \in E \cap Behind_[h][p])
    PROVE  Sighted(h, J \ {p}, E \ Behind_[h][p], P \ {p}, On2, Led2)
<1>1. p \in Behind_[h][p] /\ \A n \in J : n # p => \A x \in Behind_[h][p] : x \notin Behind_[h][n]
    BY Tree_facts DEF Sighted
<1>2. \A n \in J \ {p} : n \in E \ Behind_[h][p]
    BY Tree_facts DEF Sighted
<1>3. CASE p = ServicesServer
    BY <1>1, <1>2, <1>3 DEF Sighted
<1>4. CASE p # ServicesServer
    <2>1. CASE ServicesServer \in Behind_[h][p]
        BY <1>1, <1>2, <1>4, <2>1 DEF Sighted
    <2>2. CASE ServicesServer \notin Behind_[h][p]
        BY <1>1, <1>2, <1>4, <2>2 DEF Sighted
    <2> QED BY <2>1, <2>2
<1> QED BY <1>3, <1>4

LEMMA Sight_squit ==
    ASSUME NEW h \in Host, NEW p, NEW J, NEW E, NEW P, NEW On, NEW Led,
           Sighted(h, J, E, P, On, Led), p \in J, NEW x \in E, x \in Behind_[h][p], x # p,
           NEW On2, NEW Led2, h \in On2 <=> x # ServicesServer /\ h \in On,
           h \in Led2 <=> h \in Led \/ (x # ServicesServer /\ ServicesServer \in E \cap Behind_[h][x]),
           NEW P2, P2 = IF x = ServicesServer THEN P \ {p} ELSE P
    PROVE  Sighted(h, J, E \ Behind_[h][x], P2, On2, Led2)
<1>1. \A n \in J : n # p => x \notin Behind_[h][n]
    BY Tree_facts DEF Sighted
<1>2. x \in Host \ {h} /\ x \notin Joint[h]
    BY Tree_facts DEF Sighted
<1>3. x \in Behind_[h][x] /\ \A n \in J : n \notin Behind_[h][x]
    BY <1>2, Tree_facts DEF Sighted
<1>4. CASE x = ServicesServer
    BY <1>1, <1>3, <1>4 DEF Sighted
<1>5. CASE x # ServicesServer
    BY <1>1, <1>3, <1>5 DEF Sighted
<1> QED BY <1>4, <1>5

-----------------------------------------------------------------------------
(* The lines between two neighbours.  Passes: what a server may send to     *)
(* another on an established link.                                          *)
Passes(n, h, lines) ==
    /\ lines \in Seq(Wire_lines)
    /\ \A i \in 1 .. Len(lines) :
          /\ lines[i] # Closed
          /\ lines[i].cmd \in {"SERVER", "SQUIT"} => lines[i].name \in Behind_[n][h] \ {h}

LEMMA Wire_sent ==
    ASSUME NEW n, NEW h, NEW w \in Seq(Wire_lines), NEW v, NEW A, NEW B, n \in B, ~Shut(v),
           Wired(n, h, w, v, A, B), Wired(h, n, v, w, B, A),
           NEW lines, Passes(n, h, lines)
    PROVE  /\ w \o lines \in Seq(Wire_lines)
           /\ Wired(n, h, w \o lines, v, A, B) /\ Wired(h, n, v, w \o lines, B, A)
<1> DEFINE z == w \o lines
<1>1. /\ lines \in Seq(Wire_lines) /\ z \in Seq(Wire_lines) /\ Len(w) \in Nat /\ Len(lines) \in Nat
      /\ Len(z) = Len(w) + Len(lines)
      /\ \A i \in 1 .. Len(w) : z[i] = w[i]
      /\ \A i \in 1 .. Len(lines) : z[Len(w) + i] = lines[i]
    BY DEF Passes
<1>2. \A i \in 1 .. Len(z) : i \in 1 .. Len(w) \/ (i - Len(w) \in 1 .. Len(lines)
                                                 /\ z[i] = lines[i - Len(w)])
    <2> SUFFICES ASSUME NEW i \in 1 .. Len(z), i \notin 1 .. Len(w)
                 PROVE  i - Len(w) \in 1 .. Len(lines) /\ z[i] = lines[i - Len(w)]
        OBVIOUS
    <2>1. i - Len(w) \in 1 .. Len(lines) /\ Len(w) + (i - Len(w)) = i
        BY <1>1
    <2> QED BY <1>1, <2>1
<1>3. ~Shut(w)
    BY DEF Wired
<1>4. w = << >> => h \in A
    BY DEF Wired
<1> HIDE DEF z
<1>5. ~Shut(z)
    BY <1>1, <1>2, <1>3 DEF Shut, Passes
<1>6. w # << >> => z[1] = w[1]
    BY <1>1
<1>7. Wired(n, h, z, v, A, B)
    <2>1. z # << >> /\ h \notin A => z[1] = Server_line(h)
        BY <1>4, <1>6 DEF Wired
    <2>2. ASSUME NEW i \in 1 .. Len(z), z[i].cmd = "SERVER"
          PROVE  z[i].name \in Behind_[n][h] /\ (z[i].name = h => i = 1 /\ h \notin A)
        BY <1>1, <1>2, <2>2 DEF Wired, Passes
    <2>3. ASSUME NEW i \in 1 .. Len(z), z[i].cmd = "SQUIT"
          PROVE  z[i].name \in Behind_[n][h] \ {h}
        BY <1>1, <1>2, <2>3 DEF Wired, Passes
    <2>4. n \in B /\ h \notin A => z # << >> \/ Shut(v)
        BY <1>1, <1>4
    <2> QED BY <2>1, <2>2, <2>3, <2>4, <1>5 DEF Wired
<1>8. Wired(h, n, v, z, B, A)
    BY DEF Wired
<1> QED BY <1>1, <1>7, <1>8 DEF z

LEMMA Wire_read ==
    ASSUME NEW h \in Host, NEW p, NEW w \in Seq(Wire_lines), NEW v, NEW A, NEW B,
           Wired(h, p, w, v, A, B), Wired(p, h, v, w, B, A),
           w # << >>, w[1] # Closed
    PROVE  /\ p \in A \/ w[1] = Server_line(p)
           /\ w[1].cmd = "SERVER" /\ w[1].name = p => p \notin A
           /\ Tail(w) \in Seq(Wire_lines)
           /\ Wired(h, p, Tail(w), v, A \cup {p}, B) /\ Wired(p, h, v, Tail(w), B, A \cup {p})
<1> DEFINE z == Tail(w)
<1>1. /\ z \in Seq(Wire_lines) /\ Len(w) \in Nat /\ Len(w) >= 1 /\ Len(z) = Len(w) - 1
      /\ \A i \in 1 .. Len(z) : z[i] = w[i + 1] /\ i + 1 \in 1 .. Len(w) /\ i + 1 # 1
    OBVIOUS
<1>2. Shut(w) <=> Shut(z)
    <2>1. \A i \in 1 .. Len(w) : i = 1 \/ (i - 1 \in 1 .. Len(z) /\ w[i] = z[i - 1])
        <3> SUFFICES ASSUME NEW i \in 1 .. Len(w), i # 1
                     PROVE  i - 1 \in 1 .. Len(z) /\ w[i] = z[i - 1]
            OBVIOUS
        <3>1. i - 1 \in 1 .. Len(z) /\ (i - 1) + 1 = i
            BY <1>1
        <3> QED BY <1>1, <3>1
    <2> HIDE DEF z
    <2> QED BY <1>1, <2>1 DEF Shut
<1> HIDE DEF z
<1>3. ~Shut(v)
    BY DEF Wired
<1>4. Wired(h, p, z, v, A \cup {p}, B)
    BY <1>1, <1>2 DEF Wired
<1>5. Wired(p, h, v, z, B, A \cup {p})
    BY <1>2, <1>3 DEF Wired
<1>6. w[1].cmd = "SERVER" /\ w[1].name = p => p \notin A
    BY <1>1 DEF Wired
<1> QED BY <1>1, <1>4, <1>5, <1>6 DEF z, Wired

LEMMA Wire_lost ==
    ASSUME NEW h, NEW p, NEW w \in Seq(Wire_lines), NEW v \in Seq(Wire_lines), NEW A, NEW B, p \in A,
           Wired(h, p, w, v, A, B), Wired(p, h, v, w, B, A),
           NEW z, z = IF Shut(w) THEN v ELSE Append(v, Closed)
    PROVE  /\ z \in Seq(Wire_lines)
           /\ Wired(h, p, << >>, z, A \ {p}, B) /\ Wired(p, h, z, << >>, B, A \ {p})
<1>1. ~Shut(<< >>)
    BY DEF Shut
<1>2. CASE Shut(w)
    <2>1. z = << >> /\ h \notin B
        BY <1>2 DEF Wired
    <2> QED BY <1>1, <2>1 DEF Wired
<1>3. CASE ~Shut(w)
    <2>1. /\ z = Append(v, Closed) /\ z \in Seq(Wire_lines) /\ Len(v) \in Nat /\ Len(z) = Len(v) + 1
          /\ z[Len(v) + 1] = Closed /\ \A i \in 1 .. Len(v) : z[i] = v[i]
        BY <1>3 DEF Wire_lines
    <2>2. \A i \in 1 .. Len(z) : i \in 1 .. Len(v) \/ z[i] = Closed
        BY <2>1
    <2>3. Shut(z)
        BY <2>1 DEF Shut
    <2>4. h \notin B => z[1] = Server_line(h)
        <3>1. h \notin B => v # << >> /\ v[1] = Server_line(h)
            BY <1>3 DEF Wired
        <3> QED BY <2>1, <3>1
    <2>5. Closed.cmd = "EOF"
        BY DEF Closed
    <2>6. Wired(p, h, z, << >>, B, A \ {p})
        BY <1>1, <2>1, <2>2, <2>3, <2>4, <2>5 DEF Wired
    <2>7. Wired(h, p, << >>, z, A \ {p}, B)
        BY <1>1, <2>3 DEF Wired
    <2> QED BY <2>1, <2>6, <2>7
<1> QED BY <1>2, <1>3

(* A step on the connection of h and p alone.                               *)
LEMMA Pair_changed ==
    ASSUME NEW W, NEW J, NEW V, NEW K, NEW h \in Host, NEW p \in Joint[h], AllWired(W, J),
           \A a, b \in Host : ~(a = h /\ b = p) /\ ~(a = p /\ b = h) => V[a][b] = W[a][b],
           \A a, b \in Host : ~(a = h /\ b = p) => (b \in K[a] <=> b \in J[a]),
           Wired(h, p, V[h][p], V[p][h], K[h], K[p]),
           Wired(p, h, V[p][h], V[h][p], K[p], K[h])
    PROVE  AllWired(V, K)
<1> SUFFICES ASSUME NEW a \in Host, NEW b \in Joint[a]
             PROVE  Wired(a, b, V[a][b], V[b][a], K[a], K[b])
    BY DEF AllWired
<1>1. b \in Host /\ b # a
    BY Tree_facts
<1>2. CASE (a = h /\ b = p) \/ (a = p /\ b = h)
    BY <1>2
<1>3. CASE ~(a = h /\ b = p) /\ ~(a = p /\ b = h)
    <2>1. V[a][b] = W[a][b] /\ V[b][a] = W[b][a] /\ (b \in K[a] <=> b \in J[a]) /\ (a \in K[b] <=> a \in J[b])
        BY <1>1, <1>3
    <2>2. Wired(a, b, W[a][b], W[b][a], J[a], J[b])
        BY DEF AllWired
    <2> QED BY <2>1, <2>2 DEF Wired
<1> QED BY <1>2, <1>3

(* What h sends to some of its links.                                       *)
LEMMA Sends_wired ==
    ASSUME NEW W \in Wires, NEW J \in Links, AllWired(W, J), NEW h \in Host,
           NEW N \in SUBSET (J[h] \cap Joint[h]), NEW lines, \A n \in N : Passes(n, h, lines)
    PROVE  Sends(W, h, N, lines) \in Wires /\ AllWired(Sends(W, h, N, lines), J)
<1> DEFINE V == Sends(W, h, N, lines)
<1>1. \A n, m \in Host : V[n][m] = IF m = h /\ n \in N /\ ~Shut(W[h][n])
                                   THEN W[n][m] \o lines ELSE W[n][m]
    BY DEF Sends
<1>2. ASSUME NEW n \in N
      PROVE  /\ n \in Host /\ n # h /\ h \in Joint[n] /\ W[n][h] \in Seq(Wire_lines)
             /\ Wired(n, h, W[n][h], W[h][n], J[n], J[h])
             /\ Wired(h, n, W[h][n], W[n][h], J[h], J[n])
    <2>1. n \in Host /\ n # h /\ h \in Joint[n]
        BY Tree_facts
    <2> QED BY <2>1 DEF AllWired, Wires
<1>3. ASSUME NEW n \in N, ~Shut(W[h][n])
      PROVE  /\ V[n][h] = W[n][h] \o lines /\ V[h][n] = W[h][n]
             /\ V[n][h] \in Seq(Wire_lines)
             /\ Wired(n, h, V[n][h], V[h][n], J[n], J[h])
             /\ Wired(h, n, V[h][n], V[n][h], J[h], J[n])
    <2>1. V[n][h] = W[n][h] \o lines /\ V[h][n] = W[h][n]
        BY <1>1, <1>2, <1>3
    <2>2. n \in J[h] /\ Passes(n, h, lines)
        OBVIOUS
    <2>3. /\ W[n][h] \o lines \in Seq(Wire_lines)
          /\ Wired(n, h, W[n][h] \o lines, W[h][n], J[n], J[h])
          /\ Wired(h, n, W[h][n], W[n][h] \o lines, J[h], J[n])
        <3> HIDE DEF V
        <3> QED BY <1>2, <1>3, <2>2, Wire_sent
    <2> QED BY <2>1, <2>3
<1>4. V \in Wires
    <2>1. \A n, m \in Host : V[n][m] \in Seq(Wire_lines)
        BY <1>1, <1>3 DEF Wires
    <2> QED BY <2>1 DEF Wires, Sends
<1>5. ASSUME NEW a \in Host, NEW b \in Joint[a]
      PROVE  Wired(a, b, V[a][b], V[b][a], J[a], J[b])
    <2>1. b \in Host /\ b # a
        BY Tree_facts
    <2>2. CASE b = h /\ a \in N /\ ~Shut(W[h][a])
        BY <1>3, <2>2
    <2>3. CASE a = h /\ b \in N /\ ~Shut(W[h][b])
        BY <1>3, <2>3
    <2>4. CASE /\ ~(b = h /\ a \in N /\ ~Shut(W[h][a])) /\ ~(a = h /\ b \in N /\ ~Shut(W[h][b]))
        <3>1. V[a][b] = W[a][b] /\ V[b][a] = W[b][a]
            BY <1>1, <2>1, <2>4
        <3> QED BY <3>1 DEF AllWired
    <2> QED BY <2>2, <2>3, <2>4
<1> HIDE DEF V
<1>6. AllWired(V, J)
    BY <1>5 DEF AllWired
<1> QED BY <1>4, <1>6 DEF V

-----------------------------------------------------------------------------
(* The burst is about what is behind the sender.                            *)
LEMMA Burst_passes ==
    ASSUME OInv, NEW h \in Host, NEW p \in Joint[h], p \notin joined[h]
    PROVE  Passes(p, h, Burst_to(h))
<1> DEFINE E == seen[h]
           s == In_order(E)
           B == [i \in 1 .. Cardinality(E) |-> Server_line(s[i])]
           T == IF topic[h].time # 0 /\ h # ServicesServer THEN <<Topic_line(topic[h], TRUE)>> ELSE << >>
<1>1. E \subseteq Host /\ \A x \in E : x \in Behind_[p][h] /\ x # h
    <2>1. E \subseteq Host /\ \A x \in E : \E n \in joined[h] : x \in Behind_[h][n]
        BY DEF OInv, OTypes, OSighted, Sighted, Links
    <2>2. joined[h] \subseteq Joint[h]
        BY DEF OInv, OSighted, Sighted
    <2> QED BY <2>1, <2>2, Tree_facts
<1>2. Cardinality(E) \in Nat /\ s \in [1 .. Cardinality(E) -> E]
    <2>1. IsFiniteSet(E)
        BY <1>1, Tree_facts, FS_Subset
    <2>2. Cardinality(E) \in Nat /\ ExistsBijection(1 .. Cardinality(E), E)
        BY <2>1, FS_CardinalityType
    <2>3. \E f \in [1 .. Cardinality(E) -> E] : \A x \in E : \E i \in DOMAIN f : f[i] = x
        BY <2>2 DEF ExistsBijection, Bijection, Surjection
    <2> QED BY <2>2, <2>3 DEF In_order
<1> HIDE DEF s, E
<1>3. /\ B \in Seq(Wire_lines) /\ Len(B) = Cardinality(E)
      /\ \A i \in 1 .. Cardinality(E) : B[i] = Server_line(s[i]) /\ s[i] \in E
    <2>1. \A i \in 1 .. Cardinality(E) : Server_line(s[i]) \in Wire_lines
        BY <1>1, <1>2 DEF Server_line, Wire_lines
    <2> QED BY <1>2, <2>1
<1>4. T \in Seq(Wire_lines) /\ \A i \in 1 .. Len(T) : T[i].cmd = "TOPIC"
    <2>1. topic[h] \in Topics
        BY DEF OInv, OTypes
    <2>2. Topic_line(topic[h], TRUE) \in Wire_lines /\ Topic_line(topic[h], TRUE).cmd = "TOPIC"
        BY <2>1 DEF Topics, Topic_line, Wire_lines
    <2>3. \A t \in Wire_lines : <<t>> \in Seq(Wire_lines) /\ Len(<<t>>) = 1 /\ <<t>>[1] = t
        OBVIOUS
    <2>4. T = << >> \/ T = <<Topic_line(topic[h], TRUE)>>
        OBVIOUS
    <2> HIDE DEF T
    <2>5. CASE T = << >>
        BY <2>5
    <2>6. CASE T = <<Topic_line(topic[h], TRUE)>>
        <3>1. PICK t \in Wire_lines : T = <<t>> /\ t.cmd = "TOPIC"
            BY <2>2, <2>6
        <3>2. T \in Seq(Wire_lines) /\ Len(T) = 1 /\ T[1] = t
            BY <2>3, <3>1
        <3>3. \A i \in 1 .. 1 : i = 1
            OBVIOUS
        <3> QED BY <3>1, <3>2, <3>3
    <2> QED BY <2>4, <2>5, <2>6
<1> HIDE DEF B, T
<1>5. Burst_to(h) = B \o T
    BY DEF Burst_to, B, T, s, E
<1>6. \A i \in 1 .. Len(B \o T) :
         \/ i \in 1 .. Len(B) /\ (B \o T)[i] = B[i]
         \/ i - Len(B) \in 1 .. Len(T) /\ (B \o T)[i] = T[i - Len(B)]
    BY <1>3, <1>4
<1>7. \A i \in 1 .. Len(B) : B[i] # Closed /\ B[i].name \in Behind_[p][h] \ {h}
    BY <1>1, <1>2, <1>3 DEF Server_line, Closed
<1>8. \A i \in 1 .. Len(T) : T[i] # Closed /\ T[i].cmd \notin {"SERVER", "SQUIT"}
    BY <1>4 DEF Closed
<1>9. B \o T \in Seq(Wire_lines)
    BY <1>3, <1>4
<1>10. ASSUME NEW i \in 1 .. Len(B \o T)
       PROVE  /\ (B \o T)[i] # Closed
              /\ (B \o T)[i].cmd \in {"SERVER", "SQUIT"} => (B \o T)[i].name \in Behind_[p][h] \ {h}
    BY <1>6, <1>7, <1>8
<1> QED BY <1>5, <1>9, <1>10 DEF Passes

(* One line about a server behind another link, or about a topic.           *)
LEMMA One_passes ==
    ASSUME NEW n, NEW h, NEW m \in Wire_lines, m # Closed,
           m.cmd \in {"SERVER", "SQUIT"} => m.name \in Behind_[n][h] \ {h}
    PROVE  Passes(n, h, <<m>>)
<1>1. <<m>> \in Seq(Wire_lines) /\ Len(<<m>>) = 1 /\ \A i \in 1 .. 1 : <<m>>[i] = m
    OBVIOUS
<1> QED BY <1>1 DEF Passes

(* The first lines of a connection.                                         *)
LEMMA Dialled ==
    ASSUME NEW W \in Wires, NEW J \in Links, AllWired(W, J), NEW h \in Host, NEW p \in Joint[h],
           p \notin J[h], h \notin J[p], W[h][p] = << >>, W[p][h] = << >>,
           NEW lines, Passes(p, h, lines)
    PROVE  LET V == Sends(W, h, {p}, <<Server_line(h)>> \o lines)
           IN  V \in Wires /\ AllWired(V, [J EXCEPT ![h] = @ \cup {p}])
<1> DEFINE first == <<Server_line(h)>>
           z == first \o lines
           V == Sends(W, h, {p}, z)
           K == [J EXCEPT ![h] = @ \cup {p}]
<1>1. p \in Host /\ p # h /\ h \in Joint[p] /\ h \in Behind_[p][h]
    BY Tree_facts
<1>2. /\ z \in Seq(Wire_lines) /\ Len(z) = Len(lines) + 1 /\ Len(lines) \in Nat
      /\ z[1] = Server_line(h) /\ \A i \in 1 .. Len(lines) : z[i + 1] = lines[i]
    <2>1. Server_line(h) \in Wire_lines
        BY DEF Server_line, Wire_lines
    <2>2. lines \in Seq(Wire_lines)
        BY DEF Passes
    <2> QED BY <2>1, <2>2
<1>3. ASSUME NEW i \in 1 .. Len(z), i # 1 PROVE i - 1 \in 1 .. Len(lines) /\ z[i] = lines[i - 1]
    <2>1. i - 1 \in 1 .. Len(lines) /\ (i - 1) + 1 = i
        BY <1>2, <1>3
    <2> QED BY <1>2, <2>1
<1> HIDE DEF z
<1>4. ~Shut(<< >>) /\ ~Shut(z)
    <2>1. ~Shut(<< >>)
        BY DEF Shut
    <2>2. Server_line(h) # Closed
        BY DEF Server_line, Closed
    <2>3. \A i \in 1 .. Len(z) : z[i] # Closed
        BY <1>2, <1>3, <2>2 DEF Passes
    <2> QED BY <2>1, <2>3 DEF Shut
<1>5. /\ \A n, m \in Host : V[n][m] = IF m = h /\ n = p THEN z ELSE W[n][m]
      /\ V \in Wires
    <2>1. \A n, m \in Host : V[n][m] = IF m = h /\ n = p THEN z ELSE W[n][m]
        <3>1. << >> \o z = z
            BY <1>2
        <3>2. \A n, m \in Host : V[n][m] = IF m = h /\ n \in {p} /\ ~Shut(W[h][n])
                                           THEN W[n][m] \o z ELSE W[n][m]
            BY DEF Sends
        <3> HIDE DEF V
        <3> QED BY <1>4, <3>1, <3>2
    <2>2. \A n, m \in Host : V[n][m] \in Seq(Wire_lines)
        BY <1>2, <2>1 DEF Wires
    <2> QED BY <2>1, <2>2 DEF Wires, Sends
<1>6. V[h][p] = << >> /\ V[p][h] = z
    BY <1>1, <1>5
<1>7. p \in K[h] /\ h \notin K[p] /\ \A a, b \in Host : ~(a = h /\ b = p) => (b \in K[a] <=> b \in J[a])
    BY <1>1 DEF Links
<1> HIDE DEF K
<1>8. Wired(h, p, << >>, z, K[h], K[p])
    BY <1>2, <1>4, <1>7 DEF Wired
<1>9. Wired(p, h, z, << >>, K[p], K[h])
    <2>1. ASSUME NEW i \in 1 .. Len(z), z[i].cmd = "SERVER"
          PROVE  z[i].name \in Behind_[p][h] /\ (z[i].name = h => i = 1 /\ h \notin K[p])
        BY <1>1, <1>2, <1>3, <1>7, <2>1 DEF Passes, Server_line
    <2>2. ASSUME NEW i \in 1 .. Len(z), z[i].cmd = "SQUIT"
          PROVE  z[i].name \in Behind_[p][h] \ {h}
        BY <1>2, <1>3, <2>2 DEF Passes, Server_line
    <2> QED BY <1>2, <1>4, <1>7, <2>1, <2>2 DEF Wired
<1> HIDE DEF V
<1>10. AllWired(V, K)
    <2>1. \A a, b \in Host : ~(a = h /\ b = p) /\ ~(a = p /\ b = h) => V[a][b] = W[a][b]
        BY <1>5
    <2>2. /\ Wired(h, p, V[h][p], V[p][h], K[h], K[p])
          /\ Wired(p, h, V[p][h], V[h][p], K[p], K[h])
        BY <1>6, <1>8, <1>9
    <2> QED BY <1>7, <2>1, <2>2, Pair_changed
<1> QED BY <1>5, <1>10 DEF V, K, z

(* A step of h leaves what the others make of things alone.                 *)
LEMMA Sight_step ==
    ASSUME OSighted, NEW h \in Host,
           Sighted(h, joined'[h], seen'[h], spath'[h], services_on', misled'),
           \A g \in Host \ {h} : /\ joined'[g] = joined[g] /\ seen'[g] = seen[g] /\ spath'[g] = spath[g]
                                 /\ (g \in services_on' <=> g \in services_on)
                                 /\ (g \in misled' <=> g \in misled)
    PROVE  OSighted'
BY DEF OSighted, Sighted

-----------------------------------------------------------------------------
(* A line that has been read, and a link that is up from then on.           *)
LEMMA Read_wired ==
    ASSUME OInv, NEW h \in Host, NEW p \in Joint[h], wire[h][p] # << >>, Head(wire[h][p]) # Closed
    PROVE  /\ Head(wire[h][p]) \in Wire_lines
           /\ p \in joined[h] \/ Head(wire[h][p]) = Server_line(p)
           /\ Head(wire[h][p]).cmd = "SERVER" /\ Head(wire[h][p]).name = p => p \notin joined[h]
           /\ Head(wire[h][p]).cmd \in {"SERVER", "SQUIT"} => Head(wire[h][p]).name \in Behind_[h][p]
           /\ Head(wire[h][p]).cmd = "SQUIT" => Head(wire[h][p]).name # p
           /\ Rest_of(h, p) \in Wires
           /\ p \in joined[h] => AllWired(Rest_of(h, p), joined)
           /\ LET K == [joined EXCEPT ![h] = @ \cup {p}]
              IN  K \in Links /\ AllWired(Rest_of(h, p), K)
<1> DEFINE w == wire[h][p]
           v == wire[p][h]
           V == Rest_of(h, p)
           K == [joined EXCEPT ![h] = @ \cup {p}]
<1>1. p \in Host /\ p # h /\ h \in Joint[p]
    BY Tree_facts
<1>2. /\ w \in Seq(Wire_lines) /\ wire \in Wires /\ joined \in Links
      /\ w # << >> /\ w[1] = Head(w) /\ w[1] # Closed /\ w[1] \in Wire_lines /\ 1 \in 1 .. Len(w)
    BY <1>1 DEF OInv, OTypes, Wires
<1>3. /\ Wired(h, p, w, v, joined[h], joined[p])
      /\ Wired(p, h, v, w, joined[p], joined[h])
    BY <1>1 DEF OInv, AllWired
<1>4. /\ p \in joined[h] \/ w[1] = Server_line(p)
      /\ w[1].cmd = "SERVER" /\ w[1].name = p => p \notin joined[h]
      /\ Tail(w) \in Seq(Wire_lines)
      /\ Wired(h, p, Tail(w), v, joined[h] \cup {p}, joined[p]) /\ Wired(p, h, v, Tail(w), joined[p], joined[h] \cup {p})
    <2>1. w \in Seq(Wire_lines) /\ w # << >> /\ w[1] # Closed
        BY <1>2
    <2> HIDE DEF w, v, V
    <2> QED BY <1>3, <2>1, Wire_read
<1>5. /\ V[h][p] = Tail(w) /\ V[p][h] = v
      /\ \A a, b \in Host : ~(a = h /\ b = p) => V[a][b] = wire[a][b]
      /\ V \in Wires
    BY <1>1, <1>2, <1>4 DEF Rest_of, Wires
<1>6. /\ \A a, b \in Host : ~(a = h /\ b = p) => (b \in K[a] <=> b \in joined[a])
      /\ K \in Links /\ K[h] = joined[h] \cup {p} /\ K[p] = joined[p]
    BY <1>1, <1>2 DEF Links
<1>7. p \in joined[h] => K = joined
    BY <1>2 DEF Links
<1>8. AllWired(V, K)
    <2>1. /\ Wired(h, p, V[h][p], V[p][h], K[h], K[p])
          /\ Wired(p, h, V[p][h], V[h][p], K[p], K[h])
        BY <1>4, <1>5, <1>6
    <2> HIDE DEF V, K, w, v
    <2>2. AllWired(wire, joined)
        BY DEF OInv
    <2>3. \A a, b \in Host : ~(a = h /\ b = p) /\ ~(a = p /\ b = h) => V[a][b] = wire[a][b]
        BY <1>5
    <2>4. \A a, b \in Host : ~(a = h /\ b = p) => (b \in K[a] <=> b \in joined[a])
        BY <1>6
    <2> QED BY <2>1, <2>2, <2>3, <2>4, Pair_changed, SMTT(60)
<1>9. w[1].cmd \in {"SERVER", "SQUIT"} => w[1].name \in Behind_[h][p]
    BY <1>2, <1>3 DEF Wired
<1>10. w[1].cmd = "SQUIT" => w[1].name # p
    BY <1>2, <1>3 DEF Wired
<1> QED BY <1>2, <1>4, <1>5, <1>6, <1>7, <1>8, <1>9, <1>10

(* h closes its end of the link to p, or hears that p has.                  *)
LEMMA Lost_wired ==
    ASSUME OInv, NEW h \in Host, NEW p \in Joint[h], p \in joined[h]
    PROVE  LET z == IF Shut(wire[h][p]) THEN wire[p][h] ELSE Append(wire[p][h], Closed)
               V == [wire EXCEPT ![h][p] = << >>, ![p][h] = z]
               K == [joined EXCEPT ![h] = @ \ {p}]
           IN  V \in Wires /\ K \in Links /\ AllWired(V, K)
<1> DEFINE w == wire[h][p]
           v == wire[p][h]
           z == IF Shut(wire[h][p]) THEN wire[p][h] ELSE Append(wire[p][h], Closed)
           V == [wire EXCEPT ![h][p] = << >>, ![p][h] = z]
           K == [joined EXCEPT ![h] = @ \ {p}]
<1>1. p \in Host /\ p # h /\ h \in Joint[p]
    BY Tree_facts
<1>2. w \in Seq(Wire_lines) /\ v \in Seq(Wire_lines) /\ wire \in Wires /\ joined \in Links
    BY <1>1 DEF OInv, OTypes, Wires
<1>3. /\ Wired(h, p, w, v, joined[h], joined[p])
      /\ Wired(p, h, v, w, joined[p], joined[h])
    BY <1>1 DEF OInv, AllWired
<1>4. /\ z \in Seq(Wire_lines)
      /\ Wired(h, p, << >>, z, joined[h] \ {p}, joined[p]) /\ Wired(p, h, z, << >>, joined[p], joined[h] \ {p})
    <2>1. p \in joined[h] /\ z = IF Shut(w) THEN v ELSE Append(v, Closed)
        OBVIOUS
    <2> HIDE DEF w, v
    <2> QED BY <1>2, <1>3, <2>1, Wire_lost
<1>5. /\ V[h][p] = << >> /\ V[p][h] = z
      /\ \A a, b \in Host : ~(a = h /\ b = p) /\ ~(a = p /\ b = h) => V[a][b] = wire[a][b]
      /\ V \in Wires
    <2>1. wire \in [Host -> [Host -> Seq(Wire_lines)]]
        BY <1>2 DEF Wires
    <2>2. /\ V[h][p] = << >> /\ V[p][h] = z
          /\ \A a, b \in Host : ~(a = h /\ b = p) /\ ~(a = p /\ b = h) => V[a][b] = wire[a][b]
        BY <1>1, <2>1
    <2>3. V = [a \in Host |-> V[a]] /\ \A a \in Host : V[a] = [b \in Host |-> V[a][b]]
        BY <1>1, <2>1
    <2>4. << >> \in Seq(Wire_lines)
        OBVIOUS
    <2>5. \A a, b \in Host : V[a][b] \in Seq(Wire_lines)
        <3> SUFFICES ASSUME NEW a \in Host, NEW b \in Host PROVE V[a][b] \in Seq(Wire_lines)
            OBVIOUS
        <3>1. wire[a][b] \in Seq(Wire_lines)
            BY <2>1
        <3> QED BY <1>4, <2>2, <2>4, <3>1
    <2> QED BY <2>2, <2>3, <2>5 DEF Wires
<1>6. /\ \A a, b \in Host : ~(a = h /\ b = p) => (b \in K[a] <=> b \in joined[a])
      /\ K \in Links /\ K[h] = joined[h] \ {p} /\ K[p] = joined[p]
    BY <1>1, <1>2 DEF Links
<1>7. /\ Wired(h, p, V[h][p], V[p][h], K[h], K[p])
      /\ Wired(p, h, V[p][h], V[h][p], K[p], K[h])
    BY <1>4, <1>5, <1>6
<1>8. AllWired(wire, joined)
    BY DEF OInv
<1>9. \A a, b \in Host : ~(a = h /\ b = p) /\ ~(a = p /\ b = h) => V[a][b] = wire[a][b]
    BY <1>5
<1>10. \A a, b \in Host : ~(a = h /\ b = p) => (b \in K[a] <=> b \in joined[a])
    BY <1>6
<1> HIDE DEF w, v, z, V, K
<1>11. AllWired(V, K)
    BY <1>7, <1>8, <1>9, <1>10, Pair_changed, SMTT(60)
<1> QED BY <1>5, <1>6, <1>11 DEF V, K, z

-----------------------------------------------------------------------------
(* What the steps of a server do to what it makes of the others.            *)
LEMMA Joins_sight ==
    ASSUME OInv, NEW h \in Host, NEW p \in Joint[h], p \notin joined[h],
           joined' = [joined EXCEPT ![h] = @ \cup {p}], seen' = [seen EXCEPT ![h] = @ \cup {p}],
           Services_came(h, p, p)
    PROVE  /\ OSighted' /\ joined' \in Links /\ seen' \in Links /\ spath' \in Links
           /\ services_on' \subseteq Host /\ misled' \subseteq Host
<1>1. p \in Host /\ OSighted /\ Sighted(h, joined[h], seen[h], spath[h], services_on, misled)
    BY Tree_facts DEF OInv, OSighted
<1>2. /\ joined \in [Host -> SUBSET Host] /\ seen \in [Host -> SUBSET Host]
      /\ spath \in [Host -> SUBSET Host] /\ services_on \subseteq Host /\ misled \subseteq Host
    BY DEF OInv, OTypes, Links
<1>3. /\ joined'[h] = joined[h] \cup {p} /\ seen'[h] = seen[h] \cup {p}
      /\ spath'[h] = IF p = ServicesServer THEN spath[h] \cup {p} ELSE spath[h]
      /\ h \in services_on' <=> p = ServicesServer \/ h \in services_on
      /\ h \in misled' <=> p # ServicesServer /\ h \in misled
    BY <1>2 DEF Services_came
<1>4. \A g \in Host \ {h} : /\ joined'[g] = joined[g] /\ seen'[g] = seen[g] /\ spath'[g] = spath[g]
                            /\ (g \in services_on' <=> g \in services_on)
                            /\ (g \in misled' <=> g \in misled)
    BY <1>2 DEF Services_came
<1>5. Sighted(h, joined'[h], seen'[h], spath'[h], services_on', misled')
    BY <1>1, <1>3, Sight_link
<1>6. OSighted'
    BY <1>1, <1>4, <1>5, Sight_step
<1>7. /\ joined' \in Links /\ seen' \in Links /\ spath' \in Links
      /\ services_on' \subseteq Host /\ misled' \subseteq Host
    BY <1>1, <1>2 DEF Services_came, Links
<1> QED BY <1>6, <1>7

LEMMA Server_sight ==
    ASSUME OInv, NEW h \in Host, NEW p \in Joint[h], p \in joined[h], NEW x \in Behind_[h][p],
           joined' = joined, seen' = [seen EXCEPT ![h] = @ \cup {x}], Services_came(h, p, x)
    PROVE  /\ OSighted' /\ joined' \in Links /\ seen' \in Links /\ spath' \in Links
           /\ services_on' \subseteq Host /\ misled' \subseteq Host
<1>1. p \in Host /\ x \in Host /\ OSighted
      /\ Sighted(h, joined[h], seen[h], spath[h], services_on, misled)
    BY Tree_facts DEF OInv, OSighted
<1>2. /\ joined \in [Host -> SUBSET Host] /\ seen \in [Host -> SUBSET Host]
      /\ spath \in [Host -> SUBSET Host] /\ services_on \subseteq Host /\ misled \subseteq Host
    BY DEF OInv, OTypes, Links
<1>3. /\ joined'[h] = joined[h] /\ seen'[h] = seen[h] \cup {x}
      /\ spath'[h] = IF x = ServicesServer THEN spath[h] \cup {p} ELSE spath[h]
      /\ h \in services_on' <=> x = ServicesServer \/ h \in services_on
      /\ h \in misled' <=> x # ServicesServer /\ h \in misled
    BY <1>2 DEF Services_came
<1>4. \A g \in Host \ {h} : /\ joined'[g] = joined[g] /\ seen'[g] = seen[g] /\ spath'[g] = spath[g]
                            /\ (g \in services_on' <=> g \in services_on)
                            /\ (g \in misled' <=> g \in misled)
    BY <1>2 DEF Services_came
<1>5. Sighted(h, joined'[h], seen'[h], spath'[h], services_on', misled')
    <2>1. h \in services_on' <=> x = ServicesServer \/ h \in services_on
        BY <1>3
    <2>2. h \in misled' <=> x # ServicesServer /\ h \in misled
        BY <1>3
    <2>3. spath'[h] = IF x = ServicesServer THEN spath[h] \cup {p} ELSE spath[h]
        BY <1>3
    <2>4. Sighted(h, joined[h], seen[h] \cup {x}, spath'[h], services_on', misled')
        BY <1>1, <2>1, <2>2, <2>3, Sight_server
    <2> QED BY <1>3, <2>4
<1>6. OSighted'
    BY <1>1, <1>4, <1>5, Sight_step
<1>7. /\ joined' \in Links /\ seen' \in Links /\ spath' \in Links
      /\ services_on' \subseteq Host /\ misled' \subseteq Host
    BY <1>1, <1>2 DEF Services_came, Links
<1> QED BY <1>6, <1>7

LEMMA Lose_sight ==
    ASSUME OInv, NEW h \in Host, NEW p \in Joint[h], p \in joined[h], NEW w, Lose_link(h, p, w)
    PROVE  /\ OSighted' /\ joined' \in Links /\ seen' \in Links /\ spath' \in Links
           /\ services_on' \subseteq Host /\ misled' \subseteq Host
<1>1. p \in Host /\ OSighted /\ Sighted(h, joined[h], seen[h], spath[h], services_on, misled)
    BY Tree_facts DEF OInv, OSighted
<1>2. /\ joined \in [Host -> SUBSET Host] /\ seen \in [Host -> SUBSET Host]
      /\ spath \in [Host -> SUBSET Host] /\ services_on \subseteq Host /\ misled \subseteq Host
    BY DEF OInv, OTypes, Links
<1>3. /\ joined'[h] = joined[h] \ {p} /\ seen'[h] = seen[h] \ Behind_[h][p] /\ spath'[h] = spath[h] \ {p}
      /\ h \in services_on' <=> p # ServicesServer /\ h \in services_on
      /\ h \in misled' <=> h \in misled \/ (p # ServicesServer /\ ServicesServer \in seen[h] \cap Behind_[h][p])
    BY <1>2 DEF Lose_link, Gone_server, Forgotten
<1>4. \A g \in Host \ {h} : /\ joined'[g] = joined[g] /\ seen'[g] = seen[g] /\ spath'[g] = spath[g]
                            /\ (g \in services_on' <=> g \in services_on)
                            /\ (g \in misled' <=> g \in misled)
    BY <1>2 DEF Lose_link, Gone_server, Forgotten
<1>5. Sighted(h, joined'[h], seen'[h], spath'[h], services_on', misled')
    BY <1>1, <1>3, Sight_less
<1>6. OSighted'
    BY <1>1, <1>4, <1>5, Sight_step
<1>7. /\ joined' \in Links /\ seen' \in Links /\ spath' \in Links
      /\ services_on' \subseteq Host /\ misled' \subseteq Host
    BY <1>1, <1>2 DEF Lose_link, Gone_server, Forgotten, Links
<1> QED BY <1>6, <1>7

LEMMA Squit_sight ==
    ASSUME OInv, NEW h \in Host, NEW p \in Joint[h], p \in joined[h],
           NEW x \in seen[h], x \in Behind_[h][p], x # p, NEW w, Gone_server(h, p, x, w), joined' = joined,
           spath' = IF Forgotten(x) THEN [spath EXCEPT ![h] = @ \ {p}] ELSE spath
    PROVE  /\ OSighted' /\ joined' \in Links /\ seen' \in Links /\ spath' \in Links
           /\ services_on' \subseteq Host /\ misled' \subseteq Host
<1>1. p \in Host /\ OSighted /\ Sighted(h, joined[h], seen[h], spath[h], services_on, misled)
    BY Tree_facts DEF OInv, OSighted
<1>2. /\ joined \in [Host -> SUBSET Host] /\ seen \in [Host -> SUBSET Host]
      /\ spath \in [Host -> SUBSET Host] /\ services_on \subseteq Host /\ misled \subseteq Host
    BY DEF OInv, OTypes, Links
<1>3. /\ joined'[h] = joined[h] /\ seen'[h] = seen[h] \ Behind_[h][x]
      /\ spath'[h] = IF x = ServicesServer THEN spath[h] \ {p} ELSE spath[h]
      /\ h \in services_on' <=> x # ServicesServer /\ h \in services_on
      /\ h \in misled' <=> h \in misled \/ (x # ServicesServer /\ ServicesServer \in seen[h] \cap Behind_[h][x])
    BY <1>2 DEF Gone_server, Forgotten
<1>4. \A g \in Host \ {h} : /\ joined'[g] = joined[g] /\ seen'[g] = seen[g] /\ spath'[g] = spath[g]
                            /\ (g \in services_on' <=> g \in services_on)
                            /\ (g \in misled' <=> g \in misled)
    BY <1>2 DEF Gone_server, Forgotten
<1>5. Sighted(h, joined'[h], seen'[h], spath'[h], services_on', misled')
    BY <1>1, <1>3, Sight_squit
<1>6. OSighted'
    BY <1>1, <1>4, <1>5, Sight_step
<1>7. /\ joined' \in Links /\ seen' \in Links /\ spath' \in Links
      /\ services_on' \subseteq Host /\ misled' \subseteq Host
    BY <1>1, <1>2 DEF Gone_server, Forgotten, Links
<1> QED BY <1>6, <1>7

-----------------------------------------------------------------------------
(* The steps.                                                               *)
LEMMA Take_link_keeps ==
    ASSUME OInv, NEW h \in Host, NEW p \in Joint[h], Take_link(h, p)
    PROVE  OInv'
<1> DEFINE W == Sends(wire, h, joined[h], <<Server_line(p)>>)
           K == [joined EXCEPT ![h] = @ \cup {p}]
           V == Sends(W, h, {p}, <<Server_line(h)>> \o Burst_to(h))
<1>1. /\ p \in Host /\ p # h /\ p \notin joined[h] /\ h \notin joined[p]
      /\ wire[h][p] = << >> /\ wire[p][h] = << >>
      /\ joined' = K /\ seen' = [seen EXCEPT ![h] = @ \cup {p}] /\ Services_came(h, p, p)
      /\ wire' = V /\ topic' = topic
    BY Tree_facts DEF Take_link, Joins
<1>2. wire \in Wires /\ joined \in Links /\ joined[h] \subseteq Joint[h] /\ AllWired(wire, joined)
    BY DEF OInv, OTypes, OSighted, Sighted
<1>3. W \in Wires /\ AllWired(W, joined)
    <2>1. ASSUME NEW n \in joined[h] PROVE Passes(n, h, <<Server_line(p)>>)
        <3>1. p \in Behind_[n][h] \ {h}
            BY <1>1, <1>2, Tree_facts
        <3>2. Server_line(p) \in Wire_lines /\ Server_line(p) # Closed /\ Server_line(p).name = p
            BY <1>1 DEF Server_line, Wire_lines, Closed
        <3> QED BY <3>1, <3>2, One_passes
    <2> QED BY <1>2, <2>1, Sends_wired
<1>4. W[h][p] = << >> /\ W[p][h] = << >>
    BY <1>1 DEF Sends
<1> HIDE DEF W
<1>5. Passes(p, h, Burst_to(h))
    BY <1>1, Burst_passes
<1>6. V \in Wires /\ AllWired(V, K)
    BY <1>1, <1>2, <1>3, <1>4, <1>5, Dialled
<1>7. /\ OSighted' /\ joined' \in Links /\ seen' \in Links /\ spath' \in Links
      /\ services_on' \subseteq Host /\ misled' \subseteq Host
    BY <1>1, Joins_sight
<1>8. topic' \in [Host -> Topics]
    BY <1>1 DEF OInv, OTypes
<1>9. AllWired(wire', joined') /\ wire' \in Wires
    BY <1>1, <1>6
<1> QED BY <1>7, <1>8, <1>9 DEF OInv, OTypes

LEMMA Hear_link_keeps ==
    ASSUME OInv, NEW h \in Host, NEW p \in Joint[h], Hear_link(h, p)
    PROVE  OInv'
<1> DEFINE R == Rest_of(h, p)
           W == Sends(R, h, joined[h], <<Server_line(p)>>)
           K == [joined EXCEPT ![h] = @ \cup {p}]
           V == Sends(W, h, {p}, << >> \o Burst_to(h))
<1>1. /\ wire[h][p] # << >> /\ Head(wire[h][p]).cmd = "SERVER" /\ Head(wire[h][p]).name = p
      /\ Head(wire[h][p]) # Closed
      /\ joined' = K /\ seen' = [seen EXCEPT ![h] = @ \cup {p}] /\ Services_came(h, p, p)
      /\ wire' = V /\ topic' = topic
    BY DEF Hear_link, Joins, Next_line, Closed
<1>2. joined \in Links /\ joined[h] \subseteq Joint[h] /\ p \in Host /\ p # h
    BY Tree_facts DEF OInv, OTypes, OSighted, Sighted
<1>3. p \notin joined[h] /\ R \in Wires /\ K \in Links /\ AllWired(R, K)
    BY <1>1, Read_wired
<1>4. K[h] = joined[h] \cup {p}
    BY <1>2 DEF Links
<1> HIDE DEF K, R
<1>5. W \in Wires /\ AllWired(W, K)
    <2>1. ASSUME NEW n \in joined[h] PROVE Passes(n, h, <<Server_line(p)>>)
        <3>1. p \in Behind_[n][h] \ {h}
            BY <1>2, <1>3, Tree_facts
        <3>2. Server_line(p) \in Wire_lines /\ Server_line(p) # Closed /\ Server_line(p).name = p
            BY <1>2 DEF Server_line, Wire_lines, Closed
        <3> QED BY <3>1, <3>2, One_passes
    <2>2. joined[h] \in SUBSET (K[h] \cap Joint[h])
        BY <1>2, <1>4
    <2> QED BY <1>3, <2>1, <2>2, Sends_wired
<1> HIDE DEF W
<1>6. V \in Wires /\ AllWired(V, K)
    <2>1. Passes(p, h, Burst_to(h))
        BY <1>3, Burst_passes
    <2>2. << >> \o Burst_to(h) = Burst_to(h)
        BY <2>1 DEF Passes
    <2>3. {p} \in SUBSET (K[h] \cap Joint[h])
        BY <1>4
    <2>4. \A n \in {p} : Passes(n, h, << >> \o Burst_to(h))
        BY <2>1, <2>2
    <2> QED BY <1>3, <1>5, <2>3, <2>4, Sends_wired
<1>7. /\ OSighted' /\ joined' \in Links /\ seen' \in Links /\ spath' \in Links
      /\ services_on' \subseteq Host /\ misled' \subseteq Host
    <2>1. joined' = [joined EXCEPT ![h] = @ \cup {p}]
        BY <1>1 DEF K
    <2> QED BY <1>1, <1>3, <2>1, Joins_sight
<1>8. topic' \in [Host -> Topics]
    BY <1>1 DEF OInv, OTypes
<1>9. AllWired(wire', joined') /\ wire' \in Wires
    BY <1>1, <1>6
<1> QED BY <1>7, <1>8, <1>9 DEF OInv, OTypes

(* A line from p, which is linked, and what h passes on of it.              *)
LEMMA Passed_on ==
    ASSUME OInv, NEW h \in Host, NEW p \in Joint[h], p \in joined[h],
           NEW W \in Wires, NEW J \in Links, J[h] \ {p} = joined[h] \ {p}, AllWired(W, J),
           NEW m \in Wire_lines, m # Closed,
           m.cmd \in {"SERVER", "SQUIT"} => m.name \in Behind_[h][p]
    PROVE  LET V == Sends(W, h, joined[h] \ {p}, <<m>>)
           IN  V \in Wires /\ AllWired(V, J)
<1>1. joined[h] \subseteq Joint[h]
    BY DEF OInv, OSighted, Sighted
<1>2. ASSUME NEW n \in joined[h] \ {p} PROVE Passes(n, h, <<m>>)
    <2>1. m.cmd \in {"SERVER", "SQUIT"} => m.name \in Behind_[n][h] \ {h}
        BY <1>1, Tree_facts
    <2> QED BY <2>1, One_passes
<1>3. joined[h] \ {p} \in SUBSET (J[h] \cap Joint[h])
    BY <1>1
<1> QED BY <1>2, <1>3, Sends_wired

LEMMA Hear_server_keeps ==
    ASSUME OInv, NEW h \in Host, NEW p \in Joint[h], Hear_server(h, p)
    PROVE  OInv'
<1> DEFINE R == Rest_of(h, p)
           x == Head(wire[h][p]).name
           V == Sends(R, h, joined[h] \ {p}, <<Server_line(x)>>)
<1>1. /\ wire[h][p] # << >> /\ Head(wire[h][p]).cmd = "SERVER" /\ x # p
      /\ Head(wire[h][p]) # Closed /\ Head(wire[h][p]) # Server_line(p)
      /\ joined' = joined /\ seen' = [seen EXCEPT ![h] = @ \cup {x}] /\ Services_came(h, p, x)
      /\ wire' = V /\ topic' = topic
    BY DEF Hear_server, Next_line, Closed, Server_line
<1>2. p \in joined[h] /\ x \in Behind_[h][p] /\ R \in Wires /\ AllWired(R, joined)
    BY <1>1, Read_wired
<1>3. joined \in Links /\ x \in Host
    BY <1>2, Tree_facts DEF OInv, OTypes
<1> HIDE DEF R, x
<1>4. V \in Wires /\ AllWired(V, joined)
    <2>1. Server_line(x) \in Wire_lines /\ Server_line(x) # Closed /\ Server_line(x).name = x
        BY <1>3 DEF Server_line, Wire_lines, Closed
    <2> QED BY <1>2, <1>3, <2>1, Passed_on
<1>5. /\ OSighted' /\ joined' \in Links /\ seen' \in Links /\ spath' \in Links
      /\ services_on' \subseteq Host /\ misled' \subseteq Host
    BY <1>1, <1>2, Server_sight
<1>6. topic' \in [Host -> Topics]
    BY <1>1 DEF OInv, OTypes
<1>7. AllWired(wire', joined') /\ wire' \in Wires
    BY <1>1, <1>4
<1> QED BY <1>5, <1>6, <1>7 DEF OInv, OTypes

LEMMA Lose_keeps ==
    ASSUME OInv, NEW h \in Host, NEW p \in Joint[h], Lose(h, p)
    PROVE  OInv'
<1> DEFINE z == IF Shut(wire[h][p]) THEN wire[p][h] ELSE Append(wire[p][h], Closed)
           R == [wire EXCEPT ![h][p] = << >>, ![p][h] = z]
           K == [joined EXCEPT ![h] = @ \ {p}]
           V == Sends(R, h, joined[h] \ {p}, <<Squit_line(p)>>)
<1>1. p \in joined[h] /\ joined' = K /\ topic' = topic
    BY DEF Lose, Lose_link
<1>2. /\ joined \in Links /\ wire \in Wires /\ p \in Host /\ p # h /\ h \notin Behind_[h][p]
      /\ p \in Behind_[h][p]
    BY Tree_facts DEF OInv, OTypes
<1>3. /\ Lose_link(h, p, R) /\ wire' = Sends(R, h, joined[h] \ {p}, <<Squit_line(p)>>)
    <2>1. [wire EXCEPT ![h][p] = << >>, ![p][h] = IF Shut(wire[h][p]) THEN @ ELSE Append(@, Closed)] = R
        BY <1>2 DEF Wires
    <2> QED BY <2>1 DEF Lose, Lose_link, Gone_server
<1>4. R \in Wires /\ K \in Links /\ AllWired(R, K)
    BY <1>1, Lost_wired
<1>5. K[h] = joined[h] \ {p}
    BY <1>2 DEF Links
<1> HIDE DEF R, K
<1>6. V \in Wires /\ AllWired(V, K)
    <2>1. Squit_line(p) \in Wire_lines /\ Squit_line(p) # Closed /\ Squit_line(p).name = p
        BY <1>2 DEF Squit_line, Wire_lines, Closed
    <2>2. K[h] \ {p} = joined[h] \ {p}
        BY <1>5
    <2> QED BY <1>1, <1>2, <1>4, <2>1, <2>2, Passed_on
<1>7. /\ OSighted' /\ joined' \in Links /\ seen' \in Links /\ spath' \in Links
      /\ services_on' \subseteq Host /\ misled' \subseteq Host
    BY <1>1, <1>3, Lose_sight
<1>8. topic' \in [Host -> Topics]
    BY <1>1 DEF OInv, OTypes
<1>9. AllWired(wire', joined') /\ wire' \in Wires
    BY <1>1, <1>3, <1>6
<1> QED BY <1>7, <1>8, <1>9 DEF OInv, OTypes

(* Nothing is on its way to a server that has closed.                       *)
LEMMA Hear_close_keeps ==
    ASSUME OInv, NEW h \in Host, NEW p \in Joint[h], Hear_close(h, p)
    PROVE  OInv'
<1> DEFINE z == IF Shut(wire[h][p]) THEN wire[p][h] ELSE Append(wire[p][h], Closed)
           R == [wire EXCEPT ![h][p] = << >>, ![p][h] = z]
           K == [joined EXCEPT ![h] = @ \ {p}]
           V == Sends(R, h, joined[h] \ {p}, <<Squit_line(p)>>)
<1>1. /\ wire[h][p] # << >> /\ Head(wire[h][p]).cmd = "EOF" /\ joined' = K /\ topic' = topic
      /\ Lose_link(h, p, [wire EXCEPT ![h][p] = << >>])
    BY DEF Hear_close, Lose_link, Next_line
<1>2. /\ joined \in Links /\ wire \in Wires /\ p \in Host /\ p # h /\ p \in Behind_[h][p]
    BY Tree_facts DEF OInv, OTypes
<1>3. Shut(wire[h][p]) /\ p \in joined[h]
    <2>1. wire[h][p] \in Seq(Wire_lines)
        BY <1>2 DEF Wires
    <2>2. /\ 1 \in 1 .. Len(wire[h][p]) /\ wire[h][p][1] = Head(wire[h][p])
          /\ Head(wire[h][p]) \in Wire_lines
        BY <1>1, <2>1
    <2>3. Head(wire[h][p]) = Closed
        BY <1>1, <2>2 DEF Wire_lines
    <2>4. Closed # Server_line(p)
        BY DEF Closed, Server_line
    <2>5. Wired(h, p, wire[h][p], wire[p][h], joined[h], joined[p])
        BY DEF OInv, AllWired
    <2> QED BY <1>1, <2>2, <2>3, <2>4, <2>5 DEF Shut, Wired
<1>4. Lose_link(h, p, R) /\ wire' = V
    <2>1. [wire EXCEPT ![h][p] = << >>] = R
        BY <1>2, <1>3 DEF Wires
    <2> QED BY <1>1, <2>1 DEF Lose_link, Gone_server
<1>5. R \in Wires /\ K \in Links /\ AllWired(R, K)
    BY <1>3, Lost_wired
<1>6. K[h] = joined[h] \ {p}
    BY <1>2 DEF Links
<1> HIDE DEF R, K
<1>7. V \in Wires /\ AllWired(V, K)
    <2>1. Squit_line(p) \in Wire_lines /\ Squit_line(p) # Closed /\ Squit_line(p).name = p
        BY <1>2 DEF Squit_line, Wire_lines, Closed
    <2>2. K[h] \ {p} = joined[h] \ {p}
        BY <1>6
    <2> QED BY <1>2, <1>3, <1>5, <2>1, <2>2, Passed_on
<1>8. /\ OSighted' /\ joined' \in Links /\ seen' \in Links /\ spath' \in Links
      /\ services_on' \subseteq Host /\ misled' \subseteq Host
    BY <1>3, <1>4, Lose_sight
<1>9. topic' \in [Host -> Topics]
    BY <1>1 DEF OInv, OTypes
<1>10. AllWired(wire', joined') /\ wire' \in Wires
    BY <1>1, <1>4, <1>7
<1> QED BY <1>8, <1>9, <1>10 DEF OInv, OTypes

LEMMA Hear_squit_keeps ==
    ASSUME OInv, NEW h \in Host, NEW p \in Joint[h], Hear_squit(h, p)
    PROVE  OInv'
<1> DEFINE R == Rest_of(h, p)
           x == Head(wire[h][p]).name
           V == Sends(R, h, joined[h] \ {p}, <<Squit_line(x)>>)
<1>1. /\ wire[h][p] # << >> /\ Head(wire[h][p]).cmd = "SQUIT"
      /\ Head(wire[h][p]) # Closed /\ Head(wire[h][p]) # Server_line(p)
      /\ joined' = joined /\ topic' = topic
    BY DEF Hear_squit, Next_line, Closed, Server_line
<1>2. p \in joined[h] /\ x \in Behind_[h][p] /\ x # p /\ R \in Wires /\ AllWired(R, joined)
    BY <1>1, Read_wired
<1>3. joined \in Links /\ x \in Host
    BY <1>2, Tree_facts DEF OInv, OTypes
<1>4. topic' \in [Host -> Topics]
    BY <1>1 DEF OInv, OTypes
<1>5. CASE x \in seen[h]
    <2>1. /\ Gone_server(h, p, x, R) /\ wire' = V
          /\ spath' = IF Forgotten(x) THEN [spath EXCEPT ![h] = @ \ {p}] ELSE spath
        BY <1>5 DEF Hear_squit, Gone_server
    <2> HIDE DEF R, x
    <2>2. V \in Wires /\ AllWired(V, joined)
        <3>1. Squit_line(x) \in Wire_lines /\ Squit_line(x) # Closed /\ Squit_line(x).name = x
            BY <1>3 DEF Squit_line, Wire_lines, Closed
        <3> QED BY <1>2, <1>3, <3>1, Passed_on
    <2>3. /\ OSighted' /\ joined' \in Links /\ seen' \in Links /\ spath' \in Links
          /\ services_on' \subseteq Host /\ misled' \subseteq Host
        BY <1>1, <1>2, <1>5, <2>1, Squit_sight
    <2>4. AllWired(wire', joined') /\ wire' \in Wires
        BY <1>1, <2>1, <2>2
    <2> QED BY <1>4, <2>3, <2>4 DEF OInv, OTypes
<1>6. CASE x \notin seen[h]
    <2>1. wire' = R /\ UNCHANGED <<seen, services_on, spath, misled>>
        BY <1>6 DEF Hear_squit
    <2> HIDE DEF R, x
    <2>2. OSighted'
        BY <1>1, <2>1 DEF OInv, OSighted
    <2>3. AllWired(wire', joined') /\ wire' \in Wires
        BY <1>1, <1>2, <2>1
    <2> QED BY <1>1, <1>4, <2>1, <2>2, <2>3 DEF OInv, OTypes
<1> QED BY <1>5, <1>6

(* Topics have nothing to do with who believes in services.                 *)
LEMMA Topic_keeps ==
    ASSUME OInv, UNCHANGED <<joined, seen, services_on, spath, misled>>,
           topic' \in [Host -> Topics], wire' \in Wires, AllWired(wire', joined)
    PROVE  OInv'
<1>1. OSighted'
    BY DEF OInv, OSighted
<1>2. AllWired(wire', joined')
    OBVIOUS
<1> QED BY <1>1, <1>2 DEF OInv, OTypes

LEMMA Set_topic_keeps ==
    ASSUME OInv, NEW h \in Host, NEW text \in Words, Set_topic(h, text)
    PROVE  OInv'
<1>1. PICK now \in 1 .. MaxAge :
        IF Same_text(h, text)
        THEN topic' = [topic EXCEPT ![h].time = 0] /\ UNCHANGED wire
        ELSE LET t == [text |-> text, time |-> now]
             IN  /\ topic' = [topic EXCEPT ![h] = t]
                 /\ wire' = Sends(wire, h, joined[h], <<Topic_line(t, FALSE)>>)
    BY DEF Set_topic
<1>2. now \in Nat /\ topic \in [Host -> Topics] /\ wire \in Wires /\ AllWired(wire, joined)
      /\ joined \in Links /\ joined[h] \subseteq Joint[h]
    BY TopicAssumption DEF OInv, OTypes, OSighted, Sighted
<1>3. UNCHANGED <<joined, seen, services_on, spath, misled>>
    BY DEF Set_topic
<1>4. CASE Same_text(h, text)
    <2>1. topic' \in [Host -> Topics]
        BY <1>1, <1>2, <1>4 DEF Topics
    <2> QED BY <1>1, <1>2, <1>3, <1>4, <2>1, Topic_keeps
<1>5. CASE ~Same_text(h, text)
    <2> DEFINE t == [text |-> text, time |-> now]
               V == Sends(wire, h, joined[h], <<Topic_line(t, FALSE)>>)
    <2>1. topic' = [topic EXCEPT ![h] = t] /\ wire' = V
        BY <1>1, <1>5
    <2>2. t \in Topics
        BY <1>2 DEF Topics
    <2>3. topic' \in [Host -> Topics]
        BY <1>2, <2>1, <2>2
    <2>4. /\ Topic_line(t, FALSE) \in Wire_lines /\ Topic_line(t, FALSE) # Closed
          /\ Topic_line(t, FALSE).cmd = "TOPIC"
        BY <2>2 DEF Topics, Topic_line, Wire_lines, Closed
    <2> HIDE DEF t
    <2>5. \A n \in joined[h] : Passes(n, h, <<Topic_line(t, FALSE)>>)
        <3> SUFFICES ASSUME NEW n \in joined[h] PROVE Passes(n, h, <<Topic_line(t, FALSE)>>)
            OBVIOUS
        <3>1. ~(Topic_line(t, FALSE).cmd \in {"SERVER", "SQUIT"})
            BY <2>4
        <3> QED BY <2>4, <3>1, One_passes
    <2>6. joined[h] \in SUBSET (joined[h] \cap Joint[h])
        BY <1>2
    <2>7. V \in Wires /\ AllWired(V, joined)
        BY <1>2, <2>5, <2>6, Sends_wired
    <2> HIDE DEF V
    <2> QED BY <1>3, <2>1, <2>3, <2>7, Topic_keeps
<1> QED BY <1>4, <1>5

LEMMA Hear_topic_keeps ==
    ASSUME OInv, NEW h \in Host, NEW p \in Joint[h], Hear_topic(h, p)
    PROVE  OInv'
<1> DEFINE R == Rest_of(h, p)
           m == Head(wire[h][p])
           t == [text |-> m.text, time |-> m.time]
           V == Sends(R, h, joined[h] \ {p}, <<m>>)
<1>1. /\ wire[h][p] # << >> /\ m.cmd = "TOPIC" /\ m # Closed /\ m # Server_line(p)
      /\ UNCHANGED <<joined, seen, services_on, spath, misled>>
    BY DEF Hear_topic, Next_line, Closed, Server_line
<1>2. p \in joined[h] /\ m \in Wire_lines /\ R \in Wires /\ AllWired(R, joined)
    BY <1>1, Read_wired
<1>3. topic \in [Host -> Topics] /\ joined \in Links
    BY DEF OInv, OTypes
<1>4. t \in Topics
    BY <1>1, <1>2 DEF Wire_lines, Topics, Closed
<1>5. /\ wire' = R \/ wire' = V
      /\ topic' = topic \/ topic' = [topic EXCEPT ![h] = t]
    BY DEF Hear_topic
<1> HIDE DEF R, m, t
<1>6. topic' \in [Host -> Topics]
    BY <1>3, <1>4, <1>5
<1>7. V \in Wires /\ AllWired(V, joined)
    BY <1>1, <1>2, <1>3, Passed_on
<1> HIDE DEF V
<1>8. wire' \in Wires /\ AllWired(wire', joined)
    BY <1>2, <1>5, <1>7
<1> QED BY <1>1, <1>6, <1>8, Topic_keeps

-----------------------------------------------------------------------------
(* At first each side hangs together and nothing is on its way.             *)
LEMMA OInv_init == OInit => OInv
<1> SUFFICES ASSUME OInit PROVE OInv
    OBVIOUS
<1>1. PICK P \in Sides :
        /\ seen = [h \in Host |-> {n \in Host \ {h} : \E side \in P : {h, n} \subseteq side}]
        /\ joined = [h \in Host |-> Joint[h] \cap seen[h]]
    BY DEF OInit
<1>2. /\ services_on = {h \in Host : ServicesServer \in seen[h]} /\ misled = {} /\ wire = Nothing_said
      /\ spath = [h \in Host |-> {n \in joined[h] : h \in services_on /\ ServicesServer \in Behind_[h][n]}]
      /\ topic = [h \in Host |-> [text |-> NoTopic, time |-> 0]]
    BY DEF OInit
<1>3. /\ \A h \in Host : \A n \in seen[h] : n \in Host \ {h}
      /\ \A h, n \in Host : n \in joined[h] <=> n \in Joint[h] /\ n \in seen[h]
      /\ \A h, n \in Host : n \in seen[h] <=> h \in seen[n]
      /\ \A h \in Host : joined[h] \subseteq seen[h] /\ joined[h] \subseteq Joint[h]
    BY <1>1
<1>4. \A h \in Host : \A x \in seen[h] : \E n \in joined[h] : x \in Behind_[h][n]
    <2> SUFFICES ASSUME NEW h \in Host, NEW x \in seen[h]
                 PROVE  \E n \in joined[h] : x \in Behind_[h][n]
        OBVIOUS
    <2>1. PICK side \in P : h \in side /\ x \in side /\ x # h
        BY <1>1
    <2>2. PICK n \in Joint[h] \cap side : x \in Behind_[h][n]
        BY <2>1, TopicTree
    <2>3. n \in Host /\ n # h
        BY Tree_facts
    <2>4. n \in seen[h]
        BY <1>1, <2>1, <2>2, <2>3
    <2> QED BY <1>3, <2>2, <2>3, <2>4
<1>5. OTypes
    <2>1. wire \in Wires
        BY <1>2 DEF Nothing_said, Wires
    <2>2. topic \in [Host -> Topics]
        BY <1>2 DEF Topics
    <2>3. joined \in Links /\ seen \in Links /\ spath \in Links
        BY <1>1, <1>2 DEF Links
    <2> QED BY <1>2, <2>1, <2>2, <2>3 DEF OTypes
<1>6. AllWired(wire, joined)
    <2> SUFFICES ASSUME NEW h \in Host, NEW p \in Joint[h]
                 PROVE  Wired(h, p, wire[h][p], wire[p][h], joined[h], joined[p])
        BY DEF AllWired
    <2>1. p \in Host /\ h \in Joint[p]
        BY Tree_facts
    <2>2. wire[h][p] = << >> /\ wire[p][h] = << >> /\ ~Shut(<< >>)
        BY <1>2, <2>1 DEF Nothing_said, Shut
    <2>3. p \in joined[h] <=> h \in joined[p]
        BY <1>3, <2>1
    <2> QED BY <2>2, <2>3 DEF Wired
<1>7. OSighted
    <2> SUFFICES ASSUME NEW h \in Host
                 PROVE  Sighted(h, joined[h], seen[h], spath[h], services_on, misled)
        BY DEF OSighted
    <2>1. /\ h \in services_on <=> ServicesServer \in seen[h]
          /\ h \notin misled
          /\ spath[h] = {n \in joined[h] : h \in services_on /\ ServicesServer \in Behind_[h][n]}
        BY <1>2
    <2> QED BY <1>3, <1>4, <2>1 DEF Sighted
<1> QED BY <1>5, <1>6, <1>7 DEF OInv

(* Every step keeps it.                                                     *)
LEMMA OInv_next == OInv /\ [ONext]_ovars => OInv'
<1> SUFFICES ASSUME OInv, [ONext]_ovars PROVE OInv'
    OBVIOUS
<1>1. CASE UNCHANGED ovars
    BY <1>1 DEF ovars, OInv, OTypes, OSighted
<1>2. CASE ONext
    <2>1. PICK h \in Host :
            \/ \E p \in Joint[h] :
                  \/ Take_link(h, p) \/ Hear_link(h, p) \/ Hear_server(h, p)
                  \/ Lose(h, p) \/ Hear_close(h, p) \/ Hear_squit(h, p) \/ Hear_topic(h, p)
            \/ \E text \in Words : Set_topic(h, text)
        BY <1>2 DEF ONext
    <2>2. ASSUME NEW p \in Joint[h],
                 \/ Take_link(h, p) \/ Hear_link(h, p) \/ Hear_server(h, p)
                 \/ Lose(h, p) \/ Hear_close(h, p) \/ Hear_squit(h, p) \/ Hear_topic(h, p)
          PROVE  OInv'
        BY <2>2, Take_link_keeps, Hear_link_keeps, Hear_server_keeps, Lose_keeps,
           Hear_close_keeps, Hear_squit_keeps, Hear_topic_keeps
    <2> QED BY <2>1, <2>2, Set_topic_keeps
<1> QED BY <1>1, <1>2

(* THEOREM: a server believes in services while it knows of them, and has   *)
(* marked the link they are behind; after that only if they went with a     *)
(* server in between; whatever the tree, and whichever links are made and   *)
(* lost.  (server_estab, m_server, m_squit, exit_client.)                   *)
THEOREM Services_marked == OSpec => []ServicesMarked
<1>1. OInit => OInv
    BY OInv_init
<1>2. OInv /\ [ONext]_ovars => OInv'
    BY OInv_next
<1>3. OInv => ServicesMarked
    <2> SUFFICES ASSUME OInv PROVE ServicesMarked
        OBVIOUS
    <2>1. ASSUME NEW h \in Host
          PROVE  /\ h \in services_on <=> ServicesServer \in seen[h] \/ h \in misled
                 /\ ServicesServer \in seen[h] =>
                        \A n : n \in spath[h] <=> n \in joined[h] /\ ServicesServer \in Behind_[h][n]
                 /\ spath[h] # {} => h \in services_on
        BY DEF OInv, OSighted, Sighted
    <2> QED BY <2>1 DEF ServicesMarked, IrcServer
<1> QED BY <1>1, <1>2, <1>3, PTL DEF OSpec

-----------------------------------------------------------------------------
(* TopicsAgree.  While it is in order, nothing is on its way that is about  *)
(* topics, or two sides are about to meet, or the topic of one side goes    *)
(* through the other, or the topic of a client through its side.            *)
About_services == Server_line(ServicesServer)
Warned(w, i) == \E j \in 1 .. i - 1 : w[j] = About_services
Both_ways(J) == \A a \in Host : \A b \in J[a] : a \in J[b]
Texts_agree(a, b) == topic[a].text = topic[b].text
Owed(a, b, line) == \E i \in 1 .. Len(wire[a][b]) : wire[a][b][i] = line

Calm ==
    /\ \A a \in IrcServer : \A b \in joined[a] \cap IrcServer : Texts_agree(a, b)
    /\ \A a \in IrcServer : \A b \in Host : \A i \in 1 .. Len(wire[a][b]) :
          wire[a][b][i].cmd # "TOPIC"
    /\ \A a, b \in IrcServer : wire[a][b] # << >> => b \in joined[a]

(* What h says of itself to a new link: if it knows services the topic      *)
(* comes after them.                                                        *)
Burst_of(h, w) ==
    /\ \A i \in 1 .. Len(w) :
          \/ w[i].cmd = "SERVER"
          \/ /\ w[i] = Topic_line(topic[h], TRUE) /\ topic[h].time # 0
             /\ ServicesServer \in seen[h] => Warned(w, i)
    /\ ServicesServer \notin seen[h] => \A i \in 1 .. Len(w) : w[i] # About_services
    /\ topic[h].time # 0 => \E i \in 1 .. Len(w) : w[i] = Topic_line(topic[h], TRUE)

(* h, one of whose side A, has dialled p, whose side is B, and p has yet to *)
(* hear of it.                                                              *)
One_side(h, p, A) ==
    /\ h \in A /\ \A k \in A : joined[k] \subseteq A \/ (k = h /\ joined[k] \subseteq A \cup {p})
    /\ \A k \in A \cap IrcServer : topic[k] = topic[h]
Meeting(h, p, A, B) ==
    /\ A \subseteq Host /\ B \subseteq Host
    /\ h \in IrcServer /\ p \in Joint[h] \cap IrcServer
    /\ p \in joined[h] /\ h \notin joined[p] /\ p \notin spath[h]
    /\ One_side(h, p, A) /\ One_side(p, h, B) /\ (GivesWay(h, p, A) \/ GivesWay(p, h, B))
    /\ \A a \in Host : \A b \in joined[a] : <<a, b>> # <<h, p>> => a \in joined[b]
    /\ \A a \in IrcServer : \A b \in joined[a] \cap IrcServer :
          <<a, b>> # <<h, p>> => Texts_agree(a, b)
    /\ \A a, b \in Host : <<a, b>> # <<p, h>> => \A i \in 1 .. Len(wire[a][b]) :
          wire[a][b][i].cmd = "SERVER" /\ wire[a][b][i] # About_services
    /\ wire[p][h] # << >> /\ Burst_of(h, wire[p][h])

(* The topic w of a side with services (svc) or without, in the place i of  *)
(* what a has yet to read of b, when a has w or will give up l for it; and  *)
(* the topic l, which a will refuse.                                        *)
Taken(a, b, i, l, w, svc) ==
    /\ wire[a][b][i] = Topic_line(w, TRUE) /\ topic[b] = w
    /\ topic[a] # w =>
         /\ w.time # l.time
         /\ svc => /\ ServicesServer \in Behind_[a][b]
                   /\ ServicesServer \in seen[a] \/ Warned(wire[a][b], i)
         /\ ~svc => l.time = 0 \/ w.time < l.time
Turned_down(a, b, i, l, w, svc) ==
    /\ wire[a][b][i] = Topic_line(l, TRUE) /\ topic[a] = w
    /\ \/ l = w
       \/ a \in services_on /\ b \notin spath[a] /\ ~Warned(wire[a][b], i)
       \/ ~svc /\ a \notin services_on /\ w.time # 0 /\ w.time < l.time

(* Who still has l knows of services only if it has passed that on; without *)
(* services it does not believe in them.                                    *)
Behindhand(k, svc) ==
    /\ svc /\ ServicesServer \in seen[k] =>
          \A x \in joined[k] \cap IrcServer : ServicesServer \in Behind_[x][k] =>
             ServicesServer \in seen[x] \/ Owed(x, k, About_services)
    /\ ~svc => k \notin services_on

Wave(C, l, w, svc) ==
    /\ Both_ways(joined)
    /\ \A k \in C : joined[k] \subseteq C
    /\ \A k \in C \cap IrcServer : topic[k] \in {l, w}
    /\ \A a, b \in Host : \A i \in 1 .. Len(wire[a][b]) :
          /\ wire[a][b][i].cmd \in {"SERVER", "TOPIC"}
          /\ ~svc => wire[a][b][i] # About_services
    /\ \A a \in IrcServer : \A b \in Host : \A i \in 1 .. Len(wire[a][b]) :
          wire[a][b][i].cmd = "TOPIC" =>
             /\ a \in C /\ b \in IrcServer
             /\ Taken(a, b, i, l, w, svc) \/ Turned_down(a, b, i, l, w, svc)
    /\ l # w => \A k \in C \cap IrcServer : topic[k] = l => Behindhand(k, svc)
    /\ \A a \in IrcServer : \A b \in joined[a] \cap IrcServer :
          \/ Texts_agree(a, b)
          \/ a \in C /\ topic[a] = l /\ topic[b] = w /\ Owed(a, b, Topic_line(w, TRUE))
          \/ a \in C /\ topic[b] = l /\ topic[a] = w /\ Owed(b, a, Topic_line(w, TRUE))

(* A client's topic t.                                                      *)
Spreading(t) ==
    /\ Both_ways(joined)
    /\ \A a, b \in Host : \A i \in 1 .. Len(wire[a][b]) :
          /\ wire[a][b][i] = Topic_line(t, FALSE)
          /\ a \in IrcServer => b \in IrcServer /\ topic[b].text = t.text
    /\ \A a \in IrcServer : \A b \in joined[a] \cap IrcServer :
          \/ Texts_agree(a, b)
          \/ topic[b].text = t.text /\ Owed(a, b, Topic_line(t, FALSE))
          \/ topic[a].text = t.text /\ Owed(b, a, Topic_line(t, FALSE))

In_order_still ==
    \/ Calm
    \/ \E h, p \in Host : \E A, B \in SUBSET Host : Meeting(h, p, A, B)
    \/ \E C \in SUBSET Host : \E l, w \in Topics : \E svc \in BOOLEAN : Wave(C, l, w, svc)
    \/ \E t \in Topics : Spreading(t)
Topic_inv == OInv /\ (orderly => In_order_still)

-----------------------------------------------------------------------------
(* When nothing is on its way.                                              *)
LEMMA Quiet_facts ==
    ASSUME OInv, Quiet_wires
    PROVE  /\ Both_ways(joined) /\ \A a, b \in Host : wire[a][b] = << >>
           /\ In_order_still => \A a \in IrcServer : \A b \in joined[a] \cap IrcServer : Texts_agree(a, b)
<1>1. \A a, b \in Host : wire[a][b] = << >> /\ Len(wire[a][b]) = 0
    BY DEF Quiet_wires, Nothing_said
<1>2. Both_ways(joined)
    <2> SUFFICES ASSUME NEW a \in Host, NEW b \in joined[a] PROVE a \in joined[b]
        BY DEF Both_ways
    <2>1. b \in Joint[a]
        BY DEF OInv, OSighted, Sighted
    <2>2. b \in Host /\ a \in Joint[b]
        BY <2>1, Tree_facts
    <2>3. Wired(b, a, wire[b][a], wire[a][b], joined[b], joined[a])
        BY <2>2 DEF OInv, AllWired
    <2>4. ~Shut(<< >>)
        BY DEF Shut
    <2> QED BY <1>1, <2>2, <2>3, <2>4 DEF Wired
<1>3. ASSUME In_order_still, NEW a \in IrcServer, NEW b \in joined[a] \cap IrcServer
      PROVE  Texts_agree(a, b)
    <2>1. a \in Host /\ b \in Host
        BY DEF IrcServer
    <2>2. \A line : ~Owed(a, b, line) /\ ~Owed(b, a, line)
        BY <1>1, <2>1 DEF Owed
    <2>3. CASE Calm
        BY <2>3 DEF Calm
    <2>4. ASSUME NEW h \in Host, NEW p \in Host, NEW A, NEW B, Meeting(h, p, A, B) PROVE FALSE
        BY <1>1, <2>4 DEF Meeting
    <2>5. ASSUME NEW C, NEW l, NEW w, NEW svc, Wave(C, l, w, svc) PROVE Texts_agree(a, b)
        BY <2>2, <2>5 DEF Wave
    <2>6. ASSUME NEW t, Spreading(t) PROVE Texts_agree(a, b)
        BY <2>2, <2>6 DEF Spreading
    <2> QED BY <1>3, <2>3, <2>4, <2>5, <2>6 DEF In_order_still
<1> QED BY <1>1, <1>2, <1>3

(* h reads a line of p and passes m on to N, and what is on its way then.    *)
Reads(h, p, N, m) ==
    /\ wire[h][p] # << >> /\ N \in SUBSET (joined[h] \ {p}) /\ m \in Wire_lines
    /\ \/ wire' = Sends(Rest_of(h, p), h, N, <<m>>)
       \/ N = {} /\ wire' = Rest_of(h, p)
Has_read(h, p, N, m) ==
    /\ \A i \in 1 .. Len(wire'[h][p]) :
          i + 1 \in 2 .. Len(wire[h][p]) /\ wire'[h][p][i] = wire[h][p][i + 1]
    /\ \A i \in 1 .. Len(wire[h][p]) : i = 1 \/
          (i - 1 \in 1 .. Len(wire'[h][p]) /\ wire'[h][p][i - 1] = wire[h][p][i])
    /\ \A x, y \in Host : <<x, y>> # <<h, p>> =>
          /\ \A i \in 1 .. Len(wire[x][y]) :
                i \in 1 .. Len(wire'[x][y]) /\ wire'[x][y][i] = wire[x][y][i]
          /\ \A i \in 1 .. Len(wire'[x][y]) :
                \/ i \in 1 .. Len(wire[x][y])
                \/ /\ i = Len(wire[x][y]) + 1 /\ y = h /\ x \in N
                   /\ wire'[x][y][i] = m
    /\ \A x \in N : ~Shut(wire[h][x]) =>
          /\ Len(wire[x][h]) + 1 \in 1 .. Len(wire'[x][h])
          /\ wire'[x][h][Len(wire[x][h]) + 1] = m
    /\ 1 \in 1 .. Len(wire[h][p]) /\ wire[h][p][1] = Head(wire[h][p])

LEMMA Heard ==
    ASSUME OInv, NEW h \in Host, NEW p \in Joint[h], NEW N, NEW m, Reads(h, p, N, m)
    PROVE  Has_read(h, p, N, m)
<1>0. /\ wire[h][p] # << >> /\ N \in SUBSET (joined[h] \ {p}) /\ m \in Wire_lines
      /\ \/ wire' = Sends(Rest_of(h, p), h, N, <<m>>)
         \/ N = {} /\ wire' = Rest_of(h, p)
    BY DEF Reads
<1>1. p \in Host /\ p # h /\ joined[h] \subseteq Host /\ h \notin joined[h]
    BY Tree_facts DEF OInv, OTypes, OSighted, Sighted, Links
<1>2. wire \in [Host -> [Host -> Seq(Wire_lines)]]
    BY DEF OInv, OTypes, Wires
<1> DEFINE R == Rest_of(h, p)
<1>3. \A x, y \in Host : R[x][y] = IF x = h /\ y = p THEN Tail(wire[h][p]) ELSE wire[x][y]
    BY <1>1, <1>2 DEF Rest_of
<1>4. \A x, y \in Host : wire'[x][y] = IF y = h /\ x \in N /\ ~Shut(R[h][x])
                                       THEN R[x][y] \o <<m>> ELSE R[x][y]
    <2>1. CASE wire' = Sends(R, h, N, <<m>>)
        BY <2>1 DEF Sends
    <2>2. CASE N = {} /\ wire' = R
        BY <2>2
    <2> QED BY <1>0, <2>1, <2>2
<1>5. \A x \in N : R[h][x] = wire[h][x] /\ R[x][h] = wire[x][h] /\ x \in Host /\ x # p /\ x # h
    BY <1>0, <1>1, <1>3
<1>7. \A x, y \in Host : wire[x][y] \in Seq(Wire_lines) /\ Len(wire[x][y]) \in Nat
    BY <1>2
<1>8. wire'[h][p] = Tail(wire[h][p])
    BY <1>0, <1>1, <1>3, <1>4
<1>9. \A x, y \in Host : <<x, y>> # <<h, p>> =>
         \/ wire'[x][y] = wire[x][y]
         \/ y = h /\ x \in N /\ wire'[x][y] = Append(wire[x][y], m)
    <2> SUFFICES ASSUME NEW x \in Host, NEW y \in Host, <<x, y>> # <<h, p>>, wire'[x][y] # wire[x][y]
                 PROVE  y = h /\ x \in N /\ wire'[x][y] = Append(wire[x][y], m)
        OBVIOUS
    <2>1. R[x][y] = wire[x][y]
        BY <1>3
    <2>2. y = h /\ x \in N /\ wire'[x][y] = wire[x][y] \o <<m>>
        BY <1>4, <2>1
    <2>3. wire[x][y] \o <<m>> = Append(wire[x][y], m)
        BY <1>0, <1>7
    <2> QED BY <2>2, <2>3
<1>10. \A x \in N : ~Shut(wire[h][x]) => wire'[x][h] = Append(wire[x][h], m)
    <2> SUFFICES ASSUME NEW x \in N, ~Shut(wire[h][x]) PROVE wire'[x][h] = Append(wire[x][h], m)
        OBVIOUS
    <2>1. wire'[x][h] = wire[x][h] \o <<m>>
        BY <1>4, <1>5
    <2> QED BY <1>0, <1>5, <1>7, <2>1
<1>11. \A w \in Seq(Wire_lines) : LET z == Append(w, m) IN
          /\ Len(z) = Len(w) + 1 /\ Len(w) \in Nat /\ z[Len(w) + 1] = m
          /\ \A i \in 1 .. Len(w) : i \in 1 .. Len(z) /\ z[i] = w[i]
          /\ \A i \in 1 .. Len(z) : i \in 1 .. Len(w) \/ i = Len(w) + 1
    BY <1>0
<1> HIDE DEF R
<1>12. ASSUME NEW x \in Host, NEW y \in Host, <<x, y>> # <<h, p>>
       PROVE  /\ \A i \in 1 .. Len(wire[x][y]) :
                    i \in 1 .. Len(wire'[x][y]) /\ wire'[x][y][i] = wire[x][y][i]
              /\ \A i \in 1 .. Len(wire'[x][y]) :
                    \/ i \in 1 .. Len(wire[x][y])
                    \/ /\ i = Len(wire[x][y]) + 1 /\ y = h /\ x \in N
                       /\ wire'[x][y][i] = m
    <2>1. CASE wire'[x][y] = wire[x][y]
        BY <2>1
    <2>2. CASE y = h /\ x \in N /\ wire'[x][y] = Append(wire[x][y], m)
        <3>1. wire[x][y] \in Seq(Wire_lines)
            BY <1>7
        <3> QED BY <1>11, <2>2, <3>1
    <2> QED BY <1>9, <1>12, <2>1, <2>2
<1>13. ASSUME NEW x \in N, ~Shut(wire[h][x])
       PROVE  /\ Len(wire[x][h]) + 1 \in 1 .. Len(wire'[x][h])
              /\ wire'[x][h][Len(wire[x][h]) + 1] = m
    <2>1. wire[x][h] \in Seq(Wire_lines) /\ wire'[x][h] = Append(wire[x][h], m)
        BY <1>5, <1>7, <1>10, <1>13
    <2> QED BY <1>11, <2>1
<1>14. LET w == wire[h][p]  z == wire'[h][p]
       IN  /\ \A i \in 1 .. Len(z) : i + 1 \in 2 .. Len(w) /\ z[i] = w[i + 1]
           /\ \A i \in 1 .. Len(w) : i = 1 \/ (i - 1 \in 1 .. Len(z) /\ z[i - 1] = w[i])
           /\ 1 \in 1 .. Len(w) /\ w[1] = Head(w)
    <2>1. \A w \in Seq(Wire_lines) : w # << >> =>
             /\ Tail(w) \in Seq(Wire_lines) /\ Len(Tail(w)) = Len(w) - 1 /\ Len(w) \in Nat
             /\ 1 \in 1 .. Len(w) /\ w[1] = Head(w)
             /\ \A i \in 1 .. Len(Tail(w)) : i + 1 \in 2 .. Len(w) /\ Tail(w)[i] = w[i + 1]
        OBVIOUS
    <2>2. ASSUME NEW w \in Seq(Wire_lines), w # << >>, NEW i \in 1 .. Len(w), i # 1
          PROVE  i - 1 \in 1 .. Len(Tail(w)) /\ Tail(w)[i - 1] = w[i]
        <3>1. i - 1 \in 1 .. Len(Tail(w)) /\ (i - 1) + 1 = i
            BY <2>1, <2>2
        <3>2. Tail(w)[i - 1] = w[(i - 1) + 1]
            BY <2>1, <2>2, <3>1
        <3> QED BY <3>1, <3>2
    <2>3. wire[h][p] \in Seq(Wire_lines)
        BY <1>1, <1>7
    <2> QED BY <1>0, <1>8, <2>1, <2>2, <2>3
<1> QED BY <1>12, <1>13, <1>14 DEF Has_read

LEMMA Linked_up ==
    ASSUME OInv, Both_ways(joined), NEW h \in Host, NEW p \in Joint[h],
           wire[h][p] # << >>, ~Shut(wire[h][p])
    PROVE  p \in joined[h]
<1>1. Wired(h, p, wire[h][p], wire[p][h], joined[h], joined[p])
    BY DEF OInv, AllWired
<1>2. p \in Host /\ (h \in joined[p] => p \in joined[h])
    BY Tree_facts DEF Both_ways
<1> QED BY <1>1, <1>2 DEF Wired

Said_topic(m) == [text |-> m.text, time |-> m.time]
Refused(h, p, m) == Keeps_ours(h, p, m) \/ h = ServicesServer

(* A TOPIC that is heard, and what it does to what is on its way.           *)
LEMMA Topic_heard ==
    ASSUME OInv, NEW h \in Host, NEW p \in Joint[h], Hear_topic(h, p)
    PROVE  /\ wire[h][p] # << >> /\ p \in Host /\ p # h /\ wire[h][p][1] = Head(wire[h][p])
           /\ wire[h][p][1].cmd = "TOPIC" /\ wire[h][p][1] \in Wire_lines /\ p \in joined[h]
           /\ UNCHANGED <<joined, seen, services_on, spath, orderly>>
           /\ topic' = IF Refused(h, p, wire[h][p][1]) THEN topic
                      ELSE [topic EXCEPT ![h] = Said_topic(wire[h][p][1])]
           /\ wire' = IF Refused(h, p, wire[h][p][1]) \/ Same_text(h, wire[h][p][1].text) THEN Rest_of(h, p)
                     ELSE Sends(Rest_of(h, p), h, joined[h] \ {p}, <<wire[h][p][1]>>)
<1>1. wire[h][p] # << >> /\ p \in Host /\ p # h
    BY Tree_facts DEF Hear_topic, Next_line
<1>2. wire[h][p][1] = Head(wire[h][p])
    <2>1. wire[h][p] \in Seq(Wire_lines)
        BY <1>1 DEF OInv, OTypes, Wires
    <2> QED BY <1>1, <2>1
<1>3. /\ Head(wire[h][p]).cmd = "TOPIC" /\ Head(wire[h][p]) # Closed
      /\ Head(wire[h][p]) # Server_line(p)
    BY DEF Hear_topic, Next_line, Closed, Server_line
<1>4. Head(wire[h][p]) \in Wire_lines /\ p \in joined[h]
    BY <1>1, <1>3, Read_wired
<1>5. UNCHANGED <<joined, seen, services_on, spath, orderly>>
    BY DEF Hear_topic
<1>6. /\ topic' = IF Refused(h, p, Head(wire[h][p])) THEN topic
                 ELSE [topic EXCEPT ![h] = Said_topic(Head(wire[h][p]))]
      /\ wire' = IF Refused(h, p, Head(wire[h][p])) \/ Same_text(h, Head(wire[h][p]).text) THEN Rest_of(h, p)
                ELSE Sends(Rest_of(h, p), h, joined[h] \ {p}, <<Head(wire[h][p])>>)
    BY DEF Hear_topic, Refused, Said_topic
<1> QED BY <1>1, <1>2, <1>3, <1>4, <1>5, <1>6

(* Lines.                                                                   *)
LEMMA Topic_line_facts ==
    ASSUME NEW t \in Topics, NEW b \in BOOLEAN
    PROVE  /\ Topic_line(t, b).cmd = "TOPIC" /\ Said_topic(Topic_line(t, b)) = t
           /\ Topic_line(t, b).text = t.text /\ Topic_line(t, b).time = t.time
           /\ Topic_line(t, b) # About_services /\ Topic_line(t, b) \in Wire_lines
           /\ Topic_line(t, b) # Closed /\ t.time \in Nat
BY DEF Topic_line, Topics, About_services, Server_line, Wire_lines, Said_topic, Closed
LEMMA Server_topic == ASSUME NEW t PROVE Topic_line(t, TRUE).server
BY DEF Topic_line
LEMMA Client_topic == ASSUME NEW t PROVE ~Topic_line(t, FALSE).server
BY DEF Topic_line
LEMMA Server_line_facts ==
    ASSUME NEW x \in Host
    PROVE  /\ Server_line(x).cmd = "SERVER" /\ Server_line(x).name = x
           /\ Server_line(x) # Closed /\ Server_line(x) \in Wire_lines
           /\ Server_line(x) = About_services <=> x = ServicesServer
BY DEF Server_line, Closed, Wire_lines, About_services
LEMMA Wire_line_facts ==
    /\ \A m \in Wire_lines : m.cmd = "SERVER" => m = Server_line(m.name) /\ m.name \in Host
    /\ \A m \in Wire_lines : m.cmd = "SQUIT" => m = Squit_line(m.name) /\ m.name \in Host
    /\ \A m \in Wire_lines : m.cmd = "TOPIC" => m.time \in Nat /\ Said_topic(m) \in Topics
    /\ Closed.cmd = "EOF" /\ Closed \in Wire_lines /\ About_services.cmd = "SERVER"
    /\ About_services.name = ServicesServer
<1>1. \A m \in Wire_lines : m.cmd = "SERVER" => m = Server_line(m.name) /\ m.name \in Host
    BY DEF Server_line, Wire_lines, Closed
<1>2. \A m \in Wire_lines : m.cmd = "SQUIT" => m = Squit_line(m.name) /\ m.name \in Host
    BY DEF Squit_line, Wire_lines, Closed
<1>3. \A m \in Wire_lines : m.cmd = "TOPIC" => m.time \in Nat /\ Said_topic(m) \in Topics
    BY DEF Wire_lines, Closed, Said_topic, Topics
<1>4. /\ Closed.cmd = "EOF" /\ Closed \in Wire_lines /\ About_services.cmd = "SERVER"
      /\ About_services.name = ServicesServer
    BY DEF About_services, Server_line, Closed, Wire_lines
<1> QED BY <1>1, <1>2, <1>3, <1>4

(* A client's topic goes on, whoever hears it.                              *)
LEMMA Spreading_goes_on ==
    ASSUME OInv, NEW t \in Topics, Spreading(t), NEW h \in Host, NEW p \in Joint[h], Hear_topic(h, p)
    PROVE  Spreading(t)'
<1> DEFINE m == Topic_line(t, FALSE)
<1>1. /\ wire[h][p] # << >> /\ p \in Host /\ p # h /\ p \in joined[h]
      /\ wire[h][p][1] = m /\ 1 \in 1 .. Len(wire[h][p])
      /\ UNCHANGED <<joined, seen, services_on, spath, orderly>>
    <2>1. /\ wire[h][p] # << >> /\ p \in Host /\ p # h /\ p \in joined[h]
          /\ UNCHANGED <<joined, seen, services_on, spath, orderly>>
        BY Topic_heard
    <2>2. wire[h][p] \in Seq(Wire_lines)
        BY <2>1 DEF OInv, OTypes, Wires
    <2>3. 1 \in 1 .. Len(wire[h][p])
        BY <2>1, <2>2
    <2> QED BY <2>1, <2>3 DEF Spreading
<1>2. m \in Wire_lines /\ m.text = t.text /\ Said_topic(m) = t /\ ~Keeps_ours(h, p, m) /\ m # Closed
    BY Topic_line_facts, Client_topic DEF Keeps_ours
<1> HIDE DEF m
<1>3. /\ topic' = IF h = ServicesServer THEN topic ELSE [topic EXCEPT ![h] = t]
      /\ wire' = IF h = ServicesServer \/ topic[h].text = t.text
                 THEN Rest_of(h, p) ELSE Sends(Rest_of(h, p), h, joined[h] \ {p}, <<m>>)
    <2>1. /\ topic' = IF Refused(h, p, m) THEN topic ELSE [topic EXCEPT ![h] = Said_topic(m)]
          /\ wire' = IF Refused(h, p, m) \/ Same_text(h, m.text) THEN Rest_of(h, p)
                    ELSE Sends(Rest_of(h, p), h, joined[h] \ {p}, <<m>>)
        BY <1>1, Topic_heard
    <2> QED BY <1>2, <2>1 DEF Same_text, Refused
<1> DEFINE N == IF h = ServicesServer \/ topic[h].text = t.text THEN {} ELSE joined[h] \ {p}
<1>4. wire' = Sends(Rest_of(h, p), h, N, <<m>>) \/ (N = {} /\ wire' = Rest_of(h, p))
    BY <1>3
<1>5. N \in SUBSET (joined[h] \ {p})
    OBVIOUS
<1>6. topic \in [Host -> Topics] /\ joined \in Links /\ joined[h] \subseteq Host
    BY DEF OInv, OTypes, Links
<1>7. /\ h \in IrcServer => p \in IrcServer /\ topic[p].text = t.text
      /\ \A a \in Host : topic'[a].text = IF a = h /\ h \in IrcServer THEN t.text ELSE topic[a].text
    BY <1>1, <1>3, <1>6 DEF Spreading, IrcServer
<1> HIDE DEF N
<1>8. /\ \A i \in 1 .. Len(wire'[h][p]) :
            i + 1 \in 1 .. Len(wire[h][p]) /\ wire'[h][p][i] = wire[h][p][i + 1]
      /\ \A x, y \in Host : <<x, y>> # <<h, p>> =>
            /\ \A i \in 1 .. Len(wire[x][y]) :
                  i \in 1 .. Len(wire'[x][y]) /\ wire'[x][y][i] = wire[x][y][i]
            /\ \A i \in 1 .. Len(wire'[x][y]) :
                  \/ i \in 1 .. Len(wire[x][y])
                  \/ y = h /\ x \in N /\ wire'[x][y][i] = m
      /\ \A x \in N : ~Shut(wire[h][x]) => \E i \in 1 .. Len(wire'[x][h]) : wire'[x][h][i] = m
    <2>1. \A i : i + 1 \in 2 .. Len(wire[h][p]) => i + 1 \in 1 .. Len(wire[h][p])
        OBVIOUS
    <2>2. Reads(h, p, N, m)
        BY <1>1, <1>2, <1>4, <1>5 DEF Reads
    <2>3. Has_read(h, p, N, m)
        BY <2>2, Heard
    <2> QED BY <2>1, <2>3 DEF Has_read
<1>9. \A x, y \in Host : ~Shut(wire[x][y])
    BY <1>2 DEF Spreading, Shut, m
<1>10. Both_ways(joined')
    BY <1>1 DEF Spreading
<1>11. ASSUME NEW a \in Host, NEW b \in Host, NEW i \in 1 .. Len(wire'[a][b])
       PROVE  /\ wire'[a][b][i] = m
              /\ a \in IrcServer => b \in IrcServer /\ topic'[b].text = t.text
    <2>1. CASE a = h /\ b = p
        <3>1. i + 1 \in 1 .. Len(wire[h][p]) /\ wire'[h][p][i] = wire[h][p][i + 1]
            BY <1>8, <2>1
        <3>2. wire[h][p][i + 1] = m
            BY <1>1, <3>1 DEF Spreading, m
        <3> QED BY <1>7, <2>1, <3>1, <3>2 DEF IrcServer
    <2>2. CASE <<a, b>> # <<h, p>> /\ i \in 1 .. Len(wire[a][b])
        <3>1. wire'[a][b][i] = wire[a][b][i]
            BY <1>8, <2>2
        <3>2. wire[a][b][i] = m /\ (a \in IrcServer => b \in IrcServer /\ topic[b].text = t.text)
            BY <2>2 DEF Spreading, m
        <3> QED BY <1>7, <3>1, <3>2
    <2>3. CASE <<a, b>> # <<h, p>> /\ b = h /\ a \in N /\ wire'[a][b][i] = m
        <3>1. h \in IrcServer
            BY <2>3 DEF N, IrcServer
        <3> QED BY <1>7, <2>3, <3>1
    <2> QED BY <1>8, <2>1, <2>2, <2>3
<1>12. ASSUME NEW a \in IrcServer, NEW b \in joined[a] \cap IrcServer, topic'[a].text # topic'[b].text
       PROVE  \/ topic'[b].text = t.text /\ Owed(a, b, m)'
              \/ topic'[a].text = t.text /\ Owed(b, a, m)'
    <2>1. a \in Host /\ b \in Host /\ a \in joined[b]
        BY DEF IrcServer, Spreading, Both_ways
    <2>2. CASE a = h \/ b = h
        <3> DEFINE x == IF a = h THEN b ELSE a
        <3>1. x \in joined[h] \cap IrcServer /\ h \in IrcServer /\ x # h
            BY <1>12, <2>1, <2>2
        <3>2. topic'[h].text = t.text /\ topic'[x].text = topic[x].text /\ topic[x].text # t.text
            BY <1>7, <1>12, <2>1, <2>2, <3>1
        <3>3. x # p
            BY <1>7, <3>1, <3>2
        <3>4. CASE topic[h].text # t.text
            <4>1. x \in N
                BY <3>1, <3>3, <3>4 DEF N, IrcServer
            <4>2. Owed(x, h, m)'
                BY <1>8, <1>9, <2>1, <4>1 DEF Owed
            <4> QED BY <2>2, <3>2, <4>2
        <3>5. CASE topic[h].text = t.text
            <4>1. Owed(x, h, m)
                <5>1. h \in IrcServer /\ x \in joined[h] \cap IrcServer /\ ~Texts_agree(h, x)
                    BY <3>1, <3>2, <3>5 DEF Texts_agree
                <5> QED BY <3>2, <5>1 DEF Spreading, m
            <4>2. Owed(x, h, m)'
                <5>1. PICK i \in 1 .. Len(wire[x][h]) : wire[x][h][i] = m
                    BY <4>1 DEF Owed
                <5>2. <<x, h>> # <<h, p>> /\ x \in Host
                    BY <3>1, <2>1
                <5> HIDE DEF x
                <5>3. i \in 1 .. Len(wire'[x][h]) /\ wire'[x][h][i] = m
                    BY <1>8, <5>1, <5>2
                <5> QED BY <5>3 DEF Owed
            <4> QED BY <2>2, <3>2, <4>2
        <3> QED BY <3>4, <3>5
    <2>3. CASE a # h /\ b # h
        <3>1. ~Texts_agree(a, b) /\ topic'[a].text = topic[a].text /\ topic'[b].text = topic[b].text
            BY <1>7, <1>12, <2>1, <2>3 DEF Texts_agree
        <3>2. \/ topic[b].text = t.text /\ Owed(a, b, m)
              \/ topic[a].text = t.text /\ Owed(b, a, m)
            BY <3>1 DEF Spreading, m
        <3>3. \A x, y \in Host : x # h /\ Owed(x, y, m) => Owed(x, y, m)'
            BY <1>8 DEF Owed
        <3> QED BY <2>1, <2>3, <3>1, <3>2, <3>3
    <2> QED BY <2>2, <2>3
<1> QED BY <1>1, <1>10, <1>11, <1>12 DEF Spreading, Texts_agree, m

-----------------------------------------------------------------------------
LEMMA Tree_sides == \A h \in Host : \A p \in Joint[h] : \A x \in Behind_[h][p] : x \notin Behind_[p][h]
BY TopicTree

(* The wires W when h has sent lines to N.                                  *)
Grown(W, V, h, N, lines) ==
    /\ V \in Wires
    /\ \A x, y \in Host :
          \/ V[x][y] = W[x][y]
          \/ y = h /\ x \in N /\ ~Shut(W[h][x])
    /\ \A x, y \in Host : \A i \in 1 .. Len(W[x][y]) : i \in 1 .. Len(V[x][y]) /\ V[x][y][i] = W[x][y][i]
    /\ \A x, y \in Host : \A i \in 1 .. Len(V[x][y]) :
          \/ i \in 1 .. Len(W[x][y]) /\ V[x][y][i] = W[x][y][i]
          \/ /\ y = h /\ x \in N /\ i - Len(W[x][y]) \in 1 .. Len(lines)
             /\ V[x][y][i] = lines[i - Len(W[x][y])]
    /\ \A x \in N : ~Shut(W[h][x]) => \A j \in 1 .. Len(lines) :
          Len(W[x][h]) + j \in 1 .. Len(V[x][h]) /\ V[x][h][Len(W[x][h]) + j] = lines[j]

LEMMA Sends_grow ==
    ASSUME NEW W \in Wires, NEW h \in Host, NEW N \in SUBSET Host, NEW lines \in Seq(Wire_lines)
    PROVE  Grown(W, Sends(W, h, N, lines), h, N, lines)
<1> DEFINE V == Sends(W, h, N, lines)
<1>1. \A x, y \in Host : V[x][y] = IF y = h /\ x \in N /\ ~Shut(W[h][x])
                                   THEN W[x][y] \o lines ELSE W[x][y]
    BY DEF Sends
<1>2. \A x, y \in Host : W[x][y] \in Seq(Wire_lines)
    BY DEF Wires
<1>3. \A w \in Seq(Wire_lines) :
         /\ w \o lines \in Seq(Wire_lines) /\ Len(w) \in Nat
         /\ \A i \in 1 .. Len(w) : i \in 1 .. Len(w \o lines) /\ (w \o lines)[i] = w[i]
         /\ \A i \in 1 .. Len(w \o lines) :
               \/ i \in 1 .. Len(w) /\ (w \o lines)[i] = w[i]
               \/ i - Len(w) \in 1 .. Len(lines) /\ (w \o lines)[i] = lines[i - Len(w)]
         /\ \A j \in 1 .. Len(lines) : Len(w) + j \in 1 .. Len(w \o lines)
    OBVIOUS
<1>4. ASSUME NEW w \in Seq(Wire_lines), NEW j \in 1 .. Len(lines)
      PROVE  (w \o lines)[Len(w) + j] = lines[j]
    OBVIOUS
<1>5. V \in Wires
    <2>1. \A x, y \in Host : V[x][y] \in Seq(Wire_lines)
        BY <1>1, <1>2, <1>3
    <2> QED BY <2>1 DEF Wires, Sends
<1> HIDE DEF V
<1>6. ASSUME NEW x \in Host, NEW y \in Host
      PROVE  /\ V[x][y] = W[x][y] \/ (y = h /\ x \in N /\ ~Shut(W[h][x]))
             /\ \A i \in 1 .. Len(W[x][y]) : i \in 1 .. Len(V[x][y]) /\ V[x][y][i] = W[x][y][i]
             /\ \A i \in 1 .. Len(V[x][y]) :
                   \/ i \in 1 .. Len(W[x][y]) /\ V[x][y][i] = W[x][y][i]
                   \/ /\ y = h /\ x \in N /\ i - Len(W[x][y]) \in 1 .. Len(lines)
                      /\ V[x][y][i] = lines[i - Len(W[x][y])]
    <2>1. CASE y = h /\ x \in N /\ ~Shut(W[h][x])
        <3>1. V[x][y] = W[x][y] \o lines /\ W[x][y] \in Seq(Wire_lines)
            BY <1>1, <1>2, <2>1
        <3> QED BY <1>3, <2>1, <3>1
    <2>2. CASE ~(y = h /\ x \in N /\ ~Shut(W[h][x]))
        <3>1. V[x][y] = W[x][y]
            BY <1>1, <2>2
        <3> QED BY <3>1
    <2> QED BY <2>1, <2>2
<1>7. ASSUME NEW x \in N, ~Shut(W[h][x]), NEW j \in 1 .. Len(lines)
      PROVE  Len(W[x][h]) + j \in 1 .. Len(V[x][h]) /\ V[x][h][Len(W[x][h]) + j] = lines[j]
    <2>1. V[x][h] = W[x][h] \o lines /\ W[x][h] \in Seq(Wire_lines)
        BY <1>1, <1>2, <1>7
    <2> QED BY <1>3, <1>4, <2>1
<1> QED BY <1>5, <1>6, <1>7 DEF Grown, V

(* What the burst of h is made of.                                          *)
Burst_lines(h, w) ==
    /\ w \in Seq(Wire_lines)
    /\ \A i \in 1 .. Len(w) :
          \/ \E x \in seen[h] : w[i] = Server_line(x)
          \/ /\ w[i] = Topic_line(topic[h], TRUE) /\ topic[h].time # 0 /\ h # ServicesServer
             /\ \A x \in seen[h] : \E j \in 1 .. i - 1 : w[j] = Server_line(x)
    /\ topic[h].time # 0 /\ h # ServicesServer => \E i \in 1 .. Len(w) : w[i] = Topic_line(topic[h], TRUE)

LEMMA Burst_says ==
    ASSUME OInv, NEW h \in Host
    PROVE  Burst_lines(h, Burst_to(h))
<1> DEFINE E == seen[h]
           s == In_order(E)
           B == [i \in 1 .. Cardinality(E) |-> Server_line(s[i])]
           t == Topic_line(topic[h], TRUE)
           T == IF topic[h].time # 0 /\ h # ServicesServer THEN <<t>> ELSE << >>
<1>1. E \subseteq Host
    BY DEF OInv, OTypes, Links
<1>2. /\ Cardinality(E) \in Nat /\ s \in [1 .. Cardinality(E) -> E]
      /\ \A x \in E : \E i \in 1 .. Cardinality(E) : s[i] = x
    <2>1. IsFiniteSet(E)
        BY <1>1, Tree_facts, FS_Subset
    <2>2. Cardinality(E) \in Nat /\ ExistsBijection(1 .. Cardinality(E), E)
        BY <2>1, FS_CardinalityType
    <2>3. \E f \in [1 .. Cardinality(E) -> E] : \A x \in E : \E i \in DOMAIN f : f[i] = x
        BY <2>2 DEF ExistsBijection, Bijection, Surjection
    <2>4. s \in [1 .. Cardinality(E) -> E] /\ \A x \in E : \E i \in DOMAIN s : s[i] = x
        BY <2>3 DEF In_order
    <2> QED BY <2>2, <2>4
<1> HIDE DEF s, E
<1>3. /\ B \in Seq(Wire_lines) /\ Len(B) = Cardinality(E)
      /\ \A i \in 1 .. Cardinality(E) : B[i] = Server_line(s[i]) /\ s[i] \in E
    <2>1. \A i \in 1 .. Cardinality(E) : Server_line(s[i]) \in Wire_lines
        BY <1>1, <1>2 DEF Server_line, Wire_lines
    <2> QED BY <1>2, <2>1
<1>4. \A x \in E : \E i \in 1 .. Len(B) : B[i] = Server_line(x)
    BY <1>2, <1>3
<1>5. t \in Wire_lines
    BY Topic_line_facts DEF OInv, OTypes
<1> HIDE DEF B, t
<1>6. Burst_to(h) = IF topic[h].time # 0 /\ h # ServicesServer THEN Append(B, t) ELSE B
    <2>1. Burst_to(h) = B \o T
        BY DEF Burst_to, B, T, s, E, t
    <2>2. B \o <<t>> = Append(B, t) /\ B \o << >> = B
        BY <1>3, <1>5
    <2> QED BY <2>1, <2>2
<1>7. CASE ~(topic[h].time # 0 /\ h # ServicesServer)
    <2>1. Burst_to(h) = B
        BY <1>6, <1>7
    <2> QED BY <1>3, <1>7, <2>1 DEF Burst_lines, E
<1>8. CASE topic[h].time # 0 /\ h # ServicesServer
    <2> DEFINE w == Append(B, t)
    <2>1. /\ Burst_to(h) = w /\ w \in Seq(Wire_lines) /\ Len(w) = Len(B) + 1 /\ Len(B) \in Nat
          /\ w[Len(B) + 1] = t
          /\ \A i \in 1 .. Len(B) : i \in 1 .. Len(w) /\ w[i] = B[i]
          /\ \A i \in 1 .. Len(w) : i \in 1 .. Len(B) \/ i = Len(B) + 1
        BY <1>3, <1>5, <1>6, <1>8
    <2> HIDE DEF w
    <2>2. ASSUME NEW x \in E PROVE \E j \in 1 .. (Len(B) + 1) - 1 : w[j] = Server_line(x)
        BY <1>4, <2>1
    <2>3. \A i \in 1 .. Len(B) : \E x \in E : w[i] = Server_line(x)
        BY <1>3, <2>1
    <2>4. \A i \in 1 .. Len(w) :
             \/ \E x \in E : w[i] = Server_line(x)
             \/ w[i] = t /\ \A x \in E : \E j \in 1 .. i - 1 : w[j] = Server_line(x)
        BY <2>1, <2>2, <2>3
    <2>5. \E i \in 1 .. Len(w) : w[i] = t
        BY <2>1
    <2> QED BY <1>8, <2>1, <2>4, <2>5 DEF Burst_lines, E, t
<1> QED BY <1>7, <1>8

-----------------------------------------------------------------------------
(* Calm: what is on its way is not about topics.                            *)
LEMMA Rest_facts ==
    ASSUME OInv, NEW h \in Host, NEW p \in Joint[h], wire[h][p] # << >>
    PROVE  /\ Rest_of(h, p) \in Wires /\ p \in Host /\ p # h /\ h \in Joint[p]
           /\ \A x, y \in Host : <<x, y>> # <<h, p>> => Rest_of(h, p)[x][y] = wire[x][y]
           /\ \A i \in 1 .. Len(Rest_of(h, p)[h][p]) :
                 i + 1 \in 2 .. Len(wire[h][p]) /\ Rest_of(h, p)[h][p][i] = wire[h][p][i + 1]
           /\ wire[h][p][1] = Head(wire[h][p]) /\ 1 \in 1 .. Len(wire[h][p])
           /\ wire[h][p][1] \in Wire_lines /\ wire[h][p] \in Seq(Wire_lines)
<1>1. p \in Host /\ p # h /\ h \in Joint[p]
    BY Tree_facts
<1>2. wire \in Wires /\ wire \in [Host -> [Host -> Seq(Wire_lines)]] /\ wire[h][p] \in Seq(Wire_lines)
    BY <1>1 DEF OInv, OTypes, Wires
<1>3. \A w \in Seq(Wire_lines) : w # << >> =>
         /\ Tail(w) \in Seq(Wire_lines) /\ w[1] = Head(w) /\ 1 \in 1 .. Len(w) /\ w[1] \in Wire_lines
         /\ \A i \in 1 .. Len(Tail(w)) : i + 1 \in 2 .. Len(w) /\ Tail(w)[i] = w[i + 1]
    OBVIOUS
<1>4. /\ Rest_of(h, p)[h][p] = Tail(wire[h][p])
      /\ \A x, y \in Host : <<x, y>> # <<h, p>> => Rest_of(h, p)[x][y] = wire[x][y]
    BY <1>1, <1>2 DEF Rest_of
<1>5. Rest_of(h, p) \in Wires
    BY <1>1, <1>2, <1>3 DEF Rest_of, Wires
<1> QED BY <1>1, <1>2, <1>3, <1>4, <1>5

LEMMA Both_up ==
    ASSUME OInv, Calm, NEW h \in IrcServer, NEW n \in joined[h] \cap IrcServer, ~Shut(wire[h][n])
    PROVE  h \in joined[n]
<1>1. h \in Host /\ n \in Host /\ n \in Joint[h]
    BY DEF IrcServer, OInv, OSighted, Sighted
<1>2. h \in Joint[n]
    BY <1>1, Tree_facts
<1>3. Wired(n, h, wire[n][h], wire[h][n], joined[n], joined[h])
    BY <1>1, <1>2 DEF OInv, AllWired
<1>4. h \notin joined[n] => wire[n][h] # << >>
    BY <1>3 DEF Wired
<1> QED BY <1>4 DEF Calm

LEMMA Calm_after ==
    ASSUME OInv, Calm, topic' = topic, NEW h \in Host,
           \A a, b \in IrcServer : b \in joined'[a] => b \in joined[a],
           \A a \in IrcServer : \A b \in Host : \A i \in 1 .. Len(wire'[a][b]) :
              \/ \E j \in 1 .. Len(wire[a][b]) : wire'[a][b][i] = wire[a][b][j]
              \/ wire'[a][b][i].cmd # "TOPIC",
           \A a, b \in IrcServer : wire'[a][b] # << >> =>
              \/ b \in joined'[a]
              \/ wire[a][b] # << >> /\ (b \in joined[a] => b \in joined'[a])
              \/ b = h /\ a \in joined[h] /\ ~Shut(wire[h][a]) /\ joined'[a] = joined[a]
    PROVE  Calm'
<1>1. ASSUME NEW a \in IrcServer, NEW b \in joined'[a] \cap IrcServer PROVE Texts_agree(a, b)'
    BY DEF Calm, Texts_agree
<1>2. ASSUME NEW a \in IrcServer, NEW b \in Host, NEW i \in 1 .. Len(wire'[a][b])
      PROVE  wire'[a][b][i].cmd # "TOPIC"
    BY DEF Calm
<1>3. ASSUME NEW a \in IrcServer, NEW b \in IrcServer, wire'[a][b] # << >> PROVE b \in joined'[a]
    <2>1. CASE wire[a][b] # << >> /\ (b \in joined[a] => b \in joined'[a])
        BY <2>1 DEF Calm
    <2>2. CASE b = h /\ a \in joined[h] /\ ~Shut(wire[h][a]) /\ joined'[a] = joined[a]
        BY <2>2, Both_up
    <2> QED BY <1>3, <2>1, <2>2
<1> QED BY <1>1, <1>2, <1>3 DEF Calm

LEMMA Calm_link ==
    ASSUME OInv, Calm, NEW h \in Host, NEW p \in Joint[h], Hear_link(h, p)
    PROVE  Calm'
<1> DEFINE R == Rest_of(h, p)
           m == Server_line(p)
           W == Sends(R, h, joined[h], <<m>>)
           lines == << >> \o Burst_to(h)
           V == Sends(W, h, {p}, lines)
<1>1. /\ wire[h][p] # << >> /\ Head(wire[h][p]).cmd = "SERVER" /\ Head(wire[h][p]).name = p
      /\ Head(wire[h][p]) # Closed
      /\ joined' = [joined EXCEPT ![h] = @ \cup {p}]
      /\ wire' = V /\ topic' = topic
    BY DEF Hear_link, Joins, Next_line, Closed
<1>2. /\ p \notin joined[h] /\ R \in Wires /\ joined \in Links /\ joined[h] \subseteq Host
      /\ p \in Host /\ p # h /\ h \notin joined[h]
    BY <1>1, Read_wired, Tree_facts DEF OInv, OTypes, OSighted, Sighted, Links
<1>3. h = ServicesServer \/ p = ServicesServer
    BY <1>1, <1>2 DEF Calm, IrcServer
<1>4. m \in Wire_lines /\ m.cmd = "SERVER" /\ <<m>> \in Seq(Wire_lines) /\ Len(<<m>>) = 1 /\ <<m>>[1] = m
    BY <1>2, Server_line_facts
<1>5. /\ \A x, y \in Host : <<x, y>> # <<h, p>> => R[x][y] = wire[x][y]
      /\ \A i \in 1 .. Len(R[h][p]) : \E j \in 1 .. Len(wire[h][p]) : R[h][p][i] = wire[h][p][j]
    <2>1. \A i : i + 1 \in 2 .. Len(wire[h][p]) => i + 1 \in 1 .. Len(wire[h][p])
        OBVIOUS
    <2> QED BY <1>1, <2>1, Rest_facts
<1> HIDE DEF R, m
<1>6. Grown(R, W, h, joined[h], <<m>>)
    BY <1>2, <1>4, Sends_grow
<1> HIDE DEF W
<1>7. lines = Burst_to(h) /\ Burst_lines(h, Burst_to(h)) /\ lines \in Seq(Wire_lines)
    <2>1. Burst_lines(h, Burst_to(h))
        BY Burst_says
    <2>2. Burst_to(h) \in Seq(Wire_lines)
        BY <2>1 DEF Burst_lines
    <2>3. << >> \o Burst_to(h) = Burst_to(h)
        BY <2>2
    <2> QED BY <2>1, <2>2, <2>3
<1> HIDE DEF lines
<1>8. Grown(W, V, h, {p}, lines)
    <2>1. W \in Wires
        BY <1>6 DEF Grown
    <2> QED BY <1>2, <1>7, <2>1, Sends_grow
<1> HIDE DEF V
<1>9. h = ServicesServer => \A i \in 1 .. Len(lines) : lines[i].cmd # "TOPIC"
    <2>1. seen[h] \subseteq Host
        BY DEF OInv, OTypes, Links
    <2> QED BY <1>7, <2>1, Server_line_facts DEF Burst_lines
<1>10. ASSUME NEW a \in IrcServer, NEW b \in Host, NEW i \in 1 .. Len(V[a][b])
       PROVE  (\E j \in 1 .. Len(wire[a][b]) : V[a][b][i] = wire[a][b][j]) \/ V[a][b][i].cmd # "TOPIC"
    <2>1. a \in Host
        BY DEF IrcServer
    <2>2. \/ i \in 1 .. Len(W[a][b]) /\ V[a][b][i] = W[a][b][i]
          \/ /\ b = h /\ a = p /\ i - Len(W[a][b]) \in 1 .. Len(lines)
             /\ V[a][b][i] = lines[i - Len(W[a][b])]
        BY <1>8, <2>1 DEF Grown
    <2>3. CASE a = p /\ b = h /\ i - Len(W[a][b]) \in 1 .. Len(lines) /\ V[a][b][i] = lines[i - Len(W[a][b])]
        BY <1>3, <1>9, <2>3 DEF IrcServer
    <2>4. CASE i \in 1 .. Len(W[a][b]) /\ V[a][b][i] = W[a][b][i]
        <3>1. \/ i \in 1 .. Len(R[a][b]) /\ W[a][b][i] = R[a][b][i]
              \/ i - Len(R[a][b]) \in 1 .. 1 /\ W[a][b][i] = <<m>>[i - Len(R[a][b])]
            BY <1>4, <1>6, <2>1, <2>4 DEF Grown
        <3>2. CASE i \in 1 .. Len(R[a][b]) /\ W[a][b][i] = R[a][b][i]
            BY <1>5, <2>1, <2>4, <3>2
        <3>3. CASE i - Len(R[a][b]) \in 1 .. 1 /\ W[a][b][i] = <<m>>[i - Len(R[a][b])]
            <4>1. i - Len(R[a][b]) = 1
                BY <3>3
            <4> QED BY <1>4, <2>4, <3>3, <4>1
        <3> QED BY <3>1, <3>2, <3>3
    <2> QED BY <2>2, <2>3, <2>4
<1>11. ASSUME NEW a \in IrcServer, NEW b \in IrcServer, V[a][b] # << >>
       PROVE  \/ wire[a][b] # << >> /\ (b \in joined[a] => b \in joined'[a])
              \/ b = h /\ a \in joined[h] /\ ~Shut(wire[h][a]) /\ joined'[a] = joined[a]
    <2>1. a \in Host /\ b \in Host /\ ~(a = h /\ b = p) /\ ~(a = p /\ b = h)
        BY <1>3 DEF IrcServer
    <2>2. V[a][b] = W[a][b]
        BY <1>8, <2>1 DEF Grown
    <2>3. b \in joined[a] => b \in joined'[a]
        BY <1>1, <1>2, <2>1 DEF Links
    <2>4. CASE W[a][b] = R[a][b]
        BY <1>5, <1>11, <2>1, <2>2, <2>3, <2>4
    <2>5. CASE b = h /\ a \in joined[h] /\ ~Shut(R[h][a])
        BY <1>1, <1>2, <1>5, <2>1, <2>5 DEF Links
    <2> QED BY <1>6, <2>1, <2>4, <2>5 DEF Grown
<1>12. \A a, b \in IrcServer : b \in joined'[a] => b \in joined[a]
    BY <1>1, <1>2, <1>3 DEF IrcServer, Links
<1> QED BY <1>1, <1>10, <1>11, <1>12, Calm_after

(* Lines about servers.                                                     *)
LEMMA Calm_sent ==
    ASSUME OInv, Calm, topic' = topic, NEW h \in Host, NEW p \in joined[h], p \in Joint[h], NEW W \in Wires,
           \A x, y \in Host : <<x, y>> # <<h, p>> => \A i \in 1 .. Len(W[x][y]) :
              \/ \E j \in 1 .. Len(wire[x][y]) : W[x][y][i] = wire[x][y][j]
              \/ W[x][y][i].cmd # "TOPIC",
           \A x, y \in Host : <<x, y>> # <<h, p>> /\ W[x][y] # << >> =>
              wire[x][y] # << >> \/ y \in joined'[x],
           \A x \in Host : x # p => W[h][x] = wire[h][x],
           \A i \in 1 .. Len(W[h][p]) : \E j \in 1 .. Len(wire[h][p]) : W[h][p][i] = wire[h][p][j],
           \A a \in Host \ {h} : joined'[a] = joined[a],
           \/ joined'[h] = joined[h] /\ (W[h][p] # << >> => wire[h][p] # << >>)
           \/ joined'[h] = joined[h] \ {p} /\ W[h][p] = << >>,
           NEW m \in Wire_lines, m.cmd # "TOPIC", wire' = Sends(W, h, joined[h] \ {p}, <<m>>)
    PROVE  Calm'
<1>1. /\ joined[h] \subseteq Host /\ h \notin joined[h] /\ p \in Host /\ p # h
      /\ joined[h] \ {p} \in SUBSET Host
    BY Tree_facts DEF OInv, OTypes, OSighted, Sighted, Links
<1>2. <<m>> \in Seq(Wire_lines) /\ Len(<<m>>) = 1 /\ <<m>>[1] = m
    OBVIOUS
<1> DEFINE V == wire'
<1>3. Grown(W, V, h, joined[h] \ {p}, <<m>>)
    BY <1>1, <1>2, Sends_grow
<1> HIDE DEF V
<1>4. ASSUME NEW a \in IrcServer, NEW b \in Host, NEW i \in 1 .. Len(V[a][b])
      PROVE  (\E j \in 1 .. Len(wire[a][b]) : V[a][b][i] = wire[a][b][j]) \/ V[a][b][i].cmd # "TOPIC"
    <2>1. a \in Host
        BY DEF IrcServer
    <2>2. \/ i \in 1 .. Len(W[a][b]) /\ V[a][b][i] = W[a][b][i]
          \/ i - Len(W[a][b]) \in 1 .. 1 /\ V[a][b][i] = <<m>>[i - Len(W[a][b])]
        BY <1>2, <1>3, <2>1 DEF Grown
    <2>3. CASE i \in 1 .. Len(W[a][b]) /\ V[a][b][i] = W[a][b][i]
        BY <2>1, <2>3
    <2>4. CASE i - Len(W[a][b]) \in 1 .. 1 /\ V[a][b][i] = <<m>>[i - Len(W[a][b])]
        <3>1. i - Len(W[a][b]) = 1
            BY <2>4
        <3> QED BY <1>2, <2>4, <3>1
    <2> QED BY <2>2, <2>3, <2>4
<1>5. ASSUME NEW a \in IrcServer, NEW b \in IrcServer, V[a][b] # << >>
      PROVE  \/ b \in joined'[a]
             \/ wire[a][b] # << >> /\ (b \in joined[a] => b \in joined'[a])
             \/ b = h /\ a \in joined[h] /\ ~Shut(wire[h][a]) /\ joined'[a] = joined[a]
    <2>1. a \in Host /\ b \in Host
        BY DEF IrcServer
    <2>2. CASE V[a][b] = W[a][b]
        BY <1>1, <1>5, <2>1, <2>2
    <2>3. CASE b = h /\ a \in joined[h] \ {p} /\ ~Shut(W[h][a])
        <3>1. a # h
            BY <1>1, <2>3
        <3> QED BY <2>1, <2>3, <3>1
    <2> QED BY <1>3, <2>1, <2>2, <2>3 DEF Grown
<1>6. \A a, b \in IrcServer : b \in joined'[a] => b \in joined[a]
    BY <1>1 DEF IrcServer
<1> QED BY <1>4, <1>5, <1>6, Calm_after DEF V

LEMMA Rest_calm ==
    ASSUME OInv, NEW h \in Host, NEW p \in Joint[h], wire[h][p] # << >>
    PROVE  /\ Rest_of(h, p) \in Wires
           /\ \A x, y \in Host : <<x, y>> # <<h, p>> => Rest_of(h, p)[x][y] = wire[x][y]
           /\ \A x \in Host : x # p => Rest_of(h, p)[h][x] = wire[h][x]
           /\ \A i \in 1 .. Len(Rest_of(h, p)[h][p]) : \E j \in 1 .. Len(wire[h][p]) :
                 Rest_of(h, p)[h][p][i] = wire[h][p][j]
<1>1. \A i : i + 1 \in 2 .. Len(wire[h][p]) => i + 1 \in 1 .. Len(wire[h][p])
    OBVIOUS
<1> QED BY <1>1, Rest_facts

LEMMA Calm_read ==
    ASSUME OInv, Calm, topic' = topic, NEW h \in Host, NEW p \in Joint[h], wire[h][p] # << >>,
           wire' = Rest_of(h, p), joined' = joined
    PROVE  Calm'
<1> DEFINE R == Rest_of(h, p)
<1>1. /\ p \in Host
      /\ \A x, y \in Host : <<x, y>> # <<h, p>> => R[x][y] = wire[x][y]
      /\ \A i \in 1 .. Len(R[h][p]) : \E j \in 1 .. Len(wire[h][p]) : R[h][p][i] = wire[h][p][j]
    BY Rest_calm, Tree_facts
<1> HIDE DEF R
<1>2. \A a \in IrcServer : \A b \in Host : \A i \in 1 .. Len(R[a][b]) :
              \/ \E j \in 1 .. Len(wire[a][b]) : R[a][b][i] = wire[a][b][j]
              \/ R[a][b][i].cmd # "TOPIC"
    BY <1>1 DEF IrcServer
<1>3. \A a, b \in IrcServer : R[a][b] # << >> => wire[a][b] # << >> /\ (b \in joined[a] => b \in joined'[a])
    BY <1>1 DEF IrcServer
<1>4. wire' = R
    BY DEF R
<1> QED BY <1>2, <1>3, <1>4, Calm_after

LEMMA Calm_server ==
    ASSUME OInv, Calm, NEW h \in Host, NEW p \in Joint[h], Hear_server(h, p)
    PROVE  Calm'
<1> DEFINE R == Rest_of(h, p)
           x == Head(wire[h][p]).name
<1>1. /\ wire[h][p] # << >> /\ Head(wire[h][p]).cmd = "SERVER" /\ x # p
      /\ Head(wire[h][p]) # Closed /\ Head(wire[h][p]) # Server_line(p)
      /\ joined' = joined /\ topic' = topic
      /\ wire' = Sends(R, h, joined[h] \ {p}, <<Server_line(x)>>)
    BY DEF Hear_server, Next_line, Closed, Server_line
<1>2. p \in joined[h] /\ x \in Host
    <2>1. p \in joined[h] /\ x \in Behind_[h][p]
        BY <1>1, Read_wired
    <2> QED BY <2>1, Tree_facts
<1>3. Server_line(x) \in Wire_lines /\ Server_line(x).cmd # "TOPIC"
    BY <1>2, Server_line_facts
<1>4. /\ R \in Wires
      /\ \A a, b \in Host : <<a, b>> # <<h, p>> => R[a][b] = wire[a][b]
      /\ \A a \in Host : a # p => R[h][a] = wire[h][a]
      /\ \A i \in 1 .. Len(R[h][p]) : \E j \in 1 .. Len(wire[h][p]) : R[h][p][i] = wire[h][p][j]
    BY <1>1, Rest_calm
<1> HIDE DEF R, x
<1> QED BY <1>1, <1>2, <1>3, <1>4, Calm_sent

LEMMA Calm_squit ==
    ASSUME OInv, Calm, NEW h \in Host, NEW p \in Joint[h], Hear_squit(h, p)
    PROVE  Calm'
<1> DEFINE R == Rest_of(h, p)
           x == Head(wire[h][p]).name
<1>1. /\ wire[h][p] # << >> /\ Head(wire[h][p]).cmd = "SQUIT"
      /\ Head(wire[h][p]) # Closed /\ Head(wire[h][p]) # Server_line(p)
      /\ joined' = joined /\ topic' = topic
      /\ wire' = R \/ wire' = Sends(R, h, joined[h] \ {p}, <<Squit_line(x)>>)
    BY DEF Hear_squit, Gone_server, Next_line, Closed, Server_line
<1>2. p \in joined[h] /\ x \in Host
    <2>1. p \in joined[h] /\ x \in Behind_[h][p]
        BY <1>1, Read_wired
    <2> QED BY <2>1, Tree_facts
<1>3. Squit_line(x) \in Wire_lines /\ Squit_line(x).cmd # "TOPIC"
    BY <1>2 DEF Squit_line, Wire_lines
<1>4. /\ R \in Wires
      /\ \A a, b \in Host : <<a, b>> # <<h, p>> => R[a][b] = wire[a][b]
      /\ \A a \in Host : a # p => R[h][a] = wire[h][a]
      /\ \A i \in 1 .. Len(R[h][p]) : \E j \in 1 .. Len(wire[h][p]) : R[h][p][i] = wire[h][p][j]
    BY <1>1, Rest_calm
<1>5. CASE wire' = R
    BY <1>1, <1>5, Calm_read
<1> HIDE DEF R, x
<1>6. CASE wire' = Sends(R, h, joined[h] \ {p}, <<Squit_line(x)>>)
    BY <1>1, <1>2, <1>3, <1>4, <1>6, Calm_sent
<1> QED BY <1>1, <1>5, <1>6

LEMMA Calm_topic ==
    ASSUME OInv, Calm, NEW h \in Host, NEW p \in Joint[h], Hear_topic(h, p)
    PROVE  Calm'
<1>1. /\ wire[h][p] # << >> /\ wire[h][p][1].cmd = "TOPIC" /\ joined' = joined /\ p \in Host
      /\ topic' = IF Refused(h, p, wire[h][p][1]) THEN topic
                 ELSE [topic EXCEPT ![h] = Said_topic(wire[h][p][1])]
      /\ wire' = IF Refused(h, p, wire[h][p][1]) \/ Same_text(h, wire[h][p][1].text) THEN Rest_of(h, p)
                ELSE Sends(Rest_of(h, p), h, joined[h] \ {p}, <<wire[h][p][1]>>)
    BY Topic_heard
<1>2. 1 \in 1 .. Len(wire[h][p])
    BY <1>1, Rest_facts
<1>3. h = ServicesServer
    BY <1>1, <1>2 DEF Calm, IrcServer
<1>4. Refused(h, p, wire[h][p][1])
    BY <1>3 DEF Refused
<1> QED BY <1>1, <1>4, Calm_read

LEMMA Calm_close ==
    ASSUME OInv, Calm, NEW h \in Host, NEW p \in Joint[h], Hear_close(h, p)
    PROVE  Calm'
<1> DEFINE W == [wire EXCEPT ![h][p] = << >>]
<1>1. /\ wire[h][p] # << >> /\ Head(wire[h][p]).cmd = "EOF"
      /\ joined' = [joined EXCEPT ![h] = @ \ {p}] /\ topic' = topic
      /\ wire' = Sends(W, h, joined[h] \ {p}, <<Squit_line(p)>>)
    BY DEF Hear_close, Lose_link, Gone_server, Next_line
<1>2. /\ p \in Host /\ p # h /\ wire \in Wires /\ joined \in Links
      /\ wire \in [Host -> [Host -> Seq(Wire_lines)]]
    BY Tree_facts DEF OInv, OTypes, Wires
<1>3. p \in joined[h]
    <2>1. Wired(h, p, wire[h][p], wire[p][h], joined[h], joined[p])
        BY DEF OInv, AllWired
    <2>2. wire[h][p][1] = Head(wire[h][p])
        BY <1>1, Rest_facts
    <2>3. Server_line(p).cmd # "EOF"
        BY DEF Server_line
    <2> QED BY <1>1, <2>1, <2>2, <2>3 DEF Wired
<1>4. Squit_line(p) \in Wire_lines /\ Squit_line(p).cmd # "TOPIC"
    BY <1>2 DEF Squit_line, Wire_lines
<1>5. /\ W \in Wires /\ W[h][p] = << >> /\ Len(<< >>) = 0
      /\ \A x, y \in Host : <<x, y>> # <<h, p>> => W[x][y] = wire[x][y]
      /\ \A x \in Host : x # p => W[h][x] = wire[h][x]
    BY <1>2 DEF Wires
<1>6. joined'[h] = joined[h] \ {p} /\ \A a \in Host \ {h} : joined'[a] = joined[a]
    BY <1>1, <1>2 DEF Links
<1> HIDE DEF W
<1>7. \A i \in 1 .. Len(W[h][p]) : \E j \in 1 .. Len(wire[h][p]) : W[h][p][i] = wire[h][p][j]
    BY <1>5
<1>8. /\ \A x, y \in Host : <<x, y>> # <<h, p>> => \A i \in 1 .. Len(W[x][y]) :
            \/ \E j \in 1 .. Len(wire[x][y]) : W[x][y][i] = wire[x][y][j]
            \/ W[x][y][i].cmd # "TOPIC"
      /\ \A x, y \in Host : <<x, y>> # <<h, p>> /\ W[x][y] # << >> => wire[x][y] # << >>
    BY <1>5
<1> QED BY <1>1, <1>3, <1>4, <1>5, <1>6, <1>7, <1>8, Calm_sent

-----------------------------------------------------------------------------
(* What begins when nothing is on its way.                                  *)
LEMMA Quiet_calm ==
    ASSUME OInv, Quiet_wires, In_order_still
    PROVE  Calm /\ Both_ways(joined) /\ \A a, b \in Host : wire[a][b] = << >>
<1>1. /\ Both_ways(joined) /\ \A a, b \in Host : wire[a][b] = << >>
      /\ \A a \in IrcServer : \A b \in joined[a] \cap IrcServer : Texts_agree(a, b)
    BY Quiet_facts
<1>2. \A a \in IrcServer : a \in Host
    BY DEF IrcServer
<1> QED BY <1>1, <1>2 DEF Calm

LEMMA Lose_calms ==
    ASSUME OInv, Quiet_wires, In_order_still, NEW h \in Host, NEW p \in Joint[h], Lose(h, p)
    PROVE  Calm'
<1> DEFINE W == [wire EXCEPT ![h][p] = << >>, ![p][h] = IF Shut(wire[h][p]) THEN @ ELSE Append(@, Closed)]
<1>1. /\ p \in joined[h] /\ joined' = [joined EXCEPT ![h] = @ \ {p}] /\ topic' = topic
      /\ wire' = Sends(W, h, joined[h] \ {p}, <<Squit_line(p)>>)
    BY DEF Lose, Lose_link, Gone_server
<1>2. /\ p \in Host /\ p # h /\ wire \in Wires /\ joined \in Links
      /\ wire \in [Host -> [Host -> Seq(Wire_lines)]]
    BY Tree_facts DEF OInv, OTypes, Wires
<1>3. Calm /\ Both_ways(joined) /\ \A a, b \in Host : wire[a][b] = << >>
    BY Quiet_calm
<1>4. Squit_line(p) \in Wire_lines /\ Squit_line(p).cmd # "TOPIC"
    BY <1>2 DEF Squit_line, Wire_lines
<1>5. /\ ~Shut(<< >>) /\ Append(<< >>, Closed) = <<Closed>> /\ <<Closed>> \in Seq(Wire_lines)
      /\ Len(<<Closed>>) = 1 /\ <<Closed>>[1] = Closed /\ Closed.cmd # "TOPIC" /\ Len(<< >>) = 0
    BY DEF Shut, Closed, Wire_lines
<1>6. \A x, y \in Host : W[x][y] = IF x = p /\ y = h THEN <<Closed>> ELSE << >>
    BY <1>2, <1>3, <1>5
<1>7. W \in Wires
    <2>1. W = [x \in Host |-> W[x]] /\ \A x \in Host : W[x] = [y \in Host |-> W[x][y]]
        BY <1>2
    <2>2. \A x, y \in Host : W[x][y] \in Seq(Wire_lines)
        <3>1. << >> \in Seq(Wire_lines)
            OBVIOUS
        <3> QED BY <1>5, <1>6, <3>1
    <2> QED BY <2>1, <2>2 DEF Wires
<1> HIDE DEF W
<1>8. joined'[h] = joined[h] \ {p} /\ \A a \in Host \ {h} : joined'[a] = joined[a]
    BY <1>1, <1>2 DEF Links
<1>9. /\ \A x, y \in Host : <<x, y>> # <<h, p>> => \A i \in 1 .. Len(W[x][y]) : W[x][y][i].cmd # "TOPIC"
      /\ \A x, y \in Host : <<x, y>> # <<h, p>> /\ W[x][y] # << >> => y \in joined'[x]
      /\ \A x \in Host : x # p => W[h][x] = wire[h][x]
      /\ W[h][p] = << >>
    <2>1. h \in joined'[p]
        BY <1>1, <1>2, <1>3, <1>8 DEF Both_ways
    <2>2. \A i \in 1 .. 1 : i = 1
        OBVIOUS
    <2> QED BY <1>2, <1>3, <1>5, <1>6, <2>1, <2>2
<1>10. \A i \in 1 .. Len(W[h][p]) : \E j \in 1 .. Len(wire[h][p]) : W[h][p][i] = wire[h][p][j]
    BY <1>5, <1>9
<1> QED BY <1>1, <1>3, <1>4, <1>7, <1>8, <1>9, <1>10, Calm_sent

LEMMA Set_spreads ==
    ASSUME OInv, Quiet_wires, In_order_still, NEW h \in Host, NEW text \in Words, Set_topic(h, text), orderly'
    PROVE  \E t \in Topics : Spreading(t)'
<1>1. PICK now \in 1 .. MaxAge :
        IF Same_text(h, text) THEN orderly' = FALSE
        ELSE LET t == [text |-> text, time |-> now]
             IN  /\ topic' = [topic EXCEPT ![h] = t]
                 /\ wire' = Sends(wire, h, joined[h], <<Topic_line(t, FALSE)>>)
    BY DEF Set_topic
<1> DEFINE t == [text |-> text, time |-> now]
           m == Topic_line(t, FALSE)
           V == wire'
<1>2. topic' = [topic EXCEPT ![h] = t] /\ V = Sends(wire, h, joined[h], <<m>>)
    BY <1>1
<1>3. t \in Topics /\ t.text = text
    BY TopicAssumption DEF Topics
<1> HIDE DEF t
<1>4. m \in Wire_lines
    BY <1>3, Topic_line_facts
<1> HIDE DEF m
<1>5. /\ joined' = joined /\ h \in IrcServer /\ topic \in [Host -> Topics] /\ wire \in Wires
      /\ joined[h] \subseteq Host /\ h \notin joined[h]
    BY Tree_facts DEF Set_topic, OInv, OTypes, OSighted, Sighted, IrcServer
<1>6. /\ Both_ways(joined) /\ \A a, b \in Host : wire[a][b] = << >>
      /\ \A a \in IrcServer : \A b \in joined[a] \cap IrcServer : Texts_agree(a, b)
    BY Quiet_facts
<1>7. /\ <<m>> \in Seq(Wire_lines) /\ Len(<<m>>) = 1 /\ <<m>>[1] = m /\ Len(<< >>) = 0 /\ ~Shut(<< >>)
    BY <1>4 DEF Shut
<1>8. Grown(wire, V, h, joined[h], <<m>>)
    BY <1>2, <1>5, <1>7, Sends_grow
<1> HIDE DEF V
<1>9. /\ \A x, y \in Host : \A i \in 1 .. Len(V[x][y]) : V[x][y][i] = m /\ y = h
      /\ \A x \in joined[h] : \E i \in 1 .. Len(V[x][h]) : V[x][h][i] = m
    <2>1. ASSUME NEW x \in Host, NEW y \in Host, NEW i \in 1 .. Len(V[x][y]) PROVE V[x][y][i] = m /\ y = h
        <3>1. wire[x][y] = << >>
            BY <1>6
        <3>2. y = h /\ i - 0 \in 1 .. 1 /\ V[x][y][i] = <<m>>[i - 0]
            BY <1>7, <1>8, <3>1 DEF Grown
        <3>3. i - 0 = 1
            BY <3>2
        <3> QED BY <1>7, <3>2, <3>3
    <2>2. ASSUME NEW x \in joined[h] PROVE \E i \in 1 .. Len(V[x][h]) : V[x][h][i] = m
        <3>1. wire[x][h] = << >> /\ wire[h][x] = << >>
            BY <1>5, <1>6
        <3>2. 0 + 1 \in 1 .. Len(V[x][h]) /\ V[x][h][0 + 1] = m
            BY <1>7, <1>8, <3>1 DEF Grown
        <3> QED BY <3>2
    <2> QED BY <2>1, <2>2
<1>10. \A x \in Host : topic'[x].text = IF x = h THEN t.text ELSE topic[x].text
    BY <1>2, <1>5
<1>11. \A x, y \in Host : \A i \in 1 .. Len(V[x][y]) :
          /\ V[x][y][i] = Topic_line(t, FALSE)
          /\ x \in IrcServer => y \in IrcServer /\ topic'[y].text = t.text
    BY <1>5, <1>9, <1>10 DEF m
<1>12. ASSUME NEW a \in IrcServer, NEW b \in joined[a] \cap IrcServer, topic'[a].text # topic'[b].text
       PROVE  \/ topic'[b].text = t.text /\ \E i \in 1 .. Len(V[a][b]) : V[a][b][i] = m
              \/ topic'[a].text = t.text /\ \E i \in 1 .. Len(V[b][a]) : V[b][a][i] = m
    <2>1. a \in Host /\ b \in Host /\ a \in joined[b]
        BY <1>6 DEF IrcServer, Both_ways
    <2>2. topic[a].text = topic[b].text
        BY <1>6 DEF Texts_agree
    <2>3. a = h \/ b = h
        BY <1>10, <1>12, <2>1, <2>2
    <2> QED BY <1>9, <1>10, <2>1, <2>3
<1>13. Spreading(t)'
    BY <1>5, <1>6, <1>11, <1>12 DEF Spreading, Both_ways, Texts_agree, Owed, V, m
<1> QED BY <1>3, <1>13

(* What is on its way when h has dialled p.                                 *)
LEMMA Link_taken ==
    ASSUME OInv, Quiet_wires, In_order_still, NEW h \in Host, NEW p \in Joint[h], Take_link(h, p)
    PROVE  /\ p \in Host /\ p # h /\ p \notin joined[h] /\ h \notin joined[p]
           /\ joined' = [joined EXCEPT ![h] = @ \cup {p}] /\ seen' = [seen EXCEPT ![h] = @ \cup {p}]
           /\ topic' = topic /\ joined[h] \subseteq Host
           /\ \A x, y \in Host : <<x, y>> # <<p, h>> => \A i \in 1 .. Len(wire'[x][y]) :
                 wire'[x][y][i] = Server_line(p) /\ y = h /\ x \in joined[h]
           /\ wire'[p][h] = <<Server_line(h)>> \o Burst_to(h)
<1> DEFINE m == Server_line(p)
           W == Sends(wire, h, joined[h], <<m>>)
           lines == <<Server_line(h)>> \o Burst_to(h)
           V == wire'
<1>1. /\ p \notin joined[h] /\ h \notin joined[p] /\ p \in Host /\ p # h
      /\ joined' = [joined EXCEPT ![h] = @ \cup {p}] /\ seen' = [seen EXCEPT ![h] = @ \cup {p}]
      /\ V = Sends(W, h, {p}, lines) /\ topic' = topic
    BY Tree_facts DEF Take_link, Joins
<1>2. wire \in Wires /\ joined[h] \subseteq Host /\ \A a, b \in Host : wire[a][b] = << >>
    BY Quiet_facts DEF OInv, OTypes, Links
<1>3. m \in Wire_lines /\ <<m>> \in Seq(Wire_lines) /\ Len(<<m>>) = 1 /\ <<m>>[1] = m /\ ~Shut(<< >>) /\ Len(<< >>) = 0
    BY <1>1, Server_line_facts DEF Shut
<1>4. lines \in Seq(Wire_lines)
    <2>1. Burst_to(h) \in Seq(Wire_lines)
        BY Burst_says DEF Burst_lines
    <2>2. Server_line(h) \in Wire_lines
        BY Server_line_facts
    <2> QED BY <2>1, <2>2
<1> HIDE DEF m, lines
<1>5. Grown(wire, W, h, joined[h], <<m>>)
    BY <1>2, <1>3, Sends_grow
<1>6. W \in Wires /\ W[h][p] = << >> /\ W[p][h] = << >>
    BY <1>1, <1>2, <1>5 DEF Grown
<1>7. \A x, y \in Host : <<x, y>> # <<p, h>> => V[x][y] = W[x][y]
    <2> HIDE DEF W
    <2> QED BY <1>1 DEF Sends
<1>8. V[p][h] = lines
    <2> HIDE DEF W
    <2>1. V[p][h] = << >> \o lines
        BY <1>1, <1>3, <1>6 DEF Sends
    <2> QED BY <1>4, <2>1
<1> HIDE DEF W, V
<1>9. ASSUME NEW x \in Host, NEW y \in Host, <<x, y>> # <<p, h>>, NEW i \in 1 .. Len(V[x][y])
      PROVE  V[x][y][i] = m /\ y = h /\ x \in joined[h]
    <2>1. wire[x][y] = << >> /\ i \in 1 .. Len(W[x][y]) /\ V[x][y][i] = W[x][y][i]
        BY <1>2, <1>7, <1>9
    <2>2. y = h /\ x \in joined[h] /\ i - 0 \in 1 .. 1 /\ W[x][y][i] = <<m>>[i - 0]
        BY <1>3, <1>5, <2>1 DEF Grown
    <2>3. i - 0 = 1
        BY <2>2
    <2> QED BY <1>3, <2>1, <2>2, <2>3
<1> QED BY <1>1, <1>2, <1>8, <1>9 DEF m, lines, V

LEMMA Burst_warns ==
    ASSUME OInv, NEW h \in IrcServer, NEW B, Burst_lines(h, B)
    PROVE  Burst_of(h, B) /\ Burst_of(h, <<Server_line(h)>> \o B)
<1> DEFINE f == Server_line(h)
           w == <<f>> \o B
           t == Topic_line(topic[h], TRUE)
<1>1. h \in Host /\ h # ServicesServer /\ seen[h] \subseteq Host
    BY DEF IrcServer, OInv, OTypes, OSighted, Sighted, Links
<1>2. /\ f \in Wire_lines /\ f.cmd = "SERVER" /\ f # About_services
      /\ \A x \in Host : Server_line(x).cmd = "SERVER" /\ (Server_line(x) = About_services <=> x = ServicesServer)
      /\ t # About_services
    <2>1. t # About_services
        BY <1>1, Topic_line_facts DEF OInv, OTypes
    <2> QED BY <1>1, <2>1, Server_line_facts
<1>3. /\ B \in Seq(Wire_lines)
      /\ \A i \in 1 .. Len(B) :
            \/ \E x \in seen[h] : B[i] = Server_line(x)
            \/ /\ B[i] = t /\ topic[h].time # 0
               /\ \A x \in seen[h] : \E j \in 1 .. i - 1 : B[j] = Server_line(x)
      /\ topic[h].time # 0 => \E i \in 1 .. Len(B) : B[i] = t
    BY <1>1 DEF Burst_lines
<1> HIDE DEF f, t
<1>4. /\ w \in Seq(Wire_lines) /\ Len(w) = Len(B) + 1 /\ Len(B) \in Nat /\ w[1] = f
      /\ \A i \in 1 .. Len(B) : w[i + 1] = B[i]
    BY <1>2, <1>3
<1>5. ASSUME NEW i \in 1 .. Len(w), i # 1 PROVE i - 1 \in 1 .. Len(B) /\ w[i] = B[i - 1]
    <2>1. i - 1 \in 1 .. Len(B) /\ (i - 1) + 1 = i
        BY <1>4, <1>5
    <2> QED BY <1>4, <2>1
<1> HIDE DEF w
<1>6. Burst_of(h, B)
    <2>1. \A i \in 1 .. Len(B) :
             B[i].cmd = "SERVER" \/ (B[i] = t /\ topic[h].time # 0 /\ (ServicesServer \in seen[h] => Warned(B, i)))
        BY <1>1, <1>2, <1>3 DEF Warned, About_services
    <2>2. ServicesServer \notin seen[h] => \A i \in 1 .. Len(B) : B[i] # About_services
        BY <1>1, <1>2, <1>3
    <2> QED BY <1>3, <2>1, <2>2 DEF Burst_of, t
<1>7. Burst_of(h, w)
    <2>1. ASSUME NEW i \in 1 .. Len(w)
          PROVE  w[i].cmd = "SERVER" \/ (w[i] = t /\ topic[h].time # 0 /\ (ServicesServer \in seen[h] => Warned(w, i)))
        <3>1. CASE i = 1
            BY <1>2, <1>4, <3>1
        <3>2. CASE i # 1
            <4>1. i - 1 \in 1 .. Len(B) /\ w[i] = B[i - 1]
                BY <1>5, <3>2
            <4>2. \/ B[i - 1].cmd = "SERVER"
                  \/ /\ B[i - 1] = t /\ topic[h].time # 0
                     /\ ServicesServer \in seen[h] => Warned(B, i - 1)
                BY <1>6, <4>1 DEF Burst_of, t
            <4>3. ASSUME Warned(B, i - 1) PROVE Warned(w, i)
                <5>1. PICK j \in 1 .. (i - 1) - 1 : B[j] = About_services
                    BY <4>3 DEF Warned
                <5>2. j \in 1 .. Len(B) /\ j + 1 \in 1 .. i - 1
                    BY <1>4, <4>1, <5>1
                <5> QED BY <1>4, <5>1, <5>2 DEF Warned
            <4> QED BY <4>1, <4>2, <4>3
        <3> QED BY <3>1, <3>2
    <2>2. ASSUME ServicesServer \notin seen[h], NEW i \in 1 .. Len(w) PROVE w[i] # About_services
        BY <1>2, <1>4, <1>5, <1>6, <2>2 DEF Burst_of
    <2>3. ASSUME topic[h].time # 0 PROVE \E i \in 1 .. Len(w) : w[i] = t
        <3>1. PICK i \in 1 .. Len(B) : B[i] = t
            BY <1>3, <2>3
        <3>2. i + 1 \in 1 .. Len(w) /\ w[i + 1] = t
            BY <1>4, <3>1
        <3> QED BY <3>2
    <2> QED BY <2>1, <2>2, <2>3 DEF Burst_of, t
<1> QED BY <1>6, <1>7 DEF w, f

LEMMA Take_calms ==
    ASSUME OInv, Quiet_wires, In_order_still, NEW h \in Host, NEW p \in Joint[h], Take_link(h, p),
           ServicesServer \in {h, p}
    PROVE  Calm'
<1>1. /\ p \in Host /\ p # h /\ p \notin joined[h] /\ h \notin joined[p]
      /\ joined' = [joined EXCEPT ![h] = @ \cup {p}]
      /\ topic' = topic /\ joined[h] \subseteq Host
      /\ \A x, y \in Host : <<x, y>> # <<p, h>> => \A i \in 1 .. Len(wire'[x][y]) :
            wire'[x][y][i] = Server_line(p) /\ y = h /\ x \in joined[h]
      /\ wire'[p][h] = <<Server_line(h)>> \o Burst_to(h)
    BY Link_taken
<1>2. Calm /\ Both_ways(joined) /\ joined \in Links
    BY Quiet_calm DEF OInv, OTypes
<1>3. \A a, b \in IrcServer : a \in Host /\ b \in Host /\ <<a, b>> # <<p, h>> /\ <<a, b>> # <<h, p>>
    BY DEF IrcServer
<1>4. \A a, b \in Host : b \in joined'[a] <=> b \in joined[a] \/ (a = h /\ b = p)
    BY <1>1, <1>2 DEF Links
<1>5. \A a \in IrcServer : \A b \in joined'[a] \cap IrcServer : Texts_agree(a, b)'
    BY <1>1, <1>2, <1>3, <1>4 DEF Calm, Texts_agree
<1>6. ASSUME NEW a \in IrcServer, NEW b \in Host, NEW i \in 1 .. Len(wire'[a][b])
      PROVE  wire'[a][b][i].cmd # "TOPIC"
    <2>1. a \in Host
        BY DEF IrcServer
    <2>2. CASE <<a, b>> # <<p, h>>
        BY <1>1, <2>1, <2>2, Server_line_facts
    <2>3. CASE a = p /\ b = h
        <3> DEFINE B == Burst_to(h)
                   f == Server_line(h)
        <3>1. h = ServicesServer
            BY <2>3 DEF IrcServer
        <3>2. B \in Seq(Wire_lines) /\ \A j \in 1 .. Len(B) : \E x \in seen[h] : B[j] = Server_line(x)
            BY <3>1, Burst_says DEF Burst_lines
        <3>3. seen[h] \subseteq Host
            BY DEF OInv, OTypes, Links
        <3>4. \A x \in Host : Server_line(x).cmd = "SERVER" /\ Server_line(x) \in Wire_lines
            BY Server_line_facts
        <3>5. f \in Wire_lines /\ f.cmd = "SERVER" /\ \A j \in 1 .. Len(B) : B[j].cmd = "SERVER"
            BY <3>2, <3>3, <3>4
        <3> HIDE DEF B, f
        <3>6. \A j \in 1 .. Len(<<f>> \o B) : (<<f>> \o B)[j] = f \/ \E k \in 1 .. Len(B) : (<<f>> \o B)[j] = B[k]
            <4>1. ASSUME NEW j \in 1 .. Len(<<f>> \o B)
                  PROVE  (<<f>> \o B)[j] = f \/ \E k \in 1 .. Len(B) : (<<f>> \o B)[j] = B[k]
                <5>1. j = 1 \/ (j - 1 \in 1 .. Len(B) /\ (<<f>> \o B)[j] = B[j - 1])
                    BY <3>2, <3>5
                <5>2. (<<f>> \o B)[1] = f
                    BY <3>2, <3>5
                <5> QED BY <5>1, <5>2
            <4> QED BY <4>1
        <3>7. wire'[a][b] = <<f>> \o B
            BY <1>1, <2>3 DEF f, B
        <3> QED BY <3>5, <3>6, <3>7
    <2> QED BY <2>1, <2>2, <2>3
<1>7. ASSUME NEW a \in IrcServer, NEW b \in IrcServer, wire'[a][b] # << >> PROVE b \in joined'[a]
    <2>1. wire' \in Wires
        BY Take_link_keeps DEF OInv, OTypes
    <2>2. wire'[a][b] \in Seq(Wire_lines)
        BY <1>3, <2>1 DEF Wires
    <2>3. 1 \in 1 .. Len(wire'[a][b])
        BY <1>7, <2>2
    <2>4. b = h /\ a \in joined[h]
        BY <1>1, <1>3, <2>3
    <2> QED BY <1>2, <1>3, <1>4, <2>4 DEF Both_ways
<1> QED BY <1>5, <1>6, <1>7 DEF Calm

LEMMA Take_meets ==
    ASSUME OInv, Quiet_wires, In_order_still, NEW h \in Host, NEW p \in Joint[h], Take_link(h, p),
           Meet_well(h, p), ServicesServer \notin {h, p}
    PROVE  \E A, B \in SUBSET Host : Meeting(h, p, A, B)'
<1>1. /\ p \in Host /\ p # h /\ p \notin joined[h] /\ h \notin joined[p]
      /\ joined' = [joined EXCEPT ![h] = @ \cup {p}] /\ seen' = [seen EXCEPT ![h] = @ \cup {p}]
      /\ topic' = topic /\ joined[h] \subseteq Host
      /\ \A x, y \in Host : <<x, y>> # <<p, h>> => \A i \in 1 .. Len(wire'[x][y]) :
            wire'[x][y][i] = Server_line(p) /\ y = h /\ x \in joined[h]
      /\ wire'[p][h] = <<Server_line(h)>> \o Burst_to(h)
    BY Link_taken
<1>2. /\ Both_ways(joined)
      /\ \A a \in IrcServer : \A b \in joined[a] \cap IrcServer : Texts_agree(a, b)
      /\ joined \in Links /\ seen \in Links
    BY Quiet_facts DEF OInv, OTypes
<1>3. h \in IrcServer /\ p \in Joint[h] \cap IrcServer
    BY <1>1 DEF IrcServer
<1>4. PICK A \in SUBSET Host, B \in SUBSET Host :
         One_topic(h, A) /\ One_topic(p, B) /\ (GivesWay(h, p, A) \/ GivesWay(p, h, B))
    BY DEF Meet_well
<1>5. /\ \A a, b \in Host : b \in joined'[a] <=> b \in joined[a] \/ (a = h /\ b = p)
      /\ \A a \in Host : a # h => joined'[a] = joined[a] /\ seen'[a] = seen[a]
      /\ joined'[h] = joined[h] \cup {p} /\ \A a \in Host : ServicesServer \in seen'[a] <=> ServicesServer \in seen[a]
    BY <1>1, <1>2 DEF Links
<1>6. services_on' = services_on /\ spath' = spath
    BY DEF Take_link, Joins, Services_came
<1>7. p \notin spath'[h]
    <2>1. Sighted(h, joined[h], seen[h], spath[h], services_on, misled)
        BY DEF OInv, OSighted
    <2> QED BY <1>1, <1>6, <2>1 DEF Sighted
<1>8. One_side(h, p, A)' /\ One_side(p, h, B)'
    <2>1. \A k \in A : joined'[k] \subseteq A \/ (k = h /\ joined'[k] \subseteq A \cup {p})
        BY <1>4, <1>5 DEF One_topic
    <2>2. p \in B /\ \A k \in B : joined[k] \subseteq B
        BY <1>4 DEF One_topic
    <2>3. \A k \in B : joined'[k] \subseteq B
        BY <1>5, <2>2
    <2> QED BY <1>1, <1>4, <2>1, <2>3 DEF One_topic, One_side
<1>9. GivesWay(h, p, A)' \/ GivesWay(p, h, B)'
    <2>1. ASSUME NEW x \in Host, NEW y \in Host, NEW C \in SUBSET Host, GivesWay(x, y, C) PROVE GivesWay(x, y, C)'
        BY <1>1, <1>5, <1>6, <2>1 DEF GivesWay
    <2> QED BY <1>1, <1>4, <2>1
<1>10. \A a \in Host : \A b \in joined'[a] : <<a, b>> # <<h, p>> => a \in joined'[b]
    <2>1. \A a \in Host : joined[a] \subseteq Host
        BY <1>2 DEF Links
    <2> QED BY <1>1, <1>2, <1>5, <2>1 DEF Both_ways
<1>11. \A a \in IrcServer : \A b \in joined'[a] \cap IrcServer : <<a, b>> # <<h, p>> => Texts_agree(a, b)'
    BY <1>1, <1>2, <1>5 DEF Texts_agree, IrcServer
<1>12. \A a, b \in Host : <<a, b>> # <<p, h>> => \A i \in 1 .. Len(wire'[a][b]) :
          wire'[a][b][i].cmd = "SERVER" /\ wire'[a][b][i] # About_services
    BY <1>1, Server_line_facts
<1>13. wire'[p][h] # << >> /\ Burst_of(h, wire[p][h])'
    <2> DEFINE w == <<Server_line(h)>> \o Burst_to(h)
    <2>1. Burst_lines(h, Burst_to(h))
        BY Burst_says
    <2>2. Burst_of(h, w)
        BY <1>3, <2>1, Burst_warns
    <2>3. w # << >>
        <3>1. Burst_to(h) \in Seq(Wire_lines) /\ Server_line(h) \in Wire_lines
            BY <2>1, Server_line_facts DEF Burst_lines
        <3> QED BY <3>1
    <2> HIDE DEF w
    <2>4. wire'[p][h] = w
        BY <1>1 DEF w
    <2> QED BY <1>1, <1>5, <2>2, <2>3, <2>4 DEF Burst_of
<1>14. Meeting(h, p, A, B)'
    BY <1>1, <1>3, <1>5, <1>7, <1>8, <1>9, <1>10, <1>11, <1>12, <1>13 DEF Meeting
<1> QED BY <1>14

-----------------------------------------------------------------------------
(* Meeting: until p hears of h only SERVERs are heard.                      *)
LEMMA Meeting_lines ==
    ASSUME OInv, NEW h \in Host, NEW p \in Host, NEW A, NEW B, Meeting(h, p, A, B)
    PROVE  /\ \A a, b \in Host : ~Shut(wire[a][b])
           /\ \A g \in Host : \A q \in Joint[g] : <<g, q>> # <<p, h>> /\ wire[g][q] # << >> => q \in joined[g]
           /\ wire[h][p] = << >> /\ p # h /\ p \in Joint[h] /\ h \in Joint[p]
           /\ wire[p][h][1] = Server_line(h) /\ 1 \in 1 .. Len(wire[p][h])
           /\ \A a, b \in Host : \A i \in 1 .. Len(wire[a][b]) : wire[a][b][i].cmd \in {"SERVER", "TOPIC"}
           /\ \A a, b \in Host : <<a, b>> # <<p, h>> => \A i \in 1 .. Len(wire[a][b]) : wire[a][b][i].cmd = "SERVER"
<1>1. p \in Joint[h] /\ p # h /\ h \in Joint[p] /\ h \in IrcServer /\ p \in IrcServer
    BY Tree_facts DEF Meeting
<1>2. \A a, b \in Host : <<a, b>> # <<p, h>> => \A i \in 1 .. Len(wire[a][b]) : wire[a][b][i].cmd = "SERVER"
    BY DEF Meeting
<1>3. \A i \in 1 .. Len(wire[p][h]) : wire[p][h][i].cmd \in {"SERVER", "TOPIC"}
    <2>1. Burst_of(h, wire[p][h])
        BY DEF Meeting
    <2>2. Topic_line(topic[h], TRUE).cmd = "TOPIC"
        BY DEF Topic_line
    <2> QED BY <2>1, <2>2 DEF Burst_of
<1>4. \A a, b \in Host : \A i \in 1 .. Len(wire[a][b]) : wire[a][b][i].cmd \in {"SERVER", "TOPIC"}
    BY <1>2, <1>3
<1>5. \A a, b \in Host : ~Shut(wire[a][b])
    BY <1>4 DEF Shut, Closed
<1>6. ASSUME NEW g \in Host, NEW q \in Joint[g], wire[g][q] # << >> PROVE g \in joined[q] /\ q \in Host
    <2>1. Wired(g, q, wire[g][q], wire[q][g], joined[g], joined[q]) /\ q \in Host
        BY Tree_facts DEF OInv, AllWired
    <2> QED BY <1>5, <1>6, <2>1 DEF Wired
<1>7. \A g \in Host : \A q \in Joint[g] : <<g, q>> # <<p, h>> /\ wire[g][q] # << >> => q \in joined[g]
    BY <1>1, <1>6 DEF Meeting
<1>8. wire[h][p] = << >>
    BY <1>1, <1>6 DEF Meeting
<1>9. wire[p][h][1] = Server_line(h) /\ 1 \in 1 .. Len(wire[p][h])
    <2>1. Wired(p, h, wire[p][h], wire[h][p], joined[p], joined[h])
        BY <1>1 DEF OInv, AllWired
    <2>2. wire[p][h] # << >> /\ h \notin joined[p]
        BY DEF Meeting
    <2>3. wire[p][h] \in Seq(Wire_lines)
        BY DEF OInv, OTypes, Wires
    <2> QED BY <2>1, <2>2, <2>3 DEF Wired
<1> QED BY <1>1, <1>2, <1>4, <1>5, <1>7, <1>8, <1>9

LEMMA Meeting_quiet ==
    ASSUME OInv, NEW h \in Host, NEW p \in Host, NEW A, NEW B, Meeting(h, p, A, B),
           NEW g \in Host, NEW q \in Joint[g],
           Hear_topic(g, q) \/ Hear_close(g, q) \/ Hear_squit(g, q) \/ (Hear_link(g, q) /\ <<g, q>> # <<p, h>>)
    PROVE  FALSE
<1>1. wire[g][q] # << >>
    BY DEF Hear_topic, Hear_close, Hear_squit, Hear_link, Next_line
<1>2. /\ wire[g][q][1] = Head(wire[g][q]) /\ 1 \in 1 .. Len(wire[g][q]) /\ q \in Host
    BY <1>1, Rest_facts
<1>3. wire[g][q][1].cmd \in {"SERVER", "TOPIC"}
    BY <1>2, Meeting_lines
<1>4. CASE Hear_topic(g, q)
    <2>1. q \in joined[g] /\ wire[g][q][1].cmd = "TOPIC"
        BY <1>4, Topic_heard
    <2>2. <<g, q>> = <<p, h>>
        BY <1>2, <2>1, Meeting_lines
    <2> QED BY <2>1, <2>2 DEF Meeting
<1>5. CASE Hear_close(g, q)
    BY <1>2, <1>3, <1>5 DEF Hear_close, Next_line
<1>6. CASE Hear_squit(g, q)
    BY <1>2, <1>3, <1>6 DEF Hear_squit, Next_line
<1>7. CASE Hear_link(g, q) /\ <<g, q>> # <<p, h>>
    <2>1. q \in joined[g]
        BY <1>1, <1>7, Meeting_lines
    <2>2. Head(wire[g][q]).cmd = "SERVER" /\ Head(wire[g][q]).name = q /\ Head(wire[g][q]) # Closed
        BY <1>7 DEF Hear_link, Next_line, Closed
    <2> QED BY <1>1, <2>1, <2>2, Read_wired
<1> QED BY <1>4, <1>5, <1>6, <1>7

LEMMA Meeting_server ==
    ASSUME OInv, NEW h \in Host, NEW p \in Host, NEW A, NEW B, Meeting(h, p, A, B),
           NEW g \in Host, NEW q \in Joint[g], Hear_server(g, q)
    PROVE  Meeting(h, p, A, B)'
<1> DEFINE x == Head(wire[g][q]).name
           m == Server_line(x)
           N == joined[g] \ {q}
<1>1. /\ wire[g][q] # << >> /\ Head(wire[g][q]).cmd = "SERVER" /\ x # q
      /\ Head(wire[g][q]) # Closed /\ Head(wire[g][q]) # Server_line(q)
      /\ joined' = joined /\ topic' = topic /\ seen' = [seen EXCEPT ![g] = @ \cup {x}]
      /\ services_on' = IF x = ServicesServer THEN services_on \cup {g} ELSE services_on
      /\ spath' = IF x = ServicesServer THEN [spath EXCEPT ![g] = @ \cup {q}] ELSE spath
      /\ wire' = Sends(Rest_of(g, q), g, N, <<m>>)
    BY DEF Hear_server, Services_came, Next_line, Closed, Server_line
<1>2. /\ q \in joined[g] /\ Head(wire[g][q]) \in Wire_lines
    BY <1>1, Read_wired
<1>3. /\ wire[g][q][1] = Head(wire[g][q]) /\ 1 \in 1 .. Len(wire[g][q]) /\ q \in Host
    BY <1>1, Rest_facts
<1>4. <<g, q>> # <<p, h>>
    BY <1>2 DEF Meeting
<1>5. x \in Host /\ Head(wire[g][q]) = m
    BY <1>1, <1>2, Wire_line_facts
<1>6. x # ServicesServer /\ m # About_services
    <2>1. wire[g][q][1] # About_services
        BY <1>3, <1>4 DEF Meeting
    <2> QED BY <1>3, <1>5, <2>1, Server_line_facts
<1>7. m \in Wire_lines /\ m.cmd = "SERVER" /\ Reads(g, q, N, m)
    <2>1. m \in Wire_lines /\ m.cmd = "SERVER"
        BY <1>5, Server_line_facts
    <2> HIDE DEF m
    <2> QED BY <1>1, <2>1 DEF Reads
<1> HIDE DEF N, m, x
<1>8. Has_read(g, q, N, m)
    BY <1>7, Heard
<1>9. /\ services_on' = services_on /\ spath' = spath
      /\ \A a \in Host : ServicesServer \in seen'[a] <=> ServicesServer \in seen[a]
    <2>1. seen \in Links
        BY DEF OInv, OTypes
    <2> QED BY <1>1, <1>6, <2>1 DEF Links
<1>10. GivesWay(h, p, A)' \/ GivesWay(p, h, B)'
    <2>1. A \subseteq Host /\ B \subseteq Host
        BY DEF Meeting
    <2>2. ASSUME NEW a \in Host, NEW b \in Host, NEW C \in SUBSET Host, GivesWay(a, b, C) PROVE GivesWay(a, b, C)'
        BY <1>1, <1>9, <2>2 DEF GivesWay
    <2> QED BY <2>1, <2>2 DEF Meeting
<1>11. \A a, b \in Host : <<a, b>> # <<p, h>> => \A i \in 1 .. Len(wire'[a][b]) :
          wire'[a][b][i].cmd = "SERVER" /\ wire'[a][b][i] # About_services
    <2> SUFFICES ASSUME NEW a \in Host, NEW b \in Host, <<a, b>> # <<p, h>>, NEW i \in 1 .. Len(wire'[a][b])
                 PROVE  wire'[a][b][i].cmd = "SERVER" /\ wire'[a][b][i] # About_services
        OBVIOUS
    <2>1. \A j \in 1 .. Len(wire[a][b]) : wire[a][b][j].cmd = "SERVER" /\ wire[a][b][j] # About_services
        BY DEF Meeting
    <2>2. CASE <<a, b>> = <<g, q>>
        <3>1. i + 1 \in 2 .. Len(wire[a][b]) /\ wire'[a][b][i] = wire[a][b][i + 1]
            BY <1>8, <2>2 DEF Has_read
        <3>2. i + 1 \in 1 .. Len(wire[a][b])
            BY <3>1
        <3> QED BY <2>1, <3>1, <3>2
    <2>3. CASE <<a, b>> # <<g, q>>
        <3>1. \/ i \in 1 .. Len(wire[a][b]) /\ wire'[a][b][i] = wire[a][b][i]
              \/ wire'[a][b][i] = m
            BY <1>8, <2>3 DEF Has_read
        <3> QED BY <1>6, <1>7, <2>1, <3>1
    <2> QED BY <2>2, <2>3
<1>12. wire'[p][h] # << >> /\ Burst_of(h, wire[p][h])'
    <2> DEFINE w == wire[p][h]
               v == wire'[p][h]
    <2>1. /\ \A i \in 1 .. Len(w) : i \in 1 .. Len(v) /\ v[i] = w[i]
          /\ \A i \in 1 .. Len(v) : i \in 1 .. Len(w) \/ v[i] = m
        BY <1>4, <1>8 DEF Has_read
    <2>2. Burst_of(h, w) /\ w # << >> /\ 1 \in 1 .. Len(w)
        BY Meeting_lines DEF Meeting
    <2>3. v \in Seq(Wire_lines)
        BY Hear_server_keeps DEF OInv, OTypes, Wires
    <2>4. ~(1 \in 1 .. Len(<< >>))
        OBVIOUS
    <2> HIDE DEF w, v
    <2>5. v # << >>
        BY <2>1, <2>2, <2>4
    <2>6. ASSUME NEW i \in 1 .. Len(w), Warned(w, i) PROVE Warned(v, i)
        <3>1. PICK j \in 1 .. i - 1 : w[j] = About_services
            BY <2>6 DEF Warned
        <3>2. w \in Seq(Wire_lines)
            BY DEF w, OInv, OTypes, Wires
        <3>3. j \in 1 .. Len(w)
            BY <3>2
        <3> QED BY <2>1, <3>1, <3>3 DEF Warned
    <2>7. ASSUME NEW i \in 1 .. Len(v)
          PROVE  \/ v[i].cmd = "SERVER"
                 \/ /\ v[i] = Topic_line(topic[h], TRUE) /\ topic[h].time # 0
                    /\ ServicesServer \in seen[h] => Warned(v, i)
        BY <1>7, <2>1, <2>2, <2>6 DEF Burst_of
    <2>8. ServicesServer \notin seen[h] => \A i \in 1 .. Len(v) : v[i] # About_services
        BY <1>6, <2>1, <2>2 DEF Burst_of
    <2>9. topic[h].time # 0 => \E i \in 1 .. Len(v) : v[i] = Topic_line(topic[h], TRUE)
        BY <2>1, <2>2 DEF Burst_of
    <2> QED BY <1>1, <1>9, <2>5, <2>7, <2>8, <2>9 DEF Burst_of, v
<1>13. /\ One_side(h, p, A)' /\ One_side(p, h, B)'
       /\ \A a \in Host : \A b \in joined'[a] : <<a, b>> # <<h, p>> => a \in joined'[b]
       /\ \A a \in IrcServer : \A b \in joined'[a] \cap IrcServer :
             <<a, b>> # <<h, p>> => Texts_agree(a, b)'
    BY <1>1 DEF Meeting, One_side, Texts_agree
<1> QED BY <1>1, <1>9, <1>10, <1>11, <1>12, <1>13 DEF Meeting

(* What is on its way when p has heard of h.                                *)
LEMMA Link_heard ==
    ASSUME OInv, NEW h \in Host, NEW p \in Host, NEW A, NEW B, Meeting(h, p, A, B), Hear_link(p, h)
    PROVE  /\ joined' = [joined EXCEPT ![p] = @ \cup {h}] /\ seen' = [seen EXCEPT ![p] = @ \cup {h}]
           /\ UNCHANGED <<topic, services_on, spath>>
           /\ \A a, b \in Host : <<a, b>> # <<p, h>> /\ <<a, b>> # <<h, p>> => \A i \in 1 .. Len(wire'[a][b]) :
                 wire'[a][b][i].cmd = "SERVER" /\ wire'[a][b][i] # About_services
           /\ \A i \in 1 .. Len(wire'[p][h]) :
                 i + 1 \in 2 .. Len(wire[p][h]) /\ wire'[p][h][i] = wire[p][h][i + 1]
           /\ \A i \in 1 .. Len(wire[p][h]) : i = 1 \/
                 (i - 1 \in 1 .. Len(wire'[p][h]) /\ wire'[p][h][i - 1] = wire[p][h][i])
           /\ wire'[h][p] = Burst_to(p)
<1> DEFINE m == Server_line(h)
           R == Rest_of(p, h)
           W == Sends(R, p, joined[p], <<m>>)
           lines == << >> \o Burst_to(p)
           V == wire'
<1>1. /\ wire[h][p] = << >> /\ p # h /\ p \in Joint[h] /\ h \in Joint[p] /\ ~Shut(wire[p][h])
      /\ wire[p][h] # << >> /\ h \notin joined[p] /\ h \in IrcServer /\ p \in IrcServer
    BY Meeting_lines DEF Meeting
<1>2. /\ joined' = [joined EXCEPT ![p] = @ \cup {h}] /\ seen' = [seen EXCEPT ![p] = @ \cup {h}]
      /\ UNCHANGED <<topic, services_on, spath>>
      /\ V = Sends(W, p, {h}, lines)
    BY <1>1 DEF Hear_link, Joins, Services_came, IrcServer
<1>3. m \in Wire_lines /\ m.cmd = "SERVER" /\ m # About_services
      /\ <<m>> \in Seq(Wire_lines) /\ Len(<<m>>) = 1 /\ <<m>>[1] = m
    BY <1>1, Server_line_facts DEF IrcServer
<1>4. /\ R \in Wires /\ joined[p] \subseteq Host /\ p \notin joined[p]
      /\ \A x, y \in Host : <<x, y>> # <<p, h>> => R[x][y] = wire[x][y]
      /\ \A i \in 1 .. Len(R[p][h]) :
            i + 1 \in 2 .. Len(wire[p][h]) /\ R[p][h][i] = wire[p][h][i + 1]
    BY <1>1, Rest_facts, Tree_facts DEF OInv, OTypes, OSighted, Sighted, Links
<1>5. R[p][h] = Tail(wire[p][h]) /\ wire[p][h] \in Seq(Wire_lines)
    BY <1>1 DEF Rest_of, OInv, OTypes, Wires
<1>6. ~Shut(R[p][h])
    <2>1. \A i \in 1 .. Len(wire[p][h]) : wire[p][h][i] # Closed
        BY <1>1 DEF Shut
    <2>2. \A i : i + 1 \in 2 .. Len(wire[p][h]) => i + 1 \in 1 .. Len(wire[p][h])
        OBVIOUS
    <2> QED BY <1>4, <2>1, <2>2 DEF Shut
<1>7. \A i \in 1 .. Len(wire[p][h]) : i = 1 \/ (i - 1 \in 1 .. Len(R[p][h]) /\ R[p][h][i - 1] = wire[p][h][i])
    <2> SUFFICES ASSUME NEW w \in Seq(Wire_lines), w # << >>, NEW i \in 1 .. Len(w), i # 1
                 PROVE  i - 1 \in 1 .. Len(Tail(w)) /\ Tail(w)[i - 1] = w[i]
        BY <1>1, <1>5
    <2>1. Len(Tail(w)) = Len(w) - 1 /\ Len(w) \in Nat /\ \A j \in 1 .. Len(Tail(w)) : Tail(w)[j] = w[j + 1]
        OBVIOUS
    <2>2. i - 1 \in 1 .. Len(Tail(w)) /\ (i - 1) + 1 = i
        BY <2>1
    <2> QED BY <2>1, <2>2
<1> HIDE DEF R, m
<1>8. Grown(R, W, p, joined[p], <<m>>)
    BY <1>3, <1>4, Sends_grow
<1> HIDE DEF W
<1>9. Burst_to(p) \in Seq(Wire_lines) /\ lines = Burst_to(p)
    <2>1. Burst_to(p) \in Seq(Wire_lines)
        BY Burst_says DEF Burst_lines
    <2> QED BY <2>1
<1> HIDE DEF lines
<1>10. \A x, y \in Host : V[x][y] = IF y = p /\ x = h /\ ~Shut(W[p][h]) THEN W[x][y] \o lines ELSE W[x][y]
    BY <1>2 DEF Sends
<1>11. W[p][h] = R[p][h] /\ W[h][p] = << >>
    BY <1>1, <1>4, <1>8 DEF Grown
<1>12. V[h][p] = Burst_to(p) /\ V[p][h] = R[p][h]
    <2>1. V[h][p] = << >> \o lines
        BY <1>6, <1>10, <1>11
    <2> QED BY <1>1, <1>9, <1>10, <1>11, <2>1
<1> HIDE DEF V
<1>13. ASSUME NEW a \in Host, NEW b \in Host, <<a, b>> # <<p, h>>, <<a, b>> # <<h, p>>, NEW i \in 1 .. Len(V[a][b])
       PROVE  V[a][b][i].cmd = "SERVER" /\ V[a][b][i] # About_services
    <2>1. R[a][b] = wire[a][b] /\ \A j \in 1 .. Len(wire[a][b]) :
             wire[a][b][j].cmd = "SERVER" /\ wire[a][b][j] # About_services
        BY <1>4, <1>13 DEF Meeting
    <2>2. V[a][b] = W[a][b]
        BY <1>10, <1>13
    <2>3. \/ i \in 1 .. Len(R[a][b]) /\ W[a][b][i] = R[a][b][i]
          \/ i - Len(R[a][b]) \in 1 .. 1 /\ W[a][b][i] = <<m>>[i - Len(R[a][b])]
        BY <1>3, <1>8, <2>2 DEF Grown
    <2>4. CASE i \in 1 .. Len(R[a][b]) /\ W[a][b][i] = R[a][b][i]
        BY <2>1, <2>2, <2>4
    <2>5. CASE i - Len(R[a][b]) \in 1 .. 1 /\ W[a][b][i] = <<m>>[i - Len(R[a][b])]
        <3>1. i - Len(R[a][b]) = 1
            BY <2>5
        <3> QED BY <1>3, <2>2, <2>5, <3>1
    <2> QED BY <2>3, <2>4, <2>5
<1> QED BY <1>2, <1>4, <1>7, <1>12, <1>13 DEF V

(* What the topics of the two sides, and what p and h will say of them, must *)
(* be for the topic w to win over l.                                        *)
Won_over(h, p, C, l, w, svc) ==
    /\ (topic[h] = l /\ topic[p] = w) \/ (topic[h] = w /\ topic[p] = l)
    /\ ~svc => ServicesServer \notin seen[h] /\ ServicesServer \notin seen[p]
    /\ \A i \in 1 .. Len(wire'[p][h]) : wire'[p][h][i] = Topic_line(topic[h], TRUE) /\ topic[h].time # 0 =>
          Taken(p, h, i, l, w, svc)' \/ Turned_down(p, h, i, l, w, svc)'
    /\ \A i \in 1 .. Len(wire'[h][p]) : wire'[h][p][i] = Topic_line(topic[p], TRUE) /\ topic[p].time # 0 =>
          Taken(h, p, i, l, w, svc)' \/ Turned_down(h, p, i, l, w, svc)'
    /\ l # w => \A k \in C \cap IrcServer : topic[k] = l => Behindhand(k, svc)'
    /\ l # w => IF topic[h] = l THEN Owed(h, p, Topic_line(w, TRUE))' ELSE Owed(p, h, Topic_line(w, TRUE))'

LEMMA Wave_begins ==
    ASSUME OInv, NEW h \in Host, NEW p \in Host, NEW A, NEW B, Meeting(h, p, A, B), Hear_link(p, h),
           NEW l, NEW w, NEW svc, Won_over(h, p, A \cup B, l, w, svc)
    PROVE  Wave(A \cup B, l, w, svc)'
<1> DEFINE C == A \cup B
<1>1. /\ joined' = [joined EXCEPT ![p] = @ \cup {h}] /\ seen' = [seen EXCEPT ![p] = @ \cup {h}]
      /\ UNCHANGED <<topic, services_on, spath>>
      /\ \A a, b \in Host : <<a, b>> # <<p, h>> /\ <<a, b>> # <<h, p>> => \A i \in 1 .. Len(wire'[a][b]) :
            wire'[a][b][i].cmd = "SERVER" /\ wire'[a][b][i] # About_services
      /\ \A i \in 1 .. Len(wire'[p][h]) :
            i + 1 \in 2 .. Len(wire[p][h]) /\ wire'[p][h][i] = wire[p][h][i + 1]
      /\ wire'[h][p] = Burst_to(p)
    BY Link_heard
<1>2. /\ h \in IrcServer /\ p \in IrcServer /\ p # h /\ h \in A /\ p \in B /\ p \in joined[h] /\ joined \in Links
      /\ A \subseteq Host /\ B \subseteq Host
    BY Meeting_lines DEF Meeting, One_side, OInv, OTypes
<1>3. \A a, b \in Host : b \in joined'[a] <=> b \in joined[a] \/ (a = p /\ b = h)
    BY <1>1, <1>2 DEF Links
<1>4. joined' \in Links
    BY <1>1, <1>2 DEF Links
<1>5. Both_ways(joined')
    <2>1. \A a \in Host : joined'[a] \subseteq Host
        BY <1>4 DEF Links
    <2>2. \A a \in Host : \A b \in joined[a] : <<a, b>> # <<h, p>> => a \in joined[b]
        BY DEF Meeting
    <2> QED BY <1>2, <1>3, <2>1, <2>2 DEF Both_ways
<1>6. \A k \in C : joined'[k] \subseteq C
    <2>1. \A k \in A : joined[k] \subseteq A \cup {p}
        BY DEF Meeting, One_side
    <2>2. \A k \in B : joined[k] \subseteq B \cup {h}
        BY DEF Meeting, One_side
    <2>3. \A k \in C : joined[k] \subseteq C
        BY <1>2, <2>1, <2>2
    <2>4. \A k \in C : joined'[k] \subseteq joined[k] \cup {h}
        BY <1>1, <1>2 DEF Links
    <2> QED BY <1>2, <2>3, <2>4
<1>7. \A k \in C \cap IrcServer : topic'[k] \in {l, w}
    <2>1. \A k \in A \cap IrcServer : topic[k] = topic[h]
        BY DEF Meeting, One_side
    <2>2. \A k \in B \cap IrcServer : topic[k] = topic[p]
        BY DEF Meeting, One_side
    <2> QED BY <1>1, <2>1, <2>2 DEF Won_over
<1>8. \A i \in 1 .. Len(wire'[p][h]) :
         /\ wire'[p][h][i].cmd = "SERVER" \/ (wire'[p][h][i] = Topic_line(topic[h], TRUE) /\ topic[h].time # 0)
         /\ ServicesServer \notin seen[h] => wire'[p][h][i] # About_services
    <2>1. Burst_of(h, wire[p][h])
        BY DEF Meeting
    <2>2. ASSUME NEW i \in 1 .. Len(wire'[p][h])
          PROVE  i + 1 \in 1 .. Len(wire[p][h]) /\ wire'[p][h][i] = wire[p][h][i + 1]
        <3>1. i + 1 \in 2 .. Len(wire[p][h]) /\ wire'[p][h][i] = wire[p][h][i + 1]
            BY <1>1
        <3> QED BY <3>1
    <2>3. ASSUME NEW i \in 1 .. Len(wire[p][h])
          PROVE  /\ wire[p][h][i].cmd = "SERVER" \/ (wire[p][h][i] = Topic_line(topic[h], TRUE) /\ topic[h].time # 0)
                 /\ ServicesServer \notin seen[h] => wire[p][h][i] # About_services
        BY <2>1 DEF Burst_of
    <2> QED BY <2>2, <2>3
<1>9. \A i \in 1 .. Len(wire'[h][p]) :
         /\ wire'[h][p][i].cmd = "SERVER" \/ (wire'[h][p][i] = Topic_line(topic[p], TRUE) /\ topic[p].time # 0)
         /\ ServicesServer \notin seen[p] => wire'[h][p][i] # About_services
    <2>1. Burst_of(p, Burst_to(p))
        BY <1>2, Burst_says, Burst_warns
    <2> QED BY <1>1, <2>1 DEF Burst_of
<1>10. \A t : Topic_line(t, TRUE).cmd = "TOPIC"
    BY DEF Topic_line
<1>11. \A a, b \in Host : \A i \in 1 .. Len(wire'[a][b]) :
          /\ wire'[a][b][i].cmd \in {"SERVER", "TOPIC"}
          /\ ~svc => wire'[a][b][i] # About_services
    <2> SUFFICES ASSUME NEW a \in Host, NEW b \in Host, NEW i \in 1 .. Len(wire'[a][b])
                 PROVE  /\ wire'[a][b][i].cmd \in {"SERVER", "TOPIC"}
                        /\ ~svc => wire'[a][b][i] # About_services
        OBVIOUS
    <2>1. CASE <<a, b>> = <<p, h>>
        BY <1>8, <1>10, <2>1 DEF Won_over
    <2>2. CASE <<a, b>> = <<h, p>>
        BY <1>9, <1>10, <2>2 DEF Won_over
    <2>3. CASE <<a, b>> # <<p, h>> /\ <<a, b>> # <<h, p>>
        BY <1>1, <2>3
    <2> QED BY <2>1, <2>2, <2>3 DEF Won_over
<1>12. ASSUME NEW a \in IrcServer, NEW b \in Host, NEW i \in 1 .. Len(wire'[a][b]), wire'[a][b][i].cmd = "TOPIC"
       PROVE  a \in C /\ b \in IrcServer /\ (Taken(a, b, i, l, w, svc)' \/ Turned_down(a, b, i, l, w, svc)')
    <2>1. a \in Host
        BY DEF IrcServer
    <2>2. <<a, b>> = <<p, h>> \/ <<a, b>> = <<h, p>>
        BY <1>1, <1>12, <2>1
    <2>3. CASE a = p /\ b = h
        BY <1>2, <1>8, <1>12, <2>3 DEF Won_over
    <2>4. CASE a = h /\ b = p
        BY <1>2, <1>9, <1>12, <2>4 DEF Won_over
    <2> QED BY <2>2, <2>3, <2>4
<1>13. ASSUME NEW a \in IrcServer, NEW b \in joined'[a] \cap IrcServer
       PROVE  \/ Texts_agree(a, b)'
              \/ a \in C /\ topic'[a] = l /\ topic'[b] = w /\ Owed(a, b, Topic_line(w, TRUE))'
              \/ a \in C /\ topic'[b] = l /\ topic'[a] = w /\ Owed(b, a, Topic_line(w, TRUE))'
    <2>1. a \in Host /\ b \in Host
        BY DEF IrcServer
    <2>2. CASE <<a, b>> # <<p, h>> /\ <<a, b>> # <<h, p>>
        <3>1. b \in joined[a]
            BY <1>3, <2>1, <2>2
        <3>2. Texts_agree(a, b)
            BY <2>2, <3>1 DEF Meeting
        <3> QED BY <1>1, <3>2 DEF Texts_agree
    <2>3. CASE l = w /\ (<<a, b>> = <<p, h>> \/ <<a, b>> = <<h, p>>)
        BY <1>1, <2>3 DEF Texts_agree, Won_over
    <2>4. CASE l # w /\ a = p /\ b = h
        BY <1>1, <1>2, <2>4 DEF Won_over
    <2>5. CASE l # w /\ a = h /\ b = p
        BY <1>1, <1>2, <2>5 DEF Won_over
    <2> QED BY <2>2, <2>3, <2>4, <2>5
<1>14. l # w => \A k \in C \cap IrcServer : topic'[k] = l => Behindhand(k, svc)'
    BY <1>1 DEF Won_over
<1> HIDE DEF C
<1>15. Wave(C, l, w, svc)'
    BY <1>5, <1>6, <1>7, <1>11, <1>12, <1>13, <1>14 DEF Wave
<1> QED BY <1>15 DEF C

LEMMA Meet_waves ==
    ASSUME OInv, NEW h \in Host, NEW p \in Host, NEW A, NEW B, Meeting(h, p, A, B), Hear_link(p, h)
    PROVE  \E C \in SUBSET Host : \E l, w \in Topics : \E svc \in BOOLEAN : Wave(C, l, w, svc)'
<1>a. topic[h] \in Topics /\ topic[p] \in Topics
    BY DEF OInv, OTypes
<1>b. PICK x \in Topics : x = topic[h]
    BY <1>a
<1>c. PICK y \in Topics : y = topic[p]
    BY <1>a
<1> USE <1>b, <1>c
<1>1. /\ joined' = [joined EXCEPT ![p] = @ \cup {h}] /\ seen' = [seen EXCEPT ![p] = @ \cup {h}]
      /\ UNCHANGED <<topic, services_on, spath>>
      /\ \A i \in 1 .. Len(wire'[p][h]) :
            i + 1 \in 2 .. Len(wire[p][h]) /\ wire'[p][h][i] = wire[p][h][i + 1]
      /\ \A i \in 1 .. Len(wire[p][h]) : i = 1 \/
            (i - 1 \in 1 .. Len(wire'[p][h]) /\ wire'[p][h][i - 1] = wire[p][h][i])
      /\ wire'[h][p] = Burst_to(p)
    BY Link_heard
<1>2. /\ h \in IrcServer /\ p \in IrcServer /\ p # h /\ p \in Joint[h] /\ h \in Joint[p]
      /\ h \notin joined[p] /\ p \notin spath[h] /\ A \cup B \in SUBSET Host
      /\ wire[p][h][1] = Server_line(h)
    BY Meeting_lines DEF Meeting
<1>3. x \in Topics /\ y \in Topics /\ seen \in Links /\ x.time \in Nat /\ y.time \in Nat
    BY DEF OInv, OTypes, Topics
<1>4. /\ Sighted(p, joined[p], seen[p], spath[p], services_on, misled)
      /\ Sighted(h, joined[h], seen[h], spath[h], services_on, misled)
    BY DEF OInv, OSighted
<1>5. /\ h \notin spath[p]
      /\ ServicesServer \in seen[p] => p \in services_on /\ ServicesServer \in Behind_[h][p]
      /\ ServicesServer \in seen[h] => h \in services_on
    <2>1. h \notin spath[p]
        BY <1>2, <1>4 DEF Sighted
    <2>2. ASSUME ServicesServer \in seen[p] PROVE ServicesServer \in Behind_[h][p]
        <3>1. PICK n \in joined[p] : ServicesServer \in Behind_[p][n]
            BY <1>4, <2>2 DEF Sighted
        <3>2. n \in Joint[p] /\ n # h
            BY <1>2, <1>4 DEF Sighted
        <3> QED BY <1>2, <3>1, <3>2, Tree_facts
    <2>3. /\ ServicesServer \in seen[p] => p \in services_on
          /\ ServicesServer \in seen[h] => h \in services_on
        BY <1>4 DEF Sighted
    <2> QED BY <2>1, <2>2, <2>3
<1>6. \A k \in Host : ServicesServer \in seen'[k] <=> ServicesServer \in seen[k]
    BY <1>1, <1>2, <1>3 DEF Links, IrcServer
<1>7. Burst_of(h, wire[p][h]) /\ Burst_of(p, wire'[h][p])
    <2>1. Burst_of(p, Burst_to(p))
        BY <1>2, Burst_says, Burst_warns
    <2> QED BY <1>1, <2>1 DEF Meeting
<1>8. Server_line(h) # About_services /\ \A t : Server_line(h) # Topic_line(t, TRUE)
    <2>1. Server_line(h) # About_services /\ Server_line(h).cmd = "SERVER"
        BY <1>2, Server_line_facts DEF IrcServer
    <2>2. \A t : Topic_line(t, TRUE).cmd = "TOPIC"
        BY DEF Topic_line
    <2> QED BY <2>1, <2>2
(* What p has yet to read of h, and h of p.                                 *)
<1>9. ASSUME NEW i \in 1 .. Len(wire'[p][h])
      PROVE  i + 1 \in 1 .. Len(wire[p][h]) /\ wire'[p][h][i] = wire[p][h][i + 1]
    <2>1. i + 1 \in 2 .. Len(wire[p][h]) /\ wire'[p][h][i] = wire[p][h][i + 1]
        BY <1>1
    <2> QED BY <2>1
<1>10. ASSUME ServicesServer \notin seen[h], NEW i \in 1 .. Len(wire'[p][h]) PROVE wire'[p][h][i] # About_services
    BY <1>7, <1>9, <1>10 DEF Burst_of
<1>11. ASSUME ServicesServer \in seen[h], NEW i \in 1 .. Len(wire'[p][h]), wire'[p][h][i] = Topic_line(x, TRUE)
       PROVE  Warned(wire'[p][h], i) /\ ServicesServer \in Behind_[p][h]
    <2>1. i + 1 \in 1 .. Len(wire[p][h]) /\ wire[p][h][i + 1] = Topic_line(x, TRUE)
        BY <1>9, <1>11
    <2>2. wire[p][h][i + 1].cmd # "SERVER"
        BY <2>1 DEF Topic_line
    <2>3. Warned(wire[p][h], i + 1)
        BY <1>7, <1>11, <2>1, <2>2 DEF Burst_of
    <2>4. PICK j \in 1 .. (i + 1) - 1 : wire[p][h][j] = About_services
        BY <2>3 DEF Warned
    <2>5. j # 1 /\ j \in 1 .. Len(wire[p][h])
        BY <1>2, <1>8, <2>1, <2>4
    <2>6. j - 1 \in 1 .. Len(wire'[p][h]) /\ wire'[p][h][j - 1] = About_services
        BY <1>1, <2>4, <2>5
    <2>7. j - 1 \in 1 .. i - 1
        BY <2>4, <2>6
    <2>8. Wired(p, h, wire[p][h], wire[h][p], joined[p], joined[h])
        BY <1>2 DEF OInv, AllWired
    <2>9. ServicesServer \in Behind_[p][h]
        BY <2>4, <2>5, <2>8, Wire_line_facts DEF Wired
    <2> QED BY <2>6, <2>7, <2>9 DEF Warned
<1>12. /\ x.time # 0 => Owed(p, h, Topic_line(x, TRUE))'
       /\ y.time # 0 => Owed(h, p, Topic_line(y, TRUE))'
    <2>1. ASSUME x.time # 0 PROVE \E i \in 1 .. Len(wire'[p][h]) : wire'[p][h][i] = Topic_line(x, TRUE)
        <3>1. PICK i \in 1 .. Len(wire[p][h]) : wire[p][h][i] = Topic_line(x, TRUE)
            BY <1>7, <2>1 DEF Burst_of
        <3>2. i # 1
            BY <1>2, <1>8, <3>1
        <3> QED BY <1>1, <3>1, <3>2
    <2>2. y.time # 0 => \E i \in 1 .. Len(wire'[h][p]) : wire'[h][p][i] = Topic_line(y, TRUE)
        BY <1>7 DEF Burst_of
    <2> QED BY <1>1, <2>1, <2>2 DEF Owed
<1>13. \A i \in 1 .. Len(wire'[h][p]) :
          /\ ServicesServer \notin seen[p] => wire'[h][p][i] # About_services
          /\ wire'[h][p][i] = Topic_line(y, TRUE) /\ ServicesServer \in seen[p] => Warned(wire'[h][p], i)
    <2>1. \A i : Topic_line(y, TRUE).cmd # "SERVER"
        BY DEF Topic_line
    <2> QED BY <1>7, <2>1 DEF Burst_of
<1>14. ASSUME NEW w, NEW i, Warned(w, i), i \in 1 .. Len(w), w \in Seq(Wire_lines)
       PROVE  \E j \in 1 .. Len(w) : w[j] = About_services
    BY <1>14 DEF Warned
<1>15. wire'[p][h] \in Seq(Wire_lines) /\ wire'[h][p] \in Seq(Wire_lines)
    BY <1>2, Hear_link_keeps DEF OInv, OTypes, Wires
<1>16. CASE x = y
    <2>1. \A i \in 1 .. Len(wire'[p][h]) : wire'[p][h][i] = Topic_line(topic[h], TRUE) /\ topic[h].time # 0 =>
              Taken(p, h, i, x, x, TRUE)' \/ Turned_down(p, h, i, x, x, TRUE)'
        BY <1>1, <1>16 DEF Taken
    <2>2. \A i \in 1 .. Len(wire'[h][p]) : wire'[h][p][i] = Topic_line(topic[p], TRUE) /\ topic[p].time # 0 =>
              Taken(h, p, i, x, x, TRUE)' \/ Turned_down(h, p, i, x, x, TRUE)'
        BY <1>1, <1>16 DEF Taken
    <2>3. Won_over(h, p, A \cup B, x, x, TRUE)
        BY <1>16, <2>1, <2>2 DEF Won_over
    <2>4. Wave(A \cup B, x, x, TRUE)'
        BY <2>3, Wave_begins
    <2> QED BY <1>2, <1>3, <2>4
(* The side of h gives way.                                                 *)
<1>17. CASE x # y /\ GivesWay(h, p, A)
    <2>0. PICK svc \in BOOLEAN : svc <=> ServicesServer \in seen[p]
        OBVIOUS
    <2> USE <2>0
    <2>1. /\ y.time # 0 /\ y.time # x.time /\ \A k \in A : ServicesServer \notin seen[k]
          /\ ~svc => A \cap services_on = {} /\ (x.time = 0 \/ y.time < x.time)
        BY <1>17 DEF GivesWay
    <2>2. ServicesServer \notin seen[h] /\ h \in A
        BY <2>1 DEF Meeting, One_side
    <2>3. ASSUME NEW i \in 1 .. Len(wire'[p][h]), wire'[p][h][i] = Topic_line(x, TRUE), x.time # 0
          PROVE  Turned_down(p, h, i, x, y, svc)'
        <3>1. ~Warned(wire'[p][h], i)
            BY <1>10, <1>14, <1>15, <2>2
        <3>2. \/ p \in services_on /\ h \notin spath[p] /\ ~Warned(wire'[p][h], i)
              \/ ~svc /\ p \notin services_on /\ y.time # 0 /\ y.time < x.time
            BY <1>5, <2>1, <2>3, <3>1
        <3> QED BY <1>1, <2>3, <3>2 DEF Turned_down
    <2>4. ASSUME NEW i \in 1 .. Len(wire'[h][p]), wire'[h][p][i] = Topic_line(y, TRUE)
          PROVE  Taken(h, p, i, x, y, svc)'
        <3>1. svc => ServicesServer \in Behind_[h][p] /\ Warned(wire'[h][p], i)
            BY <1>5, <1>13, <2>4
        <3> QED BY <1>1, <2>1, <2>4, <3>1 DEF Taken
    <2>5. ASSUME NEW k \in (A \cup B) \cap IrcServer, topic[k] = x PROVE Behindhand(k, svc)'
        <3>1. k \in A /\ k \in Host
            BY <1>17, <2>5 DEF Meeting, One_side, IrcServer
        <3>2. ServicesServer \notin seen'[k] /\ (~svc => k \notin services_on')
            BY <1>1, <1>6, <2>1, <3>1
        <3> QED BY <3>2 DEF Behindhand
    <2>6. svc \in BOOLEAN /\ (~svc => ServicesServer \notin seen[h] /\ ServicesServer \notin seen[p])
        BY <2>2
    <2>7. Wave(A \cup B, x, y, svc)'
        <3>1. \A i \in 1 .. Len(wire'[p][h]) : wire'[p][h][i] = Topic_line(topic[h], TRUE) /\ topic[h].time # 0 =>
                 Taken(p, h, i, x, y, svc)' \/ Turned_down(p, h, i, x, y, svc)'
            BY <2>3
        <3>2. \A i \in 1 .. Len(wire'[h][p]) : wire'[h][p][i] = Topic_line(topic[p], TRUE) /\ topic[p].time # 0 =>
                 Taken(h, p, i, x, y, svc)' \/ Turned_down(h, p, i, x, y, svc)'
            BY <2>4
        <3>3. IF topic[h] = x THEN Owed(h, p, Topic_line(y, TRUE))' ELSE Owed(p, h, Topic_line(y, TRUE))'
            BY <1>12, <1>17, <2>1
        <3>4. (topic[h] = x /\ topic[p] = y) \/ (topic[h] = y /\ topic[p] = x)
            OBVIOUS
        <3>5. \A k \in (A \cup B) \cap IrcServer : topic[k] = x => Behindhand(k, svc)'
            BY <2>5
        <3>6. Won_over(h, p, A \cup B, x, y, svc)
            BY <2>6, <3>1, <3>2, <3>3, <3>4, <3>5 DEF Won_over
        <3> QED BY <3>6, Wave_begins
    <2> QED BY <1>2, <1>3, <2>6, <2>7
(* The side of p does.                                                      *)
<1>18. CASE x # y /\ GivesWay(p, h, B)
    <2>0. PICK svc \in BOOLEAN : svc <=> ServicesServer \in seen[h]
        OBVIOUS
    <2> USE <2>0
    <2>1. /\ x.time # 0 /\ x.time # y.time /\ \A k \in B : ServicesServer \notin seen[k]
          /\ ~svc => B \cap services_on = {} /\ (y.time = 0 \/ x.time < y.time)
        BY <1>18 DEF GivesWay
    <2>2. ServicesServer \notin seen[p] /\ p \in B
        BY <2>1 DEF Meeting, One_side
    <2>3. ASSUME NEW i \in 1 .. Len(wire'[h][p]), wire'[h][p][i] = Topic_line(y, TRUE), y.time # 0
          PROVE  Turned_down(h, p, i, y, x, svc)'
        <3>1. ~Warned(wire'[h][p], i)
            BY <1>13, <1>14, <1>15, <2>2
        <3>2. \/ h \in services_on /\ p \notin spath[h] /\ ~Warned(wire'[h][p], i)
              \/ ~svc /\ h \notin services_on /\ x.time # 0 /\ x.time < y.time
            BY <1>2, <1>5, <2>1, <2>3, <3>1
        <3> QED BY <1>1, <2>3, <3>2 DEF Turned_down
    <2>4. ASSUME NEW i \in 1 .. Len(wire'[p][h]), wire'[p][h][i] = Topic_line(x, TRUE)
          PROVE  Taken(p, h, i, y, x, svc)'
        <3>1. svc => ServicesServer \in Behind_[p][h] /\ Warned(wire'[p][h], i)
            BY <1>11, <2>4
        <3> QED BY <1>1, <2>1, <2>4, <3>1 DEF Taken
    <2>5. ASSUME NEW k \in (A \cup B) \cap IrcServer, topic[k] = y PROVE Behindhand(k, svc)'
        <3>1. k \in B /\ k \in Host
            BY <1>18, <2>5 DEF Meeting, One_side, IrcServer
        <3>2. ServicesServer \notin seen'[k] /\ (~svc => k \notin services_on')
            BY <1>1, <1>6, <2>1, <3>1
        <3> QED BY <3>2 DEF Behindhand
    <2>6. svc \in BOOLEAN /\ (~svc => ServicesServer \notin seen[h] /\ ServicesServer \notin seen[p])
        BY <2>2
    <2>7. Wave(A \cup B, y, x, svc)'
        <3>1. \A i \in 1 .. Len(wire'[p][h]) : wire'[p][h][i] = Topic_line(topic[h], TRUE) /\ topic[h].time # 0 =>
                 Taken(p, h, i, y, x, svc)' \/ Turned_down(p, h, i, y, x, svc)'
            BY <2>4
        <3>2. \A i \in 1 .. Len(wire'[h][p]) : wire'[h][p][i] = Topic_line(topic[p], TRUE) /\ topic[p].time # 0 =>
                 Taken(h, p, i, y, x, svc)' \/ Turned_down(h, p, i, y, x, svc)'
            BY <2>3
        <3>3. IF topic[h] = y THEN Owed(h, p, Topic_line(x, TRUE))' ELSE Owed(p, h, Topic_line(x, TRUE))'
            BY <1>12, <1>18, <2>1
        <3>4. (topic[h] = y /\ topic[p] = x) \/ (topic[h] = x /\ topic[p] = y)
            OBVIOUS
        <3>5. \A k \in (A \cup B) \cap IrcServer : topic[k] = y => Behindhand(k, svc)'
            BY <2>5
        <3>6. Won_over(h, p, A \cup B, y, x, svc)
            BY <2>6, <3>1, <3>2, <3>3, <3>4, <3>5 DEF Won_over
        <3> QED BY <3>6, Wave_begins
    <2> QED BY <1>2, <1>3, <2>6, <2>7
<1> QED BY <1>16, <1>17, <1>18 DEF Meeting

-----------------------------------------------------------------------------
(* A wave: SERVERs, and TOPICs of netjoins.                                 *)
LEMMA Wave_lines ==
    ASSUME OInv, NEW C, NEW l, NEW w, NEW svc, Wave(C, l, w, svc)
    PROVE  /\ \A a, b \in Host : ~Shut(wire[a][b])
           /\ \A a, b \in Host : \A i \in 1 .. Len(wire[a][b]) : wire[a][b][i].cmd \in {"SERVER", "TOPIC"}
           /\ \A g \in Host : \A q \in Joint[g] : wire[g][q] # << >> => q \in joined[g]
<1>1. \A a, b \in Host : \A i \in 1 .. Len(wire[a][b]) : wire[a][b][i].cmd \in {"SERVER", "TOPIC"}
    BY DEF Wave
<1>2. \A a, b \in Host : ~Shut(wire[a][b])
    BY <1>1 DEF Shut, Closed
<1>3. Both_ways(joined)
    BY DEF Wave
<1>4. \A g \in Host : \A q \in Joint[g] : q \in Host
    BY Tree_facts
<1> QED BY <1>1, <1>2, <1>3, <1>4, Linked_up

LEMMA Wave_quiet ==
    ASSUME OInv, NEW C, NEW l, NEW w, NEW svc, Wave(C, l, w, svc), NEW g \in Host, NEW q \in Joint[g],
           Hear_close(g, q) \/ Hear_squit(g, q) \/ Hear_link(g, q)
    PROVE  FALSE
<1>1. wire[g][q] # << >>
    BY DEF Hear_close, Hear_squit, Hear_link, Next_line
<1>2. /\ wire[g][q][1] = Head(wire[g][q]) /\ 1 \in 1 .. Len(wire[g][q]) /\ q \in Host
    BY <1>1, Rest_facts
<1>3. wire[g][q][1].cmd \in {"SERVER", "TOPIC"} /\ q \in joined[g]
    BY <1>1, <1>2, Wave_lines
<1>4. CASE Hear_link(g, q)
    <2>1. Head(wire[g][q]).cmd = "SERVER" /\ Head(wire[g][q]).name = q /\ Head(wire[g][q]) # Closed
        BY <1>4 DEF Hear_link, Next_line, Closed
    <2> QED BY <1>1, <1>3, <2>1, Read_wired
<1> QED BY <1>2, <1>3, <1>4 DEF Hear_close, Hear_squit, Next_line

(* What was about services before a line is still before it, or was read.   *)
Line_after(g, q, N, m, a, b, i) ==
    \/ /\ <<a, b>> = <<g, q>> /\ i + 1 \in 1 .. Len(wire[a][b]) /\ wire'[a][b][i] = wire[a][b][i + 1]
       /\ Warned(wire[a][b], i + 1) <=> wire[a][b][1] = About_services \/ Warned(wire'[a][b], i)
    \/ /\ <<a, b>> # <<g, q>> /\ i \in 1 .. Len(wire[a][b]) /\ wire'[a][b][i] = wire[a][b][i]
       /\ Warned(wire[a][b], i) <=> Warned(wire'[a][b], i)
    \/ /\ <<a, b>> # <<g, q>> /\ i = Len(wire[a][b]) + 1 /\ b = g /\ a \in N /\ wire'[a][b][i] = m
       /\ Warned(wire'[a][b], i) <=> Owed(a, b, About_services)

LEMMA Warned_after ==
    ASSUME OInv, NEW g \in Host, NEW q \in Joint[g], NEW N, NEW m, Has_read(g, q, N, m),
           NEW a \in Host, NEW b \in Host, NEW i \in 1 .. Len(wire'[a][b])
    PROVE  Line_after(g, q, N, m, a, b, i)
<1> USE DEF Line_after
<1> DEFINE v == wire[a][b]
           u == wire'[a][b]
<1>1. v \in Seq(Wire_lines) /\ Len(v) \in Nat
    BY DEF OInv, OTypes, Wires
<1>2. CASE <<a, b>> = <<g, q>>
    <2>1. /\ \A j \in 1 .. Len(u) : j + 1 \in 2 .. Len(v) /\ u[j] = v[j + 1]
          /\ \A j \in 1 .. Len(v) : j = 1 \/ (j - 1 \in 1 .. Len(u) /\ u[j - 1] = v[j])
        BY <1>2 DEF Has_read
    <2> HIDE DEF u, v
    <2>2. i \in 1 .. Len(u)
        BY DEF u
    <2>3. i + 1 \in 2 .. Len(v) /\ u[i] = v[i + 1] /\ i + 1 \in 1 .. Len(v)
        <3>1. i + 1 \in 2 .. Len(v) /\ u[i] = v[i + 1]
            BY <2>1, <2>2
        <3> QED BY <3>1
    <2>4. ASSUME Warned(v, i + 1) PROVE v[1] = About_services \/ Warned(u, i)
        <3>1. PICK j \in 1 .. (i + 1) - 1 : v[j] = About_services
            BY <2>4 DEF Warned
        <3>2. j \in 1 .. Len(v)
            BY <1>1, <2>3, <3>1
        <3>3. CASE j # 1
            <4>1. j - 1 \in 1 .. Len(u) /\ u[j - 1] = About_services
                BY <2>1, <3>1, <3>2, <3>3
            <4>2. j - 1 \in 1 .. i - 1
                BY <3>1, <3>3
            <4> QED BY <4>1, <4>2 DEF Warned
        <3> QED BY <3>1, <3>3
    <2>5. ASSUME v[1] = About_services PROVE Warned(v, i + 1)
        <3>1. 1 \in 1 .. (i + 1) - 1
            BY <2>3
        <3> QED BY <2>5, <3>1 DEF Warned
    <2>6. ASSUME Warned(u, i) PROVE Warned(v, i + 1)
        <3>1. PICK j \in 1 .. i - 1 : u[j] = About_services
            BY <2>6 DEF Warned
        <3>2. j \in 1 .. Len(u) /\ j + 1 \in 1 .. (i + 1) - 1
            BY <1>1, <2>2, <2>3, <3>1
        <3>3. v[j + 1] = About_services
            BY <2>1, <3>1, <3>2
        <3> QED BY <3>2, <3>3 DEF Warned
    <2> QED BY <1>2, <2>3, <2>4, <2>5, <2>6 DEF u, v
<1>3. CASE <<a, b>> # <<g, q>>
    <2>1. /\ \A j \in 1 .. Len(v) : j \in 1 .. Len(u) /\ u[j] = v[j]
          /\ \A j \in 1 .. Len(u) : j \in 1 .. Len(v) \/ (j = Len(v) + 1 /\ b = g /\ a \in N /\ u[j] = m)
        BY <1>3 DEF Has_read
    <2> HIDE DEF u, v
    <2>2. i \in 1 .. Len(u)
        BY DEF u
    <2>3. CASE i \in 1 .. Len(v)
        <3>1. \A j \in 1 .. i - 1 : u[j] = v[j]
            <4>1. \A j \in 1 .. i - 1 : j \in 1 .. Len(v)
                BY <1>1, <2>3
            <4> QED BY <2>1, <4>1
        <3>2. u[i] = v[i] /\ (Warned(v, i) <=> Warned(u, i))
            BY <2>1, <2>3, <3>1 DEF Warned
        <3> QED BY <1>3, <2>3, <3>2 DEF u, v
    <2>4. CASE i = Len(v) + 1 /\ b = g /\ a \in N /\ u[i] = m
        <3>1. \A j : j \in 1 .. i - 1 <=> j \in 1 .. Len(v)
            BY <1>1, <2>4
        <3>2. Warned(u, i) <=> \E j \in 1 .. Len(v) : v[j] = About_services
            BY <2>1, <3>1 DEF Warned
        <3> QED BY <1>3, <2>4, <3>2 DEF Owed, u, v
    <2> QED BY <2>1, <2>2, <2>3, <2>4
<1> QED BY <1>2, <1>3

(* What is still owed.                                                      *)
LEMMA Owed_after ==
    ASSUME OInv, NEW g \in Host, NEW q \in Joint[g], NEW N, NEW m, Has_read(g, q, N, m),
           NEW a \in Host, NEW b \in Host, NEW line
    PROVE  /\ Owed(a, b, line) => Owed(a, b, line)' \/ (a = g /\ b = q /\ line = wire[g][q][1])
           /\ b = g /\ a \in N /\ ~Shut(wire[g][a]) /\ line = m => Owed(a, b, line)'
<1>1. ASSUME Owed(a, b, line), ~(a = g /\ b = q /\ line = wire[g][q][1])
      PROVE  \E i \in 1 .. Len(wire'[a][b]) : wire'[a][b][i] = line
    <2>1. PICK i \in 1 .. Len(wire[a][b]) : wire[a][b][i] = line
        BY <1>1 DEF Owed
    <2>2. CASE <<a, b>> # <<g, q>>
        BY <2>1, <2>2 DEF Has_read
    <2>3. CASE <<a, b>> = <<g, q>>
        <3>1. i # 1
            BY <1>1, <2>1, <2>3
        <3>2. \A j \in 1 .. Len(wire[g][q]) : j = 1 \/
                 (j - 1 \in 1 .. Len(wire'[g][q]) /\ wire'[g][q][j - 1] = wire[g][q][j])
            BY DEF Has_read
        <3>3. i - 1 \in 1 .. Len(wire'[a][b]) /\ wire'[a][b][i - 1] = line
            BY <2>1, <2>3, <3>1, <3>2
        <3> QED BY <3>3
    <2> QED BY <2>2, <2>3
<1>2. ASSUME b = g, a \in N, ~Shut(wire[g][a]), line = m
      PROVE  \E i \in 1 .. Len(wire'[a][b]) : wire'[a][b][i] = line
    BY <1>2 DEF Has_read
<1> QED BY <1>1, <1>2 DEF Owed

LEMMA Wave_server ==
    ASSUME OInv, NEW C, NEW l, NEW w, NEW svc, Wave(C, l, w, svc),
           NEW g \in Host, NEW q \in Joint[g], Hear_server(g, q)
    PROVE  Wave(C, l, w, svc)'
<1> DEFINE x == Head(wire[g][q]).name
           m == Server_line(x)
           N == joined[g] \ {q}
<1>1. /\ wire[g][q] # << >> /\ Head(wire[g][q]).cmd = "SERVER"
      /\ Head(wire[g][q]) # Closed /\ Head(wire[g][q]) # Server_line(q)
      /\ joined' = joined /\ topic' = topic /\ seen' = [seen EXCEPT ![g] = @ \cup {x}]
      /\ services_on' = IF x = ServicesServer THEN services_on \cup {g} ELSE services_on
      /\ spath' = IF x = ServicesServer THEN [spath EXCEPT ![g] = @ \cup {q}] ELSE spath
      /\ wire' = Sends(Rest_of(g, q), g, N, <<m>>)
    BY DEF Hear_server, Services_came, Next_line, Closed, Server_line
<1>2. q \in joined[g] /\ Head(wire[g][q]) \in Wire_lines /\ x \in Behind_[g][q]
    BY <1>1, Read_wired
<1>3. wire[g][q][1] = Head(wire[g][q]) /\ 1 \in 1 .. Len(wire[g][q]) /\ q \in Host
    BY <1>1, Rest_facts
<1>4. x \in Host /\ wire[g][q][1] = m
    BY <1>1, <1>2, <1>3, Wire_line_facts
<1>5. m \in Wire_lines /\ m.cmd = "SERVER" /\ (m = About_services <=> x = ServicesServer) /\ Reads(g, q, N, m)
    <2>1. m \in Wire_lines /\ m.cmd = "SERVER" /\ (m = About_services <=> x = ServicesServer)
        BY <1>4, Server_line_facts
    <2> HIDE DEF m
    <2> QED BY <1>1, <2>1 DEF Reads
<1> HIDE DEF m, x
<1>6. Has_read(g, q, N, m)
    BY <1>5, Heard
<1>7. joined[g] \subseteq Host /\ joined[g] \subseteq Joint[g] /\ g \notin joined[g] /\ seen \in Links /\ spath \in Links
    BY Tree_facts DEF OInv, OTypes, OSighted, Sighted, Links
<1>8. ~svc => x # ServicesServer
    <2>1. ~svc => wire[g][q][1] # About_services
        BY <1>3 DEF Wave
    <2> QED BY <1>4, <1>5, <2>1
<1>9. \A k \in Host : /\ ServicesServer \in seen'[k] <=> ServicesServer \in seen[k] \/ (k = g /\ x = ServicesServer)
                      /\ k \in services_on' <=> k \in services_on \/ (k = g /\ x = ServicesServer)
                      /\ \A b : b \in spath'[k] <=> b \in spath[k] \/ (k = g /\ b = q /\ x = ServicesServer)
    BY <1>1, <1>7 DEF Links
<1>10. ASSUME NEW a \in Host, NEW b \in Host, NEW i \in 1 .. Len(wire'[a][b])
       PROVE  wire'[a][b][i].cmd \in {"SERVER", "TOPIC"} /\ (~svc => wire'[a][b][i] # About_services)
    <2>1. wire'[a][b][i] = m \/ \E j \in 1 .. Len(wire[a][b]) : wire'[a][b][i] = wire[a][b][j]
        <3>1. Line_after(g, q, N, m, a, b, i)
            BY <1>6, Warned_after
        <3> QED BY <3>1 DEF Line_after
    <2>2. \A j \in 1 .. Len(wire[a][b]) :
             wire[a][b][j].cmd \in {"SERVER", "TOPIC"} /\ (~svc => wire[a][b][j] # About_services)
        BY DEF Wave
    <2> QED BY <1>5, <1>8, <2>1, <2>2
<1>11. ASSUME NEW a \in IrcServer, NEW b \in Host, NEW i \in 1 .. Len(wire'[a][b]), wire'[a][b][i].cmd = "TOPIC"
       PROVE  a \in C /\ b \in IrcServer /\ (Taken(a, b, i, l, w, svc)' \/ Turned_down(a, b, i, l, w, svc)')
    <2>0. a \in Host
        BY DEF IrcServer
    <2>1. PICK j \in 1 .. Len(wire[a][b]) :
             /\ wire'[a][b][i] = wire[a][b][j]
             /\ Warned(wire[a][b], j) <=> (<<a, b>> = <<g, q>> /\ m = About_services) \/ Warned(wire'[a][b], i)
        <3>1. Line_after(g, q, N, m, a, b, i)
            BY <1>6, <2>0, Warned_after
        <3> QED BY <1>4, <1>5, <1>11, <3>1 DEF Line_after
    <2>2. a \in C /\ b \in IrcServer /\ (Taken(a, b, j, l, w, svc) \/ Turned_down(a, b, j, l, w, svc))
        BY <1>11, <2>1 DEF Wave
    <2>3. CASE Taken(a, b, j, l, w, svc)
        <3>1. ServicesServer \in seen[a] \/ Warned(wire[a][b], j) => ServicesServer \in seen'[a] \/ Warned(wire'[a][b], i)
            BY <1>5, <1>9, <2>0, <2>1
        <3>2. Taken(a, b, i, l, w, svc)'
            BY <1>1, <2>1, <2>3, <3>1 DEF Taken
        <3> QED BY <2>2, <3>2
    <2>4. CASE Turned_down(a, b, j, l, w, svc)
        <3>1. a \in services_on /\ b \notin spath[a] /\ ~Warned(wire[a][b], j) =>
                 a \in services_on' /\ b \notin spath'[a] /\ ~Warned(wire'[a][b], i)
            BY <1>5, <1>9, <2>0, <2>1
        <3>2. ~svc /\ a \notin services_on => a \notin services_on'
            BY <1>8, <1>9, <2>0
        <3>3. wire'[a][b][i] = Topic_line(l, TRUE) /\ topic'[a] = w
            BY <1>1, <2>1, <2>4 DEF Turned_down
        <3>4. \/ l = w
              \/ a \in services_on' /\ b \notin spath'[a] /\ ~Warned(wire'[a][b], i)
              \/ ~svc /\ a \notin services_on' /\ w.time # 0 /\ w.time < l.time
            BY <2>4, <3>1, <3>2 DEF Turned_down
        <3>5. Turned_down(a, b, i, l, w, svc)'
            BY <3>3, <3>4 DEF Turned_down
        <3> QED BY <2>2, <3>5
    <2> QED BY <2>2, <2>3, <2>4
<1>12. ASSUME l # w, NEW k \in C \cap IrcServer, topic[k] = l PROVE Behindhand(k, svc)'
    <2>0. k \in Host
        BY DEF IrcServer
    <2>1. Behindhand(k, svc)
        BY <1>12 DEF Wave
    <2>2. ~svc => k \notin services_on'
        BY <1>8, <1>9, <2>0, <2>1 DEF Behindhand
    <2>3. ASSUME svc, ServicesServer \in seen'[k], NEW y \in joined[k] \cap IrcServer, ServicesServer \in Behind_[y][k]
          PROVE  ServicesServer \in seen'[y] \/ Owed(y, k, About_services)'
        <3>0. y \in Host
            BY DEF IrcServer
        <3>1. CASE ServicesServer \in seen[k]
            <4>1. ServicesServer \in seen[y] \/ Owed(y, k, About_services)
                BY <2>1, <2>3, <3>1 DEF Behindhand
            <4>2. CASE ServicesServer \in seen[y]
                BY <1>9, <3>0, <4>2
            <4>3. CASE Owed(y, k, About_services)
                <5>1. Owed(y, k, About_services)' \/ (y = g /\ k = q /\ About_services = m)
                    BY <1>4, <1>6, <2>0, <3>0, <4>3, Owed_after
                <5> QED BY <1>5, <1>9, <3>0, <5>1
            <4> QED BY <4>1, <4>2, <4>3
        <3>2. CASE ServicesServer \notin seen[k]
            <4>1. k = g /\ x = ServicesServer /\ m = About_services
                BY <1>5, <1>9, <2>0, <2>3, <3>2
            <4>2. y # q
                BY <1>2, <2>3, <4>1, Tree_sides
            <4>3. y \in N /\ ~Shut(wire[g][y])
                BY <2>3, <3>0, <4>1, <4>2, Wave_lines DEF N
            <4> QED BY <1>6, <3>0, <4>1, <4>3, Owed_after
        <3> QED BY <3>1, <3>2
    <2>4. joined'[k] = joined[k]
        BY <1>1
    <2> QED BY <2>2, <2>3, <2>4 DEF Behindhand
<1>13. ASSUME NEW a \in IrcServer, NEW b \in joined[a] \cap IrcServer
       PROVE  \/ Texts_agree(a, b)'
              \/ a \in C /\ topic'[a] = l /\ topic'[b] = w /\ Owed(a, b, Topic_line(w, TRUE))'
              \/ a \in C /\ topic'[b] = l /\ topic'[a] = w /\ Owed(b, a, Topic_line(w, TRUE))'
    <2>0. a \in Host /\ b \in Host
        BY DEF IrcServer
    <2>1. Topic_line(w, TRUE) # m
        BY <1>5 DEF Topic_line
    <2> DEFINE line == Topic_line(w, TRUE)
    <2> HIDE DEF line
    <2>2. ASSUME NEW c \in Host, NEW d \in Host, Owed(c, d, line) PROVE Owed(c, d, line)'
        <3>1. line # m
            BY <2>1 DEF line
        <3>2. ~(c = g /\ d = q /\ line = wire[g][q][1])
            BY <1>4, <3>1
        <3> QED BY <1>6, <2>2, <3>2, Owed_after
    <2> USE DEF line
    <2>3. \/ Texts_agree(a, b)
          \/ a \in C /\ topic[a] = l /\ topic[b] = w /\ Owed(a, b, Topic_line(w, TRUE))
          \/ a \in C /\ topic[b] = l /\ topic[a] = w /\ Owed(b, a, Topic_line(w, TRUE))
        BY DEF Wave
    <2>4. Texts_agree(a, b) => Texts_agree(a, b)'
        BY <1>1 DEF Texts_agree
    <2> QED BY <1>1, <2>0, <2>2, <2>3, <2>4
<1>14. /\ Both_ways(joined') /\ \A k \in C : joined'[k] \subseteq C
       /\ \A k \in C \cap IrcServer : topic'[k] \in {l, w}
    BY <1>1 DEF Wave
<1>15. l # w => \A k \in C \cap IrcServer : topic'[k] = l => Behindhand(k, svc)'
    BY <1>1, <1>12
<1>16. \A a \in IrcServer : \A b \in joined'[a] \cap IrcServer :
          \/ Texts_agree(a, b)'
          \/ a \in C /\ topic'[a] = l /\ topic'[b] = w /\ Owed(a, b, Topic_line(w, TRUE))'
          \/ a \in C /\ topic'[b] = l /\ topic'[a] = w /\ Owed(b, a, Topic_line(w, TRUE))'
    BY <1>1, <1>13
<1> QED BY <1>10, <1>11, <1>14, <1>15, <1>16 DEF Wave

(* A TOPIC of a netjoin is taken by who has yet to give up l, and by nobody  *)
(* else.                                                                    *)
Gives_up(g, q, l, w, svc) ==
    /\ ~Refused(g, q, wire[g][q][1]) /\ wire[g][q][1] = Topic_line(w, TRUE)
    /\ topic[q] = w /\ topic[g] = l /\ l # w /\ w.time # l.time
    /\ svc => ServicesServer \in Behind_[g][q] /\ ServicesServer \in seen[g]
    /\ ~svc => l.time = 0 \/ w.time < l.time
    /\ Behindhand(g, svc)
LEMMA Wave_read ==
    ASSUME OInv, NEW C, NEW l \in Topics, NEW w \in Topics, NEW svc, Wave(C, l, w, svc),
           NEW g \in IrcServer, NEW q \in Joint[g], Hear_topic(g, q)
    PROVE  /\ g \in C /\ q \in IrcServer
           /\ (Refused(g, q, wire[g][q][1]) /\ topic[g] = w) \/ Gives_up(g, q, l, w, svc)
<1>0. PICK m : m = wire[g][q][1]
    OBVIOUS
<1>1. g \in Host /\ g # ServicesServer
    BY DEF IrcServer
<1>2. q \in Host /\ m.cmd = "TOPIC" /\ q \in joined[g] /\ wire[g][q] # << >>
    BY <1>0, <1>1, Topic_heard
<1>3. 1 \in 1 .. Len(wire[g][q])
    BY <1>1, <1>2, Rest_facts
<1>4. /\ g \in C /\ q \in IrcServer
      /\ Taken(g, q, 1, l, w, svc) \/ Turned_down(g, q, 1, l, w, svc)
    BY <1>0, <1>2, <1>3 DEF Wave
<1>5. topic[g] \in {l, w} /\ (l # w /\ topic[g] = l => Behindhand(g, svc))
    BY <1>4 DEF Wave
<1>6. ~Warned(wire[g][q], 1)
    BY DEF Warned
<1>7. Sighted(g, joined[g], seen[g], spath[g], services_on, misled)
    BY <1>1 DEF OInv, OSighted
<1>8. Refused(g, q, m) <=> Keeps_ours(g, q, m)
    BY <1>1 DEF Refused
<1>9. \A t \in Topics : Topic_line(t, TRUE).time = t.time /\ Topic_line(t, TRUE).server /\ t.time \in Nat
    BY Topic_line_facts, Server_topic
<1>10. ASSUME Taken(g, q, 1, l, w, svc), topic[g] # w PROVE Gives_up(g, q, l, w, svc)
    <2>1. /\ m = Topic_line(w, TRUE) /\ topic[q] = w /\ w.time # l.time /\ topic[g] = l /\ l # w
          /\ svc => ServicesServer \in Behind_[g][q] /\ ServicesServer \in seen[g]
          /\ ~svc => l.time = 0 \/ w.time < l.time
        BY <1>0, <1>5, <1>6, <1>10 DEF Taken
    <2>2. Behindhand(g, svc)
        BY <1>5, <2>1
    <2>3. svc => g \in services_on /\ q \in spath[g]
        BY <1>2, <1>7, <2>1 DEF Sighted
    <2>4. ~svc => g \notin services_on
        BY <2>2 DEF Behindhand
    <2>5. m.time = w.time /\ m.server /\ w.time \in Nat /\ l.time \in Nat
        BY <1>9, <2>1
    <2>6. \/ g \in services_on /\ q \in spath[g]
          \/ g \notin services_on /\ (l.time = 0 \/ w.time < l.time)
        BY <2>1, <2>3, <2>4
    <2>7. topic[g].time = l.time /\ m.time # l.time /\ (l.time = 0 \/ m.time < l.time <=> l.time = 0 \/ w.time < l.time)
        BY <2>1, <2>5
    <2>8. ~Keeps_ours(g, q, m)
        BY <2>5, <2>6, <2>7 DEF Keeps_ours
    <2> QED BY <1>0, <1>8, <2>1, <2>2, <2>8 DEF Gives_up
<1>11. ASSUME topic[g] = w PROVE Keeps_ours(g, q, m)
    <2>1. CASE Taken(g, q, 1, l, w, svc)
        <3>1. m = Topic_line(w, TRUE)
            BY <1>0, <2>1 DEF Taken
        <3> QED BY <1>9, <1>11, <3>1 DEF Keeps_ours
    <2>2. CASE Turned_down(g, q, 1, l, w, svc)
        <3>1. /\ m = Topic_line(l, TRUE)
              /\ \/ l = w
                 \/ g \in services_on /\ q \notin spath[g]
                 \/ g \notin services_on /\ w.time # 0 /\ w.time < l.time
            BY <1>0, <2>2 DEF Turned_down
        <3>2. m.time = l.time /\ m.server /\ l.time \in Nat /\ w.time \in Nat
            BY <1>9, <3>1
        <3>3. \/ m.time = topic[g].time
              \/ g \in services_on /\ q \notin spath[g]
              \/ g \notin services_on /\ topic[g].time # 0 /\ topic[g].time <= m.time
            <4>1. topic[g].time = w.time
                BY <1>11
            <4>2. l = w => m.time = w.time
                BY <3>2
            <4>3. w.time < l.time => w.time <= m.time
                BY <3>2
            <4> QED BY <3>1, <4>1, <4>2, <4>3
        <3> QED BY <3>2, <3>3, Zenon DEF Keeps_ours
    <2> QED BY <1>4, <2>1, <2>2
<1>12. Turned_down(g, q, 1, l, w, svc) => topic[g] = w
    BY DEF Turned_down
<1> QED BY <1>0, <1>4, <1>8, <1>10, <1>11, <1>12

(* The line i that a has yet to read of b was the line j.                   *)
Was(a, b, i, j) ==
    /\ wire'[a][b][i] = wire[a][b][j]
    /\ Warned(wire[a][b], j) <=> Warned(wire'[a][b], i)

(* A TOPIC that is not taken goes no further.                               *)
LEMMA Wave_refuses ==
    ASSUME OInv, NEW C, NEW l, NEW w, NEW svc, Wave(C, l, w, svc),
           NEW g \in Host, NEW q \in Joint[g], Hear_topic(g, q), Refused(g, q, wire[g][q][1]),
           g = ServicesServer \/ topic[g] = w
    PROVE  Wave(C, l, w, svc)'
<1>1. /\ wire[g][q] # << >> /\ q \in Host /\ wire[g][q][1].cmd = "TOPIC" /\ wire[g][q][1] \in Wire_lines
      /\ UNCHANGED <<joined, seen, services_on, spath, topic>> /\ wire' = Rest_of(g, q)
    BY Topic_heard
<1>2. Reads(g, q, {}, wire[g][q][1])
    BY <1>1 DEF Reads
<1>3. PICK m : m = wire[g][q][1]
    OBVIOUS
<1>4. Has_read(g, q, {}, m) /\ m.cmd = "TOPIC" /\ m # About_services
    <2>1. m # About_services
        BY <1>1, <1>3 DEF About_services, Server_line
    <2> QED BY <1>1, <1>2, <1>3, <2>1, Heard
<1>5. ASSUME NEW a \in Host, NEW b \in Host, NEW i \in 1 .. Len(wire'[a][b])
      PROVE  \E j \in 1 .. Len(wire[a][b]) : Was(a, b, i, j)
    <2>1. Line_after(g, q, {}, m, a, b, i)
        BY <1>4, Warned_after
    <2> QED BY <1>3, <1>4, <2>1 DEF Line_after, Was
<1>6. ASSUME NEW a \in Host, NEW b \in Host, NEW line, Owed(a, b, line), <<a, b>> # <<g, q>> \/ line # m
      PROVE  Owed(a, b, line)'
    BY <1>3, <1>4, <1>6, Owed_after
<1>7. ASSUME NEW a \in Host, NEW b \in Host, NEW i \in 1 .. Len(wire'[a][b])
      PROVE  wire'[a][b][i].cmd \in {"SERVER", "TOPIC"} /\ (~svc => wire'[a][b][i] # About_services)
    <2>1. PICK j \in 1 .. Len(wire[a][b]) : Was(a, b, i, j)
        BY <1>5
    <2>2. wire'[a][b][i] = wire[a][b][j]
        BY <2>1 DEF Was
    <2>3. wire[a][b][j].cmd \in {"SERVER", "TOPIC"} /\ (~svc => wire[a][b][j] # About_services)
        BY DEF Wave
    <2> QED BY <2>2, <2>3
<1>8. ASSUME NEW a \in IrcServer, NEW b \in Host, NEW i \in 1 .. Len(wire'[a][b]), wire'[a][b][i].cmd = "TOPIC"
      PROVE  a \in C /\ b \in IrcServer /\ (Taken(a, b, i, l, w, svc)' \/ Turned_down(a, b, i, l, w, svc)')
    <2>0. a \in Host
        BY DEF IrcServer
    <2>a. PICK j \in 1 .. Len(wire[a][b]) : Was(a, b, i, j)
        BY <1>5, <2>0
    <2>1. wire'[a][b][i] = wire[a][b][j] /\ (Warned(wire[a][b], j) <=> Warned(wire'[a][b], i))
        BY <2>a DEF Was
    <2>2. a \in C /\ b \in IrcServer /\ (Taken(a, b, j, l, w, svc) \/ Turned_down(a, b, j, l, w, svc))
        BY <1>8, <2>1 DEF Wave
    <2>3. Taken(a, b, j, l, w, svc) => Taken(a, b, i, l, w, svc)'
        BY <1>1, <2>1 DEF Taken
    <2>4. Turned_down(a, b, j, l, w, svc) => Turned_down(a, b, i, l, w, svc)'
        BY <1>1, <2>1 DEF Turned_down
    <2> QED BY <2>2, <2>3, <2>4
<1>9. ASSUME l # w, NEW k \in C \cap IrcServer, topic[k] = l PROVE Behindhand(k, svc)'
    <2>1. Behindhand(k, svc)
        BY <1>9 DEF Wave
    <2>2. \A x \in joined[k] \cap IrcServer : Owed(x, k, About_services) => Owed(x, k, About_services)'
        BY <1>4, <1>6 DEF IrcServer
    <2> QED BY <1>1, <2>1, <2>2 DEF Behindhand
<1>10. ASSUME NEW a \in IrcServer, NEW b \in joined[a] \cap IrcServer
       PROVE  \/ Texts_agree(a, b)'
              \/ a \in C /\ topic'[a] = l /\ topic'[b] = w /\ Owed(a, b, Topic_line(w, TRUE))'
              \/ a \in C /\ topic'[b] = l /\ topic'[a] = w /\ Owed(b, a, Topic_line(w, TRUE))'
    <2>0. a \in Host /\ b \in Host /\ a # ServicesServer /\ b # ServicesServer
        BY DEF IrcServer
    <2>1. \/ Texts_agree(a, b)
          \/ a \in C /\ topic[a] = l /\ topic[b] = w /\ Owed(a, b, Topic_line(w, TRUE))
          \/ a \in C /\ topic[b] = l /\ topic[a] = w /\ Owed(b, a, Topic_line(w, TRUE))
        BY DEF Wave
    <2>2. Texts_agree(a, b) => Texts_agree(a, b)'
        BY <1>1 DEF Texts_agree
    <2>3. topic[a] = topic[b] => Texts_agree(a, b)
        BY DEF Texts_agree
    <2>4. Owed(a, b, Topic_line(w, TRUE)) => Owed(a, b, Topic_line(w, TRUE))' \/ a = g
        BY <1>6, <2>0
    <2>5. Owed(b, a, Topic_line(w, TRUE)) => Owed(b, a, Topic_line(w, TRUE))' \/ b = g
        BY <1>6, <2>0
    <2> QED BY <1>1, <2>0, <2>1, <2>2, <2>3, <2>4, <2>5
<1>11. /\ Both_ways(joined') /\ \A k \in C : joined'[k] \subseteq C
       /\ \A k \in C \cap IrcServer : topic'[k] \in {l, w}
    BY <1>1 DEF Wave
<1>12. l # w => \A k \in C \cap IrcServer : topic'[k] = l => Behindhand(k, svc)'
    BY <1>1, <1>9
<1>13. \A a \in IrcServer : \A b \in joined'[a] \cap IrcServer :
          \/ Texts_agree(a, b)'
          \/ a \in C /\ topic'[a] = l /\ topic'[b] = w /\ Owed(a, b, Topic_line(w, TRUE))'
          \/ a \in C /\ topic'[b] = l /\ topic'[a] = w /\ Owed(b, a, Topic_line(w, TRUE))'
    BY <1>1, <1>10
<1> QED BY <1>7, <1>8, <1>11, <1>12, <1>13 DEF Wave

(* A TOPIC that is taken goes on to whoever still has l.                    *)
LEMMA Wave_takes ==
    ASSUME OInv, NEW C, NEW l \in Topics, NEW w \in Topics, NEW svc, Wave(C, l, w, svc),
           NEW g \in IrcServer, NEW q \in Joint[g], Hear_topic(g, q),
           g \in C, q \in IrcServer, Gives_up(g, q, l, w, svc)
    PROVE  Wave(C, l, w, svc)'
<1>0. PICK m : m = Topic_line(w, TRUE)
    OBVIOUS
<1>1. /\ ~Refused(g, q, wire[g][q][1]) /\ wire[g][q][1] = m
      /\ topic[q] = w /\ topic[g] = l /\ l # w /\ w.time # l.time
      /\ Behindhand(g, svc)
    BY <1>0 DEF Gives_up
<1>2. /\ svc => ServicesServer \in Behind_[g][q] /\ ServicesServer \in seen[g]
      /\ ~svc => l.time = 0 \/ w.time < l.time
    BY DEF Gives_up
<1>3. m.cmd = "TOPIC" /\ m \in Wire_lines /\ m # About_services /\ m.text = w.text /\ Said_topic(m) = w
    BY <1>0, Topic_line_facts
<1>4. g \in Host /\ q \in Host /\ q # g /\ q \in joined[g] /\ joined[g] \subseteq Host /\ g \notin joined[g]
    <2>1. g \in Host
        BY DEF IrcServer
    <2>2. q \in Host /\ q # g /\ q \in joined[g]
        BY <2>1, Topic_heard
    <2> QED BY <2>1, <2>2, Tree_facts DEF OInv, OTypes, OSighted, Sighted, Links
<1>5. /\ UNCHANGED <<joined, seen, services_on, spath>> /\ wire[g][q] # << >>
      /\ topic' = [topic EXCEPT ![g] = w]
      /\ wire' = IF l.text = w.text THEN Rest_of(g, q)
                ELSE Sends(Rest_of(g, q), g, joined[g] \ {q}, <<m>>)
    <2>1. /\ UNCHANGED <<joined, seen, services_on, spath>> /\ wire[g][q] # << >>
          /\ topic' = IF Refused(g, q, m) THEN topic ELSE [topic EXCEPT ![g] = Said_topic(m)]
          /\ wire' = IF Refused(g, q, m) \/ Same_text(g, m.text) THEN Rest_of(g, q)
                    ELSE Sends(Rest_of(g, q), g, joined[g] \ {q}, <<m>>)
        BY <1>1, <1>4, Topic_heard
    <2> QED BY <1>1, <1>3, <2>1 DEF Same_text
<1>6. PICK N \in SUBSET (joined[g] \ {q}) :
         /\ (N = {} /\ l.text = w.text) \/ N = joined[g] \ {q}
         /\ wire' = Sends(Rest_of(g, q), g, N, <<m>>) \/ (N = {} /\ wire' = Rest_of(g, q))
    BY <1>5
<1>7. Has_read(g, q, N, m)
    <2>1. Reads(g, q, N, m)
        BY <1>3, <1>5, <1>6 DEF Reads
    <2> QED BY <1>4, <2>1, Heard
<1>8. topic'[g] = w /\ \A k \in Host : k # g => topic'[k] = topic[k]
    BY <1>4, <1>5 DEF OInv, OTypes
<1>9. ASSUME NEW a \in Host, NEW b \in Host, NEW i \in 1 .. Len(wire'[a][b])
      PROVE  \/ \E j \in 1 .. Len(wire[a][b]) : Was(a, b, i, j)
             \/ /\ b = g /\ a \in N /\ wire'[a][b][i] = m
                /\ Warned(wire'[a][b], i) <=> Owed(a, b, About_services)
    <2>1. Line_after(g, q, N, m, a, b, i)
        BY <1>4, <1>7, Warned_after
    <2>2. <<a, b>> = <<g, q>> => wire[a][b][1] # About_services
        BY <1>1, <1>3
    <2> QED BY <2>1, <2>2 DEF Line_after, Was
<1>10. ASSUME NEW a \in Host, NEW b \in Host, NEW line, Owed(a, b, line), <<a, b>> # <<g, q>> \/ line # m
       PROVE  Owed(a, b, line)'
    BY <1>1, <1>4, <1>7, <1>10, Owed_after
<1>11. ASSUME NEW a \in Host, NEW b \in Host, NEW i \in 1 .. Len(wire'[a][b])
       PROVE  wire'[a][b][i].cmd \in {"SERVER", "TOPIC"} /\ (~svc => wire'[a][b][i] # About_services)
    <2>1. CASE wire'[a][b][i] = m
        BY <1>3, <2>1
    <2>2. CASE \E j \in 1 .. Len(wire[a][b]) : Was(a, b, i, j)
        <3>1. PICK j \in 1 .. Len(wire[a][b]) : Was(a, b, i, j)
            BY <2>2
        <3>2. wire'[a][b][i] = wire[a][b][j]
            BY <3>1 DEF Was
        <3>3. wire[a][b][j].cmd \in {"SERVER", "TOPIC"} /\ (~svc => wire[a][b][j] # About_services)
            BY DEF Wave
        <3> QED BY <3>2, <3>3
    <2> QED BY <1>9, <2>1, <2>2
<1>12. ASSUME NEW a \in IrcServer, NEW b \in Host, NEW i \in 1 .. Len(wire'[a][b]), wire'[a][b][i].cmd = "TOPIC"
       PROVE  a \in C /\ b \in IrcServer /\ (Taken(a, b, i, l, w, svc)' \/ Turned_down(a, b, i, l, w, svc)')
    <2>0. a \in Host
        BY DEF IrcServer
    <2>1. CASE \E j \in 1 .. Len(wire[a][b]) : Was(a, b, i, j)
        <3>a. PICK j \in 1 .. Len(wire[a][b]) : Was(a, b, i, j)
            BY <2>1
        <3>1. wire'[a][b][i] = wire[a][b][j] /\ (Warned(wire[a][b], j) <=> Warned(wire'[a][b], i))
            BY <3>a DEF Was
        <3>2. a \in C /\ b \in IrcServer /\ (Taken(a, b, j, l, w, svc) \/ Turned_down(a, b, j, l, w, svc))
            BY <1>12, <3>1 DEF Wave
        <3>3. topic[a] = w => topic'[a] = w
            BY <1>8, <2>0
        <3>4. topic[b] = w => topic'[b] = w
            BY <1>8
        <3>5. Taken(a, b, j, l, w, svc) => Taken(a, b, i, l, w, svc)'
            BY <1>5, <3>1, <3>3, <3>4 DEF Taken
        <3>6. Turned_down(a, b, j, l, w, svc) => Turned_down(a, b, i, l, w, svc)'
            BY <1>5, <3>1, <3>3 DEF Turned_down
        <3> QED BY <3>2, <3>5, <3>6
    <2>2. CASE /\ b = g /\ a \in N /\ wire'[a][b][i] = m
               /\ Warned(wire'[a][b], i) <=> Owed(a, b, About_services)
        <3>1. a \in joined[g] /\ a \in Joint[g] /\ a # q /\ a # g
            BY <1>4, <1>6, <2>2 DEF OInv, OSighted, Sighted
        <3>2. a \in C
            BY <3>1 DEF Wave
        <3>3. svc => ServicesServer \in Behind_[a][g] /\ (ServicesServer \in seen'[a] \/ Warned(wire'[a][b], i))
            <4>1. svc => ServicesServer \in Behind_[a][g]
                BY <1>2, <1>4, <3>1, Tree_facts
            <4>2. svc => ServicesServer \in seen[a] \/ Owed(a, g, About_services)
                BY <1>1, <1>2, <3>1, <4>1 DEF Behindhand
            <4> QED BY <1>5, <2>2, <4>1, <4>2
        <3>4. Taken(a, b, i, l, w, svc)'
            BY <1>0, <1>1, <1>2, <1>8, <2>2, <3>3 DEF Taken
        <3> QED BY <2>2, <3>2, <3>4
    <2> QED BY <1>9, <2>0, <2>1, <2>2
<1>13. ASSUME NEW k \in C \cap IrcServer, topic'[k] = l PROVE Behindhand(k, svc)'
    <2>0. k \in Host /\ topic[k] = l
        BY <1>1, <1>8, <1>13 DEF IrcServer
    <2>1. Behindhand(k, svc)
        BY <1>1, <2>0 DEF Wave
    <2>2. \A x \in joined[k] \cap IrcServer : Owed(x, k, About_services) => Owed(x, k, About_services)'
        BY <1>3, <1>10, <2>0 DEF IrcServer
    <2> QED BY <1>5, <2>1, <2>2 DEF Behindhand
(* A neighbour of g has w, or is told of it.                                *)
<1>14. ASSUME NEW y \in joined[g] \cap IrcServer
       PROVE  topic'[y].text = w.text \/ (topic'[y] = l /\ Owed(y, g, Topic_line(w, TRUE))')
    <2>0. y \in Host /\ y # g /\ y \in C
        BY <1>4 DEF IrcServer, Wave
    <2>1. topic[y] \in {l, w} /\ topic'[y] = topic[y]
        BY <1>8, <2>0 DEF Wave
    <2>2. ASSUME topic[y] = l, l.text # w.text PROVE Owed(y, g, Topic_line(w, TRUE))'
        <3>1. y # q
            BY <1>1, <2>2
        <3>2. y \in N /\ ~Shut(wire[g][y])
            BY <1>4, <1>6, <2>0, <2>2, <3>1, Wave_lines
        <3>3. Owed(y, g, m)'
            BY <1>4, <1>7, <2>0, <3>2, Owed_after
        <3> QED BY <1>0, <3>3
    <2> QED BY <2>1, <2>2
<1>15. ASSUME NEW a \in IrcServer, NEW b \in joined[a] \cap IrcServer
       PROVE  \/ Texts_agree(a, b)'
              \/ a \in C /\ topic'[a] = l /\ topic'[b] = w /\ Owed(a, b, Topic_line(w, TRUE))'
              \/ a \in C /\ topic'[b] = l /\ topic'[a] = w /\ Owed(b, a, Topic_line(w, TRUE))'
    <2>0. a \in Host /\ b \in Host /\ a \in joined[b]
        BY DEF IrcServer, Wave, Both_ways
    <2>1. CASE a = g
        BY <1>8, <1>14, <2>1 DEF Texts_agree
    <2>2. CASE b = g
        <3>1. a \in joined[g] \cap IrcServer /\ a \in C
            BY <2>0, <2>2 DEF Wave
        <3> QED BY <1>8, <1>14, <2>2, <3>1 DEF Texts_agree
    <2>3. CASE a # g /\ b # g
        <3>1. \/ Texts_agree(a, b)
              \/ a \in C /\ topic[a] = l /\ topic[b] = w /\ Owed(a, b, Topic_line(w, TRUE))
              \/ a \in C /\ topic[b] = l /\ topic[a] = w /\ Owed(b, a, Topic_line(w, TRUE))
            BY DEF Wave
        <3>2. topic'[a] = topic[a] /\ topic'[b] = topic[b]
            BY <1>8, <2>0, <2>3
        <3>3. Texts_agree(a, b) => Texts_agree(a, b)'
            BY <3>2 DEF Texts_agree
        <3>4. Owed(a, b, Topic_line(w, TRUE)) => Owed(a, b, Topic_line(w, TRUE))'
            BY <1>10, <2>0, <2>3
        <3>5. Owed(b, a, Topic_line(w, TRUE)) => Owed(b, a, Topic_line(w, TRUE))'
            BY <1>10, <2>0, <2>3
        <3> QED BY <3>1, <3>2, <3>3, <3>4, <3>5
    <2> QED BY <2>1, <2>2, <2>3
<1>16. /\ Both_ways(joined') /\ \A k \in C : joined'[k] \subseteq C
       /\ \A k \in C \cap IrcServer : topic'[k] \in {l, w}
    <2>1. \A k \in C \cap IrcServer : topic'[k] \in {l, w}
        BY <1>8 DEF Wave, IrcServer
    <2> QED BY <1>5, <2>1 DEF Wave
<1>17. l # w => \A k \in C \cap IrcServer : topic'[k] = l => Behindhand(k, svc)'
    BY <1>13
<1>18. \A a \in IrcServer : \A b \in joined'[a] \cap IrcServer :
          \/ Texts_agree(a, b)'
          \/ a \in C /\ topic'[a] = l /\ topic'[b] = w /\ Owed(a, b, Topic_line(w, TRUE))'
          \/ a \in C /\ topic'[b] = l /\ topic'[a] = w /\ Owed(b, a, Topic_line(w, TRUE))'
    BY <1>5, <1>15
<1> QED BY <1>11, <1>12, <1>16, <1>17, <1>18 DEF Wave

LEMMA Wave_topic ==
    ASSUME OInv, NEW C, NEW l \in Topics, NEW w \in Topics, NEW svc, Wave(C, l, w, svc),
           NEW g \in Host, NEW q \in Joint[g], Hear_topic(g, q)
    PROVE  Wave(C, l, w, svc)'
<1>1. CASE g = ServicesServer
    <2>1. Refused(g, q, wire[g][q][1])
        BY <1>1 DEF Refused
    <2> QED BY <1>1, <2>1, Wave_refuses
<1>2. CASE g \in IrcServer
    <2>1. /\ g \in C /\ q \in IrcServer
          /\ (Refused(g, q, wire[g][q][1]) /\ topic[g] = w) \/ Gives_up(g, q, l, w, svc)
        BY <1>2, Wave_read
    <2> QED BY <1>2, <2>1, Wave_refuses, Wave_takes
<1> QED BY <1>1, <1>2 DEF IrcServer

-----------------------------------------------------------------------------
(* It stays in order, or is noted not to be.                                *)
LEMMA Order_next ==
    \/ Calm'
    \/ \E h, p \in Host : \E A, B \in SUBSET Host : Meeting(h, p, A, B)'
    \/ \E C \in SUBSET Host : \E l, w \in Topics : \E svc \in BOOLEAN : Wave(C, l, w, svc)'
    \/ \E t \in Topics : Spreading(t)'
    => In_order_still'
BY DEF In_order_still

LEMMA Order_taken ==
    ASSUME OInv, orderly => In_order_still, NEW h \in Host, NEW p \in Joint[h], Take_link(h, p), orderly'
    PROVE  In_order_still'
<1>1. orderly /\ Meet_well(h, p) /\ p \in Host
    <2>1. orderly' = (orderly /\ Meet_well(h, p)) /\ p \in Host
        BY Tree_facts DEF Take_link
    <2> QED BY <2>1
<1>2. Quiet_wires /\ In_order_still
    BY <1>1 DEF Meet_well
<1>3. CASE ServicesServer \in {h, p}
    BY <1>2, <1>3, Take_calms, Order_next
<1>4. CASE ServicesServer \notin {h, p}
    <2>1. \E A, B \in SUBSET Host : Meeting(h, p, A, B)'
        BY <1>1, <1>2, <1>4, Take_meets
    <2> QED BY <1>1, <2>1, Order_next
<1> QED BY <1>3, <1>4

LEMMA Order_lost ==
    ASSUME OInv, orderly => In_order_still, NEW h \in Host, NEW p \in Joint[h], Lose(h, p), orderly'
    PROVE  In_order_still'
<1>1. orderly /\ Quiet_wires
    <2>1. orderly' = (orderly /\ Quiet_wires)
        BY DEF Lose
    <2> QED BY <2>1
<1> QED BY <1>1, Lose_calms, Order_next

LEMMA Order_set ==
    ASSUME OInv, orderly => In_order_still, NEW h \in Host, NEW text \in Words, Set_topic(h, text), orderly'
    PROVE  In_order_still'
<1>1. orderly /\ Quiet_wires
    <2>1. orderly' = FALSE \/ orderly' = (orderly /\ Quiet_wires)
        BY DEF Set_topic
    <2> QED BY <2>1
<1> QED BY <1>1, Set_spreads, Order_next

Hears(h, p) ==
    \/ Hear_link(h, p) \/ Hear_server(h, p) \/ Hear_close(h, p) \/ Hear_squit(h, p) \/ Hear_topic(h, p)
LEMMA Order_heard ==
    ASSUME OInv, In_order_still, NEW h \in Host, NEW p \in Joint[h], Hears(h, p)
    PROVE  In_order_still'
<1>1. CASE Calm
    <2>1. Calm'
        BY <1>1, Calm_link, Calm_server, Calm_close, Calm_squit, Calm_topic DEF Hears
    <2> QED BY <2>1, Order_next
<1>2. ASSUME NEW k \in Host, NEW n \in Host, NEW A \in SUBSET Host, NEW B \in SUBSET Host, Meeting(k, n, A, B)
      PROVE  In_order_still'
    <2>1. CASE Hear_server(h, p)
        <3>1. Meeting(k, n, A, B)'
            BY <1>2, <2>1, Meeting_server
        <3> QED BY <3>1, Order_next
    <2>2. CASE h = n /\ p = k /\ Hear_link(h, p)
        BY <1>2, <2>2, Meet_waves, Order_next
    <2>3. CASE Hear_link(h, p) /\ <<h, p>> # <<n, k>>
        BY <1>2, <2>3, Meeting_quiet
    <2>4. CASE Hear_topic(h, p) \/ Hear_close(h, p) \/ Hear_squit(h, p)
        BY <1>2, <2>4, Meeting_quiet
    <2> QED BY <2>1, <2>2, <2>3, <2>4 DEF Hears
<1>3. ASSUME NEW C \in SUBSET Host, NEW l \in Topics, NEW w \in Topics, NEW svc \in BOOLEAN, Wave(C, l, w, svc)
      PROVE  In_order_still'
    <2>1. CASE Hear_server(h, p)
        <3>1. Wave(C, l, w, svc)'
            BY <1>3, <2>1, Wave_server
        <3> QED BY <3>1, Order_next
    <2>2. CASE Hear_topic(h, p)
        <3>1. Wave(C, l, w, svc)'
            BY <1>3, <2>2, Wave_topic
        <3> QED BY <3>1, Order_next
    <2> QED BY <1>3, <2>1, <2>2, Wave_quiet DEF Hears
<1>4. ASSUME NEW t \in Topics, Spreading(t) PROVE In_order_still'
    <2>1. CASE Hear_topic(h, p)
        <3>1. Spreading(t)'
            BY <1>4, <2>1, Spreading_goes_on
        <3> QED BY <3>1, Order_next
    <2>2. CASE ~Hear_topic(h, p)
        <3>1. wire[h][p] # << >> /\ Head(wire[h][p]).cmd # "TOPIC"
            BY <2>2 DEF Hears, Hear_link, Hear_server, Hear_close, Hear_squit, Next_line
        <3>2. wire[h][p][1] = Head(wire[h][p]) /\ 1 \in 1 .. Len(wire[h][p]) /\ p \in Host
            BY <3>1, Rest_facts
        <3>3. wire[h][p][1] = Topic_line(t, FALSE)
            BY <1>4, <3>2 DEF Spreading
        <3> QED BY <3>1, <3>2, <3>3 DEF Topic_line
    <2> QED BY <2>1, <2>2
<1> QED BY <1>1, <1>2, <1>3, <1>4 DEF In_order_still

LEMMA Order_step == Topic_inv /\ [ONext]_ovars => (orderly => In_order_still)'
<1> SUFFICES ASSUME OInv, orderly => In_order_still, [ONext]_ovars, orderly' PROVE In_order_still'
    BY DEF Topic_inv
<1>1. CASE UNCHANGED ovars
    <2>1. In_order_still /\ UNCHANGED <<joined, seen, topic, services_on, spath, wire>>
        BY <1>1 DEF ovars
    <2>2. Calm => Calm'
        BY <2>1 DEF Calm, Texts_agree
    <2>3. \A a, b, line : (Texts_agree(a, b)' <=> Texts_agree(a, b)) /\ (Owed(a, b, line)' <=> Owed(a, b, line))
        BY <2>1 DEF Texts_agree, Owed
    <2>4. ASSUME NEW h \in Host, NEW p \in Host, NEW A, NEW B, Meeting(h, p, A, B) PROVE Meeting(h, p, A, B)'
        <3>1. /\ One_side(h, p, A)' <=> One_side(h, p, A)
              /\ One_side(p, h, B)' <=> One_side(p, h, B)
            BY <2>1 DEF One_side
        <3>2. /\ GivesWay(h, p, A)' <=> GivesWay(h, p, A)
              /\ GivesWay(p, h, B)' <=> GivesWay(p, h, B)
            BY <2>1 DEF GivesWay
        <3>3. Burst_of(h, wire[p][h])' <=> Burst_of(h, wire[p][h])
            BY <2>1 DEF Burst_of
        <3> QED BY <2>1, <2>3, <2>4, <3>1, <3>2, <3>3 DEF Meeting
    <2>5. ASSUME NEW C, NEW l, NEW w, NEW svc, Wave(C, l, w, svc) PROVE Wave(C, l, w, svc)'
        <3>1. \A a, b, i : /\ Taken(a, b, i, l, w, svc) => Taken(a, b, i, l, w, svc)'
                           /\ Turned_down(a, b, i, l, w, svc) => Turned_down(a, b, i, l, w, svc)'
            <4>1. ASSUME NEW a, NEW b, NEW i, Taken(a, b, i, l, w, svc) PROVE Taken(a, b, i, l, w, svc)'
                BY <2>1, <4>1 DEF Taken
            <4>2. ASSUME NEW a, NEW b, NEW i, Turned_down(a, b, i, l, w, svc)
                  PROVE  Turned_down(a, b, i, l, w, svc)'
                BY <2>1, <4>2 DEF Turned_down
            <4> QED BY <4>1, <4>2
        <3>2. \A k : Behindhand(k, svc) => Behindhand(k, svc)'
            BY <2>1, <2>3 DEF Behindhand
        <3> QED BY <2>1, <2>3, <2>5, <3>1, <3>2 DEF Wave
    <2>6. ASSUME NEW t, Spreading(t) PROVE Spreading(t)'
        BY <2>1, <2>3, <2>6 DEF Spreading
    <2> QED BY <2>1, <2>2, <2>4, <2>5, <2>6, Order_next DEF In_order_still
<1>2. CASE ONext
    <2>1. PICK h \in Host :
            \/ \E p \in Joint[h] : Take_link(h, p) \/ Hears(h, p) \/ Lose(h, p)
            \/ \E text \in Words : Set_topic(h, text)
        BY <1>2 DEF ONext, Hears
    <2>2. ASSUME NEW p \in Joint[h], Hears(h, p) PROVE In_order_still'
        <3>1. orderly' = orderly
            BY <2>2 DEF Hears, Hear_link, Hear_server, Hear_close, Hear_squit, Hear_topic
        <3> QED BY <2>2, <3>1, Order_heard
    <2> QED BY <2>1, <2>2, Order_taken, Order_lost, Order_set
<1> QED BY <1>1, <1>2

(* THEOREM: when all lines are read, servers that are linked have one topic, *)
(* unless two changes, or a change and a netjoin, crossed, or a topic was    *)
(* set to what it was; and who believes in services knows of them or lost   *)
(* them with a server in between; whatever the tree and its size, whichever *)
(* links are made and lost and however many topics are set.  (m_topic,      *)
(* server_estab, m_server, m_squit, exit_client.)                           *)
THEOREM Topics_right == OSpec => []TopicsRight
<1>1. OInit => Topic_inv
    <2> SUFFICES ASSUME OInit PROVE Calm /\ OInv
        BY DEF Topic_inv, In_order_still
    <2>1. \A h \in Host : topic[h].text = NoTopic /\ \A n \in Host : wire[h][n] = << >>
        BY DEF OInit, Nothing_said
    <2>2. Calm
        BY <2>1 DEF Calm, Texts_agree, IrcServer
    <2> QED BY <2>2, OInv_init
<1>2. Topic_inv /\ [ONext]_ovars => Topic_inv'
    BY OInv_next, Order_step DEF Topic_inv
<1>3. Topic_inv => TopicsAgree
    BY Quiet_facts DEF Topic_inv, TopicsAgree, Texts_agree
<1>4. OSpec => []TopicsAgree
    BY <1>1, <1>2, <1>3, PTL DEF OSpec
<1> QED BY <1>4, Services_marked, PTL DEF TopicsRight
===============================================================================
