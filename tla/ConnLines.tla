------------------------------ MODULE ConnLines ------------------------------
(***************************************************************************)
(* Proofs about Conn, continued: which lines of the configuration clients  *)
(* hold, and whom the resolver has queries for.  The inductive invariants  *)
(* are Shaped and Live, on top of Ok of ConnProofs.                        *)
(***************************************************************************)
EXTENDS ConnProofs

-----------------------------------------------------------------------------
(* Which lines clients hold.  LinesHeld is a part of the invariant Shaped,  *)
(* which adds that only a registered client is an operator: what a client   *)
(* holds changes by the two functions of s_conf.c only, and its status      *)
(* changes next to them.                                                    *)

(* A client and the kinds of the lines it holds.                            *)
Shape(x, K) ==
  /\ x.st = "server" => "N" \in K /\ K \subseteq {"N", "H"}
  /\ x.st \in {"connecting", "handshake"} => K = {"C", "N"}
  /\ "O" \in K <=> x.oper = "listed"
  /\ x.oper # "no" => x.st = "person"
  /\ K # {} => x.st \notin {"free", "auth", "unknown"}

(* The neighbour is linked once.                                            *)
OneLink(s) ==
  \A c, d \in Conn : s.cl[c].st = "server" /\ s.cl[d].st = "server" => c = d

Shaped(s) == OneLink(s) /\ \A c \in Conn : Shape(s.cl[c], Kinds(s, c))

(* What changes nothing that Shape reads of one client.                     *)
SameShape(s, u, c) == /\ u.cl[c].st = s.cl[c].st /\ u.cl[c].oper = s.cl[c].oper
                      /\ Lines(u, c) = Lines(s, c)

(* Lines depends on the references only.                                    *)
LEMMA SameLines ==
  ASSUME NEW s, NEW u, u.held = s.held, NEW c
  PROVE  Lines(u, c) = Lines(s, c)
  BY DEF Lines, RefsOf

(* A step that concerns one client.                                         *)
LEMMA OneShape ==
  ASSUME NEW s, Shaped(s), NEW u, NEW c \in Conn,
         \A d \in Conn \ {c} : SameShape(s, u, d),
         Shape(u.cl[c], Kinds(u, c)),
         u.cl[c].st = "server" => \A d \in Conn \ {c} : s.cl[d].st # "server"
  PROVE  Shaped(u)
<1>1. \A d \in Conn \ {c} : Shape(u.cl[d], Kinds(u, d))
  BY DEF SameShape, Shaped, Shape, Kinds
<1>2. OneLink(u)
  BY DEF Shaped, OneLink, SameShape
<1> QED BY <1>1, <1>2 DEF Shaped

(* A step that changes neither lines nor status.                            *)
LEMMA KeepShape ==
  ASSUME NEW s, Shaped(s), NEW u, \A d \in Conn : SameShape(s, u, d)
  PROVE  Shaped(u)
<1>1. \A d \in Conn : Shape(u.cl[d], Kinds(u, d))
  BY DEF SameShape, Shaped, Shape, Kinds
<1> QED BY <1>1 DEF Shaped, OneLink, SameShape

(* attach_conf: the lines of c grow by S.                                   *)
LEMMA AttachLines ==
  ASSUME NEW s \in Tables, NEW c \in Conn, NEW S \in SUBSET Item,
         NEW u, u = Attach(s, c, S)
  PROVE  /\ u.cl = s.cl /\ Lines(u, c) = Lines(s, c) \cup S
         /\ \A d \in Conn \ {c} : Lines(u, d) = Lines(s, d)
         /\ u.stale = s.stale
<1>1. u.held = s.held \cup NewRefs(s, c, S) /\ u.cl = s.cl /\ u.stale = s.stale
  BY AttachFields
<1>2. Lines(u, c) = Lines(s, c) \cup S
  <2>1. \A i : i \in Lines(u, c) <=> i \in Lines(s, c) \/ i \in S
    <3>1. ASSUME NEW i, i \in Lines(u, c) PROVE i \in Lines(s, c) \/ i \in S
      <4>1. PICK r \in u.held : r[1] = c /\ r[2] = i
        BY <3>1 DEF Lines, RefsOf
      <4>2. CASE r \in s.held
        BY <4>1, <4>2 DEF Lines, RefsOf
      <4>3. CASE r \in NewRefs(s, c, S)
        BY <4>1, <4>3 DEF NewRefs
      <4> QED BY <1>1, <4>2, <4>3
    <3>2. ASSUME NEW i, i \in Lines(s, c) PROVE i \in Lines(u, c)
      BY <1>1, <3>2 DEF Lines, RefsOf
    <3>3. ASSUME NEW i \in S, i \notin Lines(s, c) PROVE i \in Lines(u, c)
      <4>1. <<c, i>> \in u.held
        BY <1>1, <3>3 DEF NewRefs
      <4> QED BY <4>1 DEF Lines, RefsOf
    <3> QED BY <3>1, <3>2, <3>3
  <2> QED BY <2>1
<1>3. ASSUME NEW d \in Conn \ {c} PROVE Lines(u, d) = Lines(s, d)
  <2>1. \A r \in NewRefs(s, c, S) : r[1] = c
    BY DEF NewRefs
  <2>2. RefsOf(u, {d}) = RefsOf(s, {d})
    BY <1>1, <2>1 DEF RefsOf
  <2> QED BY <2>2 DEF Lines
<1> QED BY <1>1, <1>2, <1>3

(* detach_conf: the lines of the references in refs are gone.               *)
LEMMA DetachLines ==
  ASSUME NEW s \in Tables, NEW refs \in SUBSET s.held,
         NEW u, u = Detach(s, refs)
  PROVE  /\ u.cl = s.cl /\ u.stale = s.stale
         /\ \A c \in Conn : Lines(u, c) = {i \in Lines(s, c) : <<c, i>> \notin refs}
<1>1. u.held = s.held \ refs /\ u.cl = s.cl /\ u.stale = s.stale
  BY DetachFields
<1>2. ASSUME NEW c \in Conn
      PROVE  Lines(u, c) = {i \in Lines(s, c) : <<c, i>> \notin refs}
  <2>0. \A r \in s.held : r = <<r[1], r[2]>>
    BY DEF Tables
  <2>1. ASSUME NEW i \in Lines(u, c) PROVE i \in Lines(s, c) /\ <<c, i>> \notin refs
    <3>1. PICK r \in u.held : r[1] = c /\ r[2] = i
      BY DEF Lines, RefsOf
    <3>2. r = <<c, i>> /\ r \in s.held /\ r \notin refs
      BY <1>1, <2>0, <3>1
    <3> QED BY <3>1, <3>2 DEF Lines, RefsOf
  <2>2. ASSUME NEW i \in Lines(s, c), <<c, i>> \notin refs PROVE i \in Lines(u, c)
    <3>1. PICK r \in s.held : r[1] = c /\ r[2] = i
      BY DEF Lines, RefsOf
    <3>2. r = <<c, i>>
      BY <2>0, <3>1
    <3> QED BY <1>1, <2>2, <3>1, <3>2 DEF Lines, RefsOf
  <2> QED BY <2>1, <2>2
<1> QED BY <1>1, <1>2

(* exit_client: what is left is what the others hold.                       *)
LEMMA ExitLines ==
  ASSUME NEW s \in Tables, NEW D \in SUBSET Conn, NEW u, u = Exit(s, D)
  PROVE  /\ \A c \in D : u.cl[c] = Gone /\ Lines(u, c) = {}
         /\ \A c \in Conn \ D : SameShape(s, u, c)
         /\ u.stale = s.stale
<1> DEFINE d == Detach(s, RefsOf(s, D))
<1>1. /\ RefsOf(s, D) \in SUBSET s.held /\ u.held = d.held /\ u.stale = s.stale
      /\ \A c \in Conn : u.cl[c] = IF c \in D THEN Gone ELSE s.cl[c]
  BY ExitFields
<1>2. \A c \in Conn : Lines(d, c) = {i \in Lines(s, c) : <<c, i>> \notin RefsOf(s, D)}
  BY <1>1, DetachLines
<1> HIDE DEF d
<1>3. \A c \in Conn : Lines(u, c) = Lines(d, c)
  BY <1>1, SameLines
<1>0. \A r \in s.held : r = <<r[1], r[2]>>
  BY DEF Tables
<1>4. ASSUME NEW c \in Conn, NEW i \in Lines(s, c)
      PROVE  <<c, i>> \in RefsOf(s, D) <=> c \in D
  <2>1. PICK r \in s.held : r[1] = c /\ r[2] = i
    BY DEF Lines, RefsOf
  <2>2. r = <<c, i>>
    BY <1>0, <2>1
  <2> QED BY <2>1, <2>2 DEF RefsOf
<1>5. \A c \in D : Lines(u, c) = {}
  BY <1>2, <1>3, <1>4
<1>6. \A c \in Conn \ D : Lines(u, c) = Lines(s, c)
  BY <1>2, <1>3, <1>4
<1> QED BY <1>1, <1>5, <1>6 DEF SameShape

(* A free slot has its shape without lines.                                 *)
LEMMA GoneShape == Shape(Gone, {})
  BY DEF Shape, Gone

(* Those that stay after exit_client keep their shape; of those that leave  *)
(* nothing need be known.                                                   *)
LEMMA ExitShape ==
  ASSUME NEW s \in Tables, NEW D \in SUBSET Conn, OneLink(s),
         \A c \in Conn \ D : Shape(s.cl[c], Kinds(s, c))
  PROVE  Shaped(Exit(s, D))
<1> DEFINE u == Exit(s, D)
<1>1. /\ \A c \in D : u.cl[c] = Gone /\ Lines(u, c) = {}
      /\ \A c \in Conn \ D : SameShape(s, u, c)
  BY ExitLines
<1> HIDE DEF u
<1>2. \A c \in D : Shape(u.cl[c], Kinds(u, c))
  BY <1>1, GoneShape DEF Kinds
<1>3. \A c \in Conn \ D : Shape(u.cl[c], Kinds(u, c))
  BY <1>1 DEF SameShape, Shape, Kinds
<1>4. OneLink(u)
  BY <1>1, GoneFacts DEF OneLink, SameShape
<1> QED BY <1>2, <1>3, <1>4 DEF u, Shaped

(* read_packet changes neither.                                             *)
LEMMA HeardShape ==
  ASSUME NEW s \in Tables, NEW c \in Conn
  PROVE  /\ Heard(s, c) \in Tables /\ Heard(s, c).stale = s.stale
         /\ \A d \in Conn : SameShape(s, Heard(s, c), d)
         /\ Heard(s, c).item = s.item
<1> DEFINE x == [s.cl[c] EXCEPT !.idle = 0, !.pinged = FALSE]
           u == Heard(s, c)
<1>1. s.cl[c] \in Client /\ 0 \in 0 .. MaxIdle
  BY ConnAssumption DEF Tables
<1>2. x \in Client /\ x.st = s.cl[c].st /\ x.oper = s.cl[c].oper
  BY <1>1 DEF Client
<1>3. u = [s EXCEPT !.cl = [s.cl EXCEPT ![c] = x]]
  BY DEF Heard, Tables
<1> HIDE DEF x, u
<1>4. /\ u \in Tables /\ u.held = s.held /\ u.stale = s.stale /\ u.item = s.item
      /\ u.cl[c] = x /\ \A d \in Conn \ {c} : u.cl[d] = s.cl[d]
  BY <1>2, <1>3 DEF Tables
<1>5. \A d \in Conn : Lines(u, d) = Lines(s, d)
  BY <1>4, SameLines
<1> QED BY <1>2, <1>4, <1>5 DEF u, SameShape

-----------------------------------------------------------------------------

(* A change of one field st or oper of a client, and of nothing that Shape  *)
(* reads otherwise.                                                         *)
LEMMA SetShape ==
  ASSUME NEW s \in Tables, NEW c \in Conn, NEW x \in Client,
         NEW u, u.cl = [s.cl EXCEPT ![c] = x], u.held = s.held
  PROVE  /\ u.cl[c] = x /\ \A d \in Conn \ {c} : SameShape(s, u, d)
         /\ Lines(u, c) = Lines(s, c)
<1>1. u.cl[c] = x /\ \A d \in Conn \ {c} : u.cl[d] = s.cl[d]
  BY DEF Tables
<1>2. \A d \in Conn : Lines(u, d) = Lines(s, d)
  BY <1>1, SameLines
<1> QED BY <1>1, <1>2 DEF SameShape

(* While a client is not registered and not a link it holds nothing.        *)
LEMMA HoldsNothing ==
  ASSUME NEW s, Shaped(s), NEW c \in Conn, s.cl[c].st \in {"free", "auth", "unknown"}
  PROVE  Kinds(s, c) = {} /\ Lines(s, c) = {} /\ s.cl[c].oper = "no"
<1>1. Kinds(s, c) = {} /\ s.cl[c].oper = "no"
  BY DEF Shaped, Shape
<1> QED BY <1>1 DEF Kinds

(* Unregistered clients have their shape without lines.                     *)
LEMMA UnheldShape ==
  ASSUME NEW x, x.st \in {"free", "auth", "unknown"}, x.oper = "no"
  PROVE  Shape(x, {})
  BY DEF Shape

(* What the auth module does to a client that holds nothing.                *)
LEMMA AuthShape ==
  ASSUME Ok(t), Shaped(t), NEW c \in Conn, t.cl[c].st \in {"free", "auth"},
         NEW u, u.held = t.held, u.cl[c].st \in {"auth", "unknown"}, u.cl[c].oper = "no",
         \A d \in Conn \ {c} : u.cl[d] = t.cl[d]
  PROVE  Shaped(u)
<1>1. \A d \in Conn : Lines(u, d) = Lines(t, d)
  BY SameLines
<1>2. Kinds(u, c) = {}
  BY <1>1, HoldsNothing DEF Kinds
<1>3. Shape(u.cl[c], Kinds(u, c))
  BY <1>2, UnheldShape
<1>4. \A d \in Conn \ {c} : SameShape(t, u, d)
  BY <1>1 DEF SameShape
<1> QED BY <1>3, <1>4, OneShape

(* release_auth_client gives an unknown client or the same.                 *)
LEMMA ReleaseFields ==
  ASSUME NEW v \in Tables, NEW c \in Conn, NEW u, u = Release(v, c)
  PROVE  /\ u.held = v.held /\ u.stale = v.stale
         /\ \A d \in Conn \ {c} : u.cl[d] = v.cl[d]
         /\ u.cl[c].oper = v.cl[c].oper /\ u.cl[c].st \in {v.cl[c].st, "unknown"}
<1> DEFINE y == [v.cl[c] EXCEPT !.st = "unknown"]
<1>1. CASE u = v
  BY <1>1
<1>2. CASE u = [v EXCEPT !.cl[c].st = "unknown"]
  <2>1. v.cl[c] \in Client
    BY DEF Tables
  <2>2. y.st = "unknown" /\ y.oper = v.cl[c].oper
    BY <2>1 DEF Client
  <2>3. u = [v EXCEPT !.cl = [v.cl EXCEPT ![c] = y]]
    BY <1>2 DEF Tables
  <2> HIDE DEF y
  <2>4. u.held = v.held /\ u.stale = v.stale /\ u.cl[c] = y
        /\ \A d \in Conn \ {c} : u.cl[d] = v.cl[d]
    BY <2>3 DEF Tables
  <2> QED BY <2>2, <2>4
<1> QED BY <1>1, <1>2 DEF Release

(* accept_connection takes a free slot, which holds nothing.                *)
LEMMA AcceptShape ==
  ASSUME Ok(t), Shaped(t), NEW c \in Conn, NEW a \in Addr, NEW p \in Port,
         NEW asked \in BOOLEAN, Accept(c, a, p, asked)
  PROVE  Shaped(t')
<1> DEFINE new == [Gone EXCEPT !.st = "auth", !.addr = a, !.port = p,
                               !.ident = IF asked THEN "connect" ELSE "none",
                               !.dns = ReverseLookup]
           lis == [t.lis EXCEPT ![p] = [t.lis[p] EXCEPT !.ref = @ + 1]]
           asking == IF ReverseLookup THEN t.asking \cup {c} ELSE t.asking
           s == [t EXCEPT !.cl = [t.cl EXCEPT ![c] = new], !.lis = lis, !.asking = asking]
<1>1. t \in Tables /\ t.cl[c].st = "free"
  BY DEF Ok, Accept
<1>2. new \in Client /\ new.st = "auth" /\ new.oper = "no"
  BY GoneFacts, ConnAssumption DEF Client, Statuses, Gone
<1>3. t' = Release(s, c)
  BY <1>1 DEF Accept, Tables
<1>4. lis \in [Port -> [open : BOOLEAN, active : BOOLEAN, ref : Int]]
  BY <1>1 DEF Tables
<1>5. asking \in SUBSET Conn
  BY <1>1 DEF Tables
<1> HIDE DEF new, lis, asking
<1>6. /\ s \in Tables /\ s.held = t.held /\ s.cl[c] = new
      /\ \A d \in Conn \ {c} : s.cl[d] = t.cl[d]
  BY <1>1, <1>2, <1>4, <1>5 DEF Tables
<1> HIDE DEF s
<1>7. /\ t'.held = s.held /\ \A d \in Conn \ {c} : t'.cl[d] = s.cl[d]
      /\ t'.cl[c].oper = s.cl[c].oper /\ t'.cl[c].st \in {s.cl[c].st, "unknown"}
  BY <1>3, <1>6, ReleaseFields
<1> QED BY <1>1, <1>2, <1>6, <1>7, AuthShape

(* Ident and DNS make an unknown client of one in the auth module.          *)
LEMMA IdentDnsShape ==
  ASSUME Ok(t), Shaped(t), NEW c \in Conn, SendAuthQuery(c) \/ EndIdent(c) \/ DnsAnswer(c)
  PROVE  Shaped(t')
<1>1. t \in Tables /\ t.cl[c] \in Client /\ Sound(t.cl[c]) /\ (c \in t.asking <=> t.cl[c].dns)
  BY ClientFacts
<1>2. t.cl[c].st = "auth" /\ t.cl[c].oper = "no"
  <2>1. t.cl[c].st = "auth"
    BY <1>1 DEF Sound, SendAuthQuery, EndIdent, DnsAnswer
  <2> QED BY <2>1, HoldsNothing
<1>3. ASSUME NEW x \in Client, x.st = "auth", x.oper = "no", NEW q \in SUBSET Conn,
             NEW s, s = [t EXCEPT !.cl = [t.cl EXCEPT ![c] = x], !.asking = q],
             t' = s \/ t' = Release(s, c)
      PROVE  Shaped(t')
  <2>1. /\ s \in Tables /\ s.held = t.held /\ s.cl[c] = x
        /\ \A d \in Conn \ {c} : s.cl[d] = t.cl[d]
    BY <1>1, <1>3 DEF Tables
  <2>2. /\ t'.held = s.held /\ \A d \in Conn \ {c} : t'.cl[d] = s.cl[d]
        /\ t'.cl[c].oper = "no" /\ t'.cl[c].st \in {"auth", "unknown"}
    <3>1. CASE t' = s
      BY <1>3, <2>1, <3>1
    <3>2. CASE t' = Release(s, c)
      <4>1. s \in Tables
        BY <2>1
      <4>2. /\ t'.held = s.held /\ \A d \in Conn \ {c} : t'.cl[d] = s.cl[d]
            /\ t'.cl[c].oper = s.cl[c].oper /\ t'.cl[c].st \in {s.cl[c].st, "unknown"}
        BY <3>2, <4>1, ReleaseFields
      <4>3. s.cl[c].oper = "no" /\ s.cl[c].st = "auth"
        BY <1>3, <2>1
      <4> QED BY <4>2, <4>3
    <3> QED BY <1>3, <3>1, <3>2
  <2> QED BY <1>2, <2>1, <2>2, AuthShape
<1>4. CASE SendAuthQuery(c)
  <2> DEFINE x == [t.cl[c] EXCEPT !.ident = "pending"]
  <2>1. x \in Client /\ x.st = "auth" /\ x.oper = "no"
    BY <1>1, <1>2 DEF Client
  <2>2. t' = [t EXCEPT !.cl = [t.cl EXCEPT ![c] = x], !.asking = t.asking]
    BY <1>1, <1>4 DEF SendAuthQuery, Tables
  <2>3. t.asking \in SUBSET Conn
    BY <1>1 DEF Tables
  <2> HIDE DEF x
  <2> QED BY <1>3, <2>1, <2>2, <2>3
<1>5. CASE EndIdent(c)
  <2> DEFINE x == [t.cl[c] EXCEPT !.ident = "none"]
             s == [t EXCEPT !.cl = [t.cl EXCEPT ![c] = x], !.asking = t.asking]
  <2>1. x \in Client /\ x.st = "auth" /\ x.oper = "no"
    BY <1>1, <1>2 DEF Client
  <2>2. t' = Release(s, c)
    BY <1>1, <1>5 DEF EndIdent, Tables
  <2>3. t.asking \in SUBSET Conn
    BY <1>1 DEF Tables
  <2> HIDE DEF x
  <2> QED BY <1>3, <2>1, <2>2, <2>3
<1>6. CASE DnsAnswer(c)
  <2> DEFINE x == [t.cl[c] EXCEPT !.dns = FALSE]
             q == t.asking \ {c}
             s == [t EXCEPT !.cl = [t.cl EXCEPT ![c] = x], !.asking = q]
  <2>1. x \in Client /\ x.st = "auth" /\ x.oper = "no"
    BY <1>1, <1>2 DEF Client
  <2>2. t' = Release(s, c)
    BY <1>1, <1>6 DEF DnsAnswer, Tables
  <2>3. q \in SUBSET Conn
    BY <1>1 DEF Tables
  <2> HIDE DEF x, q
  <2> QED BY <1>3, <2>1, <2>2, <2>3
<1> QED BY <1>4, <1>5, <1>6

(* RefuseClient and Lose are exit_client for one client.                    *)
LEMMA LeaveShape ==
  ASSUME Ok(t), Shaped(t), NEW c \in Conn, RefuseClient(c) \/ Lose(c)
  PROVE  Shaped(t')
<1>1. t \in Tables
  BY DEF Ok
<1>2. CASE Lose(c)
  BY <1>1, <1>2, ExitShape DEF Lose, Shaped
<1>3. CASE RefuseClient(c)
  <2> DEFINE h == Heard(t, c)
  <2>1. h \in Tables /\ \A d \in Conn : SameShape(t, h, d)
    BY <1>1, HeardShape
  <2> HIDE DEF h
  <2>2. Shaped(h)
    BY <2>1, KeepShape
  <2>3. t' = Exit(h, {c})
    BY <1>3 DEF RefuseClient, h
  <2> QED BY <2>1, <2>2, <2>3, ExitShape DEF Shaped
<1> QED BY <1>2, <1>3

(* Timers, flags and sends.                                                 *)
LEMMA FlagsShape ==
  ASSUME Ok(t), Shaped(t), NEW c \in Conn, Read(c) \/ SendFails(c)
  PROVE  Shaped(t')
<1>1. t \in Tables /\ t.cl[c] \in Client
  BY ClientFacts
<1>2. CASE Read(c)
  BY <1>1, <1>2, HeardShape, KeepShape DEF Read
<1>3. CASE SendFails(c)
  <2> DEFINE x == [t.cl[c] EXCEPT !.dead = TRUE]
  <2>1. x \in Client /\ x.st = t.cl[c].st /\ x.oper = t.cl[c].oper
    BY <1>1 DEF Client
  <2>2. t'.cl = [t.cl EXCEPT ![c] = x] /\ t'.held = t.held
    BY <1>1, <1>3 DEF SendFails, Tables
  <2> HIDE DEF x
  <2>3. /\ t'.cl[c] = x /\ \A d \in Conn \ {c} : SameShape(t, t', d)
        /\ Lines(t', c) = Lines(t, c)
    BY <1>1, <2>1, <2>2, SetShape
  <2>4. \A d \in Conn : SameShape(t, t', d)
    BY <2>1, <2>3 DEF SameShape
  <2> QED BY <2>4, KeepShape
<1> QED BY <1>2, <1>3

(* completed_connection: a link on its way keeps its C and N line.          *)
LEMMA ConnectedShape ==
  ASSUME Ok(t), Shaped(t), NEW c \in Conn, Connected(c)
  PROVE  Shaped(t')
<1> DEFINE x == [t.cl[c] EXCEPT !.st = "handshake"]
<1>1. t \in Tables /\ t.cl[c] \in Client /\ t.cl[c].st = "connecting"
  BY ClientFacts DEF Connected
<1>2. x \in Client /\ x.st = "handshake" /\ x.oper = t.cl[c].oper
  BY <1>1 DEF Client, Statuses
<1>3. t'.cl = [t.cl EXCEPT ![c] = x] /\ t'.held = t.held
  BY <1>1 DEF Connected, Tables
<1> HIDE DEF x
<1>4. /\ t'.cl[c] = x /\ \A d \in Conn \ {c} : SameShape(t, t', d)
      /\ Lines(t', c) = Lines(t, c)
  BY <1>1, <1>2, <1>3, SetShape
<1>5. Shape(x, Kinds(t, c))
  BY <1>1, <1>2 DEF Shaped, Shape
<1>6. Kinds(t', c) = Kinds(t, c)
  BY <1>4 DEF Kinds
<1> QED BY <1>2, <1>4, <1>5, <1>6, OneShape

(* m_svsmode +o gives a status without a line.                              *)
LEMMA SvsOperShape ==
  ASSUME Ok(t), Shaped(t), NEW c \in Conn, SvsOper(c)
  PROVE  Shaped(t')
<1> DEFINE x == [t.cl[c] EXCEPT !.oper = "given"]
<1>1. t \in Tables /\ t.cl[c] \in Client /\ t.cl[c].st = "person" /\ t.cl[c].oper = "no"
  BY ClientFacts DEF SvsOper
<1>2. x \in Client /\ x.st = "person" /\ x.oper = "given"
  BY <1>1 DEF Client
<1>3. t'.cl = [t.cl EXCEPT ![c] = x] /\ t'.held = t.held
  BY <1>1 DEF SvsOper, Tables
<1> HIDE DEF x
<1>4. /\ t'.cl[c] = x /\ \A d \in Conn \ {c} : SameShape(t, t', d)
      /\ Lines(t', c) = Lines(t, c)
  BY <1>1, <1>2, <1>3, SetShape
<1>5. Shape(x, Kinds(t, c))
  BY <1>1, <1>2 DEF Shaped, Shape
<1>6. Kinds(t', c) = Kinds(t, c)
  BY <1>4 DEF Kinds
<1> QED BY <1>2, <1>4, <1>5, <1>6, OneShape

(* register_user: who is refused leaves, who is let in holds its I line.    *)
LEMMA RegisterShape ==
  ASSUME Ok(t), Shaped(t), NEW c \in Conn, NEW i \in Item, NEW welcome \in BOOLEAN,
         Register(c, i, welcome)
  PROVE  Shaped(t')
<1> DEFINE h == Heard(t, c)
           a == t.cl[c].addr
           s == WithAddress(h, c, a)
           u == Attach(s, c, {i})
<1>1. /\ t \in Tables /\ t.cl[c].st = "unknown" /\ i \in Listed(t) /\ KindOf(i) = "I"
      /\ h \in Tables /\ \A d \in Conn : SameShape(t, h, d)
  BY HeardShape DEF Register, ListedAs, Ok
<1>2. /\ Ok(h) /\ a = h.cl[c].addr
  BY HeardOk
<1>3. \/ t' = Exit(s, {c})
      \/ t' = [u EXCEPT !.cl[c].st = "person"]
      \/ t' = Exit(u, {c})
  BY DEF Register, WithAddress
<1> HIDE DEF h, a
<1>4. Kinds(h, c) = {} /\ Lines(h, c) = {} /\ h.cl[c].oper = "no" /\ h.cl[c].st = "unknown"
  BY <1>1, HoldsNothing DEF SameShape, Kinds
<1>5. Shaped(h)
  BY <1>1, KeepShape
<1>6. /\ s \in Tables /\ \A d \in Conn : SameShape(h, s, d)
  <2>1. s \in Tables
    BY <1>2, <1>4, CountAddress DEF Almost
  <2> DEFINE x == [h.cl[c] EXCEPT !.counted = TRUE]
  <2>2. h.cl[c] \in Client
    BY <1>1 DEF Tables
  <2>3. x.st = h.cl[c].st /\ x.oper = h.cl[c].oper
    BY <2>2 DEF Client
  <2>4. s.held = h.held /\ s.cl = [h.cl EXCEPT ![c] = x]
    BY <1>1 DEF WithAddress, Tables
  <2> HIDE DEF x, s
  <2>5. \A d \in Conn : Lines(s, d) = Lines(h, d)
    BY <2>4, SameLines
  <2>6. s.cl[c] = x /\ \A d \in Conn \ {c} : s.cl[d] = h.cl[d]
    BY <1>1, <2>4 DEF Tables
  <2> QED BY <2>1, <2>3, <2>5, <2>6 DEF SameShape
<1> HIDE DEF s
<1>7. Shaped(s) /\ Lines(s, c) = {}
  BY <1>4, <1>5, <1>6, KeepShape DEF SameShape
<1>8. /\ u \in Tables /\ u.cl = s.cl /\ Lines(u, c) = {i}
      /\ \A d \in Conn \ {c} : Lines(u, d) = Lines(s, d)
  <2>1. {i} \in SUBSET Item
    OBVIOUS
  <2>2. /\ u.cl = s.cl /\ Lines(u, c) = Lines(s, c) \cup {i}
        /\ \A d \in Conn \ {c} : Lines(u, d) = Lines(s, d)
    BY <1>6, <2>1, AttachLines
  <2>3. u \in Tables
    BY <1>6, <2>1, AttachFields
  <2> QED BY <1>7, <2>2, <2>3
<1> HIDE DEF u
<1>9. \A d \in Conn \ {c} : SameShape(s, u, d)
  BY <1>8 DEF SameShape
<1>10. CASE t' = Exit(s, {c})
  BY <1>6, <1>7, <1>10, ExitShape DEF Shaped
<1>11. CASE t' = Exit(u, {c})
  <2>1. OneLink(u)
    BY <1>7, <1>8 DEF Shaped, OneLink
  <2>2. \A d \in Conn \ {c} : Shape(u.cl[d], Kinds(u, d))
    BY <1>7, <1>9 DEF SameShape, Shaped, Shape, Kinds
  <2> QED BY <1>8, <1>11, <2>1, <2>2, ExitShape
<1>12. CASE t' = [u EXCEPT !.cl[c].st = "person"]
  <2> DEFINE x == [u.cl[c] EXCEPT !.st = "person"]
  <2>1. u.cl[c] \in Client /\ u.cl[c].oper = "no"
    BY <1>4, <1>6, <1>8 DEF Tables, SameShape
  <2>2. x \in Client /\ x.st = "person" /\ x.oper = "no"
    BY <2>1 DEF Client, Statuses
  <2>3. t'.cl = [u.cl EXCEPT ![c] = x] /\ t'.held = u.held
    BY <1>8, <1>12 DEF Tables
  <2> HIDE DEF x
  <2>4. /\ t'.cl[c] = x /\ \A d \in Conn \ {c} : SameShape(u, t', d)
        /\ Lines(t', c) = Lines(u, c)
    <3>1. u \in Tables /\ x \in Client
      BY <1>8, <2>2
    <3> QED BY <2>3, <3>1, SetShape
  <2>5. Kinds(t', c) = {"I"}
    BY <1>1, <1>8, <2>4 DEF Kinds
  <2>6. Shape(x, {"I"})
    BY <2>2 DEF Shape
  <2>7. \A d \in Conn \ {c} : SameShape(s, t', d)
    BY <1>9, <2>4 DEF SameShape
  <2>8. x.st # "server"
    BY <2>2
  <2> QED BY <1>7, <2>4, <2>5, <2>6, <2>7, <2>8, OneShape
<1> QED BY <1>3, <1>10, <1>11, <1>12

(* m_oper adds an O line to those of a user.                                *)
LEMMA OperShape ==
  ASSUME Ok(t), Shaped(t), NEW c \in Conn, NEW i \in Item, Oper(c, i)
  PROVE  Shaped(t')
<1> DEFINE h == Heard(t, c)
           s == Attach(h, c, {i})
           x == [s.cl[c] EXCEPT !.oper = "listed"]
<1>1. /\ t \in Tables /\ t.cl[c].st = "person" /\ KindOf(i) = "O"
      /\ h \in Tables /\ \A d \in Conn : SameShape(t, h, d)
  BY HeardShape DEF Oper, ListedAs, Ok
<1>2. t' = [s EXCEPT !.cl[c].oper = "listed"]
  BY DEF Oper
<1> HIDE DEF h
<1>3. {i} \in SUBSET Item
  OBVIOUS
<1>4. /\ s \in Tables /\ s.cl = h.cl /\ Lines(s, c) = Lines(h, c) \cup {i}
      /\ \A d \in Conn \ {c} : Lines(s, d) = Lines(h, d)
  <2>1. /\ s.cl = h.cl /\ Lines(s, c) = Lines(h, c) \cup {i}
        /\ \A d \in Conn \ {c} : Lines(s, d) = Lines(h, d)
    BY <1>1, <1>3, AttachLines
  <2>2. s \in Tables
    BY <1>1, <1>3, AttachFields
  <2> QED BY <2>1, <2>2
<1> HIDE DEF s
<1>5. s.cl[c] \in Client /\ s.cl[c].st = "person"
  BY <1>1, <1>4 DEF Tables, SameShape
<1>6. x \in Client /\ x.st = "person" /\ x.oper = "listed"
  BY <1>5 DEF Client
<1>7. t'.cl = [s.cl EXCEPT ![c] = x] /\ t'.held = s.held
  BY <1>2, <1>4 DEF Tables
<1> HIDE DEF x
<1>8. /\ t'.cl[c] = x /\ \A d \in Conn \ {c} : SameShape(s, t', d)
      /\ Lines(t', c) = Lines(s, c)
  <2>1. s \in Tables /\ x \in Client
    BY <1>4, <1>6
  <2> QED BY <1>7, <2>1, SetShape
<1>9. "O" \in Kinds(t', c)
  BY <1>1, <1>4, <1>8 DEF Kinds
<1>10. Shape(x, Kinds(t', c))
  BY <1>6, <1>9 DEF Shape
<1>11. \A d \in Conn \ {c} : SameShape(t, t', d)
  BY <1>1, <1>4, <1>8 DEF SameShape
<1>12. x.st # "server"
  BY <1>6
<1> QED BY <1>8, <1>10, <1>11, <1>12, OneShape

(* What an operator loses with its status is all of its O lines.            *)
LEMMA LastLineKinds ==
  ASSUME NEW s \in Tables, NEW c \in Conn, NEW i \in Lines(s, c), KindOf(i) = "O"
  PROVE  <<c, i>> \in LastLine(s, c)
<1>1. PICK r \in s.held : r[1] = c /\ r[2] = i
  BY DEF Lines, RefsOf
<1>2. r = <<c, i>>
  BY <1>1 DEF Tables
<1>3. <<c, i>> \in RefsOf(s, {c})
  BY <1>1, <1>2 DEF RefsOf
<1> QED BY <1>3 DEF LastLine

(* m_umode -o and m_svsmode -o detach the O line if there is one.           *)
LEMMA DeoperShape ==
  ASSUME Ok(t), Shaped(t), NEW c \in Conn, Deoper(c)
  PROVE  Shaped(t')
<1> DEFINE refs == LastLine(t, c)
           s == Detach(t, refs)
           x == [s.cl[c] EXCEPT !.oper = "no"]
<1>1. /\ t \in Tables /\ t.cl[c].st = "person" /\ t.cl[c] \in Client
      /\ t' = [s EXCEPT !.cl[c].oper = "no"]
  BY ClientFacts DEF Deoper
<1>2. refs \in SUBSET t.held /\ \A r \in refs : r[1] = c
  BY LastLineHeld DEF LastLine, RefsOf
<1>3. \A i \in Lines(t, c) : KindOf(i) = "O" => <<c, i>> \in refs
  BY <1>1, LastLineKinds
<1> HIDE DEF refs
<1>4. /\ s \in Tables /\ s.cl = t.cl
      /\ \A d \in Conn : Lines(s, d) = {i \in Lines(t, d) : <<d, i>> \notin refs}
  <2>1. /\ s.cl = t.cl
        /\ \A d \in Conn : Lines(s, d) = {i \in Lines(t, d) : <<d, i>> \notin refs}
    BY <1>1, <1>2, DetachLines
  <2>2. s \in Tables
    BY <1>1, <1>2, DetachFields
  <2> QED BY <2>1, <2>2
<1> HIDE DEF s
<1>5. \A d \in Conn \ {c} : SameShape(t, s, d)
  <2>1. ASSUME NEW d \in Conn \ {c}, NEW i PROVE <<d, i>> \notin refs
    BY <1>2
  <2>2. \A d \in Conn \ {c} : Lines(s, d) = Lines(t, d)
    BY <1>4, <2>1
  <2> QED BY <1>4, <2>2 DEF SameShape
<1>6. x \in Client /\ x.st = "person" /\ x.oper = "no"
  BY <1>1, <1>4 DEF Client
<1>7. t'.cl = [s.cl EXCEPT ![c] = x] /\ t'.held = s.held
  BY <1>1, <1>4 DEF Tables
<1> HIDE DEF x
<1>8. /\ t'.cl[c] = x /\ \A d \in Conn \ {c} : SameShape(s, t', d)
      /\ Lines(t', c) = Lines(s, c)
  <2>1. s \in Tables /\ x \in Client
    BY <1>4, <1>6
  <2> QED BY <1>7, <2>1, SetShape
<1>9. "O" \notin Kinds(t', c)
  BY <1>3, <1>4, <1>8 DEF Kinds
<1>10. Shape(x, Kinds(t', c))
  BY <1>6, <1>9 DEF Shape
<1>11. \A d \in Conn \ {c} : SameShape(t, t', d)
  BY <1>5, <1>8 DEF SameShape
<1>12. x.st # "server"
  BY <1>6
<1> QED BY <1>8, <1>10, <1>11, <1>12, OneShape

(* m_svsadmin detaches the O line of each operator that has one.            *)
LEMMA SvsAdminShape ==
  ASSUME Ok(t), Shaped(t), SvsAdmin
  PROVE  Shaped(t')
<1> DEFINE opers == {c \in Conn : t.cl[c].oper = "listed"}
           refs == UNION {LastLine(t, c) : c \in opers}
           s == Detach(t, refs)
           cl == [c \in Conn |-> IF c \in opers THEN [s.cl[c] EXCEPT !.oper = "no"]
                                 ELSE s.cl[c]]
<1>1. t \in Tables /\ \A c \in Conn : t.cl[c] \in Client
  BY DEF Ok, Tables
<1>2. t' = [s EXCEPT !.olines = FALSE, !.cl = cl]
  BY DEF SvsAdmin
<1>3. refs \in SUBSET t.held /\ \A r \in refs : r[1] \in opers
  BY LastLineHeld DEF LastLine, RefsOf
<1>4. \A c \in opers : \A i \in Lines(t, c) : KindOf(i) = "O" => <<c, i>> \in refs
  BY <1>1, LastLineKinds
<1>5. opers \in SUBSET Conn /\ \A c \in Conn : c \in opers <=> t.cl[c].oper = "listed"
  OBVIOUS
<1> HIDE DEF refs, opers
<1>6. /\ s \in Tables /\ s.cl = t.cl
      /\ \A d \in Conn : Lines(s, d) = {i \in Lines(t, d) : <<d, i>> \notin refs}
  <2>1. /\ s.cl = t.cl
        /\ \A d \in Conn : Lines(s, d) = {i \in Lines(t, d) : <<d, i>> \notin refs}
    BY <1>1, <1>3, DetachLines
  <2>2. s \in Tables
    BY <1>1, <1>3, DetachFields
  <2> QED BY <2>1, <2>2
<1> HIDE DEF s
<1>7. /\ \A c \in opers : cl[c].st = t.cl[c].st /\ cl[c].oper = "no"
      /\ \A c \in Conn \ opers : cl[c] = t.cl[c]
  BY <1>1, <1>5, <1>6 DEF Client
<1> HIDE DEF cl
<1>8. t'.cl = cl /\ t'.held = s.held
  BY <1>2, <1>6 DEF Tables
<1>9. \A c \in Conn : Lines(t', c) = Lines(s, c)
  BY <1>8, SameLines
<1>10. ASSUME NEW c \in opers PROVE Shape(t'.cl[c], Kinds(t', c))
  <2>1. "O" \notin Kinds(t', c)
    BY <1>4, <1>5, <1>6, <1>9 DEF Kinds
  <2>2. t.cl[c].st = "person"
    BY <1>5 DEF Shaped, Shape
  <2> QED BY <1>7, <1>8, <2>1, <2>2 DEF Shape
<1>11. ASSUME NEW c \in Conn \ opers PROVE Shape(t'.cl[c], Kinds(t', c))
  <2>1. \A i : <<c, i>> \notin refs
    BY <1>3
  <2>2. Lines(t', c) = Lines(t, c)
    BY <1>6, <1>9, <2>1
  <2> QED BY <1>7, <1>8, <2>2 DEF Shaped, Shape, Kinds
<1>12. OneLink(t')
  BY <1>7, <1>8 DEF Shaped, OneLink
<1> QED BY <1>10, <1>11, <1>12 DEF Shaped

(* What changes neither the lists of lines nor the clients.                 *)
LEMMA SameHeld ==
  ASSUME NEW s, Shaped(s), NEW u, u.held = s.held, u.cl = s.cl
  PROVE  Shaped(u)
<1>1. \A c \in Conn : SameShape(s, u, c)
  BY SameLines DEF SameShape
<1> QED BY <1>1, KeepShape

(* Time changes idle times only.                                            *)
LEMMA TickShape ==
  ASSUME Ok(t), Shaped(t), Tick
  PROVE  Shaped(t')
<1> DEFINE cl == [c \in Conn |->
                IF t.cl[c].st = "free" \/ t.cl[c].idle = MaxIdle THEN t.cl[c]
                ELSE [t.cl[c] EXCEPT !.idle = @ + 1]]
<1>1. t' = [t EXCEPT !.cl = cl]
  BY DEF Tick
<1>2. t \in Tables /\ \A c \in Conn : t.cl[c] \in Client
  BY ClientFacts DEF Ok
<1>3. \A c \in Conn : cl[c].st = t.cl[c].st /\ cl[c].oper = t.cl[c].oper
  BY <1>2 DEF Client
<1> HIDE DEF cl
<1>4. t'.held = t.held /\ t'.cl = cl
  BY <1>1, <1>2 DEF Tables
<1>5. \A c \in Conn : Lines(t', c) = Lines(t, c)
  BY <1>4, SameLines
<1>6. \A c \in Conn : SameShape(t, t', c)
  BY <1>3, <1>4, <1>5 DEF SameShape
<1> QED BY <1>6, KeepShape

(* check_pings and timeout_auth_queries: who is let through by a timeout    *)
(* held nothing.                                                            *)
LEMMA PeriodicShape ==
  ASSUME Ok(t), Shaped(t), NEW refused \in SUBSET Refusable(t), Periodic(refused)
  PROVE  Shaped(t')
<1> DEFINE out == Dying(t) \cup refused
           e == Exit(t, out)
           q == t.asking \ Late(t)
           new(c) == IF c \in out THEN Gone
                     ELSE IF c \in Late(t) THEN ReleaseLate(t, c)
                     ELSE IF Silent(t, c) /\ ~t.cl[c].pinged THEN SendPing(t, c)
                     ELSE t.cl[c]
           cl == [c \in Conn |-> new(c)]
<1>1. t \in Tables /\ \A c \in Conn : t.cl[c] \in Client
  BY ClientFacts DEF Ok
<1>2. out \in SUBSET Conn
  BY DEF Dying, Refusable, Local
<1>3. \A c \in Late(t) : c \in Conn /\ t.cl[c].st = "auth"
  BY DEF Late
<1>4. /\ e \in Tables /\ Shaped(e) /\ \A c \in out : e.cl[c] = Gone
      /\ \A c \in Conn \ out : SameShape(t, e, c) /\ e.cl[c] = t.cl[c]
  <2>1. Shaped(e)
    BY <1>1, <1>2, ExitShape DEF Shaped
  <2>2. e \in Tables /\ \A c \in Conn : e.cl[c] = IF c \in out THEN Gone ELSE t.cl[c]
    BY <1>1, <1>2, ExitFields
  <2>3. \A c \in Conn \ out : SameShape(t, e, c)
    BY <1>1, <1>2, ExitLines
  <2> QED BY <1>2, <2>1, <2>2, <2>3
<1>5. t' = [e EXCEPT !.rehashed = FALSE, !.asking = q, !.cl = cl]
  <2>1. e.asking = t.asking
    BY <1>1, <1>2, ExitFields
  <2> QED BY <2>1 DEF Periodic
<1> HIDE DEF out, e, q
<1>6. ASSUME NEW c \in Conn
      PROVE  \/ new(c).st = e.cl[c].st /\ new(c).oper = e.cl[c].oper
             \/ /\ new(c).st = "unknown" /\ new(c).oper = "no"
                /\ Kinds(e, c) = {}
  <2>1. CASE c \in out
    BY <1>4, <2>1
  <2>2. CASE c \notin out /\ c \in Late(t)
    <3>1. new(c) = ReleaseLate(t, c) /\ e.cl[c] = t.cl[c] /\ t.cl[c] \in Client
      BY <1>1, <1>4, <2>2
    <3>2. Kinds(e, c) = {} /\ e.cl[c].oper = "no"
      BY <1>3, <1>4, <2>2, <3>1, HoldsNothing
    <3> HIDE DEF new
    <3> QED BY <3>1, <3>2 DEF ReleaseLate, Client
  <2>3. CASE c \notin out /\ c \notin Late(t) /\ Silent(t, c) /\ ~t.cl[c].pinged
    <3>1. new(c) = SendPing(t, c) /\ e.cl[c] = t.cl[c] /\ t.cl[c] \in Client
      BY <1>1, <1>4, <2>3
    <3> HIDE DEF new
    <3> QED BY <3>1 DEF SendPing, Client
  <2>4. CASE c \notin out /\ c \notin Late(t) /\ ~(Silent(t, c) /\ ~t.cl[c].pinged)
    BY <1>4, <2>4
  <2> QED BY <2>1, <2>2, <2>3, <2>4
<1> HIDE DEF new
<1>7. \A c \in Conn : cl[c] = new(c)
  OBVIOUS
<1> HIDE DEF cl
<1>8. t'.held = e.held /\ t'.cl = cl
  BY <1>4, <1>5 DEF Tables
<1>9. \A c \in Conn : Kinds(t', c) = Kinds(e, c)
  BY <1>8, SameLines DEF Kinds
<1>10. ASSUME NEW c \in Conn PROVE Shape(t'.cl[c], Kinds(t', c))
  <2>1. Shape(e.cl[c], Kinds(e, c))
    BY <1>4 DEF Shaped
  <2>2. t'.cl[c] = new(c)
    BY <1>7, <1>8
  <2>3. CASE new(c).st = e.cl[c].st /\ new(c).oper = e.cl[c].oper
    BY <1>9, <2>1, <2>2, <2>3 DEF Shape
  <2>4. CASE new(c).st = "unknown" /\ new(c).oper = "no" /\ Kinds(e, c) = {}
    BY <1>9, <2>2, <2>4, UnheldShape
  <2> QED BY <1>6, <2>3, <2>4
<1>11. \A c \in Conn : t'.cl[c].st = "server" => e.cl[c].st = "server"
  BY <1>6, <1>7, <1>8
<1> QED BY <1>4, <1>10, <1>11 DEF Shaped, OneLink

(* rehash leaves clients and their lists alone.                             *)
LEMMA RehashShape ==
  ASSUME Ok(t), Shaped(t), NEW cf \in Config, Rehash(cf)
  PROVE  Shaped(t')
<1> DEFINE s == ClearOut(t, cf)
           u == ReadFile(s, cf)
<1>1. t \in Tables /\ t.gen \in Gen /\ Confs(t) /\ Socks(t)
  BY DEF Ok
<1>2. s \in Tables /\ s.gen = t.gen /\ s.cl = t.cl /\ s.held = t.held
  BY <1>1, ClearOutFields
<1>3. ClassesSound(s)
  BY <1>1, ClearOutGood DEF Confs
<1>4. t.gen < MaxGen /\ t' = [u EXCEPT !.rehashed = TRUE]
  BY DEF Rehash
<1> HIDE DEF s
<1>5. s.gen + 1 \in Gen
  BY <1>1, <1>2, <1>4, ConnAssumption DEF Gen
<1>6. ReadBy(s, cf, u)
  BY <1>2, <1>3, <1>5, ReadFileFields
<1> HIDE DEF u
<1>7. u \in Tables /\ u.cl = t.cl /\ u.held = t.held
  BY <1>2, <1>6 DEF ReadBy
<1>8. t'.held = t.held /\ t'.cl = t.cl
  BY <1>4, <1>7 DEF Tables
<1> QED BY <1>8, SameHeld

(* attach_cn_lines gives a new link its C and its N line.                   *)
LEMMA StartLinkShape ==
  ASSUME NEW s, Ok(s), Shaped(s), NEW i \in Item, NEW c \in Conn
  PROVE  Shaped(StartLink(s, i, c))
<1> DEFINE a == LineHost[i[1]]
           pick(kind) == CHOOSE j \in ListedAs(s, kind) : LineHost[j[1]] = a
           x == [Gone EXCEPT !.st = "connecting", !.addr = a]
           v == [s EXCEPT !.cl[c] = x]
           S == {pick("C"), pick("N")}
<1>1. CASE s.cl[c].st # "free" \/ Linked(s) \/ NoLine(s, "C", a) \/ NoLine(s, "N", a)
  BY <1>1 DEF StartLink
<1>2. CASE ~(s.cl[c].st # "free" \/ Linked(s) \/ NoLine(s, "C", a) \/ NoLine(s, "N", a))
  <2>1. StartLink(s, i, c) = Attach(v, c, S)
    BY <1>2 DEF StartLink
  <2>2. pick("C") \in ListedAs(s, "C") /\ pick("N") \in ListedAs(s, "N")
    BY <1>2 DEF NoLine
  <2>3. S \in SUBSET Item /\ {KindOf(j) : j \in S} = {"C", "N"}
    <3>1. pick("C") \in Item /\ KindOf(pick("C")) = "C"
      BY <2>2 DEF ListedAs, Listed
    <3>2. pick("N") \in Item /\ KindOf(pick("N")) = "N"
      BY <2>2 DEF ListedAs, Listed
    <3> HIDE DEF pick
    <3> QED BY <3>1, <3>2
  <2>4. s \in Tables /\ a \in Addr
    BY ConnAssumption DEF Ok, Item
  <2>5. x \in Client /\ x.st = "connecting" /\ x.oper = "no"
    BY <2>4, GoneFacts DEF Client, Statuses, Gone
  <2> HIDE DEF x, S
  <2>6. v.cl = [s.cl EXCEPT ![c] = x] /\ v.held = s.held /\ v \in Tables
    BY <2>4, <2>5 DEF Tables
  <2> HIDE DEF v
  <2>7. /\ v.cl[c] = x /\ \A d \in Conn \ {c} : SameShape(s, v, d)
        /\ Lines(v, c) = Lines(s, c)
    <3>1. s \in Tables /\ x \in Client
      BY <2>4, <2>5
    <3> HIDE DEF a
    <3> QED BY <2>6, <3>1, SetShape
  <2>8. Lines(s, c) = {}
    BY <1>2, HoldsNothing
  <2> DEFINE u == Attach(v, c, S)
  <2>9. /\ u.cl = v.cl /\ Lines(u, c) = Lines(v, c) \cup S
        /\ \A d \in Conn \ {c} : Lines(u, d) = Lines(v, d)
    BY <2>3, <2>6, AttachLines
  <2> HIDE DEF u
  <2>10. Kinds(u, c) = {"C", "N"}
    BY <2>3, <2>7, <2>8, <2>9 DEF Kinds
  <2>11. Shape(u.cl[c], Kinds(u, c))
    BY <2>5, <2>7, <2>9, <2>10 DEF Shape
  <2>12. \A d \in Conn \ {c} : SameShape(s, u, d)
    BY <2>7, <2>9 DEF SameShape
  <2>13. u.cl[c].st # "server"
    BY <2>5, <2>7, <2>9
  <2>14. Shaped(u)
    BY <2>11, <2>12, <2>13, OneShape
  <2> QED BY <2>1, <2>14 DEF u
<1> QED BY <1>1, <1>2

(* try_connections and m_connect start a link, or a query first.            *)
LEMMA ConnectShape ==
  ASSUME Ok(t), Shaped(t), NEW i \in Item, NEW c \in Conn, Connect(i, c)
  PROVE  Shaped(t')
<1>1. CASE t.item[i].known
  BY <1>1, StartLinkShape DEF Connect
<1>2. CASE ~t.item[i].known
  <2>1. t'.held = t.held /\ t'.cl = t.cl
    BY <1>2 DEF Connect, Ok, Tables
  <2> QED BY <2>1, SameHeld
<1> QED BY <1>1, <1>2

(* The answer for a line starts a link or changes no lines.                 *)
LEMMA LineResolvedShape ==
  ASSUME Ok(t), Shaped(t), NEW i \in Item, NEW c \in Conn, NEW ok \in BOOLEAN,
         LineResolved(i, c, ok)
  PROVE  Shaped(t')
<1> DEFINE r == [t.item[i] EXCEPT !.pending = "no", !.known = @ \/ ok]
           item == [t.item EXCEPT ![i] = r]
           q == t.resolving \ {i}
           s == [t EXCEPT !.item = item, !.resolving = q]
           z == [t EXCEPT !.resolving = q, !.stale = TRUE]
<1>1. t \in Tables /\ t.item[i] \in ItemRec /\ t.item \in [Item -> ItemRec]
  BY DEF Ok, Tables
<1>2. r \in ItemRec /\ AlikeItem(r, t.item[i])
  BY <1>1 DEF ItemRec, AlikeItem
<1>3. s = [t EXCEPT !.resolving = @ \ {i}, !.item[i].pending = "no", !.item[i].known = @ \/ ok]
  BY <1>1 DEF Tables
<1>4. t' = z \/ t' = s \/ t' = StartLink(s, i, c)
  <2> HIDE DEF s
  <2> QED BY <1>1, <1>3 DEF LineResolved, Tables
<1> HIDE DEF r
<1>5. item \in [Item -> ItemRec] /\ \A j \in Item : AlikeItem(item[j], t.item[j])
  BY <1>1, <1>2 DEF AlikeItem
<1>6. q \in SUBSET Item /\ \A j \in q : j \in t.resolving
  BY <1>1 DEF Tables
<1> HIDE DEF item, q
<1>7. Ok(s) /\ Shaped(s)
  <2>1. /\ s \in Tables /\ s.held = t.held /\ s.cl = t.cl /\ s.klass = t.klass
        /\ s.gen = t.gen /\ s.ip = t.ip /\ s.lis = t.lis /\ s.asking = t.asking
        /\ s.item = item /\ s.resolving = q
    BY <1>1, <1>5, <1>6 DEF Tables
  <2> HIDE DEF s
  <2>2. Ok(s)
    BY <1>5, <1>6, <2>1, SameClients
  <2>3. Shaped(s)
    BY <2>1, SameHeld
  <2> QED BY <2>2, <2>3
<1>8. Shaped(z)
  <2>1. z.held = t.held /\ z.cl = t.cl
    BY <1>1 DEF Tables
  <2> HIDE DEF z
  <2> QED BY <2>1, SameHeld
<1> HIDE DEF s, z
<1> QED BY <1>4, <1>7, <1>8, StartLinkShape

(* find_conf_host finds a line of the kind if there is one, and a listed    *)
(* one if there is one, since those were attached last.                     *)
LEMMA ChoiceFacts ==
  ASSUME NEW s, NEW S, NEW c, NEW kind, LinesAt(s, S, c, kind) # {}
  PROVE  /\ Choice(s, S, c, kind) \in LinesAt(s, S, c, kind)
         /\ LinesAt(s, S, c, kind) \cap Listed(s) # {} =>
              Choice(s, S, c, kind) \in Listed(s)
<1> DEFINE A == LinesAt(s, S, c, kind)
           fresh == A \cap Listed(s)
           P(i) == fresh # {} => i \in fresh
<1>1. \E i \in A : P(i)
  BY DEF LinesAt
<1>2. Choice(s, S, c, kind) = CHOOSE i \in A : P(i)
  BY DEF Choice
<1> HIDE DEF A, P
<1>3. (CHOOSE i \in A : P(i)) \in A /\ P(CHOOSE i \in A : P(i))
  BY <1>1
<1> QED BY <1>2, <1>3 DEF A, P

(* server_estab: with an N line among C, N and H lines the link is a        *)
(* server and keeps what it needs.                                          *)
LEMMA EstabShape ==
  ASSUME NEW s \in Tables, NEW c \in Conn, s.cl[c].oper = "no",
         \A d \in Conn : s.cl[d].st # "server",
         \A d \in Conn \ {c} : Shape(s.cl[d], Kinds(s, d)),
         "N" \in Kinds(s, c)
  PROVE  Shaped(Estab(s, c))
<1> DEFINE out == {r \in RefsOf(s, {c}) : KindOf(r[2]) \notin {"N", "H"}}
           u == Detach(s, out)
           x == [u.cl[c] EXCEPT !.st = "server"]
           e == Estab(s, c)
<1>1. out \in SUBSET s.held /\ \A r \in out : r[1] = c
  BY DEF RefsOf
<1>2. \A i \in Lines(s, c) : <<c, i>> \in out <=> KindOf(i) \notin {"N", "H"}
  <2> SUFFICES ASSUME NEW i \in Lines(s, c)
               PROVE  <<c, i>> \in out <=> KindOf(i) \notin {"N", "H"}
    OBVIOUS
  <2>1. PICK r \in s.held : r[1] = c /\ r[2] = i
    BY DEF Lines, RefsOf
  <2>2. r = <<c, i>>
    BY <2>1 DEF Tables
  <2> QED BY <2>1, <2>2 DEF RefsOf
<1>3. e = [u EXCEPT !.cl[c].st = "server"]
  BY DEF Estab
<1> HIDE DEF out, e
<1>4. /\ u \in Tables /\ u.cl = s.cl
      /\ \A d \in Conn : Lines(u, d) = {i \in Lines(s, d) : <<d, i>> \notin out}
  <2>1. /\ u.cl = s.cl
        /\ \A d \in Conn : Lines(u, d) = {i \in Lines(s, d) : <<d, i>> \notin out}
    BY <1>1, DetachLines
  <2>2. u \in Tables
    BY <1>1, DetachFields
  <2> QED BY <2>1, <2>2
<1> HIDE DEF u
<1>5. x \in Client /\ x.st = "server" /\ x.oper = "no"
  <2>1. u.cl[c] \in Client /\ u.cl[c].oper = "no"
    BY <1>4 DEF Tables
  <2> QED BY <2>1 DEF Client, Statuses
<1>6. e.cl = [u.cl EXCEPT ![c] = x] /\ e.held = u.held
  BY <1>3, <1>4 DEF Tables
<1> HIDE DEF x
<1>7. /\ e.cl[c] = x /\ \A d \in Conn \ {c} : SameShape(u, e, d)
      /\ Lines(e, c) = Lines(u, c)
  <2>1. u \in Tables /\ x \in Client
    BY <1>4, <1>5
  <2>2. e.cl[c] = x
    BY <1>6, <2>1 DEF Tables
  <2>3. \A d \in Conn \ {c} : SameShape(u, e, d)
    BY <1>6, <2>1, SetShape
  <2>4. Lines(e, c) = Lines(u, c)
    BY <1>6, <2>1, SetShape
  <2> QED BY <2>2, <2>3, <2>4
<1>8. Lines(e, c) = {i \in Lines(s, c) : KindOf(i) \in {"N", "H"}}
  BY <1>2, <1>4, <1>7
<1>9. "N" \in Kinds(e, c) /\ Kinds(e, c) \subseteq {"N", "H"}
  BY <1>8 DEF Kinds
<1>10. Shape(e.cl[c], Kinds(e, c))
  BY <1>5, <1>7, <1>9 DEF Shape
<1>11. \A d \in Conn \ {c} : SameShape(s, e, d)
  <2>1. ASSUME NEW d \in Conn \ {c} PROVE Lines(u, d) = Lines(s, d)
    <3>1. \A i : <<d, i>> \notin out
      BY <1>1
    <3> QED BY <1>4, <3>1
  <2> QED BY <1>4, <1>7, <2>1 DEF SameShape
<1>12. \A d \in Conn \ {c} : Shape(e.cl[d], Kinds(e, d)) /\ e.cl[d].st # "server"
  BY <1>11 DEF SameShape, Shape, Kinds
<1> QED BY <1>10, <1>12 DEF e, Shaped, OneLink

(* check_server refuses the link, or leaves it its N line and the H lines;  *)
(* where it follows a line it has freed nothing is said.                    *)
LEMMA CheckServerShape ==
  ASSUME NEW s, Ok(s), Shaped(s), NEW c \in Conn, NEW accepted \in BOOLEAN,
         s.cl[c].st \in {"unknown", "handshake"},
         \A d \in Conn : s.cl[d].st # "server"
  PROVE  CheckServer(s, c, accepted).stale \/ Shaped(CheckServer(s, c, accepted))
<1> DEFINE all == Lines(s, c) \cup (ListedAs(s, "C") \cup ListedAs(s, "N"))
           ch  == Choice(s, all, c, "C")
           nh  == Choice(s, all, c, "N")
           two == {ch, nh}
           u   == Detach(s, RefsOf(s, {c}))
           S   == (two \cap Listed(u)) \cup ListedAs(u, "H")
           v   == Attach(u, c, S)
           w   == [v EXCEPT !.item[ch].known = TRUE]
           z   == [u EXCEPT !.stale = TRUE]
           r   == CheckServer(s, c, accepted)
<1>1. \/ r = Exit(s, {c})
      \/ r = z
      \/ r = Exit(v, {c})
      \/ r = Estab(w, c) /\ two \subseteq Listed(u) /\ LinesAt(s, all, c, "N") # {}
  BY DEF CheckServer
<1>2. LinesAt(s, all, c, "N") # {} => KindOf(nh) = "N"
  BY ChoiceFacts DEF LinesAt
<1>3. S \in SUBSET Item
  BY DEF ListedAs, Listed
<1>4. two \subseteq Listed(u) => nh \in S
  OBVIOUS
<1> HIDE DEF all, ch, nh, two, S, r
<1>5. s \in Tables /\ s.cl[c].oper = "no"
  BY DEF Ok, Shaped, Shape
<1>6. /\ u \in Tables /\ u.cl = s.cl /\ Lines(u, c) = {}
      /\ \A d \in Conn \ {c} : Lines(u, d) = Lines(s, d)
  <2>1. RefsOf(s, {c}) \in SUBSET s.held
    BY DEF RefsOf
  <2>2. /\ u.cl = s.cl
        /\ \A d \in Conn : Lines(u, d) = {i \in Lines(s, d) : <<d, i>> \notin RefsOf(s, {c})}
    <3>1. s \in Tables
      BY <1>5
    <3>2. u = Detach(s, RefsOf(s, {c}))
      OBVIOUS
    <3> HIDE DEF u
    <3>3. u.cl = s.cl
      BY <2>1, <3>1, <3>2, DetachLines
    <3>4. \A d \in Conn : Lines(u, d) = {i \in Lines(s, d) : <<d, i>> \notin RefsOf(s, {c})}
      BY <2>1, <3>1, <3>2, DetachLines
    <3> QED BY <3>3, <3>4
  <2>3. u \in Tables
    BY <1>5, <2>1, DetachFields
  <2>4. \A i \in Lines(s, c) : <<c, i>> \in RefsOf(s, {c})
    <3> SUFFICES ASSUME NEW i \in Lines(s, c) PROVE <<c, i>> \in RefsOf(s, {c})
      OBVIOUS
    <3>1. PICK q \in s.held : q[1] = c /\ q[2] = i
      BY DEF Lines, RefsOf
    <3>2. q = <<c, i>>
      BY <1>5, <3>1 DEF Tables
    <3> QED BY <3>1, <3>2 DEF RefsOf
  <2>5. \A d \in Conn \ {c} : \A i : <<d, i>> \notin RefsOf(s, {c})
    BY DEF RefsOf
  <2> QED BY <2>2, <2>3, <2>4, <2>5
<1> HIDE DEF u
<1>7. /\ v \in Tables /\ v.cl = s.cl /\ Lines(v, c) = S
      /\ \A d \in Conn \ {c} : Lines(v, d) = Lines(s, d)
  <2>1. /\ v.cl = u.cl /\ Lines(v, c) = Lines(u, c) \cup S
        /\ \A d \in Conn \ {c} : Lines(v, d) = Lines(u, d)
    <3>1. u \in Tables
      BY <1>6
    <3> QED BY <1>3, <3>1, AttachLines
  <2>2. v \in Tables
    BY <1>3, <1>6, AttachFields
  <2> QED BY <1>6, <2>1, <2>2
<1> HIDE DEF v
<1>8. \A d \in Conn \ {c} : Shape(v.cl[d], Kinds(v, d))
  BY <1>7 DEF Shaped, Shape, Kinds
<1>9. CASE r = Exit(s, {c})
  BY <1>5, <1>9, ExitShape DEF r, Shaped
<1>10. CASE r = Exit(v, {c})
  <2>1. OneLink(v)
    BY <1>7 DEF OneLink
  <2>2. Shaped(r)
    BY <1>7, <1>8, <1>10, <2>1, ExitShape
  <2> QED BY <2>2 DEF r
<1>11. CASE r = z
  <2>1. r.stale = TRUE
    BY <1>6, <1>11 DEF Tables
  <2> QED BY <2>1 DEF r
<1>12. CASE r = Estab(w, c) /\ two \subseteq Listed(u) /\ LinesAt(s, all, c, "N") # {}
  <2>1. nh \in S /\ KindOf(nh) = "N"
    BY <1>2, <1>4, <1>12
  <2>2. w \in Tables /\ w.held = v.held /\ w.cl = v.cl
    <3> DEFINE item == [v.item EXCEPT ![ch].known = TRUE]
    <3>1. \A i \in Item : v.item[i] \in ItemRec
      BY <1>7 DEF Tables
    <3>2. \A i \in Item : item[i] = IF i = ch THEN [v.item[i] EXCEPT !.known = TRUE]
                                    ELSE v.item[i]
      BY <1>7 DEF Tables
    <3>3. \A i \in Item : [v.item[i] EXCEPT !.known = TRUE] \in ItemRec
      BY <3>1 DEF ItemRec
    <3>4. item = [i \in Item |-> item[i]]
      BY <1>7 DEF Tables
    <3> HIDE DEF item
    <3>5. item \in [Item -> ItemRec]
      BY <3>1, <3>2, <3>3, <3>4
    <3>6. w = [v EXCEPT !.item = item]
      BY <1>7 DEF item, Tables
    <3> QED BY <1>7, <3>5, <3>6 DEF Tables
  <2> HIDE DEF w
  <2>3. \A d \in Conn : Lines(w, d) = Lines(v, d)
    BY <2>2, SameLines
  <2>4. "N" \in Kinds(w, c)
    BY <1>7, <2>1, <2>3 DEF Kinds
  <2>5. \A d \in Conn \ {c} : Shape(w.cl[d], Kinds(w, d))
    BY <1>8, <2>2, <2>3 DEF Kinds
  <2>6. w.cl[c].oper = "no" /\ \A d \in Conn : w.cl[d].st # "server"
    BY <1>5, <1>7, <2>2
  <2>7. Shaped(r)
    BY <1>12, <2>2, <2>4, <2>5, <2>6, EstabShape
  <2> QED BY <2>7 DEF r
<1> QED BY <1>1, <1>9, <1>10, <1>11, <1>12

(* m_server closes the older link first, so that the neighbour is linked    *)
(* once.                                                                    *)
LEMMA ServerCmdShape ==
  ASSUME Ok(t), Shaped(t), NEW c \in Conn, NEW accepted \in BOOLEAN, NEW younger \in BOOLEAN,
         ServerCmd(c, accepted, younger)
  PROVE  t'.stale \/ Shaped(t')
<1> DEFINE s == Heard(t, c)
           others == {d \in Conn : t.cl[d].st = "server"}
           u == IF others = {} THEN s ELSE Exit(s, others)
<1>1. t.cl[c].st \in {"unknown", "handshake"}
  BY DEF ServerCmd
<1>2. /\ Ok(s) /\ s \in Tables /\ \A d \in Conn : s.cl[d].st = t.cl[d].st
      /\ \A d \in Conn : SameShape(t, s, d)
  <2>1. Ok(s) /\ \A d \in Conn : s.cl[d].st = t.cl[d].st
    BY HeardOk
  <2>2. s \in Tables /\ \A d \in Conn : SameShape(t, s, d)
    BY HeardShape DEF Ok
  <2> QED BY <2>1, <2>2
<1>3. t' = Exit(s, {c}) \/ t' = CheckServer(u, c, accepted)
  BY DEF ServerCmd
<1> HIDE DEF s
<1>4. Shaped(s)
  BY <1>2, KeepShape
<1>5. /\ others \in SUBSET Conn /\ c \notin others
      /\ \A d \in Conn \ others : s.cl[d].st # "server"
      /\ \A d \in others : s.cl[d].st # "auth"
  BY <1>1, <1>2
<1> HIDE DEF others
<1>6. Ok(u) /\ u.cl[c].st = s.cl[c].st
  BY <1>2, <1>5, ExitOk
<1>7. Shaped(u) /\ \A d \in Conn : u.cl[d].st # "server"
  <2>1. CASE others = {}
    BY <1>4, <1>5, <2>1
  <2>2. CASE others # {}
    <3>1. u = Exit(s, others)
      BY <2>2
    <3> HIDE DEF u
    <3>2. Shaped(u)
      BY <1>2, <1>4, <1>5, <3>1, ExitShape DEF Shaped
    <3>3. \A d \in Conn : u.cl[d] = IF d \in others THEN Gone ELSE s.cl[d]
      BY <1>2, <1>5, <3>1, ExitFields
    <3> QED BY <1>5, <3>2, <3>3, GoneFacts
  <2> QED BY <2>1, <2>2
<1> HIDE DEF u
<1>8. CASE t' = Exit(s, {c})
  BY <1>2, <1>4, <1>8, ExitShape DEF Shaped
<1>9. CASE t' = CheckServer(u, c, accepted)
  <2>1. u.cl[c].st \in {"unknown", "handshake"}
    BY <1>1, <1>2, <1>6
  <2> QED BY <1>6, <1>7, <1>9, <2>1, CheckServerShape
<1> QED BY <1>3, <1>8, <1>9

-----------------------------------------------------------------------------

(* The program starts without clients.                                      *)
LEMMA InitShape ==
  ASSUME Init
  PROVE  Shaped(t)
<1> PICK cf \in Config : t = ReadFile(Bare(cf), cf)
  BY DEF Init, Boot, Bare
<1> DEFINE b == Bare(cf)
<1>1. t.cl = [c \in Conn |-> Gone] /\ t.held = {}
  BY DEF ReadFile, Bare
<1>2. \A c \in Conn : Kinds(t, c) = {} /\ t.cl[c] = Gone
  BY <1>1 DEF Kinds, Lines, RefsOf
<1> QED BY <1>2, GoneFacts, GoneShape DEF Shaped, OneLink

(* As long as no freed line has been followed clients hold their lines.     *)
ShapedNow == t.stale \/ Shaped(t)

(* Every step keeps Shaped or uses a freed line.                            *)
LEMMA NextShaped ==
  ASSUME OkNow, ShapedNow, [Next]_t
  PROVE  ShapedNow'
<1> USE DEF OkNow, ShapedNow
<1>1. CASE UNCHANGED t
  BY <1>1
<1>2. CASE Next
  <2>0. Ok(t) /\ Shaped(t)
    BY <1>2 DEF Next
  <2>1. ASSUME NEW c \in Conn, NEW a \in Addr, NEW p \in Port, NEW asked \in BOOLEAN,
               Accept(c, a, p, asked)
        PROVE  ShapedNow'
    BY <2>0, <2>1, AcceptShape
  <2>2. ASSUME NEW c \in Conn,
               SendAuthQuery(c) \/ EndIdent(c) \/ DnsAnswer(c) \/ RefuseClient(c) \/ Lose(c)
        PROVE  ShapedNow'
    BY <2>0, <2>2, IdentDnsShape, LeaveShape
  <2>3. ASSUME NEW c \in Conn, NEW i \in Item, NEW welcome \in BOOLEAN,
               Register(c, i, welcome)
        PROVE  ShapedNow'
    BY <2>0, <2>3, RegisterShape
  <2>4. ASSUME NEW c \in Conn, NEW i \in Item, Oper(c, i) \/ Connect(i, c)
        PROVE  ShapedNow'
    BY <2>0, <2>4, OperShape, ConnectShape
  <2>5. ASSUME NEW c \in Conn,
               SvsOper(c) \/ Deoper(c) \/ Read(c) \/ SendFails(c) \/ Connected(c)
        PROVE  ShapedNow'
    BY <2>0, <2>5, SvsOperShape, DeoperShape, FlagsShape, ConnectedShape
  <2>6. ASSUME NEW c \in Conn, NEW i \in Item, NEW ok \in BOOLEAN, LineResolved(i, c, ok)
        PROVE  ShapedNow'
    BY <2>0, <2>6, LineResolvedShape
  <2>7. ASSUME NEW c \in Conn, NEW accepted \in BOOLEAN, NEW younger \in BOOLEAN,
               ServerCmd(c, accepted, younger)
        PROVE  ShapedNow'
    BY <2>0, <2>7, ServerCmdShape
  <2>8. CASE SvsAdmin \/ Tick
    BY <2>0, <2>8, SvsAdminShape, TickShape
  <2>9. CASE Housekeeping
    BY <2>0, <2>9, PeriodicShape DEF Housekeeping
  <2>10. ASSUME NEW cf \in Config, Rehash(cf) PROVE ShapedNow'
    BY <2>0, <2>10, RehashShape
  <2> QED BY <1>2, <2>1, <2>2, <2>3, <2>4, <2>5, <2>6, <2>7, <2>8, <2>9, <2>10 DEF Next
<1> QED BY <1>1, <1>2

(* A server that is linked has its N line, a link on its way its C and its  *)
(* N line, an operator of oper_cptr_list its O line, nobody else any line,  *)
(* and the neighbour is linked once: server_estab, m_svsadmin and m_umode   *)
(* rely on it without asking.  It holds as long as check_server has not     *)
(* followed a freed line.                                                   *)
THEOREM LinesAreHeld == Spec => []LinesHeld
<1>1. Init => ShapedNow
  BY InitShape DEF ShapedNow
<1>2. OkNow /\ ShapedNow /\ [Next]_t => ShapedNow'
  BY NextShaped
<1>3. ShapedNow => LinesHeld
  <2> SUFFICES ASSUME ~t.stale, Shaped(t) PROVE LinesHeld
    BY DEF ShapedNow, LinesHeld
  <2>1. \A c \in Conn : Shape(t.cl[c], Kinds(t, c))
    BY DEF Shaped
  <2> DEFINE T == {c \in Conn : t.cl[c].st = "server"}
  <2>2. Cardinality(T) <= 1
    <3>1. CASE T = {}
      BY <3>1, FS_EmptySet
    <3>2. ASSUME NEW c \in T PROVE Cardinality(T) <= 1
      <4>1. T = {c}
        BY DEF Shaped, OneLink
      <4> HIDE DEF T
      <4>2. Cardinality(T) = 1
        BY <4>1, FS_Singleton
      <4> QED BY <4>2
    <3> QED BY <3>1, <3>2
  <2> QED BY <2>1, <2>2 DEF LinesHeld, Shape
<1> QED BY <1>1, <1>2, <1>3, AlwaysOk, PTL DEF Spec

-----------------------------------------------------------------------------
(* Whom the resolver has queries for.  QueriesLive needs that a line knows  *)
(* of its query, which holds with the resolver of res.c since free_conf     *)
(* drops the queries of a line, and that check_server finds a listed line   *)
(* wherever it finds one, which depends on the files.                       *)

(* No file moves the neighbour: where one has a C or an N line for a host   *)
(* so have the others, except those without any C and N lines.              *)
HostsKept ==
  \A cf, other \in Config :
    (\E k \in other.lines : Kind[k] \in {"C", "N"}) =>
      \A l \in cf.lines : Kind[l] \in {"C", "N"} =>
        \E k \in other.lines : Kind[k] = Kind[l] /\ LineHost[k] = LineHost[l]

(* A line that exists is of a file, and listed are those of the last one.   *)
Files(s) ==
  /\ \A i \in Item : s.item[i].alloc => \E cf \in Config : i[1] \in cf.lines
  /\ Listed(s) = {i \in Item : i[2] = s.gen /\ i[1] \in s.conf.lines}

(* A query is known to its line.                                            *)
Answers(s) == \A i \in Item : i \in s.resolving <=> s.item[i].pending # "no"

Live(s) == Files(s) /\ Answers(s) /\ ~s.stale

(* What Live reads is the same.                                             *)
SameFiles(s, u) ==
  /\ u.gen = s.gen /\ u.conf = s.conf /\ u.resolving = s.resolving /\ u.stale = s.stale
  /\ \A i \in Item : /\ u.item[i].alloc = s.item[i].alloc
                     /\ u.item[i].illegal = s.item[i].illegal
                     /\ u.item[i].pending = s.item[i].pending

(* What Live does not read may change.                                      *)
LEMMA KeepLive ==
  ASSUME NEW s, Live(s), NEW u, SameFiles(s, u)
  PROVE  Live(u)
<1>1. Files(u)
  BY DEF Live, Files, SameFiles, Listed
<1>2. Answers(u) /\ ~u.stale
  BY DEF Live, Answers, SameFiles
<1> QED BY <1>1, <1>2 DEF Live

(* attach_conf changes the number of clients of a line only.                *)
LEMMA AttachLive ==
  ASSUME NEW s \in Tables, Live(s), NEW c \in Conn, NEW S \in SUBSET Item
  PROVE  Live(Attach(s, c, S))
<1> SUFFICES ASSUME NEW u, u = Attach(s, c, S) PROVE Live(u)
  OBVIOUS
<1>1. SameFiles(s, u)
  BY AttachFields DEF SameFiles
<1> QED BY <1>1, KeepLive

(* detach_conf frees illegal lines only, and their queries with them.       *)
LEMMA DetachLive ==
  ASSUME ~Adns, NEW s \in Tables, Live(s), NEW refs \in SUBSET s.held,
         NEW u, u = Detach(s, refs)
  PROVE  Live(u) /\ Listed(u) = Listed(s)
<1> DEFINE freed == Dropped(s, refs)
<1>1. /\ \A i \in freed : u.item[i] = Freed
      /\ \A i \in Item \ freed : /\ u.item[i].alloc = s.item[i].alloc
                                 /\ u.item[i].illegal = s.item[i].illegal
                                 /\ u.item[i].pending = s.item[i].pending
      /\ u.gen = s.gen /\ u.conf = s.conf /\ u.stale = s.stale
  BY DetachFields
<1>2. u.resolving = s.resolving \ freed
  BY DEF Detach, Tables
<1>3. \A i \in freed : s.item[i].illegal
  BY DEF Dropped
<1> HIDE DEF freed
<1>4. \A i \in freed : ~u.item[i].alloc /\ u.item[i].pending = "no"
  BY <1>1 DEF Freed
<1>5. Listed(u) = Listed(s)
  <2>1. ASSUME NEW i \in Item PROVE i \in Listed(u) <=> i \in Listed(s)
    <3>1. CASE i \in freed
      BY <1>3, <1>4, <3>1 DEF Listed
    <3>2. CASE i \notin freed
      BY <1>1, <3>2 DEF Listed
    <3> QED BY <3>1, <3>2
  <2>2. Listed(u) \subseteq Item /\ Listed(s) \subseteq Item
    BY DEF Listed
  <2> QED BY <2>1, <2>2
<1>6. \A i \in Item : u.item[i].alloc => s.item[i].alloc
  BY <1>1, <1>4
<1>7. Files(u)
  BY <1>1, <1>5, <1>6 DEF Live, Files
<1>8. Answers(u)
  BY <1>1, <1>2, <1>4 DEF Live, Answers
<1> QED BY <1>1, <1>5, <1>7, <1>8 DEF Live

(* exit_client detaches lines.                                              *)
LEMMA ExitLive ==
  ASSUME ~Adns, NEW s \in Tables, Live(s), NEW D \in SUBSET Conn
  PROVE  Live(Exit(s, D))
<1> SUFFICES ASSUME NEW u, u = Exit(s, D) PROVE Live(u)
  OBVIOUS
<1> DEFINE d == Detach(s, RefsOf(s, D))
<1>1. /\ RefsOf(s, D) \in SUBSET s.held /\ u.item = d.item /\ u.gen = s.gen
      /\ u.resolving = d.resolving /\ u.conf = s.conf /\ u.stale = s.stale
  BY ExitFields
<1>2. Live(d)
  BY <1>1, DetachLive
<1>3. d.gen = s.gen /\ d.conf = s.conf /\ d.stale = s.stale
  BY <1>1, DetachFields
<1> HIDE DEF d
<1>4. SameFiles(d, u)
  BY <1>1, <1>3 DEF SameFiles
<1> QED BY <1>2, <1>4, KeepLive

(* Steps of clients only.                                                   *)
SameItems(s, u) == /\ u.item = s.item /\ u.resolving = s.resolving /\ u.gen = s.gen
                   /\ u.conf = s.conf /\ u.stale = s.stale

(* They keep Live.                                                          *)
LEMMA ItemsLive ==
  ASSUME NEW s, Live(s), NEW u, SameItems(s, u) PROVE Live(u)
<1>1. SameFiles(s, u)
  BY DEF SameItems, SameFiles
<1> QED BY <1>1, KeepLive

(* read_packet leaves the lines alone.                                      *)
LEMMA HeardItems ==
  ASSUME NEW s \in Tables, NEW c \in Conn PROVE SameItems(s, Heard(s, c))
  BY DEF Heard, SameItems, Tables

(* release_auth_client leaves the lines alone.                              *)
LEMMA ReleaseItems ==
  ASSUME NEW s \in Tables, NEW c \in Conn PROVE SameItems(s, Release(s, c))
<1>1. CASE Release(s, c) = s
  BY <1>1 DEF SameItems
<1>2. CASE Release(s, c) = [s EXCEPT !.cl[c].st = "unknown"]
  BY <1>2 DEF SameItems, Tables
<1> QED BY <1>1, <1>2 DEF Release

(* Accepting, ident and DNS, timers, flags and the status of operators      *)
(* leave the lines alone.                                                   *)
LEMMA ClientsLive ==
  ASSUME Ok(t), Live(t), NEW c \in Conn,
         \/ SendAuthQuery(c) \/ EndIdent(c) \/ DnsAnswer(c) \/ SvsOper(c)
         \/ Read(c) \/ SendFails(c) \/ Connected(c)
  PROVE  Live(t')
<1>1. t \in Tables /\ t.cl[c] \in Client /\ t.asking \in SUBSET Conn
  BY ClientFacts DEF Ok, Tables
<1>2. CASE SendAuthQuery(c) \/ SvsOper(c) \/ SendFails(c) \/ Connected(c)
  <2>1. SameItems(t, t')
    BY <1>1, <1>2 DEF SendAuthQuery, SvsOper, SendFails, Connected, SameItems, Tables
  <2> QED BY <2>1, ItemsLive
<1>3. CASE Read(c)
  BY <1>1, <1>3, HeardItems, ItemsLive DEF Read
<1>4. CASE EndIdent(c)
  <2> DEFINE s == [t EXCEPT !.cl[c].ident = "none"]
  <2>1. [t.cl[c] EXCEPT !.ident = "none"] \in Client
    BY <1>1 DEF Client
  <2>2. s \in Tables /\ SameItems(t, s)
    BY <1>1, <2>1 DEF Tables, SameItems
  <2>3. t' = Release(s, c)
    BY <1>4 DEF EndIdent
  <2> HIDE DEF s
  <2> QED BY <2>2, <2>3, ReleaseItems, ItemsLive
<1>5. CASE DnsAnswer(c)
  <2> DEFINE s == [t EXCEPT !.cl[c].dns = FALSE, !.asking = @ \ {c}]
  <2>1. [t.cl[c] EXCEPT !.dns = FALSE] \in Client /\ t.asking \ {c} \in SUBSET Conn
    BY <1>1 DEF Client
  <2>2. s \in Tables /\ SameItems(t, s)
    BY <1>1, <2>1 DEF Tables, SameItems
  <2>3. t' = Release(s, c)
    BY <1>5 DEF DnsAnswer
  <2> HIDE DEF s
  <2> QED BY <2>2, <2>3, ReleaseItems, ItemsLive
<1> QED BY <1>2, <1>3, <1>4, <1>5

(* So does time.                                                            *)
LEMMA TickLive ==
  ASSUME Ok(t), Live(t), Tick
  PROVE  Live(t')
<1>1. SameItems(t, t')
  BY DEF Ok, Tick, SameItems, Tables
<1> QED BY <1>1, ItemsLive

(* So does accept_connection.                                               *)
LEMMA AcceptLive ==
  ASSUME Ok(t), Live(t), NEW c \in Conn, NEW a \in Addr, NEW p \in Port,
         NEW asked \in BOOLEAN, Accept(c, a, p, asked)
  PROVE  Live(t')
<1> DEFINE new == [Gone EXCEPT !.st = "auth", !.addr = a, !.port = p,
                               !.ident = IF asked THEN "connect" ELSE "none",
                               !.dns = ReverseLookup]
           lis == [t.lis EXCEPT ![p] = [t.lis[p] EXCEPT !.ref = @ + 1]]
           asking == IF ReverseLookup THEN t.asking \cup {c} ELSE t.asking
           s == [t EXCEPT !.cl = [t.cl EXCEPT ![c] = new], !.lis = lis, !.asking = asking]
<1>1. t \in Tables
  BY DEF Ok
<1>2. new \in Client
  BY GoneFacts, ConnAssumption DEF Client, Statuses, Gone
<1>3. t' = Release(s, c)
  BY <1>1 DEF Accept, Tables
<1>4. lis \in [Port -> [open : BOOLEAN, active : BOOLEAN, ref : Int]]
  BY <1>1 DEF Tables
<1>5. asking \in SUBSET Conn
  BY <1>1 DEF Tables
<1> HIDE DEF new, lis, asking
<1>6. s \in Tables /\ SameItems(t, s)
  BY <1>1, <1>2, <1>4, <1>5 DEF Tables, SameItems
<1> HIDE DEF s
<1> QED BY <1>3, <1>6, ReleaseItems, ItemsLive

(* Clients leave by exit_client.                                            *)
LEMMA LeaveLive ==
  ASSUME ~Adns, Ok(t), Live(t), NEW c \in Conn, RefuseClient(c) \/ Lose(c)
  PROVE  Live(t')
<1>1. t \in Tables
  BY DEF Ok
<1>2. CASE Lose(c)
  BY <1>1, <1>2, ExitLive DEF Lose
<1>3. CASE RefuseClient(c)
  <2> DEFINE h == Heard(t, c)
  <2>1. h \in Tables /\ Live(h)
    BY <1>1, HeardShape, HeardItems, ItemsLive
  <2>2. t' = Exit(h, {c})
    BY <1>3 DEF RefuseClient
  <2> HIDE DEF h
  <2> QED BY <2>1, <2>2, ExitLive
<1> QED BY <1>2, <1>3

(* attach_iline attaches a line; whom it refuses leaves.                    *)
LEMMA RegisterLive ==
  ASSUME ~Adns, Ok(t), Live(t), NEW c \in Conn, NEW i \in Item, NEW welcome \in BOOLEAN,
         Register(c, i, welcome)
  PROVE  Live(t')
<1> DEFINE h == Heard(t, c)
           a == t.cl[c].addr
           s == WithAddress(h, c, a)
           u == Attach(s, c, {i})
<1>1. /\ t \in Tables /\ h \in Tables /\ Live(h)
      /\ Ok(h) /\ h.cl[c].st = "unknown" /\ a = h.cl[c].addr
  <2>1. /\ Ok(h) /\ h.cl[c].st = "unknown" /\ a = h.cl[c].addr
    BY HeardOk DEF Register
  <2>2. t \in Tables /\ h \in Tables
    BY <2>1 DEF Ok
  <2>3. Live(h)
    BY <2>2, HeardItems, ItemsLive
  <2> QED BY <2>1, <2>2, <2>3
<1>2. \/ t' = Exit(s, {c})
      \/ t' = [u EXCEPT !.cl[c].st = "person"]
      \/ t' = Exit(u, {c})
  BY DEF Register, WithAddress
<1> HIDE DEF h, a
<1>3. s \in Tables
  BY <1>1, CountAddress DEF Almost
<1>4. SameItems(h, s)
  BY <1>1 DEF WithAddress, SameItems, Tables
<1> HIDE DEF s
<1>5. Live(s)
  BY <1>1, <1>4, ItemsLive
<1>6. {i} \in SUBSET Item
  OBVIOUS
<1>7. u \in Tables /\ Live(u)
  <2>1. u \in Tables
    BY <1>3, <1>6, AttachFields
  <2> QED BY <1>3, <1>5, <1>6, <2>1, AttachLive
<1> HIDE DEF u
<1>8. CASE t' = [u EXCEPT !.cl[c].st = "person"]
  <2>1. SameItems(u, t')
    BY <1>7, <1>8 DEF SameItems, Tables
  <2> QED BY <1>7, <2>1, ItemsLive
<1> QED BY <1>2, <1>3, <1>5, <1>7, <1>8, ExitLive

(* m_oper attaches a line.                                                  *)
LEMMA OperLive ==
  ASSUME Ok(t), Live(t), NEW c \in Conn, NEW i \in Item, Oper(c, i)
  PROVE  Live(t')
<1> DEFINE h == Heard(t, c)
           s == Attach(h, c, {i})
<1>1. t \in Tables
  BY DEF Ok
<1>2. h \in Tables /\ Live(h)
  BY <1>1, HeardShape, HeardItems, ItemsLive
<1>3. t' = [s EXCEPT !.cl[c].oper = "listed"]
  BY DEF Oper
<1> HIDE DEF h
<1>4. {i} \in SUBSET Item
  OBVIOUS
<1>5. s \in Tables
  BY <1>2, <1>4, AttachFields
<1>6. Live(s)
  BY <1>2, <1>4, AttachLive
<1> HIDE DEF s
<1>7. SameItems(s, t')
  BY <1>3, <1>5 DEF SameItems, Tables
<1> QED BY <1>6, <1>7, ItemsLive

(* m_umode -o and m_svsmode -o detach one.                                  *)
LEMMA DeoperLive ==
  ASSUME ~Adns, Ok(t), Live(t), NEW c \in Conn, Deoper(c)
  PROVE  Live(t')
<1> DEFINE s == Detach(t, LastLine(t, c))
<1>1. t \in Tables /\ LastLine(t, c) \in SUBSET t.held
  BY LastLineHeld DEF Ok
<1>2. s \in Tables
  BY <1>1, DetachFields
<1>3. Live(s)
  BY <1>1, DetachLive
<1>4. t' = [s EXCEPT !.cl[c].oper = "no"]
  BY DEF Deoper
<1> HIDE DEF s
<1>5. SameItems(s, t')
  BY <1>2, <1>4 DEF SameItems, Tables
<1> QED BY <1>3, <1>5, ItemsLive

(* m_svsadmin detaches some.                                                *)
LEMMA SvsAdminLive ==
  ASSUME ~Adns, Ok(t), Live(t), SvsAdmin
  PROVE  Live(t')
<1> DEFINE opers == {d \in Conn : t.cl[d].oper = "listed"}
           refs == UNION {LastLine(t, d) : d \in opers}
           s == Detach(t, refs)
           cl == [d \in Conn |-> IF d \in opers THEN [s.cl[d] EXCEPT !.oper = "no"]
                                 ELSE s.cl[d]]
<1>1. t \in Tables /\ refs \in SUBSET t.held
  BY LastLineHeld DEF Ok
<1>2. t' = [s EXCEPT !.olines = FALSE, !.cl = cl]
  BY DEF SvsAdmin
<1> HIDE DEF refs, opers
<1>3. s \in Tables
  BY <1>1, DetachFields
<1>4. Live(s)
  BY <1>1, DetachLive
<1> HIDE DEF s, cl
<1>5. SameItems(s, t')
  BY <1>2, <1>3 DEF SameItems, Tables
<1> QED BY <1>4, <1>5, ItemsLive

(* check_pings and timeout_auth_queries let clients leave or in.            *)
LEMMA PeriodicLive ==
  ASSUME ~Adns, Ok(t), Live(t), NEW refused \in SUBSET Refusable(t), Periodic(refused)
  PROVE  Live(t')
<1> DEFINE out == Dying(t) \cup refused
           e == Exit(t, out)
           q == e.asking \ Late(t)
           cl == [c \in Conn |->
                     IF c \in out THEN Gone
                     ELSE IF c \in Late(t) THEN ReleaseLate(t, c)
                     ELSE IF Silent(t, c) /\ ~t.cl[c].pinged THEN SendPing(t, c)
                     ELSE t.cl[c]]
<1>1. t \in Tables
  BY DEF Ok
<1>2. out \in SUBSET Conn
  BY DEF Dying, Refusable, Local
<1>3. t' = [e EXCEPT !.rehashed = FALSE, !.asking = q, !.cl = cl]
  BY DEF Periodic
<1> HIDE DEF out, q, cl
<1>4. e \in Tables
  BY <1>1, <1>2, ExitFields
<1>5. Live(e)
  BY <1>1, <1>2, ExitLive
<1> HIDE DEF e
<1>6. SameItems(e, t')
  BY <1>3, <1>4 DEF SameItems, Tables
<1> QED BY <1>5, <1>6, ItemsLive

(* attach_cn_lines attaches two.                                            *)
LEMMA StartLinkLive ==
  ASSUME NEW s, Ok(s), Live(s), NEW i \in Item, NEW c \in Conn
  PROVE  Live(StartLink(s, i, c))
<1> DEFINE a == LineHost[i[1]]
           pick(kind) == CHOOSE j \in ListedAs(s, kind) : LineHost[j[1]] = a
           x == [Gone EXCEPT !.st = "connecting", !.addr = a]
           v == [s EXCEPT !.cl = [s.cl EXCEPT ![c] = x]]
           S == {pick("C"), pick("N")}
<1>1. CASE s.cl[c].st # "free" \/ Linked(s) \/ NoLine(s, "C", a) \/ NoLine(s, "N", a)
  BY <1>1 DEF StartLink
<1>2. CASE ~(s.cl[c].st # "free" \/ Linked(s) \/ NoLine(s, "C", a) \/ NoLine(s, "N", a))
  <2>1. StartLink(s, i, c) = Attach(v, c, S)
    BY <1>2 DEF StartLink
  <2>2. pick("C") \in ListedAs(s, "C") /\ pick("N") \in ListedAs(s, "N")
    BY <1>2 DEF NoLine
  <2>3. S \in SUBSET Item
    BY <2>2 DEF ListedAs, Listed
  <2>4. s \in Tables /\ a \in Addr
    BY ConnAssumption DEF Ok, Item
  <2>5. x \in Client
    BY <2>4, GoneFacts DEF Client, Statuses, Gone
  <2> HIDE DEF x, S
  <2>6. v \in Tables
    BY <2>4, <2>5 DEF Tables
  <2>7. SameItems(s, v)
    BY <2>4 DEF SameItems, Tables
  <2> HIDE DEF v
  <2> QED BY <2>1, <2>3, <2>6, <2>7, ItemsLive, AttachLive
<1> QED BY <1>1, <1>2

(* A query that is begun or answered, and noted in its line.                *)
LEMMA AskLive ==
  ASSUME NEW s \in Tables, Live(s), NEW i \in Item, NEW r \in ItemRec,
         r.alloc = s.item[i].alloc, r.illegal = s.item[i].illegal,
         NEW u, u.item = [s.item EXCEPT ![i] = r], u.gen = s.gen, u.conf = s.conf,
         u.stale = s.stale, u.resolving \ {i} = s.resolving \ {i},
         i \in u.resolving <=> r.pending # "no"
  PROVE  Live(u)
<1>1. /\ u.item[i] = r /\ \A j \in Item \ {i} : u.item[j] = s.item[j]
  BY DEF Tables
<1>2. \A j \in Item : u.item[j].alloc = s.item[j].alloc /\ u.item[j].illegal = s.item[j].illegal
  BY <1>1
<1>3. Files(u)
  BY <1>2 DEF Live, Files, Listed
<1>4. Answers(u)
  <2>1. \A j \in Item \ {i} : j \in u.resolving <=> j \in s.resolving
    OBVIOUS
  <2> QED BY <1>1, <2>1 DEF Live, Answers
<1> QED BY <1>3, <1>4 DEF Live

(* A line whose host is not known yet is looked up.                         *)
LEMMA ConnectLive ==
  ASSUME Ok(t), Live(t), NEW i \in Item, NEW c \in Conn, Connect(i, c)
  PROVE  Live(t')
<1>1. CASE t.item[i].known
  BY <1>1, StartLinkLive DEF Connect
<1>2. CASE ~t.item[i].known
  <2> DEFINE r == [t.item[i] EXCEPT !.pending = "connect"]
  <2>1. t \in Tables /\ t.item[i] \in ItemRec
    BY DEF Ok, Tables
  <2>2. /\ r \in ItemRec /\ r.alloc = t.item[i].alloc /\ r.illegal = t.item[i].illegal
        /\ r.pending = "connect"
    BY <2>1 DEF ItemRec
  <2>3. t' = [t EXCEPT !.item = [t.item EXCEPT ![i] = r], !.resolving = t.resolving \cup {i}]
    BY <1>2, <2>1 DEF Connect, Tables
  <2> HIDE DEF r
  <2>4. /\ t'.item = [t.item EXCEPT ![i] = r] /\ t'.gen = t.gen /\ t'.conf = t.conf
        /\ t'.stale = t.stale /\ t'.resolving = t.resolving \cup {i}
    BY <2>1, <2>3 DEF Tables
  <2> QED BY <2>1, <2>2, <2>4, AskLive
<1> QED BY <1>1, <1>2

(* The answer for a line comes to one that exists, which forgets its query. *)
LEMMA LineResolvedLive ==
  ASSUME ~Adns, Ok(t), Live(t), NEW i \in Item, NEW c \in Conn, NEW ok \in BOOLEAN,
         LineResolved(i, c, ok)
  PROVE  Live(t')
<1> DEFINE r == [t.item[i] EXCEPT !.pending = "no", !.known = @ \/ ok]
           item == [t.item EXCEPT ![i] = r]
           q == t.resolving \ {i}
           s == [t EXCEPT !.item = item, !.resolving = q]
<1>1. t \in Tables /\ t.item[i] \in ItemRec /\ t.item \in [Item -> ItemRec]
  BY DEF Ok, Tables
<1>2. /\ r \in ItemRec /\ AlikeItem(r, t.item[i]) /\ r.pending = "no"
  BY <1>1 DEF ItemRec, AlikeItem
<1>3. t.item[i].alloc
  BY DEF Ok, Confs, LinesSound, LineResolved
<1>4. s = [t EXCEPT !.resolving = @ \ {i}, !.item[i].pending = "no", !.item[i].known = @ \/ ok]
  BY <1>1 DEF Tables
<1>5. t' = s \/ t' = StartLink(s, i, c)
  <2> HIDE DEF s
  <2> QED BY <1>1, <1>3, <1>4 DEF LineResolved
<1> HIDE DEF r
<1>6. item \in [Item -> ItemRec] /\ \A j \in Item : AlikeItem(item[j], t.item[j])
  BY <1>1, <1>2 DEF AlikeItem
<1>7. q \in SUBSET Item /\ \A j \in q : j \in t.resolving
  BY <1>1 DEF Tables
<1> HIDE DEF item, q
<1>8. /\ s \in Tables /\ s.held = t.held /\ s.cl = t.cl /\ s.klass = t.klass
      /\ s.gen = t.gen /\ s.ip = t.ip /\ s.lis = t.lis /\ s.asking = t.asking
      /\ s.item = item /\ s.resolving = q /\ s.conf = t.conf /\ s.stale = t.stale
  BY <1>1, <1>6, <1>7 DEF Tables
<1> HIDE DEF s
<1>9. Ok(s)
  BY <1>6, <1>7, <1>8, SameClients
<1>10. Live(s)
  <2>1. s.resolving \ {i} = t.resolving \ {i} /\ i \notin s.resolving
    BY <1>8 DEF q
  <2>2. s.item = [t.item EXCEPT ![i] = r]
    BY <1>8 DEF item
  <2>3. r.alloc = t.item[i].alloc /\ r.illegal = t.item[i].illegal
    BY <1>2 DEF AlikeItem
  <2> QED BY <1>1, <1>2, <1>8, <2>1, <2>2, <2>3, AskLive
<1> QED BY <1>5, <1>9, <1>10, StartLinkLive

(* Where check_server finds a line of the neighbour it finds a listed one,  *)
(* and its choice is listed.                                                *)
LEMMA ChoiceListed ==
  ASSUME HostsKept, NEW s, Ok(s), Live(s), NEW c \in Conn, NEW kind \in {"C", "N"},
         NEW S, S = Lines(s, c) \cup (ListedAs(s, "C") \cup ListedAs(s, "N")),
         LinesAt(s, S, c, kind) # {}, ListedAs(s, "C") \cup ListedAs(s, "N") # {}
  PROVE  Choice(s, S, c, kind) \in Listed(s)
<1>1. PICK i \in LinesAt(s, S, c, kind) : TRUE
  OBVIOUS
<1>2. s \in Tables /\ s.gen \in Gen /\ s.conf \in Config
  BY DEF Ok, Tables
<1>3. i \in Item /\ KindOf(i) = kind /\ LineHost[i[1]] = s.cl[c].addr
  <2>1. Lines(s, c) \in SUBSET Item
    BY <1>2 DEF Lines, RefsOf, Tables
  <2>2. S \subseteq Item
    BY <2>1 DEF ListedAs, Listed
  <2> QED BY <1>1, <2>2 DEF LinesAt
<1>4. s.item[i].alloc
  <2>1. CASE i \in Lines(s, c)
    <3>1. PICK r \in s.held : r[1] = c /\ r[2] = i
      BY <2>1 DEF Lines, RefsOf
    <3> QED BY <3>1 DEF Ok, Confs, LinesSound
  <2>2. CASE i \in ListedAs(s, "C") \cup ListedAs(s, "N")
    BY <2>2 DEF ListedAs, Listed
  <2> QED BY <1>1, <2>1, <2>2 DEF LinesAt
<1>5. PICK cf \in Config : i[1] \in cf.lines
  BY <1>3, <1>4 DEF Live, Files
<1>6. PICK k \in s.conf.lines : Kind[k] = kind /\ LineHost[k] = s.cl[c].addr
  <2>1. PICK l \in ListedAs(s, "C") \cup ListedAs(s, "N") : TRUE
    OBVIOUS
  <2>2. l[1] \in s.conf.lines /\ Kind[l[1]] \in {"C", "N"}
    BY <2>1 DEF ListedAs, KindOf, Live, Files
  <2> QED BY <1>2, <1>3, <1>5, <2>2 DEF HostsKept, KindOf
<1> DEFINE j == <<k, s.gen>>
<1>7. j \in Item /\ j[1] = k /\ j[2] = s.gen
  BY <1>2, <1>6, ConnAssumption DEF Item
<1> HIDE DEF j
<1>8. j \in Listed(s) /\ KindOf(j) = kind /\ LineHost[j[1]] = s.cl[c].addr
  BY <1>6, <1>7 DEF Live, Files, KindOf
<1>9. j \in S
  BY <1>8 DEF ListedAs
<1>10. LinesAt(s, S, c, kind) \cap Listed(s) # {}
  BY <1>8, <1>9 DEF LinesAt
<1> QED BY <1>10, ChoiceFacts

(* server_estab detaches lines.                                             *)
LEMMA EstabLive ==
  ASSUME ~Adns, NEW s \in Tables, Live(s), NEW c \in Conn
  PROVE  Live(Estab(s, c))
<1> DEFINE out == {r \in RefsOf(s, {c}) : KindOf(r[2]) \notin {"N", "H"}}
           u == Detach(s, out)
           e == Estab(s, c)
<1>1. out \in SUBSET s.held
  BY DEF RefsOf
<1>2. e = [u EXCEPT !.cl[c].st = "server"]
  BY DEF Estab
<1> HIDE DEF out, e
<1>3. u \in Tables
  BY <1>1, DetachFields
<1>4. Live(u)
  BY <1>1, DetachLive
<1> HIDE DEF u
<1>5. SameItems(u, e)
  BY <1>2, <1>3 DEF SameItems, Tables
<1> QED BY <1>4, <1>5, ItemsLive DEF e

(* check_server follows no freed line: what it chose is still listed after  *)
(* all lines of the link were detached, since only illegal ones are freed.  *)
LEMMA CheckServerLive ==
  ASSUME ~Adns, HostsKept, NEW s, Ok(s), Live(s), NEW c \in Conn, NEW accepted \in BOOLEAN
  PROVE  Live(CheckServer(s, c, accepted))
<1> DEFINE cn  == ListedAs(s, "C") \cup ListedAs(s, "N")
           all == Lines(s, c) \cup cn
           ch  == Choice(s, all, c, "C")
           nh  == Choice(s, all, c, "N")
           two == {ch, nh}
           u   == Detach(s, RefsOf(s, {c}))
           S   == (two \cap Listed(u)) \cup ListedAs(u, "H")
           v   == Attach(u, c, S)
           w   == [v EXCEPT !.item[ch].known = TRUE]
           r   == CheckServer(s, c, accepted)
           bad == \/ Cardinality(cn) < 2
                  \/ LinesAt(s, all, c, "C") = {} \/ LinesAt(s, all, c, "N") = {}
<1>1. \/ r = Exit(s, {c})
      \/ ~bad /\ \E i \in two : ~u.item[i].alloc
      \/ r = Exit(v, {c})
      \/ r = Estab(w, c)
  BY DEF CheckServer
<1>2. S \in SUBSET Item
  BY DEF ListedAs, Listed
<1>3. ~bad => two \subseteq Listed(s)
  <2> SUFFICES ASSUME ~bad PROVE ch \in Listed(s) /\ nh \in Listed(s)
    OBVIOUS
  <2>0. cn # {}
    BY FS_EmptySet
  <2> HIDE DEF ch, nh
  <2>1. ch \in Listed(s)
    BY <2>0, ChoiceListed DEF ch
  <2>2. nh \in Listed(s)
    BY <2>0, ChoiceListed DEF nh
  <2> QED BY <2>1, <2>2
<1> HIDE DEF bad, all, cn, ch, nh, two, S, r
<1>4. s \in Tables
  BY DEF Ok
<1>5. u \in Tables /\ Live(u) /\ Listed(u) = Listed(s)
  <2>1. RefsOf(s, {c}) \in SUBSET s.held
    BY DEF RefsOf
  <2>2. u \in Tables
    BY <1>4, <2>1, DetachFields
  <2> QED BY <1>4, <2>1, <2>2, DetachLive
<1> HIDE DEF u
<1>6. ~(~bad /\ \E i \in two : ~u.item[i].alloc)
  BY <1>3, <1>5 DEF Listed
<1>7. v \in Tables /\ Live(v)
  <2>1. v \in Tables
    BY <1>2, <1>5, AttachFields
  <2> QED BY <1>2, <1>5, <2>1, AttachLive
<1> HIDE DEF v
<1>8. w \in Tables /\ Live(w)
  <2> DEFINE item == [v.item EXCEPT ![ch].known = TRUE]
  <2>1. \A i \in Item : v.item[i] \in ItemRec
    BY <1>7 DEF Tables
  <2>2. \A i \in Item : item[i] = IF i = ch THEN [v.item[i] EXCEPT !.known = TRUE]
                                  ELSE v.item[i]
    BY <1>7 DEF Tables
  <2>3. \A i \in Item : LET x == [v.item[i] EXCEPT !.known = TRUE]
                        IN  /\ x \in ItemRec /\ x.alloc = v.item[i].alloc
                            /\ x.illegal = v.item[i].illegal
                            /\ x.pending = v.item[i].pending
    BY <2>1 DEF ItemRec
  <2>4. item = [i \in Item |-> item[i]]
    BY <1>7 DEF Tables
  <2> HIDE DEF item
  <2>5. /\ item \in [Item -> ItemRec]
        /\ \A i \in Item : /\ item[i].alloc = v.item[i].alloc
                            /\ item[i].illegal = v.item[i].illegal
                            /\ item[i].pending = v.item[i].pending
    BY <2>1, <2>2, <2>3, <2>4
  <2>6. w = [v EXCEPT !.item = item]
    BY <1>7 DEF item, Tables
  <2>7. /\ w \in Tables /\ w.item = item /\ w.gen = v.gen /\ w.conf = v.conf
        /\ w.resolving = v.resolving /\ w.stale = v.stale
    BY <1>7, <2>5, <2>6 DEF Tables
  <2> HIDE DEF w
  <2>8. SameFiles(v, w)
    BY <2>5, <2>7 DEF SameFiles
  <2> QED BY <1>7, <2>7, <2>8, KeepLive
<1> HIDE DEF w
<1>9. Live(Exit(s, {c})) /\ Live(Exit(v, {c}))
  BY <1>4, <1>7, ExitLive
<1>10. Live(Estab(w, c))
  BY <1>8, EstabLive
<1> QED BY <1>1, <1>6, <1>9, <1>10 DEF r

(* m_server, after the older link of the same name was closed or not.       *)
LEMMA ServerCmdLive ==
  ASSUME ~Adns, HostsKept, Ok(t), Live(t), NEW c \in Conn, NEW accepted \in BOOLEAN,
         NEW younger \in BOOLEAN, ServerCmd(c, accepted, younger)
  PROVE  Live(t')
<1> DEFINE s == Heard(t, c)
           others == {d \in Conn : t.cl[d].st = "server"}
           u == IF others = {} THEN s ELSE Exit(s, others)
<1>1. t \in Tables
  BY DEF Ok
<1>2. Ok(s) /\ s \in Tables /\ Live(s) /\ \A d \in Conn : s.cl[d].st = t.cl[d].st
  <2>1. Ok(s) /\ \A d \in Conn : s.cl[d].st = t.cl[d].st
    BY HeardOk
  <2>2. Live(s)
    BY <1>1, HeardItems, ItemsLive
  <2> QED BY <2>1, <2>2 DEF Ok
<1>3. t' = Exit(s, {c}) \/ t' = CheckServer(u, c, accepted)
  BY DEF ServerCmd
<1> HIDE DEF s
<1>4. others \in SUBSET Conn /\ \A d \in others : s.cl[d].st # "auth"
  BY <1>2
<1> HIDE DEF others
<1>5. Ok(u)
  BY <1>2, <1>4, ExitOk
<1>6. Live(u)
  BY <1>2, <1>4, ExitLive
<1> HIDE DEF u
<1>7. Live(Exit(s, {c}))
  BY <1>2, ExitLive
<1> QED BY <1>3, <1>5, <1>6, <1>7, CheckServerLive


(* What initconf needs: no line of the new generation exists yet, and the   *)
(* old ones are illegal.                                                    *)
Before(s) ==
  /\ s \in Tables /\ s.gen + 1 \in Gen /\ ClassesSound(s) /\ Answers(s) /\ ~s.stale
  /\ \A i \in Item : s.item[i].alloc => \E cf \in Config : i[1] \in cf.lines
  /\ \A i \in s.resolving : i[2] # s.gen + 1
  /\ Listed(s) = {}

(* initconf looks up the hosts of the new lines and lists all of them.      *)
LEMMA ReadLive ==
  ASSUME NEW s, Before(s), NEW cf \in Config, NEW u, u = ReadFile(s, cf)
  PROVE  Live(u)
<1> DEFINE new == NewItems(s, cf)
<1>1. ReadBy(s, cf, u)
  BY ReadFileFields DEF Before
<1>2. u.resolving = s.resolving \cup {i \in new : i[1] \in Named}
  <2>1. u.resolving = s.resolving \cup
             {i \in Item : i[2] = s.gen + 1 /\ i[1] \in cf.lines \cap Named}
    BY DEF ReadFile, Before, Tables
  <2>2. {i \in Item : i[2] = s.gen + 1 /\ i[1] \in cf.lines \cap Named}
          = {i \in new : i[1] \in Named}
    BY DEF NewItems
  <2> QED BY <2>1, <2>2
<1>3. \A i \in new : u.item[i].pending = IF i[1] \in Named THEN "conf" ELSE "no"
  <2> SUFFICES ASSUME NEW i \in new
               PROVE  u.item[i].pending = IF i[1] \in Named THEN "conf" ELSE "no"
    OBVIOUS
  <2>1. i \in Item /\ i[2] = s.gen + 1 /\ i[1] \in cf.lines
    BY DEF NewItems
  <2>2. u.item[i] =
               [alloc |-> TRUE, illegal |-> FALSE, clients |-> 0,
                class |-> IF Counts(i) THEN StructIn(s, ClassIn(cf, i[1])) ELSE NoClass,
                pending |-> IF i[1] \in Named THEN "conf" ELSE "no",
                known |-> i[1] \notin Named]
    BY <2>1 DEF ReadFile, Before, Tables
  <2> QED BY <2>2
<1>4. /\ \A i \in Item \ new : u.item[i] = s.item[i]
      /\ \A i \in new : u.item[i].alloc /\ ~u.item[i].illegal
      /\ u.gen = s.gen + 1 /\ u.conf = cf /\ u.stale = s.stale
  BY <1>1 DEF ReadBy
<1>5. new = {i \in Item : i[2] = s.gen + 1 /\ i[1] \in cf.lines}
  BY DEF NewItems
<1> HIDE DEF new
<1>6. Files(u)
  <2>1. \A i \in Item : i \in Listed(u) <=> i \in new
    BY <1>4 DEF Before, Listed
  <2>2. Listed(u) = {i \in Item : i[2] = u.gen /\ i[1] \in u.conf.lines}
    BY <1>4, <1>5, <2>1 DEF Listed
  <2> QED BY <1>4, <1>5, <2>2 DEF Before, Files
<1>7. Answers(u)
  <2> SUFFICES ASSUME NEW i \in Item
               PROVE  i \in u.resolving <=> u.item[i].pending # "no"
    BY DEF Answers
  <2>1. CASE i \in new
    <3>1. i \notin s.resolving
      BY <1>5, <2>1 DEF Before
    <3> QED BY <1>2, <1>3, <2>1, <3>1
  <2>2. CASE i \notin new
    BY <1>2, <1>4, <2>2 DEF Before, Answers
  <2> QED BY <2>1, <2>2
<1> QED BY <1>4, <1>6, <1>7 DEF Live, Before

(* clear_out_old_conf drops the queries of the lines it frees.              *)
LEMMA ClearOutBefore ==
  ASSUME ~Adns, NEW s, Ok(s), Live(s), NEW cf \in Config, s.gen + 1 \in Gen,
         NEW u, u = ClearOut(s, cf)
  PROVE  Before(u)
<1> DEFINE freed == Unattached(s)
<1>1. s \in Tables /\ Confs(s) /\ Socks(s)
  BY DEF Ok
<1>2. /\ u \in Tables /\ u.gen = s.gen /\ u.stale = s.stale
      /\ \A i \in freed : u.item[i] = Freed
      /\ \A i \in Item \ freed : /\ u.item[i].alloc = s.item[i].alloc
                                 /\ u.item[i].illegal = s.item[i].alloc
  BY <1>1, ClearOutFields
<1>3. u.resolving = s.resolving \ freed
  BY <1>1 DEF ClearOut, Unattached, Tables
<1>4. \A i \in Item \ freed : u.item[i].pending = s.item[i].pending
  <2> SUFFICES ASSUME NEW i \in Item \ freed PROVE u.item[i].pending = s.item[i].pending
    OBVIOUS
  <2>1. u.item[i] = [s.item[i] EXCEPT !.illegal = s.item[i].alloc]
    BY <1>1 DEF ClearOut, Unattached, Tables
  <2>2. s.item[i] \in ItemRec
    BY <1>1 DEF Tables
  <2> QED BY <2>1, <2>2 DEF ItemRec
<1>5. ClassesSound(u)
  BY <1>1, ClearOutGood DEF Confs
<1>6. \A i \in s.resolving : i[2] # s.gen + 1
  <2> SUFFICES ASSUME NEW i \in s.resolving, i[2] = s.gen + 1 PROVE FALSE
    OBVIOUS
  <2>1. i \in Item /\ s.item[i].alloc
    BY <1>1 DEF Confs, LinesSound, Tables
  <2>2. i[2] <= s.gen
    BY <1>1, <2>1 DEF Confs, LinesSound
  <2>3. s.gen \in Int
    BY ConnAssumption DEF Ok, Gen
  <2> QED BY <2>2, <2>3
<1> HIDE DEF freed
<1>7. \A i \in freed : ~u.item[i].alloc /\ u.item[i].pending = "no"
  BY <1>2 DEF Freed
<1>8. Answers(u)
  BY <1>3, <1>4, <1>7 DEF Live, Answers
<1>9. \A i \in Item : u.item[i].alloc => s.item[i].alloc
  BY <1>2, <1>7
<1>10. Listed(u) = {}
  BY <1>2, <1>7 DEF Listed
<1> QED BY <1>2, <1>3, <1>5, <1>6, <1>8, <1>9, <1>10 DEF Before, Live, Files

(* A rehash replaces the lines and their queries.                           *)
LEMMA RehashLive ==
  ASSUME ~Adns, Ok(t), Live(t), NEW cf \in Config, Rehash(cf)
  PROVE  Live(t')
<1> DEFINE s == ClearOut(t, cf)
           u == ReadFile(s, cf)
<1>1. t' = [u EXCEPT !.rehashed = TRUE] /\ t.gen + 1 \in Gen
  BY ConnAssumption DEF Rehash, Ok, Gen
<1>2. Before(s)
  BY <1>1, ClearOutBefore
<1> HIDE DEF s
<1>3. Live(u)
  BY <1>2, ReadLive
<1>4. u \in Tables
  BY <1>2, ReadFileFields DEF Before, ReadBy
<1> HIDE DEF u
<1>5. SameItems(u, t')
  BY <1>1, <1>4 DEF SameItems, Tables
<1> QED BY <1>3, <1>5, ItemsLive

(* The first file is read into empty tables.                                *)
LEMMA InitLive ==
  ASSUME Init
  PROVE  Live(t)
<1> PICK cf \in Config : t = ReadFile(Bare(cf), cf)
  BY DEF Init, Boot, Bare
<1> DEFINE b == Bare(cf)
<1>1. Gone \in Client /\ Freed \in ItemRec /\ NoStruct \in StructRec
  BY GoneFacts DEF Freed, ItemRec, NoStruct, StructRec
<1>2. /\ b.item = [i \in Item |-> Freed] /\ b.klass = [k \in Struct |-> NoStruct]
      /\ b.resolving = {} /\ b.gen = -1 /\ b.stale = FALSE
  BY DEF Bare
<1>3. b \in Tables
  BY <1>1 DEF Bare, Tables
<1> HIDE DEF b
<1>4. b.gen + 1 \in Gen
  BY <1>2, ConnAssumption DEF Gen
<1>5. Before(b)
  BY <1>2, <1>3, <1>4 DEF Before, ClassesSound, Answers, Listed, Freed, NoStruct
<1> QED BY <1>5, ReadLive DEF b

(* Every step keeps Live, one lemma per action.                             *)
LEMMA NextLive ==
  ASSUME ~Adns, HostsKept, Ok(t), Live(t), [Next]_t
  PROVE  Live(t')
<1>1. CASE UNCHANGED t
  BY <1>1
<1>2. ASSUME NEW c \in Conn, NEW a \in Addr, NEW p \in Port, NEW asked \in BOOLEAN,
             Accept(c, a, p, asked)
      PROVE  Live(t')
  BY <1>2, AcceptLive
<1>3. ASSUME NEW c \in Conn,
             \/ SendAuthQuery(c) \/ EndIdent(c) \/ DnsAnswer(c) \/ SvsOper(c)
             \/ Read(c) \/ SendFails(c) \/ Connected(c)
      PROVE  Live(t')
  BY <1>3, ClientsLive
<1>4. ASSUME NEW c \in Conn, RefuseClient(c) \/ Lose(c) \/ Deoper(c)
      PROVE  Live(t')
  BY <1>4, LeaveLive, DeoperLive
<1>5. ASSUME NEW c \in Conn, NEW i \in Item, NEW welcome \in BOOLEAN,
             Register(c, i, welcome)
      PROVE  Live(t')
  BY <1>5, RegisterLive
<1>6. ASSUME NEW c \in Conn, NEW i \in Item, Oper(c, i) \/ Connect(i, c)
      PROVE  Live(t')
  BY <1>6, OperLive, ConnectLive
<1>7. ASSUME NEW c \in Conn, NEW i \in Item, NEW ok \in BOOLEAN, LineResolved(i, c, ok)
      PROVE  Live(t')
  BY <1>7, LineResolvedLive
<1>8. ASSUME NEW c \in Conn, NEW accepted \in BOOLEAN, NEW younger \in BOOLEAN,
             ServerCmd(c, accepted, younger)
      PROVE  Live(t')
  BY <1>8, ServerCmdLive
<1>9. CASE SvsAdmin
  BY <1>9, SvsAdminLive
<1>10. CASE Tick
  BY <1>10, TickLive
<1>11. CASE Housekeeping
  BY <1>11, PeriodicLive DEF Housekeeping
<1>12. ASSUME NEW cf \in Config, Rehash(cf) PROVE Live(t')
  BY <1>12, RehashLive
<1> QED BY <1>1, <1>2, <1>3, <1>4, <1>5, <1>6, <1>7, <1>8, <1>9, <1>10, <1>11, <1>12 DEF Next

(* Live as a state formula.                                                 *)
LiveNow == Live(t)

(* Built with the resolver of res.c and as long as no file moves the        *)
(* neighbour, the resolver's queries are those of the clients that wait and *)
(* of the lines that note one, all of them alive, a client is in the auth   *)
(* module as long as it waits for ident or DNS, and check_server follows no *)
(* freed line.                                                              *)
THEOREM QueriesAreLive ==
  ASSUME ~Adns, HostsKept
  PROVE  Spec => []QueriesLive
<1>1. Init => LiveNow
  BY InitLive DEF LiveNow
<1>2. OkNow /\ LiveNow /\ [Next]_t => LiveNow'
  BY NextLive DEF OkNow, LiveNow
<1>3. OkNow /\ LiveNow => QueriesLive
  <2> SUFFICES ASSUME Ok(t), Live(t) PROVE QueriesLive
    BY DEF OkNow, LiveNow
  <2>1. t.resolving \in SUBSET Item /\ t.asking \in SUBSET Conn
    BY DEF Ok, Tables
  <2>2. QueryForConf
    BY <2>1 DEF Ok, Confs, LinesSound, QueryForConf
  <2>3. t.asking = {c \in Conn : t.cl[c].dns}
    BY <2>1 DEF Ok, ClientsSound, Asks
  <2>4. \A c \in Conn : t.cl[c].dns \/ t.cl[c].ident # "none" <=> t.cl[c].st = "auth"
    BY DEF Ok, ClientsSound, Sound
  <2> QED BY <2>2, <2>3, <2>4 DEF QueriesLive, Live, Answers
<1> QED BY <1>1, <1>2, <1>3, AlwaysOk, PTL DEF Spec

=============================================================================
