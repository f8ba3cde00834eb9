------------------------------ MODULE ConnProofs ------------------------------
(***************************************************************************)
(* Proofs about Conn, for any finite sets of clients, lines and classes,   *)
(* any configurations and any number of rehashes: the counters are exact,  *)
(* nothing that is referred to has been freed, and nothing is kept that    *)
(* nobody refers to.  All follow from the inductive invariant Ok.          *)
(*                                                                         *)
(* First, what the operations on the tables do and keep: one lemma for     *)
(* each of attach_conf, detach_conf, exit_client, clear_out_old_conf and   *)
(* initconf that lists the fields it changes, and one that it keeps the    *)
(* tables sound.  The steps of the program are built from them.            *)
(***************************************************************************)
EXTENDS Conn, TLAPS, FiniteSetTheorems

(* The values of t, with generation -1 before the first file is read: the  *)
(* records are updated in place, so that one lemma per operation speaks of *)
(* any of them.                                                            *)
Tables == [cl : [Conn -> Client], held : SUBSET (Conn \X Item), ip : [Addr -> Nat],
           lis : [Port -> [open : BOOLEAN, active : BOOLEAN, ref : Int]],
           item : [Item -> ItemRec], klass : [Struct -> StructRec],
           asking : SUBSET Conn, resolving : SUBSET Item, gen : Gen \cup {-1},
           conf : Config, rehashed : BOOLEAN, olines : BOOLEAN, stale : BOOLEAN]

(* The four counters are exact: clients of a line, links of a class,       *)
(* clients of an address, clients of a listener. The last two are only     *)
(* written by accept_connection, attach_iline and close_connection, the    *)
(* first two by attach_conf and detach_conf.                               *)
ItemsExact(s) ==
  \A i \in Item : s.item[i].clients = Cardinality(ToItem(s.held, i))
LinksExact(s) ==
  \A k \in Struct : s.klass[k].links = Cardinality(ToClass(s, s.held, k))
AddrsExact(s) ==
  \A a \in Addr : s.ip[a] = Cardinality(AddrRefs(s, a))
PortsExact(s) ==
  \A p \in Port : s.lis[p].ref = Cardinality(PortRefs(s, p))

(* The lines: what is attached exists; what exists was read, is attached   *)
(* if it is of an old file (detach_conf frees it with its last client),    *)
(* and an item that is not illegal has a listed class, since               *)
(* clear_out_old_conf makes every item illegal before check_class drops a  *)
(* class. With the resolver of res.c a query is for an item that exists.   *)
LinesSound(s) ==
  /\ \A r \in s.held : s.item[r[2]].alloc
  /\ \A i \in Item : s.item[i].alloc =>
       /\ i[2] <= s.gen
       /\ s.item[i].illegal => ToItem(s.held, i) # {}
       /\ s.item[i].class # NoClass =>
            Counts(i) /\ (s.item[i].illegal \/ s.klass[s.item[i].class].listed)
  /\ ~Adns => \A i \in s.resolving : s.item[i].alloc

(* The classes: a struct exists as long as the file lists it or it has     *)
(* links, and a number is listed once, since add_class updates the struct  *)
(* that find_class finds.                                                  *)
ClassesSound(s) ==
  /\ \A k \in Struct : s.klass[k].alloc <=> s.klass[k].listed \/ s.klass[k].links > 0
  /\ \A k, q \in Struct : s.klass[k].listed /\ s.klass[q].listed /\ k[1] = q[1] => k = q

(* The listeners: a client's is open, and an open one is of the present    *)
(* configuration or has clients.                                           *)
PortsSound(s) ==
  /\ \A c \in Conn : s.cl[c].port # NoPort => s.lis[s.cl[c].port].open
  /\ \A p \in Port : s.lis[p].open => s.lis[p].active \/ PortRefs(s, p) # {}

-----------------------------------------------------------------------------

(* There are finitely many references from clients to lines, so that they  *)
(* can be counted.                                                         *)
LEMMA RefsFinite == /\ IsFiniteSet(Conn) /\ IsFiniteSet(Conn \X Item)
                    /\ \A S \in SUBSET Conn : IsFiniteSet(S)
                    /\ \A S \in SUBSET (Conn \X Item) : IsFiniteSet(S)
<1>1. IsFiniteSet(Gen)
  BY ConnAssumption, FS_Interval DEF Gen
<1>2. IsFiniteSet(Item)
  BY <1>1, ConnAssumption, FS_Product DEF Item
<1>3. IsFiniteSet(Conn \X Item)
  BY <1>2, ConnAssumption, FS_Product
<1> QED BY <1>3, ConnAssumption, FS_Subset

(* Disjoint sets count together: what attach_conf adds to a counter.       *)
LEMMA CardAdd ==
  ASSUME NEW A, NEW B, IsFiniteSet(A), IsFiniteSet(B), A \cap B = {}
  PROVE  /\ Cardinality(A \cup B) = Cardinality(A) + Cardinality(B)
         /\ Cardinality(A) \in Nat /\ Cardinality(B) \in Nat
<1>1. /\ Cardinality(A) \in Nat /\ Cardinality(B) \in Nat
      /\ Cardinality(A \cap B) = 0
  BY FS_CardinalityType, FS_EmptySet
<1>2. Cardinality(A \cup B) = Cardinality(A) + Cardinality(B) - Cardinality(A \cap B)
  BY FS_Union
<1> QED BY <1>1, <1>2

(* A subset is taken off a count: what detach_conf and close_connection    *)
(* take from a counter. A count of 0 means that nobody is left.            *)
LEMMA CardSub ==
  ASSUME NEW A, NEW B, NEW C, IsFiniteSet(A), B \subseteq A, C = A \ B
  PROVE  /\ Cardinality(C) = Cardinality(A) - Cardinality(B)
         /\ Cardinality(C) \in Nat /\ Cardinality(A) \in Nat /\ Cardinality(B) \in Nat
         /\ Cardinality(C) = 0 => C = {}
<1>1. IsFiniteSet(B) /\ IsFiniteSet(C)
  BY FS_Subset
<1>2. A = B \cup C /\ B \cap C = {}
  OBVIOUS
<1>3. Cardinality(A) = Cardinality(B) + Cardinality(C)
  BY <1>1, <1>2, CardAdd
<1>4. Cardinality(A) \in Nat /\ Cardinality(B) \in Nat /\ Cardinality(C) \in Nat
  BY <1>1, FS_CardinalityType
<1>5. Cardinality(C) = 0 => C = {}
  BY <1>1, FS_EmptySet
<1> QED BY <1>3, <1>4, <1>5

(* What attach_conf adds, which is_attached keeps from being there         *)
(* already.                                                                *)
NewRefs(s, c, S) == {<<c, i>> : i \in S \ Lines(s, c)}

(* attach_conf, field by field: it adds references and their counts, and   *)
(* leaves the rest alone.                                                  *)
LEMMA AttachFields ==
  ASSUME NEW s \in Tables, NEW c \in Conn, NEW S \in SUBSET Item,
         NEW u, u = Attach(s, c, S)
  PROVE  /\ u \in Tables
         /\ u.held = s.held \cup NewRefs(s, c, S)
         /\ NewRefs(s, c, S) \in SUBSET (Conn \X Item)
         /\ NewRefs(s, c, S) \cap s.held = {}
         /\ \A i \in Item :
              /\ u.item[i].alloc = s.item[i].alloc
              /\ u.item[i].illegal = s.item[i].illegal
              /\ u.item[i].class = s.item[i].class
              /\ u.item[i].pending = s.item[i].pending
              /\ u.item[i].known = s.item[i].known
              /\ u.item[i].clients =
                   s.item[i].clients + Cardinality(ToItem(NewRefs(s, c, S), i))
         /\ \A k \in Struct :
              /\ u.klass[k].alloc = s.klass[k].alloc
              /\ u.klass[k].listed = s.klass[k].listed
              /\ u.klass[k].links =
                   s.klass[k].links + Cardinality(ToClass(s, NewRefs(s, c, S), k))
         /\ u.cl = s.cl /\ u.ip = s.ip /\ u.lis = s.lis /\ u.asking = s.asking
         /\ u.resolving = s.resolving /\ u.gen = s.gen /\ u.conf = s.conf
         /\ u.rehashed = s.rehashed /\ u.olines = s.olines /\ u.stale = s.stale
<1> DEFINE refs == NewRefs(s, c, S)
           item == [i \in Item |->
               [s.item[i] EXCEPT !.clients = @ + Cardinality(ToItem(refs, i))]]
           klass == [k \in Struct |->
               [s.klass[k] EXCEPT !.links = @ + Cardinality(ToClass(s, refs, k))]]
           held == s.held \cup refs
<1>1. u = [s EXCEPT !.held = held, !.item = item, !.klass = klass]
  BY DEF Attach, Tables, NewRefs
<1>2. refs \in SUBSET (Conn \X Item)
  BY DEF NewRefs
<1>3. refs \cap s.held = {}
  <2> SUFFICES ASSUME NEW i \in S, i \notin Lines(s, c), <<c, i>> \in s.held PROVE FALSE
    BY DEF NewRefs
  <2>1. <<c, i>> \in RefsOf(s, {c})
    BY DEF RefsOf
  <2>2. <<c, i>>[2] \in Lines(s, c)
    BY <2>1 DEF Lines
  <2> QED BY <2>2
<1>4. \A i \in Item : Cardinality(ToItem(refs, i)) \in Nat
  BY <1>2, RefsFinite, FS_CardinalityType DEF ToItem
<1>5. \A k \in Struct : Cardinality(ToClass(s, refs, k)) \in Nat
  BY <1>2, RefsFinite, FS_CardinalityType DEF ToClass
<1>6. item \in [Item -> ItemRec]
  <2> SUFFICES ASSUME NEW i \in Item
               PROVE  [s.item[i] EXCEPT !.clients = @ + Cardinality(ToItem(refs, i))] \in ItemRec
    OBVIOUS
  <2>1. s.item[i] \in ItemRec
    BY DEF Tables
  <2> QED BY <1>4, <2>1 DEF ItemRec
<1>7. klass \in [Struct -> StructRec]
  BY <1>5 DEF Tables, StructRec
<1>8. held \in SUBSET (Conn \X Item)
  BY <1>2 DEF Tables
<1>9. \A i \in Item :
             /\ item[i].alloc = s.item[i].alloc
             /\ item[i].illegal = s.item[i].illegal
             /\ item[i].class = s.item[i].class
             /\ item[i].pending = s.item[i].pending
             /\ item[i].known = s.item[i].known
             /\ item[i].clients = s.item[i].clients + Cardinality(ToItem(refs, i))
  BY DEF Tables, ItemRec
<1>10. \A k \in Struct :
              /\ klass[k].alloc = s.klass[k].alloc
              /\ klass[k].listed = s.klass[k].listed
              /\ klass[k].links = s.klass[k].links + Cardinality(ToClass(s, refs, k))
  BY DEF Tables, StructRec
<1> HIDE DEF item, klass, held
<1>11. u \in Tables /\ u.held = held /\ u.item = item /\ u.klass = klass
  BY <1>1, <1>8, <1>6, <1>7 DEF Tables
<1>12. /\ u.cl = s.cl /\ u.ip = s.ip /\ u.lis = s.lis /\ u.asking = s.asking
       /\ u.resolving = s.resolving /\ u.gen = s.gen /\ u.conf = s.conf
       /\ u.rehashed = s.rehashed /\ u.olines = s.olines /\ u.stale = s.stale
  BY <1>1 DEF Tables
<1> QED BY <1>2, <1>3, <1>11, <1>12, <1>9, <1>10 DEF held

(* detach_conf frees class k: it lost a reference, was dropped by a rehash *)
(* and has no links left.                                                  *)
Unused(s, refs, k) ==
  /\ \E r \in refs : s.item[r[2]].class = k
  /\ ~s.klass[k].listed
  /\ LinksOf(s, refs, k) = 0

(* detach_conf, field by field: the items of Dropped are freed, the        *)
(* counters of the others go down by what was detached.                    *)
LEMMA DetachFields ==
  ASSUME NEW s \in Tables, NEW refs \in SUBSET s.held,
         NEW u, u = Detach(s, refs)
  PROVE  /\ u \in Tables
         /\ u.held = s.held \ refs
         /\ \A i \in Dropped(s, refs) : u.item[i] = Freed
         /\ \A i \in Item \ Dropped(s, refs) :
              /\ u.item[i].alloc = s.item[i].alloc
              /\ u.item[i].illegal = s.item[i].illegal
              /\ u.item[i].class = s.item[i].class
              /\ u.item[i].pending = s.item[i].pending
              /\ u.item[i].known = s.item[i].known
              /\ u.item[i].clients = LeftOf(s, refs, i)
         /\ \A k \in Struct :
              /\ (u.klass[k].alloc <=> s.klass[k].alloc /\ ~Unused(s, refs, k))
              /\ u.klass[k].listed = s.klass[k].listed
              /\ u.klass[k].links = LinksOf(s, refs, k)
         /\ u.cl = s.cl /\ u.ip = s.ip /\ u.lis = s.lis /\ u.asking = s.asking
         /\ u.resolving \subseteq s.resolving
         /\ ~Adns => u.resolving \cap Dropped(s, refs) = {}
         /\ u.gen = s.gen /\ u.conf = s.conf
         /\ u.rehashed = s.rehashed /\ u.olines = s.olines /\ u.stale = s.stale
<1> DEFINE freed == Dropped(s, refs)
           held == s.held \ refs
           resolving == IF Adns THEN s.resolving ELSE s.resolving \ freed
           item == [i \in Item |->
               IF i \in freed THEN Freed
               ELSE [s.item[i] EXCEPT !.clients = LeftOf(s, refs, i)]]
           klass == [k \in Struct |->
               IF Unused(s, refs, k) THEN NoStruct
               ELSE [s.klass[k] EXCEPT !.links = LinksOf(s, refs, k)]]
<1>1. u = [s EXCEPT !.held = held, !.item = item, !.klass = klass, !.resolving = resolving]
  BY DEF Detach, Tables, Unused
<1>2. refs \in SUBSET (Conn \X Item) /\ held \in SUBSET (Conn \X Item)
  BY DEF Tables
<1>3. resolving \in SUBSET Item
  BY DEF Tables
<1>4. \A i \in Item : LeftOf(s, refs, i) \in Int
  <2> SUFFICES ASSUME NEW i \in Item PROVE LeftOf(s, refs, i) \in Int
    OBVIOUS
  <2>1. Cardinality(ToItem(refs, i)) \in Nat
    BY <1>2, RefsFinite, FS_CardinalityType DEF ToItem
  <2>2. s.item[i].clients \in Int
    BY DEF Tables, ItemRec
  <2> QED BY <2>1, <2>2 DEF LeftOf
<1>5. \A k \in Struct : LinksOf(s, refs, k) \in Nat
  <2> SUFFICES ASSUME NEW k \in Struct PROVE LinksOf(s, refs, k) \in Nat
    OBVIOUS
  <2>1. Cardinality(ToClass(s, refs, k)) \in Nat
    BY <1>2, RefsFinite, FS_CardinalityType DEF ToClass
  <2>2. s.klass[k].links \in Nat
    BY DEF Tables, StructRec
  <2> QED BY <2>1, <2>2 DEF LinksOf, Less
<1>6. item \in [Item -> ItemRec]
  <2> SUFFICES ASSUME NEW i \in Item
               PROVE  [s.item[i] EXCEPT !.clients = LeftOf(s, refs, i)] \in ItemRec
    BY DEF ItemRec, Freed
  <2>1. s.item[i] \in ItemRec
    BY DEF Tables
  <2> QED BY <1>4, <2>1 DEF ItemRec
<1>7. klass \in [Struct -> StructRec]
  BY <1>5 DEF Tables, StructRec, NoStruct
<1>8. /\ \A i \in Item \cap freed : item[i] = Freed
      /\ \A i \in Item \ freed :
             /\ item[i].alloc = s.item[i].alloc
             /\ item[i].illegal = s.item[i].illegal
             /\ item[i].class = s.item[i].class
             /\ item[i].pending = s.item[i].pending
             /\ item[i].known = s.item[i].known
             /\ item[i].clients = LeftOf(s, refs, i)
  BY DEF Tables, ItemRec
<1>9. \A k \in Struct :
             /\ (klass[k].alloc <=> s.klass[k].alloc /\ ~Unused(s, refs, k))
             /\ klass[k].listed = s.klass[k].listed
             /\ klass[k].links = LinksOf(s, refs, k)
  BY DEF Tables, StructRec, NoStruct, Unused
<1>10. freed \subseteq Item
  BY <1>2 DEF Dropped
<1> HIDE DEF freed, held, resolving, item, klass
<1>11. /\ u \in Tables /\ u.held = held /\ u.item = item /\ u.klass = klass
       /\ u.resolving = resolving
  BY <1>1, <1>2, <1>3, <1>6, <1>7 DEF Tables
<1>12. /\ u.cl = s.cl /\ u.ip = s.ip /\ u.lis = s.lis /\ u.asking = s.asking
       /\ u.gen = s.gen /\ u.conf = s.conf
       /\ u.rehashed = s.rehashed /\ u.olines = s.olines /\ u.stale = s.stale
  BY <1>1 DEF Tables
<1> QED BY <1>11, <1>12, <1>8, <1>9, <1>10 DEF freed, held, resolving

-----------------------------------------------------------------------------

(* What is required of the configuration, and of the sockets below, as two *)
(* halves: an operation mostly touches one of them.                        *)
Confs(s) == ItemsExact(s) /\ LinksExact(s) /\ LinesSound(s) /\ ClassesSound(s)

(* attach_conf of listed lines keeps the configuration sound and its       *)
(* counters exact: the new references were in no count before.             *)
LEMMA AttachGood ==
  ASSUME NEW s \in Tables, NEW c \in Conn, NEW S \in SUBSET Listed(s), Confs(s)
  PROVE  Confs(Attach(s, c, S))
<1> DEFINE u == Attach(s, c, S)
           refs == NewRefs(s, c, S)
<1>1. S \in SUBSET Item
  BY DEF Listed
<1>2. /\ u \in Tables
      /\ u.held = s.held \cup refs /\ refs \in SUBSET (Conn \X Item)
      /\ refs \cap s.held = {} /\ u.gen = s.gen
      /\ u.resolving = s.resolving
  BY <1>1, AttachFields
<1>3. \A r \in refs : r[2] \in Item /\ s.item[r[2]].alloc /\ ~s.item[r[2]].illegal
  BY DEF Listed, NewRefs
<1>4. \A i \in Item : /\ u.item[i].alloc = s.item[i].alloc
                      /\ u.item[i].illegal = s.item[i].illegal
                      /\ u.item[i].class = s.item[i].class
                      /\ u.item[i].clients = s.item[i].clients + Cardinality(ToItem(refs, i))
  BY <1>1, AttachFields
<1>5. \A k \in Struct : /\ u.klass[k].alloc = s.klass[k].alloc
                        /\ u.klass[k].listed = s.klass[k].listed
                        /\ u.klass[k].links = s.klass[k].links + Cardinality(ToClass(s, refs, k))
  BY <1>1, AttachFields
<1> HIDE DEF u, refs
<1>6. s.held \in SUBSET (Conn \X Item)
  BY DEF Tables
<1>7. ItemsExact(u)
  <2> SUFFICES ASSUME NEW i \in Item
               PROVE  u.item[i].clients = Cardinality(ToItem(u.held, i))
    BY DEF ItemsExact
  <2>1. ToItem(u.held, i) = ToItem(s.held, i) \cup ToItem(refs, i)
    BY <1>2 DEF ToItem
  <2>2. ToItem(s.held, i) \cap ToItem(refs, i) = {}
    BY <1>2 DEF ToItem
  <2>3. IsFiniteSet(ToItem(s.held, i)) /\ IsFiniteSet(ToItem(refs, i))
    BY <1>2, <1>6, RefsFinite DEF ToItem
  <2>4. Cardinality(ToItem(u.held, i)) =
           Cardinality(ToItem(s.held, i)) + Cardinality(ToItem(refs, i))
    BY <2>1, <2>2, <2>3, CardAdd
  <2> QED BY <1>4, <2>4 DEF Confs, ItemsExact
<1>8. LinksExact(u)
  <2> SUFFICES ASSUME NEW k \in Struct
               PROVE  u.klass[k].links = Cardinality(ToClass(u, u.held, k))
    BY DEF LinksExact
  <2>1. ToClass(u, u.held, k) = ToClass(s, s.held, k) \cup ToClass(s, refs, k)
    BY <1>2, <1>4, <1>6 DEF ToClass
  <2>2. ToClass(s, s.held, k) \cap ToClass(s, refs, k) = {}
    BY <1>2 DEF ToClass
  <2>3. IsFiniteSet(ToClass(s, s.held, k)) /\ IsFiniteSet(ToClass(s, refs, k))
    BY <1>2, <1>6, RefsFinite DEF ToClass
  <2>4. Cardinality(ToClass(u, u.held, k)) =
           Cardinality(ToClass(s, s.held, k)) + Cardinality(ToClass(s, refs, k))
    BY <2>1, <2>2, <2>3, CardAdd
  <2> QED BY <1>5, <2>4 DEF Confs, LinksExact
<1>9. LinesSound(u)
  <2>1. \A r \in u.held : u.item[r[2]].alloc
    BY <1>2, <1>3, <1>4, <1>6 DEF Confs, LinesSound
  <2>2. \A i \in Item : ToItem(s.held, i) \subseteq ToItem(u.held, i)
    BY <1>2 DEF ToItem
  <2>3. /\ \A i \in Item : s.item[i].class \in Struct \cup {NoClass}
        /\ s.resolving \subseteq Item
    BY DEF Tables, ItemRec
  <2> QED BY <1>2, <1>4, <1>5, <2>1, <2>2, <2>3 DEF Confs, LinesSound
<1>10. ClassesSound(u)
  <2> SUFFICES ASSUME NEW k \in Struct
               PROVE  u.klass[k].alloc <=> u.klass[k].listed \/ u.klass[k].links > 0
    BY <1>5 DEF Confs, ClassesSound
  <2>1. s.klass[k].links \in Nat
    BY DEF Tables, StructRec
  <2>2. CASE ToClass(s, refs, k) = {}
    <3>1. Cardinality(ToClass(s, refs, k)) = 0
      BY <2>2, FS_EmptySet
    <3> QED BY <1>5, <2>1, <3>1 DEF Confs, ClassesSound
  <2>3. CASE ToClass(s, refs, k) # {}
    <3>1. PICK r \in refs : s.item[r[2]].class = k
      BY <2>3 DEF ToClass
    <3>2. s.klass[k].listed
      BY <1>3, <3>1, ConnAssumption DEF Confs, LinesSound
    <3> QED BY <1>5, <3>2 DEF Confs, ClassesSound
  <2> QED BY <2>2, <2>3
<1> QED BY <1>7, <1>8, <1>9, <1>10 DEF u, Confs

(* detach_conf of any attached lines keeps the configuration sound: an     *)
(* illegal item and an unlisted class are freed exactly when nothing       *)
(* refers to them any more, and the counts never stop at 0 early.          *)
LEMMA DetachGood ==
  ASSUME NEW s \in Tables, NEW refs \in SUBSET s.held, Confs(s)
  PROVE  Confs(Detach(s, refs))
<1> DEFINE u == Detach(s, refs)
           freed == Dropped(s, refs)
<1>1. /\ u \in Tables /\ u.held = s.held \ refs /\ u.gen = s.gen
      /\ u.resolving \subseteq s.resolving
      /\ ~Adns => u.resolving \cap freed = {}
  BY DetachFields
<1>2. /\ \A i \in freed : u.item[i] = Freed
      /\ \A i \in Item \ freed :
              /\ u.item[i].alloc = s.item[i].alloc
              /\ u.item[i].illegal = s.item[i].illegal
              /\ u.item[i].class = s.item[i].class
              /\ u.item[i].clients = LeftOf(s, refs, i)
  BY DetachFields
<1>3. \A k \in Struct :
         /\ (u.klass[k].alloc <=> s.klass[k].alloc /\ ~Unused(s, refs, k))
         /\ u.klass[k].listed = s.klass[k].listed
         /\ u.klass[k].links = LinksOf(s, refs, k)
  BY DetachFields
<1>4. s.held \in SUBSET (Conn \X Item) /\ refs \in SUBSET (Conn \X Item)
  BY DEF Tables
<1> HIDE DEF u
<1>5. \A i \in Item : /\ LeftOf(s, refs, i) = Cardinality(ToItem(u.held, i))
                      /\ LeftOf(s, refs, i) = 0 => ToItem(u.held, i) = {}
  <2> SUFFICES ASSUME NEW i \in Item
               PROVE  /\ LeftOf(s, refs, i) = Cardinality(ToItem(u.held, i))
                      /\ LeftOf(s, refs, i) = 0 => ToItem(u.held, i) = {}
    OBVIOUS
  <2>1. /\ ToItem(u.held, i) = ToItem(s.held, i) \ ToItem(refs, i)
        /\ ToItem(refs, i) \subseteq ToItem(s.held, i)
    BY <1>1 DEF ToItem
  <2>2. IsFiniteSet(ToItem(s.held, i))
    BY <1>4, RefsFinite DEF ToItem
  <2>3. /\ Cardinality(ToItem(u.held, i)) =
             Cardinality(ToItem(s.held, i)) - Cardinality(ToItem(refs, i))
        /\ Cardinality(ToItem(u.held, i)) = 0 => ToItem(u.held, i) = {}
    BY <2>1, <2>2, CardSub
  <2>4. LeftOf(s, refs, i) = Cardinality(ToItem(u.held, i))
    BY <2>3 DEF Confs, ItemsExact, LeftOf
  <2> QED BY <2>1, <2>3, <2>4
<1>6. freed \subseteq Item /\ \A i \in freed : ToItem(u.held, i) = {}
  BY <1>4, <1>5 DEF Dropped
<1>7. \A r \in u.held : r[2] \in Item \ freed
  BY <1>1, <1>4, <1>6 DEF ToItem
<1>8. \A k \in Struct : LinksOf(s, refs, k) = Cardinality(ToClass(u, u.held, k))
  <2> SUFFICES ASSUME NEW k \in Struct
               PROVE  LinksOf(s, refs, k) = Cardinality(ToClass(u, u.held, k))
    OBVIOUS
  <2> DEFINE A == ToClass(s, s.held, k)
             B == ToClass(s, refs, k)
             C == ToClass(u, u.held, k)
  <2>1. C = A \ B /\ B \subseteq A
    BY <1>1, <1>2, <1>7 DEF ToClass
  <2>2. IsFiniteSet(A)
    BY <1>4, RefsFinite DEF ToClass
  <2>3. s.klass[k].links = Cardinality(A)
    BY DEF Confs, LinksExact
  <2>4. LinksOf(s, refs, k) = Less(s.klass[k].links, B)
    BY DEF LinksOf
  <2> HIDE DEF A, B, C
  <2>5. /\ Cardinality(C) = Cardinality(A) - Cardinality(B)
        /\ Cardinality(A) \in Nat /\ Cardinality(B) \in Nat /\ Cardinality(C) \in Nat
    BY <2>1, <2>2, CardSub
  <2>6. LinksOf(s, refs, k) = Cardinality(C)
    BY <2>3, <2>4, <2>5 DEF Less
  <2> QED BY <2>6 DEF C
<1>9. ItemsExact(u)
  <2> SUFFICES ASSUME NEW i \in Item
               PROVE  u.item[i].clients = Cardinality(ToItem(u.held, i))
    BY DEF ItemsExact
  <2>1. CASE i \in freed
    BY <1>2, <1>6, <2>1, FS_EmptySet DEF Freed
  <2>2. CASE i \notin freed
    BY <1>2, <1>5, <2>2
  <2> QED BY <2>1, <2>2
<1>10. LinksExact(u)
  BY <1>3, <1>8 DEF LinksExact
<1>11. LinesSound(u)
  <2>1. \A r \in u.held : u.item[r[2]].alloc
    BY <1>1, <1>2, <1>7 DEF Confs, LinesSound
  <2>2. ASSUME NEW i \in Item, u.item[i].alloc
        PROVE  /\ i[2] <= u.gen
               /\ u.item[i].class # NoClass =>
                    Counts(i) /\ (u.item[i].illegal \/ u.klass[u.item[i].class].listed)
    <3>1. i \notin freed
      BY <1>2, <2>2 DEF Freed
    <3>2. s.item[i].class \in Struct \cup {NoClass}
      BY DEF Tables, ItemRec
    <3> QED BY <1>1, <1>2, <1>3, <2>2, <3>1, <3>2 DEF Confs, LinesSound
  <2>3. ASSUME NEW i \in Item, u.item[i].alloc, u.item[i].illegal
        PROVE  ToItem(u.held, i) # {}
    <3>1. i \notin freed /\ s.item[i].alloc /\ s.item[i].illegal
      BY <1>2, <2>3 DEF Freed
    <3>2. ToItem(s.held, i) # {}
      BY <3>1 DEF Confs, LinesSound
    <3>3. CASE \E r \in refs : r[2] = i
      <4>1. LeftOf(s, refs, i) # 0
        BY <3>1, <3>3 DEF Dropped
      <4> QED BY <1>5, <4>1, FS_EmptySet
    <3>4. CASE ~\E r \in refs : r[2] = i
      BY <1>1, <3>2, <3>4 DEF ToItem
    <3> QED BY <3>3, <3>4
  <2>4. ASSUME ~Adns, NEW i \in u.resolving PROVE u.item[i].alloc
    <3>1. i \in s.resolving \ freed /\ i \in Item
      BY <1>1, <2>4 DEF Tables
    <3> QED BY <1>2, <2>4, <3>1 DEF Confs, LinesSound
  <2> QED BY <2>1, <2>2, <2>3, <2>4 DEF LinesSound
<1>12. ClassesSound(u)
  <2> SUFFICES ASSUME NEW k \in Struct
               PROVE  u.klass[k].alloc <=> u.klass[k].listed \/ u.klass[k].links > 0
    BY <1>3 DEF Confs, ClassesSound
  <2>1. /\ s.klass[k].links \in Nat /\ s.klass[k].alloc \in BOOLEAN
        /\ s.klass[k].listed \in BOOLEAN
    BY DEF Tables, StructRec
  <2>2. Cardinality(ToClass(s, refs, k)) \in Nat
    BY <1>4, RefsFinite, FS_CardinalityType DEF ToClass
  <2>3. /\ LinksOf(s, refs, k) \in Nat /\ LinksOf(s, refs, k) <= s.klass[k].links
        /\ LinksOf(s, refs, k) # s.klass[k].links => Cardinality(ToClass(s, refs, k)) # 0
    BY <2>1, <2>2 DEF LinksOf, Less
  <2>4. LinksOf(s, refs, k) # s.klass[k].links => \E r \in refs : s.item[r[2]].class = k
    BY <2>3, FS_EmptySet DEF ToClass
  <2>5. s.klass[k].alloc <=> s.klass[k].listed \/ s.klass[k].links > 0
    BY DEF Confs, ClassesSound
  <2>6. CASE Unused(s, refs, k)
    BY <1>3, <2>1, <2>3, <2>6 DEF Unused
  <2>7. CASE ~Unused(s, refs, k)
    BY <1>3, <2>1, <2>3, <2>4, <2>5, <2>7 DEF Unused
  <2> QED BY <2>6, <2>7
<1> QED BY <1>9, <1>10, <1>11, <1>12 DEF u, Confs

(* What is required of addresses and listeners.                            *)
Socks(s) == AddrsExact(s) /\ PortsExact(s) /\ PortsSound(s)

(* A client counts in its address only once registered (register_user, or  *)
(* exit_client takes it back at once), a free slot has no listener, and    *)
(* the auth module keeps a client exactly as long as ident or DNS do.      *)
Sound(x) == /\ x.counted => x.st = "person"
            /\ x.st = "free" => x.port = NoPort
            /\ x.dns \/ x.ident # "none" <=> x.st = "auth"

(* The resolver has a query for a client exactly as long as the client     *)
(* waits for it.                                                           *)
Asks(s) == \A c \in Conn : c \in s.asking <=> s.cl[c].dns

(* Both, of every client.                                                  *)
ClientsSound(s) == Asks(s) /\ \A c \in Conn : Sound(s.cl[c])

(* What the counts of addresses and listeners read of a client is the      *)
(* same.                                                                   *)
AsBefore(x, y) == /\ x.counted = y.counted /\ x.port = y.port
                  /\ y.counted => x.addr = y.addr

(* A freed slot is a client that counts nowhere.                           *)
LEMMA GoneFacts == Gone \in Client /\ Gone.port = NoPort /\ Gone.st = "free"
                   /\ ~Gone.counted /\ ~Gone.dns /\ Gone.ident = "none"
<1>1. (CHOOSE a \in Addr : TRUE) \in Addr
  BY ConnAssumption
<1> QED BY <1>1, ConnAssumption DEF Gone, Client, Statuses

(* What leaves references, classes and the fields of the items they depend *)
(* on alone keeps the configuration sound.                                 *)
LEMMA SameConfs ==
  ASSUME NEW s \in Tables, NEW u \in Tables, Confs(s),
         u.held = s.held, u.klass = s.klass, u.gen = s.gen,
         \A i \in Item : /\ u.item[i].alloc = s.item[i].alloc
                         /\ u.item[i].illegal = s.item[i].illegal
                         /\ u.item[i].class = s.item[i].class
                         /\ u.item[i].clients = s.item[i].clients,
         \A i \in u.resolving : i \in s.resolving \/ s.item[i].alloc
  PROVE  Confs(u)
<1>1. s.held \in SUBSET (Conn \X Item) /\ u.resolving \subseteq Item
  BY DEF Tables
<1>2. \A k \in Struct : ToClass(u, u.held, k) = ToClass(s, s.held, k)
  BY <1>1 DEF ToClass
<1>3. ItemsExact(u) /\ LinksExact(u)
  BY <1>2 DEF Confs, ItemsExact, LinksExact
<1>4. LinesSound(u)
  BY <1>1 DEF Confs, LinesSound
<1>5. ClassesSound(u)
  BY DEF Confs, ClassesSound
<1> QED BY <1>3, <1>4, <1>5 DEF Confs

(* What leaves the counts and what they count of the clients alone keeps   *)
(* them exact.                                                             *)
LEMMA SameSocks ==
  ASSUME NEW s \in Tables, NEW u \in Tables, Socks(s), u.ip = s.ip, u.lis = s.lis,
         \A c \in Conn : AsBefore(u.cl[c], s.cl[c])
  PROVE  Socks(u)
<1>1. \A a \in Addr : AddrRefs(u, a) = AddrRefs(s, a)
  BY DEF AddrRefs, AsBefore
<1>2. \A p \in Port : PortRefs(u, p) = PortRefs(s, p)
  BY DEF PortRefs, AsBefore
<1> QED BY <1>1, <1>2 DEF AsBefore, Socks, AddrsExact, PortsExact, PortsSound

(* The clients of D whose address is counted, and those of a listener.     *)
CountedIn(s, D, a) == {c \in D : s.cl[c].counted /\ s.cl[c].addr = a}
OnPort(s, D, p) == {c \in D : s.cl[c].port = p}

(* exit_client and close_connection, field by field: the slots are free,   *)
(* and addresses and listeners lose the clients of D.                      *)
LEMMA ExitFields ==
  ASSUME NEW s \in Tables, NEW D \in SUBSET Conn, NEW u, u = Exit(s, D)
  PROVE  /\ u \in Tables
         /\ \A c \in Conn : u.cl[c] = IF c \in D THEN Gone ELSE s.cl[c]
         /\ \A a \in Addr : u.ip[a] = Less(s.ip[a], CountedIn(s, D, a))
         /\ \A p \in Port :
              /\ u.lis[p].active = s.lis[p].active
              /\ u.lis[p].ref = s.lis[p].ref - Cardinality(OnPort(s, D, p))
              /\ u.lis[p].open <=> /\ s.lis[p].open
                                   /\ \/ s.lis[p].active
                                      \/ u.lis[p].ref > 0
                                      \/ u.lis[p].ref = s.lis[p].ref
         /\ RefsOf(s, D) \in SUBSET s.held
         /\ LET d == Detach(s, RefsOf(s, D))
            IN  /\ d \in Tables
                /\ u.held = d.held /\ u.item = d.item /\ u.klass = d.klass
                /\ u.gen = d.gen /\ u.resolving = d.resolving
         /\ u.asking = s.asking /\ u.gen = s.gen /\ u.conf = s.conf
         /\ u.rehashed = s.rehashed /\ u.olines = s.olines /\ u.stale = s.stale
<1> DEFINE d == Detach(s, RefsOf(s, D))
           ref(p) == s.lis[p].ref - Cardinality(OnPort(s, D, p))
           cl == [c \in Conn |-> IF c \in D THEN Gone ELSE s.cl[c]]
           ip == [a \in Addr |-> Less(s.ip[a], CountedIn(s, D, a))]
           lis == [p \in Port |->
               [s.lis[p] EXCEPT
                  !.ref = ref(p),
                  !.open = @ /\ (\/ s.lis[p].active
                                 \/ ref(p) > 0
                                 \/ ref(p) = s.lis[p].ref)]]
<1>1. u = [d EXCEPT !.cl = cl, !.ip = ip, !.lis = lis]
  BY DEF Exit, CountedIn, OnPort
<1>2. RefsOf(s, D) \in SUBSET s.held
  BY DEF RefsOf
<1>3. /\ d \in Tables
      /\ d.asking = s.asking /\ d.gen = s.gen /\ d.conf = s.conf
      /\ d.rehashed = s.rehashed /\ d.olines = s.olines /\ d.stale = s.stale
  BY <1>2, DetachFields
<1>4. cl \in [Conn -> Client]
  BY GoneFacts DEF Tables
<1>5. \A a \in Addr : Less(s.ip[a], CountedIn(s, D, a)) \in Nat
  <2> SUFFICES ASSUME NEW a \in Addr PROVE Less(s.ip[a], CountedIn(s, D, a)) \in Nat
    OBVIOUS
  <2>1. Cardinality(CountedIn(s, D, a)) \in Nat
    BY RefsFinite, FS_CardinalityType DEF CountedIn
  <2>2. s.ip[a] \in Nat
    BY DEF Tables
  <2> QED BY <2>1, <2>2 DEF Less
<1>6. ip \in [Addr -> Nat]
  BY <1>5
<1>7. \A p \in Port : ref(p) \in Int /\ s.lis[p] \in [open : BOOLEAN, active : BOOLEAN, ref : Int]
  <2> SUFFICES ASSUME NEW p \in Port
               PROVE  ref(p) \in Int /\ s.lis[p] \in [open : BOOLEAN, active : BOOLEAN, ref : Int]
    OBVIOUS
  <2>1. Cardinality(OnPort(s, D, p)) \in Nat
    BY RefsFinite, FS_CardinalityType DEF OnPort
  <2>2. s.lis[p] \in [open : BOOLEAN, active : BOOLEAN, ref : Int]
    BY DEF Tables
  <2> QED BY <2>1, <2>2
<1> HIDE DEF ref
<1>8. lis \in [Port -> [open : BOOLEAN, active : BOOLEAN, ref : Int]]
  BY <1>7
<1>9. \A p \in Port :
              /\ lis[p].active = s.lis[p].active
              /\ lis[p].ref = ref(p)
              /\ lis[p].open <=> /\ s.lis[p].open
                                 /\ \/ s.lis[p].active
                                    \/ lis[p].ref > 0
                                    \/ lis[p].ref = s.lis[p].ref
  BY <1>7
<1>10. \A c \in Conn : cl[c] = IF c \in D THEN Gone ELSE s.cl[c]
  OBVIOUS
<1> HIDE DEF cl, ip, lis, d
<1>11. /\ u \in Tables /\ u.cl = cl /\ u.ip = ip /\ u.lis = lis
  BY <1>1, <1>3, <1>4, <1>6, <1>8 DEF Tables
<1>12. /\ u.held = d.held /\ u.item = d.item /\ u.klass = d.klass
       /\ u.gen = d.gen /\ u.resolving = d.resolving /\ u.asking = d.asking
       /\ u.conf = d.conf /\ u.rehashed = d.rehashed /\ u.olines = d.olines
       /\ u.stale = d.stale
  BY <1>1, <1>3 DEF Tables
<1>13. \A a \in Addr : u.ip[a] = Less(s.ip[a], CountedIn(s, D, a))
  BY <1>11 DEF ip
<1>14. \A p \in Port : ref(p) = s.lis[p].ref - Cardinality(OnPort(s, D, p))
  BY DEF ref
<1> QED BY <1>2, <1>3, <1>9, <1>10, <1>11, <1>12, <1>13, <1>14 DEF d

(* exit_client keeps everything sound: a client gives back the lines, the  *)
(* address if it was counted (FLAGS_IPHASH) and the listener, which is     *)
(* closed with its last client if a rehash dropped it.                     *)
LEMMA ExitGood ==
  ASSUME NEW s \in Tables, NEW D \in SUBSET Conn, Confs(s), Socks(s)
  PROVE  Confs(Exit(s, D)) /\ Socks(Exit(s, D))
<1> DEFINE u == Exit(s, D)
           d == Detach(s, RefsOf(s, D))
<1>1. /\ RefsOf(s, D) \in SUBSET s.held
      /\ d \in Tables /\ u \in Tables
      /\ u.held = d.held /\ u.item = d.item /\ u.klass = d.klass
      /\ u.gen = d.gen /\ u.resolving = d.resolving
  BY ExitFields
<1>2. /\ \A c \in Conn : u.cl[c] = IF c \in D THEN Gone ELSE s.cl[c]
      /\ \A a \in Addr : u.ip[a] = Less(s.ip[a], CountedIn(s, D, a))
  BY ExitFields
<1>3. \A p \in Port :
              /\ u.lis[p].active = s.lis[p].active
              /\ u.lis[p].ref = s.lis[p].ref - Cardinality(OnPort(s, D, p))
              /\ u.lis[p].open <=> /\ s.lis[p].open
                                   /\ \/ s.lis[p].active
                                      \/ u.lis[p].ref > 0
                                      \/ u.lis[p].ref = s.lis[p].ref
  BY ExitFields
<1>4. Confs(d)
  BY <1>1, DetachGood
<1> HIDE DEF u, d
<1>5. Confs(u)
  BY <1>1, <1>4, SameConfs
<1>6. AddrsExact(u)
  <2> SUFFICES ASSUME NEW a \in Addr PROVE u.ip[a] = Cardinality(AddrRefs(u, a))
    BY DEF AddrsExact
  <2> DEFINE A == AddrRefs(s, a)
             B == CountedIn(s, D, a)
             C == AddrRefs(u, a)
  <2>1. C = A \ B /\ B \subseteq A
    BY <1>2, GoneFacts DEF AddrRefs, CountedIn
  <2>2. IsFiniteSet(A)
    BY RefsFinite DEF AddrRefs
  <2>3. s.ip[a] = Cardinality(A) /\ u.ip[a] = Less(s.ip[a], B)
    BY <1>2 DEF Socks, AddrsExact
  <2> HIDE DEF A, B, C
  <2>4. /\ Cardinality(C) = Cardinality(A) - Cardinality(B)
        /\ Cardinality(A) \in Nat /\ Cardinality(B) \in Nat /\ Cardinality(C) \in Nat
    BY <2>1, <2>2, CardSub
  <2>5. u.ip[a] = Cardinality(C)
    BY <2>3, <2>4 DEF Less
  <2> QED BY <2>5 DEF C
<1>7. \A p \in Port : /\ u.lis[p].ref = Cardinality(PortRefs(u, p))
                      /\ u.lis[p].ref \in Nat
                      /\ u.lis[p].ref = 0 => PortRefs(u, p) = {}
                      /\ PortRefs(u, p) = {} => u.lis[p].ref = 0
                      /\ OnPort(s, D, p) = {} <=> u.lis[p].ref = s.lis[p].ref
                      /\ PortRefs(u, p) = PortRefs(s, p) \ OnPort(s, D, p)
  <2> SUFFICES ASSUME NEW p \in Port
               PROVE  /\ u.lis[p].ref = Cardinality(PortRefs(u, p))
                      /\ u.lis[p].ref \in Nat
                      /\ u.lis[p].ref = 0 => PortRefs(u, p) = {}
                      /\ PortRefs(u, p) = {} => u.lis[p].ref = 0
                      /\ OnPort(s, D, p) = {} <=> u.lis[p].ref = s.lis[p].ref
                      /\ PortRefs(u, p) = PortRefs(s, p) \ OnPort(s, D, p)
    OBVIOUS
  <2> DEFINE A == PortRefs(s, p)
             B == OnPort(s, D, p)
             C == PortRefs(u, p)
  <2>1. C = A \ B /\ B \subseteq A
    BY <1>2, GoneFacts, ConnAssumption DEF PortRefs, OnPort
  <2>2. IsFiniteSet(A) /\ IsFiniteSet(B)
    BY RefsFinite DEF PortRefs, OnPort
  <2>3. s.lis[p].ref = Cardinality(A) /\ u.lis[p].ref = s.lis[p].ref - Cardinality(B)
    BY <1>3 DEF Socks, PortsExact
  <2> HIDE DEF A, B, C
  <2>4. /\ Cardinality(C) = Cardinality(A) - Cardinality(B)
        /\ Cardinality(A) \in Nat /\ Cardinality(B) \in Nat /\ Cardinality(C) \in Nat
        /\ Cardinality(C) = 0 => C = {}
    BY <2>1, <2>2, CardSub
  <2>5. (Cardinality(B) = 0 <=> B = {}) /\ Cardinality({}) = 0
    BY <2>2, FS_EmptySet
  <2>6. /\ u.lis[p].ref = Cardinality(C)
        /\ u.lis[p].ref \in Nat
        /\ u.lis[p].ref = 0 => C = {}
        /\ C = {} => u.lis[p].ref = 0
        /\ B = {} <=> u.lis[p].ref = s.lis[p].ref
    BY <2>3, <2>4, <2>5
  <2> QED BY <2>1, <2>6 DEF A, B, C
<1>8. PortsExact(u)
  BY <1>7 DEF PortsExact
<1>9. PortsSound(u)
  <2>1. ASSUME NEW c \in Conn, u.cl[c].port # NoPort
        PROVE  u.lis[u.cl[c].port].open
    <3>1. c \notin D /\ u.cl[c] = s.cl[c]
      BY <1>2, <2>1, GoneFacts
    <3>2. s.cl[c].port \in Port
      BY <2>1, <3>1 DEF Tables, Client
    <3>3. c \in PortRefs(u, s.cl[c].port)
      BY <3>1 DEF PortRefs
    <3>4. u.lis[s.cl[c].port].ref > 0
      BY <1>7, <3>2, <3>3
    <3>5. s.lis[s.cl[c].port].open
      BY <2>1, <3>1 DEF Socks, PortsSound
    <3> QED BY <1>3, <3>1, <3>2, <3>4, <3>5
  <2>2. ASSUME NEW p \in Port, u.lis[p].open, ~u.lis[p].active
        PROVE  PortRefs(u, p) # {}
    <3>1. s.lis[p].open /\ ~s.lis[p].active
      BY <1>3, <2>2
    <3>2. PortRefs(s, p) # {}
      BY <3>1 DEF Socks, PortsSound
    <3>3. CASE u.lis[p].ref > 0
      BY <1>7, <3>3
    <3>4. CASE u.lis[p].ref = s.lis[p].ref
      BY <1>7, <3>2, <3>4
    <3> QED BY <1>3, <2>2, <3>1, <3>3, <3>4
  <2> QED BY <2>1, <2>2 DEF PortsSound
<1> QED BY <1>5, <1>6, <1>8, <1>9 DEF u, Socks

(* What clear_out_old_conf frees at once.                                  *)
Unattached(s) == {i \in Item : s.item[i].alloc /\ s.item[i].clients = 0}

(* clear_out_old_conf, check_class and close_listeners, field by field.    *)
LEMMA ClearOutFields ==
  ASSUME NEW s \in Tables, NEW cf \in Config, NEW u, u = ClearOut(s, cf)
  PROVE  /\ u \in Tables
         /\ \A i \in Unattached(s) : u.item[i] = Freed
         /\ \A i \in Item \ Unattached(s) :
              /\ u.item[i].alloc = s.item[i].alloc
              /\ u.item[i].illegal = s.item[i].alloc
              /\ u.item[i].class = s.item[i].class
              /\ u.item[i].clients = s.item[i].clients
         /\ u.resolving \subseteq s.resolving
         /\ ~Adns => u.resolving \cap Unattached(s) = {}
         /\ \A q \in Struct :
              /\ u.klass[q].links = s.klass[q].links
              /\ u.klass[q].listed => s.klass[q].listed
              /\ (s.klass[q].alloc <=> s.klass[q].listed \/ s.klass[q].links > 0) =>
                   (u.klass[q].alloc <=> u.klass[q].listed \/ u.klass[q].links > 0)
         /\ \A p \in Port :
              /\ ~u.lis[p].active
              /\ u.lis[p].ref = s.lis[p].ref
              /\ u.lis[p].open <=> s.lis[p].open /\ s.lis[p].ref # 0
         /\ u.cl = s.cl /\ u.held = s.held /\ u.ip = s.ip /\ u.asking = s.asking
         /\ u.gen = s.gen /\ u.conf = s.conf
         /\ u.rehashed = s.rehashed /\ u.olines = s.olines /\ u.stale = s.stale
<1> DEFINE freed == Unattached(s)
           item == [i \in Item |->
               IF i \in freed THEN Freed
               ELSE [s.item[i] EXCEPT !.illegal = s.item[i].alloc]]
           resolving == IF Adns THEN s.resolving ELSE s.resolving \ freed
           klass == [q \in Struct |->
               IF q[1] \in cf.classes \/ ~s.klass[q].listed THEN s.klass[q]
               ELSE IF s.klass[q].links <= 0 THEN NoStruct
               ELSE [s.klass[q] EXCEPT !.listed = FALSE]]
           lis == [p \in Port |->
               [s.lis[p] EXCEPT !.active = FALSE, !.open = @ /\ s.lis[p].ref # 0]]
<1>1. u = [s EXCEPT !.item = item, !.resolving = resolving, !.klass = klass, !.lis = lis]
  BY DEF ClearOut, Tables, Unattached
<1>2. item \in [Item -> ItemRec]
  <2> SUFFICES ASSUME NEW i \in Item
               PROVE  [s.item[i] EXCEPT !.illegal = s.item[i].alloc] \in ItemRec
    BY DEF ItemRec, Freed
  <2>1. s.item[i] \in ItemRec
    BY DEF Tables
  <2> QED BY <2>1 DEF ItemRec
<1>3. \A i \in Item \ freed :
              /\ item[i].alloc = s.item[i].alloc
              /\ item[i].illegal = s.item[i].alloc
              /\ item[i].class = s.item[i].class
              /\ item[i].clients = s.item[i].clients
  BY DEF Tables, ItemRec
<1>4. freed \subseteq Item
  BY DEF Unattached
<1>5. \A i \in freed : item[i] = Freed
  BY <1>4
<1>6. \A q \in Struct : s.klass[q] \in StructRec
  BY DEF Tables
<1>7. klass \in [Struct -> StructRec]
  BY <1>6 DEF StructRec, NoStruct
<1>8. \A q \in Struct :
              /\ klass[q].links = s.klass[q].links
              /\ klass[q].listed => s.klass[q].listed
              /\ (s.klass[q].alloc <=> s.klass[q].listed \/ s.klass[q].links > 0) =>
                   (klass[q].alloc <=> klass[q].listed \/ klass[q].links > 0)
  <2> SUFFICES ASSUME NEW q \in Struct
               PROVE  /\ klass[q].links = s.klass[q].links
                      /\ klass[q].listed => s.klass[q].listed
                      /\ (s.klass[q].alloc <=> s.klass[q].listed \/ s.klass[q].links > 0) =>
                           (klass[q].alloc <=> klass[q].listed \/ klass[q].links > 0)
    OBVIOUS
  <2>0. s.klass[q] \in StructRec /\ s.klass[q].links \in Nat
    BY <1>6 DEF StructRec
  <2>1. CASE klass[q] = s.klass[q]
    BY <2>1
  <2>2. CASE s.klass[q].links = 0 /\ klass[q] = NoStruct
    <3> HIDE DEF klass
    <3>1. klass[q].links = 0 /\ ~klass[q].listed /\ ~klass[q].alloc
      BY <2>2 DEF NoStruct
    <3> QED BY <2>2, <3>1
  <2>3. CASE /\ s.klass[q].links > 0 /\ s.klass[q].listed
             /\ klass[q] = [s.klass[q] EXCEPT !.listed = FALSE]
    <3> HIDE DEF klass
    <3>1. klass[q].links = s.klass[q].links /\ klass[q].alloc = s.klass[q].alloc
      BY <2>0, <2>3 DEF StructRec
    <3>2. ~klass[q].listed
      BY <2>0, <2>3 DEF StructRec
    <3> QED BY <2>3, <3>1, <3>2
  <2> QED BY <2>0, <2>1, <2>2, <2>3
<1>9. \A p \in Port : s.lis[p] \in [open : BOOLEAN, active : BOOLEAN, ref : Int]
  BY DEF Tables
<1>10. /\ lis \in [Port -> [open : BOOLEAN, active : BOOLEAN, ref : Int]]
       /\ \A p \in Port :
               /\ ~lis[p].active
               /\ lis[p].ref = s.lis[p].ref
               /\ lis[p].open <=> s.lis[p].open /\ s.lis[p].ref # 0
  BY <1>9
<1>11. /\ resolving \in SUBSET Item /\ resolving \subseteq s.resolving
       /\ ~Adns => resolving \cap freed = {}
  BY DEF Tables
<1> HIDE DEF item, klass, lis, resolving
<1>12. /\ u \in Tables /\ u.item = item /\ u.klass = klass /\ u.lis = lis
       /\ u.resolving = resolving
  BY <1>1, <1>2, <1>7, <1>10, <1>11 DEF Tables
<1>13. /\ u.cl = s.cl /\ u.held = s.held /\ u.ip = s.ip /\ u.asking = s.asking
       /\ u.gen = s.gen /\ u.conf = s.conf
       /\ u.rehashed = s.rehashed /\ u.olines = s.olines /\ u.stale = s.stale
  BY <1>1 DEF Tables
<1> QED BY <1>3, <1>5, <1>8, <1>10, <1>11, <1>12, <1>13, <1>4

(* They keep everything sound: an item is freed only if no client has it,  *)
(* a class only if it has no links, a listener only without clients.       *)
LEMMA ClearOutGood ==
  ASSUME NEW s \in Tables, NEW cf \in Config, Confs(s), Socks(s)
  PROVE  Confs(ClearOut(s, cf)) /\ Socks(ClearOut(s, cf))
<1> DEFINE u == ClearOut(s, cf)
           freed == Unattached(s)
<1>1. /\ u \in Tables
      /\ u.resolving \subseteq s.resolving
      /\ ~Adns => u.resolving \cap freed = {}
      /\ u.cl = s.cl /\ u.held = s.held /\ u.ip = s.ip /\ u.gen = s.gen
  BY ClearOutFields
<1>2. /\ \A i \in freed : u.item[i] = Freed
      /\ \A i \in Item \ freed :
              /\ u.item[i].alloc = s.item[i].alloc
              /\ u.item[i].illegal = s.item[i].alloc
              /\ u.item[i].class = s.item[i].class
              /\ u.item[i].clients = s.item[i].clients
  BY ClearOutFields
<1>3. \A q \in Struct :
              /\ u.klass[q].links = s.klass[q].links
              /\ u.klass[q].listed => s.klass[q].listed
              /\ (s.klass[q].alloc <=> s.klass[q].listed \/ s.klass[q].links > 0) =>
                   (u.klass[q].alloc <=> u.klass[q].listed \/ u.klass[q].links > 0)
  BY ClearOutFields
<1>4. \A p \in Port :
              /\ ~u.lis[p].active
              /\ u.lis[p].ref = s.lis[p].ref
              /\ u.lis[p].open <=> s.lis[p].open /\ s.lis[p].ref # 0
  BY ClearOutFields
<1>5. s.held \in SUBSET (Conn \X Item) /\ s.resolving \subseteq Item
  BY DEF Tables
<1> HIDE DEF u
<1>6. \A i \in Item : s.item[i].clients = 0 <=> ToItem(s.held, i) = {}
  <2> SUFFICES ASSUME NEW i \in Item
               PROVE  s.item[i].clients = 0 <=> ToItem(s.held, i) = {}
    OBVIOUS
  <2>1. IsFiniteSet(ToItem(s.held, i))
    BY <1>5, RefsFinite DEF ToItem
  <2> QED BY <2>1, FS_EmptySet DEF Confs, ItemsExact
<1>7. \A r \in s.held : r[2] \in Item \ freed
  BY <1>5, <1>6 DEF ToItem, Unattached
<1>8. \A k \in Struct : ToClass(u, u.held, k) = ToClass(s, s.held, k)
  BY <1>1, <1>2, <1>7 DEF ToClass
<1>9. ItemsExact(u)
  BY <1>1, <1>2 DEF Confs, ItemsExact, Freed, Unattached
<1>10. LinksExact(u)
  BY <1>3, <1>8 DEF Confs, LinksExact
<1>11. LinesSound(u)
  <2>1. \A r \in u.held : u.item[r[2]].alloc
    BY <1>1, <1>2, <1>7 DEF Confs, LinesSound
  <2>2. ASSUME NEW i \in Item, u.item[i].alloc
        PROVE  /\ i[2] <= u.gen
               /\ u.item[i].illegal /\ ToItem(u.held, i) # {}
               /\ u.item[i].class # NoClass => Counts(i)
    <3>1. i \notin freed /\ s.item[i].alloc
      BY <1>2, <2>2 DEF Freed
    <3> QED BY <1>1, <1>2, <1>6, <3>1 DEF Confs, LinesSound, Unattached
  <2>3. ASSUME ~Adns, NEW i \in u.resolving PROVE u.item[i].alloc
    <3>1. i \in s.resolving \ freed /\ i \in Item
      BY <1>1, <1>5, <2>3
    <3> QED BY <1>2, <2>3, <3>1 DEF Confs, LinesSound
  <2> QED BY <2>1, <2>2, <2>3 DEF LinesSound
<1>12. ClassesSound(u)
  <2>1. \A k \in Struct : u.klass[k].alloc <=> u.klass[k].listed \/ u.klass[k].links > 0
    <3> SUFFICES ASSUME NEW k \in Struct
                 PROVE  u.klass[k].alloc <=> u.klass[k].listed \/ u.klass[k].links > 0
      OBVIOUS
    <3>1. s.klass[k].alloc <=> s.klass[k].listed \/ s.klass[k].links > 0
      BY DEF Confs, ClassesSound
    <3> QED BY <1>3, <3>1
  <2>2. \A k \in Struct : u.klass[k].listed => s.klass[k].listed
    BY <1>3
  <2> QED BY <2>1, <2>2 DEF Confs, ClassesSound
<1>13. Socks(u)
  <2>1. \A a \in Addr : AddrRefs(u, a) = AddrRefs(s, a)
    BY <1>1 DEF AddrRefs
  <2>2. \A p \in Port : PortRefs(u, p) = PortRefs(s, p)
    BY <1>1 DEF PortRefs
  <2>3. \A p \in Port : s.lis[p].ref = 0 <=> PortRefs(s, p) = {}
    <3> SUFFICES ASSUME NEW p \in Port PROVE s.lis[p].ref = 0 <=> PortRefs(s, p) = {}
      OBVIOUS
    <3>1. IsFiniteSet(PortRefs(s, p))
      BY RefsFinite DEF PortRefs
    <3> QED BY <3>1, FS_EmptySet DEF Socks, PortsExact
  <2>4. ASSUME NEW c \in Conn, u.cl[c].port # NoPort
        PROVE  u.lis[u.cl[c].port].open
    <3>1. s.cl[c].port \in Port /\ u.cl[c] = s.cl[c]
      BY <1>1, <2>4 DEF Tables, Client
    <3>2. c \in PortRefs(s, s.cl[c].port)
      BY DEF PortRefs
    <3> QED BY <1>1, <1>4, <2>3, <2>4, <3>1, <3>2 DEF Socks, PortsSound
  <2>5. AddrsExact(u) /\ PortsExact(u)
    BY <1>1, <1>4, <2>1, <2>2 DEF Socks, AddrsExact, PortsExact
  <2>6. \A p \in Port : u.lis[p].open => PortRefs(u, p) # {}
    BY <1>4, <2>2, <2>3
  <2> QED BY <2>4, <2>5, <2>6 DEF Socks, PortsSound
<1> QED BY <1>9, <1>10, <1>11, <1>12, <1>13 DEF u, Confs

(* find_class and add_class: there is one struct for a number of the file, *)
(* the one that is listed already if there is one.                         *)
LEMMA StructInFacts ==
  ASSUME NEW s \in Tables, NEW k \in Class, s.gen + 1 \in Gen, ClassesSound(s)
  PROVE  /\ StructIn(s, k) \in Struct /\ StructIn(s, k)[1] = k
         /\ \A q \in Struct : s.klass[q].listed /\ q[1] = k => q = StructIn(s, k)
<1>1. CASE \E g \in Gen : s.klass[<<k, g>>].listed
  <2>1. \E q \in Struct : q[1] = k /\ s.klass[q].listed
    BY <1>1 DEF Struct
  <2>2. StructIn(s, k) = CHOOSE q \in Struct : q[1] = k /\ s.klass[q].listed
    BY <1>1 DEF StructIn
  <2>3. StructIn(s, k) \in Struct /\ StructIn(s, k)[1] = k /\ s.klass[StructIn(s, k)].listed
    BY <2>1, <2>2
  <2> QED BY <2>3 DEF ClassesSound
<1>2. CASE ~\E g \in Gen : s.klass[<<k, g>>].listed
  <2>1. StructIn(s, k) = <<k, s.gen + 1>>
    BY <1>2 DEF StructIn
  <2>2. \A q \in Struct : q[1] = k => ~s.klass[q].listed
    BY <1>2 DEF Struct
  <2> QED BY <2>1, <2>2 DEF Struct
<1> QED BY <1>1, <1>2

(* The structs and the items of file cf.                                   *)
ClassesOf(s, cf) == {StructIn(s, k) : k \in cf.classes}
NewItems(s, cf) == {i \in Item : i[2] = s.gen + 1 /\ i[1] \in cf.lines}

(* What ReadFile changes.                                                  *)
ReadBy(s, cf, u) ==
  /\ u \in Tables /\ u.gen = s.gen + 1 /\ u.conf = cf /\ u.olines = TRUE
  /\ \A i \in NewItems(s, cf) :
       /\ u.item[i].alloc /\ ~u.item[i].illegal /\ u.item[i].clients = 0
       /\ Counts(i) => u.item[i].class = StructIn(s, ClassIn(cf, i[1]))
       /\ ~Counts(i) => u.item[i].class = NoClass
  /\ \A i \in Item \ NewItems(s, cf) : u.item[i] = s.item[i]
  /\ u.resolving \subseteq s.resolving \cup NewItems(s, cf)
  /\ \A q \in Struct :
       /\ u.klass[q].links = s.klass[q].links
       /\ u.klass[q].listed <=> s.klass[q].listed \/ q \in ClassesOf(s, cf)
       /\ u.klass[q].alloc <=> s.klass[q].alloc \/ q \in ClassesOf(s, cf)
  /\ \A p \in Port :
       /\ u.lis[p].active <=> s.lis[p].active \/ p \in cf.ports
       /\ u.lis[p].ref = s.lis[p].ref
       /\ u.lis[p].open <=> s.lis[p].open \/ p \in cf.ports
  /\ u.cl = s.cl /\ u.held = s.held /\ u.ip = s.ip /\ u.asking = s.asking
  /\ u.rehashed = s.rehashed /\ u.stale = s.stale

(* initconf, field by field.                                               *)
LEMMA ReadFileFields ==
  ASSUME NEW s \in Tables, NEW cf \in Config, s.gen + 1 \in Gen, ClassesSound(s)
  PROVE  ReadBy(s, cf, ReadFile(s, cf))
<1> SUFFICES ASSUME NEW u, u = ReadFile(s, cf) PROVE ReadBy(s, cf, u)
  OBVIOUS
<1> DEFINE new == NewItems(s, cf)
           rec(i) == [alloc |-> TRUE, illegal |-> FALSE, clients |-> 0,
                      class |-> IF Counts(i) THEN StructIn(s, ClassIn(cf, i[1]))
                                             ELSE NoClass,
                      pending |-> IF i[1] \in Named THEN "conf" ELSE "no",
                      known |-> i[1] \notin Named]
           item == [i \in Item |-> IF i \in new THEN rec(i) ELSE s.item[i]]
           resolving == s.resolving \cup
                {i \in Item : i[2] = s.gen + 1 /\ i[1] \in cf.lines \cap Named}
           klass == [q \in Struct |->
               IF q \in ClassesOf(s, cf)
               THEN [s.klass[q] EXCEPT !.alloc = TRUE, !.listed = TRUE]
               ELSE s.klass[q]]
           lis == [p \in Port |->
               IF p \in cf.ports
               THEN [s.lis[p] EXCEPT !.open = TRUE, !.active = TRUE]
               ELSE s.lis[p]]
<1>1. /\ cf.lines \subseteq Line /\ cf.classes \subseteq Class /\ Class0 \in cf.classes
  BY ConnAssumption
<1>2. \A q : (\E k \in cf.classes : q = StructIn(s, k)) <=> q \in ClassesOf(s, cf)
  BY DEF ClassesOf
<1>3. \A i \in Item : (i[2] = s.gen + 1 /\ i[1] \in cf.lines) <=> i \in new
  BY DEF NewItems
<1>4. u = [s EXCEPT !.gen = s.gen + 1, !.conf = cf, !.olines = TRUE, !.item = item,
                    !.resolving = resolving, !.klass = klass, !.lis = lis]
  <2>1. item = [i \in Item |-> IF i[2] = s.gen + 1 /\ i[1] \in cf.lines
                               THEN rec(i) ELSE s.item[i]]
    BY <1>3
  <2>2. klass = [q \in Struct |->
               IF \E k \in cf.classes : q = StructIn(s, k)
               THEN [s.klass[q] EXCEPT !.alloc = TRUE, !.listed = TRUE]
               ELSE s.klass[q]]
    BY <1>2
  <2> HIDE DEF item, klass
  <2> QED BY <2>1, <2>2 DEF ReadFile, Tables
<1>5. \A i \in Item : ClassIn(cf, i[1]) \in cf.classes
  BY <1>1 DEF ClassIn
<1>6. \A k \in cf.classes : StructIn(s, k) \in Struct
  BY <1>1, StructInFacts
<1>7. item \in [Item -> ItemRec]
  <2> SUFFICES ASSUME NEW i \in Item PROVE rec(i) \in ItemRec
    BY DEF Tables
  <2>1. (IF Counts(i) THEN StructIn(s, ClassIn(cf, i[1])) ELSE NoClass) \in Struct \cup {NoClass}
    BY <1>5, <1>6
  <2> QED BY <2>1 DEF ItemRec
<1>8. /\ \A i \in new : item[i] = rec(i)
      /\ \A i \in Item \ new : item[i] = s.item[i]
      /\ new \subseteq Item
  BY DEF NewItems
<1>9. \A q \in Struct : s.klass[q] \in StructRec
  BY DEF Tables
<1>10. klass \in [Struct -> StructRec]
  BY <1>9 DEF StructRec
<1>11. \A q \in Struct :
               /\ klass[q].links = s.klass[q].links
               /\ klass[q].listed <=> s.klass[q].listed \/ q \in ClassesOf(s, cf)
               /\ klass[q].alloc <=> s.klass[q].alloc \/ q \in ClassesOf(s, cf)
  BY <1>9 DEF StructRec
<1>12. \A p \in Port : s.lis[p] \in [open : BOOLEAN, active : BOOLEAN, ref : Int]
  BY DEF Tables
<1>13. /\ lis \in [Port -> [open : BOOLEAN, active : BOOLEAN, ref : Int]]
       /\ \A p \in Port :
              /\ lis[p].active <=> s.lis[p].active \/ p \in cf.ports
              /\ lis[p].ref = s.lis[p].ref
              /\ lis[p].open <=> s.lis[p].open \/ p \in cf.ports
  BY <1>12
<1>14. /\ resolving \in SUBSET Item
       /\ resolving \subseteq s.resolving \cup new
  BY DEF Tables, NewItems
<1> HIDE DEF item, klass, lis, resolving
<1>15. /\ u \in Tables /\ u.item = item /\ u.klass = klass /\ u.lis = lis
       /\ u.resolving = resolving /\ u.gen = s.gen + 1 /\ u.conf = cf /\ u.olines = TRUE
  BY <1>4, <1>7, <1>10, <1>13, <1>14 DEF Tables
<1>16. /\ u.cl = s.cl /\ u.held = s.held /\ u.ip = s.ip /\ u.asking = s.asking
       /\ u.rehashed = s.rehashed /\ u.stale = s.stale
  BY <1>4 DEF Tables
<1>17. \A i \in new :
              /\ item[i].alloc /\ ~item[i].illegal /\ item[i].clients = 0
              /\ Counts(i) => item[i].class = StructIn(s, ClassIn(cf, i[1]))
              /\ ~Counts(i) => item[i].class = NoClass
  <2> SUFFICES ASSUME NEW i \in new
               PROVE  /\ item[i].alloc /\ ~item[i].illegal /\ item[i].clients = 0
                      /\ Counts(i) => item[i].class = StructIn(s, ClassIn(cf, i[1]))
                      /\ ~Counts(i) => item[i].class = NoClass
    OBVIOUS
  <2>1. item[i] = rec(i)
    BY <1>8
  <2> QED BY <2>1
<1> QED BY <1>8, <1>11, <1>13, <1>14, <1>15, <1>16, <1>17 DEF ReadBy

(* initconf keeps everything sound: the new items are of a new generation, *)
(* which nobody has attached, and their classes are listed, at worst class *)
(* 0.                                                                      *)
LEMMA ReadFileGood ==
  ASSUME NEW s \in Tables, NEW cf \in Config, s.gen + 1 \in Gen, Confs(s), Socks(s)
  PROVE  Confs(ReadFile(s, cf)) /\ Socks(ReadFile(s, cf))
<1> SUFFICES ASSUME NEW u, u = ReadFile(s, cf) PROVE Confs(u) /\ Socks(u)
  OBVIOUS
<1> DEFINE new == NewItems(s, cf)
           classes == ClassesOf(s, cf)
<1>1. ClassesSound(s) /\ s.gen \in Int
  BY ConnAssumption DEF Confs, Tables, Gen
<1> HIDE DEF new, classes
<1>2. ReadBy(s, cf, u)
  BY <1>1, ReadFileFields
<1>3. /\ u \in Tables /\ u.gen = s.gen + 1
      /\ u.resolving \subseteq s.resolving \cup new
      /\ u.cl = s.cl /\ u.held = s.held /\ u.ip = s.ip
  BY <1>2 DEF new, ReadBy
<1>4. /\ \A i \in new :
              /\ u.item[i].alloc /\ ~u.item[i].illegal /\ u.item[i].clients = 0
              /\ Counts(i) => u.item[i].class = StructIn(s, ClassIn(cf, i[1]))
              /\ ~Counts(i) => u.item[i].class = NoClass
      /\ \A i \in Item \ new : u.item[i] = s.item[i]
  BY <1>2 DEF new, ReadBy
<1>5. \A q \in Struct :
              /\ u.klass[q].links = s.klass[q].links
              /\ u.klass[q].listed <=> s.klass[q].listed \/ q \in classes
              /\ u.klass[q].alloc <=> s.klass[q].alloc \/ q \in classes
  BY <1>2 DEF classes, ReadBy
<1>6. \A p \in Port :
              /\ u.lis[p].active <=> s.lis[p].active \/ p \in cf.ports
              /\ u.lis[p].ref = s.lis[p].ref
              /\ u.lis[p].open <=> s.lis[p].open \/ p \in cf.ports
  BY <1>2 DEF ReadBy
<1>7. s.held \in SUBSET (Conn \X Item) /\ s.resolving \subseteq Item
  BY DEF Tables
<1>8. /\ cf.classes \subseteq Class /\ Class0 \in cf.classes
      /\ \A i \in Item : ClassIn(cf, i[1]) \in cf.classes
  BY ConnAssumption DEF ClassIn
<1>9. /\ classes \subseteq Struct
      /\ \A q \in classes, r \in Struct : s.klass[r].listed /\ r[1] = q[1] => r = q
      /\ \A q \in classes, r \in classes : r[1] = q[1] => r = q
  BY <1>1, <1>8, StructInFacts DEF ClassesOf, classes
<1>10. new \subseteq Item /\ \A i \in new : ~s.item[i].alloc
  BY <1>1 DEF new, NewItems, Confs, LinesSound
<1>11. \A i \in new : u.item[i].class # NoClass => Counts(i) /\ u.item[i].class \in classes
  BY <1>4, <1>8, <1>10 DEF classes, ClassesOf
<1>12. \A r \in s.held : r[2] \in Item \ new
  BY <1>7, <1>10 DEF Confs, LinesSound
<1>13. \A i \in new : ToItem(s.held, i) = {}
  BY <1>12 DEF ToItem
<1>14. \A k \in Struct : ToClass(u, u.held, k) = ToClass(s, s.held, k)
  BY <1>3, <1>4, <1>12 DEF ToClass
<1>15. ItemsExact(u)
  <2> SUFFICES ASSUME NEW i \in Item PROVE u.item[i].clients = Cardinality(ToItem(u.held, i))
    BY DEF ItemsExact
  <2>1. CASE i \in new
    BY <1>3, <1>4, <1>13, <2>1, FS_EmptySet
  <2>2. CASE i \notin new
    BY <1>3, <1>4, <2>2 DEF Confs, ItemsExact
  <2> QED BY <2>1, <2>2
<1>16. LinksExact(u)
  BY <1>5, <1>14 DEF Confs, LinksExact
<1>17. LinesSound(u)
  <2>1. \A r \in u.held : u.item[r[2]].alloc
    BY <1>3, <1>4, <1>12 DEF Confs, LinesSound
  <2>2. ASSUME NEW i \in Item, u.item[i].alloc
        PROVE  /\ i[2] <= u.gen
               /\ u.item[i].illegal => ToItem(u.held, i) # {}
               /\ u.item[i].class # NoClass =>
                    Counts(i) /\ (u.item[i].illegal \/ u.klass[u.item[i].class].listed)
    <3>1. CASE i \in new
      <4>1. i[2] = u.gen
        BY <1>3, <3>1 DEF new, NewItems
      <4> QED BY <1>1, <1>3, <1>4, <1>5, <1>9, <1>11, <3>1, <4>1
    <3>2. CASE i \notin new
      <4>1. u.item[i] = s.item[i] /\ s.item[i].alloc
        BY <1>4, <2>2, <3>2
      <4>2. i[2] \in Int /\ s.item[i].class \in Struct \cup {NoClass}
        BY ConnAssumption DEF Tables, ItemRec, Item, Gen
      <4> QED BY <1>1, <1>3, <1>5, <4>1, <4>2 DEF Confs, LinesSound
    <3> QED BY <3>1, <3>2
  <2>3. ASSUME ~Adns, NEW i \in u.resolving PROVE u.item[i].alloc
    <3>1. CASE i \in new
      BY <1>4, <3>1
    <3>2. CASE i \notin new
      BY <1>3, <1>4, <1>7, <2>3, <3>2 DEF Confs, LinesSound
    <3> QED BY <3>1, <3>2
  <2> QED BY <2>1, <2>2, <2>3 DEF LinesSound
<1>18. ClassesSound(u)
  <2>1. \A k \in Struct : u.klass[k].alloc <=> u.klass[k].listed \/ u.klass[k].links > 0
    BY <1>1, <1>5 DEF ClassesSound
  <2>2. \A k, q \in Struct : u.klass[k].listed /\ u.klass[q].listed /\ k[1] = q[1] => k = q
    BY <1>1, <1>5, <1>9 DEF ClassesSound
  <2> QED BY <2>1, <2>2 DEF ClassesSound
<1>19. Socks(u)
  <2>1. \A a \in Addr : AddrRefs(u, a) = AddrRefs(s, a)
    BY <1>3 DEF AddrRefs
  <2>2. \A p \in Port : PortRefs(u, p) = PortRefs(s, p)
    BY <1>3 DEF PortRefs
  <2>3. \A c \in Conn : s.cl[c].port \in Port \cup {NoPort}
    BY DEF Tables, Client
  <2> QED BY <1>3, <1>6, <2>1, <2>2, <2>3 DEF Socks, AddrsExact, PortsExact, PortsSound
<1> QED BY <1>15, <1>16, <1>17, <1>18, <1>19 DEF Confs

-----------------------------------------------------------------------------
(* The inductive invariant: the types, the exact counters and what the     *)
(* tables require of each other. Exactness alone is not inductive: what    *)
(* detach_conf frees follows from the counts only if illegal items are     *)
(* attached, unlisted classes have links and a class that an item names is *)
(* listed or held.                                                         *)
Ok(s) == /\ s \in Tables /\ s.gen \in Gen
         /\ Confs(s) /\ Socks(s) /\ ClientsSound(s)

(* The type invariant is a part of it.                                     *)
LEMMA OkTyped == ASSUME NEW s, Ok(s) PROVE s \in Table
  BY DEF Ok, Tables, Table

(* A step that leaves the tables alone and changes the clients in nothing  *)
(* that counts keeps Ok.                                                   *)
LEMMA Keep ==
  ASSUME NEW s, Ok(s), NEW u \in Tables,
         u.held = s.held, u.item = s.item, u.klass = s.klass, u.gen = s.gen,
         u.resolving = s.resolving, u.ip = s.ip, u.lis = s.lis,
         \A c \in Conn : AsBefore(u.cl[c], s.cl[c]),
         ClientsSound(u)
  PROVE  Ok(u)
<1>1. s \in Tables /\ Confs(s) /\ Socks(s)
  BY DEF Ok
<1>2. Confs(u)
  BY <1>1, SameConfs
<1>3. Socks(u)
  BY <1>1, SameSocks
<1> QED BY <1>2, <1>3 DEF Ok

(* So does one that changes one client and its query.                      *)
LEMMA OneClient ==
  ASSUME NEW s, Ok(s), NEW c \in Conn, NEW x \in Client, NEW q \in SUBSET Conn,
         NEW u, u = [s EXCEPT !.cl = [s.cl EXCEPT ![c] = x], !.asking = q],
         AsBefore(x, s.cl[c]), Sound(x),
         c \in q <=> x.dns, q \ {c} = s.asking \ {c}
  PROVE  Ok(u)
<1>1. s \in Tables /\ ClientsSound(s)
  BY DEF Ok
<1> DEFINE cl == [s.cl EXCEPT ![c] = x]
<1>2. /\ cl \in [Conn -> Client] /\ cl[c] = x /\ \A d \in Conn \ {c} : cl[d] = s.cl[d]
  BY <1>1 DEF Tables
<1> HIDE DEF cl
<1>3. u = [s EXCEPT !.cl = cl, !.asking = q]
  BY DEF cl
<1>4. /\ u \in Tables /\ u.cl = cl /\ u.asking = q
      /\ u.held = s.held /\ u.item = s.item /\ u.klass = s.klass
      /\ u.resolving = s.resolving /\ u.ip = s.ip /\ u.lis = s.lis
      /\ u.gen = s.gen
  BY <1>1, <1>2, <1>3 DEF Tables
<1>5. ClientsSound(u)
  <2>1. \A d \in Conn : Sound(u.cl[d])
    BY <1>1, <1>2, <1>4 DEF ClientsSound
  <2>2. \A d \in Conn \ {c} : d \in u.asking <=> d \in s.asking
    BY <1>4
  <2>3. Asks(u)
    BY <1>1, <1>2, <1>4, <2>2 DEF ClientsSound, Asks
  <2> QED BY <2>1, <2>3 DEF ClientsSound
<1>6. \A d \in Conn : AsBefore(u.cl[d], s.cl[d])
  BY <1>2, <1>4 DEF AsBefore
<1> QED BY <1>4, <1>5, <1>6, Keep

(* exit_client from a state that is sound but for the clients that leave:  *)
(* register_user has counted the address of one of them already.           *)
LEMMA OkExit ==
  ASSUME NEW s \in Tables, s.gen \in Gen, Confs(s), Socks(s), NEW D \in SUBSET Conn,
         Asks(s), \A c \in D : ~s.cl[c].dns,
         \A c \in Conn \ D : Sound(s.cl[c])
  PROVE  /\ Ok(Exit(s, D))
         /\ \A c \in Conn : Exit(s, D).cl[c] = IF c \in D THEN Gone ELSE s.cl[c]
<1> SUFFICES ASSUME NEW u, u = Exit(s, D)
             PROVE  Ok(u) /\ \A c \in Conn : u.cl[c] = IF c \in D THEN Gone ELSE s.cl[c]
  OBVIOUS
<1>1. u \in Tables /\ u.gen = s.gen /\ u.asking = s.asking
      /\ \A c \in Conn : u.cl[c] = IF c \in D THEN Gone ELSE s.cl[c]
  BY ExitFields
<1>2. ClientsSound(u)
  BY <1>1, GoneFacts DEF ClientsSound, Sound, Asks
<1>3. Confs(u) /\ Socks(u)
  BY ExitGood
<1> QED BY <1>1, <1>2, <1>3 DEF Ok

(* detach_conf keeps Ok.                                                   *)
LEMMA OkDetach ==
  ASSUME NEW s, Ok(s), NEW refs \in SUBSET s.held
  PROVE  Ok(Detach(s, refs)) /\ Detach(s, refs).cl = s.cl
<1> SUFFICES ASSUME NEW u, u = Detach(s, refs) PROVE Ok(u) /\ u.cl = s.cl
  OBVIOUS
<1>1. s \in Tables /\ Confs(s)
  BY DEF Ok
<1>2. u \in Tables /\ u.gen = s.gen /\ u.cl = s.cl /\ u.ip = s.ip /\ u.lis = s.lis
      /\ u.asking = s.asking
  BY <1>1, DetachFields
<1>3. Confs(u)
  BY <1>1, DetachGood
<1>4. Socks(u)
  BY <1>1, <1>2, SameSocks DEF Ok, AsBefore
<1> QED BY <1>2, <1>3, <1>4 DEF Ok, ClientsSound, Asks

(* attach_conf of lines that are listed keeps Ok.                          *)
LEMMA OkAttach ==
  ASSUME NEW s, Ok(s), NEW c \in Conn, NEW S \in SUBSET Listed(s)
  PROVE  Ok(Attach(s, c, S)) /\ Attach(s, c, S).cl = s.cl
<1> SUFFICES ASSUME NEW u, u = Attach(s, c, S) PROVE Ok(u) /\ u.cl = s.cl
  OBVIOUS
<1>1. s \in Tables /\ Confs(s) /\ S \in SUBSET Item
  BY DEF Ok, Listed
<1>2. u \in Tables /\ u.gen = s.gen /\ u.cl = s.cl /\ u.ip = s.ip /\ u.lis = s.lis
      /\ u.asking = s.asking
  BY <1>1, AttachFields
<1>3. Confs(u)
  BY <1>1, AttachGood
<1>4. Socks(u)
  BY <1>1, <1>2, SameSocks DEF Ok, AsBefore
<1> QED BY <1>2, <1>3, <1>4 DEF Ok, ClientsSound, Asks

-----------------------------------------------------------------------------

(* read_packet resets the timers of a client and nothing else.             *)
LEMMA HeardOk ==
  ASSUME NEW s, Ok(s), NEW c \in Conn
  PROVE  /\ Ok(Heard(s, c))
         /\ \A d \in Conn : /\ Heard(s, c).cl[d].st = s.cl[d].st
                            /\ Heard(s, c).cl[d].counted = s.cl[d].counted
                            /\ Heard(s, c).cl[d].addr = s.cl[d].addr
                            /\ Heard(s, c).cl[d].port = s.cl[d].port
                            /\ Heard(s, c).cl[d].dns = s.cl[d].dns
         /\ Heard(s, c).held = s.held /\ Heard(s, c).item = s.item
         /\ Heard(s, c).klass = s.klass /\ Heard(s, c).ip = s.ip
<1> DEFINE x == [s.cl[c] EXCEPT !.idle = 0, !.pinged = FALSE]
           u == Heard(s, c)
<1>1. s \in Tables /\ ClientsSound(s) /\ s.cl[c] \in Client
  BY DEF Ok, Tables
<1>2. 0 \in 0 .. MaxIdle
  BY ConnAssumption
<1>3. x \in Client /\ x.counted = s.cl[c].counted /\ x.addr = s.cl[c].addr
      /\ x.port = s.cl[c].port /\ x.st = s.cl[c].st
      /\ x.dns = s.cl[c].dns /\ x.ident = s.cl[c].ident
  BY <1>2, <1>1 DEF Client
<1>4. Sound(x) /\ AsBefore(x, s.cl[c])
  BY <1>1, <1>3 DEF ClientsSound, Sound, AsBefore
<1>5. u = [s EXCEPT !.cl = [s.cl EXCEPT ![c] = x], !.asking = s.asking]
  BY <1>1 DEF Heard, Tables
<1>6. s.asking \in SUBSET Conn /\ (c \in s.asking <=> x.dns)
  BY <1>1, <1>3 DEF Tables, ClientsSound, Asks
<1> HIDE DEF x, u
<1>7. Ok(u)
  BY <1>3, <1>4, <1>5, <1>6, OneClient
<1>8. /\ u.cl[c] = x /\ \A d \in Conn \ {c} : u.cl[d] = s.cl[d]
      /\ u.held = s.held /\ u.item = s.item /\ u.klass = s.klass /\ u.ip = s.ip
  BY <1>1, <1>5 DEF Tables
<1> QED BY <1>3, <1>7, <1>8 DEF u

(* release_auth_client after an answer: the client goes on exactly when    *)
(* neither ident nor DNS keeps it.                                         *)
LEMMA ReleaseOk ==
  ASSUME NEW s, Ok(s), NEW c \in Conn, NEW x \in Client, NEW q \in SUBSET Conn,
         NEW v, v = [s EXCEPT !.cl = [s.cl EXCEPT ![c] = x], !.asking = q],
         s.cl[c].st = "auth", x.st = "auth", AsBefore(x, s.cl[c]),
         c \in q <=> x.dns, q \ {c} = s.asking \ {c}
  PROVE  Ok(Release(v, c))
<1>1. s \in Tables /\ ClientsSound(s)
  BY DEF Ok
<1>2. ~x.counted
  BY <1>1 DEF ClientsSound, Sound, AsBefore
<1>3. v.cl[c] = x
  BY <1>1 DEF Tables
<1>4. CASE x.ident = "none" /\ ~x.dns
  <2> DEFINE y == [x EXCEPT !.st = "unknown"]
             u == Release(v, c)
  <2>0. "unknown" \in Statuses
    BY DEF Statuses
  <2>1. /\ y \in Client /\ y.counted = x.counted /\ y.addr = x.addr /\ y.port = x.port
        /\ y.st = "unknown" /\ y.dns = x.dns /\ y.ident = x.ident
    BY <2>0 DEF Client
  <2>2. u = [v EXCEPT !.cl[c].st = "unknown"]
    BY <1>3, <1>4 DEF Release
  <2>7. v.cl = [s.cl EXCEPT ![c] = x]
    BY <1>1 DEF Tables
  <2>8. u = [v EXCEPT !.cl = [v.cl EXCEPT ![c] = y]]
    BY <1>3, <2>2
  <2> HIDE DEF y, u
  <2>9. [v.cl EXCEPT ![c] = y] = [s.cl EXCEPT ![c] = y]
    BY <1>1, <2>7 DEF Tables
  <2>3. u = [s EXCEPT !.cl = [s.cl EXCEPT ![c] = y], !.asking = q]
    BY <1>1, <2>8, <2>9 DEF Tables
  <2>4. Sound(y) /\ AsBefore(y, s.cl[c]) /\ (c \in q <=> y.dns)
    BY <1>2, <1>4, <2>1 DEF Sound, AsBefore
  <2>5. Ok(u)
    BY <2>1, <2>3, <2>4, OneClient
  <2> QED BY <2>5 DEF u
<1>5. CASE ~(x.ident = "none" /\ ~x.dns)
  <2>1. Release(v, c) = v
    BY <1>3, <1>5 DEF Release
  <2>2. Sound(x)
    BY <1>2, <1>5 DEF Sound
  <2>3. Ok(v)
    BY <2>2, OneClient
  <2> QED BY <2>1, <2>3
<1> QED BY <1>4, <1>5

(* A new client is one more at its listener, and waits for the queries     *)
(* that start_auth has made.                                               *)
LEMMA AcceptStep ==
  ASSUME Ok(t), NEW c \in Conn, NEW a \in Addr, NEW p \in Port, NEW asked \in BOOLEAN,
         Accept(c, a, p, asked)
  PROVE  Ok(t')
<1> DEFINE x == [Gone EXCEPT !.st = "auth", !.addr = a, !.port = p,
                             !.ident = IF asked THEN "connect" ELSE "none",
                             !.dns = ReverseLookup]
           y == IF x.ident = "none" /\ ~x.dns THEN [x EXCEPT !.st = "unknown"] ELSE x
           q == IF ReverseLookup THEN t.asking \cup {c} ELSE t.asking
           cl == [t.cl EXCEPT ![c] = y]
           lis == [t.lis EXCEPT ![p].ref = @ + 1]
           s == [t EXCEPT !.cl = cl, !.lis = lis, !.asking = q]
<1>1. /\ t \in Tables /\ ClientsSound(t) /\ Confs(t) /\ Socks(t) /\ t.gen \in Gen
  BY DEF Ok
<1>2. /\ x \in Client /\ x.st = "auth" /\ x.port = p /\ ~x.counted
      /\ x.dns = ReverseLookup
  BY GoneFacts, ConnAssumption DEF Client, Statuses
<1>3. /\ t.cl[c].st = "free" /\ t.lis[p].open /\ t' = s
  <2> DEFINE v == [t EXCEPT !.cl[c] = x, !.lis[p].ref = @ + 1, !.asking = q]
  <2>1. t.cl[c].st = "free" /\ t.lis[p].open /\ t' = Release(v, c)
    BY DEF Accept
  <2> HIDE DEF x
  <2>2. v.cl[c] = x
    BY <1>1 DEF Tables
  <2>3. CASE x.ident = "none" /\ ~x.dns
    <3>1. Release(v, c) = [v EXCEPT !.cl[c].st = "unknown"]
      BY <2>2, <2>3 DEF Release
    <3>2. [v EXCEPT !.cl[c].st = "unknown"] = s
      BY <1>1, <2>3 DEF Tables
    <3> QED BY <2>1, <3>1, <3>2
  <2>4. CASE ~(x.ident = "none" /\ ~x.dns)
    <3>1. Release(v, c) = v
      BY <2>2, <2>4 DEF Release
    <3>2. v = s
      BY <1>1, <2>4 DEF Tables
    <3> QED BY <2>1, <3>1, <3>2
  <2> QED BY <2>3, <2>4
<1>4. /\ y \in Client /\ y.port = p /\ ~y.counted /\ y.dns = ReverseLookup
      /\ y.st \in {"auth", "unknown"}
      /\ y.dns \/ y.ident # "none" <=> y.st = "auth"
  <2> HIDE DEF x
  <2>1. CASE x.ident = "none" /\ ~x.dns
    BY <1>2, <2>1 DEF Client, Statuses
  <2>2. CASE ~(x.ident = "none" /\ ~x.dns)
    BY <1>2, <2>2
  <2> QED BY <2>1, <2>2
<1> HIDE DEF x, y
<1>5. /\ cl \in [Conn -> Client] /\ cl[c] = y /\ \A d \in Conn \ {c} : cl[d] = t.cl[d]
  BY <1>1, <1>4 DEF Tables
<1>6. /\ lis \in [Port -> [open : BOOLEAN, active : BOOLEAN, ref : Int]]
      /\ lis[p].ref = t.lis[p].ref + 1
      /\ \A r \in Port \ {p} : lis[r].ref = t.lis[r].ref
      /\ \A r \in Port : lis[r].open = t.lis[r].open /\ lis[r].active = t.lis[r].active
  BY <1>1 DEF Tables
<1>7. ~t.cl[c].counted /\ t.cl[c].port = NoPort /\ c \notin t.asking
  BY <1>1, <1>3 DEF ClientsSound, Sound, Asks
<1>8. /\ q \in SUBSET Conn /\ (c \in q <=> y.dns)
      /\ \A d \in Conn \ {c} : d \in q <=> d \in t.asking
  BY <1>1, <1>7, <1>4, ConnAssumption DEF Tables
<1> HIDE DEF q, cl, lis
<1>9. /\ s \in Tables /\ s.cl = cl /\ s.lis = lis /\ s.asking = q
      /\ s.held = t.held /\ s.item = t.item /\ s.klass = t.klass
      /\ s.resolving = t.resolving /\ s.ip = t.ip /\ s.gen = t.gen
  BY <1>1, <1>5, <1>6, <1>8 DEF Tables
<1> HIDE DEF s
<1>10. Confs(s)
  BY <1>1, <1>9, SameConfs
<1>11. AddrsExact(s)
  <2>1. \A b \in Addr : AddrRefs(s, b) = AddrRefs(t, b)
    BY <1>4, <1>5, <1>9, <1>7 DEF AddrRefs
  <2> QED BY <1>1, <1>9, <2>1 DEF Socks, AddrsExact
<1>12. PortRefs(s, p) = PortRefs(t, p) \cup {c} /\ c \notin PortRefs(t, p)
  BY <1>4, <1>5, <1>9, <1>7, ConnAssumption DEF PortRefs
<1>13. \A r \in Port \ {p} : PortRefs(s, r) = PortRefs(t, r)
  BY <1>4, <1>5, <1>9, <1>7, ConnAssumption DEF PortRefs
<1>14. PortsExact(s)
  <2>1. IsFiniteSet(PortRefs(t, p))
    BY RefsFinite DEF PortRefs
  <2>2. Cardinality(PortRefs(s, p)) = Cardinality(PortRefs(t, p)) + 1
    BY <1>12, <2>1, FS_AddElement
  <2> QED BY <1>1, <1>6, <1>9, <1>13, <2>2 DEF Socks, PortsExact
<1>15. PortsSound(s)
  <2>1. \A d \in Conn : t.cl[d].port \in Port \cup {NoPort}
    BY <1>1 DEF Tables, Client
  <2>2. \A d \in Conn : s.cl[d].port # NoPort => s.lis[s.cl[d].port].open
    BY <1>1, <1>3, <1>4, <1>5, <1>6, <1>9, <2>1 DEF Socks, PortsSound
  <2>3. \A r \in Port : s.lis[r].open => s.lis[r].active \/ PortRefs(s, r) # {}
    BY <1>1, <1>6, <1>9, <1>12, <1>13 DEF Socks, PortsSound
  <2> QED BY <2>2, <2>3 DEF PortsSound
<1>16. ClientsSound(s)
  <2>1. Asks(s)
    BY <1>1, <1>5, <1>8, <1>9 DEF ClientsSound, Asks
  <2>2. \A d \in Conn : Sound(s.cl[d])
    BY <1>1, <1>4, <1>5, <1>9 DEF ClientsSound, Sound
  <2> QED BY <2>1, <2>2 DEF ClientsSound
<1>17. Ok(s)
  BY <1>1, <1>9, <1>10, <1>11, <1>14, <1>15, <1>16 DEF Ok, Socks
<1> QED BY <1>3, <1>17

(* What Ok says of one client.                                             *)
LEMMA ClientFacts ==
  ASSUME NEW s, Ok(s), NEW c \in Conn
  PROVE  /\ s \in Tables /\ s.cl \in [Conn -> Client] /\ s.cl[c] \in Client
         /\ s.asking \in SUBSET Conn /\ Sound(s.cl[c])
         /\ c \in s.asking <=> s.cl[c].dns
<1>1. s \in Tables /\ ClientsSound(s)
  BY DEF Ok
<1> QED BY <1>1 DEF Tables, ClientsSound, Asks

(* send_auth_query changes the state of the ident query only.              *)
LEMMA SendAuthQueryStep ==
  ASSUME Ok(t), NEW c \in Conn, SendAuthQuery(c)
  PROVE  Ok(t')
<1> DEFINE x == [t.cl[c] EXCEPT !.ident = "pending"]
<1>1. /\ t \in Tables /\ t.cl[c] \in Client /\ t.asking \in SUBSET Conn
      /\ Sound(t.cl[c]) /\ (c \in t.asking <=> t.cl[c].dns)
  BY ClientFacts
<1>2. /\ t.cl[c].ident = "connect"
      /\ t' = [t EXCEPT !.cl = [t.cl EXCEPT ![c] = x], !.asking = t.asking]
  BY <1>1 DEF SendAuthQuery, Tables
<1>3. /\ x \in Client /\ AsBefore(x, t.cl[c]) /\ Sound(x) /\ (c \in t.asking <=> x.dns)
  BY <1>1, <1>2 DEF Client, AsBefore, Sound
<1> HIDE DEF x
<1> QED BY <1>1, <1>2, <1>3, OneClient

(* read_auth_reply and auth_error: the ident query is over.                *)
LEMMA EndIdentStep ==
  ASSUME Ok(t), NEW c \in Conn, EndIdent(c)
  PROVE  Ok(t')
<1> DEFINE x == [t.cl[c] EXCEPT !.ident = "none"]
           v == [t EXCEPT !.cl[c].ident = "none"]
<1>1. /\ t \in Tables /\ t.cl[c] \in Client /\ t.asking \in SUBSET Conn
      /\ Sound(t.cl[c]) /\ (c \in t.asking <=> t.cl[c].dns)
  BY ClientFacts
<1>2. t.cl[c].ident # "none" /\ t' = Release(v, c)
  BY DEF EndIdent
<1>3. v = [t EXCEPT !.cl = [t.cl EXCEPT ![c] = x], !.asking = t.asking]
  BY <1>1 DEF Tables
<1>4. /\ x \in Client /\ AsBefore(x, t.cl[c]) /\ (c \in t.asking <=> x.dns)
      /\ t.cl[c].st = "auth" /\ x.st = "auth"
  BY <1>1, <1>2 DEF Client, AsBefore, Sound
<1> HIDE DEF x, v
<1> QED BY <1>1, <1>2, <1>3, <1>4, ReleaseOk

(* auth_dns_callback: the DNS query is over and no longer outstanding.     *)
LEMMA DnsAnswerStep ==
  ASSUME Ok(t), NEW c \in Conn, DnsAnswer(c)
  PROVE  Ok(t')
<1> DEFINE x == [t.cl[c] EXCEPT !.dns = FALSE]
           q == t.asking \ {c}
           v == [t EXCEPT !.cl[c].dns = FALSE, !.asking = @ \ {c}]
<1>1. /\ t \in Tables /\ t.cl[c] \in Client /\ t.asking \in SUBSET Conn
      /\ Sound(t.cl[c]) /\ (c \in t.asking <=> t.cl[c].dns)
  BY ClientFacts
<1>2. c \in t.asking /\ t' = Release(v, c)
  BY DEF DnsAnswer
<1>3. v = [t EXCEPT !.cl = [t.cl EXCEPT ![c] = x], !.asking = q]
  BY <1>1 DEF Tables
<1>4. /\ x \in Client /\ AsBefore(x, t.cl[c])
      /\ t.cl[c].st = "auth" /\ x.st = "auth" /\ ~x.dns
  BY <1>1, <1>2 DEF Client, AsBefore, Sound
<1>5. q \in SUBSET Conn /\ c \notin q /\ q \ {c} = t.asking \ {c}
  BY <1>1
<1> HIDE DEF x, v, q
<1>6. c \in q <=> x.dns
  BY <1>4, <1>5
<1> QED BY <1>2, <1>3, <1>4, <1>5, <1>6, ReleaseOk

(* m_svsmode +o touches no table.                                          *)
LEMMA SvsOperStep ==
  ASSUME Ok(t), NEW c \in Conn, SvsOper(c)
  PROVE  Ok(t')
<1> DEFINE x == [t.cl[c] EXCEPT !.oper = "given"]
<1>1. /\ t \in Tables /\ t.cl[c] \in Client /\ t.asking \in SUBSET Conn
      /\ Sound(t.cl[c]) /\ (c \in t.asking <=> t.cl[c].dns)
  BY ClientFacts
<1>2. t' = [t EXCEPT !.cl = [t.cl EXCEPT ![c] = x], !.asking = t.asking]
  BY <1>1 DEF SvsOper, Tables
<1>3. /\ x \in Client /\ AsBefore(x, t.cl[c]) /\ Sound(x) /\ (c \in t.asking <=> x.dns)
  BY <1>1, <1>2 DEF Client, AsBefore, Sound
<1> HIDE DEF x
<1> QED BY <1>1, <1>2, <1>3, OneClient

(* dead_link marks the client only: nothing is freed before check_pings.   *)
LEMMA SendFailsStep ==
  ASSUME Ok(t), NEW c \in Conn, SendFails(c)
  PROVE  Ok(t')
<1> DEFINE x == [t.cl[c] EXCEPT !.dead = TRUE]
<1>1. /\ t \in Tables /\ t.cl[c] \in Client /\ t.asking \in SUBSET Conn
      /\ Sound(t.cl[c]) /\ (c \in t.asking <=> t.cl[c].dns)
  BY ClientFacts
<1>2. t' = [t EXCEPT !.cl = [t.cl EXCEPT ![c] = x], !.asking = t.asking]
  BY <1>1 DEF SendFails, Tables
<1>3. /\ x \in Client /\ AsBefore(x, t.cl[c]) /\ Sound(x) /\ (c \in t.asking <=> x.dns)
  BY <1>1, <1>2 DEF Client, AsBefore, Sound
<1> HIDE DEF x
<1> QED BY <1>1, <1>2, <1>3, OneClient

(* A client outside of the auth module may change its state, as long as    *)
(* one that is counted stays a user.                                       *)
LEMMA SetStatus ==
  ASSUME NEW s, Ok(s), NEW c \in Conn, NEW st \in Statuses \ {"free", "auth"},
         s.cl[c].st \notin {"free", "auth"}, s.cl[c].counted => st = "person"
  PROVE  Ok([s EXCEPT !.cl[c].st = st])
<1> DEFINE x == [s.cl[c] EXCEPT !.st = st]
           u == [s EXCEPT !.cl[c].st = st]
<1>1. /\ s \in Tables /\ s.cl[c] \in Client /\ s.asking \in SUBSET Conn
      /\ Sound(s.cl[c]) /\ (c \in s.asking <=> s.cl[c].dns)
  BY ClientFacts
<1>2. u = [s EXCEPT !.cl = [s.cl EXCEPT ![c] = x], !.asking = s.asking]
  BY <1>1 DEF Tables
<1>3. /\ x \in Client /\ x.st = st /\ x.counted = s.cl[c].counted /\ x.addr = s.cl[c].addr
      /\ x.port = s.cl[c].port /\ x.dns = s.cl[c].dns /\ x.ident = s.cl[c].ident
  BY <1>1 DEF Client
<1>4. AsBefore(x, s.cl[c]) /\ Sound(x) /\ (c \in s.asking <=> x.dns)
  BY <1>1, <1>3 DEF AsBefore, Sound
<1> HIDE DEF x, u
<1>5. Ok(u)
  BY <1>1, <1>2, <1>3, <1>4, OneClient
<1> QED BY <1>5 DEF u

(* completed_connection changes the state of the link only.                *)
LEMMA ConnectedStep ==
  ASSUME Ok(t), NEW c \in Conn, Connected(c)
  PROVE  Ok(t')
<1>1. t.cl[c].st = "connecting" /\ t' = [t EXCEPT !.cl[c].st = "handshake"]
  BY DEF Connected
<1>2. ~t.cl[c].counted
  BY <1>1, ClientFacts DEF Sound
<1> QED BY <1>1, <1>2, SetStatus DEF Statuses

(* exit_client keeps Ok for clients that the auth module does not have:    *)
(* they are in local[].                                                    *)
LEMMA ExitOk ==
  ASSUME NEW s, Ok(s), NEW D \in SUBSET Conn, \A c \in D : s.cl[c].st # "auth"
  PROVE  /\ Ok(Exit(s, D))
         /\ \A c \in Conn : Exit(s, D).cl[c] = IF c \in D THEN Gone ELSE s.cl[c]
<1>1. /\ s \in Tables /\ s.gen \in Gen /\ Confs(s) /\ Socks(s)
      /\ Asks(s) /\ \A c \in Conn : Sound(s.cl[c])
  BY DEF Ok, ClientsSound
<1>2. \A c \in D : ~s.cl[c].dns
  BY <1>1 DEF Sound
<1>3. \A c \in Conn \ D : Sound(s.cl[c])
  BY <1>1
<1> QED BY <1>1, <1>2, <1>3, OkExit

(* register_user refuses the client before it attaches anything.           *)
LEMMA RefuseClientStep ==
  ASSUME Ok(t), NEW c \in Conn, RefuseClient(c)
  PROVE  Ok(t')
<1>1. Ok(Heard(t, c)) /\ Heard(t, c).cl[c].st = "unknown"
  BY HeardOk DEF RefuseClient
<1>2. Ok(Exit(Heard(t, c), {c}))
  BY <1>1, ExitOk
<1> QED BY <1>2 DEF RefuseClient

(* A client leaves from any state.                                         *)
LEMMA LoseStep ==
  ASSUME Ok(t), NEW c \in Conn, Lose(c)
  PROVE  Ok(t')
<1>1. t.cl[c].st # "auth" /\ t' = Exit(t, {c})
  BY DEF Lose, Local
<1> QED BY <1>1, ExitOk

(* Traffic resets the timers.                                              *)
LEMMA ReadStep ==
  ASSUME Ok(t), NEW c \in Conn, Read(c)
  PROVE  Ok(t')
  BY HeardOk DEF Read

(* Within register_user: Ok, but for client c, whose address is counted    *)
(* while it is still unknown.                                              *)
Almost(s, c) ==
  /\ s \in Tables /\ s.gen \in Gen /\ Confs(s) /\ Socks(s) /\ Asks(s)
  /\ \A d \in Conn \ {c} : Sound(s.cl[d])
  /\ s.cl[c].st = "unknown" /\ ~s.cl[c].dns /\ s.cl[c].ident = "none"

(* A refusal after the address was counted takes it back.                  *)
LEMMA AlmostExit ==
  ASSUME NEW s, NEW c \in Conn, Almost(s, c)
  PROVE  Ok(Exit(s, {c}))
  BY OkExit DEF Almost

(* attach_iline goes on to attach the line.                                *)
LEMMA AlmostAttach ==
  ASSUME NEW s, NEW c \in Conn, Almost(s, c), NEW S \in SUBSET Listed(s)
  PROVE  Almost(Attach(s, c, S), c)
<1> SUFFICES ASSUME NEW u, u = Attach(s, c, S) PROVE Almost(u, c)
  OBVIOUS
<1>1. s \in Tables /\ Confs(s) /\ S \in SUBSET Item
  BY DEF Almost, Listed
<1>2. u \in Tables /\ u.gen = s.gen /\ u.cl = s.cl /\ u.ip = s.ip /\ u.lis = s.lis
      /\ u.asking = s.asking
  BY <1>1, AttachFields
<1>3. Confs(u)
  BY <1>1, AttachGood
<1>4. Socks(u)
  BY <1>1, <1>2, SameSocks DEF Almost, AsBefore
<1> QED BY <1>2, <1>3, <1>4 DEF Almost, Asks

(* The client is let in, and Ok is restored.                               *)
LEMMA AlmostPerson ==
  ASSUME NEW s, NEW c \in Conn, Almost(s, c)
  PROVE  Ok([s EXCEPT !.cl[c].st = "person"])
<1> SUFFICES ASSUME NEW u, u = [s EXCEPT !.cl[c].st = "person"] PROVE Ok(u)
  OBVIOUS
<1> DEFINE x == [s.cl[c] EXCEPT !.st = "person"]
           cl == [s.cl EXCEPT ![c] = x]
<1>1. s \in Tables /\ s.gen \in Gen /\ Confs(s) /\ Socks(s) /\ Asks(s) /\ s.cl[c] \in Client
  BY DEF Almost, Tables
<1>2. /\ x \in Client /\ x.st = "person" /\ x.counted = s.cl[c].counted
      /\ x.addr = s.cl[c].addr /\ x.port = s.cl[c].port
      /\ x.dns = s.cl[c].dns /\ x.ident = s.cl[c].ident
  BY <1>1 DEF Client, Statuses
<1> HIDE DEF x
<1>3. /\ cl \in [Conn -> Client] /\ cl[c] = x /\ \A d \in Conn \ {c} : cl[d] = s.cl[d]
  BY <1>1, <1>2 DEF Tables
<1>4. u = [s EXCEPT !.cl = cl]
  BY <1>1 DEF x, Tables
<1> HIDE DEF cl
<1>5. /\ u \in Tables /\ u.cl = cl /\ u.asking = s.asking
      /\ u.held = s.held /\ u.item = s.item /\ u.klass = s.klass
      /\ u.resolving = s.resolving /\ u.ip = s.ip /\ u.lis = s.lis /\ u.gen = s.gen
  BY <1>1, <1>3, <1>4 DEF Tables
<1>6. \A d \in Conn : AsBefore(u.cl[d], s.cl[d])
  BY <1>2, <1>3, <1>5 DEF AsBefore
<1>7. Socks(u)
  BY <1>1, <1>5, <1>6, SameSocks
<1>8. Confs(u)
  BY <1>1, <1>5, SameConfs
<1>9. Asks(u)
  BY <1>1, <1>2, <1>3, <1>5 DEF Asks
<1>10. Sound(u.cl[c])
  BY <1>2, <1>3, <1>5 DEF Almost, Sound
<1>11. \A d \in Conn : Sound(u.cl[d])
  BY <1>3, <1>5, <1>10 DEF Almost
<1> QED BY <1>1, <1>5, <1>7, <1>8, <1>9, <1>11 DEF Ok, ClientsSound

(* attach_iline counts the address first.                                  *)
WithAddress(h, c, a) == [h EXCEPT !.cl[c].counted = TRUE, !.ip[a] = @ + 1]

(* It leads from Ok to Almost: the client was in no count of an address    *)
(* before.                                                                 *)
LEMMA CountAddress ==
  ASSUME NEW h, Ok(h), NEW c \in Conn, h.cl[c].st = "unknown",
         NEW a, a = h.cl[c].addr,
         NEW s, s = WithAddress(h, c, a)
  PROVE  Almost(s, c) /\ s.item = h.item
<1> USE DEF WithAddress
<1> DEFINE x == [h.cl[c] EXCEPT !.counted = TRUE]
           cl == [h.cl EXCEPT ![c] = x]
           ip == [h.ip EXCEPT ![a] = @ + 1]
<1>1. /\ h \in Tables /\ h.gen \in Gen /\ Confs(h) /\ Socks(h) /\ ClientsSound(h)
      /\ h.cl[c] \in Client /\ a \in Addr
  BY DEF Ok, Tables, Client
<1>2. /\ x \in Client /\ x.st = "unknown" /\ x.counted /\ x.addr = a
      /\ x.port = h.cl[c].port /\ x.dns = h.cl[c].dns /\ x.ident = h.cl[c].ident
  BY <1>1 DEF Client
<1>3. ~h.cl[c].counted /\ ~x.dns /\ x.ident = "none"
  BY <1>1, <1>2 DEF ClientsSound, Sound
<1> HIDE DEF x
<1>4. /\ cl \in [Conn -> Client] /\ cl[c] = x /\ \A d \in Conn \ {c} : cl[d] = h.cl[d]
  BY <1>1, <1>2 DEF Tables
<1>5. /\ ip \in [Addr -> Nat] /\ ip[a] = h.ip[a] + 1
      /\ \A b \in Addr \ {a} : ip[b] = h.ip[b]
  BY <1>1 DEF Tables
<1>6. s = [h EXCEPT !.cl = cl, !.ip = ip]
  BY <1>1 DEF x, Tables
<1> HIDE DEF cl, ip
<1>7. /\ s \in Tables /\ s.cl = cl /\ s.ip = ip /\ s.asking = h.asking
      /\ s.held = h.held /\ s.item = h.item /\ s.klass = h.klass
      /\ s.resolving = h.resolving /\ s.lis = h.lis /\ s.gen = h.gen
  BY <1>1, <1>4, <1>5, <1>6 DEF Tables
<1>8. Confs(s)
  BY <1>1, <1>7, SameConfs
<1>9. AddrsExact(s)
  <2>1. AddrRefs(s, a) = AddrRefs(h, a) \cup {c} /\ c \notin AddrRefs(h, a)
    BY <1>2, <1>3, <1>4, <1>7 DEF AddrRefs
  <2>2. IsFiniteSet(AddrRefs(h, a))
    BY RefsFinite DEF AddrRefs
  <2>3. Cardinality(AddrRefs(s, a)) = Cardinality(AddrRefs(h, a)) + 1
    BY <2>1, <2>2, FS_AddElement
  <2>4. \A b \in Addr \ {a} : AddrRefs(s, b) = AddrRefs(h, b)
    BY <1>2, <1>3, <1>4, <1>7 DEF AddrRefs
  <2> QED BY <1>1, <1>5, <1>7, <2>3, <2>4 DEF Socks, AddrsExact
<1>10. \A p \in Port : PortRefs(s, p) = PortRefs(h, p)
  BY <1>2, <1>4, <1>7 DEF PortRefs
<1>11. \A d \in Conn : s.cl[d].port = h.cl[d].port
  BY <1>2, <1>4, <1>7
<1>12. PortsExact(s) /\ PortsSound(s)
  BY <1>1, <1>7, <1>10, <1>11 DEF Socks, PortsExact, PortsSound
<1>13. Asks(s)
  BY <1>1, <1>2, <1>4, <1>7 DEF ClientsSound, Asks
<1>14. \A d \in Conn \ {c} : Sound(s.cl[d])
  BY <1>1, <1>4, <1>7 DEF ClientsSound
<1> QED BY <1>1, <1>2, <1>3, <1>4, <1>7, <1>8, <1>9, <1>12, <1>13, <1>14 DEF Almost, Socks

(* Every way through register_user ends in Ok: refused for a limit,        *)
(* refused after the line was attached, or welcome.                        *)
LEMMA RegisterStep ==
  ASSUME Ok(t), NEW c \in Conn, NEW i \in Item, NEW welcome \in BOOLEAN,
         Register(c, i, welcome)
  PROVE  Ok(t')
<1> DEFINE h == Heard(t, c)
           a == t.cl[c].addr
           s == WithAddress(h, c, a)
           u == Attach(s, c, {i})
<1>1. /\ Ok(h) /\ h.cl[c].st = "unknown" /\ a = h.cl[c].addr /\ h.item = t.item
  BY HeardOk DEF Register
<1>2. Almost(s, c) /\ s.item = t.item
  <2> HIDE DEF h, a
  <2>1. Almost(s, c) /\ s.item = h.item
    BY <1>1, CountAddress
  <2> QED BY <1>1, <2>1
<1>3. i \in Listed(t)
  BY DEF Register, ListedAs
<1>4. \/ t' = Exit(s, {c})
      \/ t' = [u EXCEPT !.cl[c].st = "person"]
      \/ t' = Exit(u, {c})
  BY DEF Register, WithAddress
<1> HIDE DEF h, a, s
<1>5. {i} \in SUBSET Listed(s)
  BY <1>2, <1>3 DEF Listed
<1>6. Almost(u, c)
  BY <1>2, <1>5, AlmostAttach
<1> HIDE DEF u
<1> QED BY <1>2, <1>4, <1>6, AlmostExit, AlmostPerson

(* Clients that the invariant does not tell apart: what differs is a timer *)
(* or a flag.                                                              *)
Alike(x, y) ==
  /\ x.st = y.st /\ x.counted = y.counted /\ x.addr = y.addr /\ x.port = y.port
  /\ x.dns = y.dns /\ x.ident = y.ident

(* A step that changes only timers and flags of clients keeps Ok.          *)
LEMMA AlikeOk ==
  ASSUME NEW s, Ok(s), NEW u \in Tables, u.held = s.held, u.item = s.item,
         u.klass = s.klass, u.gen = s.gen, u.resolving = s.resolving, u.ip = s.ip,
         u.lis = s.lis, u.asking = s.asking,
         \A c \in Conn : Alike(u.cl[c], s.cl[c])
  PROVE  Ok(u)
<1>1. ClientsSound(s)
  BY DEF Ok
<1>2. \A c \in Conn : AsBefore(u.cl[c], s.cl[c])
  BY DEF Alike, AsBefore
<1>3. ClientsSound(u)
  BY <1>1 DEF ClientsSound, Sound, Asks, Alike
<1> QED BY <1>2, <1>3, Keep

(* Items that the invariant does not tell apart: what differs is what is   *)
(* known of the host.                                                      *)
AlikeItem(x, y) == /\ x.alloc = y.alloc /\ x.illegal = y.illegal
                   /\ x.class = y.class /\ x.clients = y.clients

(* A step that changes only what is known of hosts, and queries for items  *)
(* that exist, keeps Ok.                                                   *)
LEMMA SameClients ==
  ASSUME NEW s, Ok(s), NEW u \in Tables, u.held = s.held, u.cl = s.cl,
         u.klass = s.klass, u.gen = s.gen, u.ip = s.ip, u.lis = s.lis,
         u.asking = s.asking,
         \A i \in Item : AlikeItem(u.item[i], s.item[i]),
         \A i \in u.resolving : i \in s.resolving \/ s.item[i].alloc
  PROVE  Ok(u)
<1>1. s \in Tables /\ s.gen \in Gen /\ Confs(s) /\ Socks(s) /\ ClientsSound(s)
  BY DEF Ok
<1>2. Confs(u)
  BY <1>1, SameConfs DEF AlikeItem
<1>3. Socks(u)
  BY <1>1, SameSocks DEF AsBefore
<1> QED BY <1>1, <1>2, <1>3 DEF Ok, ClientsSound, Asks

(* m_oper attaches a listed O line.                                        *)
LEMMA OperStep ==
  ASSUME Ok(t), NEW c \in Conn, NEW i \in Item, Oper(c, i)
  PROVE  Ok(t')
<1> DEFINE h == Heard(t, c)
           s == Attach(h, c, {i})
           x == [s.cl[c] EXCEPT !.oper = "listed"]
<1>1. Ok(h) /\ h.item = t.item
  BY HeardOk
<1>2. i \in Listed(t) /\ t' = [s EXCEPT !.cl[c].oper = "listed"]
  BY DEF Oper, ListedAs
<1>3. {i} \in SUBSET Listed(h)
  BY <1>1, <1>2 DEF Listed
<1> HIDE DEF h
<1>4. Ok(s)
  BY <1>1, <1>3, OkAttach
<1> HIDE DEF s
<1>5. s \in Tables /\ s.cl[c] \in Client
  BY <1>4, ClientFacts
<1>6. x \in Client /\ Alike(x, s.cl[c])
  BY <1>5 DEF Client, Alike
<1>7. t' = [s EXCEPT !.cl = [s.cl EXCEPT ![c] = x]]
  BY <1>2, <1>5 DEF Tables
<1> HIDE DEF x
<1>8. /\ t' \in Tables /\ t'.held = s.held /\ t'.item = s.item /\ t'.klass = s.klass
      /\ t'.gen = s.gen /\ t'.resolving = s.resolving /\ t'.ip = s.ip /\ t'.lis = s.lis
      /\ t'.asking = s.asking /\ t'.cl = [s.cl EXCEPT ![c] = x]
  BY <1>5, <1>6, <1>7 DEF Tables
<1>9. \A d \in Conn : Alike(t'.cl[d], s.cl[d])
  BY <1>5, <1>6, <1>8 DEF Tables, Alike
<1> QED BY <1>4, <1>8, <1>9, AlikeOk

(* What m_umode and m_svsmode detach is attached.                          *)
LEMMA LastLineHeld ==
  ASSUME NEW s, NEW c PROVE LastLine(s, c) \subseteq s.held
  BY DEF LastLine, RefsOf

(* Without operator status a client loses a line it has.                   *)
LEMMA DeoperStep ==
  ASSUME Ok(t), NEW c \in Conn, Deoper(c)
  PROVE  Ok(t')
<1> DEFINE s == Detach(t, LastLine(t, c))
           x == [s.cl[c] EXCEPT !.oper = "no"]
<1>1. Ok(s)
  BY LastLineHeld, OkDetach
<1>2. t' = [s EXCEPT !.cl[c].oper = "no"]
  BY DEF Deoper
<1> HIDE DEF s
<1>3. s \in Tables /\ s.cl[c] \in Client
  BY <1>1, ClientFacts
<1>4. x \in Client /\ Alike(x, s.cl[c])
  BY <1>3 DEF Client, Alike
<1>5. t' = [s EXCEPT !.cl = [s.cl EXCEPT ![c] = x]]
  BY <1>2, <1>3 DEF Tables
<1> HIDE DEF x
<1>6. /\ t' \in Tables /\ t'.held = s.held /\ t'.item = s.item /\ t'.klass = s.klass
      /\ t'.gen = s.gen /\ t'.resolving = s.resolving /\ t'.ip = s.ip /\ t'.lis = s.lis
      /\ t'.asking = s.asking /\ t'.cl = [s.cl EXCEPT ![c] = x]
  BY <1>3, <1>4, <1>5 DEF Tables
<1>7. \A d \in Conn : Alike(t'.cl[d], s.cl[d])
  BY <1>3, <1>4, <1>6 DEF Tables, Alike
<1> QED BY <1>1, <1>6, <1>7, AlikeOk

(* m_svsadmin detaches lines of several clients at once.                   *)
LEMMA SvsAdminStep ==
  ASSUME Ok(t), SvsAdmin
  PROVE  Ok(t')
<1> DEFINE opers == {c \in Conn : t.cl[c].oper = "listed"}
           refs == UNION {LastLine(t, c) : c \in opers}
           s == Detach(t, refs)
           cl == [c \in Conn |-> IF c \in opers THEN [s.cl[c] EXCEPT !.oper = "no"]
                                 ELSE s.cl[c]]
<1>1. refs \in SUBSET t.held
  BY LastLineHeld
<1>2. t' = [s EXCEPT !.olines = FALSE, !.cl = cl]
  BY DEF SvsAdmin
<1> HIDE DEF refs, opers
<1>3. Ok(s)
  BY <1>1, OkDetach
<1> HIDE DEF s
<1>4. s \in Tables /\ \A c \in Conn : s.cl[c] \in Client
  BY <1>3, ClientFacts DEF Ok
<1>5. \A c \in Conn : cl[c] \in Client /\ Alike(cl[c], s.cl[c])
  BY <1>4 DEF Client, Alike
<1>6. cl \in [Conn -> Client]
  BY <1>5
<1> HIDE DEF cl
<1>7. /\ t' \in Tables /\ t'.held = s.held /\ t'.item = s.item /\ t'.klass = s.klass
      /\ t'.gen = s.gen /\ t'.resolving = s.resolving /\ t'.ip = s.ip /\ t'.lis = s.lis
      /\ t'.asking = s.asking /\ t'.cl = cl
  BY <1>2, <1>4, <1>6 DEF Tables
<1>8. \A c \in Conn : Alike(t'.cl[c], s.cl[c])
  BY <1>5, <1>7
<1> QED BY <1>3, <1>7, <1>8, AlikeOk

(* Time changes the idle times only, up to their bound.                    *)
LEMMA TickStep ==
  ASSUME Ok(t), Tick
  PROVE  Ok(t')
<1> DEFINE cl == [c \in Conn |->
                IF t.cl[c].st = "free" \/ t.cl[c].idle = MaxIdle THEN t.cl[c]
                ELSE [t.cl[c] EXCEPT !.idle = @ + 1]]
<1>1. t' = [t EXCEPT !.cl = cl]
  BY DEF Tick
<1>2. t \in Tables /\ \A c \in Conn : t.cl[c] \in Client
  BY ClientFacts DEF Ok
<1>3. \A c \in Conn : cl[c] \in Client /\ Alike(cl[c], t.cl[c])
  <2> SUFFICES ASSUME NEW c \in Conn PROVE cl[c] \in Client /\ Alike(cl[c], t.cl[c])
    OBVIOUS
  <2>1. CASE t.cl[c].st = "free" \/ t.cl[c].idle = MaxIdle
    BY <1>2, <2>1 DEF Alike
  <2>2. CASE ~(t.cl[c].st = "free" \/ t.cl[c].idle = MaxIdle)
    <3> DEFINE x == t.cl[c]
               n == x.idle + 1
    <3>1. cl[c] = [x EXCEPT !.idle = n]
      BY <2>2
    <3>2. n \in 0 .. MaxIdle
      BY <1>2, <2>2, ConnAssumption DEF Client
    <3>3. x \in Client
      BY <1>2
    <3> HIDE DEF x, n, cl
    <3>4. cl[c] \in Client /\ Alike(cl[c], x)
      BY <3>1, <3>2, <3>3 DEF Client, Alike
    <3> QED BY <3>4 DEF x
  <2> QED BY <2>1, <2>2
<1>4. cl \in [Conn -> Client]
  BY <1>3
<1> HIDE DEF cl
<1>5. /\ t' \in Tables /\ t'.held = t.held /\ t'.item = t.item /\ t'.klass = t.klass
      /\ t'.gen = t.gen /\ t'.resolving = t.resolving /\ t'.ip = t.ip /\ t'.lis = t.lis
      /\ t'.asking = t.asking /\ t'.cl = cl
  BY <1>1, <1>2, <1>4 DEF Tables
<1>6. \A c \in Conn : Alike(t'.cl[c], t.cl[c])
  BY <1>3, <1>5
<1> QED BY <1>5, <1>6, AlikeOk

(* rehash replaces the configuration and leaves the clients alone.         *)
LEMMA RehashStep ==
  ASSUME Ok(t), NEW cf \in Config, Rehash(cf)
  PROVE  Ok(t')
<1> DEFINE s == ClearOut(t, cf)
           u == ReadFile(s, cf)
<1>1. t \in Tables /\ t.gen \in Gen /\ Confs(t) /\ Socks(t) /\ ClientsSound(t)
  BY DEF Ok
<1>2. s \in Tables /\ s.gen = t.gen /\ s.cl = t.cl /\ s.asking = t.asking
  BY <1>1, ClearOutFields
<1>3. Confs(s) /\ Socks(s)
  BY <1>1, ClearOutGood
<1>4. t.gen < MaxGen /\ t' = [u EXCEPT !.rehashed = TRUE]
  BY DEF Rehash
<1> HIDE DEF s
<1>5. s.gen + 1 \in Gen
  BY <1>1, <1>2, <1>4, ConnAssumption DEF Gen
<1>6. ReadBy(s, cf, u)
  BY <1>2, <1>3, <1>5, ReadFileFields DEF Confs
<1>7. Confs(u) /\ Socks(u)
  BY <1>2, <1>3, <1>5, ReadFileGood
<1> HIDE DEF u
<1>8. u \in Tables /\ u.gen \in Gen /\ u.cl = t.cl /\ u.asking = t.asking
  BY <1>2, <1>5, <1>6 DEF ReadBy
<1>9. Ok(u)
  BY <1>1, <1>7, <1>8 DEF Ok, ClientsSound, Asks
<1>10. /\ t' \in Tables /\ t'.held = u.held /\ t'.item = u.item /\ t'.klass = u.klass
       /\ t'.gen = u.gen /\ t'.resolving = u.resolving /\ t'.ip = u.ip /\ t'.lis = u.lis
       /\ t'.asking = u.asking /\ t'.cl = u.cl
  BY <1>4, <1>8 DEF Tables
<1>11. \A c \in Conn : Alike(t'.cl[c], u.cl[c])
  BY <1>10 DEF Alike
<1> QED BY <1>9, <1>10, <1>11, AlikeOk

(* connect_server takes a free slot and attaches a listed C and a listed N *)
(* line, or does nothing.                                                  *)
LEMMA StartLinkOk ==
  ASSUME NEW s, Ok(s), NEW i \in Item, NEW c \in Conn
  PROVE  Ok(StartLink(s, i, c))
<1> DEFINE a == LineHost[i[1]]
           pick(kind) == CHOOSE j \in ListedAs(s, kind) : LineHost[j[1]] = a
           x == [Gone EXCEPT !.st = "connecting", !.addr = a]
           v == [s EXCEPT !.cl[c] = x]
           S == {pick("C"), pick("N")}
<1>1. CASE s.cl[c].st # "free" \/ Linked(s) \/ NoLine(s, "C", a) \/ NoLine(s, "N", a)
  BY <1>1 DEF StartLink
<1>2. CASE ~(s.cl[c].st # "free" \/ Linked(s) \/ NoLine(s, "C", a) \/ NoLine(s, "N", a))
  <2>1. StartLink(s, i, c) = Attach(v, c, S)
    BY <1>2 DEF StartLink
  <2>2. pick("C") \in ListedAs(s, "C") /\ pick("N") \in ListedAs(s, "N")
    BY <1>2 DEF NoLine
  <2>3. S \in SUBSET Listed(s)
    BY <2>2 DEF ListedAs
  <2>4. /\ s \in Tables /\ s.cl[c] \in Client /\ s.asking \in SUBSET Conn
        /\ Sound(s.cl[c]) /\ (c \in s.asking <=> s.cl[c].dns)
    BY ClientFacts
  <2>5. a \in Addr
    BY ConnAssumption DEF Item
  <2>6. /\ x \in Client /\ x.st = "connecting" /\ x.counted = Gone.counted
        /\ x.port = Gone.port /\ x.dns = Gone.dns /\ x.ident = Gone.ident
    BY <2>5, GoneFacts DEF Client, Statuses
  <2> HIDE DEF x, S
  <2>7. s.cl[c].counted = FALSE /\ Gone.counted = FALSE /\ ~s.cl[c].dns
        /\ s.cl[c].port = NoPort
    BY <1>2, <2>4, GoneFacts DEF Sound, Client
  <2>8. Sound(x) /\ AsBefore(x, s.cl[c]) /\ (c \in s.asking <=> x.dns)
    BY <2>4, <2>6, <2>7, GoneFacts DEF Sound, AsBefore
  <2>9. v = [s EXCEPT !.cl = [s.cl EXCEPT ![c] = x], !.asking = s.asking]
    BY <2>4 DEF Tables
  <2>10. v.item = s.item
    BY <2>4 DEF Tables
  <2> HIDE DEF v
  <2>11. Ok(v)
    BY <2>4, <2>6, <2>8, <2>9, OneClient
  <2>12. S \in SUBSET Listed(v)
    BY <2>3, <2>10 DEF Listed
  <2> QED BY <2>1, <2>11, <2>12, OkAttach
<1> QED BY <1>1, <1>2

(* try_connections and m_connect, or the query they need first.            *)
LEMMA ConnectStep ==
  ASSUME Ok(t), NEW i \in Item, NEW c \in Conn, Connect(i, c)
  PROVE  Ok(t')
<1>1. i \in Listed(t)
  BY DEF Connect, ListedAs
<1>2. CASE t.item[i].known
  BY <1>2, StartLinkOk DEF Connect
<1>3. CASE ~t.item[i].known
  <2> DEFINE r == [t.item[i] EXCEPT !.pending = "connect"]
             item == [t.item EXCEPT ![i] = r]
             q == t.resolving \cup {i}
  <2>1. t \in Tables /\ t.item[i] \in ItemRec /\ t.item \in [Item -> ItemRec]
    BY DEF Ok, Tables
  <2>2. r \in ItemRec /\ AlikeItem(r, t.item[i])
    BY <2>1 DEF ItemRec, AlikeItem
  <2>3. t' = [t EXCEPT !.item = item, !.resolving = q]
    BY <1>3, <2>1 DEF Connect, Tables
  <2> HIDE DEF r
  <2>4. item \in [Item -> ItemRec] /\ \A j \in Item : AlikeItem(item[j], t.item[j])
    BY <2>1, <2>2 DEF AlikeItem
  <2>5. q \in SUBSET Item /\ \A j \in q : j \in t.resolving \/ t.item[j].alloc
    BY <1>1, <2>1 DEF Tables, Listed
  <2> HIDE DEF item, q
  <2>6. /\ t' \in Tables /\ t'.held = t.held /\ t'.cl = t.cl /\ t'.klass = t.klass
        /\ t'.gen = t.gen /\ t'.ip = t.ip /\ t'.lis = t.lis /\ t'.asking = t.asking
        /\ t'.item = item /\ t'.resolving = q
    BY <2>1, <2>3, <2>4, <2>5 DEF Tables
  <2> QED BY <2>4, <2>5, <2>6, SameClients
<1> QED BY <1>2, <1>3

(* An answer for a line: the query is gone, and freed memory is only       *)
(* marked as used. From such a state the model takes no step.              *)
LEMMA LineResolvedStep ==
  ASSUME Ok(t), NEW i \in Item, NEW c \in Conn, NEW ok \in BOOLEAN, LineResolved(i, c, ok)
  PROVE  Ok(t')
<1> DEFINE r == [t.item[i] EXCEPT !.pending = "no", !.known = @ \/ ok]
           item == [t.item EXCEPT ![i] = r]
           q == t.resolving \ {i}
           s == [t EXCEPT !.item = item, !.resolving = q]
           z == [t EXCEPT !.resolving = q, !.stale = TRUE]
<1>1. t \in Tables /\ t.item[i] \in ItemRec /\ t.item \in [Item -> ItemRec]
  BY DEF Ok, Tables
<1>2. r \in ItemRec /\ AlikeItem(r, t.item[i])
  BY <1>1 DEF ItemRec, AlikeItem
<1>3. s = [t EXCEPT !.resolving = @ \ {i}, !.item[i].pending = "no", !.item[i].known = @ \/ ok]
  BY <1>1 DEF Tables
<1>4. t' = z \/ t' = s \/ t' = StartLink(s, i, c)
  <2> HIDE DEF s
  <2> QED BY <1>1, <1>3 DEF LineResolved, Tables
<1> HIDE DEF r
<1>5. item \in [Item -> ItemRec] /\ \A j \in Item : AlikeItem(item[j], t.item[j])
  BY <1>1, <1>2 DEF AlikeItem
<1>6. q \in SUBSET Item /\ \A j \in q : j \in t.resolving
  BY <1>1 DEF Tables
<1> HIDE DEF item, q
<1>7. Ok(s)
  <2>1. /\ s \in Tables /\ s.held = t.held /\ s.cl = t.cl /\ s.klass = t.klass
        /\ s.gen = t.gen /\ s.ip = t.ip /\ s.lis = t.lis /\ s.asking = t.asking
        /\ s.item = item /\ s.resolving = q
    BY <1>1, <1>5, <1>6 DEF Tables
  <2> HIDE DEF s
  <2> QED BY <1>5, <1>6, <2>1, SameClients
<1>8. Ok(z)
  <2>1. /\ z \in Tables /\ z.held = t.held /\ z.cl = t.cl /\ z.klass = t.klass
        /\ z.gen = t.gen /\ z.ip = t.ip /\ z.lis = t.lis /\ z.asking = t.asking
        /\ z.item = t.item /\ z.resolving = q
    BY <1>1, <1>6 DEF Tables
  <2>2. \A j \in Item : AlikeItem(z.item[j], t.item[j])
    BY <2>1 DEF AlikeItem
  <2> HIDE DEF z
  <2> QED BY <1>6, <2>1, <2>2, SameClients
<1> HIDE DEF s, z
<1> QED BY <1>4, <1>7, <1>8, StartLinkOk

(* server_estab detaches the C line and makes the client a server.         *)
LEMMA EstabOk ==
  ASSUME NEW s, Ok(s), NEW c \in Conn, s.cl[c].st \in {"unknown", "handshake"}
  PROVE  Ok(Estab(s, c))
<1> DEFINE out == {r \in RefsOf(s, {c}) : KindOf(r[2]) \notin {"N", "H"}}
           u == Detach(s, out)
<1>1. out \in SUBSET s.held
  BY DEF RefsOf
<1>2. Estab(s, c) = [u EXCEPT !.cl[c].st = "server"]
  BY DEF Estab
<1> HIDE DEF out
<1>3. Ok(u) /\ u.cl = s.cl
  BY <1>1, OkDetach
<1> HIDE DEF u
<1>4. ~u.cl[c].counted
  BY <1>3, ClientFacts DEF Sound
<1>5. "server" \in Statuses \ {"free", "auth"}
  BY DEF Statuses
<1> QED BY <1>2, <1>3, <1>4, <1>5, SetStatus

(* check_server detaches all lines of the link, which may free illegal     *)
(* ones, and attaches listed ones again, whichever way it ends.            *)
LEMMA CheckServerOk ==
  ASSUME NEW s, Ok(s), NEW c \in Conn, NEW accepted \in BOOLEAN,
         s.cl[c].st \in {"unknown", "handshake"}
  PROVE  Ok(CheckServer(s, c, accepted))
<1> DEFINE all == Lines(s, c) \cup (ListedAs(s, "C") \cup ListedAs(s, "N"))
           ch  == Choice(s, all, c, "C")
           two == {ch, Choice(s, all, c, "N")}
           u   == Detach(s, RefsOf(s, {c}))
           S   == (two \cap Listed(u)) \cup ListedAs(u, "H")
           v   == Attach(u, c, S)
           w   == [v EXCEPT !.item[ch].known = TRUE]
           z   == [u EXCEPT !.stale = TRUE]
<1>1. \/ CheckServer(s, c, accepted) = Exit(s, {c})
      \/ CheckServer(s, c, accepted) = z
      \/ CheckServer(s, c, accepted) = Exit(v, {c})
      \/ CheckServer(s, c, accepted) = Estab(w, c)
  BY DEF CheckServer
<1>2. S \in SUBSET Listed(u)
  BY DEF ListedAs
<1> HIDE DEF all, ch, two, S
<1>3. Ok(u) /\ u.cl = s.cl
  <2>1. RefsOf(s, {c}) \in SUBSET s.held
    BY DEF RefsOf
  <2> QED BY <2>1, OkDetach
<1> HIDE DEF u
<1>4. Ok(v) /\ v.cl = s.cl
  BY <1>2, <1>3, OkAttach
<1> HIDE DEF v
<1>5. Ok(z)
  <2>1. u \in Tables
    BY <1>3 DEF Ok
  <2>2. /\ z \in Tables /\ z.held = u.held /\ z.cl = u.cl /\ z.klass = u.klass
        /\ z.gen = u.gen /\ z.ip = u.ip /\ z.lis = u.lis /\ z.asking = u.asking
        /\ z.item = u.item /\ z.resolving = u.resolving
    BY <2>1 DEF Tables
  <2>3. \A i \in Item : AlikeItem(z.item[i], u.item[i])
    BY <2>2 DEF AlikeItem
  <2> HIDE DEF z
  <2> QED BY <1>3, <2>2, <2>3, SameClients
<1>6. Ok(w) /\ w.cl = s.cl
  <2> DEFINE item == [v.item EXCEPT ![ch].known = TRUE]
  <2>1. v \in Tables /\ \A i \in Item : v.item[i] \in ItemRec
    BY <1>4 DEF Ok, Tables
  <2>2. \A i \in Item : item[i] = IF i = ch THEN [v.item[i] EXCEPT !.known = TRUE]
                                  ELSE v.item[i]
    BY <2>1 DEF Tables
  <2>3. \A i \in Item : [v.item[i] EXCEPT !.known = TRUE] \in ItemRec
                        /\ AlikeItem([v.item[i] EXCEPT !.known = TRUE], v.item[i])
    BY <2>1 DEF ItemRec, AlikeItem
  <2>4. w = [v EXCEPT !.item = item] /\ DOMAIN item = Item
    BY <2>1 DEF Tables
  <2>5. item = [i \in Item |-> item[i]]
    BY <2>1 DEF Tables
  <2> HIDE DEF item
  <2>6. \A i \in Item : item[i] \in ItemRec /\ AlikeItem(item[i], v.item[i])
    BY <2>1, <2>2, <2>3 DEF AlikeItem
  <2>7. item \in [Item -> ItemRec]
    BY <2>5, <2>6
  <2>8. /\ w \in Tables /\ w.held = v.held /\ w.cl = v.cl /\ w.klass = v.klass
        /\ w.gen = v.gen /\ w.ip = v.ip /\ w.lis = v.lis /\ w.asking = v.asking
        /\ w.item = item /\ w.resolving = v.resolving
    BY <2>1, <2>4, <2>7 DEF Tables
  <2> HIDE DEF w
  <2>9. Ok(w)
    BY <1>4, <2>6, <2>8, SameClients
  <2> QED BY <1>4, <2>8, <2>9
<1> HIDE DEF w, z
<1>7. Ok(Estab(w, c))
  BY <1>6, EstabOk
<1>8. Ok(Exit(s, {c})) /\ Ok(Exit(v, {c}))
  BY <1>4, ExitOk
<1> QED BY <1>1, <1>5, <1>7, <1>8

(* m_server, after the older link of the same name was closed or not.      *)
LEMMA ServerCmdStep ==
  ASSUME Ok(t), NEW c \in Conn, NEW accepted \in BOOLEAN, NEW younger \in BOOLEAN,
         ServerCmd(c, accepted, younger)
  PROVE  Ok(t')
<1> DEFINE s == Heard(t, c)
           others == {d \in Conn : t.cl[d].st = "server"}
           u == IF others = {} THEN s ELSE Exit(s, others)
<1>1. t.cl[c].st \in {"unknown", "handshake"}
  BY DEF ServerCmd
<1>2. Ok(s) /\ \A d \in Conn : s.cl[d].st = t.cl[d].st
  BY HeardOk
<1>3. t' = Exit(s, {c}) \/ t' = CheckServer(u, c, accepted)
  BY DEF ServerCmd
<1> HIDE DEF s
<1>4. \A d \in others : s.cl[d].st # "auth"
  BY <1>2
<1>5. others \in SUBSET Conn /\ c \notin others
  BY <1>1
<1> HIDE DEF others
<1>6. Ok(u) /\ u.cl[c].st = s.cl[c].st
  BY <1>2, <1>4, <1>5, ExitOk
<1> HIDE DEF u
<1>7. Ok(Exit(s, {c}))
  BY <1>1, <1>2, ExitOk
<1>8. Ok(CheckServer(u, c, accepted))
  BY <1>1, <1>2, <1>6, CheckServerOk
<1> QED BY <1>3, <1>7, <1>8

(* check_pings and timeout_auth_queries: clients leave, are pinged or let  *)
(* through with their queries deleted, all in one pass.                    *)
LEMMA PeriodicStep ==
  ASSUME Ok(t), NEW refused \in SUBSET Refusable(t), Periodic(refused)
  PROVE  Ok(t')
<1> DEFINE out == Dying(t) \cup refused
           e == Exit(t, out)
           q == t.asking \ Late(t)
           new(c) == IF c \in out THEN Gone
                     ELSE IF c \in Late(t) THEN ReleaseLate(t, c)
                     ELSE IF Silent(t, c) /\ ~t.cl[c].pinged THEN SendPing(t, c)
                     ELSE t.cl[c]
           cl == [c \in Conn |-> new(c)]
<1>1. /\ t \in Tables /\ Asks(t) /\ t.asking \in SUBSET Conn
      /\ \A c \in Conn : t.cl[c] \in Client /\ Sound(t.cl[c])
  BY DEF Ok, ClientsSound, Tables
<1>2. out \in SUBSET Conn /\ \A c \in out : t.cl[c].st # "auth"
  BY DEF Dying, Refusable, Local
<1>3. /\ Ok(e) /\ e \in Tables /\ e.asking = t.asking
      /\ \A c \in Conn : e.cl[c] = IF c \in out THEN Gone ELSE t.cl[c]
  <2>1. /\ Ok(e) /\ \A c \in Conn : e.cl[c] = IF c \in out THEN Gone ELSE t.cl[c]
    BY <1>2, ExitOk
  <2>2. e \in Tables /\ e.asking = t.asking
    BY <1>1, <1>2, ExitFields
  <2> QED BY <2>1, <2>2
<1>4. t' = [e EXCEPT !.rehashed = FALSE, !.asking = q, !.cl = cl]
  BY <1>3 DEF Periodic, Tables
<1>5. Late(t) \subseteq Conn /\ \A c \in Late(t) : t.cl[c].st = "auth"
  BY DEF Late
<1> HIDE DEF out, e
<1>6. \A c \in Conn : /\ new(c) \in Client /\ AsBefore(new(c), e.cl[c])
                      /\ Sound(new(c)) /\ (c \in q <=> new(c).dns)
  <2> SUFFICES ASSUME NEW c \in Conn
               PROVE  /\ new(c) \in Client /\ AsBefore(new(c), e.cl[c])
                      /\ Sound(new(c)) /\ (c \in q <=> new(c).dns)
    OBVIOUS
  <2>0. t.cl[c] \in Client /\ Sound(t.cl[c]) /\ (c \in t.asking <=> t.cl[c].dns)
    BY <1>1 DEF Asks
  <2>1. CASE c \in out
    <3>1. new(c) = Gone /\ e.cl[c] = Gone
      BY <1>3, <2>1
    <3>2. c \notin q
      BY <1>2, <2>0, <2>1 DEF Sound
    <3> HIDE DEF new, q
    <3> QED BY <3>1, <3>2, GoneFacts DEF Sound, AsBefore
  <2>2. CASE c \notin out /\ c \in Late(t)
    <3>1. new(c) = ReleaseLate(t, c) /\ e.cl[c] = t.cl[c] /\ c \notin q
      BY <1>3, <2>2
    <3>2. t.cl[c].st = "auth" /\ ~t.cl[c].counted
      BY <1>5, <2>0, <2>2 DEF Sound
    <3>3. "unknown" \in Statuses
      BY DEF Statuses
    <3> HIDE DEF new, q
    <3>4. /\ new(c) \in Client /\ new(c).st = "unknown" /\ new(c).ident = "none"
          /\ new(c).dns = FALSE /\ new(c).counted = t.cl[c].counted
          /\ new(c).addr = t.cl[c].addr /\ new(c).port = t.cl[c].port
      BY <2>0, <3>1, <3>3 DEF ReleaseLate, Client
    <3> QED BY <3>1, <3>2, <3>4 DEF Sound, AsBefore
  <2>3. CASE c \notin out /\ c \notin Late(t) /\ Silent(t, c) /\ ~t.cl[c].pinged
    <3>1. new(c) = SendPing(t, c) /\ e.cl[c] = t.cl[c] /\ (c \in q <=> c \in t.asking)
      BY <1>3, <2>3
    <3>2. PingOf(t, c) \in 0 .. MaxIdle
      <4>1. t.cl[c].idle \in 0 .. MaxIdle /\ t.cl[c].idle > PingOf(t, c)
        BY <2>0, <2>3 DEF Silent, Client
      <4>2. PingOf(t, c) \in Nat
        BY ConnAssumption DEF PingOf
      <4> QED BY <4>1, <4>2, ConnAssumption
    <3> HIDE DEF new, q
    <3>3. new(c) \in Client /\ Alike(new(c), t.cl[c])
      BY <2>0, <3>1, <3>2 DEF SendPing, Client, Alike
    <3> QED BY <2>0, <3>1, <3>3 DEF Alike, Sound, AsBefore
  <2>4. CASE c \notin out /\ c \notin Late(t) /\ ~(Silent(t, c) /\ ~t.cl[c].pinged)
    <3>1. new(c) = t.cl[c] /\ e.cl[c] = t.cl[c] /\ (c \in q <=> c \in t.asking)
      BY <1>3, <2>4
    <3> HIDE DEF new, q
    <3> QED BY <2>0, <3>1 DEF AsBefore
  <2> QED BY <2>1, <2>2, <2>3, <2>4
<1>7. q \in SUBSET Conn
  BY <1>1
<1> HIDE DEF q, new
<1>8. cl \in [Conn -> Client] /\ \A c \in Conn : cl[c] = new(c)
  BY <1>6
<1> HIDE DEF cl
<1>9. /\ t' \in Tables /\ t'.held = e.held /\ t'.item = e.item /\ t'.klass = e.klass
      /\ t'.gen = e.gen /\ t'.resolving = e.resolving /\ t'.ip = e.ip /\ t'.lis = e.lis
      /\ t'.asking = q /\ t'.cl = cl
  BY <1>3, <1>4, <1>7, <1>8 DEF Tables
<1>10. ClientsSound(t')
  BY <1>6, <1>8, <1>9 DEF ClientsSound, Asks
<1>11. \A c \in Conn : AsBefore(t'.cl[c], e.cl[c])
  BY <1>6, <1>8, <1>9
<1> QED BY <1>3, <1>9, <1>10, <1>11, Keep

-----------------------------------------------------------------------------

(* The tables before the first file is read.                               *)
Bare(cf) ==
  [cl |-> [c \in Conn |-> Gone], held |-> {}, ip |-> [a \in Addr |-> 0],
   lis |-> [p \in Port |-> [open |-> FALSE, active |-> FALSE, ref |-> 0]],
   item |-> [i \in Item |-> Freed], klass |-> [k \in Struct |-> NoStruct],
   asking |-> {}, resolving |-> {}, gen |-> -1, conf |-> cf,
   rehashed |-> FALSE, olines |-> TRUE, stale |-> FALSE]

(* The program starts in Ok: init reads the file into empty tables.        *)
LEMMA InitOk ==
  ASSUME Init
  PROVE  Ok(t)
<1> PICK cf \in Config : t = ReadFile(Bare(cf), cf)
  BY DEF Init, Boot, Bare
<1> DEFINE b == Bare(cf)
<1>1. Gone \in Client /\ Freed \in ItemRec /\ NoStruct \in StructRec
  BY GoneFacts DEF Freed, ItemRec, NoStruct, StructRec
<1>2. /\ b.cl = [c \in Conn |-> Gone] /\ b.held = {} /\ b.ip = [a \in Addr |-> 0]
      /\ b.lis = [p \in Port |-> [open |-> FALSE, active |-> FALSE, ref |-> 0]]
      /\ b.item = [i \in Item |-> Freed] /\ b.klass = [k \in Struct |-> NoStruct]
      /\ b.asking = {} /\ b.resolving = {} /\ b.gen = -1
  BY DEF Bare
<1>3. b \in Tables
  BY <1>1 DEF Bare, Tables
<1> HIDE DEF b
<1>4. b.gen + 1 \in Gen
  BY <1>2, ConnAssumption DEF Gen
<1>5. Cardinality({}) = 0
  BY FS_EmptySet
<1>6. Confs(b)
  <2>1. /\ \A i \in Item : ToItem(b.held, i) = {}
        /\ \A k \in Struct : ToClass(b, b.held, k) = {}
    BY <1>2 DEF ToItem, ToClass
  <2>2. ItemsExact(b)
    <3>1. \A i \in Item : b.item[i].clients = 0
      BY <1>2 DEF Freed
    <3> QED BY <1>5, <2>1, <3>1 DEF ItemsExact
  <2>4. LinksExact(b)
    <3>1. \A k \in Struct : b.klass[k].links = 0
      BY <1>2 DEF NoStruct
    <3> QED BY <1>5, <2>1, <3>1 DEF LinksExact
  <2>3. LinesSound(b) /\ ClassesSound(b)
    BY <1>2 DEF LinesSound, ClassesSound, Freed, NoStruct
  <2> QED BY <2>2, <2>3, <2>4 DEF Confs
<1>7. Socks(b)
  <2>1. /\ \A a \in Addr : AddrRefs(b, a) = {}
        /\ \A p \in Port : PortRefs(b, p) = {}
    BY <1>2, GoneFacts, ConnAssumption DEF AddrRefs, PortRefs
  <2>2. AddrsExact(b)
    <3>1. \A a \in Addr : b.ip[a] = 0
      BY <1>2
    <3> QED BY <1>5, <2>1, <3>1 DEF AddrsExact
  <2>4. PortsExact(b)
    <3>1. \A p \in Port : b.lis[p].ref = 0
      BY <1>2
    <3> QED BY <1>5, <2>1, <3>1 DEF PortsExact
  <2>3. PortsSound(b)
    BY <1>2, GoneFacts DEF PortsSound
  <2> QED BY <2>2, <2>3, <2>4 DEF Socks
<1>8. Confs(t) /\ Socks(t)
  BY <1>3, <1>4, <1>6, <1>7, ReadFileGood DEF b
<1>9. ReadBy(b, cf, t)
  BY <1>3, <1>4, <1>6, ReadFileFields DEF Confs, b
<1>10. t \in Tables /\ t.gen \in Gen /\ t.cl = b.cl /\ t.asking = b.asking
  BY <1>4, <1>9 DEF ReadBy
<1>11. ClientsSound(t)
  BY <1>2, <1>10, GoneFacts DEF ClientsSound, Sound, Asks
<1> QED BY <1>8, <1>10, <1>11 DEF Ok

(* Every step keeps Ok, one lemma per action.                              *)
LEMMA NextOk ==
  ASSUME Ok(t), [Next]_t
  PROVE  Ok(t')
<1>1. CASE UNCHANGED t
  BY <1>1
<1>2. ASSUME NEW c \in Conn, NEW a \in Addr, NEW p \in Port, NEW asked \in BOOLEAN,
             Accept(c, a, p, asked)
      PROVE  Ok(t')
  BY <1>2, AcceptStep
<1>3. ASSUME NEW c \in Conn,
             SendAuthQuery(c) \/ EndIdent(c) \/ DnsAnswer(c) \/ RefuseClient(c)
      PROVE  Ok(t')
  BY <1>3, SendAuthQueryStep, EndIdentStep, DnsAnswerStep, RefuseClientStep
<1>4. ASSUME NEW c \in Conn, NEW i \in Item, NEW welcome \in BOOLEAN,
             Register(c, i, welcome)
      PROVE  Ok(t')
  BY <1>4, RegisterStep
<1>5. ASSUME NEW c \in Conn, NEW i \in Item, Oper(c, i) \/ Connect(i, c)
      PROVE  Ok(t')
  BY <1>5, OperStep, ConnectStep
<1>6. ASSUME NEW c \in Conn,
             SvsOper(c) \/ Deoper(c) \/ Read(c) \/ SendFails(c) \/ Lose(c) \/ Connected(c)
      PROVE  Ok(t')
  BY <1>6, SvsOperStep, DeoperStep, ReadStep, SendFailsStep, LoseStep, ConnectedStep
<1>7. ASSUME NEW c \in Conn, NEW i \in Item, NEW ok \in BOOLEAN, LineResolved(i, c, ok)
      PROVE  Ok(t')
  BY <1>7, LineResolvedStep
<1>8. ASSUME NEW c \in Conn, NEW accepted \in BOOLEAN, NEW younger \in BOOLEAN,
             ServerCmd(c, accepted, younger)
      PROVE  Ok(t')
  BY <1>8, ServerCmdStep
<1>9. CASE SvsAdmin \/ Tick
  BY <1>9, SvsAdminStep, TickStep
<1>10. CASE Housekeeping
  BY <1>10, PeriodicStep DEF Housekeeping
<1>11. ASSUME NEW cf \in Config, Rehash(cf) PROVE Ok(t')
  BY <1>11, RehashStep
<1> QED BY <1>1, <1>2, <1>3, <1>4, <1>5, <1>6, <1>7, <1>8, <1>9, <1>10, <1>11 DEF Next

(* The invariant as a state formula.                                       *)
OkNow == Ok(t)

(* The tables are sound in every reachable state: each way in, out and     *)
(* through the configuration keeps Ok.                                     *)
THEOREM AlwaysOk == Spec => []OkNow
<1>1. Init => OkNow
  BY InitOk DEF OkNow
<1>2. OkNow /\ [Next]_t => OkNow'
  BY NextOk DEF OkNow
<1> QED BY <1>1, <1>2, PTL DEF Spec

(* The tables have their types in every state: no address count or class   *)
(* count of s_conf.c and class.c goes below 0.                             *)
THEOREM ConnTypeCorrect == Spec => []TypeOK
<1>1. OkNow => TypeOK
  BY OkTyped DEF OkNow, TypeOK
<1> QED BY <1>1, AlwaysOk, PTL

(* The counters by which s_conf.c, class.c and listener.c decide who may   *)
(* come in and what may be freed are exact, for any number of clients,     *)
(* lines, classes and rehashes.                                            *)
THEOREM CountsAreExact == Spec => []CountsExact
<1>1. OkNow => CountsExact
  BY DEF OkNow, Ok, Confs, Socks, ItemsExact, LinksExact, AddrsExact, PortsExact, CountsExact
<1> QED BY <1>1, AlwaysOk, PTL

(* No client refers to a line, a class or a listener that has been freed,  *)
(* however rehashes and departures interleave (detach_conf, check_class,   *)
(* close_listeners). It needs the exact counts: an illegal item is         *)
(* attached, so its class has links and exists.                            *)
THEOREM NothingDangles == Spec => []NoDangling
<1>1. OkNow => NoDangling
  <2> SUFFICES ASSUME OkNow PROVE NoDangling
    OBVIOUS
  <2>1. t \in Tables /\ Confs(t) /\ Socks(t)
    BY DEF OkNow, Ok
  <2>2. ASSUME NEW i \in Item, ToItem(t.held, i) # {} \/ t.item[i].alloc
        PROVE  t.item[i].alloc
    BY <2>1, <2>2 DEF ToItem, Confs, LinesSound
  <2>3. ASSUME NEW i \in Item, t.item[i].alloc, t.item[i].class # NoClass
        PROVE  t.klass[t.item[i].class].alloc
    <3> DEFINE k == t.item[i].class
    <3>1. k \in Struct
      BY <2>1, <2>3 DEF Tables, ItemRec
    <3>2. Counts(i) /\ (t.item[i].illegal \/ t.klass[k].listed)
      BY <2>1, <2>3 DEF Confs, LinesSound
    <3>3. CASE t.klass[k].listed
      BY <2>1, <3>1, <3>3 DEF Confs, ClassesSound
    <3>4. CASE t.item[i].illegal
      <4>1. PICK r \in t.held : r[2] = i
        BY <2>1, <2>3, <3>4 DEF Confs, LinesSound, ToItem
      <4>2. r \in ToClass(t, t.held, k)
        BY <3>2, <4>1 DEF ToClass
      <4>3. IsFiniteSet(ToClass(t, t.held, k))
        <5>1. ToClass(t, t.held, k) \in SUBSET (Conn \X Item)
          BY <2>1 DEF Tables, ToClass
        <5> QED BY <5>1, RefsFinite
      <4>4. Cardinality(ToClass(t, t.held, k)) \in Nat \ {0}
        BY <4>2, <4>3, FS_EmptySet, FS_CardinalityType
      <4>5. t.klass[k].links > 0
        BY <2>1, <3>1, <4>4 DEF Confs, LinksExact
      <4> QED BY <2>1, <3>1, <4>5 DEF Confs, ClassesSound
    <3> QED BY <3>2, <3>3, <3>4
  <2> QED BY <2>1, <2>2, <2>3 DEF NoDangling, Socks, PortsSound
<1> QED BY <1>1, AlwaysOk, PTL

(* Nothing is kept that nobody refers to: an item of an old file, a        *)
(* dropped class and a closed listener go with their last client, and no   *)
(* class is listed twice.                                                  *)
THEOREM NothingLeaks == Spec => []NoLeak
<1>1. OkNow => NoLeak
  <2> SUFFICES ASSUME OkNow PROVE NoLeak
    OBVIOUS
  <2>1. t \in Tables /\ Confs(t) /\ Socks(t)
    BY DEF OkNow, Ok
  <2>2. ASSUME NEW k \in Struct, t.klass[k].alloc
        PROVE  t.klass[k].listed \/ ToClass(t, t.held, k) # {}
    <3>1. t.klass[k].listed \/ t.klass[k].links > 0
      BY <2>1, <2>2 DEF Confs, ClassesSound
    <3> QED BY <2>1, <3>1, FS_EmptySet DEF Confs, LinksExact
  <2>3. \A i \in Item : t.item[i].alloc /\ t.item[i].illegal => ToItem(t.held, i) # {}
    BY <2>1 DEF Confs, LinesSound
  <2>4. \A p \in Port : t.lis[p].open => t.lis[p].active \/ PortRefs(t, p) # {}
    BY <2>1 DEF Socks, PortsSound
  <2>5. \A k, q \in Struct : t.klass[k].listed /\ t.klass[q].listed /\ k[1] = q[1] => k = q
    BY <2>1 DEF Confs, ClassesSound
  <2> QED BY <2>2, <2>3, <2>4, <2>5 DEF NoLeak
<1> QED BY <1>1, AlwaysOk, PTL

(* With the resolver of res.c, which drops the queries of what free_conf   *)
(* frees, no query is for a freed line. With adns it may be, for the        *)
(* queries of conf lines are not cancelled there.                          *)
THEOREM LookupsHaveLines ==
  ASSUME ~Adns
  PROVE  Spec => []QueryForConf
<1>1. OkNow => QueryForConf
  BY DEF OkNow, Ok, Confs, LinesSound, QueryForConf
<1> QED BY <1>1, AlwaysOk, PTL
===============================================================================
