----------------------------- MODULE ServerProofs -----------------------------
(***************************************************************************)
(* Proofs about the tables of one server: the lists of WATCH (Watch), the   *)
(* members, invitations and counts of its channels (Room), its history of   *)
(* nicks (Past), and its K-lines and D-lines (KLines).                      *)
(***************************************************************************)
EXTENDS Watch, Room, Past, KLines, FiniteSetTheorems, SequenceTheorems, TLAPS

-----------------------------------------------------------------------------
(* Lists (Lists): what Pick takes out of a list, and in which order.         *)

(* The number of a place among those of I.                                  *)
Below(I, i) == {j \in I : j <= i}
Rank(I, i) == Cardinality(Below(I, i))
Rising(f, n) == \A j, k \in 1 .. n : j < k => f[j] < f[k]

(* f goes through the numbers of A, the least first.                        *)
Enumerates(f, n, A) == /\ f \in [1 .. n -> A] /\ Rising(f, n)
                       /\ \A a \in A : \E k \in 1 .. n : f[k] = a

LEMMA Rank_Rises ==
    ASSUME NEW I, I \subseteq Int, IsFiniteSet(I), NEW i \in I, NEW j \in I
    PROVE  /\ Rank(I, i) \in 1 .. Cardinality(I)
           /\ i < j => Rank(I, i) < Rank(I, j)
           /\ Rank(I, i) < Rank(I, j) => i < j
           /\ Rank(I, i) = Rank(I, j) => i = j
<1>1. \A a \in I : /\ IsFiniteSet(Below(I, a)) /\ Rank(I, a) \in Nat /\ Rank(I, a) # 0
                   /\ Rank(I, a) <= Cardinality(I)
    <2> SUFFICES ASSUME NEW a \in I
                 PROVE  /\ IsFiniteSet(Below(I, a)) /\ Rank(I, a) \in Nat /\ Rank(I, a) # 0
                        /\ Rank(I, a) <= Cardinality(I)
        OBVIOUS
    <2>1. Below(I, a) \in SUBSET I /\ a \in Below(I, a)
        BY DEF Below
    <2>2. IsFiniteSet(Below(I, a)) /\ Rank(I, a) <= Cardinality(I)
        BY <2>1, FS_Subset DEF Rank
    <2>3. Rank(I, a) \in Nat /\ Rank(I, a) # 0
        BY <2>1, <2>2, FS_CardinalityType, FS_EmptySet DEF Rank
    <2> QED
        BY <2>2, <2>3
<1>2. Cardinality(I) \in Nat
    BY FS_CardinalityType
<1>3. ASSUME NEW a \in I, NEW b \in I, a < b
      PROVE  Rank(I, a) < Rank(I, b)
    <2>0. \A x \in I : x \in Int
        OBVIOUS
    <2>a. a \in Int /\ b \in Int /\ b <= b /\ ~(b <= a) /\ \A x \in I : x <= a => x <= b
        BY <1>3, <2>0
    <2>1. Below(I, a) \in SUBSET Below(I, b) /\ b \in Below(I, b) /\ b \notin Below(I, a)
        BY <2>a, Zenon DEF Below
    <2>2. /\ Rank(I, a) <= Rank(I, b)
          /\ Rank(I, b) = Rank(I, a) => Below(I, b) = Below(I, a)
        BY <1>1, <2>1, FS_Subset DEF Rank
    <2>3. Below(I, b) # Below(I, a)
        BY <2>1
    <2> QED
        BY <1>1, <2>2, <2>3
<1>4. Rank(I, i) \in 1 .. Cardinality(I)
    BY <1>1, <1>2
<1>5. i < j \/ j < i \/ i = j
    OBVIOUS
<1>6. i < j => Rank(I, i) < Rank(I, j)
    BY <1>3
<1>7. j < i => Rank(I, j) < Rank(I, i)
    BY <1>3
<1>8. Rank(I, i) \in Nat /\ Rank(I, j) \in Nat
    BY <1>1
<1> QED
    BY <1>4, <1>5, <1>6, <1>7, <1>8

(* There is one place of each number.                                       *)
LEMMA Rank_Onto ==
    ASSUME NEW I, I \subseteq Int, IsFiniteSet(I), NEW k \in 1 .. Cardinality(I)
    PROVE  \E i \in I : Rank(I, i) = k
<1> DEFINE f == [i \in I |-> Rank(I, i)]
           T == 1 .. Cardinality(I)
<1>1. Cardinality(I) \in Nat
    BY FS_CardinalityType
<1>2. IsFiniteSet(T) /\ Cardinality(T) = Cardinality(I)
    BY <1>1, FS_Interval
<1>3. f \in Injection(I, T)
    <2>1. f \in [I -> T]
        BY Rank_Rises
    <2>2. \A a, b \in I : f[a] = f[b] => a = b
        BY Rank_Rises
    <2> QED
        BY <2>1, <2>2 DEF Injection, IsInjective
<1>4. f \in Surjection(I, T)
    BY <1>2, <1>3, FS_Injection
<1>5. \E i \in I : f[i] = k
    BY <1>4 DEF Surjection
<1> QED
    BY <1>5

(* A rising function onto a set of n numbers gives each its rank, so there  *)
(* is one such function.                                                    *)
LEMMA Rising_Rank ==
    ASSUME NEW n \in Nat, NEW A, A \subseteq Int, NEW f, Enumerates(f, n, A)
    PROVE  /\ IsFiniteSet(A) /\ Cardinality(A) = n
           /\ \A k \in 1 .. n : f[k] \in A /\ Rank(A, f[k]) = k
<1> USE DEF Enumerates
<1>0. \A k \in 1 .. n : f[k] \in A /\ f[k] \in Int
    OBVIOUS
<1>1. \A j, k \in 1 .. n : f[j] = f[k] => j = k
    <2> SUFFICES ASSUME NEW j \in 1 .. n, NEW k \in 1 .. n, f[j] = f[k], j # k
                 PROVE  FALSE
        OBVIOUS
    <2>1. f[j] \in Int /\ f[k] \in Int
        OBVIOUS
    <2>2. j < k \/ k < j
        OBVIOUS
    <2> QED
        BY <2>1, <2>2 DEF Rising
<1>2. f \in Bijection(1 .. n, A)
    BY <1>1 DEF Bijection, Injection, Surjection, IsInjective
<1>3. IsFiniteSet(1 .. n) /\ Cardinality(1 .. n) = n
    BY FS_Interval
<1>4. IsFiniteSet(A) /\ Cardinality(A) = n
    BY <1>2, <1>3, FS_Bijection DEF ExistsBijection
<1>5. ASSUME NEW k \in 1 .. n
      PROVE  Rank(A, f[k]) = k
    <2> DEFINE g == [j \in 1 .. k |-> f[j]]
    <2>1. g \in [1 .. k -> Below(A, f[k])]
        <3> SUFFICES ASSUME NEW j \in 1 .. k PROVE f[j] \in A /\ f[j] <= f[k]
            BY DEF Below
        <3>0. j \in 1 .. n
            OBVIOUS
        <3>1. j \in 1 .. n /\ f[j] \in A /\ f[j] \in Int /\ f[k] \in Int
            BY <1>0, <3>0
        <3>2. CASE j = k
            BY <3>1, <3>2
        <3>3. CASE j < k
            BY <3>1, <3>3 DEF Rising
        <3> QED
            BY <3>1, <3>2, <3>3
    <2>2. \A a, b \in 1 .. k : g[a] = g[b] => a = b
        BY <1>1
    <2>3. \A a \in Below(A, f[k]) : \E j \in 1 .. k : g[j] = a
        <3> SUFFICES ASSUME NEW a \in A, a <= f[k] PROVE \E j \in 1 .. k : g[j] = a
            BY DEF Below
        <3>1. PICK j \in 1 .. n : f[j] = a
            OBVIOUS
        <3>2. f[j] \in Int /\ f[k] \in Int
            OBVIOUS
        <3>3. ~(k < j)
            BY <3>1, <3>2 DEF Rising
        <3> QED
            BY <3>1, <3>3
    <2>4. g \in Bijection(1 .. k, Below(A, f[k]))
        BY <2>1, <2>2, <2>3 DEF Bijection, Injection, Surjection, IsInjective
    <2> QED
        BY <2>4, FS_CountingElements DEF ExistsBijection, Rank
<1> QED
    BY <1>0, <1>4, <1>5

(* Pick takes the nodes at the places of I, in rising order.                *)
LEMMA Pick_Places ==
    ASSUME NEW S, NEW s \in Seq(S), NEW I, I \subseteq DOMAIN s
    PROVE  /\ IsFiniteSet(I) /\ Cardinality(I) \in Nat /\ I \subseteq Int
           /\ \E r \in [1 .. Cardinality(I) -> I] :
                 /\ Enumerates(r, Cardinality(I), I)
                 /\ Pick(s, I) = [k \in 1 .. Cardinality(I) |-> s[r[k]]]
<1> DEFINE n == Cardinality(I)
           r == [k \in 1 .. n |-> CHOOSE i \in I : Rank(I, i) = k]
<1>1. I \in SUBSET (1 .. Len(s)) /\ Len(s) \in Nat /\ I \subseteq Int
    OBVIOUS
<1>2. IsFiniteSet(I)
    BY <1>1, FS_Interval, FS_Subset
<1>3. n \in Nat
    BY <1>2, FS_CardinalityType
<1>4. \A k \in 1 .. n : r[k] \in I /\ Rank(I, r[k]) = k
    BY <1>1, <1>2, Rank_Onto
<1>5. r \in [1 .. n -> I]
    BY <1>4
<1>6. Rising(r, n)
    <2> SUFFICES ASSUME NEW j \in 1 .. n, NEW k \in 1 .. n, j < k PROVE r[j] < r[k]
        BY DEF Rising
    <2>1. Rank(I, r[j]) < Rank(I, r[k])
        BY <1>4
    <2> QED
        BY <1>1, <1>2, <1>4, <2>1, Rank_Rises
<1>7. \A i \in I : \E k \in 1 .. n : r[k] = i
    <2> SUFFICES ASSUME NEW i \in I PROVE \E k \in 1 .. n : r[k] = i
        OBVIOUS
    <2>1. Rank(I, i) \in 1 .. n
        BY <1>1, <1>2, Rank_Rises
    <2>2. r[Rank(I, i)] \in I /\ Rank(I, r[Rank(I, i)]) = Rank(I, i)
        BY <1>4, <2>1
    <2>3. r[Rank(I, i)] = i
        BY <1>1, <1>2, <2>2, Rank_Rises
    <2> QED
        BY <2>1, <2>3
<1>8. Pick(s, I) = [k \in 1 .. n |-> s[r[k]]]
    BY DEF Pick, Rank, Below
<1> QED
    BY <1>1, <1>2, <1>3, <1>5, <1>6, <1>7, <1>8 DEF Enumerates

(* What Pick makes of a list: its type, its length and what is in it.       *)
LEMMA Pick_Facts ==
    ASSUME NEW S, NEW s \in Seq(S), NEW I, I \subseteq DOMAIN s
    PROVE  /\ Pick(s, I) \in Seq(S)
           /\ Len(Pick(s, I)) <= Len(s)
           /\ \A k \in 1 .. Len(Pick(s, I)) : \E i \in I : Pick(s, I)[k] = s[i]
           /\ \A i \in I : \E k \in 1 .. Len(Pick(s, I)) : Pick(s, I)[k] = s[i]
           /\ \A j, k \in 1 .. Len(Pick(s, I)) : j < k =>
                 \E a, b \in I : a < b /\ Pick(s, I)[j] = s[a] /\ Pick(s, I)[k] = s[b]
<1> DEFINE n == Cardinality(I)
           p == Pick(s, I)
<1>1. n \in Nat
    BY Pick_Places
<1>2. PICK r \in [1 .. n -> I] :
          /\ \A i \in I : \E k \in 1 .. n : r[k] = i
          /\ \A j, k \in 1 .. n : j < k => r[j] < r[k]
          /\ p = [k \in 1 .. n |-> s[r[k]]]
    <2>1. \E r \in [1 .. n -> I] : Enumerates(r, n, I) /\ p = [k \in 1 .. n |-> s[r[k]]]
        BY Pick_Places
    <2> HIDE DEF n, p
    <2> QED
        BY ONLY <2>1 DEF Enumerates, Rising
<1>3. \A k \in 1 .. n : s[r[k]] \in S
    OBVIOUS
<1>4. p \in Seq(S) /\ Len(p) = n
    BY <1>1, <1>2, <1>3
<1>5. n <= Len(s)
    <2>1. I \in SUBSET (1 .. Len(s)) /\ Len(s) \in Nat
        OBVIOUS
    <2> DEFINE L == Len(s)
    <2>3. L \in Int /\ 1 \in Int /\ L - 1 + 1 = L /\ (1 > L <=> L = 0)
        BY <2>1
    <2> HIDE DEF L
    <2>2. IsFiniteSet(1 .. L) /\ Cardinality(1 .. L) = L
        BY ONLY <2>3, FS_Interval
    <2> QED
        BY <2>1, <2>2, FS_Subset DEF L
<1>6. \A k \in 1 .. n : r[k] \in I /\ p[k] = s[r[k]]
    BY <1>2
<1>7. \A i \in I : \E k \in 1 .. n : p[k] = s[i]
    BY <1>2
<1>8. \A j, k \in 1 .. n : j < k => \E a, b \in I : a < b /\ p[j] = s[a] /\ p[k] = s[b]
    BY <1>2, <1>6
<1> HIDE DEF n, p
<1> QED
    BY <1>4, <1>5, <1>6, <1>7, <1>8 DEF p

(* A list without repetitions stays one.                                    *)
LEMMA Pick_Injective ==
    ASSUME NEW S, NEW s \in Seq(S), NEW I, I \subseteq DOMAIN s, IsInjective(s)
    PROVE  IsInjective(Pick(s, I))
<1> DEFINE p == Pick(s, I)
<1>1. p \in Seq(S)
    BY Pick_Facts
<1> SUFFICES ASSUME NEW j \in 1 .. Len(p), NEW k \in 1 .. Len(p), p[j] = p[k], j # k
             PROVE  FALSE
    BY <1>1 DEF IsInjective
<1>2. \A x, y \in 1 .. Len(p) : x < y => p[x] # p[y]
    <2> SUFFICES ASSUME NEW x \in 1 .. Len(p), NEW y \in 1 .. Len(p), x < y, p[x] = p[y]
                 PROVE  FALSE
        OBVIOUS
    <2>1. PICK a \in I, b \in I : a < b /\ p[x] = s[a] /\ p[y] = s[b]
        BY Pick_Facts
    <2>2. a \in DOMAIN s /\ b \in DOMAIN s /\ a \in Int /\ b \in Int
        OBVIOUS
    <2>3. a = b
        BY <2>1, <2>2 DEF IsInjective
    <2> QED
        BY <2>1, <2>2, <2>3
<1>3. j < k \/ k < j
    BY <1>1
<1> QED
    BY <1>2, <1>3

-----------------------------------------------------------------------------
(* WATCH (Watch).  The lists and the hash table agree, headers come and go   *)
(* with their watchers, and a watcher knows who is on.  That a watcher is    *)
(* told when a nick is left rests on what the rest of the program guarantees *)
(* of its hash table of clients: no two clients have one nick, and a person  *)
(* has one.                                                                  *)

WatchType ==
    /\ name \in [Watcher -> Nickname \cup {NoName}] /\ IsPerson \in [Watcher -> BOOLEAN]
    /\ watch \in [Watcher -> SUBSET Nickname] /\ watchTable \in [Nickname -> SUBSET Watcher]
    /\ headers \subseteq Nickname
    /\ told \in [Watcher -> [Nickname -> BOOLEAN]]

NamesUnique == \A c, d \in Watcher : name[c] = name[d] /\ name[c] # NoName => c = d
PersonsNamed == \A c \in Watcher : IsPerson[c] => name[c] \in Nickname
ListsFinite == \A c \in Watcher : IsFiniteSet(watch[c])

(* WatchersInformed, of truth values.                                       *)
Informed == \A c \in Watcher : \A n \in watch[c] : told[c][n] <=> Online(n)

WatchInv ==
    /\ WatchType /\ NamesUnique /\ PersonsNamed /\ ListsFinite
    /\ SameLists /\ HeadersNeeded /\ ListsOwned /\ Informed

LEMMA Informed_Watchers ==
    ASSUME WatchType, Informed
    PROVE  WatchersInformed
<1> SUFFICES ASSUME NEW c \in Watcher, NEW n \in watch[c]
             PROVE  told[c][n] = Online(n)
    BY DEF WatchersInformed
<1>1. told[c][n] \in BOOLEAN
    BY DEF WatchType
<1>2. Online(n) \in BOOLEAN
    BY DEF Online
<1>3. told[c][n] <=> Online(n)
    BY DEF Informed
<1> QED
    BY <1>1, <1>2, <1>3

(* What Tell makes of told (hash_check_watch): only those that watch a nick *)
(* hear of it.                                                              *)
LEMMA Tell_Value ==
    ASSUME NEW table, NEW off, NEW on, NEW c \in Watcher, NEW n \in Nickname, c \in table[n]
    PROVE  Tell(table, off, on)[c][n] <=> n \in on \/ (n \notin off /\ told[c][n])
<1>1. Tell(table, off, on)[c][n] = (n \in on \/ (n \notin off /\ told[c][n]))
    BY DEF Tell
<1> QED
    BY <1>1, Zenon

LEMMA Tell_Type ==
    ASSUME WatchType, NEW table, NEW off, NEW on
    PROVE  Tell(table, off, on) \in [Watcher -> [Nickname -> BOOLEAN]]
<1> DEFINE V(c, n) == IF c \notin table[n] THEN told[c][n]
                      ELSE n \in on \/ (n \notin off /\ told[c][n])
<1>1. \A c \in Watcher, n \in Nickname : V(c, n) \in BOOLEAN
    BY DEF WatchType
<1>2. Tell(table, off, on) = [c \in Watcher |-> [n \in Nickname |-> V(c, n)]]
    BY DEF Tell
<1> QED
    BY <1>1, <1>2

(* hash_del_watch_list takes c out of the table and its empty headers with  *)
(* it; the other lists stay.                                                *)
LEMMA Del_Watch_List ==
    ASSUME WatchInv, NEW c \in Watcher, hash_del_watch_list(c)
    PROVE  /\ watch' \in [Watcher -> SUBSET Nickname]
           /\ watchTable' \in [Nickname -> SUBSET Watcher]
           /\ headers' \subseteq Nickname
           /\ watch'[c] = {}
           /\ \A d \in Watcher : d # c => watch'[d] = watch[d]
           /\ \A n \in Nickname : watchTable'[n] = watchTable[n] \ {c}
           /\ ListsFinite' /\ SameLists' /\ HeadersNeeded'
<1> USE DEF WatchInv, WatchType
<1>1. /\ watch' = [watch EXCEPT ![c] = {}]
      /\ watchTable' = [n \in Nickname |-> watchTable[n] \ {c}]
      /\ headers' = {n \in headers : watchTable[n] # {c}}
    BY DEF hash_del_watch_list, Unwatched
<1>2. /\ watch'[c] = {} /\ \A d \in Watcher : d # c => watch'[d] = watch[d]
      /\ watch' \in [Watcher -> SUBSET Nickname]
    BY <1>1
<1>3. /\ watchTable' \in [Nickname -> SUBSET Watcher]
      /\ \A n \in Nickname : watchTable'[n] = watchTable[n] \ {c}
    BY <1>1
<1>4. ListsFinite'
    BY <1>2, FS_EmptySet DEF ListsFinite
<1>5. SameLists'
    BY <1>2, <1>3 DEF SameLists
<1>6. HeadersNeeded'
    <2>1. \A n \in Nickname : n \in headers' <=> watchTable'[n] # {}
        BY <1>1, <1>3 DEF HeadersNeeded
    <2> QED
        BY <2>1, <1>1 DEF HeadersNeeded
<1> QED
    BY <1>1, <1>2, <1>3, <1>4, <1>5, <1>6

-----------------------------------------------------------------------------
LEMMA Init_Watch == WInit => WatchInv
<1> SUFFICES ASSUME WInit PROVE WatchInv
    OBVIOUS
<1> USE WatchAssumption DEF WInit
<1>1. WatchType
    BY DEF WatchType
<1>2. NamesUnique /\ PersonsNamed
    BY DEF NamesUnique, PersonsNamed
<1>3. \A c \in Watcher : watch[c] = {}
    OBVIOUS
<1>4. ListsFinite
    BY <1>3, FS_EmptySet DEF ListsFinite
<1>5. SameLists /\ HeadersNeeded /\ Informed
    BY DEF SameLists, HeadersNeeded, Informed
<1>6. ListsOwned
    BY <1>3, FS_EmptySet DEF ListsOwned
<1> QED
    BY <1>1, <1>2, <1>4, <1>5, <1>6 DEF WatchInv

(* What does not touch the lists keeps all that is said of them alone.      *)
LEMMA Lists_Unchanged ==
    ASSUME WatchInv, UNCHANGED <<watch, watchTable, headers>>
    PROVE  ListsFinite' /\ SameLists' /\ HeadersNeeded'
BY DEF WatchInv, ListsFinite, SameLists, HeadersNeeded

LEMMA TakeNick_Watch ==
    ASSUME WatchInv, NEW c \in Watcher, NEW n \in Nickname, TakeNick(c, n)
    PROVE  WatchInv'
<1> USE WatchAssumption DEF WatchInv, TakeNick
<1>1. WatchType'
    BY DEF WatchType
<1>2. NamesUnique' /\ PersonsNamed'
    BY DEF NamesUnique, PersonsNamed, WatchType, Free
<1>3. ListsFinite' /\ SameLists' /\ HeadersNeeded'
    BY Lists_Unchanged
<1>4. ListsOwned'
    BY DEF ListsOwned
<1>5. \A m \in Nickname : Online(m)' <=> Online(m)
    BY DEF Online, WatchType
<1>6. Informed'
    BY <1>5 DEF Informed, WatchType
<1> QED
    BY <1>1, <1>2, <1>3, <1>4, <1>6

LEMMA Enter_Watch ==
    ASSUME WatchInv, NEW c \in Watcher, NEW n \in Nickname, Enter(c, n)
    PROVE  WatchInv'
<1> USE WatchAssumption DEF WatchInv
<1>0. /\ ~IsPerson[c]
      /\ IF c \in MyClients THEN name[c] = n ELSE Free(n)
      /\ name' = [name EXCEPT ![c] = n] /\ IsPerson' = [IsPerson EXCEPT ![c] = TRUE]
      /\ told' = Tell(watchTable, {}, {n})
      /\ UNCHANGED <<watch, watchTable, headers>>
    BY DEF Enter
<1>1. WatchType'
    BY <1>0, Tell_Type DEF WatchType
<1>2. NamesUnique' /\ PersonsNamed'
    BY <1>0 DEF NamesUnique, PersonsNamed, WatchType, Free
<1>3. ListsFinite' /\ SameLists' /\ HeadersNeeded'
    BY <1>0, Lists_Unchanged
<1>4. ListsOwned'
    BY <1>0 DEF ListsOwned, WatchType
<1>5. \A m \in Nickname : Online(m)' <=> m = n \/ Online(m)
    BY <1>0 DEF Online, WatchType
<1>6. Informed'
    <2> SUFFICES ASSUME NEW d \in Watcher, NEW m \in watch[d]
                 PROVE  told'[d][m] <=> Online(m)'
        BY <1>0 DEF Informed
    <2>1. m \in Nickname /\ d \in watchTable[m] /\ (told[d][m] <=> Online(m))
        BY DEF WatchType, SameLists, Informed
    <2>2. told'[d][m] <=> (m \in {n} \/ (m \notin {} /\ told[d][m]))
        BY <1>0, <2>1, Tell_Value
    <2> QED
        BY <2>1, <2>2, <1>5
<1> QED
    BY <1>1, <1>2, <1>3, <1>4, <1>6

LEMMA Change_Watch ==
    ASSUME WatchInv, NEW c \in Watcher, NEW n \in Nickname, Change(c, n)
    PROVE  WatchInv'
<1> USE WatchAssumption DEF WatchInv
<1>0. /\ IsPerson[c] /\ Free(n)
      /\ name' = [name EXCEPT ![c] = n] /\ told' = Tell(watchTable, {name[c]}, {n})
      /\ UNCHANGED <<IsPerson, watch, watchTable, headers>>
    BY DEF Change, Renamed
<1>1. WatchType'
    BY <1>0, Tell_Type DEF WatchType
<1>2. NamesUnique' /\ PersonsNamed'
    BY <1>0 DEF NamesUnique, PersonsNamed, WatchType, Free
<1>3. ListsFinite' /\ SameLists' /\ HeadersNeeded'
    BY <1>0, Lists_Unchanged
<1>4. ListsOwned'
    BY <1>0 DEF ListsOwned
<1>5. name[c] \in Nickname /\ name[c] # n /\ name[c] # NoName
    BY <1>0 DEF PersonsNamed, Free
<1>6. \A m \in Nickname : Online(m)' <=> m = n \/ (m # name[c] /\ Online(m))
    BY <1>0, <1>5 DEF Online, WatchType, NamesUnique
<1>7. Informed'
    <2> SUFFICES ASSUME NEW d \in Watcher, NEW m \in watch[d]
                 PROVE  told'[d][m] <=> Online(m)'
        BY <1>0 DEF Informed
    <2>1. m \in Nickname /\ d \in watchTable[m] /\ (told[d][m] <=> Online(m))
        BY DEF WatchType, SameLists, Informed
    <2>2. told'[d][m] <=> (m \in {n} \/ (m \notin {name[c]} /\ told[d][m]))
        BY <1>0, <2>1, Tell_Value
    <2> QED
        BY <2>1, <2>2, <1>6
<1> QED
    BY <1>1, <1>2, <1>3, <1>4, <1>7

LEMMA ExitOne_Watch ==
    ASSUME WatchInv, NEW c \in Watcher, ExitOne(c)
    PROVE  WatchInv'
<1> USE WatchAssumption DEF WatchInv
<1>0. /\ name[c] # NoName
      /\ IF c \in MyClients /\ IsPerson[c] THEN hash_del_watch_list(c)
         ELSE UNCHANGED <<watch, watchTable, headers>>
      /\ name' = [name EXCEPT ![c] = NoName] /\ IsPerson' = [IsPerson EXCEPT ![c] = FALSE]
      /\ told' = IF IsPerson[c] THEN Tell(watchTable', {name[c]}, {}) ELSE told
    BY DEF ExitOne
<1>1. name' \in [Watcher -> Nickname \cup {NoName}] /\ IsPerson' \in [Watcher -> BOOLEAN]
    BY <1>0 DEF WatchType
<1>2. told' \in [Watcher -> [Nickname -> BOOLEAN]]
    BY <1>0, Tell_Type DEF WatchType
<1>3. /\ watch' \in [Watcher -> SUBSET Nickname] /\ watchTable' \in [Nickname -> SUBSET Watcher]
      /\ headers' \subseteq Nickname
      /\ ListsFinite' /\ SameLists' /\ HeadersNeeded'
      /\ watch'[c] = {} /\ \A d \in Watcher : d # c => watch'[d] = watch[d]
    <2>1. CASE c \in MyClients /\ IsPerson[c]
        BY <2>1, <1>0, Del_Watch_List
    <2>2. CASE ~(c \in MyClients /\ IsPerson[c])
        BY <2>2, <1>0, Lists_Unchanged DEF WatchType, ListsOwned
    <2> QED
        BY <2>1, <2>2
<1>4. NamesUnique' /\ PersonsNamed'
    BY <1>0 DEF NamesUnique, PersonsNamed, WatchType
<1>5. ListsOwned'
    <2>1. Cardinality(watch'[c]) = 0
        BY <1>3, FS_EmptySet
    <2> SUFFICES ASSUME NEW d \in Watcher
                 PROVE  /\ watch'[d] # {} => d \in MyClients /\ IsPerson'[d]
                        /\ Cardinality(watch'[d]) <= MAXWATCH
        BY DEF ListsOwned
    <2>2. CASE d = c
        BY <2>1, <2>2, <1>0, <1>3
    <2>3. CASE d # c
        BY <2>3, <1>0, <1>3 DEF ListsOwned, WatchType
    <2> QED
        BY <2>2, <2>3
<1>6. \A m \in Nickname : Online(m)' <=> Online(m) /\ (IsPerson[c] => m # name[c])
    BY <1>0 DEF Online, WatchType, NamesUnique, PersonsNamed
<1>7. Informed'
    <2> SUFFICES ASSUME NEW d \in Watcher, NEW m \in watch'[d]
                 PROVE  told'[d][m] <=> Online(m)'
        BY DEF Informed
    <2>1. d # c /\ m \in watch[d] /\ m \in Nickname /\ d \in watchTable'[m]
        BY <1>3 DEF SameLists, WatchType
    <2>2. (told[d][m] <=> Online(m))
        BY <2>1 DEF Informed
    <2>3. IsPerson[c] => told'[d][m] <=> (m \in {} \/ (m \notin {name[c]} /\ told[d][m]))
        BY <1>0, <2>1, Tell_Value
    <2> QED
        BY <1>0, <1>6, <2>1, <2>2, <2>3
<1> QED
    BY <1>1, <1>2, <1>3, <1>4, <1>5, <1>7 DEF WatchType

-----------------------------------------------------------------------------
LEMMA AddWatch_Watch ==
    ASSUME WatchInv, NEW c \in Watcher, NEW n \in Nickname, AddWatch(c, n)
    PROVE  WatchInv'
<1> USE WatchAssumption DEF WatchInv
<1>0. /\ c \in MyClients /\ IsPerson[c] /\ Cardinality(watch[c]) < MAXWATCH
      /\ watchTable' = [watchTable EXCEPT ![n] = @ \cup {c}]
      /\ watch' = [watch EXCEPT ![c] = @ \cup {n}] /\ headers' = headers \cup {n}
      /\ told' = [told EXCEPT ![c][n] = Online(n)]
      /\ UNCHANGED <<name, IsPerson>>
    BY DEF AddWatch, MayWatch, add_to_watch_hash_table, show_watch
<1>1. WatchType'
    BY <1>0 DEF WatchType, Online
<1>2. NamesUnique' /\ PersonsNamed'
    BY <1>0 DEF NamesUnique, PersonsNamed
<1>3. /\ watch'[c] = watch[c] \cup {n}
      /\ \A d \in Watcher : d # c => watch'[d] = watch[d]
    BY <1>0 DEF WatchType
<1>4. /\ IsFiniteSet(watch'[c]) /\ Cardinality(watch'[c]) <= MAXWATCH
    <2>1. IsFiniteSet(watch[c])
        BY DEF ListsFinite
    <2>2. /\ IsFiniteSet(watch[c] \cup {n}) /\ Cardinality(watch[c]) \in Nat
          /\ Cardinality(watch[c] \cup {n}) \in {Cardinality(watch[c]), Cardinality(watch[c]) + 1}
        BY <2>1, FS_AddElement, FS_CardinalityType
    <2>3. /\ Cardinality(watch[c]) + 1 <= MAXWATCH
          /\ Cardinality(watch[c] \cup {n}) <= Cardinality(watch[c]) + 1
        BY <1>0, <2>2
    <2> QED
        BY <1>3, <2>2, <2>3
<1>5. ListsFinite'
    BY <1>3, <1>4 DEF ListsFinite
<1>6. SameLists' /\ HeadersNeeded'
    BY <1>0 DEF SameLists, HeadersNeeded, WatchType
<1>7. ListsOwned'
    BY <1>0, <1>3, <1>4 DEF ListsOwned
<1>8. \A m \in Nickname : Online(m)' <=> Online(m)
    BY <1>0 DEF Online
<1>9. Informed'
    <2> SUFFICES ASSUME NEW d \in Watcher, NEW m \in watch'[d]
                 PROVE  told'[d][m] <=> Online(m)'
        BY DEF Informed
    <2>1. m \in Nickname
        BY <1>1 DEF WatchType
    <2>2. CASE d = c /\ m = n
        BY <2>2, <1>0, <1>8 DEF WatchType, Online
    <2>3. CASE ~(d = c /\ m = n)
        <3>1. told'[d][m] = told[d][m] /\ m \in watch[d]
            BY <2>3, <2>1, <1>0, <1>3 DEF WatchType
        <3> QED
            BY <3>1, <2>1, <1>8 DEF Informed
    <2> QED
        BY <2>2, <2>3
<1> QED
    BY <1>1, <1>2, <1>5, <1>6, <1>7, <1>9

LEMMA DelWatch_Watch ==
    ASSUME WatchInv, NEW c \in Watcher, NEW n \in Nickname, DelWatch(c, n)
    PROVE  WatchInv'
<1> USE WatchAssumption DEF WatchInv
<1>0. /\ c \in MyClients /\ IsPerson[c]
      /\ told' = [told EXCEPT ![c][n] = Online(n)]
      /\ UNCHANGED <<name, IsPerson>>
    BY DEF DelWatch, show_watch
<1>1. /\ watch' \in [Watcher -> SUBSET Nickname] /\ watchTable' \in [Nickname -> SUBSET Watcher]
      /\ headers' \subseteq Nickname
      /\ watch'[c] = watch[c] \ {n}
      /\ \A d \in Watcher : d # c => watch'[d] = watch[d]
      /\ SameLists' /\ HeadersNeeded'
    <2>1. CASE c \notin watchTable[n]
        BY <2>1, Lists_Unchanged
        DEF DelWatch, del_from_watch_hash_table, WatchType, SameLists
    <2>2. CASE c \in watchTable[n]
        <3>1. /\ watchTable' = [watchTable EXCEPT ![n] = @ \ {c}]
              /\ watch' = [watch EXCEPT ![c] = @ \ {n}]
              /\ headers' = IF watchTable[n] = {c} THEN headers \ {n} ELSE headers
            BY <2>2 DEF DelWatch, del_from_watch_hash_table
        <3>2. SameLists'
            BY <3>1 DEF SameLists, WatchType
        <3>3. HeadersNeeded'
            <4>1. \A m \in Nickname : m \in headers' <=> watchTable'[m] # {}
                BY <3>1, <2>2 DEF HeadersNeeded, WatchType
            <4> QED
                BY <4>1, <3>1 DEF HeadersNeeded
        <3> QED
            BY <3>1, <3>2, <3>3 DEF WatchType
    <2> QED
        BY <2>1, <2>2
<1>2. WatchType'
    BY <1>0, <1>1 DEF WatchType, Online
<1>3. NamesUnique' /\ PersonsNamed'
    BY <1>0 DEF NamesUnique, PersonsNamed
<1>4. IsFiniteSet(watch'[c]) /\ Cardinality(watch'[c]) <= MAXWATCH
    <2>1. IsFiniteSet(watch[c]) /\ Cardinality(watch[c]) <= MAXWATCH
        BY DEF ListsFinite, ListsOwned
    <2>2. /\ IsFiniteSet(watch'[c]) /\ Cardinality(watch'[c]) \in Nat /\ Cardinality(watch[c]) \in Nat
          /\ Cardinality(watch'[c]) <= Cardinality(watch[c])
        BY <2>1, <1>1, FS_Subset, FS_CardinalityType
    <2> QED
        BY <2>1, <2>2
<1>5. ListsFinite'
    BY <1>1, <1>4 DEF ListsFinite
<1>6. ListsOwned'
    BY <1>0, <1>1, <1>4 DEF ListsOwned
<1>7. \A m \in Nickname : Online(m)' <=> Online(m)
    BY <1>0 DEF Online
<1>8. Informed'
    <2> SUFFICES ASSUME NEW d \in Watcher, NEW m \in watch'[d]
                 PROVE  told'[d][m] <=> Online(m)'
        BY DEF Informed
    <2>1. m \in Nickname /\ m \in watch[d] /\ ~(d = c /\ m = n)
        BY <1>1
    <2>2. told'[d][m] = told[d][m]
        BY <2>1, <1>0 DEF WatchType
    <2> QED
        BY <2>1, <2>2, <1>7 DEF Informed
<1> QED
    BY <1>1, <1>2, <1>3, <1>5, <1>6, <1>8

LEMMA ClearWatch_Watch ==
    ASSUME WatchInv, NEW c \in Watcher, ClearWatch(c)
    PROVE  WatchInv'
<1> USE WatchAssumption DEF WatchInv
<1>0. hash_del_watch_list(c) /\ UNCHANGED <<name, IsPerson, told>>
    BY DEF ClearWatch
<1>1. /\ watch' \in [Watcher -> SUBSET Nickname] /\ watchTable' \in [Nickname -> SUBSET Watcher]
      /\ headers' \subseteq Nickname
      /\ ListsFinite' /\ SameLists' /\ HeadersNeeded'
      /\ watch'[c] = {} /\ \A d \in Watcher : d # c => watch'[d] = watch[d]
    BY <1>0, Del_Watch_List
<1>2. WatchType'
    BY <1>0, <1>1 DEF WatchType
<1>3. NamesUnique' /\ PersonsNamed'
    BY <1>0 DEF NamesUnique, PersonsNamed
<1>4. ListsOwned'
    <2>1. Cardinality(watch'[c]) = 0
        BY <1>1, FS_EmptySet
    <2> SUFFICES ASSUME NEW d \in Watcher
                 PROVE  /\ watch'[d] # {} => d \in MyClients /\ IsPerson'[d]
                        /\ Cardinality(watch'[d]) <= MAXWATCH
        BY DEF ListsOwned
    <2>2. CASE d = c
        BY <2>1, <2>2, <1>0, <1>1
    <2>3. CASE d # c
        BY <2>3, <1>0, <1>1 DEF ListsOwned, WatchType
    <2> QED
        BY <2>2, <2>3
<1>5. Informed'
    BY <1>0, <1>1 DEF Informed, Online
<1> QED
    BY <1>1, <1>2, <1>3, <1>4, <1>5

-----------------------------------------------------------------------------
LEMMA Next_Watch == WatchInv /\ [WNext]_wvars => WatchInv'
<1> SUFFICES ASSUME WatchInv, [WNext]_wvars PROVE WatchInv'
    OBVIOUS
<1>1. CASE UNCHANGED wvars
    BY <1>1 DEF wvars, WatchInv, WatchType, NamesUnique, PersonsNamed, ListsFinite,
                SameLists, HeadersNeeded, ListsOwned, Informed, Online
<1>2. ASSUME NEW c \in Watcher, ExitOne(c) PROVE WatchInv'
    BY <1>2, ExitOne_Watch
<1>3. ASSUME NEW c \in Watcher, ClearWatch(c) PROVE WatchInv'
    BY <1>3, ClearWatch_Watch
<1>4. ASSUME NEW c \in Watcher, NEW n \in Nickname, TakeNick(c, n) PROVE WatchInv'
    BY <1>4, TakeNick_Watch
<1>5. ASSUME NEW c \in Watcher, NEW n \in Nickname, Enter(c, n) PROVE WatchInv'
    BY <1>5, Enter_Watch
<1>6. ASSUME NEW c \in Watcher, NEW n \in Nickname, Change(c, n) PROVE WatchInv'
    BY <1>6, Change_Watch
<1>7. ASSUME NEW c \in Watcher, NEW n \in Nickname, AddWatch(c, n) PROVE WatchInv'
    BY <1>7, AddWatch_Watch
<1>8. ASSUME NEW c \in Watcher, NEW n \in Nickname, DelWatch(c, n) PROVE WatchInv'
    BY <1>8, DelWatch_Watch
<1> QED
    BY <1>1, <1>2, <1>3, <1>4, <1>5, <1>6, <1>7, <1>8 DEF WNext

(* The lists of WATCH and the table say the same, a header stands as long   *)
(* as it is needed, no list is too long, and who watches a nick was last    *)
(* told how things are with it (add_to_watch_hash_table,                    *)
(* del_from_watch_hash_table, hash_del_watch_list, hash_check_watch).       *)
THEOREM Watch_Right == WSpec => []WatchRight
<1>1. WInit => WatchInv
    BY Init_Watch
<1>2. WatchInv /\ [WNext]_wvars => WatchInv'
    BY Next_Watch
<1>3. WatchInv => WatchRight
    BY Informed_Watchers DEF WatchInv, WatchRight
<1> QED
    BY <1>1, <1>2, <1>3, PTL DEF WSpec

-----------------------------------------------------------------------------
(* Channels (Room).  What is counted is there, both sides of a membership    *)
(* and of an invitation agree, and nobody is heard beyond the flood limit.   *)

Letters == Mode \cup new_cmodes

MemberType ==
    /\ channel \subseteq Channel /\ kept \subseteq Channel /\ odd \subseteq Channel
    /\ stealth \subseteq Guest
    /\ members \in [Channel -> SUBSET Guest] /\ chanop \in [Channel -> SUBSET Guest]
    /\ users \in [Channel -> Int] /\ iusers \in [Channel -> Int]
    /\ userchannel \in [Guest -> SUBSET Channel] /\ joined \in [Guest -> Int]
ModeType == mode \in [Channel -> SUBSET Letters]
BanType == banlist \in [Channel -> SUBSET Banmask] /\ num_bed \in [Channel -> Int]
InviteType == /\ invites \in [Channel -> SUBSET Guest]
              /\ invited \in [Guest -> Seq(Channel)]
TalkType == /\ CurrentTime \in Nat
            /\ nmsg \in [Channel -> [Guest -> Nat]] /\ lastmsg \in [Channel -> [Guest -> Nat]]
            /\ heard \in [Channel -> [Guest -> Seq(Nat)]]

(* The parts of Booked.                                                     *)
SidesAgree == \A c \in Channel, u \in Guest : u \in members[c] <=> c \in userchannel[u]
MembersCounted ==
    \A c \in Channel : /\ IsFiniteSet(members[c]) /\ users[c] = Cardinality(members[c])
                       /\ chanop[c] \subseteq members[c]
                       /\ c \in odd \/ iusers[c] = Cardinality(members[c] \cap stealth)
JoinsCounted ==
    \A u \in Guest : IsFiniteSet(userchannel[u]) /\ joined[u] = Cardinality(userchannel[u])
BansCounted ==
    \A c \in Channel : IsFiniteSet(banlist[c]) /\ num_bed[c] = Cardinality(banlist[c])
Existing ==
    \A c \in Channel :
        /\ c \notin channel => /\ members[c] = {} /\ banlist[c] = {}
                               /\ invites[c] = {} /\ mode[c] = {}
        /\ c \in channel => members[c] # {} \/ c \in kept
InvitesListed ==
    \A u \in Guest : /\ IsInjective(invited[u]) /\ Len(invited[u]) <= MaxChansPerUser
                     /\ \A c \in Channel : u \in invites[c] <=> Contains(invited[u], c)

(* Only our own clients are invited.                                        *)
InvitesOurs == \A c \in Channel : invites[c] \subseteq Local

Membership == SidesAgree /\ MembersCounted /\ JoinsCounted

(* One count goes up with one more member.                                  *)
LEMMA Count_Add ==
    ASSUME NEW S, IsFiniteSet(S), NEW x, x \notin S
    PROVE  IsFiniteSet(S \cup {x}) /\ Cardinality(S \cup {x}) = Cardinality(S) + 1
BY FS_AddElement

LEMMA Count_Remove ==
    ASSUME NEW S, IsFiniteSet(S), NEW x \in S
    PROVE  IsFiniteSet(S \ {x}) /\ Cardinality(S \ {x}) = Cardinality(S) - 1
BY FS_RemoveElement

LEMMA Add_User ==
    ASSUME MemberType, Membership, NEW u \in Guest, NEW c \in Channel, NEW new \in BOOLEAN,
           c \notin userchannel[u], add_user_to_channel(u, c, new), stealth' = stealth,
           odd' = odd
    PROVE  /\ MemberType' /\ Membership'
           /\ channel' = channel \cup {c} /\ kept' = kept \ {c}
           /\ members'[c] = members[c] \cup {u}
           /\ \A d \in Channel : d # c => members'[d] = members[d]
<1> USE DEF MemberType, Membership
<1>1. /\ channel' = channel \cup {c} /\ kept' = kept \ {c}
      /\ members' = [members EXCEPT ![c] = @ \cup {u}]
      /\ chanop' = [chanop EXCEPT ![c] = IF new THEN @ \cup {u} ELSE @]
      /\ users' = [users EXCEPT ![c] = @ + 1]
      /\ iusers' = [iusers EXCEPT ![c] = IF u \in stealth THEN @ + 1 ELSE @]
      /\ userchannel' = [userchannel EXCEPT ![u] = @ \cup {c}]
      /\ joined' = [joined EXCEPT ![u] = @ + 1]
    BY DEF add_user_to_channel
<1>2. /\ members' \in [Channel -> SUBSET Guest] /\ members'[c] = members[c] \cup {u}
      /\ \A d \in Channel : d # c => members'[d] = members[d]
    BY <1>1
<1>3. /\ chanop' \in [Channel -> SUBSET Guest] /\ chanop'[c] \subseteq chanop[c] \cup {u}
      /\ \A d \in Channel : d # c => chanop'[d] = chanop[d]
    BY <1>1
<1>4. /\ users' \in [Channel -> Int] /\ users'[c] = users[c] + 1
      /\ \A d \in Channel : d # c => users'[d] = users[d]
    BY <1>1
<1>5. /\ iusers' \in [Channel -> Int]
      /\ u \in stealth => iusers'[c] = iusers[c] + 1
      /\ u \notin stealth => iusers'[c] = iusers[c]
      /\ \A d \in Channel : d # c => iusers'[d] = iusers[d]
    BY <1>1
<1>6. /\ userchannel' \in [Guest -> SUBSET Channel]
      /\ userchannel'[u] = userchannel[u] \cup {c}
      /\ \A v \in Guest : v # u => userchannel'[v] = userchannel[v]
    BY <1>1
<1>7. /\ joined' \in [Guest -> Int] /\ joined'[u] = joined[u] + 1
      /\ \A v \in Guest : v # u => joined'[v] = joined[v]
    BY <1>1
<1>8. SidesAgree'
    BY <1>2, <1>6 DEF SidesAgree
<1>9. u \notin members[c]
    BY DEF SidesAgree
<1>10. ASSUME NEW d \in Channel
       PROVE  (/\ IsFiniteSet(members[d]) /\ users[d] = Cardinality(members[d])
               /\ chanop[d] \subseteq members[d]
               /\ d \in odd \/ iusers[d] = Cardinality(members[d] \cap stealth))'
    <2>0. /\ IsFiniteSet(members[d]) /\ users[d] = Cardinality(members[d])
          /\ chanop[d] \subseteq members[d]
          /\ d \in odd \/ iusers[d] = Cardinality(members[d] \cap stealth)
        BY DEF MembersCounted
    <2>1. CASE d # c
        BY <2>0, <2>1, <1>2, <1>3, <1>4, <1>5
    <2>2. CASE d = c
        <3>1. IsFiniteSet(members'[c]) /\ users'[c] = Cardinality(members'[c])
            BY <2>0, <2>2, <1>2, <1>4, <1>9, Count_Add
        <3>2. chanop'[c] \subseteq members'[c]
            BY <2>0, <2>2, <1>2, <1>3
        <3>3. IsFiniteSet(members[c] \cap stealth)
            BY <2>0, <2>2, FS_Subset
        <3>4. CASE u \in stealth
            <4>1. members'[c] \cap stealth' = (members[c] \cap stealth) \cup {u}
                BY <1>2, <3>4
            <4>2. Cardinality(members'[c] \cap stealth') = Cardinality(members[c] \cap stealth) + 1
                BY <4>1, <3>3, <1>9, Count_Add
            <4> QED
                BY <4>2, <3>1, <3>2, <2>0, <2>2, <1>5, <3>4
        <3>5. CASE u \notin stealth
            <4>1. members'[c] \cap stealth' = members[c] \cap stealth
                BY <1>2, <3>5
            <4> QED
                BY <4>1, <3>1, <3>2, <2>0, <2>2, <1>5, <3>5
        <3> QED
            BY <3>4, <3>5
    <2> QED
        BY <2>1, <2>2
<1>11. MembersCounted'
    BY <1>10 DEF MembersCounted
<1>12. JoinsCounted'
    <2> SUFFICES ASSUME NEW v \in Guest
                 PROVE  /\ IsFiniteSet(userchannel'[v])
                        /\ joined'[v] = Cardinality(userchannel'[v])
        BY DEF JoinsCounted
    <2>0. IsFiniteSet(userchannel[v]) /\ joined[v] = Cardinality(userchannel[v])
        BY DEF JoinsCounted
    <2>1. CASE v # u
        BY <2>0, <2>1, <1>6, <1>7
    <2>2. CASE v = u
        BY <2>0, <2>2, <1>6, <1>7, Count_Add
    <2> QED
        BY <2>1, <2>2
<1> QED
    BY <1>1, <1>2, <1>3, <1>4, <1>5, <1>6, <1>7, <1>8, <1>11, <1>12

(* remove_user_from_channel for one client u and channels C that it is in.  *)
LEMMA Remove_User ==
    ASSUME MemberType, Membership, NEW u \in Guest, NEW C, C \subseteq userchannel[u], NEW U,
           remove_user({u} \X C, U),
           stealth' = stealth \/ (stealth' = stealth \ {u} /\ C = userchannel[u])
    PROVE  /\ MemberType' /\ Membership'
           /\ \E gone \in SUBSET C :
                 /\ gone = Freed({u} \X C)
                 /\ channel' = channel \ gone /\ odd' = odd \ gone
                 /\ \A c \in gone : members'[c] = {}
                 /\ \A c \in Channel : c \notin C => members'[c] = members[c]
                 /\ \A c \in C : members'[c] = members[c] \ {u}
                 /\ kept \subseteq kept'
                 /\ \A c \in C \cap channel :
                       c \notin gone /\ members'[c] = {} => c \in kept'
<1> USE DEF MemberType, Membership
<1> DEFINE pairs == {u} \X C
           gone == Freed(pairs)
           out(c) == {v \in members[c] : <<v, c>> \in pairs}
<1>0. C \subseteq Channel /\ \A c \in C : u \in members[c]
    BY DEF SidesAgree
<1>1. \A c \in Channel : /\ c \in C => out(c) = {u}
                         /\ c \notin C => out(c) = {}
    BY <1>0
<1>2. /\ channel' = channel \ gone
      /\ kept' = kept \cup {c \in channel \ gone : out(c) # {} /\ out(c) = members[c]}
      /\ members' = [c \in Channel |-> members[c] \ out(c)]
      /\ chanop' = [c \in Channel |-> chanop[c] \ out(c)]
      /\ users' = [c \in Channel |-> IF c \in gone THEN 0 ELSE users[c] - Cardinality(out(c))]
      /\ iusers' = [c \in Channel |-> IF c \in gone THEN 0
                                      ELSE iusers[c] - Cardinality(out(c) \cap stealth)]
      /\ odd' = odd \ gone
      /\ userchannel' = [v \in Guest |-> {c \in userchannel[v] : <<v, c>> \notin pairs}]
      /\ joined' = [v \in Guest |-> joined[v] -
                          Cardinality({c \in userchannel[v] : <<v, c>> \in pairs})]
    BY DEF remove_user
<1>3. \A c \in gone : c \in channel /\ c \in C /\ members[c] = {u}
    <2> SUFFICES ASSUME NEW c \in gone
                 PROVE  c \in channel /\ c \in C /\ members[c] = {u}
        OBVIOUS
    <2>1. /\ c \in channel
          /\ \E v \in members[c] : <<v, c>> \in pairs
          /\ \A v \in members[c] : <<v, c>> \in pairs
        BY DEF Freed
    <2>2. c \in C
        BY <2>1
    <2> QED
        BY <2>1, <2>2, <1>0
<1>4. /\ members' \in [Channel -> SUBSET Guest] /\ chanop' \in [Channel -> SUBSET Guest]
      /\ \A c \in Channel : /\ members'[c] = members[c] \ out(c)
                            /\ chanop'[c] = chanop[c] \ out(c)
    BY <1>2
<1>a. \A v \in Guest, c \in Channel : <<v, c>> \in pairs <=> v = u /\ c \in C
    OBVIOUS
<1> HIDE DEF out, pairs
<1>5. \A c \in Channel : /\ c \in C => members'[c] = members[c] \ {u} /\ chanop'[c] = chanop[c] \ {u}
                         /\ c \notin C => members'[c] = members[c] /\ chanop'[c] = chanop[c]
    BY <1>1, <1>4
<1>6. /\ userchannel' \in [Guest -> SUBSET Channel]
      /\ userchannel'[u] = userchannel[u] \ C
      /\ \A v \in Guest : v # u => userchannel'[v] = userchannel[v]
    BY <1>2, <1>a
<1>7. SidesAgree'
    <2> SUFFICES ASSUME NEW c \in Channel, NEW v \in Guest
                 PROVE  v \in members'[c] <=> c \in userchannel'[v]
        BY DEF SidesAgree
    <2>1. v \in members[c] <=> c \in userchannel[v]
        BY DEF SidesAgree
    <2>2. CASE v = u
        BY <2>1, <2>2, <1>5, <1>6
    <2>3. CASE v # u
        BY <2>1, <2>3, <1>5, <1>6
    <2> QED
        BY <2>2, <2>3
<1>b. \A c \in Channel : users[c] \in Int /\ iusers[c] \in Int
    OBVIOUS
<1>c. \A v \in Guest : joined[v] \in Int
    OBVIOUS
<1>e. SidesAgree
    OBVIOUS
<1>d. MembersCounted /\ JoinsCounted
    OBVIOUS
<1>18. kept \subseteq kept' /\ kept' \subseteq Channel /\ channel' \subseteq Channel
       /\ odd' \subseteq Channel /\ stealth' \subseteq Guest
    BY <1>2
<1> HIDE DEF MemberType, Membership
<1>8. \A c \in Channel : IsFiniteSet(out(c)) /\ IsFiniteSet(out(c) \cap stealth)
    <2> SUFFICES ASSUME NEW c \in Channel PROVE IsFiniteSet(out(c)) /\ IsFiniteSet(out(c) \cap stealth)
        OBVIOUS
    <2>1. out(c) = {u} \/ out(c) = {}
        BY <1>1
    <2>3. IsFiniteSet({u}) /\ IsFiniteSet({})
        BY FS_EmptySet, FS_Singleton
    <2>2. IsFiniteSet(out(c))
        BY <2>1, <2>3
    <2> QED
        BY <2>2, FS_Intersection
<1>9. \A c \in Channel : Cardinality(out(c)) \in Int /\ Cardinality(out(c) \cap stealth) \in Int
    BY <1>8, FS_CardinalityType
<1> HIDE DEF gone
<1>10. users' \in [Channel -> Int] /\ iusers' \in [Channel -> Int]
    <2>2. \A c \in Channel : /\ (IF c \in gone THEN 0 ELSE users[c] - Cardinality(out(c))) \in Int
                             /\ (IF c \in gone THEN 0 ELSE iusers[c] - Cardinality(out(c) \cap stealth)) \in Int
        BY <1>9, <1>b
    <2> QED
        BY <1>2, <2>2
<1>11. ASSUME NEW c \in Channel
       PROVE  (/\ IsFiniteSet(members[c]) /\ users[c] = Cardinality(members[c])
               /\ chanop[c] \subseteq members[c]
               /\ c \in odd \/ iusers[c] = Cardinality(members[c] \cap stealth))'
    <2>0. /\ IsFiniteSet(members[c]) /\ users[c] = Cardinality(members[c])
          /\ chanop[c] \subseteq members[c]
          /\ c \in odd \/ iusers[c] = Cardinality(members[c] \cap stealth)
        BY <1>d DEF MembersCounted
    <2>1. chanop'[c] \subseteq members'[c]
        BY <2>0, <1>4
    <2>2. members'[c] \cap stealth' = members'[c] \cap stealth
        BY <1>0, <1>5, <1>e DEF SidesAgree
    <2>3. CASE c \in gone
        <3>1. members'[c] = {}
            BY <2>3, <1>3, <1>5
        <3>2. users'[c] = 0 /\ iusers'[c] = 0
            BY <2>3, <1>2
        <3>3. Cardinality(members'[c]) = 0 /\ IsFiniteSet(members'[c]) /\ members'[c] \cap stealth' = {}
            BY <3>1, FS_EmptySet
        <3>4. Cardinality(members'[c] \cap stealth') = 0
            BY <3>3, FS_EmptySet
        <3> QED
            BY <3>2, <3>3, <3>4, <2>1
    <2>4. CASE c \notin gone /\ c \notin C
        <3>1. members'[c] = members[c] /\ out(c) = {} /\ out(c) \cap stealth = {}
            BY <2>4, <1>1, <1>5
        <3>2. /\ users'[c] = users[c] - Cardinality(out(c))
              /\ iusers'[c] = iusers[c] - Cardinality(out(c) \cap stealth)
              /\ (c \in odd' <=> c \in odd)
            BY <2>4, <1>2
        <3>3. Cardinality(out(c)) = 0 /\ Cardinality(out(c) \cap stealth) = 0
            BY <3>1, FS_EmptySet
        <3>4. users'[c] = users[c] /\ iusers'[c] = iusers[c]
            BY <3>2, <3>3, <1>b
        <3> QED
            BY <3>1, <3>2, <3>4, <2>0, <2>1, <2>2
    <2>5. CASE c \notin gone /\ c \in C
        <3>1. members'[c] = members[c] \ {u} /\ out(c) = {u} /\ u \in members[c]
            BY <2>5, <1>0, <1>1, <1>5
        <3>2. /\ users'[c] = users[c] - Cardinality(out(c))
              /\ iusers'[c] = iusers[c] - Cardinality(out(c) \cap stealth)
              /\ (c \in odd' <=> c \in odd)
            BY <2>5, <1>2
        <3>3. Cardinality(out(c)) = 1
            BY <3>1, FS_Singleton
        <3>4. /\ IsFiniteSet(members'[c])
              /\ Cardinality(members'[c]) = Cardinality(members[c]) - 1
            BY <2>0, <3>1, Count_Remove
        <3>5. users'[c] = Cardinality(members'[c])
            BY <2>0, <3>2, <3>3, <3>4
        <3>6. CASE u \in stealth
            <4>1. /\ out(c) \cap stealth = {u}
                  /\ members'[c] \cap stealth = (members[c] \cap stealth) \ {u}
                  /\ u \in members[c] \cap stealth
                BY <3>1, <3>6
            <4>2. Cardinality(out(c) \cap stealth) = 1 /\ IsFiniteSet(members[c] \cap stealth)
                BY <4>1, <2>0, FS_Singleton, FS_Intersection
            <4>3. Cardinality(members'[c] \cap stealth) = Cardinality(members[c] \cap stealth) - 1
                BY <4>1, <4>2, Count_Remove
            <4> QED
                BY <4>2, <4>3, <3>2, <3>4, <3>5, <2>0, <2>1, <2>2
        <3>7. CASE u \notin stealth
            <4>1. out(c) \cap stealth = {} /\ members'[c] \cap stealth = members[c] \cap stealth
                BY <3>1, <3>7
            <4>2. Cardinality(out(c) \cap stealth) = 0
                BY <4>1, FS_EmptySet
            <4>3. iusers'[c] = iusers[c]
                BY <4>2, <3>2, <1>b
            <4> QED
                BY <4>1, <4>3, <3>2, <3>4, <3>5, <2>0, <2>1, <2>2
        <3> QED
            BY <3>6, <3>7
    <2> QED
        BY <2>3, <2>4, <2>5
<1>12. MembersCounted'
    BY <1>11 DEF MembersCounted
<1>13. ASSUME NEW v \in Guest
       PROVE  /\ IsFiniteSet(userchannel'[v]) /\ joined'[v] \in Int
              /\ joined'[v] = Cardinality(userchannel'[v])
    <2> DEFINE lost == {c \in userchannel[v] : <<v, c>> \in pairs}
    <2>0. IsFiniteSet(userchannel[v]) /\ joined[v] = Cardinality(userchannel[v])
        BY <1>d DEF JoinsCounted
    <2>1. joined'[v] = joined[v] - Cardinality(lost)
        BY <1>2
    <2>2. userchannel'[v] = userchannel[v] \ lost /\ lost \in SUBSET userchannel[v]
        BY <1>2
    <2>3. userchannel[v] \cap lost = lost
        BY <2>2
    <2> HIDE DEF lost
    <2>6. IsFiniteSet(lost)
        BY <2>0, <2>2, FS_Subset
    <2>4. /\ IsFiniteSet(userchannel'[v]) /\ IsFiniteSet(lost)
          /\ Cardinality(userchannel'[v]) = Cardinality(userchannel[v]) - Cardinality(lost)
        <3>1. /\ IsFiniteSet(userchannel[v] \ lost)
              /\ Cardinality(userchannel[v] \ lost)
                    = Cardinality(userchannel[v]) - Cardinality(userchannel[v] \cap lost)
            BY <2>0, FS_Difference
        <3> QED
            BY <3>1, <2>2, <2>3, <2>6
    <2>5. Cardinality(lost) \in Int /\ Cardinality(userchannel[v]) \in Int
        BY <2>0, <2>4, FS_CardinalityType
    <2> QED
        BY <2>0, <2>1, <2>4, <2>5
<1>14. JoinsCounted' /\ joined' \in [Guest -> Int]
    BY <1>2, <1>13 DEF JoinsCounted
<1>15. \A c \in gone : members'[c] = {}
    BY <1>3, <1>5, <1>0
<1>16. gone \in SUBSET C
    BY <1>3
<1>17. \A c \in C \cap channel : c \notin gone /\ members'[c] = {} => c \in kept'
    <2> SUFFICES ASSUME NEW c \in C \cap channel, c \notin gone, members'[c] = {}
                 PROVE  c \in kept'
        OBVIOUS
    <2>1. out(c) = {u} /\ u \in members[c] /\ members'[c] = members[c] \ {u}
        BY <1>0, <1>1, <1>5
    <2>2. members[c] \subseteq {u}
        BY <2>1
    <2>3. out(c) # {} /\ out(c) = members[c]
        BY <2>1, <2>2
    <2> QED
        BY <2>3, <1>2
<1>19. /\ \A c \in Channel : c \notin C => members'[c] = members[c]
       /\ \A c \in C : members'[c] = members[c] \ {u}
    BY <1>5, <1>0
<1>20. channel' = channel \ gone /\ odd' = odd \ gone
    BY <1>2
<1>21. gone = Freed({u} \X C)
    BY DEF gone, pairs
<1> QED
    BY <1>4, <1>6, <1>7, <1>10, <1>12, <1>14, <1>15, <1>16, <1>17, <1>18, <1>19, <1>20, <1>21
    DEF MemberType, Membership

LEMMA Del_Invite ==
    ASSUME InviteType, InvitesListed, NEW pairs, del_invite(pairs)
    PROVE  /\ InviteType' /\ InvitesListed'
           /\ \A c \in Channel, u \in Guest :
                 u \in invites'[c] <=> u \in invites[c] /\ <<u, c>> \notin pairs
<1> USE RoomAssumption
<1> DEFINE I(u) == {i \in DOMAIN invited[u] : <<u, invited[u][i]>> \notin pairs}
<1>1. /\ invites' = [c \in Channel |-> {u \in invites[c] : <<u, c>> \notin pairs}]
      /\ invited' = [u \in Guest |-> Pick(invited[u], I(u))]
    BY DEF del_invite
<1>2. /\ invites' \in [Channel -> SUBSET Guest]
      /\ \A c \in Channel, u \in Guest :
            u \in invites'[c] <=> u \in invites[c] /\ <<u, c>> \notin pairs
    BY <1>1 DEF InviteType
<1>3. ASSUME NEW u \in Guest
      PROVE  /\ invited'[u] \in Seq(Channel) /\ Len(invited'[u]) <= MaxChansPerUser
             /\ IsInjective(invited'[u])
             /\ \A c \in Channel : Contains(invited'[u], c) <=>
                                      Contains(invited[u], c) /\ <<u, c>> \notin pairs
    <2> DEFINE s == invited[u]
               p == Pick(s, I(u))
    <2>1. s \in Seq(Channel) /\ Len(s) <= MaxChansPerUser /\ IsInjective(s)
        BY DEF InviteType, InvitesListed
    <2>2. I(u) \subseteq DOMAIN s
        OBVIOUS
    <2>3. invited'[u] = p
        BY <1>1
    <2>4. \A i \in I(u) : i \in 1 .. Len(s) /\ <<u, s[i]>> \notin pairs
        BY <2>1
    <2>5. \A i \in 1 .. Len(s) : <<u, s[i]>> \notin pairs => i \in I(u)
        BY <2>1
    <2> HIDE DEF I, s
    <2>6. /\ p \in Seq(Channel) /\ Len(p) <= Len(s) /\ IsInjective(p)
          /\ \A k \in 1 .. Len(p) : \E i \in I(u) : p[k] = s[i]
          /\ \A i \in I(u) : \E k \in 1 .. Len(p) : p[k] = s[i]
        BY <2>1, <2>2, Pick_Facts, Pick_Injective
    <2> HIDE DEF p
    <2>7. \A c \in Channel : Contains(p, c) <=> Contains(s, c) /\ <<u, c>> \notin pairs
        BY <2>4, <2>5, <2>6 DEF Contains
    <2>8. Len(p) <= MaxChansPerUser
        BY <2>1, <2>6
    <2> QED
        BY <2>3, <2>6, <2>7, <2>8 DEF s
<1>4. invited' \in [Guest -> Seq(Channel)]
    BY <1>1, <1>3
<1>5. InvitesListed'
    BY <1>2, <1>3 DEF InvitesListed
<1> QED
    BY <1>2, <1>4, <1>5 DEF InviteType

LEMMA Add_Invite ==
    ASSUME InviteType, InvitesListed, NEW u \in Guest, NEW c \in Channel, add_invite(u, c),
           \A v \in Guest, d \in Channel : v \in invites[d] => <<v, d>> \in invitable
    PROVE  /\ InviteType' /\ InvitesListed'
           /\ \A v \in Guest, d \in Channel :
                 v \in invites'[d] => /\ <<v, d>> \in invitable'
                                      /\ v \in invites[d] \/ (v = u /\ d = c)
<1> USE RoomAssumption
<1> DEFINE s == invited[u]
           I == {i \in DOMAIN s : s[i] # c}
           others == Pick(s, I)
           held == IF Len(others) >= MaxChansPerUser THEN Tail(others) ELSE others
<1>1. /\ invited' = [invited EXCEPT ![u] = Append(held, c)]
      /\ invites' = [d \in Channel |->
              IF d = c THEN invites[d] \cup {u}
              ELSE IF Contains(held, d) THEN invites[d] ELSE invites[d] \ {u}]
      /\ invitable' = {p \in invitable : p[1] = u => Contains(held, p[2])} \cup {<<u, c>>}
    BY DEF add_invite
<1>2. s \in Seq(Channel) /\ Len(s) <= MaxChansPerUser /\ IsInjective(s)
    BY DEF InviteType, InvitesListed
<1>3. I \subseteq DOMAIN s /\ \A i \in I : i \in 1 .. Len(s) /\ s[i] # c
    BY <1>2
<1>4. \A d \in Channel : Contains(s, d) <=> u \in invites[d]
    BY DEF InvitesListed
<1> HIDE DEF I, s
<1>5. /\ others \in Seq(Channel) /\ Len(others) <= Len(s) /\ IsInjective(others)
      /\ \A k \in 1 .. Len(others) : \E i \in I : others[k] = s[i]
    BY <1>2, <1>3, Pick_Facts, Pick_Injective
<1> HIDE DEF others
<1>6. \A k \in 1 .. Len(others) : others[k] # c /\ Contains(s, others[k])
    BY <1>3, <1>5 DEF Contains
<1>7. \A j, k \in 1 .. Len(others) : others[j] = others[k] => j = k
    BY <1>5 DEF IsInjective
<1>8. /\ held \in Seq(Channel) /\ Len(held) < MaxChansPerUser
      /\ \A k \in 1 .. Len(held) : held[k] # c /\ Contains(s, held[k])
      /\ \A j, k \in 1 .. Len(held) : held[j] = held[k] => j = k
    <2>1. CASE Len(others) >= MaxChansPerUser
        <3>1. held = Tail(others) /\ others # << >>
            BY <2>1, <1>5
        <3>2. /\ held \in Seq(Channel) /\ Len(held) = Len(others) - 1
              /\ \A k \in 1 .. Len(held) : k + 1 \in 1 .. Len(others) /\ held[k] = others[k + 1]
            BY <3>1, <1>5
        <3>3. Len(held) < MaxChansPerUser
            BY <3>2, <1>2, <1>5
        <3>4. \A k \in 1 .. Len(held) : held[k] # c /\ Contains(s, held[k])
            BY <3>2, <1>6
        <3>5. ASSUME NEW j \in 1 .. Len(held), NEW k \in 1 .. Len(held), held[j] = held[k]
              PROVE  j = k
            <4>1. others[j + 1] = others[k + 1] /\ j + 1 \in 1 .. Len(others)
                  /\ k + 1 \in 1 .. Len(others)
                BY <3>2, <3>5
            <4>2. j + 1 = k + 1
                BY <4>1, <1>7
            <4> QED
                BY <4>2
        <3> QED
            BY <3>2, <3>3, <3>4, <3>5
    <2>2. CASE ~(Len(others) >= MaxChansPerUser)
        BY <2>2, <1>2, <1>5, <1>6, <1>7
    <2> QED
        BY <2>1, <2>2
<1> HIDE DEF held
<1> DEFINE new == Append(held, c)
<1>9. /\ new \in Seq(Channel) /\ Len(new) = Len(held) + 1 /\ new[Len(held) + 1] = c
      /\ \A k \in 1 .. Len(held) : new[k] = held[k]
    BY <1>8
<1> HIDE DEF new
<1>10. /\ Len(new) <= MaxChansPerUser
       /\ \A d \in Channel : Contains(new, d) <=> d = c \/ Contains(held, d)
    <2>1. Len(held) \in Nat /\ \A k \in 1 .. Len(new) : k \in 1 .. Len(held) \/ k = Len(held) + 1
        BY <1>8, <1>9
    <2>2. Len(held) + 1 \in 1 .. Len(new) /\ \A k \in 1 .. Len(held) : k \in 1 .. Len(new)
        BY <2>1, <1>9
    <2>3. Len(new) <= MaxChansPerUser
        BY <2>1, <1>8, <1>9
    <2> QED
        BY <2>1, <2>2, <2>3, <1>9 DEF Contains
<1>11. IsInjective(new)
    <2> SUFFICES ASSUME NEW j \in 1 .. Len(new), NEW k \in 1 .. Len(new), new[j] = new[k]
                 PROVE  j = k
        BY <1>9 DEF IsInjective
    <2>1. Len(held) \in Nat
        BY <1>8
    <2>2. CASE j = Len(held) + 1
        BY <2>1, <2>2, <1>8, <1>9
    <2>3. CASE k = Len(held) + 1
        BY <2>1, <2>3, <1>8, <1>9
    <2>4. CASE j # Len(held) + 1 /\ k # Len(held) + 1
        BY <2>1, <2>4, <1>8, <1>9
    <2> QED
        BY <2>2, <2>3, <2>4
<1>12. /\ invited' \in [Guest -> Seq(Channel)] /\ invited'[u] = new
       /\ \A v \in Guest : v # u => invited'[v] = invited[v]
    BY <1>1, <1>9 DEF InviteType, new
<1>13. \A d \in Channel : Contains(held, d) => u \in invites[d]
    BY <1>4, <1>8 DEF Contains
<1>14. /\ invites' \in [Channel -> SUBSET Guest]
       /\ invites'[c] = invites[c] \cup {u}
       /\ \A d \in Channel : /\ d # c /\ Contains(held, d) => invites'[d] = invites[d]
                             /\ d # c /\ ~Contains(held, d) => invites'[d] = invites[d] \ {u}
    BY <1>1 DEF InviteType
<1>15. \A d \in Channel : u \in invites'[d] <=> Contains(new, d)
    BY <1>10, <1>13, <1>14
<1>16. \A v \in Guest, d \in Channel : v # u => (v \in invites'[d] <=> v \in invites[d])
    BY <1>14
<1>17. InvitesListed'
    <2> SUFFICES ASSUME NEW v \in Guest
                 PROVE  /\ IsInjective(invited'[v]) /\ Len(invited'[v]) <= MaxChansPerUser
                        /\ \A d \in Channel : v \in invites'[d] <=> Contains(invited'[v], d)
        BY DEF InvitesListed
    <2>1. CASE v = u
        BY <2>1, <1>10, <1>11, <1>12, <1>15
    <2>2. CASE v # u
        <3>1. /\ IsInjective(invited[v]) /\ Len(invited[v]) <= MaxChansPerUser
              /\ \A d \in Channel : v \in invites[d] <=> Contains(invited[v], d)
            BY DEF InvitesListed
        <3> QED
            BY <3>1, <2>2, <1>12, <1>16
    <2> QED
        BY <2>1, <2>2
<1>18. ASSUME NEW v \in Guest, NEW d \in Channel, v \in invites'[d]
       PROVE  <<v, d>> \in invitable' /\ (v \in invites[d] \/ (v = u /\ d = c))
    <2>1. CASE v = u /\ d = c
        BY <2>1, <1>1
    <2>2. CASE v # u
        <3>1. v \in invites[d]
            BY <2>2, <1>16, <1>18
        <3> QED
            BY <3>1, <2>2, <1>1
    <2>3. CASE v = u /\ d # c
        <3>1. Contains(held, d)
            BY <2>3, <1>10, <1>15, <1>18
        <3>2. v \in invites[d]
            BY <3>1, <2>3, <1>13
        <3> QED
            BY <3>1, <3>2, <2>3, <1>1
    <2> QED
        BY <2>1, <2>2, <2>3
<1> QED
    BY <1>12, <1>14, <1>17, <1>18 DEF InviteType

(* How the lines h that went out, the count n and the time last of          *)
(* check_for_chan_flood belong together: the lines after the last pause are *)
(* counted, and those before it are PER seconds away.                       *)
Tallied(n) == IF n < MSGS - 1 THEN n ELSE MSGS - 1
FloodOf(h, n, last, cur) ==
    /\ Tallied(n) <= Len(h) /\ (n = 0 => Len(h) = 0) /\ last <= cur
    /\ \A i \in 1 .. Len(h) : h[i] <= last
    /\ \A i, j \in 1 .. Len(h) : i <= Len(h) - Tallied(n) /\ j > Len(h) - Tallied(n) =>
                                    h[j] - h[i] >= PER
    /\ \A i, j \in 1 .. Len(h) : j - i >= MSGS - 1 => h[j] - h[i] >= PER
FloodKept ==
    \A c \in Channel, u \in Guest : FloodOf(heard[c][u], nmsg[c][u], lastmsg[c][u], CurrentTime)

LEMMA Flood_Line ==
    ASSUME NEW h \in Seq(Nat), NEW n \in Nat, NEW last \in Nat, NEW cur \in Nat,
           FloodOf(h, n, last, cur), NEW m \in Nat,
           m = IF cur - last >= PER THEN 1 ELSE n + 1
    PROVE  /\ m >= MSGS => FloodOf(h, m, cur, cur)
           /\ m < MSGS => FloodOf(Append(h, cur), m, cur, cur)
<1> USE RoomAssumption
<1> DEFINE L == Len(h)
           b == Tallied(n)
           g == Append(h, cur)
<1>1. L \in Nat /\ b \in Nat /\ MSGS \in Nat /\ MSGS >= 2 /\ PER \in Nat /\ PER >= 1
      /\ \A i \in 1 .. L : h[i] \in Nat
    BY DEF Tallied
<1>2. /\ b <= L /\ (n = 0 => L = 0) /\ last <= cur
      /\ \A i \in 1 .. L : h[i] <= last
      /\ \A i, j \in 1 .. L : i <= L - b /\ j > L - b => h[j] - h[i] >= PER
      /\ \A i, j \in 1 .. L : j - i >= MSGS - 1 => h[j] - h[i] >= PER
    BY DEF FloodOf
<1>3. \A i \in 1 .. L : h[i] <= cur
    BY <1>1, <1>2
<1>4. ASSUME m >= MSGS PROVE FloodOf(h, m, cur, cur)
    <2>1. m = n + 1 /\ n >= MSGS - 1
        BY <1>1, <1>4
    <2>2. Tallied(m) = MSGS - 1 /\ b = MSGS - 1
        BY <2>1, <1>1 DEF Tallied
    <2>3. ~(m = 0)
        BY <2>1
    <2>4. /\ Tallied(m) <= Len(h) /\ (m = 0 => Len(h) = 0) /\ cur <= cur
          /\ \A i \in 1 .. Len(h) : h[i] <= cur
        BY <1>2, <1>3, <2>2, <2>3
    <2>5. /\ \A i, j \in 1 .. Len(h) :
                i <= Len(h) - Tallied(m) /\ j > Len(h) - Tallied(m) => h[j] - h[i] >= PER
          /\ \A i, j \in 1 .. Len(h) : j - i >= MSGS - 1 => h[j] - h[i] >= PER
        BY ONLY <1>2, <2>2
    <2> QED
        BY ONLY <2>4, <2>5 DEF FloodOf
<1>5. ASSUME m < MSGS PROVE FloodOf(g, m, cur, cur)
    <2>1. /\ Len(g) = L + 1 /\ g[L + 1] = cur /\ \A i \in 1 .. L : g[i] = h[i]
          /\ \A i \in 1 .. Len(g) : g[i] \in Nat
        BY ONLY h \in Seq(Nat), cur \in Nat
    <2>2. \A i \in 1 .. Len(g) : i \in 1 .. L \/ i = L + 1
        BY <1>1, <2>1
    <2> HIDE DEF L, b, g
    <2>3. m # 0 /\ Tallied(m) = m
        BY <1>1, <1>5 DEF Tallied
    <2>4. m <= L + 1 /\ \A i \in 1 .. L : i <= L + 1 - m => cur - h[i] >= PER
        <3>1. CASE cur - last >= PER
            <4>1. m = 1
                BY <3>1
            <4>2. \A i \in 1 .. L : cur - h[i] >= PER
                BY <1>1, <1>2, <3>1
            <4> QED
                BY <4>1, <4>2, <1>1
        <3>2. CASE ~(cur - last >= PER)
            <4>1. m = n + 1 /\ b = n
                BY <3>2, <1>1, <1>5 DEF Tallied, b
            <4>2. ASSUME NEW i \in 1 .. L, i <= L + 1 - m
                  PROVE  cur - h[i] >= PER
                <5>1. L \in 1 .. L /\ n # 0
                    BY <4>2, <1>1, <1>2
                <5>2. L > L - b /\ i <= L - b
                    BY <5>1, <4>1, <4>2, <1>1
                <5>3. h[L] - h[i] >= PER
                    BY <5>1, <5>2, <1>2
                <5>4. h[L] <= cur
                    BY <5>1, <1>3
                <5>5. h[L] \in Nat /\ h[i] \in Nat /\ cur \in Nat /\ PER \in Nat
                    BY <5>1, <4>2, <1>1
                <5> QED
                    BY ONLY <5>3, <5>4, <5>5
            <4>3. m <= L + 1
                BY <4>1, <1>1, <1>2
            <4> QED
                BY <4>2, <4>3
        <3> QED
            BY <3>1, <3>2
    <2>5. ASSUME NEW i \in 1 .. Len(g)
          PROVE  g[i] <= cur
        <3>1. CASE i \in 1 .. L
            BY <3>1, <1>3, <2>1
        <3>2. CASE i = L + 1
            BY <3>2, <2>1
        <3> QED
            BY <3>1, <3>2, <2>2
    <2>6. ASSUME NEW i \in 1 .. Len(g), NEW j \in 1 .. Len(g),
                 i <= Len(g) - m, j > Len(g) - m
          PROVE  g[j] - g[i] >= PER
        <3>1. i \in 1 .. L /\ i <= L + 1 - m /\ j > L + 1 - m
            BY <1>1, <2>1, <2>2, <2>3, <2>6
        <3>2. CASE j = L + 1
            BY <3>1, <3>2, <2>1, <2>4
        <3>3. CASE j \in 1 .. L
            <4>1. CASE cur - last >= PER
                <5>1. m = 1
                    BY <4>1
                <5> QED
                    BY <5>1, <3>1, <3>3, <1>1
            <4>2. CASE ~(cur - last >= PER)
                <5>1. m = n + 1 /\ b = n
                    BY <4>2, <1>1, <1>5 DEF Tallied, b
                <5>2. i <= L - b /\ j > L - b
                    BY <5>1, <3>1, <1>1
                <5> QED
                    BY <5>2, <3>1, <3>3, <1>2, <2>1
            <4> QED
                BY <4>1, <4>2
        <3> QED
            BY <3>2, <3>3, <2>2
    <2>7. ASSUME NEW i \in 1 .. Len(g), NEW j \in 1 .. Len(g), j - i >= MSGS - 1
          PROVE  g[j] - g[i] >= PER
        <3>1. i \in 1 .. L
            BY <1>1, <2>1, <2>2, <2>7
        <3>2. CASE j \in 1 .. L
            BY <3>1, <3>2, <2>7, <1>2, <2>1
        <3>3. CASE j = L + 1
            <4>1. i <= L + 1 - m
                BY <3>1, <3>3, <2>7, <1>1, <1>5
            <4> QED
                BY <4>1, <3>1, <3>3, <2>1, <2>4
        <3> QED
            BY <3>2, <3>3, <2>2
    <2>8. m <= Len(g)
        BY <2>1, <2>4
    <2> QED
        BY <2>3, <2>5, <2>6, <2>7, <2>8 DEF FloodOf
<1> QED
    BY <1>4, <1>5

LEMMA Flood_None ==
    ASSUME NEW cur \in Nat
    PROVE  FloodOf(<< >>, 0, 0, cur)
BY RoomAssumption DEF FloodOf, Tallied

LEMMA Flood_Later ==
    ASSUME NEW h, NEW n, NEW last \in Nat, NEW cur \in Nat, FloodOf(h, n, last, cur)
    PROVE  FloodOf(h, n, last, cur + 1)
<1>1. last <= cur + 1
    BY DEF FloodOf
<1> QED
    BY <1>1 DEF FloodOf

LEMMA Flood_Held ==
    ASSUME TalkType, FloodKept
    PROVE  FloodHeld
<1> USE RoomAssumption
<1> SUFFICES ASSUME NEW c \in Channel, NEW u \in Guest,
                    NEW i \in 1 .. Len(heard[c][u]) - MSGS + 1
             PROVE  heard[c][u][i + MSGS - 1] - heard[c][u][i] >= PER
    BY DEF FloodHeld
<1>1. heard[c][u] \in Seq(Nat)
    BY DEF TalkType
<1>2. /\ i \in 1 .. Len(heard[c][u]) /\ i + MSGS - 1 \in 1 .. Len(heard[c][u])
      /\ (i + MSGS - 1) - i >= MSGS - 1
    BY <1>1
<1>3. FloodOf(heard[c][u], nmsg[c][u], lastmsg[c][u], CurrentTime)
    BY DEF FloodKept
<1> QED
    BY <1>2, <1>3 DEF FloodOf

RoomInv == /\ MemberType /\ ModeType /\ BanType /\ InviteType /\ TalkType
           /\ Membership /\ BansCounted /\ Existing
           /\ InvitesListed /\ InvitesOurs /\ InvitesFresh /\ FloodKept

LEMMA Room_Right ==
    ASSUME RoomInv
    PROVE  RoomRight
<1> USE DEF RoomInv
<1>1. \A c \in Channel :
        /\ users[c] = Cardinality(members[c]) /\ chanop[c] \subseteq members[c]
        /\ c \in odd \/ iusers[c] = Cardinality(members[c] \cap stealth)
        /\ num_bed[c] = Cardinality(banlist[c])
        /\ c \in channel => members[c] # {} \/ c \in kept
        /\ \A u \in Guest : /\ u \in members[c] <=> c \in userchannel[u]
                            /\ u \in invites[c] <=> Contains(invited[u], c)
    BY DEF Membership, MembersCounted, SidesAgree, BansCounted, Existing, InvitesListed
<1>2. \A c \in Channel : c \notin channel =>
         members[c] \cup banlist[c] \cup invites[c] \cup mode[c] = {}
    BY DEF Existing
<1>3. \A u \in Guest : /\ joined[u] = Cardinality(userchannel[u])
                       /\ IsInjective(invited[u]) /\ Len(invited[u]) <= MaxChansPerUser
    BY DEF Membership, JoinsCounted, InvitesListed
<1>4. Booked
    BY <1>1, <1>2, <1>3 DEF Booked
<1> QED
    BY <1>4, Flood_Held DEF RoomRight

-----------------------------------------------------------------------------
(* What a step leaves alone stays right.                                    *)
Clubs == <<members, chanop, users, iusers, userchannel, joined, odd, stealth>>
Bandages == <<banlist, num_bed>>

LEMMA Same_Members ==
    ASSUME MemberType, Membership, UNCHANGED <<channel, kept>>, UNCHANGED Clubs
    PROVE  MemberType' /\ Membership'
BY DEF MemberType, Membership, SidesAgree, MembersCounted, JoinsCounted, Clubs

LEMMA Same_Bans ==
    ASSUME BanType, BansCounted, UNCHANGED Bandages
    PROVE  BanType' /\ BansCounted'
BY DEF BanType, BansCounted, Bandages

LEMMA Same_Invites ==
    ASSUME InviteType, InvitesListed, InvitesOurs, UNCHANGED <<invites, invited>>
    PROVE  InviteType' /\ InvitesListed' /\ InvitesOurs'
BY DEF InviteType, InvitesListed, InvitesOurs

LEMMA Same_Talk ==
    ASSUME TalkType, FloodKept, UNCHANGED talk, CurrentTime' = CurrentTime
    PROVE  TalkType' /\ FloodKept'
BY DEF TalkType, FloodKept, talk

(* Somebody who comes or goes starts anew.                                  *)
LEMMA Reset_Talk ==
    ASSUME TalkType, FloodKept, CurrentTime' = CurrentTime, NEW P,
           nmsg' = [c \in Channel |-> [u \in Guest |-> IF <<u, c>> \in P THEN 0 ELSE nmsg[c][u]]],
           lastmsg' = [c \in Channel |-> [u \in Guest |->
                          IF <<u, c>> \in P THEN 0 ELSE lastmsg[c][u]]],
           heard' = [c \in Channel |-> [u \in Guest |->
                          IF <<u, c>> \in P THEN << >> ELSE heard[c][u]]]
    PROVE  TalkType' /\ FloodKept'
<1>1. \A c \in Channel, u \in Guest :
         nmsg[c][u] \in Nat /\ lastmsg[c][u] \in Nat /\ heard[c][u] \in Seq(Nat)
    BY DEF TalkType
<1>2. << >> \in Seq(Nat)
    OBVIOUS
<1>3. TalkType'
    BY <1>1, <1>2 DEF TalkType
<1>4. CurrentTime \in Nat
    BY DEF TalkType
<1>5. ASSUME NEW c \in Channel, NEW u \in Guest
      PROVE  FloodOf(heard'[c][u], nmsg'[c][u], lastmsg'[c][u], CurrentTime')
    <2>1. CASE <<u, c>> \in P
        <3>1. nmsg'[c][u] = 0 /\ lastmsg'[c][u] = 0 /\ heard'[c][u] = << >>
            BY <2>1
        <3> QED
            BY <3>1, <1>4, Flood_None
    <2>2. CASE <<u, c>> \notin P
        <3>1. nmsg'[c][u] = nmsg[c][u] /\ lastmsg'[c][u] = lastmsg[c][u]
              /\ heard'[c][u] = heard[c][u]
            BY <2>2
        <3>2. FloodOf(heard[c][u], nmsg[c][u], lastmsg[c][u], CurrentTime)
            BY DEF FloodKept
        <3> QED
            BY <3>1, <3>2
    <2> QED
        BY <2>1, <2>2
<1>6. FloodKept'
    BY <1>5 DEF FloodKept
<1> QED
    BY <1>3, <1>6

LEMMA Add_User_Talk ==
    ASSUME TalkType, FloodKept, CurrentTime' = CurrentTime,
           NEW u \in Guest, NEW c \in Channel, NEW new, add_user_to_channel(u, c, new)
    PROVE  TalkType' /\ FloodKept'
<1> DEFINE P == {<<u, c>>}
<1>1. /\ nmsg' = [nmsg EXCEPT ![c][u] = 0] /\ lastmsg' = [lastmsg EXCEPT ![c][u] = 0]
      /\ heard' = [heard EXCEPT ![c][u] = << >>]
    BY DEF add_user_to_channel
<1>2. \A v \in Guest, d \in Channel : <<v, d>> \in P <=> v = u /\ d = c
    OBVIOUS
<1>3. nmsg' = [d \in Channel |-> [v \in Guest |-> IF <<v, d>> \in P THEN 0 ELSE nmsg[d][v]]]
    BY <1>1, <1>2 DEF TalkType
<1>4. lastmsg' = [d \in Channel |-> [v \in Guest |-> IF <<v, d>> \in P THEN 0 ELSE lastmsg[d][v]]]
    BY <1>1, <1>2 DEF TalkType
<1>5. heard' = [d \in Channel |-> [v \in Guest |-> IF <<v, d>> \in P THEN << >> ELSE heard[d][v]]]
    BY <1>1, <1>2 DEF TalkType
<1> QED
    BY <1>3, <1>4, <1>5, Reset_Talk

LEMMA Remove_User_Talk ==
    ASSUME TalkType, FloodKept, CurrentTime' = CurrentTime, NEW P, NEW U, remove_user(P, U)
    PROVE  TalkType' /\ FloodKept'
<1>1. /\ nmsg' = [c \in Channel |-> [u \in Guest |-> IF <<u, c>> \in P THEN 0 ELSE nmsg[c][u]]]
      /\ lastmsg' = [c \in Channel |-> [u \in Guest |->
                          IF <<u, c>> \in P THEN 0 ELSE lastmsg[c][u]]]
      /\ heard' = [c \in Channel |-> [u \in Guest |->
                          IF <<u, c>> \in P THEN << >> ELSE heard[c][u]]]
    BY DEF remove_user
<1> QED
    BY <1>1, Reset_Talk

(* A client u goes out of channels C, perhaps for good: with its            *)
(* invitations, and with its stealth.                                       *)
LEMMA Goes_Out ==
    ASSUME RoomInv, NEW u \in Guest, NEW C, C \subseteq userchannel[u], NEW U,
           remove_user({u} \X C, U), UNCHANGED still,
           stealth' = stealth \/ (stealth' = stealth \ {u} /\ C = userchannel[u] /\ u \in U)
    PROVE  RoomInv'
<1> USE DEF RoomInv
<1>1. PICK gone \in SUBSET C :
         /\ gone = Freed({u} \X C)
         /\ channel' = channel \ gone /\ odd' = odd \ gone
         /\ \A c \in gone : members'[c] = {}
         /\ \A c \in Channel : c \notin C => members'[c] = members[c]
         /\ \A c \in C : members'[c] = members[c] \ {u}
         /\ kept \subseteq kept'
         /\ \A c \in C \cap channel : c \notin gone /\ members'[c] = {} => c \in kept'
    BY Remove_User
<1>2. MemberType' /\ Membership'
    BY Remove_User
<1>3. TalkType' /\ FloodKept'
    BY Remove_User_Talk DEF still
<1>4. /\ mode' = [c \in Channel |-> IF c \in gone THEN {} ELSE mode[c]]
      /\ banlist' = [c \in Channel |-> IF c \in gone THEN {} ELSE banlist[c]]
      /\ num_bed' = [c \in Channel |-> IF c \in gone THEN 0 ELSE num_bed[c]]
      /\ del_invite(Withdrawn(gone, U))
      /\ invitable' = {p \in invitable : p[1] \notin U /\ p[2] \notin gone}
    BY <1>1 DEF remove_user
<1>5. ModeType'
    BY <1>4 DEF ModeType
<1>6. BanType' /\ BansCounted'
    <2>1. BanType'
        BY <1>4 DEF BanType
    <2>2. ASSUME NEW c \in Channel
          PROVE  IsFiniteSet(banlist'[c]) /\ num_bed'[c] = Cardinality(banlist'[c])
        <3>1. IsFiniteSet(banlist[c]) /\ num_bed[c] = Cardinality(banlist[c])
            BY DEF BansCounted
        <3>2. CASE c \in gone
            BY <3>2, <1>4, FS_EmptySet
        <3>3. CASE c \notin gone
            BY <3>1, <3>3, <1>4
        <3> QED
            BY <3>2, <3>3
    <2> QED
        BY <2>1, <2>2 DEF BansCounted
<1>7. /\ InviteType' /\ InvitesListed'
      /\ \A c \in Channel, v \in Guest :
            v \in invites'[c] <=> v \in invites[c] /\ <<v, c>> \notin Withdrawn(gone, U)
    BY <1>4, Del_Invite
<1>8. \A c \in Channel, v \in Guest :
         v \in invites'[c] => v \in invites[c] /\ c \notin gone /\ v \notin U
    BY <1>7 DEF Withdrawn
<1>9. \A c \in Channel : /\ invites'[c] \subseteq invites[c]
                         /\ c \in gone => invites'[c] = {}
    BY <1>7, <1>8 DEF InviteType
<1>10. InvitesOurs'
    BY <1>9 DEF InvitesOurs
<1>11. C \subseteq Channel /\ \A c \in C : u \in members[c]
    BY DEF Membership, SidesAgree, MemberType
<1>12. C \subseteq channel
    BY <1>11 DEF Existing
<1>13. Existing'
    <2> SUFFICES ASSUME NEW c \in Channel
                 PROVE  /\ c \notin channel' => /\ members'[c] = {} /\ banlist'[c] = {}
                                                /\ invites'[c] = {} /\ mode'[c] = {}
                        /\ c \in channel' => members'[c] # {} \/ c \in kept'
        BY DEF Existing
    <2>1. CASE c \in gone
        BY <2>1, <1>1, <1>4, <1>9
    <2>2. CASE c \notin gone /\ c \notin C
        <3>1. /\ members'[c] = members[c] /\ banlist'[c] = banlist[c]
              /\ invites'[c] \subseteq invites[c] /\ mode'[c] = mode[c]
              /\ c \in channel' <=> c \in channel
              /\ c \in kept => c \in kept'
            BY <2>2, <1>1, <1>4, <1>9
        <3> QED
            BY <3>1 DEF Existing
    <2>3. CASE c \notin gone /\ c \in C
        BY <2>3, <1>1, <1>12
    <2> QED
        BY <2>1, <2>2, <2>3
<1>14. InvitesFresh'
    <2> SUFFICES ASSUME NEW v \in Guest, NEW c \in Channel, v \in invites'[c]
                 PROVE  /\ <<v, c>> \in invitable'
                        /\ v \in members'[c] => c \in odd' \/ v \in stealth'
        BY DEF InvitesFresh
    <2>1. v \in invites[c] /\ c \notin gone /\ v \notin U
        BY <1>8
    <2>2. /\ <<v, c>> \in invitable
          /\ v \in members[c] => c \in odd \/ v \in stealth
        BY <2>1 DEF InvitesFresh
    <2>3. v \in members'[c] => v \in members[c]
        BY <1>1
    <2>4. v \in stealth => v \in stealth'
        BY <2>1
    <2> QED
        BY <2>1, <2>2, <2>3, <2>4, <1>1, <1>4
<1> QED
    BY <1>2, <1>3, <1>5, <1>6, <1>7, <1>10, <1>13, <1>14

LEMMA One_Goes_Out ==
    ASSUME RoomInv, NEW u \in Guest, NEW c, c \in userchannel[u],
           remove_user({<<u, c>>}, {}), UNCHANGED stealth, UNCHANGED still
    PROVE  RoomInv'
<1>1. {<<u, c>>} = {u} \X {c}
    OBVIOUS
<1>2. remove_user({u} \X {c}, {})
    BY <1>1
<1>3. {c} \subseteq userchannel[u]
    OBVIOUS
<1> QED
    BY <1>2, <1>3, Goes_Out

LEMMA Somebody_Leaves ==
    ASSUME RoomInv, NEW u \in Guest, LeaveAll(u) \/ JoinZero(u)
    PROVE  RoomInv'
<1> DEFINE C == userchannel[u]
<1>1. CASE LeaveAll(u)
    <2>1. /\ remove_user({u} \X C, {u}) /\ UNCHANGED still
          /\ stealth' = stealth \ {u} /\ C = userchannel[u] /\ u \in {u} /\ C \subseteq userchannel[u]
        BY <1>1 DEF LeaveAll
    <2> QED
        BY <2>1, Goes_Out
<1>2. CASE JoinZero(u)
    <2>1. /\ remove_user({u} \X C, {}) /\ UNCHANGED still
          /\ stealth' = stealth /\ C \subseteq userchannel[u]
        BY <1>2 DEF JoinZero
    <2> QED
        BY <2>1, Goes_Out
<1> QED
    BY <1>1, <1>2

LEMMA Somebody_Parts ==
    ASSUME RoomInv, NEW u \in Guest, NEW v \in Guest, NEW c \in Channel, NEW meant \in BOOLEAN,
           Part(u, c) \/ m_svspart(u, v, c, meant) \/ m_kick(u, v, c)
    PROVE  RoomInv'
<1>1. CASE Part(u, c)
    BY <1>1, One_Goes_Out DEF Part, Out
<1>2. CASE m_svspart(u, v, c, meant)
    BY <1>2, One_Goes_Out DEF m_svspart, Out
<1>3. CASE m_kick(u, v, c)
    <2>1. /\ v \in members[c] /\ remove_user({<<v, c>>}, {})
          /\ UNCHANGED stealth /\ UNCHANGED still
        BY <1>3 DEF m_kick
    <2>2. c \in userchannel[v]
        BY <2>1 DEF RoomInv, Membership, SidesAgree
    <2> QED
        BY <2>1, <2>2, One_Goes_Out
<1> QED
    BY <1>1, <1>2, <1>3

LEMMA Client_Comes_In ==
    ASSUME RoomInv, NEW u \in Guest, NEW c \in Channel, NEW key, Comes_in(u, c, key)
    PROVE  RoomInv'
<1> USE DEF RoomInv
<1>1. /\ u \in Local /\ c \notin userchannel[u]
      /\ add_user_to_channel(u, c, c \notin channel)
      /\ del_invite({<<u, c>>}) /\ invitable' = invitable \ {<<u, c>>}
      /\ mode' = [mode EXCEPT ![c] = IF c \in channel \/ u \in stealth THEN @ ELSE new_cmodes]
      /\ UNCHANGED <<banlist, num_bed, stealth, odd>> /\ CurrentTime' = CurrentTime
    BY DEF Comes_in, still
<1> DEFINE new == c \notin channel
<1>2. new \in BOOLEAN /\ add_user_to_channel(u, c, new)
    BY <1>1
<1>3. /\ MemberType' /\ Membership'
      /\ channel' = channel \cup {c} /\ kept' = kept \ {c}
      /\ members'[c] = members[c] \cup {u}
      /\ \A d \in Channel : d # c => members'[d] = members[d]
    <2> HIDE DEF new
    <2>1. stealth' = stealth /\ odd' = odd
        BY <1>1
    <2> QED
        BY <1>1, <1>2, <2>1, Add_User
<1>4. TalkType' /\ FloodKept'
    BY <1>1, Add_User_Talk
<1>5. BanType' /\ BansCounted'
    BY <1>1, Same_Bans DEF Bandages
<1>6. ModeType' /\ \A d \in Channel : d # c => mode'[d] = mode[d]
    BY <1>1 DEF ModeType, Letters
<1>7. /\ InviteType' /\ InvitesListed'
      /\ \A d \in Channel, v \in Guest :
            v \in invites'[d] <=> v \in invites[d] /\ <<v, d>> \notin {<<u, c>>}
    BY <1>1, Del_Invite
<1>8. \A d \in Channel : invites'[d] \subseteq invites[d]
    BY <1>7 DEF InviteType
<1>9. InvitesOurs'
    BY <1>8 DEF InvitesOurs
<1>10. Existing'
    <2> SUFFICES ASSUME NEW d \in Channel
                 PROVE  /\ d \notin channel' => /\ members'[d] = {} /\ banlist'[d] = {}
                                                /\ invites'[d] = {} /\ mode'[d] = {}
                        /\ d \in channel' => members'[d] # {} \/ d \in kept'
        BY DEF Existing
    <2>1. CASE d = c
        BY <2>1, <1>3
    <2>2. CASE d # c
        <3>1. /\ members'[d] = members[d] /\ banlist'[d] = banlist[d] /\ mode'[d] = mode[d]
              /\ invites'[d] \subseteq invites[d] /\ (d \in channel' <=> d \in channel)
              /\ (d \in kept' <=> d \in kept)
            BY <2>2, <1>1, <1>3, <1>6, <1>8
        <3> QED
            BY <3>1 DEF Existing
    <2> QED
        BY <2>1, <2>2
<1>11. InvitesFresh'
    <2> SUFFICES ASSUME NEW v \in Guest, NEW d \in Channel, v \in invites'[d]
                 PROVE  /\ <<v, d>> \in invitable'
                        /\ v \in members'[d] => d \in odd' \/ v \in stealth'
        BY DEF InvitesFresh
    <2>1. v \in invites[d] /\ ~(v = u /\ d = c)
        BY <1>7
    <2>2. /\ <<v, d>> \in invitable
          /\ v \in members[d] => d \in odd \/ v \in stealth
        BY <2>1 DEF InvitesFresh
    <2>3. v \in members'[d] => v \in members[d]
        BY <2>1, <1>3
    <2> QED
        BY <2>1, <2>2, <2>3, <1>1
<1> QED
    BY <1>3, <1>4, <1>5, <1>6, <1>7, <1>9, <1>10, <1>11

(* A client of another server has no invitation.                            *)
LEMMA Remote_Comes_In ==
    ASSUME RoomInv, NEW u \in Guest, NEW c \in Channel, RemoteJoin(u, c)
    PROVE  RoomInv'
<1> USE DEF RoomInv
<1>1. /\ u \notin Local /\ c \notin userchannel[u]
      /\ UNCHANGED <<mode, stealth, odd>> /\ CurrentTime' = CurrentTime
      /\ UNCHANGED <<banlist, num_bed, invites, invited, invitable>>
    BY DEF RemoteJoin, still, banlists
<1>2. PICK op \in BOOLEAN : add_user_to_channel(u, c, op)
    BY DEF RemoteJoin
<1>3. /\ MemberType' /\ Membership'
      /\ channel' = channel \cup {c} /\ kept' = kept \ {c}
      /\ members'[c] = members[c] \cup {u}
      /\ \A d \in Channel : d # c => members'[d] = members[d]
    <2>1. stealth' = stealth /\ odd' = odd
        BY <1>1
    <2> QED
        BY <1>1, <1>2, <2>1, Add_User
<1>4. TalkType' /\ FloodKept'
    BY <1>1, <1>2, Add_User_Talk
<1>5. BanType' /\ BansCounted' /\ ModeType'
    BY <1>1, Same_Bans DEF Bandages, ModeType
<1>6. InviteType' /\ InvitesListed' /\ InvitesOurs'
    BY <1>1, Same_Invites
<1>7. Existing'
    <2> SUFFICES ASSUME NEW d \in Channel
                 PROVE  /\ d \notin channel' => /\ members'[d] = {} /\ banlist'[d] = {}
                                                /\ invites'[d] = {} /\ mode'[d] = {}
                        /\ d \in channel' => members'[d] # {} \/ d \in kept'
        BY DEF Existing
    <2>1. CASE d = c
        BY <2>1, <1>3
    <2>2. CASE d # c
        BY <2>2, <1>1, <1>3 DEF Existing
    <2> QED
        BY <2>1, <2>2
<1>8. InvitesFresh'
    <2> SUFFICES ASSUME NEW v \in Guest, NEW d \in Channel, v \in invites'[d]
                 PROVE  /\ <<v, d>> \in invitable'
                        /\ v \in members'[d] => d \in odd' \/ v \in stealth'
        BY DEF InvitesFresh
    <2>1. v \in invites[d] /\ v # u
        BY <1>1 DEF InvitesOurs
    <2>2. /\ <<v, d>> \in invitable
          /\ v \in members[d] => d \in odd \/ v \in stealth
        BY <2>1 DEF InvitesFresh
    <2>3. v \in members'[d] => v \in members[d]
        BY <2>1, <1>3
    <2> QED
        BY <2>1, <2>2, <2>3, <1>1
<1> QED
    BY <1>3, <1>4, <1>5, <1>6, <1>7, <1>8

(* +S or -S of a client: the channels that it is in count no longer.        *)
LEMMA Stealth_Changes ==
    ASSUME RoomInv, NEW u \in Guest, Stealthy(u)
    PROVE  RoomInv'
<1> USE DEF RoomInv
<1>1. /\ stealth' = IF u \in stealth THEN stealth \ {u} ELSE stealth \cup {u}
      /\ odd' = odd \cup userchannel[u]
      /\ UNCHANGED <<channel, mode, members, chanop, users, iusers, userchannel, joined, kept>>
      /\ UNCHANGED <<banlist, num_bed, invites, invited, invitable>>
      /\ UNCHANGED talk /\ CurrentTime' = CurrentTime
    BY DEF Stealthy, still, banlists
<1>2. MemberType'
    BY <1>1 DEF MemberType
<1>3. SidesAgree' /\ JoinsCounted'
    BY <1>1 DEF Membership, SidesAgree, JoinsCounted
<1>4. MembersCounted'
    <2> SUFFICES ASSUME NEW c \in Channel
                 PROVE  (/\ IsFiniteSet(members[c]) /\ users[c] = Cardinality(members[c])
                         /\ chanop[c] \subseteq members[c]
                         /\ c \in odd \/ iusers[c] = Cardinality(members[c] \cap stealth))'
        BY DEF MembersCounted
    <2>1. /\ IsFiniteSet(members[c]) /\ users[c] = Cardinality(members[c])
          /\ chanop[c] \subseteq members[c]
          /\ c \in odd \/ iusers[c] = Cardinality(members[c] \cap stealth)
        BY DEF Membership, MembersCounted
    <2>2. CASE u \in members[c]
        <3>1. c \in odd'
            BY <2>2, <1>1 DEF Membership, SidesAgree
        <3> QED
            BY <2>1, <3>1, <1>1
    <2>3. CASE u \notin members[c]
        <3>1. members'[c] \cap stealth' = members[c] \cap stealth
            BY <2>3, <1>1
        <3> QED
            BY <2>1, <3>1, <1>1
    <2> QED
        BY <2>2, <2>3
<1>5. TalkType' /\ FloodKept'
    BY <1>1, Same_Talk
<1>6. BanType' /\ BansCounted' /\ ModeType'
    BY <1>1, Same_Bans DEF Bandages, ModeType
<1>7. InviteType' /\ InvitesListed' /\ InvitesOurs'
    BY <1>1, Same_Invites
<1>8. Existing'
    BY <1>1 DEF Existing
<1>9. InvitesFresh'
    <2> SUFFICES ASSUME NEW v \in Guest, NEW d \in Channel, v \in invites'[d]
                 PROVE  /\ <<v, d>> \in invitable'
                        /\ v \in members'[d] => d \in odd' \/ v \in stealth'
        BY DEF InvitesFresh
    <2>1. /\ <<v, d>> \in invitable
          /\ v \in members[d] => d \in odd \/ v \in stealth
        BY <1>1 DEF InvitesFresh
    <2>2. CASE v = u /\ v \in members[d]
        <3>1. d \in userchannel[u]
            BY <2>2 DEF Membership, SidesAgree
        <3> QED
            BY <3>1, <2>1, <1>1
    <2>3. CASE v = u /\ v \notin members[d]
        BY <2>1, <2>3, <1>1
    <2>4. CASE v # u
        BY <2>1, <2>4, <1>1
    <2> QED
        BY <2>2, <2>3, <2>4
<1> QED
    BY <1>2, <1>3, <1>4, <1>5, <1>6, <1>7, <1>8, <1>9 DEF Membership

LEMMA Client_Invited ==
    ASSUME RoomInv, NEW by \in Guest, NEW u \in Guest, NEW c \in Channel, m_invite(by, u, c)
    PROVE  RoomInv'
<1> USE DEF RoomInv
<1>1. /\ c \in channel /\ u \in Local
      /\ u \notin members[c] \/ u \in stealth
      /\ add_invite(u, c)
      /\ UNCHANGED <<channel, kept>> /\ UNCHANGED Clubs /\ UNCHANGED Bandages
      /\ UNCHANGED mode /\ UNCHANGED talk /\ CurrentTime' = CurrentTime
    BY DEF m_invite, books, Clubs, Bandages, still
<1>2. MemberType' /\ Membership'
    BY <1>1, Same_Members
<1>3. BanType' /\ BansCounted' /\ ModeType'
    BY <1>1, Same_Bans DEF ModeType
<1>4. TalkType' /\ FloodKept'
    BY <1>1, Same_Talk
<1>5. /\ InviteType' /\ InvitesListed'
      /\ \A v \in Guest, d \in Channel :
            v \in invites'[d] => /\ <<v, d>> \in invitable'
                                 /\ v \in invites[d] \/ (v = u /\ d = c)
    <2>1. \A v \in Guest, d \in Channel : v \in invites[d] => <<v, d>> \in invitable
        BY DEF InvitesFresh
    <2> QED
        BY <1>1, <2>1, Add_Invite
<1>6. \A d \in Channel : /\ invites'[d] \subseteq invites[d] \cup {u}
                         /\ d # c => invites'[d] \subseteq invites[d]
    BY <1>5 DEF InviteType
<1>7. InvitesOurs'
    BY <1>1, <1>6 DEF InvitesOurs
<1>8. \A d \in Channel : d \notin channel => invites'[d] = {}
    BY <1>1, <1>6 DEF Existing
<1>9. Existing'
    BY <1>1, <1>8 DEF Existing, Clubs, Bandages
<1>10. InvitesFresh'
    <2> SUFFICES ASSUME NEW v \in Guest, NEW d \in Channel, v \in invites'[d]
                 PROVE  /\ <<v, d>> \in invitable'
                        /\ v \in members'[d] => d \in odd' \/ v \in stealth'
        BY DEF InvitesFresh
    <2>1. <<v, d>> \in invitable' /\ (v \in invites[d] \/ (v = u /\ d = c))
        BY <1>5
    <2>2. CASE v \in invites[d]
        BY <2>1, <2>2, <1>1 DEF InvitesFresh, Clubs
    <2>3. CASE v = u /\ d = c
        BY <2>1, <2>3, <1>1 DEF Clubs
    <2> QED
        BY <2>1, <2>2, <2>3
<1> QED
    BY <1>2, <1>3, <1>4, <1>5, <1>7, <1>9, <1>10

LEMMA Mode_Set ==
    ASSUME RoomInv, NEW by \in Guest, NEW c \in Channel, NEW x \in Mode, SetMode(by, c, x)
    PROVE  RoomInv'
<1> USE DEF RoomInv
<1>1. /\ c \in channel /\ mode' = [mode EXCEPT ![c] = @ \cup {x}]
      /\ UNCHANGED <<channel, kept>> /\ UNCHANGED Clubs /\ UNCHANGED Bandages
      /\ UNCHANGED <<invites, invited>> /\ invitable' = invitable
      /\ UNCHANGED talk /\ CurrentTime' = CurrentTime
    BY DEF SetMode, books, Clubs, Bandages, banlists, still
<1>2. MemberType' /\ Membership'
    BY <1>1, Same_Members
<1>3. BanType' /\ BansCounted'
    BY <1>1, Same_Bans
<1>4. InviteType' /\ InvitesListed' /\ InvitesOurs'
    BY <1>1, Same_Invites
<1>5. TalkType' /\ FloodKept'
    BY <1>1, Same_Talk
<1>6. ModeType' /\ \A d \in Channel : d # c => mode'[d] = mode[d]
    BY <1>1 DEF ModeType, Letters
<1>7. Existing'
    BY <1>1, <1>6 DEF Existing, Clubs, Bandages
<1>8. InvitesFresh'
    BY <1>1 DEF InvitesFresh, Clubs
<1> QED
    BY <1>2, <1>3, <1>4, <1>5, <1>6, <1>7, <1>8

LEMMA Mode_Unset ==
    ASSUME RoomInv, NEW by \in Guest, NEW c \in Channel, NEW x \in Mode, UnsetMode(by, c, x)
    PROVE  RoomInv'
<1> USE DEF RoomInv
<1> DEFINE P == Withdrawn(TakenBack(c, x), {})
<1>1. /\ c \in channel /\ mode' = [mode EXCEPT ![c] = @ \ {x}]
      /\ UNCHANGED <<channel, kept>> /\ UNCHANGED Clubs /\ UNCHANGED Bandages
      /\ del_invite(P)
      /\ invitable' = IF x = "i" THEN {p \in invitable : p[2] # c} ELSE invitable
      /\ UNCHANGED talk /\ CurrentTime' = CurrentTime
    BY DEF UnsetMode, books, Clubs, Bandages, banlists, still
<1>2. MemberType' /\ Membership'
    BY <1>1, Same_Members
<1>3. BanType' /\ BansCounted'
    BY <1>1, Same_Bans
<1>4. /\ InviteType' /\ InvitesListed'
      /\ \A d \in Channel, v \in Guest :
            v \in invites'[d] <=> v \in invites[d] /\ <<v, d>> \notin P
    BY <1>1, Del_Invite
<1>5. \A d \in Channel : invites'[d] \subseteq invites[d]
    BY <1>4 DEF InviteType
<1>6. InvitesOurs'
    BY <1>5 DEF InvitesOurs
<1>7. TalkType' /\ FloodKept'
    BY <1>1, Same_Talk
<1>8. ModeType' /\ \A d \in Channel : d # c => mode'[d] = mode[d]
    BY <1>1 DEF ModeType
<1>9. Existing'
    <2> SUFFICES ASSUME NEW d \in Channel
                 PROVE  /\ d \notin channel' => /\ members'[d] = {} /\ banlist'[d] = {}
                                                /\ invites'[d] = {} /\ mode'[d] = {}
                        /\ d \in channel' => members'[d] # {} \/ d \in kept'
        BY DEF Existing
    <2>1. /\ members'[d] = members[d] /\ banlist'[d] = banlist[d]
          /\ invites'[d] \subseteq invites[d] /\ (d \in channel' <=> d \in channel)
          /\ (d \in kept' <=> d \in kept)
          /\ d \notin channel => mode'[d] = mode[d]
        BY <1>1, <1>5, <1>8 DEF Clubs, Bandages
    <2> QED
        BY <2>1 DEF Existing
<1>10. InvitesFresh'
    <2> SUFFICES ASSUME NEW v \in Guest, NEW d \in Channel, v \in invites'[d]
                 PROVE  /\ <<v, d>> \in invitable'
                        /\ v \in members'[d] => d \in odd' \/ v \in stealth'
        BY DEF InvitesFresh
    <2>1. v \in invites[d] /\ <<v, d>> \notin P
        BY <1>4
    <2>2. /\ <<v, d>> \in invitable
          /\ v \in members[d] => d \in odd \/ v \in stealth
        BY <2>1 DEF InvitesFresh
    <2>3. x = "i" => d # c
        BY <2>1 DEF Withdrawn, TakenBack
    <2> QED
        BY <2>2, <2>3, <1>1 DEF Clubs
<1> QED
    BY <1>2, <1>3, <1>4, <1>6, <1>7, <1>8, <1>9, <1>10

LEMMA Ops_Change ==
    ASSUME RoomInv, NEW by \in Guest, NEW u \in Guest, NEW c \in Channel, Opping(by, u, c)
    PROVE  RoomInv'
<1> USE DEF RoomInv
<1>1. PICK v \in {chanop[c] \cup {u}, chanop[c] \ {u}} : chanop' = [chanop EXCEPT ![c] = v]
    BY DEF Opping
<1>2. /\ u \in members[c]
      /\ UNCHANGED <<channel, members, users, iusers, userchannel, joined, odd, kept, stealth>>
      /\ UNCHANGED Bandages /\ UNCHANGED mode
      /\ UNCHANGED <<invites, invited>> /\ invitable' = invitable
      /\ UNCHANGED talk /\ CurrentTime' = CurrentTime
    BY DEF Opping, Bandages, banlists, still
<1>3. /\ chanop' \in [Channel -> SUBSET Guest] /\ chanop'[c] \subseteq chanop[c] \cup {u}
      /\ \A d \in Channel : d # c => chanop'[d] = chanop[d]
    BY <1>1 DEF MemberType
<1>4. MemberType'
    BY <1>2, <1>3 DEF MemberType
<1>5. \A d \in Channel : chanop[d] \subseteq members[d]
    BY DEF Membership, MembersCounted
<1>6. \A d \in Channel : chanop'[d] \subseteq members[d]
    BY <1>2, <1>3, <1>5
<1>7. Membership'
    BY <1>2, <1>6 DEF Membership, SidesAgree, MembersCounted, JoinsCounted
<1>8. BanType' /\ BansCounted' /\ ModeType'
    BY <1>2, Same_Bans DEF ModeType
<1>9. InviteType' /\ InvitesListed' /\ InvitesOurs'
    BY <1>2, Same_Invites
<1>10. TalkType' /\ FloodKept'
    BY <1>2, Same_Talk
<1>11. Existing' /\ InvitesFresh'
    BY <1>2 DEF Existing, InvitesFresh, Bandages
<1> QED
    BY <1>4, <1>7, <1>8, <1>9, <1>10, <1>11

LEMMA Bans_Change ==
    ASSUME RoomInv, NEW by \in Guest, NEW c \in Channel, NEW m \in Banmask,
           add_banid(by, c, m) \/ del_banid(by, c, m)
    PROVE  RoomInv'
<1> USE DEF RoomInv
<1>1. /\ UNCHANGED <<channel, kept>> /\ UNCHANGED Clubs /\ UNCHANGED mode
      /\ UNCHANGED <<invites, invited>> /\ invitable' = invitable
      /\ UNCHANGED talk /\ CurrentTime' = CurrentTime
    BY DEF add_banid, del_banid, books, Clubs, still
<1>2. MemberType' /\ Membership'
    BY <1>1, Same_Members
<1>3. ModeType'
    BY <1>1 DEF ModeType
<1>4. InviteType' /\ InvitesListed' /\ InvitesOurs'
    BY <1>1, Same_Invites
<1>5. TalkType' /\ FloodKept'
    BY <1>1, Same_Talk
<1>6. IsFiniteSet(banlist[c]) /\ num_bed[c] = Cardinality(banlist[c])
    BY DEF BansCounted
<1>7. /\ banlist' \in [Channel -> SUBSET Banmask] /\ num_bed' \in [Channel -> Int]
      /\ \A d \in Channel : d # c => banlist'[d] = banlist[d] /\ num_bed'[d] = num_bed[d]
      /\ IsFiniteSet(banlist'[c]) /\ num_bed'[c] = Cardinality(banlist'[c])
      /\ c \in channel
    <2>1. CASE add_banid(by, c, m)
        <3>1. /\ c \in channel /\ ~\E n \in banlist[c] : CoversMask(n, m)
              /\ banlist' = [banlist EXCEPT ![c] = @ \cup {m}]
              /\ num_bed' = [num_bed EXCEPT ![c] = @ + 1]
            BY <2>1 DEF add_banid
        <3>2. m \notin banlist[c]
            BY <3>1 DEF CoversMask
        <3>3. /\ IsFiniteSet(banlist[c] \cup {m})
              /\ Cardinality(banlist[c] \cup {m}) = Cardinality(banlist[c]) + 1
            BY <3>2, <1>6, Count_Add
        <3> QED
            BY <3>1, <3>3, <1>6 DEF BanType
    <2>2. CASE del_banid(by, c, m)
        <3>1. /\ m \in banlist[c]
              /\ banlist' = [banlist EXCEPT ![c] = @ \ {m}]
              /\ num_bed' = [num_bed EXCEPT ![c] = @ - 1]
            BY <2>2 DEF del_banid
        <3>2. c \in channel
            BY <3>1 DEF Existing
        <3>3. /\ IsFiniteSet(banlist[c] \ {m})
              /\ Cardinality(banlist[c] \ {m}) = Cardinality(banlist[c]) - 1
            BY <3>1, <1>6, Count_Remove
        <3> QED
            BY <3>1, <3>2, <3>3, <1>6 DEF BanType
    <2> QED
        BY <2>1, <2>2
<1>8. BanType' /\ BansCounted'
    BY <1>7 DEF BanType, BansCounted
<1>9. Existing'
    BY <1>1, <1>7 DEF Existing, Clubs
<1>10. InvitesFresh'
    BY <1>1 DEF InvitesFresh, Clubs
<1> QED
    BY <1>2, <1>3, <1>4, <1>5, <1>8, <1>9, <1>10

LEMMA Somebody_Speaks ==
    ASSUME RoomInv, NEW u \in Guest, NEW c \in Channel, Say(u, c)
    PROVE  RoomInv'
<1> USE DEF RoomInv
<1> DEFINE n == IF Waited(u, c) THEN 1 ELSE nmsg[c][u] + 1
<1>1. /\ UNCHANGED <<channel, kept>> /\ UNCHANGED Clubs /\ UNCHANGED mode
      /\ UNCHANGED Bandages /\ UNCHANGED <<invites, invited>> /\ invitable' = invitable
      /\ CurrentTime' = CurrentTime
      /\ UNCHANGED talk \/ (/\ nmsg' = [nmsg EXCEPT ![c][u] = n]
                            /\ lastmsg' = [lastmsg EXCEPT ![c][u] = CurrentTime]
                            /\ heard' = IF n >= MSGS THEN heard
                                        ELSE [heard EXCEPT ![c][u] = Append(@, CurrentTime)])
    BY DEF Say, books, Clubs, Bandages, banlists, still
<1>2. MemberType' /\ Membership'
    BY <1>1, Same_Members
<1>3. BanType' /\ BansCounted' /\ ModeType'
    BY <1>1, Same_Bans DEF ModeType
<1>4. InviteType' /\ InvitesListed' /\ InvitesOurs'
    BY <1>1, Same_Invites
<1>5. Existing' /\ InvitesFresh'
    BY <1>1 DEF Existing, InvitesFresh, Clubs, Bandages
<1>6. CASE UNCHANGED talk
    BY <1>1, <1>2, <1>3, <1>4, <1>5, <1>6, Same_Talk
<1>7. CASE /\ nmsg' = [nmsg EXCEPT ![c][u] = n]
           /\ lastmsg' = [lastmsg EXCEPT ![c][u] = CurrentTime]
           /\ heard' = IF n >= MSGS THEN heard
                       ELSE [heard EXCEPT ![c][u] = Append(@, CurrentTime)]
    <2>1. /\ nmsg[c][u] \in Nat /\ lastmsg[c][u] \in Nat /\ heard[c][u] \in Seq(Nat)
          /\ CurrentTime \in Nat
        BY DEF TalkType
    <2>2. n \in Nat /\ n = IF CurrentTime - lastmsg[c][u] >= PER THEN 1 ELSE nmsg[c][u] + 1
        BY <2>1 DEF Waited
    <2> HIDE DEF n
    <2>3. FloodOf(heard[c][u], nmsg[c][u], lastmsg[c][u], CurrentTime)
        BY DEF FloodKept
    <2>4. /\ n >= MSGS => FloodOf(heard[c][u], n, CurrentTime, CurrentTime)
          /\ n < MSGS => FloodOf(Append(heard[c][u], CurrentTime), n, CurrentTime, CurrentTime)
        BY <2>1, <2>2, <2>3, Flood_Line
    <2>5. /\ nmsg' \in [Channel -> [Guest -> Nat]] /\ nmsg'[c][u] = n
          /\ lastmsg' \in [Channel -> [Guest -> Nat]] /\ lastmsg'[c][u] = CurrentTime
          /\ \A d \in Channel, v \in Guest :
                d # c \/ v # u => nmsg'[d][v] = nmsg[d][v] /\ lastmsg'[d][v] = lastmsg[d][v]
        BY <1>7, <2>1, <2>2 DEF TalkType
    <2>6. /\ heard' \in [Channel -> [Guest -> Seq(Nat)]]
          /\ n >= MSGS => heard'[c][u] = heard[c][u]
          /\ ~(n >= MSGS) => heard'[c][u] = Append(heard[c][u], CurrentTime)
          /\ \A d \in Channel, v \in Guest : d # c \/ v # u => heard'[d][v] = heard[d][v]
        <3>1. CASE n >= MSGS
            BY <3>1, <1>7 DEF TalkType
        <3>2. CASE ~(n >= MSGS)
            <4>1. Append(heard[c][u], CurrentTime) \in Seq(Nat)
                BY <2>1
            <4>2. heard' = [heard EXCEPT ![c][u] = Append(heard[c][u], CurrentTime)]
                BY <3>2, <1>7
            <4> QED
                BY <3>2, <4>1, <4>2 DEF TalkType
        <3> QED
            BY <3>1, <3>2
    <2>7. TalkType'
        BY <1>1, <2>1, <2>5, <2>6 DEF TalkType
    <2>8. ASSUME NEW d \in Channel, NEW v \in Guest
          PROVE  FloodOf(heard'[d][v], nmsg'[d][v], lastmsg'[d][v], CurrentTime')
        <3>1. CASE d = c /\ v = u
            <4>1. n >= MSGS \/ n < MSGS
                BY <2>2, RoomAssumption
            <4>2. ~(n >= MSGS) <=> n < MSGS
                BY <2>2, RoomAssumption
            <4> QED
                BY <3>1, <4>1, <4>2, <1>1, <2>4, <2>5, <2>6
        <3>2. CASE d # c \/ v # u
            <4>1. FloodOf(heard[d][v], nmsg[d][v], lastmsg[d][v], CurrentTime)
                BY DEF FloodKept
            <4> QED
                BY <3>2, <4>1, <1>1, <2>5, <2>6
        <3> QED
            BY <3>1, <3>2
    <2>9. FloodKept'
        BY <2>8 DEF FloodKept
    <2> QED
        BY <1>2, <1>3, <1>4, <1>5, <2>7, <2>9
<1> QED
    BY <1>1, <1>6, <1>7

LEMMA Second_Passes ==
    ASSUME RoomInv, Second
    PROVE  RoomInv'
<1> USE DEF RoomInv
<1>1. /\ UNCHANGED <<channel, kept>> /\ UNCHANGED Clubs /\ UNCHANGED mode
      /\ UNCHANGED Bandages /\ UNCHANGED <<invites, invited>> /\ invitable' = invitable
      /\ CurrentTime' = CurrentTime + 1
      /\ nmsg' = nmsg /\ lastmsg' = lastmsg /\ heard' = heard
    BY DEF Second, books, Clubs, Bandages, banlists, talk
<1>2. MemberType' /\ Membership'
    BY <1>1, Same_Members
<1>3. BanType' /\ BansCounted' /\ ModeType'
    BY <1>1, Same_Bans DEF ModeType
<1>4. InviteType' /\ InvitesListed' /\ InvitesOurs'
    BY <1>1, Same_Invites
<1>5. Existing' /\ InvitesFresh'
    BY <1>1 DEF Existing, InvitesFresh, Clubs, Bandages
<1>6. TalkType'
    BY <1>1 DEF TalkType
<1>7. ASSUME NEW c \in Channel, NEW u \in Guest
      PROVE  FloodOf(heard'[c][u], nmsg'[c][u], lastmsg'[c][u], CurrentTime')
    <2>1. /\ FloodOf(heard[c][u], nmsg[c][u], lastmsg[c][u], CurrentTime)
          /\ lastmsg[c][u] \in Nat /\ CurrentTime \in Nat
        BY DEF FloodKept, TalkType
    <2>2. FloodOf(heard[c][u], nmsg[c][u], lastmsg[c][u], CurrentTime + 1)
        BY <2>1, Flood_Later
    <2> QED
        BY <2>2, <1>1
<1>8. FloodKept'
    BY <1>7 DEF FloodKept
<1> QED
    BY <1>2, <1>3, <1>4, <1>5, <1>6, <1>8

LEMMA Init_Room == RInit => RoomInv
<1> SUFFICES ASSUME RInit PROVE RoomInv
    OBVIOUS
<1> USE RoomAssumption DEF RInit, ForEach
<1>1. MemberType
    BY DEF MemberType
<1>2. ModeType /\ BanType /\ InviteType
    BY DEF ModeType, BanType, InviteType
<1>3. TalkType
    BY DEF TalkType
<1>4. SidesAgree
    BY DEF SidesAgree
<1>5. MembersCounted
    <2> SUFFICES ASSUME NEW c \in Channel
                 PROVE  /\ IsFiniteSet(members[c]) /\ users[c] = Cardinality(members[c])
                        /\ chanop[c] \subseteq members[c]
                        /\ c \in odd \/ iusers[c] = Cardinality(members[c] \cap stealth)
        BY DEF MembersCounted
    <2>1. members[c] = {} /\ members[c] \cap stealth = {} /\ users[c] = 0 /\ iusers[c] = 0
          /\ chanop[c] = {}
        OBVIOUS
    <2> QED
        BY <2>1, FS_EmptySet
<1>6. JoinsCounted /\ BansCounted
    <2>1. \A c \in Channel : banlist[c] = {} /\ num_bed[c] = 0
        OBVIOUS
    <2>2. \A u \in Guest : userchannel[u] = {} /\ joined[u] = 0
        OBVIOUS
    <2> QED
        BY <2>1, <2>2, FS_EmptySet DEF JoinsCounted, BansCounted
<1>7. Existing /\ InvitesOurs /\ InvitesFresh
    BY DEF Existing, InvitesOurs, InvitesFresh
<1>8. InvitesListed
    BY DEF InvitesListed, Contains, IsInjective
<1>9. FloodKept
    <2>1. \A c \in Channel, u \in Guest :
             heard[c][u] = << >> /\ nmsg[c][u] = 0 /\ lastmsg[c][u] = 0 /\ CurrentTime = 0
        OBVIOUS
    <2> QED
        BY <2>1, Flood_None DEF FloodKept
<1> QED
    BY <1>1, <1>2, <1>3, <1>4, <1>5, <1>6, <1>7, <1>8, <1>9 DEF RoomInv, Membership

LEMMA Step_Room ==
    ASSUME RoomInv, [RNext]_rvars
    PROVE  RoomInv'
<1>1. CASE UNCHANGED rvars
    <2>1. /\ UNCHANGED <<channel, kept>> /\ UNCHANGED Clubs /\ UNCHANGED mode
          /\ UNCHANGED Bandages /\ UNCHANGED <<invites, invited>> /\ invitable' = invitable
          /\ CurrentTime' = CurrentTime /\ UNCHANGED talk
        BY <1>1 DEF rvars, Clubs, Bandages, talk
    <2> USE DEF RoomInv
    <2>2. /\ MemberType' /\ Membership' /\ BanType' /\ BansCounted' /\ ModeType'
          /\ InviteType' /\ InvitesListed' /\ InvitesOurs' /\ TalkType' /\ FloodKept'
        BY <2>1, Same_Members, Same_Bans, Same_Invites, Same_Talk DEF ModeType
    <2>3. Existing' /\ InvitesFresh'
        BY <2>1 DEF Existing, InvitesFresh, Clubs, Bandages
    <2> QED
        BY <2>2, <2>3
<1>2. CASE Second
    BY <1>2, Second_Passes
<1>3. ASSUME NEW u \in Guest, LeaveAll(u) \/ JoinZero(u) \/ Stealthy(u) PROVE RoomInv'
    BY <1>3, Somebody_Leaves, Stealth_Changes
<1>4. ASSUME NEW u \in Guest, NEW c \in Channel, RemoteJoin(u, c) \/ Say(u, c) PROVE RoomInv'
    BY <1>4, Remote_Comes_In, Somebody_Speaks
<1>5. ASSUME NEW u \in Guest, NEW c \in Channel, Part(u, c) PROVE RoomInv'
    BY <1>5, Somebody_Parts
<1>6. ASSUME NEW u \in Guest, NEW c \in Channel, NEW key \in BOOLEAN, m_join(u, c, key)
      PROVE  RoomInv'
    BY <1>6, Client_Comes_In DEF m_join
<1>7. ASSUME NEW u \in Guest, NEW c \in Channel, NEW v \in Guest, NEW meant \in BOOLEAN,
             m_svsjoin(u, v, c, meant) \/ m_svspart(u, v, c, meant)
      PROVE  RoomInv'
    BY <1>7, Client_Comes_In, Somebody_Parts DEF m_svsjoin
<1>8. ASSUME NEW u \in Guest, NEW c \in Channel, NEW v \in Guest,
             m_kick(u, v, c) \/ m_invite(u, v, c) \/ Opping(u, v, c)
      PROVE  RoomInv'
    BY <1>8, Somebody_Parts, Client_Invited, Ops_Change
<1>9. ASSUME NEW u \in Guest, NEW c \in Channel, NEW x \in Mode,
             SetMode(u, c, x) \/ UnsetMode(u, c, x)
      PROVE  RoomInv'
    BY <1>9, Mode_Set, Mode_Unset
<1>10. ASSUME NEW u \in Guest, NEW c \in Channel, NEW m \in Banmask,
              add_banid(u, c, m) \/ del_banid(u, c, m)
       PROVE  RoomInv'
    BY <1>10, Bans_Change
<1> QED
    BY <1>1, <1>2, <1>3, <1>4, <1>5, <1>6, <1>7, <1>8, <1>9, <1>10 DEF RNext

(* The books of every channel, the invitations to it and its flood limit    *)
(* are right after every step.  (add_user_to_channel,                       *)
(* remove_user_from_channel, sub1_from_channel, add_invite, del_invite,     *)
(* add_banid, check_for_chan_flood.)                                        *)
THEOREM Room_Holds == RSpec => []RoomRight
<1>1. RInit => RoomInv
    BY Init_Room
<1>2. RoomInv /\ [RNext]_rvars => RoomInv'
    BY Step_Room
<1>3. RoomInv => RoomRight
    BY Room_Right
<1> QED
    BY <1>1, <1>2, <1>3, PTL DEF RSpec

-----------------------------------------------------------------------------
(* The history of nicks (Past).  The ring, read backwards from whowas_next,  *)
(* is the list of the last changes, and the lists through it keep its order. *)

Length == NICKNAMEHISTORYLENGTH
(* How many changes ago the record at place i was written, the last 1.      *)
Age == [i \in Place |->
          IF i < whowas_next THEN whowas_next - i ELSE whowas_next - i + Length]

Past_Entry == [name : Nick_, at : Nat, who : Bearer \cup {Unborn}]
History_Entry == [name : Nick_ \cup {Unborn}, hashv : Int, logoff : Nat, online : Bearer \cup {Unborn}]

PastType ==
    /\ WHOWAS \in [Place -> History_Entry] /\ whowas_next \in Place
    /\ WHOWASHASH \in [Hashes -> Seq(Place)] /\ whowas \in [Bearer -> Seq(Place)]
    /\ bears \in [Bearer -> Nick_ \cup {Unborn}]
    /\ CurrentSecond \in Nat /\ past \in Seq(Past_Entry)

(* A record is what was written as long ago as its place says.              *)
RingRight ==
    \A i \in Place :
        /\ Age[i] <= Len(past) => /\ WHOWAS[i].name = past[Age[i]].name
                                  /\ WHOWAS[i].hashv = HashOf[past[Age[i]].name]
                                  /\ WHOWAS[i].logoff = past[Age[i]].at
                                  /\ WHOWAS[i].online = past[Age[i]].who
        /\ Age[i] > Len(past) => WHOWAS[i].hashv = -1 /\ WHOWAS[i].online = Unborn

(* The lists of the hash table: the newest first, and nothing else.         *)
BucketsRight ==
    \A h \in Hashes :
        /\ \A j, k \in 1 .. Len(WHOWASHASH[h]) :
              j < k => Age[WHOWASHASH[h][j]] < Age[WHOWASHASH[h][k]]
        /\ \A i \in Place : Contains(WHOWASHASH[h], i) <=> WHOWAS[i].hashv = h

ClientsRight ==
    \A c \in Bearer, i \in Place : Contains(whowas[c], i) <=> WHOWAS[i].online = c

TimesRise ==
    /\ \A k \in 1 .. Len(past) : past[k].at <= CurrentSecond
    /\ \A j, k \in 1 .. Len(past) : j < k => past[k].at <= past[j].at

PastInv == PastType /\ RingRight /\ BucketsRight /\ ClientsRight /\ TimesRise

LEMMA Age_Facts ==
    ASSUME whowas_next \in Place
    PROVE  /\ \A i \in Place : Age[i] \in 1 .. Length
           /\ \A i, j \in Place : Age[i] = Age[j] => i = j
           /\ \A k \in 1 .. Length : \E i \in Place : Age[i] = k
<1> USE PastAssumption DEF Place, Length, Age
<1>1. \A i \in Place : Age[i] \in 1 .. Length
    OBVIOUS
<1>2. \A i, j \in Place : Age[i] = Age[j] => i = j
    OBVIOUS
<1>3. ASSUME NEW k \in 1 .. Length
      PROVE  \E i \in Place : Age[i] = k
    <2>1. CASE k < whowas_next
        <3>1. whowas_next - k \in Place /\ Age[whowas_next - k] = k
            BY <2>1
        <3> QED
            BY <3>1
    <2>2. CASE ~(k < whowas_next)
        <3>1. whowas_next - k + Length \in Place /\ Age[whowas_next - k + Length] = k
            BY <2>2
        <3> QED
            BY <3>1
    <2> QED
        BY <2>1, <2>2
<1> QED
    BY <1>1, <1>2, <1>3

LEMMA Age_Step ==
    ASSUME whowas_next \in Place, whowas_next' = (whowas_next % NICKNAMEHISTORYLENGTH) + 1
    PROVE  /\ whowas_next' \in Place
           /\ \A i \in Place : /\ i = whowas_next => Age[i] = Length /\ Age'[i] = 1
                               /\ i # whowas_next => Age'[i] = Age[i] + 1
<1> USE PastAssumption DEF Place, Length
<1>1. CASE whowas_next = Length
    <2>1. whowas_next % Length = 0
        BY <1>1
    <2>2. whowas_next' = 1
        BY <2>1
    <2>3. \A i \in Place : i # Length => i < Length /\ ~(i < 1)
        OBVIOUS
    <2> QED
        BY <1>1, <2>2, <2>3 DEF Age
<1>2. CASE whowas_next # Length
    <2>1. whowas_next \in Nat /\ whowas_next < Length
        BY <1>2
    <2>2. whowas_next % Length = whowas_next
        BY <2>1
    <2>3. whowas_next' = whowas_next + 1
        BY <2>2
    <2> QED
        BY <2>1, <2>3 DEF Age
<1> QED
    BY <1>1, <1>2

(* A list without place i.                                                  *)
LEMMA Others_Facts ==
    ASSUME NEW s \in Seq(Place), NEW i \in Place
    PROVE  /\ Others(s, i) \in Seq(Place)
           /\ \A j \in Place : Contains(Others(s, i), j) <=> Contains(s, j) /\ j # i
           /\ \A j, k \in 1 .. Len(Others(s, i)) : j < k =>
                 \E a, b \in 1 .. Len(s) : /\ a < b
                                           /\ Others(s, i)[j] = s[a] /\ Others(s, i)[k] = s[b]
<1> DEFINE I == {k \in DOMAIN s : s[k] # i}
           p == Pick(s, I)
<1>1. Others(s, i) = p
    BY DEF Others
<1>2. /\ I \subseteq DOMAIN s /\ \A k \in I : k \in 1 .. Len(s) /\ s[k] # i
      /\ \A k \in 1 .. Len(s) : s[k] # i => k \in I
    OBVIOUS
<1>0. I \subseteq DOMAIN s
    OBVIOUS
<1> HIDE DEF I
<1>3. /\ p \in Seq(Place)
      /\ \A k \in 1 .. Len(p) : \E m \in I : p[k] = s[m]
      /\ \A m \in I : \E k \in 1 .. Len(p) : p[k] = s[m]
      /\ \A j, k \in 1 .. Len(p) : j < k => \E a, b \in I : a < b /\ p[j] = s[a] /\ p[k] = s[b]
    <2>1. p \in Seq(Place) /\ \A k \in 1 .. Len(p) : \E m \in I : p[k] = s[m]
        BY ONLY <1>0, s \in Seq(Place), Pick_Facts
    <2>2. \A m \in I : \E k \in 1 .. Len(p) : p[k] = s[m]
        BY ONLY <1>0, s \in Seq(Place), Pick_Facts
    <2>3. \A j, k \in 1 .. Len(p) : j < k =>
             \E a, b \in I : a < b /\ p[j] = s[a] /\ p[k] = s[b]
        BY ONLY <1>0, s \in Seq(Place), Pick_Facts
    <2> QED
        BY ONLY <2>1, <2>2, <2>3
<1> HIDE DEF p
<1>5. \A j, k \in 1 .. Len(p) : j < k =>
          \E a, b \in 1 .. Len(s) : a < b /\ p[j] = s[a] /\ p[k] = s[b]
    <2> SUFFICES ASSUME NEW j \in 1 .. Len(p), NEW k \in 1 .. Len(p), j < k
                 PROVE  \E a, b \in 1 .. Len(s) : a < b /\ p[j] = s[a] /\ p[k] = s[b]
        OBVIOUS
    <2>1. PICK a \in I, b \in I : a < b /\ p[j] = s[a] /\ p[k] = s[b]
        BY <1>3
    <2>2. a \in 1 .. Len(s) /\ b \in 1 .. Len(s)
        BY <1>2
    <2> QED
        BY <2>1, <2>2
<1>4. \A j \in Place : Contains(p, j) <=> Contains(s, j) /\ j # i
    <2> SUFFICES ASSUME NEW j \in Place PROVE Contains(p, j) <=> Contains(s, j) /\ j # i
        OBVIOUS
    <2>1. ASSUME Contains(p, j) PROVE Contains(s, j) /\ j # i
        BY <2>1, <1>2, <1>3 DEF Contains
    <2>2. ASSUME Contains(s, j), j # i PROVE Contains(p, j)
        <3>1. PICK k \in 1 .. Len(s) : s[k] = j
            BY <2>2 DEF Contains
        <3>2. k \in I
            BY <3>1, <2>2, <1>2
        <3> QED
            BY <3>1, <3>2, <1>3 DEF Contains
    <2> QED
        BY <2>1, <2>2
<1> QED
    BY ONLY <1>1, <1>3, <1>4, <1>5

LEMMA Unlinked_Facts ==
    ASSUME PastInv, NEW i \in Place, NEW d \in Bearer
    PROVE  /\ Unlinked(i)[d] \in Seq(Place)
           /\ \A j \in Place : Contains(Unlinked(i)[d], j) <=> WHOWAS[j].online = d /\ j # i
<1>1. whowas[d] \in Seq(Place)
    BY DEF PastInv, PastType
<1>2. \A j \in Place : Contains(whowas[d], j) <=> WHOWAS[j].online = d
    BY DEF PastInv, ClientsRight
<1>3. CASE WHOWAS[i].online = d
    <2>1. Unlinked(i)[d] = Others(whowas[d], i)
        BY <1>3 DEF Unlinked
    <2>2. /\ Others(whowas[d], i) \in Seq(Place)
          /\ \A j \in Place : Contains(Others(whowas[d], i), j) <=> Contains(whowas[d], j) /\ j # i
        BY <1>1, Others_Facts
    <2> QED
        BY <1>2, <2>1, <2>2
<1>4. CASE WHOWAS[i].online # d
    <2>1. Unlinked(i)[d] = whowas[d]
        BY <1>4 DEF Unlinked
    <2> QED
        BY <1>1, <1>2, <1>4, <2>1
<1> QED
    BY <1>3, <1>4

LEMMA Bucket_Facts ==
    ASSUME PastInv, NEW i \in Place, NEW h \in Hashes
    PROVE  /\ Bucket_of(i)[h] \in Seq(Place)
           /\ \A j \in Place : Contains(Bucket_of(i)[h], j) <=> WHOWAS[j].hashv = h /\ j # i
           /\ \A j, k \in 1 .. Len(Bucket_of(i)[h]) :
                 j < k => Age[Bucket_of(i)[h][j]] < Age[Bucket_of(i)[h][k]]
<1> DEFINE s == WHOWASHASH[h]
<1>1. s \in Seq(Place)
    BY DEF PastInv, PastType
<1>2. /\ \A j \in Place : Contains(s, j) <=> WHOWAS[j].hashv = h
      /\ \A j, k \in 1 .. Len(s) : j < k => Age[s[j]] < Age[s[k]]
    BY DEF PastInv, BucketsRight
<1>3. CASE h = WHOWAS[i].hashv
    <2>1. Bucket_of(i)[h] = Others(s, i)
        BY <1>3 DEF Bucket_of
    <2> HIDE DEF s
    <2>2. /\ Others(s, i) \in Seq(Place)
          /\ \A j \in Place : Contains(Others(s, i), j) <=> Contains(s, j) /\ j # i
        BY <1>1, Others_Facts
    <2>3. \A j, k \in 1 .. Len(Others(s, i)) :
             j < k => Age[Others(s, i)[j]] < Age[Others(s, i)[k]]
        <3> SUFFICES ASSUME NEW j \in 1 .. Len(Others(s, i)), NEW k \in 1 .. Len(Others(s, i)), j < k
                     PROVE  Age[Others(s, i)[j]] < Age[Others(s, i)[k]]
            OBVIOUS
        <3>1. PICK a \in 1 .. Len(s), b \in 1 .. Len(s) :
                  a < b /\ Others(s, i)[j] = s[a] /\ Others(s, i)[k] = s[b]
            BY <1>1, Others_Facts
        <3>2. Age[s[a]] < Age[s[b]]
            BY <1>2, <3>1
        <3> QED
            BY <3>1, <3>2
    <2> QED
        BY <1>2, <2>1, <2>2, <2>3
<1>4. CASE h # WHOWAS[i].hashv
    <2>1. Bucket_of(i)[h] = s
        BY <1>4 DEF Bucket_of
    <2> QED
        BY <1>1, <1>2, <1>4, <2>1
<1> QED
    BY <1>3, <1>4

(* A place put in front of a list.                                          *)
LEMMA In_Front ==
    ASSUME NEW S, NEW s \in Seq(S), NEW i \in S
    PROVE  /\ <<i>> \o s \in Seq(S) /\ Len(<<i>> \o s) = Len(s) + 1
           /\ (<<i>> \o s)[1] = i /\ \A k \in 1 .. Len(s) : (<<i>> \o s)[k + 1] = s[k]
           /\ \A k \in 1 .. Len(s) + 1 : k # 1 => k - 1 \in 1 .. Len(s)
           /\ \A k \in 1 .. Len(s) + 1 : k # 1 => (<<i>> \o s)[k] = s[k - 1]
           /\ \A x \in S : Contains(<<i>> \o s, x) <=> x = i \/ Contains(s, x)
<1> DEFINE p == <<i>> \o s
<1>1. /\ p \in Seq(S) /\ Len(p) = Len(s) + 1 /\ Len(s) \in Nat
      /\ p[1] = i /\ \A k \in 1 .. Len(s) : p[k + 1] = s[k]
    OBVIOUS
<1>2. \A k \in 1 .. Len(s) + 1 : k # 1 => k - 1 \in 1 .. Len(s) /\ k = (k - 1) + 1
    BY <1>1
<1>3. \A k \in 1 .. Len(s) + 1 : k # 1 => p[k] = s[k - 1]
    BY <1>1
<1>4. 1 \in 1 .. Len(p) /\ \A k \in 1 .. Len(s) : k + 1 \in 1 .. Len(p)
    BY <1>1
<1> HIDE DEF p
<1>5. \A x \in S : Contains(p, x) <=> x = i \/ Contains(s, x)
    <2> SUFFICES ASSUME NEW x \in S PROVE Contains(p, x) <=> x = i \/ Contains(s, x)
        OBVIOUS
    <2>1. ASSUME x = i PROVE Contains(p, x)
        BY <2>1, <1>1, <1>4 DEF Contains
    <2>2. ASSUME Contains(s, x) PROVE Contains(p, x)
        <3>1. PICK k \in 1 .. Len(s) : s[k] = x
            BY <2>2 DEF Contains
        <3> QED
            BY <3>1, <1>1, <1>4 DEF Contains
    <2>3. ASSUME Contains(p, x) PROVE x = i \/ Contains(s, x)
        <3>1. PICK k \in 1 .. Len(p) : p[k] = x
            BY <2>3 DEF Contains
        <3>2. CASE k = 1
            BY <3>1, <3>2, <1>1
        <3>3. CASE k # 1
            <4>1. k - 1 \in 1 .. Len(s) /\ s[k - 1] = x
                BY <3>1, <3>3, <1>1, <1>2, <1>3
            <4> QED
                BY <4>1 DEF Contains
        <3> QED
            BY <3>2, <3>3
    <2> QED
        BY <2>1, <2>2, <2>3
<1> QED
    BY <1>1, <1>2, <1>3, <1>5 DEF p

(* What add_history is told goes in front, and whoever has gone is         *)
(* forgotten in what was told before.                                       *)
LEMMA Past_Grows ==
    ASSUME PastInv, NEW c \in Bearer, NEW stays \in BOOLEAN, bears[c] \in Nick_,
           add_history(c, stays)
    PROVE  /\ past' \in Seq(Past_Entry) /\ Len(past') = Len(past) + 1 /\ Len(past) \in Nat
           /\ past'[1].name = bears[c] /\ past'[1].at = CurrentSecond
           /\ past'[1].who = IF stays THEN c ELSE Unborn
           /\ \A k \in 1 .. Len(past) :
                 /\ past'[k + 1].name = past[k].name /\ past'[k + 1].at = past[k].at
                 /\ past'[k + 1].who = IF past[k].who = c /\ ~stays THEN Unborn ELSE past[k].who
<1> DEFINE e == [name |-> bears[c], at |-> CurrentSecond, who |-> IF stays THEN c ELSE Unborn]
           V(j) == IF past[j].who = c /\ ~stays THEN [past[j] EXCEPT !.who = Unborn] ELSE past[j]
           q == [j \in DOMAIN past |-> V(j)]
<1>1. past' = <<e>> \o q
    BY DEF add_history
<1>2. past \in Seq(Past_Entry) /\ CurrentSecond \in Nat
    BY DEF PastInv, PastType
<1>3. e \in Past_Entry
    BY <1>2 DEF Past_Entry
<1>4. ASSUME NEW j \in 1 .. Len(past)
      PROVE  /\ V(j) \in Past_Entry /\ V(j).name = past[j].name /\ V(j).at = past[j].at
             /\ V(j).who = IF past[j].who = c /\ ~stays THEN Unborn ELSE past[j].who
    <2>1. past[j] \in Past_Entry
        BY <1>2
    <2>2. CASE past[j].who = c /\ ~stays
        BY <2>1, <2>2 DEF Past_Entry
    <2>3. CASE ~(past[j].who = c /\ ~stays)
        BY <2>1, <2>3
    <2> QED
        BY <2>2, <2>3
<1>5. \A j \in 1 .. Len(past) : V(j) \in Past_Entry
    BY <1>4
<1> HIDE DEF V
<1>6. q \in Seq(Past_Entry) /\ Len(q) = Len(past) /\ \A j \in 1 .. Len(past) : q[j] = V(j)
    BY <1>2, <1>5
<1>7. e.name = bears[c] /\ e.at = CurrentSecond /\ e.who = IF stays THEN c ELSE Unborn
    OBVIOUS
<1> HIDE DEF q, e
<1>8. /\ past' \in Seq(Past_Entry) /\ Len(past') = Len(past) + 1 /\ Len(past) \in Nat
      /\ past'[1] = e /\ \A j \in 1 .. Len(past) : past'[j + 1] = q[j]
    BY <1>1, <1>2, <1>3, <1>6, In_Front
<1> QED
    BY <1>4, <1>6, <1>7, <1>8

LEMMA Ring_Written ==
    ASSUME PastInv, NEW c \in Bearer, NEW stays \in BOOLEAN, bears[c] \in Nick_,
           add_history(c, stays)
    PROVE  /\ WHOWAS' \in [Place -> History_Entry]
           /\ \A j \in Place :
                 /\ j = whowas_next => /\ WHOWAS'[j].name = bears[c]
                                       /\ WHOWAS'[j].hashv = HashOf[bears[c]]
                                       /\ WHOWAS'[j].logoff = CurrentSecond
                                       /\ WHOWAS'[j].online = IF stays THEN c ELSE Unborn
                 /\ j # whowas_next =>
                       /\ WHOWAS'[j].name = WHOWAS[j].name /\ WHOWAS'[j].hashv = WHOWAS[j].hashv
                       /\ WHOWAS'[j].logoff = WHOWAS[j].logoff
                       /\ WHOWAS'[j].online = IF WHOWAS[j].online = c /\ ~stays THEN Unborn
                                              ELSE WHOWAS[j].online
<1> DEFINE i == whowas_next
           gone == off_history(c, i, stays)
           new == [name |-> bears[c], hashv |-> HashOf[bears[c]], logoff |-> CurrentSecond,
                   online |-> IF stays THEN c ELSE Unborn]
           V(j) == IF j = i THEN new
                   ELSE IF j \in gone THEN [WHOWAS[j] EXCEPT !.online = Unborn] ELSE WHOWAS[j]
<1>1. WHOWAS' = [j \in Place |-> V(j)]
    BY DEF add_history
<1>2. i \in Place /\ WHOWAS \in [Place -> History_Entry] /\ CurrentSecond \in Nat
    BY DEF PastInv, PastType
<1>3. new \in History_Entry
    BY <1>2, PastAssumption DEF History_Entry
<1>4. \A j \in Place : j # i => (j \in gone <=> WHOWAS[j].online = c /\ ~stays)
    <2>1. \A j \in Place : Contains(Unlinked(i)[c], j) <=> WHOWAS[j].online = c /\ j # i
        BY <1>2, Unlinked_Facts
    <2> QED
        BY <2>1 DEF off_history
<1>5. /\ new.name = bears[c] /\ new.hashv = HashOf[bears[c]]
      /\ new.logoff = CurrentSecond /\ new.online = IF stays THEN c ELSE Unborn
    OBVIOUS
<1> HIDE DEF gone, new
<1>6. ASSUME NEW j \in Place
      PROVE  /\ V(j) \in History_Entry
             /\ j = i => V(j) = new
             /\ j # i => /\ V(j).name = WHOWAS[j].name /\ V(j).hashv = WHOWAS[j].hashv
                         /\ V(j).logoff = WHOWAS[j].logoff
                         /\ V(j).online = IF WHOWAS[j].online = c /\ ~stays THEN Unborn
                                          ELSE WHOWAS[j].online
    <2>1. WHOWAS[j] \in History_Entry
        BY <1>2
    <2>2. CASE j = i
        BY <2>2, <1>3
    <2>3. CASE j # i /\ j \in gone
        <3>1. V(j) = [WHOWAS[j] EXCEPT !.online = Unborn] /\ WHOWAS[j].online = c /\ ~stays
            BY <2>3, <1>4
        <3> QED
            BY <2>1, <2>3, <3>1 DEF History_Entry
    <2>4. CASE j # i /\ j \notin gone
        <3>1. V(j) = WHOWAS[j] /\ ~(WHOWAS[j].online = c /\ ~stays)
            BY <2>4, <1>4
        <3> QED
            BY <2>1, <2>4, <3>1
    <2> QED
        BY <2>2, <2>3, <2>4
<1> HIDE DEF V
<1>7. WHOWAS' \in [Place -> History_Entry] /\ \A j \in Place : WHOWAS'[j] = V(j)
    BY <1>1, <1>6
<1> QED
    BY <1>5, <1>6, <1>7

LEMMA Add_History ==
    ASSUME PastInv, NEW c \in Bearer, NEW stays \in BOOLEAN, bears[c] \in Nick_,
           add_history(c, stays), bears' \in [Bearer -> Nick_ \cup {Unborn}],
           CurrentSecond' = CurrentSecond
    PROVE  PastInv'
<1> DEFINE i == whowas_next
           h == HashOf[bears[c]]
<1>1. /\ i \in Place /\ CurrentSecond \in Nat /\ past \in Seq(Past_Entry)
      /\ WHOWASHASH \in [Hashes -> Seq(Place)] /\ whowas \in [Bearer -> Seq(Place)]
      /\ WHOWAS \in [Place -> History_Entry]
    BY DEF PastInv, PastType
<1>2. h \in Hashes
    BY DEF Hashes
<1>3. /\ WHOWASHASH' = [Bucket_of(i) EXCEPT ![h] = <<i>> \o @]
      /\ whowas' = [Unlinked(i) EXCEPT ![c] = IF stays THEN <<i>> \o @ ELSE << >>]
      /\ whowas_next' = (i % NICKNAMEHISTORYLENGTH) + 1
    BY DEF add_history
<1>4. /\ whowas_next' \in Place
      /\ \A j \in Place : /\ j = i => Age[j] = Length /\ Age'[j] = 1
                          /\ j # i => Age'[j] = Age[j] + 1
    BY <1>1, <1>3, Age_Step
<1>5. \A j \in Place : Age[j] \in 1 .. Length
    BY <1>1, Age_Facts
<1>6. Length \in Nat
    BY PastAssumption DEF Length
<1>7. /\ past' \in Seq(Past_Entry) /\ Len(past') = Len(past) + 1 /\ Len(past) \in Nat
      /\ past'[1].name = bears[c] /\ past'[1].at = CurrentSecond
      /\ past'[1].who = IF stays THEN c ELSE Unborn
      /\ \A k \in 1 .. Len(past) :
            /\ past'[k + 1].name = past[k].name /\ past'[k + 1].at = past[k].at
            /\ past'[k + 1].who = IF past[k].who = c /\ ~stays THEN Unborn ELSE past[k].who
    BY Past_Grows
<1>8. /\ WHOWAS' \in [Place -> History_Entry]
      /\ \A j \in Place :
            /\ j = i => /\ WHOWAS'[j].name = bears[c] /\ WHOWAS'[j].hashv = h
                        /\ WHOWAS'[j].logoff = CurrentSecond
                        /\ WHOWAS'[j].online = IF stays THEN c ELSE Unborn
            /\ j # i => /\ WHOWAS'[j].name = WHOWAS[j].name /\ WHOWAS'[j].hashv = WHOWAS[j].hashv
                        /\ WHOWAS'[j].logoff = WHOWAS[j].logoff
                        /\ WHOWAS'[j].online = IF WHOWAS[j].online = c /\ ~stays THEN Unborn
                                               ELSE WHOWAS[j].online
    BY Ring_Written
<1>9. ASSUME NEW d \in Bearer
      PROVE  /\ Unlinked(i)[d] \in Seq(Place)
             /\ \A j \in Place : Contains(Unlinked(i)[d], j) <=> WHOWAS[j].online = d /\ j # i
    BY <1>1, Unlinked_Facts
<1>10. ASSUME NEW k \in Hashes
       PROVE  /\ Bucket_of(i)[k] \in Seq(Place)
              /\ \A j \in Place : Contains(Bucket_of(i)[k], j) <=> WHOWAS[j].hashv = k /\ j # i
              /\ \A a, b \in 1 .. Len(Bucket_of(i)[k]) :
                    a < b => Age[Bucket_of(i)[k][a]] < Age[Bucket_of(i)[k][b]]
    BY <1>1, Bucket_Facts
<1>11. DOMAIN Unlinked(i) = Bearer /\ DOMAIN Bucket_of(i) = Hashes
    BY DEF Unlinked, Bucket_of
<1> HIDE DEF i, h
<1>12. /\ whowas' \in [Bearer -> Seq(Place)]
       /\ whowas'[c] = IF stays THEN <<i>> \o Unlinked(i)[c] ELSE << >>
       /\ \A d \in Bearer : d # c => whowas'[d] = Unlinked(i)[d]
    <2>1. Unlinked(i) = [d \in Bearer |-> Unlinked(i)[d]]
        BY DEF Unlinked
    <2>2. <<i>> \o Unlinked(i)[c] \in Seq(Place)
        BY <1>1, <1>9
    <2>3. (IF stays THEN <<i>> \o Unlinked(i)[c] ELSE << >>) \in Seq(Place)
        BY <2>2
    <2>4. Unlinked(i) \in [Bearer -> Seq(Place)]
        BY <1>9, <2>1
    <2> QED
        BY <1>3, <2>3, <2>4
<1>13. /\ WHOWASHASH' \in [Hashes -> Seq(Place)]
       /\ WHOWASHASH'[h] = <<i>> \o Bucket_of(i)[h]
       /\ \A k \in Hashes : k # h => WHOWASHASH'[k] = Bucket_of(i)[k]
    <2>1. Bucket_of(i) = [k \in Hashes |-> Bucket_of(i)[k]]
        BY DEF Bucket_of
    <2>2. <<i>> \o Bucket_of(i)[h] \in Seq(Place)
        BY <1>1, <1>2, <1>10
    <2>3. Bucket_of(i) \in [Hashes -> Seq(Place)]
        BY <1>10, <2>1
    <2> QED
        BY <1>2, <1>3, <2>2, <2>3
<1>14. PastType'
    BY <1>1, <1>4, <1>7, <1>8, <1>12, <1>13 DEF PastType
<1>15. RingRight'
    <2> SUFFICES ASSUME NEW j \in Place
                 PROVE  (/\ Age[j] <= Len(past) => /\ WHOWAS[j].name = past[Age[j]].name
                                                   /\ WHOWAS[j].hashv = HashOf[past[Age[j]].name]
                                                   /\ WHOWAS[j].logoff = past[Age[j]].at
                                                   /\ WHOWAS[j].online = past[Age[j]].who
                         /\ Age[j] > Len(past) => WHOWAS[j].hashv = -1 /\ WHOWAS[j].online = Unborn)'
        BY DEF RingRight
    <2>1. CASE j = i
        <3>1. Age'[j] = 1
            BY <2>1, <1>4
        <3> QED
            BY <2>1, <3>1, <1>7, <1>8 DEF h
    <2>2. CASE j # i
        <3>1. Age'[j] = Age[j] + 1 /\ Age[j] \in 1 .. Length
            BY <2>2, <1>4, <1>5
        <3>2. /\ Age[j] <= Len(past) => /\ WHOWAS[j].name = past[Age[j]].name
                                        /\ WHOWAS[j].hashv = HashOf[past[Age[j]].name]
                                        /\ WHOWAS[j].logoff = past[Age[j]].at
                                        /\ WHOWAS[j].online = past[Age[j]].who
              /\ Age[j] > Len(past) => WHOWAS[j].hashv = -1 /\ WHOWAS[j].online = Unborn
            BY DEF PastInv, RingRight
        <3>3. CASE Age[j] <= Len(past)
            <4>1. Age[j] \in 1 .. Len(past)
                BY <3>1, <3>3, <1>6, <1>7
            <4>2. /\ past'[Age'[j]].name = past[Age[j]].name /\ past'[Age'[j]].at = past[Age[j]].at
                  /\ past'[Age'[j]].who = IF past[Age[j]].who = c /\ ~stays THEN Unborn
                                          ELSE past[Age[j]].who
                BY <4>1, <3>1, <1>7
            <4>3. ~(Age'[j] > Len(past'))
                BY <3>1, <3>3, <1>6, <1>7
            <4> QED
                BY <2>2, <3>2, <3>3, <4>2, <4>3, <1>8
        <3>4. CASE ~(Age[j] <= Len(past))
            <4>1. ~(Age'[j] <= Len(past')) /\ Age[j] > Len(past)
                BY <3>1, <3>4, <1>6, <1>7
            <4> QED
                BY <2>2, <3>2, <4>1, <1>8
        <3> QED
            BY <3>3, <3>4
    <2> QED
        BY <2>1, <2>2
<1>16. ClientsRight'
    <2> SUFFICES ASSUME NEW d \in Bearer, NEW j \in Place
                 PROVE  Contains(whowas'[d], j) <=> WHOWAS'[j].online = d
        BY DEF ClientsRight
    <2>1. Contains(Unlinked(i)[d], j) <=> WHOWAS[j].online = d /\ j # i
        BY <1>9
    <2>2. d # Unborn
        BY PastAssumption
    <2>3. CASE d # c
        BY <2>1, <2>2, <2>3, <1>8, <1>12
    <2>4. CASE d = c /\ stays
        <3>1. Contains(whowas'[d], j) <=> j = i \/ Contains(Unlinked(i)[c], j)
            BY <2>4, <1>1, <1>9, <1>12, In_Front DEF i
        <3> QED
            BY <3>1, <2>1, <2>4, <1>8
    <2>5. CASE d = c /\ ~stays
        <3>1. ~Contains(whowas'[d], j)
            BY <2>5, <1>12 DEF Contains
        <3> QED
            BY <3>1, <2>2, <2>5, <1>8
    <2> QED
        BY <2>3, <2>4, <2>5
<1>17. BucketsRight'
    <2> SUFFICES ASSUME NEW k \in Hashes
                 PROVE  /\ \A a, b \in 1 .. Len(WHOWASHASH'[k]) :
                              a < b => Age'[WHOWASHASH'[k][a]] < Age'[WHOWASHASH'[k][b]]
                        /\ \A j \in Place : Contains(WHOWASHASH'[k], j) <=> WHOWAS'[j].hashv = k
        BY DEF BucketsRight
    <2> DEFINE s == Bucket_of(i)[k]
    <2>1. /\ s \in Seq(Place) /\ Len(s) \in Nat
          /\ \A j \in Place : Contains(s, j) <=> WHOWAS[j].hashv = k /\ j # i
          /\ \A a, b \in 1 .. Len(s) : a < b => Age[s[a]] < Age[s[b]]
        BY <1>10
    <2> HIDE DEF s
    <2>2. \A a \in 1 .. Len(s) : s[a] \in Place /\ s[a] # i
        BY <2>1 DEF Contains
    <2> DEFINE t == WHOWASHASH'[k]
    <2>3. \A j \in Place : /\ j = i => Age'[j] = 1
                           /\ j # i => Age'[j] = Age[j] + 1
                           /\ Age[j] \in Nat /\ Age[j] >= 1
        BY <1>4, <1>5, <1>6
    <2>4. \A a \in 1 .. Len(s) : /\ Age'[s[a]] = Age[s[a]] + 1
                                 /\ Age[s[a]] \in Nat /\ Age[s[a]] >= 1
        BY <2>2, <2>3
    <2>5. CASE k # h
        <3>1. t = s
            BY <2>5, <1>13 DEF s
        <3>2. ASSUME NEW a \in 1 .. Len(s), NEW b \in 1 .. Len(s), a < b
              PROVE  Age'[s[a]] < Age'[s[b]]
            <4>1. Age[s[a]] < Age[s[b]]
                BY <2>1, <3>2
            <4>2. /\ Age'[s[a]] = Age[s[a]] + 1 /\ Age[s[a]] \in Nat
                  /\ Age'[s[b]] = Age[s[b]] + 1 /\ Age[s[b]] \in Nat
                BY <2>4, <3>2
            <4> QED
                BY <4>1, <4>2
        <3>3. ASSUME NEW j \in Place
              PROVE  Contains(s, j) <=> WHOWAS'[j].hashv = k
            <4>1. Contains(s, j) <=> WHOWAS[j].hashv = k /\ j # i
                BY <2>1
            <4> QED
                BY <4>1, <2>5, <1>8
        <3>4. /\ \A a, b \in 1 .. Len(t) : a < b => Age'[t[a]] < Age'[t[b]]
              /\ \A j \in Place : Contains(t, j) <=> WHOWAS'[j].hashv = k
            <4> HIDE DEF t
            <4> QED
                BY <3>1, <3>2, <3>3
        <3> QED
            BY <3>4
    <2>6. CASE k = h
        <3>1. t = <<i>> \o s
            BY <2>6, <1>13 DEF s
        <3>2. i \in Place
            BY <1>1 DEF i
        <3> HIDE DEF t
        <3>3. /\ Len(t) = Len(s) + 1 /\ t[1] = i
              /\ \A a \in 1 .. Len(s) + 1 : a # 1 => a - 1 \in 1 .. Len(s) /\ t[a] = s[a - 1]
              /\ \A j \in Place : Contains(t, j) <=> j = i \/ Contains(s, j)
            BY <3>1, <3>2, <2>1, In_Front
        <3>4. ASSUME NEW a \in 1 .. Len(t), NEW b \in 1 .. Len(t), a < b
              PROVE  Age'[t[a]] < Age'[t[b]]
            <4>1. b # 1 /\ b - 1 \in 1 .. Len(s) /\ t[b] = s[b - 1]
                BY <3>3, <3>4
            <4>2. CASE a = 1
                <5>1. Age'[t[a]] = 1
                    BY <4>2, <3>2, <3>3, <2>3
                <5> QED
                    BY <5>1, <4>1, <2>4
            <4>3. CASE a # 1
                <5>1. a - 1 \in 1 .. Len(s) /\ t[a] = s[a - 1] /\ a - 1 < b - 1
                    BY <4>3, <3>3, <3>4
                <5>2. Age[s[a - 1]] < Age[s[b - 1]]
                    BY <5>1, <4>1, <2>1
                <5>3. /\ Age'[s[a - 1]] = Age[s[a - 1]] + 1 /\ Age[s[a - 1]] \in Nat
                      /\ Age'[s[b - 1]] = Age[s[b - 1]] + 1 /\ Age[s[b - 1]] \in Nat
                    BY <5>1, <4>1, <2>4
                <5>4. Age'[s[a - 1]] < Age'[s[b - 1]]
                    BY <5>2, <5>3
                <5> QED
                    BY <5>4, <5>1, <4>1
            <4> QED
                BY <4>2, <4>3
        <3>5. \A j \in Place : Contains(t, j) <=> WHOWAS'[j].hashv = k
            BY <3>3, <2>1, <2>6, <1>8
        <3> QED
            BY <3>4, <3>5 DEF t
    <2> QED
        BY <2>5, <2>6
<1>18. TimesRise'
    <2>1. /\ \A k \in 1 .. Len(past) : past[k].at <= CurrentSecond
          /\ \A j, k \in 1 .. Len(past) : j < k => past[k].at <= past[j].at
        BY DEF PastInv, TimesRise
    <2>2. \A k \in 1 .. Len(past') : k = 1 \/ (k - 1 \in 1 .. Len(past) /\ k = (k - 1) + 1)
        BY <1>7
    <2>3. \A k \in 1 .. Len(past') : k # 1 => k - 1 \in 1 .. Len(past) /\ past'[k].at = past[k - 1].at
        BY <2>2, <1>7
    <2>4. \A k \in 1 .. Len(past') : past'[k].at <= CurrentSecond
        <3> SUFFICES ASSUME NEW k \in 1 .. Len(past') PROVE past'[k].at <= CurrentSecond
            OBVIOUS
        <3>1. CASE k = 1
            BY <3>1, <1>1, <1>7
        <3>2. CASE k # 1
            BY <3>2, <2>1, <2>3
        <3> QED
            BY <3>1, <3>2
    <2>5. ASSUME NEW j \in 1 .. Len(past'), NEW k \in 1 .. Len(past'), j < k
          PROVE  past'[k].at <= past'[j].at
        <3>1. k # 1 /\ k - 1 \in 1 .. Len(past) /\ past'[k].at = past[k - 1].at
            BY <2>3, <2>5
        <3>2. CASE j = 1
            BY <3>1, <3>2, <2>1, <1>7
        <3>3. CASE j # 1
            <4>1. j - 1 \in 1 .. Len(past) /\ past'[j].at = past[j - 1].at /\ j - 1 < k - 1
                BY <3>3, <2>3, <2>5
            <4> QED
                BY <3>1, <4>1, <2>1
        <3> QED
            BY <3>2, <3>3
    <2> QED
        BY <2>4, <2>5 DEF TimesRise
<1> QED
    BY <1>14, <1>15, <1>16, <1>17, <1>18 DEF PastInv

LEMMA Init_Past ==
    ASSUME PaInit
    PROVE  PastInv
<1> USE PastAssumption DEF PaInit
<1>1. PastType
    <2>1. 1 \in Place /\ Hashes \subseteq Nat
        BY DEF Place, Hashes
    <2>2. WHOWAS \in [Place -> History_Entry]
        BY DEF History_Entry
    <2> QED
        BY <2>1, <2>2 DEF PastType
<1>2. Len(past) = 0 /\ \A h \in Hashes : WHOWASHASH[h] = << >> /\ h # -1
    BY DEF Hashes
<1>3. RingRight
    <2>1. \A i \in Place : Age[i] \in Nat /\ Age[i] > 0
        BY <1>1, Age_Facts DEF PastType, Length
    <2>2. \A i \in Place : WHOWAS[i].hashv = -1 /\ WHOWAS[i].online = Unborn
        OBVIOUS
    <2> QED
        BY <1>2, <2>1, <2>2 DEF RingRight
<1>4. BucketsRight
    <2>1. \A i \in Place : WHOWAS[i].hashv = -1 /\ ~Contains(<< >>, i)
        BY DEF Contains
    <2>2. 1 .. Len(<< >>) = {}
        OBVIOUS
    <2> QED
        BY <1>2, <2>1, <2>2 DEF BucketsRight
<1>5. ClientsRight
    <2>1. \A i \in Place : WHOWAS[i].online = Unborn /\ ~Contains(<< >>, i)
        BY DEF Contains
    <2>2. \A c \in Bearer : c # Unborn /\ whowas[c] = << >>
        OBVIOUS
    <2> QED
        BY <2>1, <2>2 DEF ClientsRight
<1>6. TimesRise
    <2>1. 1 .. Len(past) = {}
        BY <1>2
    <2> QED
        BY <2>1 DEF TimesRise
<1> QED
    BY <1>1, <1>3, <1>4, <1>5, <1>6 DEF PastInv

(* A step that writes no history, when the clock does not run back.         *)
LEMMA History_Stays ==
    ASSUME PastInv, CurrentSecond' \in Nat, CurrentSecond' >= CurrentSecond,
           bears' \in [Bearer -> Nick_ \cup {Unborn}],
           UNCHANGED <<WHOWAS, whowas_next, WHOWASHASH, whowas, past>>
    PROVE  PastInv'
<1>1. PastType'
    BY DEF PastInv, PastType
<1>2. Age' = Age
    BY DEF Age, Place, Length
<1>3. RingRight' /\ BucketsRight' /\ ClientsRight'
    <2>1. RingRight'
        BY <1>2 DEF PastInv, RingRight
    <2>2. BucketsRight'
        BY <1>2 DEF PastInv, BucketsRight
    <2>3. ClientsRight'
        BY DEF PastInv, ClientsRight
    <2> QED
        BY <2>1, <2>2, <2>3
<1>4. TimesRise'
    <2>0. past \in Seq(Past_Entry) /\ \A k \in 1 .. Len(past) : past[k].at <= CurrentSecond
        BY DEF PastInv, TimesRise, PastType
    <2>1. \A k \in 1 .. Len(past) : past[k].at <= CurrentSecond /\ past[k].at \in Nat
        <3>1. \A k \in 1 .. Len(past) : past[k] \in Past_Entry
            BY <2>0
        <3> QED
            BY <2>0, <3>1 DEF Past_Entry
    <2>2. CurrentSecond \in Nat
        BY DEF PastInv, PastType
    <2>3. \A k \in 1 .. Len(past) : past[k].at <= CurrentSecond'
        BY <2>1, <2>2
    <2> QED
        BY <2>3 DEF PastInv, TimesRise
<1> QED
    BY <1>1, <1>3, <1>4 DEF PastInv

LEMMA Step_Past ==
    ASSUME PastInv, [PaNext]_pvars
    PROVE  PastInv'
<1>0. bears \in [Bearer -> Nick_ \cup {Unborn}] /\ CurrentSecond \in Nat
    BY DEF PastInv, PastType
<1>1. CASE Passes_by
    BY <1>0, <1>1, History_Stays DEF Passes_by
<1>2. ASSUME NEW c \in Bearer, NEW n \in Nick_, Signon(c, n)
      PROVE  PastInv'
    BY <1>0, <1>2, History_Stays DEF Signon
<1>3. ASSUME NEW c \in Bearer, NEW n \in Nick_, NickChange(c, n)
      PROVE  PastInv'
    <2>1. /\ bears[c] \in Nick_ /\ bears' \in [Bearer -> Nick_ \cup {Unborn}]
          /\ add_history(c, TRUE) /\ CurrentSecond' = CurrentSecond
        BY <1>0, <1>3 DEF NickChange
    <2> QED
        BY <2>1, Add_History
<1>4. ASSUME NEW c \in Bearer, release_client_state(c)
      PROVE  PastInv'
    <2>1. /\ bears[c] \in Nick_ /\ bears' \in [Bearer -> Nick_ \cup {Unborn}]
          /\ add_history(c, FALSE) /\ CurrentSecond' = CurrentSecond
        BY <1>0, <1>4 DEF release_client_state
    <2> QED
        BY <2>1, Add_History
<1>5. CASE UNCHANGED pvars
    BY <1>0, <1>5, History_Stays DEF pvars
<1> QED
    BY <1>1, <1>2, <1>3, <1>4, <1>5 DEF PaNext

(* The records of a nick in the list of its hash value are, in that order,  *)
(* the last changes that gave the nick up.                                  *)
LEMMA Found_In_Order ==
    ASSUME PastInv, NEW n \in Nick_
    PROVE  LET s == WHOWASHASH[HashOf[n]]
               L == IF Len(past) < Length THEN Len(past) ELSE Length
               I == {k \in DOMAIN s : WHOWAS[s[k]].name = n}
               A == {k \in 1 .. L : past[k].name = n}
           IN  \E m, r, g :
                 /\ m \in Nat /\ Enumerates(r, m, I) /\ Enumerates(g, m, A)
                 /\ m = Cardinality(I) /\ m = Cardinality(A)
                 /\ \A k \in 1 .. m :
                       /\ WHOWAS[s[r[k]]].logoff = past[g[k]].at
                       /\ WHOWAS[s[r[k]]].online = past[g[k]].who
<1> DEFINE s == WHOWASHASH[HashOf[n]]
           L == IF Len(past) < Length THEN Len(past) ELSE Length
           I == {k \in DOMAIN s : WHOWAS[s[k]].name = n}
           A == {k \in 1 .. L : past[k].name = n}
           h == HashOf[n]
<1>1. /\ h \in Hashes /\ h \in Nat /\ s \in Seq(Place) /\ past \in Seq(Past_Entry)
      /\ whowas_next \in Place /\ Length \in Nat
    BY PastAssumption DEF PastInv, PastType, Hashes, Length
<1>2. /\ \A a, b \in 1 .. Len(s) : a < b => Age[s[a]] < Age[s[b]]
      /\ \A i \in Place : Contains(s, i) <=> WHOWAS[i].hashv = h
    BY <1>1 DEF PastInv, BucketsRight
<1>3. \A i \in Place : Age[i] \in 1 .. Length
    BY <1>1, Age_Facts
<1>4. /\ L \in Nat /\ Len(past) \in Nat
      /\ \A k \in 1 .. Length : k <= Len(past) <=> k \in 1 .. L
      /\ \A k \in 1 .. L : k \in 1 .. Length /\ k \in 1 .. Len(past)
    BY <1>1
<1> HIDE DEF L
<1>5. ASSUME NEW a \in 1 .. Len(s)
      PROVE  /\ s[a] \in Place /\ Age[s[a]] \in 1 .. L
             /\ WHOWAS[s[a]].name = past[Age[s[a]]].name
             /\ WHOWAS[s[a]].logoff = past[Age[s[a]]].at
             /\ WHOWAS[s[a]].online = past[Age[s[a]]].who
    <2>1. s[a] \in Place
        BY <1>1
    <2>2. WHOWAS[s[a]].hashv = h
        BY <2>1, <1>2 DEF Contains
    <2>3. ~(Age[s[a]] > Len(past))
        BY <2>1, <2>2, <1>1 DEF PastInv, RingRight
    <2>4. Age[s[a]] <= Len(past) /\ Age[s[a]] \in 1 .. L
        BY <2>1, <2>3, <1>3, <1>4
    <2> QED
        BY <2>1, <2>4 DEF PastInv, RingRight
<1>6. ASSUME NEW k \in A
      PROVE  \E a \in I : Age[s[a]] = k
    <2>1. k \in 1 .. Length /\ k \in 1 .. Len(past) /\ past[k].name = n
        BY <1>4
    <2>2. PICK i \in Place : Age[i] = k
        BY <1>1, <2>1, Age_Facts
    <2>3. WHOWAS[i].name = n /\ WHOWAS[i].hashv = h
        BY <2>1, <2>2 DEF PastInv, RingRight
    <2>4. Contains(s, i)
        BY <2>3, <1>2
    <2>5. PICK a \in 1 .. Len(s) : s[a] = i
        BY <2>4 DEF Contains
    <2> QED
        BY <1>1, <2>2, <2>3, <2>5
<1>7. /\ \A k \in I : k \in 1 .. Len(s) /\ WHOWAS[s[k]].name = n
      /\ I \subseteq DOMAIN s /\ A \subseteq Int
      /\ \A k \in 1 .. L : past[k].name = n => k \in A
      /\ \A k \in A : k \in 1 .. L
    BY <1>1, <1>4
<1> HIDE DEF I, A, s, h
<1>8. /\ Cardinality(I) \in Nat
      /\ \E r \in [1 .. Cardinality(I) -> I] : Enumerates(r, Cardinality(I), I)
    BY <1>1, <1>7, Pick_Places
<1>9. PICK r \in [1 .. Cardinality(I) -> I] : Enumerates(r, Cardinality(I), I)
    BY <1>8
<1> DEFINE m == Cardinality(I)
           g == [k \in 1 .. m |-> Age[s[r[k]]]]
<1>10. \A k \in 1 .. m : r[k] \in I /\ r[k] \in 1 .. Len(s) /\ g[k] = Age[s[r[k]]]
    BY <1>7, <1>9
<1>11. m \in Nat
    BY <1>8
<1> HIDE DEF m, g
<1>12. \A k \in 1 .. m : g[k] \in A
    BY <1>5, <1>7, <1>10
<1>13. \A j, k \in 1 .. m : j < k => g[j] < g[k]
    <2> SUFFICES ASSUME NEW j \in 1 .. m, NEW k \in 1 .. m, j < k
                 PROVE  g[j] < g[k]
        OBVIOUS
    <2>1. r[j] < r[k]
        BY <1>9 DEF Enumerates, Rising, m
    <2> QED
        BY <2>1, <1>10, <1>2
<1>14. \A k \in A : \E j \in 1 .. m : g[j] = k
    <2> SUFFICES ASSUME NEW k \in A PROVE \E j \in 1 .. m : g[j] = k
        OBVIOUS
    <2>1. PICK a \in I : Age[s[a]] = k
        BY <1>6
    <2>2. PICK j \in 1 .. m : r[j] = a
        BY <1>9 DEF Enumerates, m
    <2> QED
        BY <2>1, <2>2, <1>10
<1>15. g \in [1 .. m -> A]
    BY <1>12 DEF g
<1>16. Enumerates(g, m, A)
    BY <1>12, <1>13, <1>14, <1>15 DEF Enumerates, Rising
<1>17. m = Cardinality(A)
    BY <1>7, <1>11, <1>16, Rising_Rank
<1>18. \A k \in 1 .. m : /\ WHOWAS[s[r[k]]].logoff = past[g[k]].at
                         /\ WHOWAS[s[r[k]]].online = past[g[k]].who
    BY <1>5, <1>10
<1>19. \E mm, rr, gg :
          /\ mm \in Nat /\ Enumerates(rr, mm, I) /\ Enumerates(gg, mm, A)
          /\ mm = Cardinality(I) /\ mm = Cardinality(A)
          /\ \A k \in 1 .. mm :
                /\ WHOWAS[s[rr[k]]].logoff = past[gg[k]].at
                /\ WHOWAS[s[rr[k]]].online = past[gg[k]].who
    <2>1. Enumerates(r, m, I) /\ m = Cardinality(I)
        BY <1>9 DEF m
    <2> HIDE DEF m, g
    <2> QED
        BY ONLY <2>1, <1>11, <1>16, <1>17, <1>18
<1> QED
    BY ONLY <1>19, Zenon DEF I, A, s, L

LEMMA Pick_By ==
    ASSUME NEW S, NEW s \in Seq(S), NEW I, I \subseteq DOMAIN s, NEW n \in Nat,
           NEW r, Enumerates(r, n, I)
    PROVE  Pick(s, I) = [k \in 1 .. n |-> s[r[k]]]
<1>1. /\ Cardinality(I) \in Nat /\ I \subseteq Int
      /\ \E q \in [1 .. Cardinality(I) -> I] :
            /\ Enumerates(q, Cardinality(I), I)
            /\ Pick(s, I) = [k \in 1 .. Cardinality(I) |-> s[q[k]]]
    BY Pick_Places
<1>2. PICK q \in [1 .. Cardinality(I) -> I] :
            /\ Enumerates(q, Cardinality(I), I)
            /\ Pick(s, I) = [k \in 1 .. Cardinality(I) |-> s[q[k]]]
    BY <1>1
<1> DEFINE m == Cardinality(I)
<1>4. Enumerates(q, m, I) /\ m \in Nat /\ I \subseteq Int
    BY <1>1, <1>2
<1>3. n = Cardinality(I) /\ \A k \in 1 .. n : r[k] = q[k]
    <2> HIDE DEF m
    <2>1. /\ IsFiniteSet(I) /\ Cardinality(I) = n
          /\ \A k \in 1 .. n : r[k] \in I /\ Rank(I, r[k]) = k
        BY ONLY <1>4, n \in Nat, Enumerates(r, n, I), Rising_Rank
    <2>2. m = n
        BY ONLY <2>1 DEF m
    <2>3. \A k \in 1 .. m : q[k] \in I /\ Rank(I, q[k]) = k
        BY ONLY <1>4, Rising_Rank
    <2>4. \A i, j \in I : Rank(I, i) = Rank(I, j) => i = j
        BY ONLY <1>4, <2>1, Rank_Rises
    <2>5. \A k \in 1 .. n : r[k] = q[k]
        BY ONLY <2>1, <2>2, <2>3, <2>4
    <2> QED
        BY ONLY <2>2, <2>5 DEF m
<1> QED
    BY <1>2, <1>3

LEMMA Pick_First ==
    ASSUME NEW S, NEW s \in Seq(S), NEW I, I \subseteq DOMAIN s
    PROVE  /\ I = {} => Pick(s, I) = << >>
           /\ \A a \in I : (\A b \in I : a <= b) =>
                 Pick(s, I) # << >> /\ Head(Pick(s, I)) = s[a]
<1>1. CASE I = {}
    <2>1. Cardinality(I) = 0
        BY <1>1, FS_EmptySet
    <2>2. Pick(s, I) \in Seq(S) /\ DOMAIN Pick(s, I) = {}
        BY <2>1, Pick_Facts DEF Pick
    <2> QED
        BY <1>1, <2>2
<1>2. ASSUME NEW a \in I, \A b \in I : a <= b
      PROVE  Pick(s, I) # << >> /\ Head(Pick(s, I)) = s[a]
    <2>1. /\ Cardinality(I) \in Nat /\ I \subseteq Int /\ IsFiniteSet(I)
          /\ \E q \in [1 .. Cardinality(I) -> I] :
                /\ Enumerates(q, Cardinality(I), I)
                /\ Pick(s, I) = [k \in 1 .. Cardinality(I) |-> s[q[k]]]
        BY Pick_Places
    <2>2. PICK q \in [1 .. Cardinality(I) -> I] :
                /\ Enumerates(q, Cardinality(I), I)
                /\ Pick(s, I) = [k \in 1 .. Cardinality(I) |-> s[q[k]]]
        BY <2>1
    <2>3. PICK k \in 1 .. Cardinality(I) : q[k] = a
        BY <2>2 DEF Enumerates
    <2>4. k = 1
        <3>1. 1 \in 1 .. Cardinality(I)
            BY <2>1, <2>3
        <3>2. k # 1 => q[1] < q[k] /\ q[1] \in I
            BY <2>2, <2>3, <3>1 DEF Enumerates, Rising
        <3>3. q[1] \in Int /\ q[k] \in Int
            BY <2>1, <2>2, <2>3, <3>1
        <3> QED
            BY <1>2, <2>3, <3>2, <3>3
    <2>5. Pick(s, I) \in Seq(S)
        BY Pick_Facts
    <2>6. DOMAIN Pick(s, I) = 1 .. Cardinality(I) /\ Pick(s, I)[1] = s[a]
        BY <2>2, <2>3, <2>4
    <2>7. Pick(s, I) # << >>
        <3>1. 1 \in DOMAIN Pick(s, I)
            BY <2>3, <2>4, <2>6
        <3>2. DOMAIN << >> = {}
            OBVIOUS
        <3> HIDE <2>2
        <3> QED
            BY ONLY <3>1, <3>2
    <2> QED
        BY <2>5, <2>6, <2>7
<1> QED
    BY <1>1, <1>2

Lately == SubSeq(past, 1, IF Len(past) < NICKNAMEHISTORYLENGTH THEN Len(past)
                          ELSE NICKNAMEHISTORYLENGTH)
Given_up(n) == Pick(Lately, {k \in DOMAIN Lately : Lately[k].name = n})

(* What the ring shows of a nick is what the list of the last changes says. *)
LEMMA Nick_Followed ==
    ASSUME PastInv, NEW n \in Nick_, NEW limit \in Nat
    PROVE  /\ m_whowas(n) = [k \in DOMAIN Given_up(n) |-> Given_up(n)[k].at]
           /\ get_history(n, limit) =
                 (IF Given_up(n) = << >> THEN Unborn
                  ELSE IF Given_up(n)[1].at >= CurrentSecond - limit THEN Given_up(n)[1].who
                  ELSE Unborn)
<1> DEFINE of == Given_up(n)
           last == Lately
           s == WHOWASHASH[HashOf[n]]
           L == IF Len(past) < Length THEN Len(past) ELSE Length
           I == {k \in DOMAIN s : WHOWAS[s[k]].name = n}
           A == {k \in 1 .. L : past[k].name = n}
           J == {k \in DOMAIN s : /\ WHOWAS[s[k]].name = n
                                  /\ WHOWAS[s[k]].logoff >= CurrentSecond - limit}
<1>1. PICK m, r, g :
          /\ m \in Nat /\ Enumerates(r, m, I) /\ Enumerates(g, m, A)
          /\ m = Cardinality(I) /\ m = Cardinality(A)
          /\ \A k \in 1 .. m :
                /\ WHOWAS[s[r[k]]].logoff = past[g[k]].at
                /\ WHOWAS[s[r[k]]].online = past[g[k]].who
    BY Found_In_Order
<1>2. /\ s \in Seq(Place) /\ past \in Seq(Past_Entry) /\ Length \in Nat /\ CurrentSecond \in Nat
      /\ WHOWAS \in [Place -> History_Entry]
    BY PastAssumption DEF PastInv, PastType, Hashes, Length
<1>3. /\ L \in Nat /\ Len(past) \in Nat /\ L <= Len(past)
      /\ L = IF Len(past) < NICKNAMEHISTORYLENGTH THEN Len(past) ELSE NICKNAMEHISTORYLENGTH
    BY <1>2 DEF Length
<1> HIDE DEF L
<1>4. /\ last \in Seq(Past_Entry) /\ Len(last) = L /\ DOMAIN last = 1 .. L
      /\ \A k \in 1 .. L : last[k] = past[k]
    <2>1. last = SubSeq(past, 1, L)
        BY <1>3 DEF Lately
    <2> HIDE DEF last
    <2> QED
        BY <1>2, <1>3, <2>1
<1>5. {k \in DOMAIN last : last[k].name = n} = A /\ A \subseteq DOMAIN last
    BY <1>4
<1>6. \A k \in A : k \in 1 .. L /\ k \in 1 .. Len(past)
    BY <1>3
<1>7. /\ \A k \in I : k \in 1 .. Len(s) /\ WHOWAS[s[k]].name = n
      /\ I \subseteq DOMAIN s /\ J \subseteq I /\ J \subseteq DOMAIN s
      /\ \A k \in I : k \in J <=> WHOWAS[s[k]].logoff >= CurrentSecond - limit
    BY <1>2
<1>8. /\ m_whowas(n) = [k \in DOMAIN Pick(s, I) |-> WHOWAS[Pick(s, I)[k]].logoff]
      /\ get_history(n, limit) = IF Pick(s, J) = << >> THEN Unborn
                                 ELSE WHOWAS[Head(Pick(s, J))].online
    BY DEF m_whowas, get_history
<1> HIDE DEF I, A, s, J
<1>9. of = Pick(last, A)
    BY <1>5 DEF Given_up
<1> HIDE DEF of, last
<1>10. Pick(s, I) = [k \in 1 .. m |-> s[r[k]]]
    <2>1. s \in Seq(Place) /\ I \subseteq DOMAIN s /\ m \in Nat /\ Enumerates(r, m, I)
        BY <1>1, <1>2, <1>7
    <2> QED
        BY ONLY <2>1, Pick_By
<1>11. of = [k \in 1 .. m |-> last[g[k]]]
    <2>1. last \in Seq(Past_Entry) /\ A \subseteq DOMAIN last /\ m \in Nat /\ Enumerates(g, m, A)
        BY <1>1, <1>4, <1>5
    <2>2. Pick(last, A) = [k \in 1 .. m |-> last[g[k]]]
        BY ONLY <2>1, Pick_By
    <2> QED
        BY <1>9, <2>2
<1>12. /\ \A k \in 1 .. m : /\ r[k] \in I /\ g[k] \in A /\ g[k] \in 1 .. L /\ g[k] \in Int
                            /\ last[g[k]] = past[g[k]]
       /\ \A k \in I : \E j \in 1 .. m : r[j] = k
       /\ \A j, k \in 1 .. m : j < k => r[j] < r[k] /\ g[j] < g[k]
    <2>1. \A k \in A : k \in 1 .. L /\ k \in Int
        BY <1>6
    <2>2. /\ \A k \in 1 .. m : r[k] \in I /\ g[k] \in A
          /\ \A k \in I : \E j \in 1 .. m : r[j] = k
          /\ \A j, k \in 1 .. m : j < k => r[j] < r[k] /\ g[j] < g[k]
        BY ONLY <1>1 DEF Enumerates, Rising
    <2> QED
        BY ONLY <1>4, <2>1, <2>2
<1>13. m_whowas(n) = [k \in DOMAIN of |-> of[k].at]
    <2>1. m_whowas(n) = [k \in 1 .. m |-> WHOWAS[s[r[k]]].logoff]
        BY <1>8, <1>10
    <2>2. [k \in DOMAIN of |-> of[k].at] = [k \in 1 .. m |-> past[g[k]].at]
        BY <1>11, <1>12
    <2> QED
        BY <2>1, <2>2, <1>1
<1> SUFFICES get_history(n, limit) =
               (IF of = << >> THEN Unborn
                ELSE IF of[1].at >= CurrentSecond - limit THEN of[1].who ELSE Unborn)
    BY <1>13 DEF of
<1>14. CASE m = 0
    <2>1. 1 .. m = {}
        BY <1>14
    <2>2. I = {} /\ J = {}
        BY <2>1, <1>7, <1>12
    <2>3. of = << >>
        <3>1. A = {}
            BY <1>14, <1>4, <1>5, <1>1, <2>1 DEF Enumerates
        <3> QED
            BY <3>1, <1>4, <1>5, <1>9, Pick_First
    <2>4. Pick(s, J) = << >>
        BY <1>2, <1>7, <2>2, Pick_First
    <2> QED
        BY <1>8, <2>3, <2>4
<1>15. CASE m # 0
    <2>1. 1 \in 1 .. m /\ \A k \in 1 .. m : k = 1 \/ 1 < k
        BY <1>1, <1>15
    <2>2. of # << >> /\ of[1] = past[g[1]] /\ g[1] \in 1 .. Len(past) /\ g[1] \in A
        <3>1. g[1] \in A /\ g[1] \in 1 .. Len(past) /\ last[g[1]] = past[g[1]]
            BY <2>1, <1>6, <1>12
        <3>2. of[1] = last[g[1]] /\ 1 \in DOMAIN of
            BY <2>1, <1>11
        <3>3. of # << >>
            <4>1. DOMAIN << >> = {}
                OBVIOUS
            <4> QED
                BY ONLY <3>2, <4>1
        <3> QED
            BY <3>1, <3>2, <3>3
    <2>3. past[g[1]].at \in Nat
        <3>1. past[g[1]] \in Past_Entry
            BY <1>2, <2>2
        <3> QED
            BY <3>1 DEF Past_Entry
    <2>4. CASE past[g[1]].at >= CurrentSecond - limit
        <3>1. r[1] \in J
            BY <2>1, <2>4, <1>1, <1>7, <1>12
        <3>2. \A b \in J : r[1] <= b
            <4> SUFFICES ASSUME NEW b \in J PROVE r[1] <= b
                OBVIOUS
            <4>1. PICK j \in 1 .. m : r[j] = b
                BY <1>7, <1>12
            <4>2. r[1] \in Int /\ b \in Int
                BY <3>1, <1>7
            <4> QED
                BY <2>1, <4>1, <4>2, <1>12
        <3>3. Pick(s, J) # << >> /\ Head(Pick(s, J)) = s[r[1]]
            BY <1>2, <1>7, <3>1, <3>2, Pick_First
        <3>4. WHOWAS[s[r[1]]].online = past[g[1]].who
            BY <1>1, <2>1
        <3> QED
            BY <1>8, <2>2, <2>4, <3>3, <3>4
    <2>5. CASE ~(past[g[1]].at >= CurrentSecond - limit)
        <3>1. ASSUME NEW b \in J PROVE FALSE
            <4>1. PICK j \in 1 .. m : r[j] = b
                BY <1>7, <1>12
            <4>2. past[g[j]].at >= CurrentSecond - limit
                BY <4>1, <1>1, <1>7
            <4>3. g[j] = g[1] \/ g[1] < g[j]
                BY <2>1, <1>12
            <4>4. g[j] \in 1 .. Len(past) /\ g[1] \in 1 .. Len(past)
                BY <1>6, <1>12, <2>2
            <4>5. past[g[j]].at <= past[g[1]].at
                <5>1. g[1] < g[j] => past[g[j]].at <= past[g[1]].at
                    BY <4>4 DEF PastInv, TimesRise
                <5> QED
                    BY <4>3, <5>1, <2>3
            <4>6. past[g[j]].at \in Nat
                <5>1. past[g[j]] \in Past_Entry
                    BY <1>2, <4>4
                <5> QED
                    BY <5>1 DEF Past_Entry
            <4> QED
                BY <2>3, <2>5, <4>2, <4>5, <4>6, <1>2
        <3>2. J = {}
            BY <3>1
        <3>3. Pick(s, J) = << >>
            BY <1>2, <1>7, <3>2, Pick_First
        <3> QED
            BY <1>8, <2>2, <2>5, <3>3
    <2> QED
        BY <2>4, <2>5
<1> QED
    BY <1>14, <1>15

LEMMA Past_Right ==
    ASSUME PastInv
    PROVE  PastRight
<1>1. \A n \in Nick_ : m_whowas(n) = [k \in DOMAIN Given_up(n) |-> Given_up(n)[k].at]
    <2>1. 0 \in Nat
        OBVIOUS
    <2> QED
        BY <2>1, Nick_Followed
<1>2. \A n \in Nick_, limit \in 0 .. CurrentSecond :
          get_history(n, limit) =
                 (IF Given_up(n) = << >> THEN Unborn
                  ELSE IF Given_up(n)[1].at >= CurrentSecond - limit THEN Given_up(n)[1].who
                  ELSE Unborn)
    <2>1. \A limit \in 0 .. CurrentSecond : limit \in Nat
        BY DEF PastInv, PastType
    <2> QED
        BY <2>1, Nick_Followed
<1>3. \A c \in Bearer, i \in Place : Contains(whowas[c], i) <=> WHOWAS[i].online = c
    BY DEF PastInv, ClientsRight
<1>4. PastRight <=>
      /\ \A n \in Nick_ :
           /\ m_whowas(n) = [k \in DOMAIN Given_up(n) |-> Given_up(n)[k].at]
           /\ \A limit \in 0 .. CurrentSecond :
                 get_history(n, limit) =
                   (IF Given_up(n) = << >> THEN Unborn
                    ELSE IF Given_up(n)[1].at >= CurrentSecond - limit THEN Given_up(n)[1].who
                    ELSE Unborn)
      /\ \A c \in Bearer, i \in Place : Contains(whowas[c], i) <=> WHOWAS[i].online = c
    BY DEF PastRight, Given_up, Lately
<1> QED
    BY <1>1, <1>2, <1>3, <1>4

(* The ring is as good as a list of the last NICKNAMEHISTORYLENGTH nicks    *)
(* given up: a chase finds who had a nick last, WHOWAS shows them all, and  *)
(* a client's own list has the records that refer to it.  (add_history,     *)
(* off_history, get_history, m_whowas.)                                     *)
THEOREM Past_Holds == PaSpec => []PastRight
<1>1. PaInit => PastInv
    BY Init_Past
<1>2. PastInv /\ [PaNext]_pvars => PastInv'
    BY Step_Past
<1>3. PastInv => PastRight
    BY Past_Right
<1> QED
    BY <1>1, <1>2, <1>3, PTL DEF PaSpec

-----------------------------------------------------------------------------
(* K-lines and D-lines (KLines).  Lines are in the file or wait for it, and   *)
(* whoever a line is about is hunted for, but for the lines marked missed.    *)

(* Only K-lines are temporary.                                              *)
TempsAreK == \A f \in {"host", "ip"} : \A e \in Elements(temporary[f]) : Kind[e.ban] = "K"

KInv == KTypeOK /\ Kept /\ TempsAreK /\ Clean

LEMMA Least_Place ==
    ASSUME NEW S, NEW s \in Seq(S), NEW I, I \subseteq DOMAIN s, I # {}
    PROVE  \E i \in I : \A j \in I : i <= j
<1>1. IsFiniteSet(I) /\ Cardinality(I) \in Nat /\ I \subseteq Int
    BY Pick_Places
<1>2. Cardinality(I) # 0
    BY <1>1, FS_EmptySet
<1>3. 1 \in 1 .. Cardinality(I)
    BY <1>1, <1>2
<1>4. PICK i \in I : Rank(I, i) = 1
    BY <1>1, <1>3, Rank_Onto
<1>5. ASSUME NEW j \in I PROVE i <= j
    <2>1. Rank(I, j) \in 1 .. Cardinality(I)
        BY <1>1, Rank_Rises
    <2>2. ~(Rank(I, j) < Rank(I, i))
        BY <1>4, <2>1
    <2>3. ~(j < i)
        BY <1>1, <2>2, Rank_Rises
    <2> QED
        BY <1>1, <2>3
<1> QED
    BY <1>5

(* A search only takes entries away, and none that still counts.            *)
LEMMA Swept_Facts ==
    ASSUME NEW s \in Seq(KEntry), NEW Q
    PROVE  Swept(s, Q) \in Seq(KEntry) /\ Elements(Swept(s, Q)) \subseteq Elements(s)
<1> DEFINE I == {i \in DOMAIN s : KOver(s[i]) => \A U \in Q : \E j \in 1 .. i - 1 : Hit(s[j], U)}
<1>1. Swept(s, Q) = Pick(s, I) /\ I \subseteq DOMAIN s
    BY DEF Swept
<1> HIDE DEF I
<1>2. /\ Pick(s, I) \in Seq(KEntry)
      /\ \A k \in 1 .. Len(Pick(s, I)) : \E i \in I : Pick(s, I)[k] = s[i]
    BY <1>1, Pick_Facts
<1> QED
    BY <1>1, <1>2 DEF Elements

LEMMA After_Find ==
    ASSUME KTypeOK, NEW Q
    PROVE  /\ AfterFind(Q) \in [{"host", "ip"} -> Seq(KEntry)]
           /\ \A f \in {"host", "ip"} : Elements(AfterFind(Q)[f]) \subseteq Elements(temporary[f])
<1> DEFINE R == {U \in Q : ~HasHit(temporary["host"], U)}
<1>1. temporary \in [{"host", "ip"} -> Seq(KEntry)]
    BY DEF KTypeOK
<1>2. /\ Swept(temporary["host"], Q) \in Seq(KEntry)
      /\ Elements(Swept(temporary["host"], Q)) \subseteq Elements(temporary["host"])
    BY <1>1, Swept_Facts
<1>3. /\ Swept(temporary["ip"], R) \in Seq(KEntry)
      /\ Elements(Swept(temporary["ip"], R)) \subseteq Elements(temporary["ip"])
    BY <1>1, Swept_Facts
<1>4. /\ AfterFind(Q) \in [{"host", "ip"} -> Seq(KEntry)]
      /\ AfterFind(Q)["host"] = Swept(temporary["host"], Q)
      /\ AfterFind(Q)["ip"] = Swept(temporary["ip"], R)
    BY <1>1, <1>2, <1>3 DEF AfterFind
<1> QED
    BY <1>2, <1>3, <1>4

(* A client is found by the entries that count.                             *)
LEMMA Found ==
    ASSUME KTypeOK, NEW u \in KUser, NEW b \in Ban, u \in Whom[b], NEW f \in {"host", "ip"},
           b \in Current(f)
    PROVE  find_tkline({u})
<1>1. PICK e \in Elements(temporary[f]) : ~KOver(e) /\ e.ban = b
    BY DEF Current
<1>2. PICK i \in DOMAIN temporary[f] : temporary[f][i] = e
    BY DEF Elements
<1>3. Hit(temporary[f][i], {u})
    BY <1>1, <1>2 DEF Hit
<1> QED
    BY <1>2, <1>3 DEF find_tkline, HasHit

LEMMA Current_Bans ==
    ASSUME KTypeOK, NEW f \in {"host", "ip"}
    PROVE  /\ Current(f) \subseteq Ban /\ Current(f) \subseteq InTables
           /\ TempsAreK => \A b \in Current(f) : Kind[b] = "K"
<1>1. temporary[f] \in Seq(KEntry)
    BY DEF KTypeOK
<1>2. \A e \in Elements(temporary[f]) : e \in KEntry
    BY <1>1 DEF Elements
<1>3. \A b \in Current(f) : \E e \in Elements(temporary[f]) : e.ban = b
    BY DEF Current
<1>4. Current(f) \subseteq Ban
    BY <1>2, <1>3 DEF KEntry
<1>5. Current(f) \subseteq InTables
    <2>1. CASE f = "host"
        BY <1>3, <2>1 DEF InTables
    <2>2. CASE f = "ip"
        BY <1>3, <2>2 DEF InTables
    <2> QED
        BY <2>1, <2>2
<1> QED
    BY <1>3, <1>4, <1>5 DEF TempsAreK

(* Entries go, and the clock does not run back: what still counts did so.   *)
LEMMA Current_Less ==
    ASSUME KTypeOK, now' \in Nat, now' >= now, NEW f \in {"host", "ip"},
           Elements(temporary[f])' \subseteq Elements(temporary[f])
    PROVE  Current(f)' \subseteq Current(f)
<1>1. \A e \in Elements(temporary[f]) : e.hold \in Nat
    <2>1. temporary[f] \in Seq(KEntry)
        BY DEF KTypeOK
    <2> QED
        <3>1. \A e \in Elements(temporary[f]) : e \in KEntry
            BY <2>1 DEF Elements
        <3> QED
            BY <3>1 DEF KEntry
<1>2. now \in Nat
    BY DEF KTypeOK
<1>3. \A e \in Elements(temporary[f]) : KOver(e) => KOver(e)'
    BY <1>1, <1>2 DEF KOver
<1> QED
    BY <1>3 DEF Current

LEMMA In_Front_Elements ==
    ASSUME NEW S, NEW s \in Seq(S), NEW x \in S
    PROVE  <<x>> \o s \in Seq(S) /\ Elements(<<x>> \o s) = Elements(s) \cup {x}
<1> DEFINE t == <<x>> \o s
<1>1. t \in Seq(S) /\ Len(t) = Len(s) + 1 /\ t[1] = x /\ \A i \in 1 .. Len(s) : t[i + 1] = s[i]
    OBVIOUS
<1> HIDE DEF t
<1>0. Len(s) \in Nat /\ \A i \in 1 .. Len(t) : i = 1 \/ (i - 1 \in 1 .. Len(s) /\ i = (i - 1) + 1)
    BY <1>1
<1>2. \A i \in 1 .. Len(t) : i = 1 \/ (i - 1 \in 1 .. Len(s) /\ t[i] = s[i - 1])
    BY <1>0, <1>1
<1>3. \A i \in 1 .. Len(s) : i + 1 \in 1 .. Len(t)
    BY <1>1
<1>4. 1 \in 1 .. Len(t) /\ DOMAIN t = 1 .. Len(t) /\ DOMAIN s = 1 .. Len(s)
    BY <1>1
<1>5. Elements(t) = Elements(s) \cup {x}
    <2>1. ASSUME NEW e \in Elements(t)
          PROVE  e \in Elements(s) \cup {x}
        <3>1. PICK i \in 1 .. Len(t) : e = t[i]
            BY <1>4 DEF Elements
        <3> QED
            BY <3>1, <1>1, <1>2, <1>4 DEF Elements
    <2>2. x \in Elements(t)
        BY <1>1, <1>4 DEF Elements
    <2>3. ASSUME NEW e \in Elements(s)
          PROVE  e \in Elements(t)
        <3>1. PICK i \in 1 .. Len(s) : e = s[i]
            BY <1>4 DEF Elements
        <3> QED
            BY <3>1, <1>1, <1>3, <1>4 DEF Elements
    <2> QED
        BY <2>1, <2>2, <2>3
<1> QED
    BY <1>1, <1>5 DEF t

LEMMA Cut_Elements ==
    ASSUME NEW S, NEW s \in Seq(S), NEW i \in DOMAIN s
    PROVE  LET t == SubSeq(s, 1, i - 1) \o SubSeq(s, i + 1, Len(s))
           IN  t \in Seq(S) /\ Elements(t) \subseteq Elements(s)
<1> DEFINE a == SubSeq(s, 1, i - 1)
           c == SubSeq(s, i + 1, Len(s))
           t == a \o c
<1>1. i \in 1 .. Len(s) /\ Len(s) \in Nat
    OBVIOUS
<1>2. a \in Seq(S) /\ Len(a) = i - 1 /\ \A k \in 1 .. Len(a) : a[k] = s[k]
    BY <1>1
<1>3. c \in Seq(S) /\ Len(c) = Len(s) - i /\ \A k \in 1 .. Len(c) : c[k] = s[k + i]
    BY <1>1
<1> HIDE DEF a, c
<1>4. /\ t \in Seq(S) /\ Len(t) = Len(a) + Len(c)
      /\ \A k \in 1 .. Len(a) + Len(c) : t[k] = IF k <= Len(a) THEN a[k] ELSE c[k - Len(a)]
    BY <1>2, <1>3, ConcatProperties
<1> HIDE DEF t
<1>5. ASSUME NEW k \in 1 .. Len(t) PROVE \E j \in 1 .. Len(s) : t[k] = s[j]
    <2>0. Len(a) \in Nat /\ Len(c) \in Nat
        BY <1>1, <1>2, <1>3
    <2>1. CASE k <= Len(a)
        <3>1. k \in 1 .. Len(a) /\ t[k] = a[k] /\ k \in 1 .. Len(s)
            BY <2>0, <2>1, <1>1, <1>2, <1>4
        <3> QED
            BY <3>1, <1>2
    <2>2. CASE ~(k <= Len(a))
        <3> DEFINE l == k - Len(a)
        <3>1. k \in 1 .. Len(a) + Len(c)
            BY <1>4
        <3>2. l \in 1 .. Len(c) /\ l \in Int
            BY <2>0, <2>2, <3>1
        <3>3. t[k] = c[l]
            BY <2>2, <3>1, <1>4
        <3> HIDE DEF l
        <3>4. c[l] = s[l + i]
            BY <3>2, <1>3
        <3>5. l + i \in 1 .. Len(s)
            BY <3>2, <2>0, <1>1, <1>3
        <3> QED
            BY <3>3, <3>4, <3>5
    <2> QED
        BY <2>1, <2>2
<1>6. Elements(t) \subseteq Elements(s)
    <2>1. DOMAIN t = 1 .. Len(t) /\ DOMAIN s = 1 .. Len(s)
        BY <1>4
    <2> QED
        BY <1>5, <2>1 DEF Elements
<1> QED
    BY <1>4, <1>6 DEF t, a, c

InForce == inforce \cup Current("host") \cup Current("ip")
Unhunted(u, b) == \/ client[u] = "off" \/ Due(Kind[b])
                  \/ Kind[b] = "K" /\ client[u] = "unknown"

LEMMA Clean_Line ==
    Clean <=> \A u \in KUser : \A b \in InForce : b \in missed \/ u \notin Whom[b]
                                                  \/ u \in Spared[Kind[b]] \/ Unhunted(u, b)
    BY DEF Clean, InForce, Unhunted

LEMMA In_Force_Bans ==
    ASSUME KTypeOK
    PROVE  /\ InForce \subseteq Ban /\ InForce \subseteq InTables
           /\ \A b \in InForce : Kind[b] \in {"K", "D"}
           /\ TempsAreK => \A b \in InForce : Kind[b] = "D" => b \in inforce
<1>1. /\ Current("host") \subseteq Ban /\ Current("host") \subseteq InTables
      /\ TempsAreK => \A b \in Current("host") : Kind[b] = "K"
    BY Current_Bans
<1>2. /\ Current("ip") \subseteq Ban /\ Current("ip") \subseteq InTables
      /\ TempsAreK => \A b \in Current("ip") : Kind[b] = "K"
    BY Current_Bans
<1>3. inforce \subseteq Ban /\ inforce \subseteq InTables
    BY DEF KTypeOK, InTables
<1>4. InForce \subseteq Ban /\ InForce \subseteq InTables
    BY <1>1, <1>2, <1>3 DEF InForce
<1>5. \A b \in InForce : Kind[b] \in {"K", "D"}
    BY <1>4, KLinesAssumption
<1>6. TempsAreK => \A b \in InForce : Kind[b] = "D" => b \in inforce
    BY <1>1, <1>2 DEF InForce
<1> QED
    BY <1>4, <1>5, <1>6

(* The temporary lines after a step that only takes entries away.           *)
LEMMA Temps_Less ==
    ASSUME KTypeOK, TempsAreK, now' \in Nat, now' >= now,
           \A f \in {"host", "ip"} : Elements(temporary[f])' \subseteq Elements(temporary[f])
    PROVE  /\ TempsAreK'
           /\ Current("host")' \subseteq Current("host") /\ Current("ip")' \subseteq Current("ip")
<1>1. Current("host")' \subseteq Current("host") /\ Current("ip")' \subseteq Current("ip")
    BY Current_Less
<1>2. TempsAreK'
    BY DEF TempsAreK
<1> QED
    BY <1>1, <1>2

LEMMA Temps_Found ==
    ASSUME KTypeOK, TempsAreK, NEW Q, temporary' = AfterFind(Q), now' = now
    PROVE  /\ temporary' \in [{"host", "ip"} -> Seq(KEntry)] /\ TempsAreK'
           /\ Current("host")' \subseteq Current("host") /\ Current("ip")' \subseteq Current("ip")
<1>1. /\ AfterFind(Q) \in [{"host", "ip"} -> Seq(KEntry)]
      /\ \A f \in {"host", "ip"} : Elements(AfterFind(Q)[f]) \subseteq Elements(temporary[f])
    BY After_Find
<1>2. \A f \in {"host", "ip"} : Elements(temporary[f])' \subseteq Elements(temporary[f])
    BY <1>1 DEF Elements
<1>3. now' \in Nat /\ now' >= now
    BY DEF KTypeOK
<1> QED
    BY <1>1, <1>2, <1>3, Temps_Less

(* Nothing is hunted for anew, and no line comes that is not marked.        *)
LEMMA Same_Hunt ==
    ASSUME KTypeOK, Clean, rehashed' = rehashed, dline_in_progress' = dline_in_progress,
           missed \subseteq missed', InForce' \subseteq InForce \cup missed',
           \A u \in KUser : client'[u] = client[u] \/ client'[u] = "off"
    PROVE  Clean'
<1> SUFFICES ASSUME NEW u \in KUser, NEW b \in InForce', b \notin missed', u \in Whom[b],
                    u \notin Spared[Kind[b]]
             PROVE  Unhunted(u, b)'
    BY DEF Clean, InForce, Unhunted
<1>1. Unhunted(u, b)
    BY Clean_Line
<1>2. Due(Kind[b])' <=> Due(Kind[b])
    BY DEF Due
<1> QED
    BY <1>1, <1>2 DEF Unhunted

(* A hunt begins for the lines of kind k, new ones among them.              *)
LEMMA New_Hunt ==
    ASSUME KTypeOK, Clean, NEW k \in {"K", "D"}, Hunt(k), client' = client,
           \A b \in InForce' : b \in InForce \/ Kind[b] = k
    PROVE  Clean'
<1> SUFFICES ASSUME NEW u \in KUser, NEW b \in InForce', b \notin missed', u \in Whom[b],
                    u \notin Spared[Kind[b]]
             PROVE  Unhunted(u, b)'
    BY DEF Clean, InForce, Unhunted
<1>1. missed' = missed \cup Overtaken(k) /\ rehashed' = TRUE /\ dline_in_progress' = (k = "D")
    BY DEF Hunt
<1>2. CASE Kind[b] = k
    BY <1>1, <1>2 DEF Unhunted, Due
<1>3. CASE Kind[b] # k
    <2>1. b \in InForce
        BY <1>3
    <2>2. Kind[b] = Other(k) /\ b \in OfKind(Other(k)) /\ b \in InTables
        BY <1>3, <2>1, In_Force_Bans DEF Other, OfKind
    <2>3. ~Due(Kind[b])
        BY <1>1, <2>2 DEF Overtaken
    <2>4. Unhunted(u, b)
        BY <1>1, <2>1, Clean_Line
    <2> QED
        BY <2>3, <2>4 DEF Unhunted
<1> QED
    BY <1>2, <1>3

(* The file is read again.                                                  *)
LEMMA Read_Again ==
    ASSUME KTypeOK, Clean, NEW file, file \subseteq Ban, Reread(file), client' = client,
           dline_in_progress' = dline_in_progress, temporary' = temporary, now' = now
    PROVE  Clean'
<1> DEFINE new == (file \ inforce) \cap OfKind(IF dline_in_progress' THEN "K" ELSE "D")
<1>1. /\ inforce' = file /\ rehashed' = TRUE /\ missed' = missed \cup new
      /\ dline_in_progress \in BOOLEAN
    BY DEF Reread, KTypeOK
<1>2. Current("host")' = Current("host") /\ Current("ip")' = Current("ip")
    BY DEF Current, KOver, Elements
<1> SUFFICES ASSUME NEW u \in KUser, NEW b \in InForce', b \notin missed', u \in Whom[b],
                    u \notin Spared[Kind[b]]
             PROVE  Unhunted(u, b)'
    BY DEF Clean, InForce, Unhunted
<1>3. b \in file \/ b \in InForce
    BY <1>1, <1>2 DEF InForce
<1>4. b \in Ban /\ Kind[b] \in {"K", "D"}
    BY <1>3, In_Force_Bans, KLinesAssumption
<1>5. CASE dline_in_progress = (Kind[b] = "D")
    BY <1>1, <1>5 DEF Unhunted, Due
<1>6. CASE ~(dline_in_progress = (Kind[b] = "D"))
    <2>1. ~Due(Kind[b])
        BY <1>6 DEF Due
    <2>2. Kind[b] = IF dline_in_progress' THEN "K" ELSE "D"
        BY <1>1, <1>4, <1>6
    <2>3. b \in OfKind(IF dline_in_progress' THEN "K" ELSE "D")
        BY <2>2, <1>4 DEF OfKind
    <2>4. b \in InForce
        BY <2>3, <1>1, <1>3 DEF InForce
    <2>5. Unhunted(u, b)
        BY <1>1, <2>4, Clean_Line
    <2> QED
        BY <2>1, <2>5 DEF Unhunted
<1> QED
    BY <1>5, <1>6

LEMMA Dlines_Read_Again ==
    ASSUME KTypeOK, Clean, RehashDlines
    PROVE  Clean'
<1>1. /\ inforce' = conf /\ rehashed' = TRUE /\ dline_in_progress' = TRUE
      /\ missed' = missed \cup Overtaken("D") \cup ((conf \ inforce) \cap OfKind("K"))
      /\ client' = client /\ temporary' = temporary /\ now' = now /\ conf \subseteq Ban
    BY DEF RehashDlines, KTypeOK
<1>2. Current("host")' = Current("host") /\ Current("ip")' = Current("ip")
    BY <1>1 DEF Current, KOver, Elements
<1> SUFFICES ASSUME NEW u \in KUser, NEW b \in InForce', b \notin missed', u \in Whom[b],
                    u \notin Spared[Kind[b]]
             PROVE  Unhunted(u, b)'
    BY DEF Clean, InForce, Unhunted
<1>3. b \in conf \/ b \in InForce
    BY <1>1, <1>2 DEF InForce
<1>4. b \in Ban /\ Kind[b] \in {"K", "D"}
    BY <1>1, <1>3, In_Force_Bans, KLinesAssumption
<1>5. CASE Kind[b] = "D"
    BY <1>1, <1>5 DEF Unhunted, Due
<1>6. CASE Kind[b] = "K"
    <2>1. b \in OfKind("K")
        BY <1>4, <1>6 DEF OfKind
    <2>2. b \in InForce
        BY <2>1, <1>1, <1>3 DEF InForce
    <2>3. ~Due("K")
        BY <2>1, <2>2, <1>1, In_Force_Bans DEF Overtaken, Other
    <2>4. Unhunted(u, b)
        BY <1>1, <2>2, Clean_Line
    <2> QED
        BY <2>3, <2>4, <1>1, <1>6 DEF Unhunted
<1> QED
    BY <1>4, <1>5, <1>6

(* A client comes in past the D-lines.                                      *)
LEMMA Comes_Past_Dlines ==
    ASSUME KTypeOK, TempsAreK, Clean, NEW v \in KUser, Accept(v)
    PROVE  Clean'
<1>1. /\ ~DLined(v) /\ client' = [client EXCEPT ![v] = "unknown"]
      /\ client \in [KUser -> {"off", "unknown", "person"}]
      /\ inforce' = inforce /\ temporary' = temporary /\ now' = now
      /\ rehashed' = rehashed /\ dline_in_progress' = dline_in_progress /\ missed' = missed
    BY DEF Accept, KTypeOK
<1>2. InForce' = InForce
    BY <1>1 DEF InForce, Current, KOver, Elements
<1> SUFFICES ASSUME NEW u \in KUser, NEW b \in InForce', b \notin missed', u \in Whom[b],
                    u \notin Spared[Kind[b]]
             PROVE  Unhunted(u, b)'
    BY DEF Clean, InForce, Unhunted
<1>3. Unhunted(u, b) /\ Kind[b] \in {"K", "D"} /\ b \in Ban
    BY <1>1, <1>2, Clean_Line, In_Force_Bans
<1>4. Due(Kind[b])' <=> Due(Kind[b])
    BY <1>1 DEF Due
<1>5. CASE u # v
    BY <1>1, <1>3, <1>4, <1>5 DEF Unhunted
<1>6. CASE u = v /\ Kind[b] = "K"
    BY <1>1, <1>6 DEF Unhunted
<1>7. CASE u = v /\ Kind[b] = "D"
    <2>1. b \in inforce
        BY <1>2, <1>7, In_Force_Bans
    <2> QED
        BY <2>1, <1>1, <1>3, <1>7 DEF DLined, About, OfKind
<1> QED
    BY <1>3, <1>5, <1>6, <1>7

(* Registration finds every K-line in force that is about the client.       *)
LEMMA K_Found ==
    ASSUME KTypeOK, NEW u \in KUser, NEW b \in InForce, Kind[b] = "K", u \in Whom[b]
    PROVE  is_klined({u})
<1>1. b \in Ban
    BY In_Force_Bans
<1>2. CASE b \in inforce
    BY <1>2 DEF is_klined, KLined
<1>3. CASE b \in Current("host")
    BY <1>1, <1>3, Found DEF is_klined
<1>4. CASE b \in Current("ip")
    BY <1>1, <1>4, Found DEF is_klined
<1> QED
    BY <1>2, <1>3, <1>4 DEF InForce

LEMMA Registers_Past_Klines ==
    ASSUME KTypeOK, TempsAreK, Clean, NEW v \in KUser, KRegister(v),
           InForce' \subseteq InForce
    PROVE  Clean'
<1>1. /\ client[v] = "unknown"
      /\ client' = [client EXCEPT ![v] = IF verify_access(v) THEN "person" ELSE "off"]
      /\ client \in [KUser -> {"off", "unknown", "person"}]
      /\ rehashed' = rehashed /\ dline_in_progress' = dline_in_progress /\ missed' = missed
    BY DEF KRegister, KTypeOK
<1> SUFFICES ASSUME NEW u \in KUser, NEW b \in InForce', b \notin missed', u \in Whom[b],
                    u \notin Spared[Kind[b]]
             PROVE  Unhunted(u, b)'
    BY DEF Clean, InForce, Unhunted
<1>2. Unhunted(u, b) /\ Kind[b] \in {"K", "D"} /\ b \in InForce
    BY <1>1, Clean_Line, In_Force_Bans
<1>3. Due(Kind[b])' <=> Due(Kind[b])
    BY <1>1 DEF Due
<1>4. CASE u # v
    BY <1>1, <1>2, <1>3, <1>4 DEF Unhunted
<1>5. CASE u = v /\ Kind[b] = "K"
    <2>1. is_klined({v}) /\ v \notin Spared["K"]
        BY <1>2, <1>5, K_Found
    <2>2. ~verify_access(v)
        BY <2>1 DEF verify_access, is_klined
    <2>3. client'[u] = "off"
        BY <2>2, <1>1, <1>5
    <2> QED
        BY <2>3 DEF Unhunted
<1>6. CASE u = v /\ Kind[b] = "D"
    BY <1>1, <1>2, <1>3, <1>6 DEF Unhunted
<1> QED
    BY <1>2, <1>4, <1>5, <1>6

(* The hunt: whoever it is for goes.                                        *)
LEMMA Hunted ==
    ASSUME KTypeOK, TempsAreK, Clean, check_pings, InForce' \subseteq InForce
    PROVE  Clean'
<1> DEFINE hunts == IF dline_in_progress THEN "D" ELSE "K"
<1>1. /\ rehashed /\ \A u \in KUser : client'[u] = IF Target(u) THEN "off" ELSE client[u]
      /\ missed' = missed \cap OfKind(IF dline_in_progress THEN "K" ELSE "D")
      /\ client \in [KUser -> {"off", "unknown", "person"}]
    BY DEF check_pings, KTypeOK
<1> SUFFICES ASSUME NEW u \in KUser, NEW b \in InForce', b \notin missed', u \in Whom[b],
                    u \notin Spared[Kind[b]]
             PROVE  Unhunted(u, b)'
    BY DEF Clean, InForce, Unhunted
<1>2. b \in InForce /\ b \in Ban /\ Kind[b] \in {"K", "D"}
    BY In_Force_Bans
<1>3. CASE Kind[b] = "D" /\ dline_in_progress
    <2>1. b \in inforce
        BY <1>2, <1>3, In_Force_Bans
    <2>2. DLined(u)
        BY <2>1, <1>2, <1>3 DEF DLined, About, OfKind
    <2>3. client'[u] = "off"
        BY <2>2, <1>1, <1>3 DEF Target
    <2> QED
        BY <2>3 DEF Unhunted
<1>4. CASE Kind[b] = "K" /\ ~dline_in_progress
    <2>1. is_klined({u}) /\ u \notin Spared["K"]
        BY <1>2, <1>4, K_Found
    <2>2. client[u] = "person" => client'[u] = "off"
        BY <2>1, <1>1, <1>4 DEF Target, Huntable
    <2>3. client[u] \in {"off", "unknown", "person"}
        BY <1>1
    <2> QED
        BY <2>2, <2>3, <1>1, <1>4 DEF Unhunted
<1>5. CASE Kind[b] # hunts
    <2>1. b \in OfKind(IF dline_in_progress THEN "K" ELSE "D")
        BY <1>2, <1>5 DEF OfKind
    <2>2. b \notin missed
        BY <2>1, <1>1
    <2>3. Unhunted(u, b) /\ ~Due(Kind[b])
        BY <2>2, <1>2, <1>5, Clean_Line DEF Due
    <2> QED
        BY <2>3, <1>1 DEF Unhunted
<1> QED
    BY <1>2, <1>3, <1>4, <1>5

LEMMA Init_KLines ==
    ASSUME KInit
    PROVE  KInv
<1> USE KLinesAssumption DEF KInit
<1>1. KTypeOK
    <2>1. client \in [KUser -> {"off", "unknown", "person"}] /\ PendingLines \in Seq(Ban)
        OBVIOUS
    <2>2. temporary \in [{"host", "ip"} -> Seq(KEntry)]
        OBVIOUS
    <2>3. now \in 0 .. MaxNow /\ cmds \in 0 .. MaxCmds
        OBVIOUS
    <2>4. {locked, rehashed, dline_in_progress} \subseteq BOOLEAN
        OBVIOUS
    <2>5. inforce \in SUBSET Ban /\ conf \in SUBSET Ban /\ missed \in SUBSET Ban
        OBVIOUS
    <2> QED
        BY ONLY <2>1, <2>2, <2>3, <2>4, <2>5 DEF KTypeOK
<1>2. Kept
    BY DEF Kept
<1>3. Clean
    BY DEF Clean
<1>4. \A f \in {"host", "ip"} : Elements(temporary[f]) = {}
    BY DEF Elements
<1> QED
    BY <1>1, <1>2, <1>3, <1>4 DEF KInv, TempsAreK

(* A new line, in memory and in the file or waiting for it.                 *)
LEMMA Line_Stored ==
    ASSUME KInv, NEW b \in Ban, Store(b), client' = client, locked' = locked, now' = now,
           cmds' \in 0 .. MaxCmds, temporary' \in [{"host", "ip"} -> Seq(KEntry)],
           \A f \in {"host", "ip"} : Elements(temporary[f])' \subseteq Elements(temporary[f])
    PROVE  KInv'
<1> USE DEF KInv
<1>0. now' \in Nat /\ now' >= now
    BY DEF KTypeOK
<1>1. /\ temporary' \in [{"host", "ip"} -> Seq(KEntry)] /\ TempsAreK'
      /\ Current("host")' \subseteq Current("host") /\ Current("ip")' \subseteq Current("ip")
    BY <1>0, Temps_Less
<1>2. /\ inforce \subseteq Ban /\ conf \subseteq Ban /\ PendingLines \in Seq(Ban)
      /\ missed \subseteq Ban /\ Kind[b] \in {"K", "D"}
    BY KLinesAssumption DEF KTypeOK
<1>3. inforce' = inforce \cup {b}
    BY DEF Store
<1>4. InForce' \subseteq InForce \cup {b}
    BY <1>1, <1>3 DEF InForce
<1>5. InForce \subseteq Ban /\ Elements(PendingLines) \subseteq Ban
    BY <1>2, In_Force_Bans DEF Elements
<1>6. CASE locked
    <2>1. /\ PendingLines' = <<b>> \o PendingLines /\ missed' = missed \cup {b}
          /\ conf' = conf /\ rehashed' = rehashed /\ dline_in_progress' = dline_in_progress
        BY <1>6 DEF Store
    <2>2. /\ PendingLines' \in Seq(Ban)
          /\ Elements(PendingLines)' = Elements(PendingLines) \cup {b}
        <3>1. /\ <<b>> \o PendingLines \in Seq(Ban)
              /\ Elements(<<b>> \o PendingLines) = Elements(PendingLines) \cup {b}
            BY <1>2, In_Front_Elements
        <3> QED
            BY <2>1, <3>1 DEF Elements
    <2>3. KTypeOK'
        BY <1>1, <1>2, <1>3, <2>1, <2>2 DEF KTypeOK
    <2>4. Kept'
        BY <1>3, <2>1, <2>2 DEF Kept
    <2>5. Clean'
        BY <1>4, <2>1, Same_Hunt
    <2> QED
        BY <1>1, <2>3, <2>4, <2>5
<1>7. CASE ~locked
    <2>1. /\ PendingLines' = << >> /\ conf' = conf \cup Written(b) /\ Hunt(Kind[b])
        BY <1>7 DEF Store
    <2>2. Written(b) = Elements(PendingLines) \cup {b}
        BY DEF Written
    <2>3. missed' \subseteq Ban /\ rehashed' \in BOOLEAN /\ dline_in_progress' \in BOOLEAN
        BY <1>2, <2>1 DEF Hunt, Overtaken, OfKind
    <2>4. KTypeOK'
        BY <1>1, <1>2, <1>3, <1>5, <2>1, <2>2, <2>3 DEF KTypeOK
    <2>5. Kept'
        BY <1>3, <2>1, <2>2 DEF Kept
    <2>6. Clean'
        BY <1>2, <1>4, <2>1, New_Hunt
    <2> QED
        BY <1>1, <2>4, <2>5, <2>6
<1> QED
    BY <1>6, <1>7

LEMMA Line_Held ==
    ASSUME KInv, NEW b \in Ban, TempKLine(b)
    PROVE  KInv'
<1> USE DEF KInv
<1> DEFINE s == AfterFind({Whom[b]})
           e == [ban |-> b, hold |-> now + Hold]
<1>1. /\ temporary' = [s EXCEPT ![Form[b]] = <<e>> \o @]
      /\ Kind[b] = "K" /\ Hunt("K") /\ client' = client /\ inforce' = inforce /\ conf' = conf
      /\ locked' = locked /\ PendingLines' = PendingLines /\ now' = now
      /\ cmds' = cmds + 1 /\ cmds < MaxCmds
    BY DEF TempKLine, KCommand
<1>2. /\ s \in [{"host", "ip"} -> Seq(KEntry)]
      /\ \A f \in {"host", "ip"} : Elements(s[f]) \subseteq Elements(temporary[f])
    BY After_Find
<1>3. e \in KEntry /\ e.ban = b /\ Form[b] \in {"host", "ip"} /\ now \in Nat
    BY KLinesAssumption DEF KTypeOK, KEntry
<1> HIDE DEF s, e
<1>4. /\ <<e>> \o s[Form[b]] \in Seq(KEntry)
      /\ Elements(<<e>> \o s[Form[b]]) = Elements(s[Form[b]]) \cup {e}
    BY <1>2, <1>3, In_Front_Elements
<1>5. temporary' \in [{"host", "ip"} -> Seq(KEntry)]
    BY <1>1, <1>2, <1>3, <1>4
<1>6. \A f \in {"host", "ip"} : Elements(temporary[f])' \subseteq Elements(temporary[f]) \cup {e}
    <2> SUFFICES ASSUME NEW f \in {"host", "ip"}
                 PROVE  Elements(temporary[f])' \subseteq Elements(temporary[f]) \cup {e}
        OBVIOUS
    <2>1. CASE f = Form[b]
        <3>1. temporary'[f] = <<e>> \o s[f]
            BY <2>1, <1>1, <1>2
        <3>2. Elements(temporary'[f]) = Elements(s[f]) \cup {e}
            BY <2>1, <3>1, <1>4
        <3> QED
            BY <3>2, <1>2 DEF Elements
    <2>2. CASE f # Form[b]
        <3>1. temporary'[f] = s[f]
            BY <2>2, <1>1, <1>2
        <3> QED
            BY <3>1, <1>2 DEF Elements
    <2> QED
        BY <2>1, <2>2
<1>7. TempsAreK'
    BY <1>1, <1>3, <1>6 DEF TempsAreK
<1>8. \A f \in {"host", "ip"} : Current(f)' \subseteq Current(f) \cup {b}
    <2> SUFFICES ASSUME NEW f \in {"host", "ip"}, NEW x \in Elements(temporary[f])', ~KOver(x)'
                 PROVE  x.ban \in Current(f) \cup {b}
        BY DEF Current
    <2>1. KOver(x)' <=> KOver(x)
        BY <1>1 DEF KOver
    <2>2. x \in Elements(temporary[f]) \/ x = e
        BY <1>6
    <2> QED
        BY <2>1, <2>2, <1>3 DEF Current
<1>9. \A c \in InForce' : c \in InForce \/ Kind[c] = "K"
    BY <1>1, <1>8 DEF InForce
<1>10. Clean'
    BY <1>1, <1>9, New_Hunt
<1>11. KTypeOK'
    <2>1. missed' \subseteq Ban /\ rehashed' \in BOOLEAN /\ dline_in_progress' \in BOOLEAN
        BY <1>1 DEF Hunt, Overtaken, OfKind, KTypeOK
    <2>2. cmds' \in 0 .. MaxCmds
        BY <1>1, KLinesAssumption DEF KTypeOK
    <2> QED
        BY <1>1, <1>5, <2>1, <2>2 DEF KTypeOK
<1>12. Kept'
    BY <1>1 DEF Kept
<1> QED
    BY <1>7, <1>10, <1>11, <1>12

(* Steps that touch neither the lines for good nor the hunt.                *)
LEMMA Lines_Stay ==
    ASSUME KInv, UNCHANGED <<inforce, conf, PendingLines, rehashed, dline_in_progress, missed>>,
           locked' \in BOOLEAN, cmds' \in 0 .. MaxCmds, now' \in 0 .. MaxNow, now' >= now,
           client' \in [KUser -> {"off", "unknown", "person"}],
           \A u \in KUser : client'[u] = client[u] \/ client'[u] = "off",
           temporary' \in [{"host", "ip"} -> Seq(KEntry)],
           \A f \in {"host", "ip"} : Elements(temporary[f])' \subseteq Elements(temporary[f])
    PROVE  KInv'
<1> USE DEF KInv
<1>1. now' \in Nat
    BY KLinesAssumption
<1>2. /\ TempsAreK'
      /\ Current("host")' \subseteq Current("host") /\ Current("ip")' \subseteq Current("ip")
    BY <1>1, Temps_Less
<1>3. InForce' \subseteq InForce \cup missed' /\ missed \subseteq missed'
    BY <1>2 DEF InForce
<1>4. Clean'
    BY <1>3, Same_Hunt
<1>5. KTypeOK'
    BY DEF KTypeOK
<1>6. Kept'
    BY DEF Kept, Elements
<1> QED
    BY <1>2, <1>4, <1>5, <1>6

(* A step that reads the file again.                                        *)
LEMMA File_Read ==
    ASSUME KInv, KCommand, NEW file \in SUBSET Ban, Reread(file),
           UNCHANGED <<client, dline_in_progress, temporary, locked, PendingLines, now>>
    PROVE  KInv'
<1> USE DEF KInv
<1>1. Clean'
    BY Read_Again
<1>2. KTypeOK'
    <2>1. cmds' \in 0 .. MaxCmds
        BY KLinesAssumption DEF KTypeOK, KCommand
    <2>2. conf' = file /\ inforce' = file /\ rehashed' = TRUE /\ missed' \subseteq Ban
        BY DEF Reread, KTypeOK
    <2> QED
        BY <2>1, <2>2 DEF KTypeOK
<1>3. Kept'
    BY DEF Reread, Kept
<1>4. TempsAreK'
    BY DEF TempsAreK, Elements
<1> QED
    BY <1>1, <1>2, <1>3, <1>4

LEMMA K_Types ==
    ASSUME KInv
    PROVE  /\ client \in [KUser -> {"off", "unknown", "person"}] /\ locked \in BOOLEAN
           /\ temporary \in [{"host", "ip"} -> Seq(KEntry)] /\ conf \subseteq Ban
           /\ now \in 0 .. MaxNow /\ now \in Nat /\ cmds \in 0 .. MaxCmds
           /\ KCommand => cmds' \in 0 .. MaxCmds
    BY KLinesAssumption DEF KInv, KTypeOK, KCommand

LEMMA Temps_After ==
    ASSUME KInv, NEW Q, temporary' = AfterFind(Q)
    PROVE  /\ temporary' \in [{"host", "ip"} -> Seq(KEntry)]
           /\ \A f \in {"host", "ip"} : Elements(temporary[f])' \subseteq Elements(temporary[f])
<1>1. /\ AfterFind(Q) \in [{"host", "ip"} -> Seq(KEntry)]
      /\ \A f \in {"host", "ip"} : Elements(AfterFind(Q)[f]) \subseteq Elements(temporary[f])
    BY After_Find DEF KInv
<1> QED
    BY <1>1 DEF Elements

LEMMA Already_Klined ==
    ASSUME KInv, NEW b \in Ban, KLined_Already(b)
    PROVE  KInv'
<1>1. /\ temporary' = AfterFind({Whom[b]}) /\ KCommand
      /\ UNCHANGED <<client, inforce, conf, locked, PendingLines, rehashed,
                     dline_in_progress, now, missed>>
    BY DEF KLined_Already
<1>2. /\ temporary' \in [{"host", "ip"} -> Seq(KEntry)]
      /\ \A f \in {"host", "ip"} : Elements(temporary[f])' \subseteq Elements(temporary[f])
    BY <1>1, Temps_After
<1>3. locked' \in BOOLEAN /\ cmds' \in 0 .. MaxCmds /\ now' \in 0 .. MaxNow /\ now' >= now
    BY <1>1, K_Types
<1>4. /\ client' \in [KUser -> {"off", "unknown", "person"}]
      /\ \A u \in KUser : client'[u] = client[u] \/ client'[u] = "off"
    BY <1>1, K_Types
<1> QED
    BY <1>1, <1>2, <1>3, <1>4, Lines_Stay

LEMMA Temp_Removed ==
    ASSUME KInv, NEW b \in Ban, UnTemp(b)
    PROVE  KInv'
<1> DEFINE s == temporary[Form[b]]
           hits == {i \in DOMAIN s : IF Form[b] = "ip" THEN Whom[b] \subseteq Whom[s[i].ban]
                                                       ELSE s[i].ban = b}
           i == FirstTemp(b)
           t == SubSeq(s, 1, i - 1) \o SubSeq(s, i + 1, Len(s))
<1>1. /\ temporary' = [temporary EXCEPT ![Form[b]] = t] /\ KCommand /\ i # 0
      /\ UNCHANGED <<client, inforce, conf, locked, PendingLines, rehashed,
                     dline_in_progress, now, missed>>
    BY DEF UnTemp
<1>2. Form[b] \in {"host", "ip"} /\ s \in Seq(KEntry) /\ hits \subseteq DOMAIN s
    BY KLinesAssumption, K_Types
<1>3. i = IF hits = {} THEN 0 ELSE CHOOSE x \in hits : \A j \in hits : x <= j
    BY DEF FirstTemp
<1> HIDE DEF hits, i
<1>4. i \in DOMAIN s
    BY <1>1, <1>2, <1>3, Least_Place
<1>5. t \in Seq(KEntry) /\ Elements(t) \subseteq Elements(s)
    BY <1>2, <1>4, Cut_Elements
<1> HIDE DEF t
<1>6. /\ temporary' \in [{"host", "ip"} -> Seq(KEntry)]
      /\ \A f \in {"host", "ip"} : temporary'[f] = IF f = Form[b] THEN t ELSE temporary[f]
    BY <1>1, <1>2, <1>5, K_Types
<1>7. \A f \in {"host", "ip"} : Elements(temporary[f])' \subseteq Elements(temporary[f])
    BY <1>5, <1>6 DEF Elements
<1> QED
    BY <1>1, <1>6, <1>7, K_Types, Lines_Stay

LEMMA Temps_Flushed ==
    ASSUME KInv, flush_temp_klines
    PROVE  KInv'
<1>1. /\ temporary' = [f \in {"host", "ip"} |-> << >>] /\ KCommand
      /\ UNCHANGED <<client, inforce, conf, locked, PendingLines, rehashed,
                     dline_in_progress, now, missed>>
    BY DEF flush_temp_klines
<1>2. temporary' \in [{"host", "ip"} -> Seq(KEntry)]
    BY <1>1
<1>3. \A f \in {"host", "ip"} : Elements(temporary[f])' = {}
    BY <1>1 DEF Elements
<1> QED
    BY <1>1, <1>2, <1>3, K_Types, Lines_Stay

LEMMA K_Client_Steps ==
    ASSUME KInv, NEW u \in KUser, Accept(u) \/ KRegister(u) \/ KQuit(u)
    PROVE  KInv'
<1>1. CASE Accept(u)
    <2>1. Clean'
        BY <1>1, Comes_Past_Dlines DEF KInv
    <2>2. client' \in [KUser -> {"off", "unknown", "person"}]
        BY <1>1, K_Types DEF Accept
    <2>3. KTypeOK'
        BY <1>1, <2>2 DEF KInv, KTypeOK, Accept
    <2>4. Kept' /\ TempsAreK'
        BY <1>1 DEF KInv, Kept, TempsAreK, Elements, Accept
    <2> QED
        BY <2>1, <2>3, <2>4 DEF KInv
<1>2. CASE KRegister(u)
    <2>1. PICK Q : temporary' = temporary \/ temporary' = AfterFind(Q)
        BY <1>2 DEF KRegister
    <2>2. now' = now /\ inforce' = inforce
        BY <1>2 DEF KRegister
    <2>3. /\ temporary' \in [{"host", "ip"} -> Seq(KEntry)] /\ TempsAreK'
          /\ Current("host")' \subseteq Current("host") /\ Current("ip")' \subseteq Current("ip")
        <3>1. CASE temporary' = temporary
            BY <2>2, <3>1, K_Types DEF KInv, TempsAreK, Elements, Current, KOver
        <3>2. CASE temporary' = AfterFind(Q)
            BY <2>2, <3>2, Temps_Found DEF KInv
        <3> QED
            BY <2>1, <3>1, <3>2
    <2>4. InForce' \subseteq InForce
        BY <2>2, <2>3 DEF InForce
    <2>5. Clean'
        BY <1>2, <2>4, Registers_Past_Klines DEF KInv
    <2>6. client' \in [KUser -> {"off", "unknown", "person"}]
        BY <1>2, K_Types DEF KRegister
    <2>7. KTypeOK'
        BY <1>2, <2>3, <2>6 DEF KInv, KTypeOK, KRegister
    <2>8. Kept'
        BY <1>2 DEF KInv, Kept, Elements, KRegister
    <2> QED
        BY <2>3, <2>5, <2>7, <2>8 DEF KInv
<1>3. CASE KQuit(u)
    <2>1. /\ client' = [client EXCEPT ![u] = "off"]
          /\ UNCHANGED <<inforce, temporary, conf, locked, PendingLines, rehashed,
                         dline_in_progress, now, cmds, missed>>
        BY <1>3 DEF KQuit
    <2>2. /\ client' \in [KUser -> {"off", "unknown", "person"}]
          /\ \A v \in KUser : client'[v] = client[v] \/ client'[v] = "off"
        BY <2>1, K_Types
    <2>3. \A f \in {"host", "ip"} : Elements(temporary[f])' \subseteq Elements(temporary[f])
        BY <2>1 DEF Elements
    <2> QED
        BY <2>1, <2>2, <2>3, K_Types, Lines_Stay
<1> QED
    BY <1>1, <1>2, <1>3

LEMMA Pings_Checked ==
    ASSUME KInv, check_pings
    PROVE  KInv'
<1>1. PICK Q : temporary' = temporary \/ temporary' = AfterFind(Q)
    BY DEF check_pings
<1>2. now' = now /\ inforce' = inforce
    BY DEF check_pings
<1>3. /\ temporary' \in [{"host", "ip"} -> Seq(KEntry)] /\ TempsAreK'
      /\ Current("host")' \subseteq Current("host") /\ Current("ip")' \subseteq Current("ip")
    <2>1. CASE temporary' = temporary
        BY <1>2, <2>1, K_Types DEF KInv, TempsAreK, Elements, Current, KOver
    <2>2. CASE temporary' = AfterFind(Q)
        BY <1>2, <2>2, Temps_Found DEF KInv
    <2> QED
        BY <1>1, <2>1, <2>2
<1>4. InForce' \subseteq InForce
    BY <1>2, <1>3 DEF InForce
<1>5. Clean'
    BY <1>4, Hunted DEF KInv
<1>6. client' \in [KUser -> {"off", "unknown", "person"}]
    BY K_Types DEF check_pings
<1>7. KTypeOK'
    BY <1>3, <1>6 DEF KInv, KTypeOK, check_pings
<1>8. Kept'
    BY DEF KInv, Kept, Elements, check_pings
<1> QED
    BY <1>3, <1>5, <1>7, <1>8 DEF KInv

LEMMA K_Restart ==
    ASSUME KInv, Restart
    PROVE  KInv'
<1>1. /\ KCommand /\ client' = [u \in KUser |-> "off"] /\ inforce' = conf
      /\ temporary' = [f \in {"host", "ip"} |-> << >>] /\ PendingLines' = << >>
      /\ rehashed' = TRUE /\ dline_in_progress' = FALSE /\ missed' = {}
      /\ conf' = conf /\ locked' = locked /\ now' = now
    BY DEF Restart
<1>2. temporary' \in [{"host", "ip"} -> Seq(KEntry)] /\ PendingLines' \in Seq(Ban)
    BY <1>1
<1>3. KTypeOK'
    BY <1>1, <1>2, K_Types DEF KTypeOK
<1>4. Kept'
    BY <1>1 DEF Kept
<1>5. \A f \in {"host", "ip"} : Elements(temporary[f])' = {}
    BY <1>1 DEF Elements
<1>6. TempsAreK'
    BY <1>5 DEF TempsAreK
<1>7. \A u \in KUser : client'[u] = "off"
    BY <1>1
<1>8. Clean'
    BY <1>7 DEF Clean
<1> QED
    BY <1>3, <1>4, <1>6, <1>8 DEF KInv

LEMMA Step_KLines ==
    ASSUME KInv, [KNext]_kvars
    PROVE  KInv'
<1>1. ASSUME NEW b \in Ban, KLined_Already(b) \/ KLine(b) \/ TempKLine(b) \/ DLine(b)
                            \/ UnTemp(b) \/ UnLine(b)
      PROVE  KInv'
    <2>1. CASE KLined_Already(b)
        BY <2>1, Already_Klined
    <2>2. CASE KLine(b)
        <3>1. /\ Store(b) /\ temporary' = AfterFind({Whom[b]}) /\ KCommand
              /\ client' = client /\ locked' = locked /\ now' = now
            BY <2>2 DEF KLine
        <3>2. /\ temporary' \in [{"host", "ip"} -> Seq(KEntry)]
              /\ \A f \in {"host", "ip"} : Elements(temporary[f])' \subseteq Elements(temporary[f])
            BY <3>1, Temps_After
        <3>3. cmds' \in 0 .. MaxCmds
            BY <3>1, K_Types
        <3> QED
            BY <3>1, <3>2, <3>3, Line_Stored
    <2>3. CASE TempKLine(b)
        BY <2>3, Line_Held
    <2>4. CASE DLine(b)
        <3>1. /\ Store(b) /\ temporary' = temporary /\ KCommand
              /\ client' = client /\ locked' = locked /\ now' = now
            BY <2>4 DEF DLine
        <3>2. /\ temporary' \in [{"host", "ip"} -> Seq(KEntry)]
              /\ \A f \in {"host", "ip"} : Elements(temporary[f])' \subseteq Elements(temporary[f])
            BY <3>1, K_Types DEF Elements
        <3>3. cmds' \in 0 .. MaxCmds
            BY <3>1, K_Types
        <3> QED
            BY <3>1, <3>2, <3>3, Line_Stored
    <2>5. CASE UnTemp(b)
        BY <2>5, Temp_Removed
    <2>6. CASE UnLine(b)
        <3>1. conf \ {b} \in SUBSET Ban
            BY K_Types
        <3> QED
            BY <2>6, <3>1, File_Read DEF UnLine, Copied_without
    <2> QED
        BY <1>1, <2>1, <2>2, <2>3, <2>4, <2>5, <2>6
<1>2. CASE KRehash
    <2>1. conf \in SUBSET Ban
        BY K_Types
    <2> QED
        BY <1>2, <2>1, File_Read DEF KRehash
<1>3. CASE RehashDlines
    <2>1. Clean'
        BY <1>3, Dlines_Read_Again DEF KInv
    <2>2. missed' \subseteq Ban
        BY <1>3 DEF RehashDlines, KInv, KTypeOK, Overtaken, OfKind
    <2>3. KTypeOK'
        BY <1>3, <2>2, K_Types DEF RehashDlines, KInv, KTypeOK
    <2>4. Kept' /\ TempsAreK'
        BY <1>3 DEF RehashDlines, KInv, Kept, TempsAreK, Elements
    <2> QED
        BY <2>1, <2>3, <2>4 DEF KInv
<1>4. CASE flush_temp_klines
    BY <1>4, Temps_Flushed
<1>5. CASE Edit
    <2>1. /\ locked' \in BOOLEAN /\ cmds' \in 0 .. MaxCmds
          /\ UNCHANGED <<client, inforce, temporary, conf, PendingLines, rehashed,
                         dline_in_progress, now, missed>>
        BY <1>5, K_Types DEF Edit
    <2>2. \A f \in {"host", "ip"} : Elements(temporary[f])' \subseteq Elements(temporary[f])
        BY <2>1 DEF Elements
    <2> QED
        BY <2>1, <2>2, K_Types, Lines_Stay
<1>6. CASE KTick \/ UNCHANGED kvars
    <2>1. /\ now' \in 0 .. MaxNow /\ now' >= now
          /\ UNCHANGED <<client, inforce, temporary, conf, locked, PendingLines, rehashed,
                         dline_in_progress, cmds, missed>>
        BY <1>6, KLinesAssumption, K_Types DEF KTick, kvars
    <2>2. \A f \in {"host", "ip"} : Elements(temporary[f])' \subseteq Elements(temporary[f])
        BY <2>1 DEF Elements
    <2> QED
        BY <2>1, <2>2, K_Types, Lines_Stay
<1>7. CASE check_pings
    BY <1>7, Pings_Checked
<1>8. CASE Restart
    BY <1>8, K_Restart
<1> QED
    BY <1>1, <1>2, <1>3, <1>4, <1>5, <1>6, <1>7, <1>8, K_Client_Steps DEF KNext

(* What is in force for good is in the file or waits to be written there,   *)
(* and nobody stays on whom a line in force is about but while the hunt is  *)
(* due, except for the lines that are never hunted for.  (m_kline, m_dline, *)
(* WritePendingLines, rehash, check_pings, verify_access.)                  *)
THEOREM KLines_Hold == KSpec => []KLinesRight
<1>1. KInit => KInv
    BY Init_KLines
<1>2. KInv /\ [KNext]_kvars => KInv'
    BY Step_KLines
<1>3. KInv => KLinesRight
    BY DEF KInv, KLinesRight
<1> QED
    BY <1>1, <1>2, <1>3, PTL DEF KSpec

===============================================================================
