------------------------------- MODULE TalkProofs -------------------------------
(***************************************************************************)
(* Proofs about Talk and Throttle, for any clients, channels, addresses,    *)
(* limits and delays.  Of Talk: the lists of who sends CTCPs to whom agree  *)
(* and hold nothing that is gone, and enough CTCPs are stopped (flud.c); of *)
(* new targets a client is let write to only the first MAXTARGETS come free *)
(* (check_target_limit); no message is thrown away without a reason.  The   *)
(* first is inductive with its types; the second counts what each account   *)
(* in fluders stands for; the third follows from what nexttarget says of    *)
(* each target that was let pass.  Of Throttle: check_clones lets in no     *)
(* more of one address than CheckClonesLimit, because the record of an      *)
(* address holds the number of those that came in a row, or has expired, or *)
(* its Z-line has not.                                                      *)
(***************************************************************************)
EXTENDS Talk, Throttle, FiniteSetTheorems, WellFoundedInduction, TLAPS

(***************************************************************************)
(* Who sends CTCPs to whom.                                                 *)
(***************************************************************************)
FludTypes ==
    /\ here \subseteq Name
    /\ fluders = [t \in Name |-> fluders[t]]
    /\ fludees \in [Talker -> SUBSET Name]

FludInv == FludTypes /\ Referred

(* The lists agree when they name the same pairs, all of them still here.   *)
LEMMA FludMade ==
    ASSUME NEW F, NEW G, FludTypes', fluders' = F, fludees' = G,
           \A t \in Name, p \in Talker :
             /\ p \in DOMAIN F[t] <=> t \in G[p]
             /\ p \in DOMAIN F[t] => {p, t} \subseteq here'
    PROVE  FludInv'
BY DEF FludInv, Referred

(* check_for_flud: the sender is added to both lists, and who has not sent  *)
(* for FLUDTIME seconds is taken off both.                                  *)
LEMMA FludCounted ==
    ASSUME FludInv, NEW p \in Talker, NEW t \in Name, {p, t} \subseteq here,
           UNCHANGED here, check_for_flud(p, t)
    PROVE  FludInv'
<1>1. CASE FLUDBLOCK = 0
  <2>1. UNCHANGED <<fluders, fludees, here>>
    BY <1>1 DEF check_for_flud
  <2> QED BY <2>1 DEF FludInv, FludTypes, Referred
<1>2. CASE FLUDBLOCK # 0
  <2> DEFINE C == Counted_in(p, t)
             G == Garbage(t)
  <2>1. /\ fluders' = [fluders EXCEPT ![t] = C]
        /\ fludees' = [q \in Talker |-> IF q = p THEN fludees[q] \cup {t}
                                        ELSE IF q \in G THEN fludees[q] \ {t}
                                        ELSE fludees[q]]
    BY <1>2 DEF check_for_flud
  <2>2. DOMAIN C = (DOMAIN fluders[t] \ G) \cup {p}
    BY DEF Counted_in
  <2> HIDE DEF C, G
  <2>3. /\ fluders' = [v \in Name |-> fluders'[v]]
        /\ \A v \in Name : fluders'[v] = IF v = t THEN C ELSE fluders[v]
    BY <2>1 DEF FludInv, FludTypes
  <2>4. /\ fludees' \in [Talker -> SUBSET Name]
        /\ \A q \in Talker : fludees'[q] = IF q = p THEN fludees[q] \cup {t}
                                           ELSE IF q \in G THEN fludees[q] \ {t}
                                           ELSE fludees[q]
    BY <2>1 DEF FludInv, FludTypes
  <2>5. FludTypes'
    BY <2>3, <2>4 DEF FludInv, FludTypes
  <2>6. ASSUME NEW v \in Name, NEW q \in Talker
        PROVE  /\ q \in DOMAIN fluders'[v] <=> v \in fludees'[q]
               /\ q \in DOMAIN fluders'[v] => {q, v} \subseteq here'
    <3>1. /\ q \in DOMAIN fluders[v] <=> v \in fludees[q]
          /\ q \in DOMAIN fluders[v] => {q, v} \subseteq here
      BY DEF FludInv, Referred
    <3>2. CASE v = t
      <4>1. q \in DOMAIN fluders'[v] <=> (q \in DOMAIN fluders[t] /\ q \notin G) \/ q = p
        BY <2>2, <2>3, <3>2
      <4>2. v \in fludees'[q] <=> q = p \/ (t \in fludees[q] /\ q \notin G)
        BY <2>4, <3>2
      <4> QED BY <3>1, <3>2, <4>1, <4>2
    <3>3. CASE v # t
      <4>1. fluders'[v] = fluders[v]
        BY <2>3, <3>3
      <4>2. v \in fludees'[q] <=> v \in fludees[q]
        BY <2>4, <3>3
      <4> QED BY <3>1, <4>1, <4>2
    <3> QED BY <3>2, <3>3
  <2> QED BY <2>5, <2>6, FludMade
<1> QED BY <1>1, <1>2

(* free_fluders and free_fludees: whoever goes is taken off all lists.      *)
LEMMA FludReleased ==
    ASSUME FludInv, NEW x \in Name, here' = here \ {x}, Release_flud(x)
    PROVE  FludInv'
<1>1. /\ fluders' = Unreferred(x)
      /\ fludees' = [p \in Talker |-> IF p = x THEN {}
                                      ELSE IF p \in DOMAIN fluders[x] THEN fludees[p] \ {x}
                                      ELSE fludees[p]]
  BY DEF Release_flud
<1>2. ASSUME NEW t \in Name
      PROVE  DOMAIN fluders'[t] =
               IF t = x THEN {}
               ELSE IF x \in Talker /\ t \in fludees[x] THEN DOMAIN fluders[t] \ {x}
               ELSE DOMAIN fluders[t]
  <2>1. fluders'[t] = IF t = x THEN Nobody
                      ELSE IF x \in Talker /\ t \in fludees[x]
                      THEN [q \in DOMAIN fluders[t] \ {x} |-> fluders[t][q]] ELSE fluders[t]
    BY <1>1 DEF Unreferred
  <2>2. DOMAIN Nobody = {}
    BY DEF Nobody
  <2>3. DOMAIN [q \in DOMAIN fluders[t] \ {x} |-> fluders[t][q]] = DOMAIN fluders[t] \ {x}
    OBVIOUS
  <2> QED BY <2>1, <2>2, <2>3
<1>3. fluders' = [t \in Name |-> fluders'[t]]
  BY <1>1 DEF Unreferred
<1>4. /\ fludees' \in [Talker -> SUBSET Name]
      /\ \A p \in Talker : fludees'[p] = IF p = x THEN {}
                                         ELSE IF p \in DOMAIN fluders[x] THEN fludees[p] \ {x}
                                         ELSE fludees[p]
  BY <1>1 DEF FludInv, FludTypes
<1>5. FludTypes'
  BY <1>3, <1>4 DEF FludInv, FludTypes
<1>6. ASSUME NEW t \in Name, NEW p \in Talker
      PROVE  /\ p \in DOMAIN fluders'[t] <=> t \in fludees'[p]
             /\ p \in DOMAIN fluders'[t] => {p, t} \subseteq here'
  <2>1. \A v \in Name, r \in Talker :
           /\ r \in DOMAIN fluders[v] <=> v \in fludees[r]
           /\ r \in DOMAIN fluders[v] => {r, v} \subseteq here
    BY DEF FludInv, Referred
  <2>2. CASE t = x
    BY <1>2, <1>4, <2>1, <2>2
  <2>3. CASE t # x /\ p = x
    BY <1>2, <1>4, <2>1, <2>3
  <2>4. CASE t # x /\ p # x
    <3>1. p \in DOMAIN fluders'[t] <=> p \in DOMAIN fluders[t]
      BY <1>2, <2>4
    <3>2. t \in fludees'[p] <=> t \in fludees[p]
      BY <1>4, <2>4
    <3> QED BY <2>1, <2>4, <3>1, <3>2
  <2> QED BY <2>2, <2>3, <2>4
<1> QED BY <1>5, <1>6, FludMade

(* The other steps leave the lists alone, and nobody goes.                  *)
LEMMA FludSame ==
    ASSUME FludInv, UNCHANGED <<fluders, fludees>>, here \subseteq here', here' \subseteq Name
    PROVE  FludInv'
BY DEF FludInv, FludTypes, Referred

LEMMA TalkerNamed == Talker \subseteq Name /\ Forum \subseteq Name
BY DEF Name

LEMMA FludInit == ASSUME LInit PROVE FludInv
<1>1. FludTypes
  BY DEF LInit, FludTypes
<1>2. \A t \in Name : DOMAIN fluders[t] = {}
  BY DEF LInit, Nobody
<1>3. \A p \in Talker : fludees[p] = {}
  BY DEF LInit
<1> QED BY <1>1, <1>2, <1>3 DEF FludInv, Referred

LEMMA FludNext == ASSUME FludInv, [LNext]_lvars PROVE FludInv'
<1>0. here \subseteq Name
  BY DEF FludInv, FludTypes
<1>1. CASE UNCHANGED lvars
  BY <1>1 DEF lvars, FludInv, FludTypes, Referred
<1>2. ASSUME NEW x \in Name, Goes(x) PROVE FludInv'
  BY <1>2, FludReleased DEF Goes
<1>3. ASSUME NEW x \in Name, Comes(x) PROVE FludInv'
  BY <1>0, <1>3, FludSame DEF Comes, flood
<1>4. ASSUME NEW p \in Talker, Dcc_Allowed(p) \/ Drains(p) PROVE FludInv'
  BY <1>0, <1>4, FludSame DEF Dcc_Allowed, Drains, flood
<1>5. ASSUME NEW d \in Steps, Waits(d) PROVE FludInv'
  BY <1>0, <1>5, FludSame DEF Waits, flood
<1>6. ASSUME NEW p \in Talker, NEW text \in Text, NEW notice \in BOOLEAN, NEW c \in Forum,
             ToChanops(p, c, text, notice)
      PROVE  FludInv'
  BY <1>6, TalkerNamed, FludCounted DEF ToChanops, Speaker
<1>7. ASSUME NEW p \in Talker, NEW text \in Text, NEW notice \in BOOLEAN, NEW c \in Forum,
             NEW b \in BOOLEAN, ToChannel(p, c, text, notice, b)
      PROVE  FludInv'
  <2>1. {p, c} \subseteq here /\ here' = here
        /\ (check_for_flud(p, c) \/ UNCHANGED <<fluders, fludees>>)
    BY <1>7 DEF ToChannel, Speaker
  <2> QED BY <1>0, <2>1, TalkerNamed, FludCounted, FludSame
<1>8. ASSUME NEW p \in Talker, NEW text \in Text, NEW notice \in BOOLEAN, NEW q \in Talker,
             ToPerson(p, q, text, notice)
      PROVE  FludInv'
  <2>1. {p, q} \subseteq here /\ here' = here
    BY <1>8 DEF ToPerson, Speaker
  <2>2. check_for_flud(p, q) \/ UNCHANGED <<fluders, fludees>>
    BY <1>8 DEF ToPerson, flood
  <2> QED BY <1>0, <2>1, <2>2, TalkerNamed, FludCounted, FludSame
<1> QED BY <1>1, <1>2, <1>3, <1>4, <1>5, <1>6, <1>7, <1>8 DEF LNext

(* A client that sends CTCPs to another, or to a channel, is on the list of *)
(* that one, and has it on its own; no list names a client or channel that  *)
(* is gone (check_for_flud, free_fluders, free_fludees).                    *)
THEOREM FludersReferred == LSpec => []Referred
<1>1. FludInv => Referred
  BY DEF FludInv
<1> QED BY <1>1, FludInit, FludNext, PTL DEF LSpec

-----------------------------------------------------------------------------
(***************************************************************************)
(* The limit of targets.  Paced is what check_target_limit maintains: with  *)
(* L new targets let pass, the i-th of them puts nexttarget at least        *)
(* L - i + 1 - MAXTARGETS delays after it.                                  *)
(***************************************************************************)
Ahead(r, N, D, M) ==
    \A i \in 1 .. Len(r) : r[i] + D * (Len(r) - i + 1 - M) <= N
Spaced(r, D, M) ==
    \A i, j \in 1 .. Len(r) : i < j => r[j] - r[i] >= D * (j - i - M)

Paced ==
    /\ seconds \in Nat
    /\ nexttarget \in [Talker -> Int]
    /\ fresh \in [Talker -> Seq(Nat)]
    /\ \A p \in Talker : /\ Ahead(fresh[p], nexttarget[p], TARGET_DELAY, MAXTARGETS)
                         /\ Spaced(fresh[p], TARGET_DELAY, MAXTARGETS)

(* The larger of two numbers.                                               *)
LEMMA MaxOfTwo ==
    ASSUME NEW a \in Int, NEW b \in Int
    PROVE  LET m == Max({a, b}) IN m \in Int /\ m >= a /\ m >= b
<1>1. \E m \in {a, b} : \A y \in {a, b} : m >= y
  <2>1. CASE a >= b
    BY <2>1
  <2>2. CASE b >= a
    BY <2>2
  <2> QED BY <2>1, <2>2
<1>2. Max({a, b}) = CHOOSE m \in {a, b} : \A y \in {a, b} : m >= y
  BY DEF Max
<1>3. Max({a, b}) \in {a, b} /\ \A y \in {a, b} : Max({a, b}) >= y
  BY <1>1, <1>2
<1> QED BY <1>3

(* One more delay.                                                          *)
LEMMA OneMore ==
    ASSUME NEW D \in Nat, NEW k \in Int PROVE D * (k + 1) = D * k + D /\ D * k \in Int
OBVIOUS

LEMMA Letting ==
    ASSUME NEW r \in Seq(Nat), NEW N \in Int, NEW D \in Nat, NEW M \in Nat, NEW now \in Nat,
           NEW N2 \in Int, Ahead(r, N, D, M), Spaced(r, D, M),
           now >= N, N2 >= N + D, N2 >= now - D * (M - 1)
    PROVE  /\ Append(r, now) \in Seq(Nat)
           /\ Ahead(Append(r, now), N2, D, M) /\ Spaced(Append(r, now), D, M)
<1> DEFINE x == Append(r, now)
           L == Len(r)
<1>1. /\ x \in Seq(Nat) /\ L \in Nat /\ Len(x) = L + 1 /\ x[L + 1] = now
      /\ \A i \in 1 .. L : x[i] = r[i] /\ r[i] \in Nat
  OBVIOUS
<1> HIDE DEF x
<1>2. \A i \in 1 .. L : r[i] + D * (L - i + 1 - M) <= N
  BY DEF Ahead
<1> HIDE DEF L
<1>3. ASSUME NEW i \in 1 .. Len(x) PROVE x[i] + D * (Len(x) - i + 1 - M) <= N2
  <2>1. CASE i = L + 1
    <3>1. Len(x) - i + 1 - M = 0 - (M - 1)
      BY <1>1, <2>1
    <3>2. D * (0 - (M - 1)) = 0 - D * (M - 1) /\ D * (M - 1) \in Int
      OBVIOUS
    <3> QED BY <1>1, <2>1, <3>1, <3>2
  <2>2. CASE i \in 1 .. L
    <3> DEFINE k == L - i + 1 - M
    <3>1. k \in Int /\ Len(x) - i + 1 - M = k + 1
      BY <1>1, <2>2
    <3>2. D * (k + 1) = D * k + D /\ D * k \in Int
      BY <3>1, OneMore
    <3>3. x[i] = r[i] /\ r[i] \in Nat /\ r[i] + D * k <= N
      BY <1>1, <1>2, <2>2
    <3> HIDE DEF k
    <3>4. r[i] + (D * k + D) <= N2
      BY ONLY <3>2, <3>3, D \in Nat, N \in Int, N2 \in Int, N2 >= N + D
    <3> QED BY <3>1, <3>2, <3>3, <3>4
  <2> QED BY <1>1, <2>1, <2>2
<1>4. ASSUME NEW i \in 1 .. Len(x), NEW j \in 1 .. Len(x), i < j
      PROVE  x[j] - x[i] >= D * (j - i - M)
  <2>1. CASE j = L + 1
    <3>1. i \in 1 .. L
      BY <1>1, <1>4, <2>1
    <3> DEFINE k == j - i - M
    <3>2. k \in Int /\ k = L - i + 1 - M
      BY <1>1, <2>1
    <3>3. D * k \in Int /\ r[i] + D * k <= N /\ r[i] \in Nat /\ x[i] = r[i]
      BY <1>1, <1>2, <3>1, <3>2, OneMore
    <3> HIDE DEF k
    <3>4. now - r[i] >= D * k
      BY ONLY <3>3, now \in Nat, N \in Int, now >= N
    <3> QED BY <1>1, <2>1, <3>3, <3>4 DEF k
  <2>2. CASE j # L + 1
    <3>1. i \in 1 .. L /\ j \in 1 .. L
      BY <1>1, <1>4, <2>2
    <3>2. r[j] - r[i] >= D * (j - i - M)
      BY <1>4, <3>1 DEF Spaced, L
    <3> QED BY <1>1, <3>1, <3>2
  <2> QED BY <2>1, <2>2
<1>5. Ahead(x, N2, D, M) /\ Spaced(x, D, M)
  BY <1>3, <1>4 DEF Ahead, Spaced
<1> QED BY <1>1, <1>5 DEF x

(* Only the pace of one client changes at a time.                           *)
LEMMA PaceOne ==
    ASSUME Paced, NEW p \in Talker, NEW r \in Seq(Nat), NEW N \in Int,
           Ahead(r, N, TARGET_DELAY, MAXTARGETS), Spaced(r, TARGET_DELAY, MAXTARGETS),
           fresh' = [fresh EXCEPT ![p] = r], nexttarget' = [nexttarget EXCEPT ![p] = N],
           seconds' \in Nat
    PROVE  Paced'
<1>1. /\ fresh' \in [Talker -> Seq(Nat)] /\ nexttarget' \in [Talker -> Int]
      /\ \A q \in Talker : /\ fresh'[q] = IF q = p THEN r ELSE fresh[q]
                           /\ nexttarget'[q] = IF q = p THEN N ELSE nexttarget[q]
  BY DEF Paced
<1>2. ASSUME NEW q \in Talker
      PROVE  /\ Ahead(fresh'[q], nexttarget'[q], TARGET_DELAY, MAXTARGETS)
             /\ Spaced(fresh'[q], TARGET_DELAY, MAXTARGETS)
  <2>1. CASE q = p
    BY <1>1, <2>1
  <2>2. CASE q # p
    <3>1. fresh'[q] = fresh[q] /\ nexttarget'[q] = nexttarget[q]
      BY <1>1, <2>2
    <3> QED BY <3>1 DEF Paced
  <2> QED BY <2>1, <2>2
<1> QED BY <1>1, <1>2 DEF Paced

LEMMA PaceSame ==
    ASSUME Paced, UNCHANGED <<fresh, nexttarget>>, seconds' \in Nat PROVE Paced'
BY DEF Paced

LEMMA DelayTypes ==
    TARGET_DELAY \in Nat /\ MAXTARGETS \in Nat /\ Birth \in Nat /\ Steps \subseteq Nat
BY TalkAssumption

LEMMA PassesPaced ==
    ASSUME Paced, NEW p \in Talker, NEW t, ~Early(p, t), Passes(p, t), UNCHANGED seconds
    PROVE  Paced'
<1>1. CASE Recent(p, t)
  BY <1>1, PaceSame DEF Passes, Paced
<1>2. CASE ~Recent(p, t)
  <2> DEFINE r == Append(fresh[p], seconds)
             A == nexttarget[p] + TARGET_DELAY
             N == Max({A, Allowance})
  <2>1. fresh' = [fresh EXCEPT ![p] = r] /\ nexttarget' = [nexttarget EXCEPT ![p] = N]
    BY <1>2 DEF Passes
  <2>2. /\ fresh[p] \in Seq(Nat) /\ nexttarget[p] \in Int /\ seconds \in Nat
        /\ Ahead(fresh[p], nexttarget[p], TARGET_DELAY, MAXTARGETS)
        /\ Spaced(fresh[p], TARGET_DELAY, MAXTARGETS)
    BY DEF Paced
  <2>3. seconds >= nexttarget[p]
    BY <1>2, <2>2 DEF Early
  <2>4. A \in Int /\ Allowance \in Int
        /\ Allowance = seconds - TARGET_DELAY * (MAXTARGETS - 1)
    BY <2>2, DelayTypes DEF Allowance
  <2> HIDE DEF A
  <2>5. N \in Int /\ N >= A /\ N >= Allowance
    BY <2>4, MaxOfTwo
  <2> HIDE DEF N
  <2>6. N >= nexttarget[p] + TARGET_DELAY /\ N >= seconds - TARGET_DELAY * (MAXTARGETS - 1)
    BY <2>4, <2>5 DEF A
  <2>7. /\ r \in Seq(Nat) /\ Ahead(r, N, TARGET_DELAY, MAXTARGETS)
        /\ Spaced(r, TARGET_DELAY, MAXTARGETS)
    BY <2>2, <2>3, <2>5, <2>6, DelayTypes, Letting
  <2> HIDE DEF r
  <2> QED BY <2>1, <2>2, <2>5, <2>7, PaceOne
<1> QED BY <1>1, <1>2

(* Being held up only makes it longer.                                      *)
LEMMA HeldUpPaced ==
    ASSUME Paced, NEW p \in Talker, NEW t, NEW text, Held_up(p, t, text), UNCHANGED seconds
    PROVE  Paced'
<1>1. PICK N \in {nexttarget[p], nexttarget[p] + 2} :
        nexttarget' = [nexttarget EXCEPT ![p] = N]
  BY DEF Held_up
<1>2. /\ fresh[p] \in Seq(Nat) /\ nexttarget[p] \in Int /\ seconds' \in Nat
      /\ fresh' = [fresh EXCEPT ![p] = fresh[p]]
      /\ Ahead(fresh[p], nexttarget[p], TARGET_DELAY, MAXTARGETS)
      /\ Spaced(fresh[p], TARGET_DELAY, MAXTARGETS)
  BY DEF Paced, Held_up
<1>3. N \in Int /\ N >= nexttarget[p]
  BY <1>1, <1>2
<1>4. Ahead(fresh[p], N, TARGET_DELAY, MAXTARGETS)
  <2> SUFFICES ASSUME NEW i \in 1 .. Len(fresh[p])
               PROVE  fresh[p][i] + TARGET_DELAY * (Len(fresh[p]) - i + 1 - MAXTARGETS) <= N
    BY DEF Ahead
  <2> DEFINE d == TARGET_DELAY * (Len(fresh[p]) - i + 1 - MAXTARGETS)
  <2>1. fresh[p][i] \in Nat /\ Len(fresh[p]) - i + 1 - MAXTARGETS \in Int
    <3>1. fresh[p] \in Seq(Nat)
      BY <1>2
    <3>2. Len(fresh[p]) \in Nat /\ fresh[p][i] \in Nat
      BY <3>1
    <3> QED BY <3>2, DelayTypes
  <2>2. d \in Int
    BY <2>1, DelayTypes, OneMore
  <2>3. fresh[p][i] + d <= nexttarget[p]
    BY <1>2 DEF Ahead
  <2> HIDE DEF d
  <2>4. fresh[p][i] + d <= N
    <3>1. nexttarget[p] \in Int /\ fresh[p][i] \in Nat
      BY <1>2, <2>1
    <3> QED BY ONLY <3>1, <1>3, <2>2, <2>3
  <2> QED BY <2>4 DEF d
<1> QED BY <1>1, <1>2, <1>3, <1>4, PaceOne

(* Who goes is forgotten with its targets.                                  *)
LEMMA GoesPaced ==
    ASSUME Paced, NEW x, fresh' = Forgets(fresh, x, << >>), nexttarget' = Forgets(nexttarget, x, 0),
           UNCHANGED seconds
    PROVE  Paced'
<1>1. CASE x \in Talker
  <2>1. fresh' = [fresh EXCEPT ![x] = << >>] /\ nexttarget' = [nexttarget EXCEPT ![x] = 0]
    BY <1>1 DEF Forgets, Paced
  <2>2. << >> \in Seq(Nat) /\ Len(<< >>) = 0
    OBVIOUS
  <2>3. /\ Ahead(<< >>, 0, TARGET_DELAY, MAXTARGETS)
        /\ Spaced(<< >>, TARGET_DELAY, MAXTARGETS)
    BY <2>2 DEF Ahead, Spaced
  <2>4. seconds' \in Nat /\ 0 \in Int
    BY DEF Paced
  <2> QED BY <1>1, <2>1, <2>2, <2>3, <2>4, PaceOne
<1>2. CASE x \notin Talker
  <2>1. fresh' = fresh /\ nexttarget' = nexttarget
    BY <1>2 DEF Forgets, Paced
  <2> QED BY <2>1, PaceSame DEF Paced
<1> QED BY <1>1, <1>2

LEMMA PacedInit == ASSUME LInit PROVE Paced
<1>1. \A p \in Talker : fresh[p] = << >> /\ nexttarget[p] = 0
  BY DEF LInit
<1>2. Len(<< >>) = 0
  OBVIOUS
<1>3. \A p \in Talker : /\ Ahead(fresh[p], nexttarget[p], TARGET_DELAY, MAXTARGETS)
                        /\ Spaced(fresh[p], TARGET_DELAY, MAXTARGETS)
  BY <1>1, <1>2 DEF Ahead, Spaced
<1> QED BY <1>3, DelayTypes DEF LInit, Paced

LEMMA PacedNext == ASSUME Paced, [LNext]_lvars PROVE Paced'
<1>0. seconds \in Nat
  BY DEF Paced
<1>1. CASE UNCHANGED lvars
  BY <1>0, <1>1, PaceSame DEF lvars
<1>2. ASSUME NEW x \in Name, Goes(x) PROVE Paced'
  BY <1>2, GoesPaced DEF Goes
<1>3. ASSUME NEW x \in Name, Comes(x) PROVE Paced'
  BY <1>0, <1>3, PaceSame DEF Comes, pace
<1>4. ASSUME NEW p \in Talker, Dcc_Allowed(p) \/ Drains(p) PROVE Paced'
  BY <1>0, <1>4, PaceSame DEF Dcc_Allowed, Drains, pace
<1>5. ASSUME NEW d \in Steps, Waits(d) PROVE Paced'
  <2>1. seconds' \in Nat
    BY <1>0, <1>5, DelayTypes DEF Waits
  <2> QED BY <1>5, <2>1, PaceSame DEF Waits, pace
<1>6. ASSUME NEW p \in Talker, NEW text \in Text, NEW notice \in BOOLEAN, NEW c \in Forum,
             ToChanops(p, c, text, notice)
      PROVE  Paced'
  BY <1>0, <1>6, PaceSame DEF ToChanops, pace
<1>7. ASSUME NEW p \in Talker, NEW text \in Text, NEW notice \in BOOLEAN, NEW c \in Forum,
             NEW b \in BOOLEAN, ToChannel(p, c, text, notice, b)
      PROVE  Paced'
  <2>1. /\ UNCHANGED seconds
        /\ \/ UNCHANGED pace
           \/ Held_up(p, c, text)
           \/ ~Early(p, c) /\ Passes(p, c)
    BY <1>7 DEF ToChannel
  <2> QED BY <1>0, <2>1, PaceSame, HeldUpPaced, PassesPaced DEF pace
<1>8. ASSUME NEW p \in Talker, NEW text \in Text, NEW notice \in BOOLEAN, NEW q \in Talker,
             ToPerson(p, q, text, notice)
      PROVE  Paced'
  <2>1. /\ UNCHANGED seconds
        /\ \/ UNCHANGED pace
           \/ Held_up(p, q, text)
           \/ ~Early(p, q) /\ Passes(p, q)
    BY <1>8 DEF ToPerson
  <2> QED BY <1>0, <2>1, PaceSame, HeldUpPaced, PassesPaced DEF pace
<1> QED BY <1>1, <1>2, <1>3, <1>4, <1>5, <1>6, <1>7, <1>8 DEF LNext

(* Of the new targets a client is let write to, however it goes about it,   *)
(* only the first MAXTARGETS come free: each further one takes TARGET_DELAY *)
(* seconds (check_target_limit).                                            *)
THEOREM TargetsAreHeld == LSpec => []TargetsHeld
<1>1. ASSUME Paced PROVE TargetsHeld
  <2>1. \A p \in Talker : DOMAIN fresh[p] = 1 .. Len(fresh[p])
    BY DEF Paced
  <2>2. ASSUME NEW p \in Talker, NEW i \in DOMAIN fresh[p], NEW j \in DOMAIN fresh[p], i < j
        PROVE  fresh[p][j] - fresh[p][i] >= TARGET_DELAY * (j - i - MAXTARGETS)
    <3>1. Spaced(fresh[p], TARGET_DELAY, MAXTARGETS)
      BY <1>1 DEF Paced
    <3>2. i \in 1 .. Len(fresh[p]) /\ j \in 1 .. Len(fresh[p])
      BY <2>1
    <3> QED BY <2>2, <3>1, <3>2 DEF Spaced
  <2> QED BY <2>2 DEF TargetsHeld
<1> QED BY <1>1, PacedInit, PacedNext, PTL DEF LSpec

(***************************************************************************)
(* The drone protection: what a client was sent, and what was thrown away.  *)
(***************************************************************************)
Heard_since(h, t) == {i \in 1 .. Len(h) : h[i] >= t}
Heard_within(h, t) == {i \in 1 .. Len(h) : h[i] \in t - DRONETIME .. t}

Wound == [n : Nat, since : Nat, noticed : Nat]

(* For one client: of what was sent to it, h, at least d.n messages came    *)
(* since d.since; and for what was thrown away, T, there was a reason.      *)
Swarmed(d, h, T, now) ==
    /\ \A i \in 1 .. Len(h) : h[i] <= now
    /\ d.since <= now /\ d.n <= Cardinality(Heard_since(h, d.since))
    /\ \A x \in T : x.queue > 1 /\ Cardinality(Heard_within(h, x.at)) > DRONECOUNT

SwarmInv ==
    /\ seconds \in Nat
    /\ drone \in [Talker -> Wound] /\ sendq \in [Talker -> Nat]
    /\ heardof \in [Talker -> Seq(Nat)]
    /\ thrown \in [Talker -> SUBSET [at : Nat, queue : Nat]]
    /\ \A q \in Talker : Swarmed(drone[q], heardof[q], thrown[q], seconds)

LEMMA DroneTypes == DRONETIME \in Nat /\ DRONECOUNT \in Nat /\ Birth \in Nat /\ Steps \subseteq Nat
BY TalkAssumption

(* The places of a list are finitely many.                                  *)
LEMMA HeardFinite ==
    ASSUME NEW h \in Seq(Nat), NEW S \in SUBSET (1 .. Len(h))
    PROVE  IsFiniteSet(S) /\ Cardinality(S) \in Nat
<1>1. Len(h) \in Nat
  OBVIOUS
<1>2. IsFiniteSet(1 .. Len(h))
  BY <1>1, FS_Interval
<1>3. IsFiniteSet(S)
  BY <1>2, FS_Subset
<1> QED BY <1>3, FS_CardinalityType

(* One message more.                                                        *)
LEMMA HeardMore ==
    ASSUME NEW h \in Seq(Nat), NEW now \in Nat, NEW t \in Nat
    PROVE  LET g == Append(h, now)
           IN  /\ g \in Seq(Nat)
               /\ \A i \in 1 .. Len(g) : g[i] = now \/ (i \in 1 .. Len(h) /\ g[i] = h[i])
               /\ Cardinality(Heard_within(h, t)) <= Cardinality(Heard_within(g, t))
               /\ t <= now => Cardinality(Heard_since(g, t)) = Cardinality(Heard_since(h, t)) + 1
<1> DEFINE g == Append(h, now)
<1>1. /\ Len(h) \in Nat /\ g \in Seq(Nat) /\ Len(g) = Len(h) + 1 /\ g[Len(h) + 1] = now
      /\ \A i \in 1 .. Len(h) : g[i] = h[i]
  OBVIOUS
<1> HIDE DEF g
<1>2. ASSUME NEW i \in 1 .. Len(g)
      PROVE  g[i] = now \/ (i \in 1 .. Len(h) /\ g[i] = h[i])
  <2>1. i = Len(h) + 1 \/ i \in 1 .. Len(h)
    BY ONLY <1>1, i \in 1 .. Len(g)
  <2> QED BY <1>1, <2>1
<1>3. Cardinality(Heard_within(h, t)) <= Cardinality(Heard_within(g, t))
  <2>1. Heard_within(h, t) \subseteq Heard_within(g, t)
    <3>1. \A i \in 1 .. Len(h) : i \in 1 .. Len(g)
      BY ONLY <1>1
    <3> QED BY ONLY <1>1, <3>1 DEF Heard_within
  <2>2. IsFiniteSet(Heard_within(g, t))
    BY <1>1, HeardFinite DEF Heard_within
  <2> QED BY <2>1, <2>2, FS_Subset
<1>4. ASSUME t <= now
      PROVE  Cardinality(Heard_since(g, t)) = Cardinality(Heard_since(h, t)) + 1
  <2>1. Heard_since(g, t) = Heard_since(h, t) \cup {Len(h) + 1}
    <3>1. \A i : i \in 1 .. Len(g) <=> i = Len(h) + 1 \/ i \in 1 .. Len(h)
      BY ONLY <1>1
    <3> QED BY ONLY <1>1, <1>4, <3>1 DEF Heard_since
  <2>2. Len(h) + 1 \notin Heard_since(h, t)
    BY <1>1 DEF Heard_since
  <2>3. IsFiniteSet(Heard_since(h, t))
    BY HeardFinite DEF Heard_since
  <2> QED BY <2>1, <2>2, <2>3, FS_AddElement
<1> QED BY <1>1, <1>2, <1>3, <1>4 DEF g

(* A message that gets through to a client whose messages are counted.      *)
LEMMA SwarmMore ==
    ASSUME NEW d \in Wound, NEW e \in Wound, NEW h \in Seq(Nat), NEW T \in SUBSET [at : Nat, queue : Nat],
           NEW now \in Nat, Swarmed(d, h, T, now),
           \/ e.n = 1 /\ e.since = now
           \/ e.n \in {d.n, d.n + 1} /\ e.since = d.since
    PROVE  Swarmed(e, Append(h, now), T, now)
<1> DEFINE g == Append(h, now)
<1>0. d.n \in Nat /\ d.since \in Nat /\ e.n \in Nat /\ e.since \in Nat
  BY DEF Wound
<1>1. g \in Seq(Nat) /\ \A i \in 1 .. Len(g) : g[i] = now \/ (i \in 1 .. Len(h) /\ g[i] = h[i])
  BY HeardMore
<1>2. ASSUME NEW t \in Nat, t <= now
      PROVE  Cardinality(Heard_since(g, t)) = Cardinality(Heard_since(h, t)) + 1
  BY <1>2, HeardMore
<1>3. ASSUME NEW t \in Nat
      PROVE  Cardinality(Heard_within(h, t)) <= Cardinality(Heard_within(g, t))
  BY HeardMore
<1>4. ASSUME NEW t \in Nat
      PROVE  /\ Cardinality(Heard_since(h, t)) \in Nat /\ Cardinality(Heard_within(h, t)) \in Nat
             /\ Cardinality(Heard_since(g, t)) \in Nat /\ Cardinality(Heard_within(g, t)) \in Nat
  BY <1>1, HeardFinite DEF Heard_since, Heard_within
<1> HIDE DEF g
<1>5. \A i \in 1 .. Len(g) : g[i] <= now
  BY <1>1 DEF Swarmed
<1>6. e.since <= now /\ e.n <= Cardinality(Heard_since(g, e.since))
  <2>1. d.since <= now /\ d.n <= Cardinality(Heard_since(h, d.since))
    BY DEF Swarmed
  <2>2. CASE e.n = 1 /\ e.since = now
    BY <1>2, <1>4, <2>2
  <2>3. CASE e.n \in {d.n, d.n + 1} /\ e.since = d.since
    <3>1. Cardinality(Heard_since(g, d.since)) = Cardinality(Heard_since(h, d.since)) + 1
      BY <1>0, <1>2, <2>1
    <3>2. Cardinality(Heard_since(h, d.since)) \in Nat
      BY <1>0, <1>4
    <3>3. e.since <= now /\ e.n <= d.n + 1
      BY <1>0, <2>1, <2>3
    <3>4. e.n <= Cardinality(Heard_since(g, d.since))
      BY <1>0, <2>1, <3>1, <3>2, <3>3
    <3> QED BY <2>3, <3>3, <3>4
  <2> QED BY <2>2, <2>3
<1>7. ASSUME NEW x \in T PROVE x.queue > 1 /\ Cardinality(Heard_within(g, x.at)) > DRONECOUNT
  <2>1. x.at \in Nat
    OBVIOUS
  <2>2. x.queue > 1 /\ Cardinality(Heard_within(h, x.at)) > DRONECOUNT
    BY DEF Swarmed
  <2>3. Cardinality(Heard_within(h, x.at)) <= Cardinality(Heard_within(g, x.at))
    BY <1>3, <2>1
  <2>4. Cardinality(Heard_within(h, x.at)) \in Nat /\ Cardinality(Heard_within(g, x.at)) \in Nat
    BY <1>4, <2>1
  <2> QED BY <2>2, <2>3, <2>4, DroneTypes
<1>8. Swarmed(e, g, T, now)
  BY <1>5, <1>6, <1>7 DEF Swarmed
<1> QED BY <1>8 DEF g

(* Only what is known of one client changes at a time.                      *)
LEMMA SwarmOne ==
    ASSUME SwarmInv, NEW q \in Talker, NEW d \in Wound, NEW s \in Nat, NEW h \in Seq(Nat),
           NEW T \in SUBSET [at : Nat, queue : Nat], Swarmed(d, h, T, seconds), UNCHANGED seconds,
           drone' = [drone EXCEPT ![q] = d], sendq' = [sendq EXCEPT ![q] = s],
           heardof' = [heardof EXCEPT ![q] = h], thrown' = [thrown EXCEPT ![q] = T]
    PROVE  SwarmInv'
<1>1. /\ drone' \in [Talker -> Wound] /\ sendq' \in [Talker -> Nat]
      /\ heardof' \in [Talker -> Seq(Nat)]
      /\ thrown' \in [Talker -> SUBSET [at : Nat, queue : Nat]]
  BY DEF SwarmInv
<1>2. ASSUME NEW p \in Talker PROVE Swarmed(drone'[p], heardof'[p], thrown'[p], seconds)
  <2>1. CASE p = q
    <3>1. drone'[p] = d /\ heardof'[p] = h /\ thrown'[p] = T
      BY <2>1 DEF SwarmInv
    <3> QED BY <3>1
  <2>2. CASE p # q
    <3>1. drone'[p] = drone[p] /\ heardof'[p] = heardof[p] /\ thrown'[p] = thrown[p]
      BY <2>2 DEF SwarmInv
    <3> QED BY <3>1 DEF SwarmInv
  <2> QED BY <2>1, <2>2
<1> QED BY <1>1, <1>2 DEF SwarmInv

LEMMA SwarmSame ==
    ASSUME SwarmInv, UNCHANGED <<drone, heardof, thrown>>, sendq' \in [Talker -> Nat],
           seconds' \in Nat, seconds' >= seconds
    PROVE  SwarmInv'
<1>1. ASSUME NEW q \in Talker PROVE Swarmed(drone[q], heardof[q], thrown[q], seconds')
  <2>1. /\ drone[q] \in Wound /\ heardof[q] \in Seq(Nat) /\ seconds \in Nat
        /\ Swarmed(drone[q], heardof[q], thrown[q], seconds)
    BY DEF SwarmInv
  <2>2. drone[q].since \in Nat /\ \A i \in 1 .. Len(heardof[q]) : heardof[q][i] \in Nat
    BY ONLY <2>1 DEF Wound
  <2> QED BY <2>1, <2>2 DEF Swarmed
<1> QED BY <1>1 DEF SwarmInv

(* Once round the protection: it begins anew, counts one more, or stays;    *)
(* and it throws away only in the last case, with a filled queue.           *)
LEMMA WindsUp ==
    ASSUME SwarmInv, NEW q \in Talker
    PROVE  LET d == drone[q]
               e == Wind_up(q)
           IN  /\ d \in Wound /\ e \in Wound
               /\ \/ e.n = 1 /\ e.since = seconds
                  \/ e.n \in {d.n, d.n + 1} /\ e.since = d.since
               /\ Throws(q) => /\ e.n = d.n /\ e.since = d.since /\ sendq[q] > 1
                               /\ d.since + DRONETIME >= seconds /\ d.n > DRONECOUNT
<1> DEFINE d == drone[q]
           e == Wind_up(q)
           first == IF d.noticed = 0 THEN 1 ELSE d.noticed
           on == IF sendq[q] > 2 /\ first = 1 THEN 2 ELSE first
<1>1. /\ d \in Wound /\ d = [n |-> d.n, since |-> d.since, noticed |-> d.noticed]
      /\ d.n \in Nat /\ d.since \in Nat /\ d.noticed \in Nat /\ sendq[q] \in Nat /\ seconds \in Nat
  BY DEF SwarmInv, Wound
<1>2. e = IF d.since + DRONETIME < seconds THEN [n |-> 1, since |-> seconds, noticed |-> 0]
          ELSE IF d.n <= DRONECOUNT THEN [d EXCEPT !.n = @ + 1]
          ELSE [d EXCEPT !.noticed = IF sendq[q] <= 1 THEN 1 ELSE on]
  BY DEF Wind_up
<1>3. Throws(q) <=> d.since + DRONETIME >= seconds /\ d.n > DRONECOUNT /\ e.noticed > 1
  BY DEF Throws
<1>4. on \in Nat
  BY <1>1
<1> HIDE DEF d, e, on
<1>5. CASE d.since + DRONETIME < seconds
  BY <1>1, <1>2, <1>3, <1>5, DroneTypes DEF Wound, d, e
<1>6. CASE ~(d.since + DRONETIME < seconds) /\ d.n <= DRONECOUNT
  <2>1. e = [n |-> d.n + 1, since |-> d.since, noticed |-> d.noticed]
    BY <1>1, <1>2, <1>6
  <2> QED BY <1>1, <1>3, <1>6, <2>1, DroneTypes DEF Wound, d, e
<1>7. CASE ~(d.since + DRONETIME < seconds) /\ ~(d.n <= DRONECOUNT)
  <2> DEFINE v == IF sendq[q] <= 1 THEN 1 ELSE on
  <2>1. e = [n |-> d.n, since |-> d.since, noticed |-> v]
    BY <1>1, <1>2, <1>7
  <2>2. v \in Nat /\ (v > 1 => sendq[q] > 1)
    BY <1>1, <1>4
  <2> HIDE DEF v
  <2>3. /\ e \in Wound /\ e.n = d.n /\ e.since = d.since /\ e.noticed = v
    BY <1>1, <2>1, <2>2 DEF Wound
  <2> QED BY <1>1, <1>3, <1>7, <2>2, <2>3, DroneTypes DEF d, e
<1> QED BY <1>5, <1>6, <1>7

(* A message into the queue of q.                                           *)
LEMMA QueuedSwarmed ==
    ASSUME SwarmInv, NEW p, NEW q \in Talker, Into_queue(p, q), UNCHANGED seconds
    PROVE  SwarmInv'
<1> DEFINE d == drone[q]
           h == heardof[q]
           T == thrown[q]
           e == Wind_up(q)
<1>1. /\ d \in Wound /\ h \in Seq(Nat) /\ T \in SUBSET [at : Nat, queue : Nat]
      /\ sendq[q] \in Nat /\ seconds \in Nat /\ Swarmed(d, h, T, seconds)
      /\ drone = [drone EXCEPT ![q] = d] /\ heardof = [heardof EXCEPT ![q] = h]
      /\ thrown = [thrown EXCEPT ![q] = T] /\ sendq = [sendq EXCEPT ![q] = sendq[q]]
  BY DEF SwarmInv
<1>2. /\ e \in Wound
      /\ \/ e.n = 1 /\ e.since = seconds
         \/ e.n \in {d.n, d.n + 1} /\ e.since = d.since
      /\ Throws(q) => /\ e.n = d.n /\ e.since = d.since /\ sendq[q] > 1
                      /\ d.since + DRONETIME >= seconds /\ d.n > DRONECOUNT
  BY WindsUp
<1>3. CASE Counts_Drones(p, q) /\ Throws(q)
  <2> DEFINE U == T \cup {[at |-> seconds, queue |-> sendq[q]]}
  <2>1. /\ drone' = [drone EXCEPT ![q] = e] /\ thrown' = [thrown EXCEPT ![q] = U]
        /\ UNCHANGED <<sendq, heardof>>
    BY <1>3 DEF Into_queue
  <2>2. U \in SUBSET [at : Nat, queue : Nat]
    BY <1>1
  <2>3. Cardinality(Heard_within(h, seconds)) > DRONECOUNT
    <3>1. Heard_since(h, d.since) \subseteq Heard_within(h, seconds)
      <4> SUFFICES ASSUME NEW i \in 1 .. Len(h), h[i] >= d.since
                   PROVE  h[i] \in seconds - DRONETIME .. seconds
        BY DEF Heard_since, Heard_within
      <4>1. h[i] \in Nat /\ h[i] <= seconds /\ d.since \in Nat
        BY <1>1 DEF Swarmed, Wound
      <4>2. d.since + DRONETIME >= seconds /\ seconds \in Nat
        BY <1>1, <1>2, <1>3
      <4> HIDE DEF d, h
      <4> QED BY <4>1, <4>2, DroneTypes
    <3>2. IsFiniteSet(Heard_within(h, seconds)) /\ Cardinality(Heard_within(h, seconds)) \in Nat
      BY <1>1, HeardFinite DEF Heard_within
    <3>3. Cardinality(Heard_since(h, d.since)) <= Cardinality(Heard_within(h, seconds))
      BY <3>1, <3>2, FS_Subset
    <3>4. Cardinality(Heard_since(h, d.since)) \in Nat
      BY <1>1, HeardFinite DEF Heard_since
    <3>5. d.n <= Cardinality(Heard_since(h, d.since)) /\ d.n \in Nat
      BY <1>1 DEF Swarmed, Wound
    <3> QED BY <1>2, <1>3, <3>2, <3>3, <3>4, <3>5, DroneTypes
  <2>4. ASSUME NEW x \in U PROVE x.queue > 1 /\ Cardinality(Heard_within(h, x.at)) > DRONECOUNT
    <3>1. CASE x \in T
      BY <1>1, <3>1 DEF Swarmed
    <3>2. CASE x = [at |-> seconds, queue |-> sendq[q]]
      BY <1>2, <1>3, <2>3, <3>2
    <3> QED BY <3>1, <3>2
  <2> HIDE DEF U, e, d, h, T
  <2>5. Swarmed(e, h, U, seconds)
    <3>1. e.n = d.n /\ e.since = d.since
      BY <1>2, <1>3
    <3> QED BY <1>1, <2>4, <3>1 DEF Swarmed
  <2>6. sendq' = [sendq EXCEPT ![q] = sendq[q]] /\ heardof' = [heardof EXCEPT ![q] = h]
    BY <1>1, <2>1
  <2> QED BY <1>1, <1>2, <2>1, <2>2, <2>5, <2>6, SwarmOne
<1>4. CASE ~(Counts_Drones(p, q) /\ Throws(q))
  <2> DEFINE s == IF q \in Mine THEN Min({sendq[q] + 1, 4}) ELSE sendq[q]
             f == IF Counts_Drones(p, q) THEN e ELSE d
             g == IF Counts_Drones(p, q) THEN Append(h, seconds) ELSE h
  <2>1. /\ drone' = [drone EXCEPT ![q] = f] /\ sendq' = [sendq EXCEPT ![q] = s]
        /\ heardof' = [heardof EXCEPT ![q] = g] /\ UNCHANGED thrown
    BY <1>4 DEF Into_queue
  <2>2. s \in Nat
    <3>1. \E m \in {sendq[q] + 1, 4} : \A y \in {sendq[q] + 1, 4} : m <= y
      <4>1. sendq[q] + 1 <= 4 \/ sendq[q] + 1 >= 4
        BY <1>1
      <4> QED BY <1>1, <4>1
    <3>2. Min({sendq[q] + 1, 4}) \in {sendq[q] + 1, 4}
      BY <3>1 DEF Min
    <3> QED BY <1>1, <3>2
  <2> HIDE DEF e, d, h, T, s
  <2>3. f \in Wound /\ g \in Seq(Nat) /\ Swarmed(f, g, T, seconds)
    <3>1. CASE Counts_Drones(p, q)
      <4>1. Append(h, seconds) \in Seq(Nat)
        BY <1>1
      <4>2. Swarmed(e, Append(h, seconds), T, seconds)
        BY <1>1, <1>2, SwarmMore
      <4> QED BY <1>2, <3>1, <4>1, <4>2
    <3>2. CASE ~Counts_Drones(p, q)
      BY <1>1, <3>2
    <3> QED BY <3>1, <3>2
  <2> HIDE DEF f, g
  <2>4. thrown' = [thrown EXCEPT ![q] = T]
    BY <1>1, <2>1
  <2> QED BY <1>1, <2>1, <2>2, <2>3, <2>4, SwarmOne
<1> QED BY <1>3, <1>4

(* Who goes is forgotten.                                                   *)
LEMMA GoesSwarmed ==
    ASSUME SwarmInv, NEW x, Goes(x) PROVE SwarmInv'
<1> DEFINE none == [n |-> 0, since |-> 0, noticed |-> 0]
<1>1. /\ drone' = Forgets(drone, x, none)
      /\ sendq' = Forgets(sendq, x, 0) /\ heardof' = Forgets(heardof, x, << >>)
      /\ thrown' = Forgets(thrown, x, {}) /\ UNCHANGED seconds
  BY DEF Goes
<1>2. DOMAIN drone = Talker /\ DOMAIN sendq = Talker /\ DOMAIN heardof = Talker /\ DOMAIN thrown = Talker
  BY DEF SwarmInv
<1>3. CASE x \in Talker
  <2>1. /\ drone' = [drone EXCEPT ![x] = none] /\ sendq' = [sendq EXCEPT ![x] = 0]
        /\ heardof' = [heardof EXCEPT ![x] = << >>] /\ thrown' = [thrown EXCEPT ![x] = {}]
    BY <1>1, <1>2, <1>3 DEF Forgets
  <2>2. none \in Wound /\ none.n = 0 /\ none.since = 0 /\ << >> \in Seq(Nat) /\ Len(<< >>) = 0
    BY DEF Wound
  <2>3. Swarmed(none, << >>, {}, seconds)
    <3>1. Cardinality(Heard_since(<< >>, 0)) \in Nat /\ seconds \in Nat
      BY <2>2, HeardFinite DEF Heard_since, SwarmInv
    <3>2. \A i \in 1 .. 0 : FALSE
      OBVIOUS
    <3> HIDE DEF none
    <3> QED BY <2>2, <3>1, <3>2 DEF Swarmed
  <2>4. 0 \in Nat /\ {} \in SUBSET [at : Nat, queue : Nat]
    OBVIOUS
  <2> HIDE DEF none
  <2> QED BY <1>1, <1>3, <2>1, <2>2, <2>3, <2>4, SwarmOne
<1>4. CASE x \notin Talker
  <2>1. UNCHANGED <<drone, sendq, heardof, thrown>>
    BY <1>1, <1>2, <1>4 DEF Forgets
  <2>2. seconds' \in Nat /\ seconds' >= seconds /\ sendq' \in [Talker -> Nat]
    BY <1>1, <2>1 DEF SwarmInv
  <2> QED BY <2>1, <2>2, SwarmSame
<1> QED BY <1>3, <1>4

LEMMA SwarmInit == ASSUME LInit PROVE SwarmInv
<1> DEFINE none == [n |-> 0, since |-> 0, noticed |-> 0]
<1>1. /\ seconds = Birth /\ drone = [p \in Talker |-> none] /\ sendq = [p \in Talker |-> 0]
      /\ heardof = [p \in Talker |-> << >>] /\ thrown = [p \in Talker |-> {}]
  BY DEF LInit
<1>2. none \in Wound /\ none.n = 0 /\ none.since = 0 /\ << >> \in Seq(Nat) /\ Len(<< >>) = 0
  BY DEF Wound
<1>3. Swarmed(none, << >>, {}, seconds)
  <2>1. Cardinality(Heard_since(<< >>, 0)) \in Nat /\ seconds \in Nat
    BY <1>1, <1>2, HeardFinite, DroneTypes DEF Heard_since
  <2>2. \A i \in 1 .. 0 : FALSE
    OBVIOUS
  <2> HIDE DEF none
  <2> QED BY <1>2, <2>1, <2>2 DEF Swarmed
<1> HIDE DEF none
<1>4. \A q \in Talker : drone[q] = none /\ heardof[q] = << >> /\ thrown[q] = {}
  BY <1>1
<1>5. \A q \in Talker : Swarmed(drone[q], heardof[q], thrown[q], seconds)
  BY <1>3, <1>4
<1>6. /\ seconds \in Nat /\ drone \in [Talker -> Wound] /\ sendq \in [Talker -> Nat]
      /\ heardof \in [Talker -> Seq(Nat)]
      /\ thrown \in [Talker -> SUBSET [at : Nat, queue : Nat]]
  BY <1>1, <1>2, DroneTypes
<1> QED BY <1>5, <1>6 DEF SwarmInv

LEMMA SwarmNext == ASSUME SwarmInv, [LNext]_lvars PROVE SwarmInv'
<1>0. seconds \in Nat /\ sendq \in [Talker -> Nat]
  BY DEF SwarmInv
<1>1. ASSUME UNCHANGED <<swarm, seconds>> PROVE SwarmInv'
  <2>1. seconds' \in Nat /\ seconds' >= seconds /\ sendq' \in [Talker -> Nat]
    BY <1>0, <1>1 DEF swarm
  <2> QED BY <1>1, <2>1, SwarmSame DEF swarm
<1>2. CASE UNCHANGED lvars
  BY <1>1, <1>2 DEF lvars, swarm
<1>3. ASSUME NEW x \in Name, Goes(x) PROVE SwarmInv'
  BY <1>3, GoesSwarmed
<1>4. ASSUME NEW x \in Name, Comes(x) PROVE SwarmInv'
  BY <1>1, <1>4 DEF Comes
<1>5. ASSUME NEW p \in Talker, Dcc_Allowed(p) PROVE SwarmInv'
  BY <1>1, <1>5 DEF Dcc_Allowed
<1>6. ASSUME NEW q \in Talker, Drains(q) PROVE SwarmInv'
  <2>1. PICK n \in 0 .. sendq[q] - 1 : sendq' = [sendq EXCEPT ![q] = n]
    BY <1>6 DEF Drains
  <2>2. sendq[q] \in Nat
    BY <1>0
  <2>3. n \in Nat
    BY <2>2
  <2>4. sendq' \in [Talker -> Nat]
    BY <1>0, <2>1, <2>3
  <2>5. UNCHANGED <<drone, heardof, thrown, seconds>> /\ seconds' \in Nat /\ seconds' >= seconds
    BY <1>0, <1>6 DEF Drains
  <2> QED BY <2>4, <2>5, SwarmSame
<1>7. ASSUME NEW d \in Steps, Waits(d) PROVE SwarmInv'
  <2>1. UNCHANGED <<drone, heardof, thrown, sendq>> /\ seconds' = seconds + d
    BY <1>7 DEF Waits, swarm
  <2>2. seconds' \in Nat /\ seconds' >= seconds
    BY <1>0, <2>1, DroneTypes
  <2> QED BY <1>0, <2>1, <2>2, SwarmSame
<1>8. ASSUME NEW p \in Talker, NEW text \in Text, NEW notice \in BOOLEAN, NEW c \in Forum,
             ToChanops(p, c, text, notice)
      PROVE  SwarmInv'
  BY <1>1, <1>8 DEF ToChanops
<1>9. ASSUME NEW p \in Talker, NEW text \in Text, NEW notice \in BOOLEAN, NEW c \in Forum,
             NEW b \in BOOLEAN, ToChannel(p, c, text, notice, b)
      PROVE  SwarmInv'
  BY <1>1, <1>9 DEF ToChannel
<1>10. ASSUME NEW p \in Talker, NEW text \in Text, NEW notice \in BOOLEAN, NEW q \in Talker,
              ToPerson(p, q, text, notice)
       PROVE  SwarmInv'
  <2>1. UNCHANGED seconds /\ (UNCHANGED swarm \/ Into_queue(p, q))
    BY <1>10 DEF ToPerson
  <2> QED BY <1>1, <2>1, QueuedSwarmed
<1> QED BY <1>2, <1>3, <1>4, <1>5, <1>6, <1>7, <1>8, <1>9, <1>10 DEF LNext

(* A message is thrown away only for a client with a filled queue that was  *)
(* sent more than DRONECOUNT in the last DRONETIME seconds (m_message).     *)
THEOREM MessagesAreSpared == LSpec => []Spared_Messages
<1>1. ASSUME SwarmInv PROVE Spared_Messages
  <2> SUFFICES ASSUME NEW q \in Talker, NEW x \in thrown[q]
               PROVE  /\ x.queue > 1
                      /\ Cardinality({i \in DOMAIN heardof[q] :
                                        heardof[q][i] \in x.at - DRONETIME .. x.at}) > DRONECOUNT
    BY DEF Spared_Messages
  <2>1. DOMAIN heardof[q] = 1 .. Len(heardof[q])
    BY <1>1 DEF SwarmInv
  <2>2. Swarmed(drone[q], heardof[q], thrown[q], seconds)
    BY <1>1 DEF SwarmInv
  <2> QED BY <2>1, <2>2 DEF Swarmed, Heard_within
<1> QED BY <1>1, SwarmInit, SwarmNext, PTL DEF LSpec

(***************************************************************************)
(* The blocking of CTCPs.                                                   *)
(***************************************************************************)
Try == [at : Nat, by : Talker, let : BOOLEAN, known : BOOLEAN]
Account == [count : Nat, first : Nat, last : Nat]
Own(s, p) == {i \in 1 .. Len(s) : s[i].known /\ s[i].by = p}
From_on(s, p, k) == {i \in Own(s, p) : i >= k}

(* The account r of p counts the CTCPs it sent from the k-th on, and those  *)
(* before were over FLUDTIME earlier.                                       *)
Accounted(r, s, p) ==
    /\ r \in Account
    /\ \E k \in Own(s, p) : /\ s[k].at = r.first /\ r.count = Cardinality(From_on(s, p, k))
                            /\ \A i \in Own(s, p) : i < k => s[i].at + FLUDTIME < r.first
    /\ \A i \in Own(s, p) : s[i].at <= r.last

(* Who has no account has sent none for FLUDTIME.                           *)
Accounts(f, s, now) ==
    /\ IsFiniteSet(DOMAIN f)
    /\ \A p \in DOMAIN f : Accounted(f[p], s, p)
    /\ \A i \in 1 .. Len(s) :
          /\ s[i].at <= now
          /\ s[i].known /\ s[i].by \notin DOMAIN f => s[i].at + FLUDTIME < now

Held_to(s, j) ==
    /\ \A i \in 1 .. j - 1 : ~s[i].let => s[j].at - s[i].at >= FLUDBLOCK
    /\ Cardinality(Newly(s, j)) <= FLUDNUM
Stopped(s, b) ==
    \A i \in 1 .. Len(s) : IF s[i].let THEN Held_to(s, i) ELSE s[i].at <= b

TryTypes ==
    /\ seconds \in Nat /\ fludblock \in [Name -> Nat] /\ tries \in [Talker -> Seq(Try)]
    /\ fluders = [t \in Name |-> fluders[t]]
BlockInv ==
    /\ TryTypes
    /\ \A q \in Talker : Accounts(fluders[q], tries[q], seconds) /\ Stopped(tries[q], fludblock[q])

LEMMA FludConstants ==
    /\ FLUDTIME \in Nat /\ FLUDBLOCK \in Nat /\ FLUDNUM \in Nat /\ Birth \in Nat /\ Steps \subseteq Nat
    /\ Talker \subseteq Name /\ Forum \subseteq Name /\ Talker \cap Forum = {}
BY TalkAssumption DEF Name

(* The entries of a list of CTCPs.                                          *)
LEMMA TryFields ==
    ASSUME NEW s \in Seq(Try), NEW i \in 1 .. Len(s)
    PROVE  /\ s[i] \in Try /\ s[i].at \in Nat /\ s[i].by \in Talker
           /\ s[i].let \in BOOLEAN /\ s[i].known \in BOOLEAN
<1>1. s[i] \in Try
  OBVIOUS
<1> QED BY <1>1 DEF Try

(* Places of a list are finitely many.                                      *)
LEMMA PlacesFinite ==
    ASSUME NEW s \in Seq(Try), NEW S \in SUBSET (1 .. Len(s))
    PROVE  IsFiniteSet(S) /\ Cardinality(S) \in Nat
<1>1. Len(s) \in Nat
  OBVIOUS
<1>2. IsFiniteSet(1 .. Len(s))
  BY <1>1, FS_Interval
<1>3. IsFiniteSet(S)
  BY <1>2, FS_Subset
<1> QED BY <1>3, FS_CardinalityType

(* Place i is the Order(S, i)-th of the places S.                           *)
Order(S, i) == Cardinality({k \in S : k <= i})

LEMMA Ordered ==
    ASSUME NEW s \in Seq(Try), NEW S \in SUBSET (1 .. Len(s)), NEW i \in S, NEW j \in S
    PROVE  /\ Order(S, i) \in 1 .. Cardinality(S)
           /\ Order(S, i) = Order(S, j) => i = j
<1>1. ASSUME NEW a \in S
      PROVE  /\ IsFiniteSet({k \in S : k <= a}) /\ Order(S, a) \in Nat
             /\ Order(S, a) \in 1 .. Cardinality(S)
  <2>1. IsFiniteSet(S) /\ Cardinality(S) \in Nat
    BY PlacesFinite
  <2>2. {k \in S : k <= a} \in SUBSET S /\ {k \in S : k <= a} \in SUBSET (1 .. Len(s))
    OBVIOUS
  <2>3. IsFiniteSet({k \in S : k <= a}) /\ Order(S, a) \in Nat
    BY <2>2, PlacesFinite DEF Order
  <2>4. Order(S, a) <= Cardinality(S)
    BY <2>1, <2>2, FS_Subset DEF Order
  <2>5. Order(S, a) # 0
    <3>1. a \in {k \in S : k <= a}
      OBVIOUS
    <3> QED BY <2>3, <3>1, FS_EmptySet DEF Order
  <2> QED BY <2>1, <2>3, <2>4, <2>5
<1>2. ASSUME NEW a \in S, NEW b \in S, a < b PROVE Order(S, a) # Order(S, b)
  <2>1. {k \in S : k <= a} \subseteq {k \in S : k <= b}
    <3>1. ASSUME NEW k \in S, k <= a PROVE k <= b
      <4>1. k \in Int /\ a \in Int /\ b \in Int
        OBVIOUS
      <4> QED BY <1>2, <3>1, <4>1
    <3> QED BY <3>1
  <2>2. b \in {k \in S : k <= b} /\ b \notin {k \in S : k <= a}
    BY <1>2
  <2>3. {k \in S : k <= a} # {k \in S : k <= b}
    BY <2>2
  <2>4. IsFiniteSet({k \in S : k <= b})
    BY <1>1
  <2> QED BY <2>1, <2>3, <2>4, FS_Subset DEF Order
<1>3. i \in Int /\ j \in Int
  OBVIOUS
<1>4. Order(S, i) = Order(S, j) => i = j
  BY <1>2, <1>3
<1> QED BY <1>1, <1>4

(* The weights of finitely many accounts are finitely many.                 *)
LEMMA WeightsFinite ==
    ASSUME NEW f, IsFiniteSet(DOMAIN f), \A p \in DOMAIN f : Weight(f[p]) \in Nat
    PROVE  IsFiniteSet(Weights(f))
<1> DEFINE T == {{p} \X (1 .. Weight(f[p])) : p \in DOMAIN f}
           g == [p \in DOMAIN f |-> {p} \X (1 .. Weight(f[p]))]
<1>1. IsFiniteSet(T)
  <2>1. g \in Surjection(DOMAIN f, T)
    BY DEF Surjection
  <2> HIDE DEF g, T
  <2> QED BY <2>1, FS_Surjection
<1>2. ASSUME NEW p \in DOMAIN f PROVE IsFiniteSet({p} \X (1 .. Weight(f[p])))
  <2>1. IsFiniteSet({p})
    BY FS_Singleton
  <2>2. IsFiniteSet(1 .. Weight(f[p]))
    BY FS_Interval
  <2> QED BY <2>1, <2>2, FS_Product
<1>3. \A S \in T : IsFiniteSet(S)
  BY <1>2
<1>4. IsFiniteSet(UNION T)
  BY <1>1, <1>3, FS_UNION
<1> QED BY <1>4 DEF Weights

(* Whoever began less than FLUDTIME ago weighs what it has sent: so those   *)
(* CTCPs are no more than the weights.                                      *)
LEMMA NewlyWeighed ==
    ASSUME NEW s \in Seq(Try), NEW f, seconds \in Nat, Accounts(f, s, seconds),
           NEW n, n = Len(s), n # 0, s[n].at = seconds, Cardinality(Weights(f)) <= FLUDNUM
    PROVE  Cardinality(Newly(s, n)) <= FLUDNUM
<1>0. n \in Nat /\ n \in 1 .. n
  OBVIOUS
<1>1. ASSUME NEW p \in DOMAIN f PROVE f[p] \in Account /\ Weight(f[p]) \in Nat
  <2>1. f[p] \in Account
    BY DEF Accounts, Accounted
  <2> QED BY <2>1 DEF Account, Weight
<1>2. IsFiniteSet(Weights(f))
  BY <1>1, WeightsFinite DEF Accounts
<1>3. ASSUME NEW i \in Newly(s, n)
      PROVE  /\ i \in Own(s, s[i].by) /\ s[i].by \in DOMAIN f
             /\ Weight(f[s[i].by]) = Cardinality(Own(s, s[i].by))
  <2> DEFINE p == s[i].by
  <2>1. /\ i \in 1 .. Len(s) /\ s[i].known
        /\ \A k \in 1 .. n : s[k].known /\ s[k].by = p => s[k].at >= seconds - FLUDTIME
    BY DEF Newly
  <2>2. s[i].at \in Nat /\ s[i].at >= seconds - FLUDTIME
    BY <2>1, TryFields
  <2>3. p \in DOMAIN f
    <3>1. ~(s[i].at + FLUDTIME < seconds)
      BY <2>2, FludConstants
    <3> QED BY <2>1, <3>1 DEF Accounts
  <2>4. \A k \in Own(s, p) : s[k].at >= seconds - FLUDTIME /\ s[k].at \in Nat /\ k \in Nat
    BY <2>1, TryFields DEF Own
  <2>5. i \in Own(s, p)
    BY <2>1 DEF Own
  <2> DEFINE r == f[p]
  <2>6. r \in Account
    BY <1>1, <2>3
  <2>7. PICK k \in Own(s, p) : /\ s[k].at = r.first /\ r.count = Cardinality(From_on(s, p, k))
                               /\ \A a \in Own(s, p) : a < k => s[a].at + FLUDTIME < r.first
    BY <2>3 DEF Accounts, Accounted
  <2>8. r.first >= seconds - FLUDTIME /\ r.first <= seconds /\ r.first \in Nat
    BY <2>4, <2>7 DEF Accounts, Own
  <2> HIDE DEF p, r
  <2>9. ASSUME NEW a \in Own(s, p) PROVE a >= k
    <3>1. s[a].at >= seconds - FLUDTIME /\ s[a].at \in Nat /\ a \in Nat /\ k \in Nat
      BY <2>4
    <3>2. ~(s[a].at + FLUDTIME < r.first)
      BY <2>8, <3>1, FludConstants
    <3> QED BY <2>7, <3>1, <3>2
  <2>10. From_on(s, p, k) = Own(s, p)
    BY <2>9 DEF From_on
  <2>11. Weight(r) = r.count
    BY <2>8, FludConstants DEF Weight
  <2> QED BY <2>3, <2>5, <2>7, <2>10, <2>11 DEF p, r
<1> DEFINE N == Newly(s, n)
           g == [i \in N |-> <<s[i].by, Order(Own(s, s[i].by), i)>>]
<1>4. \A p : Own(s, p) \in SUBSET (1 .. Len(s))
  BY DEF Own
<1>5. ASSUME NEW i \in N PROVE g[i] \in Weights(f)
  <2>1. Order(Own(s, s[i].by), i) \in 1 .. Weight(f[s[i].by])
    BY <1>3, <1>4, Ordered
  <2>2. g[i] \in {s[i].by} \X (1 .. Weight(f[s[i].by]))
    BY <2>1
  <2> QED BY <1>3, <2>2 DEF Weights
<1>6. ASSUME NEW i \in N, NEW j \in N, g[i] = g[j] PROVE i = j
  <2>1. s[i].by = s[j].by /\ Order(Own(s, s[i].by), i) = Order(Own(s, s[i].by), j)
    BY <1>6
  <2>2. i \in Own(s, s[i].by) /\ j \in Own(s, s[i].by)
    BY <1>3, <2>1
  <2> DEFINE S == Own(s, s[i].by)
  <2>3. S \in SUBSET (1 .. Len(s)) /\ i \in S /\ j \in S /\ Order(S, i) = Order(S, j)
    BY <1>4, <2>1, <2>2
  <2> HIDE DEF S
  <2> QED BY <2>3, Ordered
<1>7. g \in Injection(N, Weights(f))
  <2>1. g \in [N -> Weights(f)]
    BY <1>5
  <2> HIDE DEF g, N
  <2> QED BY <1>6, <2>1 DEF Injection, IsInjective
<1>8. Cardinality(N) <= Cardinality(Weights(f))
  <2> HIDE DEF g, N
  <2> QED BY <1>2, <1>7, FS_Injection
<1>9. Cardinality(N) \in Nat /\ Cardinality(Weights(f)) \in Nat
  <2>1. N \in SUBSET (1 .. Len(s))
    BY DEF Newly
  <2> QED BY <1>2, <2>1, PlacesFinite, FS_CardinalityType
<1> HIDE DEF N, g
<1> QED BY <1>8, <1>9, FludConstants DEF N

(* A CTCP more of p: its places get one more, those of others stay.         *)
LEMMA TryMore ==
    ASSUME NEW s \in Seq(Try), NEW e \in Try, e.known
    PROVE  LET n == Len(s) + 1
               g == Append(s, e)
           IN  /\ g \in Seq(Try) /\ Len(g) = n /\ n \in Nat /\ n # 0 /\ g[n] = e
               /\ \A i \in 1 .. Len(s) : g[i] = s[i] /\ i # n /\ i < n
               /\ \A i \in 1 .. n : i = n \/ i \in 1 .. Len(s)
               /\ Own(g, e.by) = Own(s, e.by) \cup {n} /\ n \notin Own(s, e.by)
               /\ \A p : p # e.by => Own(g, p) = Own(s, p)
<1> DEFINE n == Len(s) + 1
           g == Append(s, e)
<1>1. /\ g \in Seq(Try) /\ Len(g) = n /\ n \in Nat /\ n # 0 /\ g[n] = e
      /\ \A i \in 1 .. Len(s) : g[i] = s[i] /\ i # n /\ i < n
      /\ \A i \in 1 .. n : i = n \/ i \in 1 .. Len(s)
      /\ \A i \in 1 .. Len(s) : i \in 1 .. n
      /\ n \in 1 .. n
  OBVIOUS
<1> HIDE DEF n, g
<1>2. Own(g, e.by) = Own(s, e.by) \cup {n} /\ n \notin Own(s, e.by)
  BY <1>1 DEF Own
<1>3. ASSUME NEW p, p # e.by PROVE Own(g, p) = Own(s, p)
  BY <1>1, <1>3 DEF Own
<1> QED BY <1>1, <1>2, <1>3 DEF n, g

(* The account of p after one more: what Counted_in writes.                 *)
LEMMA AccountMore ==
    ASSUME NEW s \in Seq(Try), NEW e \in Try, e.known, e.at = seconds, seconds \in Nat,
           NEW r, NEW f, Accounts(f, s, seconds),
           \/ /\ e.by \in DOMAIN f /\ r = [f[e.by] EXCEPT !.last = seconds, !.count = @ + 1]
           \/ /\ r = [count |-> 1, first |-> seconds, last |-> seconds]
              /\ e.by \notin DOMAIN f \/ f[e.by].last < seconds - FLUDTIME
    PROVE  Accounted(r, Append(s, e), e.by)
<1> DEFINE p == e.by
           n == Len(s) + 1
           g == Append(s, e)
<1>1. /\ g \in Seq(Try) /\ Len(g) = n /\ n \in Nat /\ n # 0 /\ g[n] = e
      /\ \A i \in 1 .. Len(s) : g[i] = s[i] /\ i # n /\ i < n
      /\ Own(g, p) = Own(s, p) \cup {n} /\ n \notin Own(s, p)
  BY TryMore
<1>2. \A i \in Own(s, p) : /\ i \in 1 .. Len(s) /\ i \in Nat /\ i < n /\ s[i].at \in Nat
                           /\ s[i].at <= seconds /\ g[i] = s[i]
  BY <1>1, TryFields DEF Own, Accounts
<1> HIDE DEF n, g
<1>3. n \in Own(g, p) /\ g[n].at = seconds
  BY <1>1
<1>4. CASE p \in DOMAIN f /\ r = [f[p] EXCEPT !.last = seconds, !.count = @ + 1]
  <2>1. f[p] \in Account /\ Accounted(f[p], s, p)
    BY <1>4 DEF Accounts, Accounted
  <2>2. r = [count |-> f[p].count + 1, first |-> f[p].first, last |-> seconds]
    BY <1>4, <2>1 DEF Account
  <2>3. r \in Account /\ r.count = f[p].count + 1 /\ r.first = f[p].first /\ r.last = seconds
    BY <2>1, <2>2 DEF Account
  <2>4. PICK k \in Own(s, p) : /\ s[k].at = f[p].first
                               /\ f[p].count = Cardinality(From_on(s, p, k))
                               /\ \A i \in Own(s, p) : i < k => s[i].at + FLUDTIME < f[p].first
    BY <2>1 DEF Accounted
  <2>5. From_on(g, p, k) = From_on(s, p, k) \cup {n} /\ n \notin From_on(s, p, k)
    <3>1. n >= k
      BY <1>1, <1>2
    <3> QED BY <1>1, <3>1 DEF From_on
  <2>6. IsFiniteSet(From_on(s, p, k))
    <3>1. From_on(s, p, k) \in SUBSET (1 .. Len(s))
      BY DEF From_on, Own
    <3> QED BY <3>1, PlacesFinite
  <2>7. Cardinality(From_on(g, p, k)) = r.count
    <3>1. Cardinality(From_on(s, p, k) \cup {n}) = Cardinality(From_on(s, p, k)) + 1
      BY <2>5, <2>6, FS_AddElement
    <3> QED BY <2>3, <2>4, <2>5, <3>1
  <2>8. k \in Own(g, p) /\ g[k].at = r.first
    BY <1>1, <1>2, <2>3, <2>4
  <2>9. ASSUME NEW i \in Own(g, p), i < k PROVE g[i].at + FLUDTIME < r.first
    <3>1. i # n
      BY <1>1, <1>2, <2>9
    <3>2. i \in Own(s, p)
      BY <1>1, <3>1
    <3> QED BY <1>2, <2>3, <2>4, <2>9, <3>2
  <2>10. \A i \in Own(g, p) : g[i].at <= r.last
    BY <1>1, <1>2, <1>3, <2>3
  <2> QED BY <2>3, <2>7, <2>8, <2>9, <2>10 DEF Accounted, g
<1>5. CASE /\ r = [count |-> 1, first |-> seconds, last |-> seconds]
           /\ p \notin DOMAIN f \/ f[p].last < seconds - FLUDTIME
  <2>1. r \in Account /\ r.count = 1 /\ r.first = seconds /\ r.last = seconds
    BY <1>5 DEF Account
  <2>2. From_on(g, p, n) = {n}
    <3>1. ASSUME NEW i \in Own(s, p) PROVE ~(i >= n)
      BY <1>1, <1>2
    <3> QED BY <1>1, <3>1 DEF From_on
  <2>3. Cardinality(From_on(g, p, n)) = r.count
    BY <2>1, <2>2, FS_Singleton
  <2>4. ASSUME NEW i \in Own(s, p) PROVE s[i].at + FLUDTIME < seconds
    <3>1. i \in 1 .. Len(s) /\ s[i].known /\ s[i].by = p
      BY DEF Own
    <3>2. CASE p \notin DOMAIN f
      BY <3>1, <3>2 DEF Accounts
    <3>3. CASE p \in DOMAIN f
      <4>1. f[p] \in Account /\ s[i].at <= f[p].last
        BY <3>3 DEF Accounts, Accounted
      <4>2. f[p].last \in Nat /\ s[i].at \in Nat /\ f[p].last < seconds - FLUDTIME
        BY <1>2, <1>5, <3>3, <4>1 DEF Account
      <4>3. seconds \in Nat /\ FLUDTIME \in Nat
        BY <1>2, FludConstants
      <4> QED BY ONLY <4>1, <4>2, <4>3
    <3> QED BY <3>2, <3>3
  <2>5. ASSUME NEW i \in Own(g, p), i < n PROVE g[i].at + FLUDTIME < r.first
    <3>1. i \in Own(s, p)
      BY <1>1, <2>5
    <3> QED BY <1>2, <2>1, <2>4, <3>1
  <2>6. \A i \in Own(g, p) : g[i].at <= r.last
    BY <1>1, <1>2, <1>3, <2>1
  <2> QED BY <1>3, <2>1, <2>3, <2>5, <2>6 DEF Accounted, g
<1> QED BY <1>4, <1>5

(* The account of another stays right.                                      *)
LEMMA AccountKept ==
    ASSUME NEW s, NEW g, NEW r, NEW p, Accounted(r, s, p), Own(g, p) = Own(s, p),
           \A i \in Own(s, p) : g[i].at = s[i].at
    PROVE  Accounted(r, g, p)
<1>1. \A k : From_on(g, p, k) = From_on(s, p, k)
  BY DEF From_on
<1> QED BY <1>1 DEF Accounted

(* check_for_flud keeps the accounts.                                       *)
LEMMA CountedAccounts ==
    ASSUME NEW q, NEW p, NEW s \in Seq(Try), NEW e \in Try, e.known, e.by = p, e.at = seconds,
           seconds \in Nat, Accounts(fluders[q], s, seconds)
    PROVE  Accounts(Counted_in(p, q), Append(s, e), seconds)
<1> DEFINE f == fluders[q]
           C == Counted_in(p, q)
           G == Garbage(q)
           g == Append(s, e)
           n == Len(s) + 1
<1>1. /\ DOMAIN C = (DOMAIN f \ G) \cup {p}
      /\ \A r \in DOMAIN f \ G : r # p => C[r] = f[r]
      /\ p \in DOMAIN f \ G => C[p] = [f[p] EXCEPT !.last = seconds, !.count = @ + 1]
      /\ p \notin DOMAIN f \ G => C[p] = [count |-> 1, first |-> seconds, last |-> seconds]
  BY DEF Counted_in
<1>2. G \subseteq DOMAIN f /\ \A r \in G : f[r].last < seconds - FLUDTIME
  BY DEF Garbage
<1>3. /\ g \in Seq(Try) /\ Len(g) = n /\ n \in Nat /\ n # 0 /\ g[n] = e
      /\ \A i \in 1 .. Len(s) : g[i] = s[i] /\ i # n /\ i < n
      /\ \A i \in 1 .. n : i = n \/ i \in 1 .. Len(s)
      /\ \A r : r # p => Own(g, r) = Own(s, r)
  BY TryMore
<1>4. /\ IsFiniteSet(DOMAIN f) /\ \A r \in DOMAIN f : Accounted(f[r], s, r)
      /\ \A i \in 1 .. Len(s) :
            /\ s[i].at <= seconds
            /\ s[i].known /\ s[i].by \notin DOMAIN f => s[i].at + FLUDTIME < seconds
  BY DEF Accounts
<1>5. Accounted(C[p], g, p)
  <2>1. \/ p \in DOMAIN f /\ C[p] = [f[p] EXCEPT !.last = seconds, !.count = @ + 1]
        \/ /\ C[p] = [count |-> 1, first |-> seconds, last |-> seconds]
           /\ p \notin DOMAIN f \/ f[p].last < seconds - FLUDTIME
    BY <1>1, <1>2
  <2> HIDE DEF C, f
  <2> QED BY <2>1, AccountMore DEF f
<1> HIDE DEF C, G, f, g, n
<1>6. IsFiniteSet(DOMAIN C)
  <2>1. IsFiniteSet(DOMAIN f \ G)
    BY <1>4, FS_Subset
  <2> QED BY <1>1, <2>1, FS_AddElement
<1>7. ASSUME NEW r \in DOMAIN C PROVE Accounted(C[r], g, r)
  <2>1. CASE r = p
    BY <1>5, <2>1
  <2>2. CASE r # p
    <3>1. r \in DOMAIN f /\ C[r] = f[r] /\ Own(g, r) = Own(s, r) /\ Accounted(f[r], s, r)
      BY <1>1, <1>3, <1>4, <2>2
    <3>2. \A i \in Own(s, r) : g[i].at = s[i].at
      BY <1>3 DEF Own
    <3>3. Accounted(f[r], g, r)
      BY <3>1, <3>2, AccountKept
    <3> QED BY <3>1, <3>3
  <2> QED BY <2>1, <2>2
<1>8. ASSUME NEW i \in 1 .. n
      PROVE  /\ g[i].at <= seconds
             /\ g[i].known /\ g[i].by \notin DOMAIN C => g[i].at + FLUDTIME < seconds
  <2>1. CASE i = n
    BY <1>1, <1>3, <2>1
  <2>2. CASE i \in 1 .. Len(s)
    <3>1. g[i] = s[i] /\ s[i].at \in Nat /\ s[i].at <= seconds
      BY <1>3, <1>4, <2>2, TryFields
    <3>2. ASSUME s[i].known, s[i].by \notin DOMAIN C PROVE s[i].at + FLUDTIME < seconds
      <4>1. CASE s[i].by \notin DOMAIN f
        BY <1>4, <2>2, <3>2, <4>1
      <4>2. CASE s[i].by \in DOMAIN f
        <5>1. s[i].by \in G
          BY <1>1, <3>2, <4>2
        <5>2. f[s[i].by].last < seconds - FLUDTIME
          BY <1>2, <5>1
        <5>3. i \in Own(s, s[i].by)
          BY <2>2, <3>2 DEF Own
        <5>4. f[s[i].by] \in Account /\ s[i].at <= f[s[i].by].last
          BY <1>4, <4>2, <5>3 DEF Accounted
        <5>5. f[s[i].by].last \in Nat
          BY <5>4 DEF Account
        <5> QED BY <3>1, <5>2, <5>4, <5>5, FludConstants
      <4> QED BY <4>1, <4>2
    <3> QED BY <3>1, <3>2
  <2> QED BY <1>3, <2>1, <2>2
<1>9. Accounts(C, g, seconds)
  BY <1>3, <1>6, <1>7, <1>8 DEF Accounts
<1> QED BY <1>9 DEF C, g

(* What was let through or stopped so far, and one more.                    *)
LEMMA NewlyKept ==
    ASSUME NEW s, NEW g, NEW j, \A i \in 1 .. j : g[i] = s[i], j \in 1 .. j
    PROVE  Newly(g, j) = Newly(s, j)
BY DEF Newly

LEMMA StoppedMore ==
    ASSUME NEW s \in Seq(Try), NEW e \in Try, seconds \in Nat, e.at = seconds,
           NEW b \in Nat, NEW c \in Nat, Stopped(s, b),
           \A i \in 1 .. Len(s) : s[i].at <= seconds,
           IF e.let THEN /\ c = b /\ ~(b > seconds - FLUDBLOCK)
                         /\ Cardinality(Newly(Append(s, e), Len(s) + 1)) <= FLUDNUM
           ELSE c = seconds
    PROVE  Stopped(Append(s, e), c)
<1> DEFINE g == Append(s, e)
           n == Len(s) + 1
<1>1. /\ Len(g) = n /\ n \in Nat /\ g[n] = e
      /\ \A i \in 1 .. Len(s) : g[i] = s[i]
      /\ \A i \in 1 .. n : i = n \/ i \in 1 .. Len(s)
      /\ \A j \in 1 .. Len(s) : \A i \in 1 .. j : i \in 1 .. Len(s)
      /\ \A i \in 1 .. n - 1 : i \in 1 .. Len(s)
  OBVIOUS
<1> HIDE DEF g, n
<1>2. ASSUME NEW i \in 1 .. Len(s), ~s[i].let PROVE s[i].at <= c /\ s[i].at <= b /\ s[i].at \in Nat
  <2>1. s[i].at <= b /\ s[i].at <= seconds /\ s[i].at \in Nat
    BY <1>2, TryFields DEF Stopped
  <2>2. c = b \/ c = seconds
    OBVIOUS
  <2> QED BY <2>1, <2>2
<1>3. ASSUME NEW j \in 1 .. Len(s) PROVE IF g[j].let THEN Held_to(g, j) ELSE g[j].at <= c
  <2>1. CASE ~s[j].let
    BY <1>1, <1>2, <2>1
  <2>2. CASE s[j].let
    <3>1. Held_to(s, j) /\ j \in 1 .. j /\ \A i \in 1 .. j - 1 : i \in 1 .. j
      BY <2>2 DEF Stopped
    <3>2. \A i \in 1 .. j : g[i] = s[i]
      BY <1>1
    <3>3. Newly(g, j) = Newly(s, j)
      BY <3>1, <3>2, NewlyKept
    <3>4. Held_to(g, j)
      BY <3>1, <3>2, <3>3 DEF Held_to
    <3> QED BY <1>1, <2>2, <3>4
  <2> QED BY <2>1, <2>2
<1>4. IF g[n].let THEN Held_to(g, n) ELSE g[n].at <= c
  <2>1. CASE e.let
    <3>1. c = b /\ ~(b > seconds - FLUDBLOCK) /\ Cardinality(Newly(g, n)) <= FLUDNUM
      BY <2>1 DEF g, n
    <3>2. ASSUME NEW i \in 1 .. n - 1, ~g[i].let PROVE g[n].at - g[i].at >= FLUDBLOCK
      <4>1. i \in 1 .. Len(s) /\ g[i] = s[i]
        BY <1>1
      <4>2. s[i].at <= b /\ s[i].at \in Nat
        BY <1>2, <3>2, <4>1
      <4>3. seconds - s[i].at >= FLUDBLOCK
        BY <3>1, <4>2, FludConstants
      <4> QED BY <1>1, <4>1, <4>3
    <3> QED BY <1>1, <2>1, <3>1, <3>2 DEF Held_to
  <2>2. CASE ~e.let
    <3>1. c = seconds
      BY <2>2
    <3> QED BY <1>1, <2>2, <3>1
  <2> QED BY <2>1, <2>2
<1>5. Stopped(g, c)
  BY <1>1, <1>3, <1>4 DEF Stopped
<1> QED BY <1>5 DEF g

(* A CTCP of p to q, counted and let through or stopped.                    *)
LEMMA CtcpBlocked ==
    ASSUME BlockInv, FLUDBLOCK # 0, NEW p \in Talker, NEW q \in Talker, check_for_flud(p, q),
           tries' = [tries EXCEPT ![q] =
                       Append(@, [at |-> seconds, by |-> p, let |-> ~Stops(p, q), known |-> TRUE])],
           UNCHANGED seconds
    PROVE  BlockInv'
<1> DEFINE e == [at |-> seconds, by |-> p, let |-> ~Stops(p, q), known |-> TRUE]
           s == tries[q]
           g == Append(s, e)
           C == Counted_in(p, q)
           c == IF Stops(p, q) THEN seconds ELSE fludblock[q]
<1>1. /\ seconds \in Nat /\ fludblock \in [Name -> Nat] /\ tries \in [Talker -> Seq(Try)]
      /\ fluders = [t \in Name |-> fluders[t]] /\ q \in Name
      /\ Accounts(fluders[q], s, seconds) /\ Stopped(s, fludblock[q])
  BY FludConstants DEF BlockInv, TryTypes
<1>2. s \in Seq(Try) /\ fludblock[q] \in Nat /\ c \in Nat
  BY <1>1
<1>3. e \in Try /\ e.known /\ e.by = p /\ e.at = seconds /\ e.let = ~Stops(p, q)
  <2>1. Stops(p, q) \in BOOLEAN
    BY DEF Stops, Blocking, Starts
  <2> QED BY <1>1, <2>1 DEF Try
<1>4. Accounts(C, g, seconds)
  <2> HIDE DEF e, s
  <2> QED BY <1>1, <1>2, <1>3, CountedAccounts
<1>5. /\ fluders' = [fluders EXCEPT ![q] = C] /\ fludblock' = [fludblock EXCEPT ![q] = c]
      /\ tries' = [tries EXCEPT ![q] = g]
  BY DEF check_for_flud
<1>6. g \in Seq(Try) /\ Len(g) = Len(s) + 1 /\ Len(g) # 0 /\ g[Len(g)] = e
  <2> HIDE DEF e, s
  <2> QED BY <1>2, <1>3, TryMore
<1>7. Stopped(g, c)
  <2>1. \A i \in 1 .. Len(s) : s[i].at <= seconds
    BY <1>1 DEF Accounts
  <2>2. CASE Stops(p, q)
    <3>1. ~e.let /\ c = seconds
      BY <1>3, <2>2
    <3> HIDE DEF e, s, c
    <3> QED BY <1>1, <1>2, <1>3, <2>1, <3>1, StoppedMore
  <2>3. CASE ~Stops(p, q)
    <3>1. e.let /\ c = fludblock[q] /\ ~(fludblock[q] > seconds - FLUDBLOCK)
          /\ ~(Cardinality(Weights(C)) > FLUDNUM)
      BY <1>3, <2>3 DEF Stops, Blocking, Starts
    <3>2. Cardinality(Weights(C)) \in Nat
      <4>1. ASSUME NEW r \in DOMAIN C PROVE Weight(C[r]) \in Nat
        <5>1. C[r] \in Account
          BY <1>4 DEF Accounts, Accounted
        <5> HIDE DEF C
        <5> QED BY <5>1 DEF Account, Weight
      <4>2. IsFiniteSet(Weights(C))
        <5> HIDE DEF C
        <5> QED BY <1>4, <4>1, WeightsFinite DEF Accounts
      <4> QED BY <4>2, FS_CardinalityType
    <3>3. Cardinality(Weights(C)) <= FLUDNUM
      BY <3>1, <3>2, FludConstants
    <3>4. Cardinality(Newly(g, Len(g))) <= FLUDNUM
      <4>1. g[Len(g)].at = seconds
        BY <1>3, <1>6
      <4> HIDE DEF g, C
      <4> QED BY <1>1, <1>4, <1>6, <3>3, <4>1, NewlyWeighed
    <3>5. Cardinality(Newly(Append(s, e), Len(s) + 1)) <= FLUDNUM
      BY <1>6, <3>4
    <3> HIDE DEF e, s, c, C
    <3> QED BY <1>1, <1>2, <1>3, <2>1, <3>1, <3>5, StoppedMore
  <2> QED BY <2>2, <2>3
<1> HIDE DEF C, g, c, s, e
<1>8. TryTypes'
  BY <1>1, <1>2, <1>5, <1>6 DEF TryTypes
<1>9. ASSUME NEW u \in Talker
      PROVE  Accounts(fluders'[u], tries'[u], seconds) /\ Stopped(tries'[u], fludblock'[u])
  <2>1. CASE u = q
    <3>1. fluders'[u] = C /\ tries'[u] = g /\ fludblock'[u] = c
      BY <1>1, <1>5, <2>1
    <3> QED BY <1>4, <1>7, <3>1
  <2>2. CASE u # q
    <3>1. fluders'[u] = fluders[u] /\ tries'[u] = tries[u] /\ fludblock'[u] = fludblock[u]
      <4>1. u \in Name
        BY FludConstants
      <4> QED BY <1>1, <1>5, <2>2, <4>1
    <3> QED BY <3>1 DEF BlockInv
  <2> QED BY <2>1, <2>2
<1> QED BY <1>8, <1>9 DEF BlockInv

(* One to a channel: nobody's own account is touched.                       *)
LEMMA ChannelBlocked ==
    ASSUME BlockInv, NEW p \in Talker, NEW t \in Forum, check_for_flud(p, t), UNCHANGED <<tries, seconds>>
    PROVE  BlockInv'
<1>1. /\ seconds \in Nat /\ fludblock \in [Name -> Nat] /\ tries \in [Talker -> Seq(Try)]
      /\ fluders = [v \in Name |-> fluders[v]] /\ t \in Name
  BY FludConstants DEF BlockInv, TryTypes
<1>2. /\ fluders' = [v \in Name |-> fluders'[v]] /\ fludblock' \in [Name -> Nat]
      /\ \A u \in Talker : fluders'[u] = fluders[u] /\ fludblock'[u] = fludblock[u]
  <2>1. CASE FLUDBLOCK = 0
    BY <1>1, <2>1 DEF check_for_flud
  <2>2. CASE FLUDBLOCK # 0
    <3> DEFINE C == Counted_in(p, t)
               c == IF Stops(p, t) THEN seconds ELSE fludblock[t]
    <3>1. fluders' = [fluders EXCEPT ![t] = C] /\ fludblock' = [fludblock EXCEPT ![t] = c]
      BY <2>2 DEF check_for_flud
    <3>2. c \in Nat
      BY <1>1
    <3>3. \A u \in Talker : u # t /\ u \in Name
      BY FludConstants
    <3> HIDE DEF C, c
    <3> QED BY <1>1, <3>1, <3>2, <3>3
  <2> QED BY <2>1, <2>2
<1> QED BY <1>1, <1>2 DEF BlockInv, TryTypes

(* Who goes: no account of it or with it is left, and of what it sent to    *)
(* others it is known no more by whom.                                      *)
Disowned(s, x) == [i \in DOMAIN s |-> [s[i] EXCEPT !.known = @ /\ s[i].by # x]]

LEMMA GoneAccounts ==
    ASSUME NEW s \in Seq(Try), NEW x, NEW f, NEW h, seconds \in Nat, NEW b \in Nat,
           Accounts(f, s, seconds), Stopped(s, b), DOMAIN h = DOMAIN f \ {x} \/ (x \notin Talker /\ h = f),
           \A r \in DOMAIN h : h[r] = f[r]
    PROVE  LET g == Disowned(s, x)
           IN  g \in Seq(Try) /\ Accounts(h, g, seconds) /\ Stopped(g, b)
<1> DEFINE g == Disowned(s, x)
<1>1. Len(s) \in Nat /\ DOMAIN s = 1 .. Len(s)
  OBVIOUS
<1>2. ASSUME NEW i \in 1 .. Len(s)
      PROVE  /\ g[i] \in Try /\ g[i].at = s[i].at /\ g[i].by = s[i].by /\ g[i].let = s[i].let
             /\ g[i].known <=> s[i].known /\ s[i].by # x
             /\ s[i].at \in Nat /\ s[i].by \in Talker /\ i \in Nat
  <2>1. s[i] \in Try /\ s[i].at \in Nat /\ s[i].by \in Talker
    BY TryFields
  <2>2. g[i] = [s[i] EXCEPT !.known = @ /\ s[i].by # x]
    BY <1>1 DEF Disowned
  <2>3. g[i] = [at |-> s[i].at, by |-> s[i].by, let |-> s[i].let, known |-> s[i].known /\ s[i].by # x]
    BY <2>1, <2>2 DEF Try
  <2>4. s[i].let \in BOOLEAN /\ (s[i].known /\ s[i].by # x) \in BOOLEAN
    BY TryFields
  <2> DEFINE kn == s[i].known /\ s[i].by # x
             le == s[i].let
  <2> HIDE DEF g
  <2>5. le \in BOOLEAN /\ kn \in BOOLEAN
    BY <2>4
  <2>6. g[i] = [at |-> s[i].at, by |-> s[i].by, let |-> le, known |-> kn]
    BY <2>3
  <2>7. g[i].known <=> kn
    <3>1. g[i].known = kn
      <4> HIDE DEF kn, le
      <4> QED BY <2>6
    <3> QED BY <3>1
  <2>8. g[i] \in Try /\ g[i].at = s[i].at /\ g[i].by = s[i].by /\ g[i].let = le
    <3> HIDE DEF kn, le
    <3> QED BY <2>1, <2>5, <2>6 DEF Try
  <2> QED BY <2>1, <2>7, <2>8
<1>3. Len(g) = Len(s) /\ g \in Seq(Try)
  <2>1. g = [i \in 1 .. Len(s) |-> g[i]]
    BY <1>1 DEF Disowned
  <2>2. g \in [1 .. Len(s) -> Try]
    BY <1>1, <1>2, <2>1
  <2> QED BY <1>1, <2>2
<1> HIDE DEF g
<1>4. \A r : r # x => Own(g, r) = Own(s, r)
  BY <1>2, <1>3 DEF Own
<1>5. ASSUME NEW r \in DOMAIN h PROVE Accounted(h[r], g, r)
  <2>1. r \in DOMAIN f /\ h[r] = f[r] /\ Accounted(f[r], s, r)
    BY DEF Accounts
  <2>2. r # x
    <3>1. CASE DOMAIN h = DOMAIN f \ {x}
      BY <3>1
    <3>2. CASE x \notin Talker
      <4>1. PICK k \in Own(s, r) : TRUE
        BY <2>1 DEF Accounted
      <4>2. k \in 1 .. Len(s) /\ s[k].by = r
        BY DEF Own
      <4> QED BY <1>2, <3>2, <4>2
    <3> QED BY <3>1, <3>2
  <2>3. Own(g, r) = Own(s, r) /\ \A i \in Own(s, r) : g[i].at = s[i].at
    BY <1>2, <1>4, <2>2 DEF Own
  <2>4. Accounted(f[r], g, r)
    BY <2>1, <2>3, AccountKept
  <2> QED BY <2>1, <2>4
<1>6. Accounts(h, g, seconds)
  <2>1. IsFiniteSet(DOMAIN h)
    <3>1. IsFiniteSet(DOMAIN f) /\ DOMAIN h \subseteq DOMAIN f
      BY DEF Accounts
    <3> QED BY <3>1, FS_Subset
  <2>2. ASSUME NEW i \in 1 .. Len(g)
        PROVE  /\ g[i].at <= seconds
               /\ g[i].known /\ g[i].by \notin DOMAIN h => g[i].at + FLUDTIME < seconds
    <3>1. i \in 1 .. Len(s)
      BY <1>3
    <3>2. ASSUME g[i].known, g[i].by \notin DOMAIN h PROVE s[i].known /\ s[i].by \notin DOMAIN f
      BY <1>2, <3>1, <3>2
    <3> QED BY <1>2, <3>1, <3>2 DEF Accounts
  <2> QED BY <1>5, <2>1, <2>2 DEF Accounts
<1>7. ASSUME NEW j \in 1 .. Len(g) PROVE IF g[j].let THEN Held_to(g, j) ELSE g[j].at <= b
  <2>0. j \in 1 .. Len(s) /\ j \in 1 .. j /\ \A i \in 1 .. j : i \in 1 .. Len(s)
    BY <1>1, <1>3
  <2>1. CASE ~s[j].let
    BY <1>2, <2>0, <2>1 DEF Stopped
  <2>2. CASE s[j].let
    <3>1. Held_to(s, j) /\ \A i \in 1 .. j - 1 : i \in 1 .. j
      BY <2>0, <2>2 DEF Stopped
    <3>2. Newly(g, j) \subseteq Newly(s, j)
      <4> SUFFICES ASSUME NEW i \in Newly(g, j) PROVE i \in Newly(s, j)
        OBVIOUS
      <4>1. /\ i \in 1 .. j /\ g[i].known
            /\ \A k \in 1 .. j : g[k].known /\ g[k].by = g[i].by => g[k].at >= g[j].at - FLUDTIME
        BY DEF Newly
      <4>2. s[i].known /\ s[i].by # x
        BY <1>2, <2>0, <4>1
      <4>3. ASSUME NEW k \in 1 .. j, s[k].known, s[k].by = s[i].by
            PROVE  s[k].at >= s[j].at - FLUDTIME
        <5>1. g[k].known /\ g[k].by = g[i].by
          BY <1>2, <2>0, <4>1, <4>2, <4>3
        <5>2. g[k].at >= g[j].at - FLUDTIME
          BY <4>1, <5>1
        <5>3. g[k].at = s[k].at /\ g[j].at = s[j].at
          BY <1>2, <2>0
        <5> QED BY <5>2, <5>3
      <4> QED BY <4>1, <4>2, <4>3 DEF Newly
    <3>3. IsFiniteSet(Newly(s, j)) /\ Cardinality(Newly(s, j)) \in Nat
      <4>1. Newly(s, j) \in SUBSET (1 .. Len(s))
        BY <2>0 DEF Newly
      <4> QED BY <4>1, PlacesFinite
    <3>4. Cardinality(Newly(g, j)) <= Cardinality(Newly(s, j)) /\ IsFiniteSet(Newly(g, j))
      BY <3>2, <3>3, FS_Subset
    <3>5. Cardinality(Newly(g, j)) <= FLUDNUM
      <4>1. Cardinality(Newly(g, j)) \in Nat
        BY <3>4, FS_CardinalityType
      <4>2. Cardinality(Newly(s, j)) <= FLUDNUM
        BY <3>1 DEF Held_to
      <4> QED BY <3>3, <3>4, <4>1, <4>2, FludConstants
    <3>6. ASSUME NEW i \in 1 .. j - 1, ~g[i].let PROVE g[j].at - g[i].at >= FLUDBLOCK
      <4>1. i \in 1 .. Len(s)
        BY <2>0, <3>1
      <4> QED BY <1>2, <2>0, <3>1, <3>6, <4>1 DEF Held_to
    <3>7. g[j].let
      BY <1>2, <2>0, <2>2
    <3> QED BY <3>5, <3>6, <3>7 DEF Held_to
  <2> QED BY <2>1, <2>2
<1>8. Stopped(g, b)
  BY <1>7 DEF Stopped
<1> QED BY <1>3, <1>6, <1>8 DEF g

LEMMA GoesBlocked ==
    ASSUME BlockInv, FludInv, NEW x \in Name, Goes(x) PROVE BlockInv'
<1>1. /\ seconds \in Nat /\ fludblock \in [Name -> Nat] /\ tries \in [Talker -> Seq(Try)]
      /\ fluders = [t \in Name |-> fluders[t]] /\ Talker \subseteq Name
  BY FludConstants DEF BlockInv, TryTypes
<1>2. /\ fluders' = Unreferred(x) /\ fludblock' = [fludblock EXCEPT ![x] = 0] /\ UNCHANGED seconds
      /\ tries' = [q \in Talker |-> IF q = x THEN << >>
                                    ELSE [i \in DOMAIN tries[q] |->
                                            [tries[q][i] EXCEPT !.known = @ /\ tries[q][i].by # x]]]
  BY DEF Goes, Release_flud
<1>3. ASSUME NEW q \in Talker
      PROVE  /\ tries'[q] \in Seq(Try)
             /\ Accounts(fluders'[q], tries'[q], seconds) /\ Stopped(tries'[q], fludblock'[q])
  <2>1. CASE q = x
    <3>1. fluders'[q] = Nobody /\ tries'[q] = << >>
      BY <1>1, <1>2, <2>1 DEF Unreferred
    <3>2. IsFiniteSet(DOMAIN Nobody) /\ DOMAIN Nobody = {}
      BY FS_EmptySet DEF Nobody
    <3>3. << >> \in Seq(Try) /\ Len(<< >>) = 0 /\ \A i \in 1 .. 0 : FALSE
      OBVIOUS
    <3>4. Accounts(Nobody, << >>, seconds) /\ Stopped(<< >>, fludblock'[q])
      BY <3>2, <3>3 DEF Accounts, Stopped
    <3> QED BY <3>1, <3>3, <3>4
  <2>2. CASE q # x
    <3> DEFINE s == tries[q]
               f == fluders[q]
               h == fluders'[q]
               b == fludblock[q]
    <3>1. tries'[q] = Disowned(s, x) /\ fludblock'[q] = b
      BY <1>1, <1>2, <2>2 DEF Disowned
    <3>2. h = IF x \in Talker /\ q \in fludees[x] THEN [r \in DOMAIN f \ {x} |-> f[r]] ELSE f
      BY <1>1, <1>2, <2>2 DEF Unreferred
    <3>3. x \in Talker => (x \in DOMAIN f <=> q \in fludees[x])
      BY <1>1 DEF FludInv, Referred
    <3>4. /\ DOMAIN h = DOMAIN f \ {x} \/ (x \notin Talker /\ h = f)
          /\ \A r \in DOMAIN h : h[r] = f[r]
      <4>1. CASE x \in Talker /\ q \in fludees[x]
        BY <3>2, <4>1
      <4>2. CASE x \in Talker /\ q \notin fludees[x]
        BY <3>2, <3>3, <4>2
      <4>3. CASE x \notin Talker
        BY <3>2, <4>3
      <4> QED BY <4>1, <4>2, <4>3
    <3>5. s \in Seq(Try) /\ b \in Nat /\ Accounts(f, s, seconds) /\ Stopped(s, b)
      BY <1>1 DEF BlockInv
    <3> HIDE DEF s, f, h, b
    <3>6. /\ Disowned(s, x) \in Seq(Try) /\ Accounts(h, Disowned(s, x), seconds)
          /\ Stopped(Disowned(s, x), b)
      BY ONLY <1>1, <3>4, <3>5, GoneAccounts
    <3> QED BY <3>1, <3>6 DEF h
  <2> QED BY <2>1, <2>2
<1>4. tries' \in [Talker -> Seq(Try)]
  <2>1. tries' = [q \in Talker |-> tries'[q]]
    BY <1>2
  <2> QED BY <1>3, <2>1
<1>5. fluders' = [t \in Name |-> fluders'[t]] /\ fludblock' \in [Name -> Nat] /\ seconds' \in Nat
  BY <1>1, <1>2 DEF Unreferred
<1> QED BY <1>2, <1>3, <1>4, <1>5 DEF BlockInv, TryTypes

LEMMA BlockSame ==
    ASSUME BlockInv, UNCHANGED <<fluders, fludblock, tries>>, seconds' \in Nat, seconds' >= seconds
    PROVE  BlockInv'
<1>1. ASSUME NEW q \in Talker PROVE Accounts(fluders[q], tries[q], seconds')
  <2>1. Accounts(fluders[q], tries[q], seconds) /\ tries[q] \in Seq(Try) /\ seconds \in Nat
    BY DEF BlockInv, TryTypes
  <2>2. ASSUME NEW i \in 1 .. Len(tries[q])
        PROVE  LET e == tries[q][i]
               IN  /\ e.at <= seconds'
                   /\ e.known /\ e.by \notin DOMAIN fluders[q] => e.at + FLUDTIME < seconds'
    <3>1. tries[q][i].at \in Nat
      BY <2>1, TryFields
    <3>2. tries[q][i].at <= seconds
      BY <2>1 DEF Accounts
    <3>3. tries[q][i].known /\ tries[q][i].by \notin DOMAIN fluders[q]
              => tries[q][i].at + FLUDTIME < seconds
      BY <2>1 DEF Accounts
    <3>4. tries[q][i].at <= seconds' /\ (tries[q][i].at + FLUDTIME < seconds
                                          => tries[q][i].at + FLUDTIME < seconds')
      BY <2>1, <3>1, <3>2, FludConstants
    <3> QED BY <3>3, <3>4
  <2> QED BY <2>1, <2>2 DEF Accounts
<1> QED BY <1>1 DEF BlockInv, TryTypes

LEMMA BlockInit == ASSUME LInit PROVE BlockInv
<1>1. /\ seconds = Birth /\ fludblock = [t \in Name |-> 0] /\ tries = [p \in Talker |-> << >>]
      /\ fluders = [t \in Name |-> Nobody]
  BY DEF LInit
<1>2. IsFiniteSet(DOMAIN Nobody) /\ DOMAIN Nobody = {}
  BY FS_EmptySet DEF Nobody
<1>3. << >> \in Seq(Try) /\ Len(<< >>) = 0 /\ \A i \in 1 .. 0 : FALSE
  OBVIOUS
<1>4. ASSUME NEW q \in Talker
      PROVE  Accounts(fluders[q], tries[q], seconds) /\ Stopped(tries[q], fludblock[q])
  <2>1. fluders[q] = Nobody /\ tries[q] = << >>
    BY <1>1, FludConstants
  <2> QED BY <1>2, <1>3, <2>1 DEF Accounts, Stopped
<1>5. TryTypes
  BY <1>1, <1>3, FludConstants DEF TryTypes
<1> QED BY <1>4, <1>5 DEF BlockInv

LEMMA BlockNext ==
    ASSUME FLUDBLOCK # 0, BlockInv, FludInv, [LNext]_lvars PROVE BlockInv'
<1>0. seconds \in Nat
  BY DEF BlockInv, TryTypes
<1>1. ASSUME UNCHANGED <<flood, seconds>> PROVE BlockInv'
  <2>1. UNCHANGED <<fluders, fludblock, tries>> /\ seconds' \in Nat /\ seconds' >= seconds
    BY <1>0, <1>1 DEF flood
  <2> QED BY <2>1, BlockSame
<1>2. CASE UNCHANGED lvars
  BY <1>1, <1>2 DEF lvars, flood
<1>3. ASSUME NEW x \in Name, Goes(x) PROVE BlockInv'
  BY <1>3, GoesBlocked
<1>4. ASSUME NEW x \in Name, Comes(x) PROVE BlockInv'
  BY <1>1, <1>4 DEF Comes
<1>5. ASSUME NEW p \in Talker, Dcc_Allowed(p) \/ Drains(p) PROVE BlockInv'
  BY <1>1, <1>5 DEF Dcc_Allowed, Drains
<1>6. ASSUME NEW d \in Steps, Waits(d) PROVE BlockInv'
  <2>1. UNCHANGED <<fluders, fludblock, tries>> /\ seconds' = seconds + d
    BY <1>6 DEF Waits, flood
  <2>2. seconds' \in Nat /\ seconds' >= seconds
    BY <1>0, <2>1, FludConstants
  <2> QED BY <2>1, <2>2, BlockSame
<1>7. ASSUME NEW p \in Talker, NEW text \in Text, NEW notice \in BOOLEAN, NEW c \in Forum,
             ToChanops(p, c, text, notice)
      PROVE  BlockInv'
  <2>1. check_for_flud(p, c) /\ UNCHANGED <<tries, seconds>>
    BY <1>7 DEF ToChanops
  <2> QED BY <2>1, ChannelBlocked
<1>8. ASSUME NEW p \in Talker, NEW text \in Text, NEW notice \in BOOLEAN, NEW c \in Forum,
             NEW b \in BOOLEAN, ToChannel(p, c, text, notice, b)
      PROVE  BlockInv'
  <2>1. /\ UNCHANGED <<tries, seconds>>
        /\ check_for_flud(p, c) \/ UNCHANGED <<fluders, fludees, fludblock>>
    BY <1>8 DEF ToChannel
  <2>2. CASE check_for_flud(p, c)
    BY <2>1, <2>2, ChannelBlocked
  <2>3. CASE UNCHANGED <<fluders, fludees, fludblock>>
    BY <1>1, <2>1, <2>3 DEF flood
  <2> QED BY <2>1, <2>2, <2>3
<1>9. ASSUME NEW p \in Talker, NEW text \in Text, NEW notice \in BOOLEAN, NEW q \in Talker,
             ToPerson(p, q, text, notice)
      PROVE  BlockInv'
  <2> DEFINE ctcp == ~notice /\ q \in Mine /\ check_for_ctcp(text)
             stop == FLUDBLOCK # 0 /\ ctcp /\ Stops(p, q)
  <2>1. /\ UNCHANGED seconds
        /\ \/ UNCHANGED flood
           \/ /\ ctcp /\ check_for_flud(p, q)
              /\ tries' = [tries EXCEPT ![q] =
                              Append(@, [at |-> seconds, by |-> p, let |-> ~stop, known |-> TRUE])]
    BY <1>9 DEF ToPerson
  <2>2. CASE UNCHANGED flood
    BY <1>1, <2>1, <2>2
  <2>3. CASE /\ ctcp /\ check_for_flud(p, q)
             /\ tries' = [tries EXCEPT ![q] =
                             Append(@, [at |-> seconds, by |-> p, let |-> ~stop, known |-> TRUE])]
    <3>1. (~stop) = (~Stops(p, q))
      BY <2>3
    <3>2. tries' = [tries EXCEPT ![q] =
                      Append(@, [at |-> seconds, by |-> p, let |-> ~Stops(p, q), known |-> TRUE])]
      BY <2>3, <3>1
    <3> HIDE DEF ctcp, stop
    <3> QED BY <2>1, <2>3, <3>2, CtcpBlocked
  <2> QED BY <2>1, <2>2, <2>3
<1> QED BY <1>2, <1>3, <1>4, <1>5, <1>6, <1>7, <1>8, <1>9 DEF LNext

(* After a CTCP was stopped none gets through for FLUDBLOCK seconds, and of *)
(* those who began to send less than FLUDTIME ago not more than FLUDNUM do  *)
(* in that time, unless FLUDBLOCK 0 turns it off (check_for_flud).          *)
THEOREM CtcpsAreBlocked == LSpec => []Blocked
<1> DEFINE Inv == FludInv /\ (FLUDBLOCK # 0 => BlockInv)
<1>1. LInit => Inv
  BY FludInit, BlockInit
<1>2. Inv /\ [LNext]_lvars => Inv'
  BY FludNext, BlockNext
<1>3. Inv => Blocked
  <2> SUFFICES ASSUME BlockInv, NEW q \in Talker, NEW j \in DOMAIN tries[q], tries[q][j].let
               PROVE  Held_to(tries[q], j)
    BY DEF Blocked, Held_to
  <2>1. DOMAIN tries[q] = 1 .. Len(tries[q])
    BY DEF BlockInv, TryTypes
  <2> QED BY <2>1 DEF BlockInv, Stopped
<1> HIDE DEF Inv
<1> QED BY <1>1, <1>2, <1>3, PTL DEF LSpec

(* The three protections and the limit of targets hold, whoever talks and   *)
(* whatever the limits are (m_message, check_for_flud, check_target_limit). *)
THEOREM TalkHolds == LSpec => []TalkRight
<1>1. Referred /\ Blocked /\ Spared_Messages /\ TargetsHeld => TalkRight
  BY DEF TalkRight, FludsRight
<1> QED BY <1>1, FludersReferred, CtcpsAreBlocked, MessagesAreSpared, TargetsAreHeld, PTL

(***************************************************************************)
(* The throttle of clients from one address (Throttle).                     *)
(***************************************************************************)
LEMMA Least_Number ==
    ASSUME NEW T \in SUBSET Nat, T # {}
    PROVE  \E x \in T : \A y \in T : x <= y
<1> DEFINE Segments == {0 .. n : n \in T}
<1>1. Segments \subseteq FiniteSubsetsOf(Nat) /\ Segments # {}
    <2>1. \A n \in T : n \in Nat /\ 0 .. n \in SUBSET Nat
        OBVIOUS
    <2>2. \A n \in T : IsFiniteSet(0 .. n)
        BY <2>1, FS_Interval
    <2> QED
        BY <2>1, <2>2 DEF FiniteSubsetsOf
<1>2. PICK X \in Segments : \A Y \in Segments : <<Y, X>> \notin StrictSubsetOrdering(Nat)
    <2> HIDE DEF Segments
    <2> QED
        BY <1>1, WFMin, FS_StrictSubsetOrderingWellFounded
<1>3. PICK x \in T : X = 0 .. x
    OBVIOUS
<1>4. ASSUME NEW y \in T PROVE x <= y
    <2> SUFFICES ASSUME y < x PROVE FALSE
        OBVIOUS
    <2>1. 0 .. y \subseteq 0 .. x /\ 0 .. y # 0 .. x
        OBVIOUS
    <2>2. <<0 .. y, X>> \in StrictSubsetOrdering(Nat)
        BY <2>1, <1>3 DEF StrictSubsetOrdering
    <2> QED
        BY <2>2, <1>2
<1> QED
    BY <1>4

(* Induction over the first numbers.                                        *)
LEMMA Up_To ==
    ASSUME NEW k \in Nat, NEW S, 0 \in S, \A n \in 1 .. k : n - 1 \in S => n \in S
    PROVE  0 .. k \subseteq S
<1> DEFINE Without == {n \in 0 .. k : n \notin S}
<1> SUFFICES ASSUME Without # {} PROVE FALSE
    OBVIOUS
<1>1. PICK x \in Without : \A y \in Without : x <= y
    <2>1. Without \in SUBSET Nat
        OBVIOUS
    <2> HIDE DEF Without
    <2> QED BY Least_Number, <2>1
<1>2. x \in 1 .. k /\ x - 1 \in 0 .. k
    OBVIOUS
<1>3. x - 1 \in S
    BY <1>1, <1>2
<1> QED BY <1>2, <1>3

-----------------------------------------------------------------------------
Count == {HITLIMIT, SENTWARN} \cup 1 .. CheckClonesLimit - 1
Record == [ip : Ip, count : Count, last : Nat]
Records(s) == {s[i] : i \in 1 .. Len(s)}
One(s) == \A i, j \in 1 .. Len(s) : s[i].ip = s[j].ip => i = j

(* What is left of the first n records.                                     *)
Sifted(s, n, t) ==
    /\ t \in Seq(Record)
    /\ \A j \in 1 .. Len(t) : \E i \in 1 .. n : t[j] = s[i]
    /\ \A i \in 1 .. n : Expired(s[i]) \/ s[i] \in Records(t)
    /\ One(t)

(* What is sifted of the first n records, from what is of the first n - 1.  *)
LEMMA Sift_One ==
    ASSUME NEW s \in Seq(Record), One(s), NEW n \in 1 .. Len(s), NEW t, Sifted(s, n - 1, t)
    PROVE  Sifted(s, n, IF Expired(s[n]) THEN t ELSE Append(t, s[n]))
<1>0. t \in Seq(Record) /\ s[n] \in Record /\ n - 1 \in Nat
    BY DEF Sifted
<1>1. \A i \in 1 .. n : i \in 1 .. n - 1 \/ i = n
    OBVIOUS
<1>2. CASE Expired(s[n])
    BY <1>0, <1>1, <1>2 DEF Sifted
<1>3. CASE ~Expired(s[n])
    <2> DEFINE u == Append(t, s[n])
    <2>1. /\ u \in Seq(Record) /\ Len(t) \in Nat /\ Len(u) = Len(t) + 1 /\ u[Len(t) + 1] = s[n]
          /\ \A j \in 1 .. Len(t) : u[j] = t[j]
        BY <1>0
    <2> HIDE DEF u
    <2>2. \A j \in 1 .. Len(u) : j \in 1 .. Len(t) \/ j = Len(t) + 1
        BY <2>1
    <2>3. \A j \in 1 .. Len(u) : \E i \in 1 .. n : u[j] = s[i]
        <3> SUFFICES ASSUME NEW j \in 1 .. Len(u) PROVE \E i \in 1 .. n : u[j] = s[i]
            OBVIOUS
        <3>1. CASE j = Len(t) + 1
            BY <2>1, <3>1
        <3>2. CASE j \in 1 .. Len(t)
            <4>1. PICK i \in 1 .. n - 1 : t[j] = s[i]
                BY <3>2 DEF Sifted
            <4> QED BY <4>1, <2>1, <3>2
        <3> QED BY <3>1, <3>2, <2>2
    <2>4. \A i \in 1 .. n : Expired(s[i]) \/ s[i] \in Records(u)
        <3> SUFFICES ASSUME NEW i \in 1 .. n, ~Expired(s[i]) PROVE s[i] \in Records(u)
            OBVIOUS
        <3>1. CASE i = n
            BY <2>1, <3>1 DEF Records
        <3>2. CASE i \in 1 .. n - 1
            <4>1. PICK j \in 1 .. Len(t) : s[i] = t[j]
                BY <3>2 DEF Sifted, Records
            <4> QED BY <4>1, <2>1 DEF Records
        <3> QED BY <3>1, <3>2, <1>1
    <2>5. \A j \in 1 .. Len(t) : t[j].ip # s[n].ip
        <3> SUFFICES ASSUME NEW j \in 1 .. Len(t), t[j].ip = s[n].ip PROVE FALSE
            OBVIOUS
        <3>1. PICK i \in 1 .. n - 1 : t[j] = s[i]
            BY DEF Sifted
        <3> QED BY <3>1 DEF One
    <2>6. One(u)
        BY <2>1, <2>2, <2>5 DEF One, Sifted
    <2> QED BY <1>3, <2>1, <2>3, <2>4, <2>6 DEF Sifted, u
<1> QED BY <1>2, <1>3

(* The scan of check_clones keeps those of the first k records that have    *)
(* not expired.                                                             *)
LEMMA Unexpired_Right ==
    ASSUME NEW s \in Seq(Record), One(s), NEW k \in 0 .. Len(s)
    PROVE  Sifted(s, k, Unexpired(s, k))
<1> DEFINE Step(g, n) == IF n = 0 THEN << >>
                         ELSE IF Expired(s[n]) THEN g[n - 1] ELSE Append(g[n - 1], s[n])
           Sifts(g, m) == g = [n \in 0 .. m |-> Step(g, n)]
           There == {m \in 0 .. k : \E g : Sifts(g, m)}
<1>0. k \in Nat /\ Len(s) \in Nat
    OBVIOUS
<1>1. \E f : Sifts(f, k)
    <2>1. 0 \in There
        <3>1. Sifts([n \in 0 .. 0 |-> << >>], 0)
            OBVIOUS
        <3>2. 0 \in 0 .. k
            BY <1>0
        <3> HIDE DEF Sifts
        <3> QED BY <3>1, <3>2
    <2>2. ASSUME NEW n \in 1 .. k, n - 1 \in There PROVE n \in There
        <3>1. PICK g : Sifts(g, n - 1)
            BY <2>2
        <3> DEFINE h == [i \in 0 .. n |-> IF i = n THEN Step(g, n) ELSE g[i]]
        <3>0. n \in Nat \ {0} /\ 0 .. n - 1 \subseteq 0 .. n /\ n \notin 0 .. n - 1
            BY <1>0
        <3>2. \A i \in 0 .. n - 1 : h[i] = g[i] /\ g[i] = Step(g, i)
            BY <3>0, <3>1
        <3>3. \A i \in 0 .. n : h[i] = Step(h, i)
            <4> SUFFICES ASSUME NEW i \in 0 .. n PROVE h[i] = Step(h, i)
                OBVIOUS
            <4>1. i # 0 => i - 1 \in 0 .. n - 1 /\ h[i - 1] = g[i - 1]
                BY <3>2
            <4>2. Step(h, i) = Step(g, i)
                BY <4>1
            <4>3. i = n \/ i \in 0 .. n - 1
                BY <3>0
            <4>4. h[i] = Step(g, i)
                BY <3>2, <4>3
            <4> QED BY <4>2, <4>4
        <3>4. h = [i \in 0 .. n |-> h[i]]
            OBVIOUS
        <3> HIDE DEF h
        <3>5. Sifts(h, n)
            BY <3>3, <3>4
        <3>6. n \in 0 .. k
            BY <1>0
        <3> HIDE DEF Sifts
        <3> QED BY <3>5, <3>6
    <2>3. k \in There
        <3> HIDE DEF There
        <3>2. \A n \in 1 .. k : n - 1 \in There => n \in There
            BY <2>2
        <3>1. 0 .. k \subseteq There
            BY ONLY <2>1, <3>2, <1>0, Up_To
        <3> QED BY ONLY <1>0, <3>1
    <2> QED BY <2>3
<1> DEFINE f == CHOOSE g : Sifts(g, k)
<1>2. Sifts(f, k) /\ Unexpired(s, k) = f[k]
    BY <1>1 DEF Unexpired
<1> HIDE DEF f
<1> DEFINE Good == {m \in 0 .. k : Sifted(s, m, f[m])}
<1>3. 0 \in Good
    <2>1. f[0] = << >>
        BY <1>2, <1>0
    <2>2. Sifted(s, 0, << >>)
        BY DEF Sifted, One, Records
    <2>3. 0 \in 0 .. k
        BY <1>0
    <2> QED BY <2>1, <2>2, <2>3
<1>4. ASSUME NEW n \in 1 .. k, n - 1 \in Good PROVE n \in Good
    <2>0. n \in 0 .. k /\ n # 0
        BY <1>0
    <2>1. f[n] = IF Expired(s[n]) THEN f[n - 1] ELSE Append(f[n - 1], s[n])
        BY <2>0, <1>2
    <2>2. Sifted(s, n - 1, f[n - 1]) /\ n \in 1 .. Len(s)
        BY <1>4
    <2> QED BY <2>1, <2>2, Sift_One
<1>5. k \in Good
    <2> HIDE DEF Good
    <2> QED BY <1>3, <1>4, <1>0, Up_To
<1> QED BY <1>2, <1>5

(* The scan stops at the record of the address, when there is one.          *)
LEMMA Index_Right ==
    ASSUME NEW a, NEW s \in Seq(Record)
    PROVE  /\ IndexOf(a, s) = 0 => \A j \in 1 .. Len(s) : s[j].ip # a
           /\ IndexOf(a, s) # 0 => IndexOf(a, s) \in 1 .. Len(s) /\ s[IndexOf(a, s)].ip = a
<1> DEFINE W == {i \in 1 .. Len(s) : s[i].ip = a}
<1>0. Len(s) \in Nat
    OBVIOUS
<1>1. IndexOf(a, s) = IF W # {} THEN Min(W) ELSE 0
    BY DEF IndexOf, SelectInSeq
<1>2. W # {} => Min(W) \in W
    <2> SUFFICES ASSUME W # {} PROVE Min(W) \in W
        OBVIOUS
    <2>1. W \in SUBSET Nat
        BY <1>0
    <2>2. \E x \in W : \A y \in W : x <= y
        <3> HIDE DEF W
        <3> QED BY <2>1, Least_Number
    <2>3. Min(W) = CHOOSE x \in W : \A y \in W : x <= y
        BY DEF Min
    <2> HIDE DEF W
    <2> QED BY <2>2, <2>3
<1>3. W # {} => Min(W) # 0
    BY <1>2, <1>0
<1>4. \A j \in W : j \in 1 .. Len(s) /\ s[j].ip = a
    OBVIOUS
<1>5. W = {} => \A j \in 1 .. Len(s) : s[j].ip # a
    OBVIOUS
<1> HIDE DEF W
<1> QED BY <1>1, <1>2, <1>3, <1>4, <1>5

-----------------------------------------------------------------------------
(* The records of every bucket are of its addresses, one for each.          *)
Bucketed ==
    /\ second \in Nat
    /\ throttles \in [Buckets -> Seq(Record)]
    /\ \A b \in Buckets : One(throttles[b]) /\ \A r \in Records(throttles[b]) : ByXor[r.ip] = b

(* A scan of the records s of a bucket for a gives w: no other record of a  *)
(* nor one that counts still is dropped.                                    *)
Scan(a, s, w) ==
    /\ w \in Seq(Record) /\ One(w)
    /\ Records(w) \subseteq Records(s)
    /\ \A r \in Records(s) : r.ip = a \/ ~Expired(r) => r \in Records(w)

(* After the scan the address has its record still, and the others have     *)
(* theirs unless they expired.                                              *)
LEMMA Scanned_Right ==
    ASSUME Bucketed, NEW a \in Ip
    PROVE  Scan(a, throttles[ByXor[a]], Scanned(a))
<1> DEFINE s == throttles[ByXor[a]]
           i == IndexOf(a, s)
           k == IF i = 0 THEN Len(s) ELSE i - 1
           u == Unexpired(s, k)
           v == SubSeq(s, k + 1, Len(s))
           w == u \o v
<1>1. s \in Seq(Record) /\ One(s) /\ Len(s) \in Nat
    <2>1. ByXor[a] \in Buckets
        BY DEF Buckets
    <2> QED BY <2>1 DEF Bucketed
<1>2. Scanned(a) = w
    BY DEF Scanned
<1> HIDE DEF s
<1>3. i # 0 => i \in 1 .. Len(s) /\ s[i].ip = a
    BY <1>1, Index_Right
<1>4. i = 0 => \A j \in 1 .. Len(s) : s[j].ip # a
    BY <1>1, Index_Right
<1> HIDE DEF i
<1>5. k \in 0 .. Len(s) /\ k \in Nat
    BY <1>1, <1>3
<1>6. \A j \in 1 .. Len(s) : s[j].ip = a => j > k
    <2> SUFFICES ASSUME NEW j \in 1 .. Len(s), s[j].ip = a PROVE j > k
        OBVIOUS
    <2>1. i # 0 /\ j = i
        BY <1>1, <1>3, <1>4 DEF One
    <2> QED BY <2>1, <1>3
<1> HIDE DEF k
<1>7. Sifted(s, k, u)
    BY <1>1, <1>5, Unexpired_Right
<1>8. /\ v \in Seq(Record) /\ Len(v) = Len(s) - k
      /\ \A j \in 1 .. Len(v) : v[j] = s[k + j] /\ k + j \in 1 .. Len(s)
    BY <1>1, <1>5
<1>9. u \in Seq(Record) /\ Len(u) \in Nat
    BY <1>7 DEF Sifted
<1> HIDE DEF u, v
<1>10. /\ w \in Seq(Record) /\ Len(w) = Len(u) + Len(v) /\ Len(v) \in Nat
       /\ \A j \in 1 .. Len(u) : w[j] = u[j]
       /\ \A j \in 1 .. Len(v) : w[Len(u) + j] = v[j]
    BY <1>8, <1>9
<1> HIDE DEF w
<1>11. \A j \in 1 .. Len(w) : j \in 1 .. Len(u) \/ \E x \in 1 .. Len(v) : j = Len(u) + x
    <2> SUFFICES ASSUME NEW j \in 1 .. Len(w), j \notin 1 .. Len(u)
                 PROVE  \E x \in 1 .. Len(v) : j = Len(u) + x
        OBVIOUS
    <2>1. j - Len(u) \in 1 .. Len(v) /\ j = Len(u) + (j - Len(u))
        BY <1>9, <1>10
    <2> QED BY <2>1
<1>12. \A j \in 1 .. Len(u) : \E x \in 1 .. k : w[j] = s[x]
    BY <1>7, <1>10 DEF Sifted
<1>13. Records(w) \subseteq Records(s)
    <2> SUFFICES ASSUME NEW j \in 1 .. Len(w) PROVE w[j] \in Records(s)
        BY DEF Records
    <2>1. CASE j \in 1 .. Len(u)
        <3>1. PICK x \in 1 .. k : w[j] = s[x]
            BY <2>1, <1>12
        <3> QED BY <3>1, <1>1, <1>5 DEF Records
    <2>2. ASSUME NEW x \in 1 .. Len(v), j = Len(u) + x PROVE w[j] \in Records(s)
        BY <2>2, <1>8, <1>10 DEF Records
    <2> QED BY <2>1, <2>2, <1>11
<1>14. \A r \in Records(s) : r.ip = a \/ ~Expired(r) => r \in Records(w)
    <2> SUFFICES ASSUME NEW x \in 1 .. Len(s), s[x].ip = a \/ ~Expired(s[x])
                 PROVE  s[x] \in Records(w)
        BY DEF Records
    <2>1. CASE x > k
        <3>1. x - k \in 1 .. Len(v) /\ k + (x - k) = x
            BY <2>1, <1>1, <1>5, <1>8
        <3>2. v[x - k] = s[x]
            BY <3>1, <1>8
        <3>3. w[Len(u) + (x - k)] = s[x] /\ Len(u) + (x - k) \in 1 .. Len(w)
            BY <3>1, <3>2, <1>9, <1>10
        <3> QED BY <3>3 DEF Records
    <2>2. CASE x \in 1 .. k
        <3>1. ~Expired(s[x])
            BY <2>2, <1>5, <1>6
        <3>2. PICK j \in 1 .. Len(u) : s[x] = u[j]
            BY <2>2, <3>1, <1>7 DEF Sifted, Records
        <3> QED BY <3>2, <1>9, <1>10 DEF Records
    <2> QED BY <2>1, <2>2, <1>5
<1>15. One(w)
    <2> SUFFICES ASSUME NEW j \in 1 .. Len(w), NEW l \in 1 .. Len(w), w[j].ip = w[l].ip
                 PROVE  j = l
        BY DEF One
    <2>1. CASE j \in 1 .. Len(u) /\ l \in 1 .. Len(u)
        BY <2>1, <1>7, <1>10 DEF Sifted, One
    <2>2. ASSUME NEW m \in 1 .. Len(u), NEW x \in 1 .. Len(v), w[m].ip = w[Len(u) + x].ip
          PROVE  FALSE
        <3>1. PICK y \in 1 .. k : w[m] = s[y]
            BY <1>12
        <3>2. w[Len(u) + x] = s[k + x] /\ k + x \in 1 .. Len(s)
            BY <1>8, <1>10
        <3>4. y \in 1 .. Len(s)
            BY <1>5, <1>1
        <3>3. k + x = y
            BY <2>2, <3>1, <3>2, <3>4, <1>1 DEF One
        <3> QED BY <3>3, <1>5
    <2>3. ASSUME NEW x \in 1 .. Len(v), NEW y \in 1 .. Len(v),
                 w[Len(u) + x].ip = w[Len(u) + y].ip
          PROVE  Len(u) + x = Len(u) + y
        <3>2. s[k + x].ip = s[k + y].ip /\ k + x \in 1 .. Len(s) /\ k + y \in 1 .. Len(s)
            <4>1. w[Len(u) + x] = s[k + x] /\ w[Len(u) + y] = s[k + y]
                BY <1>8, <1>10
            <4> QED BY <2>3, <4>1, <1>8
        <3>1. k + x = k + y
            BY <3>2, <1>1 DEF One
        <3> QED BY <3>1, <1>5
    <2> QED BY <2>1, <2>2, <2>3, <1>11
<1>16. Scan(a, s, w)
    BY <1>10, <1>13, <1>14, <1>15 DEF Scan
<1> QED BY <1>2, <1>16 DEF s

(* The record at place i is written, for the same address.                  *)
LEMMA Written ==
    ASSUME NEW s \in Seq(Record), One(s), NEW i \in 1 .. Len(s),
           NEW r \in Record, r.ip = s[i].ip, NEW z, z = [s EXCEPT ![i] = r]
    PROVE  /\ z \in Seq(Record) /\ One(z) /\ r \in Records(z)
           /\ \A x \in Records(s) : x.ip # r.ip => x \in Records(z)
           /\ \A x \in Records(z) : x = r \/ (x.ip # r.ip /\ x \in Records(s))
<1>1. /\ z \in Seq(Record) /\ Len(z) = Len(s) /\ z[i] = r
      /\ \A j \in 1 .. Len(s) : j # i => z[j] = s[j]
    OBVIOUS
<1>2. \A j \in 1 .. Len(s) : z[j].ip = s[j].ip
    BY <1>1
<1>3. One(z)
    BY <1>1, <1>2 DEF One
<1>4. \A x \in Records(s) : x.ip # r.ip => x \in Records(z)
    BY <1>1 DEF Records
<1>5. ASSUME NEW j \in 1 .. Len(z), j # i PROVE z[j].ip # r.ip /\ z[j] \in Records(s)
    BY <1>1, <1>5 DEF Records, One
<1> QED BY <1>1, <1>3, <1>4, <1>5 DEF Records

(* Counts are counts, and the limits are as configured.                     *)
LEMMA CountTypes ==
    /\ 1 \in Count /\ \A n \in Count : More(n) \in Count /\ n \in Int
    /\ CheckClonesLimit \in Nat \ {0, 1} /\ CheckClonesPeriod \in Nat
    /\ CheckClonesDelay \in Nat /\ CheckClonesDelay > CheckClonesPeriod
BY ThrottleAssumption DEF Count, More, HITLIMIT, SENTWARN

(* check_clones leaves one record of a, written now; of the others it drops *)
(* only what has expired.                                                   *)
New_record(a, s, r) ==
    \/ /\ \A x \in Records(s) : x.ip # a
       /\ r.count = 1 /\ ~Refuses(a)
    \/ \E x \in Records(s) :
          /\ x.ip = a /\ r.count = IF Expired(x) THEN 1 ELSE More(x.count)
          /\ Refuses(a) <=> ~Expired(x) /\ x.count = HITLIMIT

(* After check_clones the address has one record, of this second; the       *)
(* others' are as the scan left them.                                       *)
LEMMA Recorded_Right ==
    ASSUME Bucketed, NEW a \in Ip, NEW s, s = throttles[ByXor[a]]
    PROVE  LET z == Recorded(a)
           IN  /\ z \in Seq(Record) /\ One(z)
               /\ \A x \in Records(s) : x.ip # a /\ ~Expired(x) => x \in Records(z)
               /\ \E r \in Records(z) :
                     /\ r.ip = a /\ r.last = second /\ New_record(a, s, r)
                     /\ \A x \in Records(z) : x = r \/ (x.ip # a /\ x \in Records(s))
<1> DEFINE w == Scanned(a)
           i == IndexOf(a, w)
           z == Recorded(a)
<1>1. Scan(a, s, w) /\ second \in Nat /\ s \in Seq(Record) /\ One(s)
    <2>1. ByXor[a] \in Buckets
        BY DEF Buckets
    <2> QED BY <2>1, Scanned_Right DEF Bucketed
<1>2. z = IF i = 0 THEN <<[ip |-> a, count |-> 1, last |-> second]>> \o w
          ELSE [w EXCEPT ![i].count = IF Expired(w[i]) THEN 1 ELSE More(@), ![i].last = second]
    BY DEF Recorded
<1>3. Refuses(a) <=> /\ IndexOf(a, s) # 0 /\ ~Expired(s[IndexOf(a, s)])
                     /\ s[IndexOf(a, s)].count = HITLIMIT
    BY DEF Refuses
<1>4. /\ i = 0 => \A j \in 1 .. Len(w) : w[j].ip # a
      /\ i # 0 => i \in 1 .. Len(w) /\ w[i].ip = a
      /\ IndexOf(a, s) = 0 => \A j \in 1 .. Len(s) : s[j].ip # a
      /\ IndexOf(a, s) # 0 => IndexOf(a, s) \in 1 .. Len(s) /\ s[IndexOf(a, s)].ip = a
    BY <1>1, Index_Right DEF Scan
<1> HIDE DEF w, i, z
<1>5. CASE i = 0
    <2> DEFINE r == [ip |-> a, count |-> 1, last |-> second]
    <2>1. r \in Record
        BY <1>1, CountTypes DEF Record
    <2>2. /\ z \in Seq(Record) /\ Len(z) = Len(w) + 1 /\ Len(w) \in Nat /\ z[1] = r
          /\ \A j \in 1 .. Len(w) : z[j + 1] = w[j]
        BY <1>1, <1>2, <1>5, <2>1 DEF Scan
    <2>3. \A j \in 1 .. Len(z) : j = 1 \/ (j - 1 \in 1 .. Len(w) /\ z[j] = w[j - 1])
        BY <2>2
    <2>4. \A x \in Records(s) : x.ip # a
        BY <1>1, <1>4, <1>5 DEF Scan, Records
    <2>5. ~Refuses(a)
        BY <1>3, <1>4, <2>4 DEF Records
    <2>6. One(z)
        BY <1>1, <1>4, <1>5, <2>2, <2>3 DEF Scan, One
    <2>7. \A x \in Records(w) : x \in Records(z)
        BY <2>2 DEF Records
    <2>8. \A x \in Records(z) : x = r \/ (x.ip # a /\ x \in Records(s))
        <3> SUFFICES ASSUME NEW j \in 1 .. Len(z)
                     PROVE  z[j] = r \/ (z[j].ip # a /\ z[j] \in Records(s))
            BY DEF Records
        <3>1. CASE j = 1
            BY <2>2, <3>1
        <3>2. CASE j - 1 \in 1 .. Len(w) /\ z[j] = w[j - 1]
            <4>1. z[j] \in Records(w)
                BY <3>2 DEF Records
            <4>2. z[j] \in Records(s)
                BY <4>1, <1>1 DEF Scan
            <4> QED BY <4>2, <2>4
        <3> QED BY <3>1, <3>2, <2>3
    <2>9. r \in Records(z) /\ r.ip = a /\ r.last = second /\ r.count = 1
        BY <2>2 DEF Records
    <2> HIDE DEF r
    <2>10. New_record(a, s, r)
        BY <2>4, <2>5, <2>9 DEF New_record
    <2>11. \A x \in Records(s) : x.ip # a /\ ~Expired(x) => x \in Records(z)
        BY <1>1, <2>7 DEF Scan
    <2> QED BY <2>2, <2>6, <2>8, <2>9, <2>10, <2>11 DEF z
<1>6. CASE i # 0
    <2> DEFINE x == w[i]
               c == IF Expired(x) THEN 1 ELSE More(x.count)
               r == [x EXCEPT !.count = c, !.last = second]
    <2>1. w \in Seq(Record) /\ i \in 1 .. Len(w) /\ x \in Record /\ x.ip = a /\ x \in Records(w)
        BY <1>1, <1>4, <1>6 DEF Scan, Records
    <2>2. c \in Count
        BY <2>1, CountTypes DEF Record
    <2>3. z = [w EXCEPT ![i] = r]
        BY <1>2, <1>6, <2>1 DEF Record
    <2> HIDE DEF c
    <2>4. r \in Record /\ r.ip = x.ip /\ r.last = second /\ r.count = c
        BY <2>1, <2>2, <1>1 DEF Record
    <2>5. x \in Records(s)
        BY <1>1, <2>1 DEF Scan
    <2> HIDE DEF r
    <2>6. /\ z \in Seq(Record) /\ One(z) /\ r \in Records(z)
          /\ \A y \in Records(w) : y.ip # r.ip => y \in Records(z)
          /\ \A y \in Records(z) : y = r \/ (y.ip # r.ip /\ y \in Records(w))
        <3>1. One(w) /\ r.ip = w[i].ip
            BY <1>1, <2>4 DEF Scan
        <3> HIDE DEF x
        <3> QED BY <2>1, <2>3, <2>4, <3>1, Written
    <2>7. x = s[IndexOf(a, s)] /\ IndexOf(a, s) # 0
        <3>1. PICK j \in 1 .. Len(s) : x = s[j]
            BY <2>5 DEF Records
        <3>2. IndexOf(a, s) # 0
            BY <1>4, <2>1, <3>1
        <3> QED BY <1>1, <1>4, <2>1, <3>1, <3>2 DEF One
    <2>8. New_record(a, s, r)
        <3>1. Refuses(a) <=> ~Expired(x) /\ x.count = HITLIMIT
            BY <1>3, <2>7
        <3> QED BY <3>1, <2>1, <2>4, <2>5 DEF New_record, c
    <2>9. \A y \in Records(s) : y.ip # a /\ ~Expired(y) => y \in Records(z)
        BY <1>1, <2>1, <2>4, <2>6 DEF Scan
    <2>10. \A y \in Records(z) : y = r \/ (y.ip # a /\ y \in Records(s))
        BY <1>1, <2>1, <2>4, <2>6 DEF Scan
    <2> QED BY <2>1, <2>4, <2>6, <2>8, <2>9, <2>10 DEF z
<1> QED BY <1>5, <1>6

-----------------------------------------------------------------------------
(* One who came in at the i-th time has a client of its address taken off   *)
(* again later; those from then on came one after the other.                *)
Loose(a, i) == \E t \in back[a] : let[a][i] <= t
InARow(a, i) == \A j \in i .. Len(let[a]) - 1 : let[a][j + 1] - let[a][j] <= CheckClonesPeriod

(* How many a record says came in a row.                                    *)
So_many(n) == IF n > 0 THEN n ELSE CheckClonesLimit

Warned(a) ==
    \A r \in Records(throttles[ByXor[a]]) :
        r.ip = a /\ r.count = SENTWARN => zlined[a] >= r.last + CheckClonesDelay
Rationed(a) ==
    \A i \in 1 .. Len(let[a]) :
        \/ Loose(a, i) \/ ~InARow(a, i)
        \/ let[a][Len(let[a])] + CheckClonesPeriod < second
        \/ \E r \in Records(throttles[ByXor[a]]) :
              /\ r.ip = a /\ let[a][Len(let[a])] <= r.last
              /\ Len(let[a]) - i + 1 <= So_many(r.count)
Windowed(a) ==
    \A i \in 1 .. Len(let[a]) - CheckClonesLimit :
        \/ \E j \in i .. i + CheckClonesLimit - 1 : let[a][j + 1] - let[a][j] > CheckClonesPeriod
        \/ Loose(a, i)
Past_times(a) == \A i \in 1 .. Len(let[a]) : let[a][i] <= second
Held_back(a) == Warned(a) /\ Rationed(a) /\ Windowed(a) /\ Past_times(a)

HTypes == /\ zlined \in [Ip -> Nat] /\ let \in [Ip -> Seq(Nat)] /\ back \in [Ip -> SUBSET Nat]
HeldInv == Bucketed /\ HTypes /\ \A a \in Ip : Held_back(a)

(* A step after which an address c has come as often, and whose record      *)
(* stays unless it has expired.                                             *)
LEMMA Bystander ==
    ASSUME HeldInv, NEW c \in Ip, let'[c] = let[c], back[c] \subseteq back'[c], zlined'[c] = zlined[c],
           second' \in Nat, second <= second', throttles' \in [Buckets -> Seq(Record)],
           \A x \in Records(throttles[ByXor[c]]) :
              x.ip = c => x \in Records(throttles'[ByXor[c]]) \/ Expired(x),
           \A x \in Records(throttles'[ByXor[c]]) :
              x.ip = c /\ x.count = SENTWARN => x \in Records(throttles[ByXor[c]])
    PROVE  Held_back(c)'
<1>1. /\ second \in Nat /\ let[c] \in Seq(Nat) /\ Len(let[c]) \in Nat
      /\ ByXor[c] \in Buckets /\ throttles[ByXor[c]] \in Seq(Record)
      /\ CheckClonesPeriod \in Nat
    BY CountTypes DEF HeldInv, Bucketed, HTypes, Buckets
<1>2. \A i : Loose(c, i) => Loose(c, i)'
    BY DEF Loose
<1>3. \A i : InARow(c, i)' => InARow(c, i)
    BY DEF InARow
<1>4. Warned(c)'
    BY DEF HeldInv, Held_back, Warned
<1>5. Windowed(c)'
    BY <1>2 DEF HeldInv, Held_back, Windowed
<1>6. Past_times(c)'
    BY <1>1 DEF HeldInv, Held_back, Past_times
<1>7. Rationed(c)'
    <2> DEFINE n == Len(let[c])
               late == let[c][n]
    <2> SUFFICES ASSUME NEW i \in 1 .. n, ~Loose(c, i)', InARow(c, i)',
                        ~(late + CheckClonesPeriod < second')
                 PROVE  \E r \in Records(throttles'[ByXor[c]]) :
                           r.ip = c /\ late <= r.last /\ n - i + 1 <= So_many(r.count)
        BY DEF Rationed
    <2>1. late \in Nat /\ ~(late + CheckClonesPeriod < second)
        BY <1>1
    <2>5. Rationed(c) /\ ~Loose(c, i) /\ InARow(c, i)
        BY <1>2, <1>3 DEF HeldInv, Held_back
    <2>2. PICK r \in Records(throttles[ByXor[c]]) :
             r.ip = c /\ late <= r.last /\ n - i + 1 <= So_many(r.count)
        BY <2>1, <2>5 DEF Rationed
    <2>3. r.last \in Nat
        <3>1. r \in Record
            BY ONLY <1>1, <2>2 DEF Records
        <3> QED BY ONLY <3>1 DEF Record
    <2>4. ~Expired(r)
        <3>1. second \in Nat /\ CheckClonesPeriod \in Nat /\ late <= r.last
            BY <1>1, <2>2
        <3> HIDE DEF late
        <3> QED BY ONLY <3>1, <2>1, <2>3 DEF Expired
    <2> QED BY <2>2, <2>4
<1> QED BY <1>4, <1>5, <1>6, <1>7 DEF Held_back

(* A second later records may have expired.                                 *)
LEMMA Time_Passes == ASSUME HeldInv, Goes_on PROVE HeldInv'
<1>1. second' = second + 1 /\ second \in Nat /\ UNCHANGED <<throttles, zlined, let, back>>
    BY DEF Goes_on, HeldInv, Bucketed
<1>2. second' \in Nat /\ second <= second'
    BY <1>1
<1>3. Bucketed'
    BY <1>1, <1>2 DEF HeldInv, Bucketed
<1>4. HTypes'
    BY <1>1 DEF HeldInv, HTypes
<1>5. \A c \in Ip : Held_back(c)'
    BY <1>1, <1>2, <1>3, Bystander DEF Bucketed
<1> QED BY <1>3, <1>4, <1>5 DEF HeldInv

(* remove_clone_check writes a record of a, if any, and whoever came from a *)
(* came before.                                                             *)
LEMMA Taken_off_Right ==
    ASSUME Bucketed, NEW a \in Ip, NEW s, s = throttles[BySum[a]]
    PROVE  LET z == Taken_off(a)
           IN  /\ z \in Seq(Record) /\ One(z)
               /\ \A x \in Records(s) : x.ip # a => x \in Records(z)
               /\ \A x \in Records(z) : x.ip # a \/ x.count = SENTWARN => x \in Records(s)
               /\ \A x \in Records(z) : \E y \in Records(s) : y.ip = x.ip
<1> DEFINE i == IndexOf(a, s)
           z == Taken_off(a)
<1>1. s \in Seq(Record) /\ One(s)
    <2>1. BySum[a] \in Buckets
        BY DEF Buckets
    <2> QED BY <2>1 DEF Bucketed
<1>2. z = IF i = 0 THEN s ELSE [s EXCEPT ![i].count = IF @ > 1 THEN @ - 1 ELSE @]
    BY DEF Taken_off
<1>3. i # 0 => i \in 1 .. Len(s) /\ s[i].ip = a
    BY <1>1, Index_Right
<1> HIDE DEF i, z
<1>4. CASE i = 0
    BY <1>1, <1>2, <1>4 DEF z
<1>5. CASE i # 0
    <2> DEFINE x == s[i]
               c == IF x.count > 1 THEN x.count - 1 ELSE x.count
               r == [x EXCEPT !.count = c]
    <2>1. x \in Record /\ x.ip = a /\ x \in Records(s) /\ i \in 1 .. Len(s)
        BY <1>1, <1>3, <1>5 DEF Records
    <2>2. c \in Count /\ (c = SENTWARN => c = x.count)
        <3>1. x.count \in Count
            BY <2>1 DEF Record
        <3> HIDE DEF x
        <3> QED BY <3>1, CountTypes DEF Count, HITLIMIT, SENTWARN
    <2>3. z = [s EXCEPT ![i] = r]
        BY <1>2, <1>5, <2>1 DEF Record
    <2> HIDE DEF c
    <2>4. r \in Record /\ r.ip = s[i].ip /\ r.count = c /\ (r.count = x.count => r = x)
        BY <2>1, <2>2 DEF Record
    <2> HIDE DEF x, r
    <2>5. /\ z \in Seq(Record) /\ One(z) /\ r \in Records(z)
          /\ \A y \in Records(s) : y.ip # r.ip => y \in Records(z)
          /\ \A y \in Records(z) : y = r \/ (y.ip # r.ip /\ y \in Records(s))
        BY <1>1, <2>1, <2>3, <2>4, Written
    <2>6. r.ip = a
        BY <2>1, <2>4 DEF x
    <2>7. r.count = SENTWARN => r \in Records(s)
        BY <2>1, <2>2, <2>4
    <2> QED BY <2>1, <2>5, <2>6, <2>7 DEF z
<1> QED BY <1>4, <1>5

(* remove_clone_check loses a count, and takes one off again.               *)
LEMMA Off_Again == ASSUME HeldInv, NEW a \in Ip, remove_clone_check(a) PROVE HeldInv'
<1> DEFINE b == BySum[a]
           z == Taken_off(a)
<1>1. /\ throttles' = [throttles EXCEPT ![b] = z] /\ back' = [back EXCEPT ![a] = @ \cup {second}]
      /\ UNCHANGED <<zlined, second, let>>
    BY DEF remove_clone_check
<1>2. Bucketed /\ HTypes /\ second \in Nat /\ b \in Buckets
    BY DEF HeldInv, Bucketed, Buckets
<1>3. /\ z \in Seq(Record) /\ One(z)
      /\ \A x \in Records(throttles[b]) : x.ip # a => x \in Records(z)
      /\ \A x \in Records(z) : x.ip # a \/ x.count = SENTWARN => x \in Records(throttles[b])
      /\ \A x \in Records(z) : \E y \in Records(throttles[b]) : y.ip = x.ip
    BY <1>2, Taken_off_Right
<1> HIDE DEF b, z
<1>4. /\ throttles' \in [Buckets -> Seq(Record)]
      /\ \A d \in Buckets : throttles'[d] = IF d = b THEN z ELSE throttles[d]
    BY <1>1, <1>2, <1>3 DEF Bucketed
<1>5. Bucketed'
    <2>1. \A d \in Buckets : One(throttles'[d]) /\ \A r \in Records(throttles'[d]) : ByXor[r.ip] = d
        <3> SUFFICES ASSUME NEW d \in Buckets
                     PROVE  One(throttles'[d]) /\ \A r \in Records(throttles'[d]) : ByXor[r.ip] = d
            OBVIOUS
        <3>1. One(throttles[d]) /\ \A r \in Records(throttles[d]) : ByXor[r.ip] = d
            BY <1>2 DEF Bucketed
        <3>2. CASE d = b
            BY <1>3, <1>4, <3>1, <3>2
        <3>3. CASE d # b
            BY <1>4, <3>1, <3>3
        <3> QED BY <3>2, <3>3
    <2> QED BY <1>1, <1>2, <1>4, <2>1 DEF Bucketed
<1>6. /\ HTypes'
      /\ \A c \in Ip : back'[c] = IF c = a THEN back[c] \cup {second} ELSE back[c]
    BY <1>1, <1>2 DEF HTypes
<1>7. ASSUME NEW c \in Ip, c # a PROVE Held_back(c)'
    <2>1. ByXor[c] \in Buckets
        BY DEF Buckets
    <2>2. \A x \in Records(throttles[ByXor[c]]) : x.ip = c => x \in Records(throttles'[ByXor[c]])
        BY <1>3, <1>4, <1>7, <2>1
    <2>3. \A x \in Records(throttles'[ByXor[c]]) :
             x.ip = c /\ x.count = SENTWARN => x \in Records(throttles[ByXor[c]])
        BY <1>3, <1>4, <1>7, <2>1
    <2> QED BY <1>1, <1>2, <1>4, <1>6, <1>7, <2>2, <2>3, Bystander
<1>8. Held_back(a)'
    <2>1. ByXor[a] \in Buckets
        BY DEF Buckets
    <2>2. Past_times(a)'
        BY <1>1 DEF HeldInv, Held_back, Past_times
    <2>3. \A i \in 1 .. Len(let[a]) : Loose(a, i)'
        <3>1. \A i \in 1 .. Len(let[a]) : let[a][i] <= second
            BY DEF HeldInv, Held_back, Past_times
        <3>2. second \in back'[a] /\ let' = let
            BY <1>1, <1>6
        <3> QED BY <3>1, <3>2 DEF Loose
    <2>4. Rationed(a)'
        BY <1>1, <2>3 DEF Rationed
    <2>5. Windowed(a)'
        <3> SUFFICES ASSUME NEW i \in 1 .. Len(let[a]) - CheckClonesLimit PROVE Loose(a, i)'
            BY <1>1 DEF Windowed
        <3>1. i \in 1 .. Len(let[a])
            <4>1. Len(let[a]) \in Nat /\ CheckClonesLimit \in Nat
                BY <1>2, CountTypes DEF HTypes
            <4> QED BY <4>1
        <3> QED BY <3>1, <2>3
    <2>6. Warned(a)'
        <3>1. \A x \in Records(throttles'[ByXor[a]]) :
                 x.count = SENTWARN => x \in Records(throttles[ByXor[a]])
            BY <1>3, <1>4, <2>1
        <3> QED BY <1>1, <3>1 DEF HeldInv, Held_back, Warned
    <2> QED BY <2>2, <2>4, <2>5, <2>6 DEF Held_back
<1> QED BY <1>5, <1>6, <1>7, <1>8 DEF HeldInv

-----------------------------------------------------------------------------
(* What check_clones says of one that comes, and what Rationed says of      *)
(* those that came in before: whoever is let in is not one too many.        *)
LEMMA Visited ==
    ASSUME HeldInv, NEW a \in Ip, ~Zlined(a), NEW s, s = throttles[ByXor[a]],
           NEW r \in Record, r.last = second, New_record(a, s, r)
    PROVE  /\ r.count = SENTWARN => Refuses(a)
           /\ \A x \in Records(s) : x.ip = a /\ ~Expired(x) =>
                 /\ So_many(x.count) <= CheckClonesLimit
                 /\ So_many(x.count) <= So_many(r.count)
                 /\ ~Refuses(a) => So_many(x.count) + 1 <= So_many(r.count)
           /\ So_many(r.count) \in 1 .. CheckClonesLimit
<1>1. /\ ByXor[a] \in Buckets /\ s \in Seq(Record) /\ One(s) /\ second \in Nat
      /\ zlined[a] \in Nat /\ zlined[a] < second
    <2>1. ByXor[a] \in Buckets
        BY DEF Buckets
    <2>2. second \in Nat /\ s \in Seq(Record) /\ One(s)
        BY <2>1 DEF HeldInv, Bucketed
    <2>3. zlined[a] \in Nat /\ ~(zlined[a] >= second)
        BY DEF HeldInv, HTypes, Zlined
    <2> QED BY <2>1, <2>2, <2>3
<1>2. \A n \in Count : So_many(n) \in 1 .. CheckClonesLimit
    BY CountTypes DEF Count, So_many, HITLIMIT, SENTWARN
<1>3. \A x \in Records(s) : x \in Record
    BY <1>1 DEF Records
<1>4. r.count \in Count
    BY DEF Record
<1>5. ASSUME NEW x \in Records(s), x.ip = a, ~Expired(x) PROVE x.count # SENTWARN
    <2>1. x.last \in Nat /\ second <= x.last + CheckClonesPeriod
        BY <1>1, <1>3, <1>5, CountTypes DEF Record, Expired
    <2>2. x.count = SENTWARN => zlined[a] >= x.last + CheckClonesDelay
        BY <1>5 DEF HeldInv, Held_back, Warned
    <2> QED BY <1>1, <2>1, <2>2, CountTypes
<1>6. CASE /\ \A x \in Records(s) : x.ip # a
           /\ r.count = 1 /\ ~Refuses(a)
    BY <1>2, <1>4, <1>6 DEF SENTWARN
<1>7. ASSUME NEW x \in Records(s), x.ip = a,
             r.count = IF Expired(x) THEN 1 ELSE More(x.count),
             Refuses(a) <=> ~Expired(x) /\ x.count = HITLIMIT
      PROVE  /\ r.count = SENTWARN => Refuses(a)
             /\ ~Expired(x) =>
                   /\ So_many(x.count) <= CheckClonesLimit
                   /\ So_many(x.count) <= So_many(r.count)
                   /\ ~Refuses(a) => So_many(x.count) + 1 <= So_many(r.count)
    <2>1. CASE Expired(x)
        BY <1>7, <2>1 DEF SENTWARN
    <2>2. CASE ~Expired(x)
        <3>1. x.count \in Count \ {SENTWARN} /\ r.count = More(x.count)
            BY <1>3, <1>5, <1>7, <2>2 DEF Record
        <3>2. CASE x.count = HITLIMIT
            BY <1>7, <2>2, <3>1, <3>2, CountTypes DEF More, So_many, HITLIMIT, SENTWARN
        <3>3. CASE x.count \in 1 .. CheckClonesLimit - 1
            BY <1>7, <2>2, <3>1, <3>3, CountTypes DEF More, So_many, HITLIMIT, SENTWARN
        <3> QED BY <3>1, <3>2, <3>3 DEF Count
    <2> QED BY <2>1, <2>2
<1>8. \A x, y \in Records(s) : x.ip = y.ip => x = y
    BY <1>1 DEF Records, One
<1> QED BY <1>2, <1>4, <1>6, <1>7, <1>8 DEF New_record

(* Whoever comes in is counted with those before, and is not one too many.  *)
LEMMA Visit_Held == ASSUME HeldInv, NEW a \in Ip, Visit(a) PROVE HeldInv'
<1> DEFINE b == ByXor[a]
           s == throttles[b]
           z == Recorded(a)
           L == let[a]
           n == Len(L)
<1>1. /\ ~Zlined(a) /\ throttles' = [throttles EXCEPT ![b] = z]
      /\ UNCHANGED <<second, back>>
      /\ IF Refuses(a) THEN /\ zlined' = [zlined EXCEPT ![a] = second + CheckClonesDelay]
                            /\ let' = let
         ELSE let' = [let EXCEPT ![a] = Append(@, second)] /\ zlined' = zlined
    BY DEF Visit
<1>2. /\ Bucketed /\ HTypes /\ second \in Nat /\ b \in Buckets
      /\ s \in Seq(Record) /\ One(s) /\ \A x \in Records(s) : ByXor[x.ip] = b
    BY DEF HeldInv, Bucketed, Buckets
<1>3. /\ z \in Seq(Record) /\ One(z)
      /\ \A x \in Records(s) : x.ip # a /\ ~Expired(x) => x \in Records(z)
    BY <1>2, Recorded_Right
<1>4. PICK r \in Records(z) :
         /\ r.ip = a /\ r.last = second /\ New_record(a, s, r)
         /\ \A x \in Records(z) : x = r \/ (x.ip # a /\ x \in Records(s))
    BY <1>2, Recorded_Right
<1> HIDE DEF z
<1>5. r \in Record
    BY <1>3, <1>4 DEF Records
<1>6. /\ r.count = SENTWARN => Refuses(a)
      /\ \A x \in Records(s) : x.ip = a /\ ~Expired(x) =>
            /\ So_many(x.count) <= CheckClonesLimit
            /\ So_many(x.count) <= So_many(r.count)
            /\ ~Refuses(a) => So_many(x.count) + 1 <= So_many(r.count)
      /\ So_many(r.count) \in 1 .. CheckClonesLimit
    BY <1>1, <1>4, <1>5, Visited
<1>7. /\ throttles' \in [Buckets -> Seq(Record)]
      /\ \A d \in Buckets : throttles'[d] = IF d = b THEN z ELSE throttles[d]
    BY <1>1, <1>2, <1>3 DEF Bucketed
<1>8. Bucketed'
    <2>1. \A d \in Buckets : One(throttles'[d]) /\ \A x \in Records(throttles'[d]) : ByXor[x.ip] = d
        <3> SUFFICES ASSUME NEW d \in Buckets
                     PROVE  One(throttles'[d]) /\ \A x \in Records(throttles'[d]) : ByXor[x.ip] = d
            OBVIOUS
        <3>1. CASE d = b
            BY <1>2, <1>3, <1>4, <1>7, <3>1
        <3>2. CASE d # b
            BY <1>2, <1>7, <3>2 DEF Bucketed
        <3> QED BY <3>1, <3>2
    <2> QED BY <1>1, <1>2, <1>7, <2>1 DEF Bucketed
<1>9. /\ L \in Seq(Nat) /\ n \in Nat /\ back[a] \subseteq Nat /\ Past_times(a)
      /\ CheckClonesLimit \in Nat \ {0, 1} /\ CheckClonesPeriod \in Nat /\ CheckClonesDelay \in Nat
    BY <1>2, CountTypes DEF HTypes, HeldInv, Held_back
<1> HIDE DEF L
<1>10. /\ HTypes'
       /\ \A c \in Ip : c # a => let'[c] = let[c] /\ zlined'[c] = zlined[c]
       /\ Refuses(a) => zlined'[a] = second + CheckClonesDelay /\ let'[a] = L
       /\ ~Refuses(a) => zlined'[a] = zlined[a] /\ let'[a] = Append(L, second)
    <2>0. L = let[a] /\ zlined \in [Ip -> Nat] /\ let \in [Ip -> Seq(Nat)]
        BY <1>2 DEF HTypes, L
    <2>1. ASSUME Refuses(a)
          PROVE  /\ HTypes' /\ zlined'[a] = second + CheckClonesDelay /\ let'[a] = L
                 /\ \A c \in Ip : c # a => let'[c] = let[c] /\ zlined'[c] = zlined[c]
        <3>1. second + CheckClonesDelay \in Nat
            BY <1>2, <1>9
        <3>2. zlined' = [zlined EXCEPT ![a] = second + CheckClonesDelay] /\ let' = let
            BY <1>1, <2>1
        <3>3. zlined' \in [Ip -> Nat]
            BY <2>0, <3>1, <3>2
        <3>4. HTypes'
            BY <1>1, <1>2, <3>2, <3>3 DEF HTypes
        <3> QED BY <2>0, <3>2, <3>4
    <2>2. ASSUME ~Refuses(a)
          PROVE  /\ HTypes' /\ zlined'[a] = zlined[a] /\ let'[a] = Append(L, second)
                 /\ \A c \in Ip : c # a => let'[c] = let[c] /\ zlined'[c] = zlined[c]
        <3>1. Append(L, second) \in Seq(Nat)
            BY <1>2, <1>9
        <3>2. let' = [let EXCEPT ![a] = Append(L, second)] /\ zlined' = zlined
            BY <1>1, <2>0, <2>2
        <3>3. let' \in [Ip -> Seq(Nat)]
            BY <2>0, <3>1, <3>2
        <3>4. HTypes'
            BY <1>1, <1>2, <3>2, <3>3 DEF HTypes
        <3> QED BY <2>0, <3>2, <3>4
    <2> QED BY <2>1, <2>2
<1>11. ASSUME NEW c \in Ip, c # a PROVE Held_back(c)'
    <2>1. ByXor[c] \in Buckets
        BY DEF Buckets
    <2>2. \A x \in Records(throttles[ByXor[c]]) :
             x.ip = c => x \in Records(throttles'[ByXor[c]]) \/ Expired(x)
        BY <1>3, <1>7, <1>11, <2>1
    <2>3. \A x \in Records(throttles'[ByXor[c]]) :
             x.ip = c /\ x.count = SENTWARN => x \in Records(throttles[ByXor[c]])
        BY <1>4, <1>7, <1>11, <2>1
    <2>4. let'[c] = let[c] /\ back[c] \subseteq back'[c] /\ zlined'[c] = zlined[c]
          /\ second' \in Nat /\ second <= second'
        BY <1>1, <1>2, <1>10, <1>11
    <2> QED BY <1>7, <2>2, <2>3, <2>4, Bystander
<1>12. throttles'[b] = z /\ second' = second /\ back' = back
    BY <1>1, <1>2, <1>7

(* Those that came in a row before are in the record of a.                  *)
<1>13. ASSUME NEW i \in 1 .. n, ~Loose(a, i), InARow(a, i),
              ~(L[n] + CheckClonesPeriod < second)
       PROVE  /\ n - i + 1 <= CheckClonesLimit /\ n - i + 1 <= So_many(r.count)
              /\ ~Refuses(a) => n - i + 2 <= So_many(r.count)
    <2>1. PICK x \in Records(s) : x.ip = a /\ L[n] <= x.last /\ n - i + 1 <= So_many(x.count)
        BY <1>13 DEF HeldInv, Held_back, Rationed, L
    <2>2. x \in Record /\ x.last \in Nat /\ x.count \in Count
        <3>1. x \in Record
            BY <1>2, <2>1 DEF Records
        <3> QED BY <3>1 DEF Record
    <2>3. L[n] \in Nat /\ i \in Nat
        BY <1>9
    <2>4. ~Expired(x)
        BY <1>2, <1>9, <1>13, <2>1, <2>2, <2>3 DEF Expired
    <2>5. So_many(x.count) \in Nat
        BY <2>2, <1>9 DEF So_many, Count, HITLIMIT, SENTWARN
    <2>6. So_many(x.count) <= CheckClonesLimit /\ So_many(x.count) <= So_many(r.count)
          /\ (~Refuses(a) => So_many(x.count) + 1 <= So_many(r.count))
        BY <1>6, <2>1, <2>4
    <2> QED BY <1>6, <1>9, <2>1, <2>3, <2>5, <2>6
<1>14. ASSUME Refuses(a) PROVE Held_back(a)'
    <2>0. let'[a] = L /\ zlined'[a] = second + CheckClonesDelay
        BY <1>10, <1>14
    <2>1. Warned(a)'
        <3>1. \A x \in Records(z) : x.ip = a => x = r
            BY <1>4
        <3> QED BY <1>2, <1>4, <1>9, <1>12, <2>0, <3>1 DEF Warned
    <2>2. Past_times(a)'
        BY <1>9, <1>12, <2>0 DEF Past_times, L
    <2>3. \A i : (Loose(a, i)' <=> Loose(a, i)) /\ (InARow(a, i)' <=> InARow(a, i))
        BY <1>12, <2>0 DEF Loose, InARow, L
    <2>4. Windowed(a)'
        BY <2>0, <2>3 DEF HeldInv, Held_back, Windowed, L
    <2>5. Rationed(a)'
        <3> SUFFICES ASSUME NEW i \in 1 .. n, ~Loose(a, i), InARow(a, i),
                            ~(L[n] + CheckClonesPeriod < second)
                     PROVE  \E x \in Records(z) :
                               x.ip = a /\ L[n] <= x.last /\ n - i + 1 <= So_many(x.count)
            BY <1>12, <2>0, <2>3 DEF Rationed
        <3>1. L[n] <= second
            <4>1. n \in 1 .. n
                BY <1>9
            <4>2. \A k \in 1 .. n : L[k] <= second
                BY <1>9 DEF Past_times, L
            <4> QED BY <4>1, <4>2
        <3> QED BY <1>4, <1>13, <3>1
    <2> QED BY <2>1, <2>2, <2>4, <2>5 DEF Held_back
<1>15. ASSUME ~Refuses(a) PROVE Held_back(a)'
    <2> DEFINE M == Append(L, second)
    <2>0. let'[a] = M /\ zlined'[a] = zlined[a]
        BY <1>10, <1>15
    <2>1. /\ Len(M) = n + 1 /\ M[n + 1] = second /\ \A i \in 1 .. n : M[i] = L[i]
          /\ M \in Seq(Nat)
        BY <1>2, <1>9
    <2> HIDE DEF M
    <2>2. Warned(a)'
        <3>1. \A x \in Records(z) : x.ip = a => x.count # SENTWARN
            BY <1>4, <1>6, <1>15
        <3> QED BY <1>12, <3>1 DEF Warned
    <2>3. \A i \in 1 .. n + 1 : i \in 1 .. n \/ i = n + 1
        BY <1>9
    <2>4. Past_times(a)'
        <3>1. ASSUME NEW i \in 1 .. n PROVE M[i] <= second
            <4>1. L[i] <= second
                BY <1>9 DEF Past_times, L
            <4> QED BY <2>1, <4>1
        <3>2. \A i \in 1 .. n + 1 : M[i] <= second
            BY <1>2, <2>1, <2>3, <3>1
        <3> QED BY <1>9, <1>12, <2>0, <2>1, <3>2 DEF Past_times
    <2>5. \A i \in 1 .. n : Loose(a, i)' <=> Loose(a, i)
        BY <1>12, <2>0, <2>1 DEF Loose, L
    <2>6. ASSUME NEW i \in 1 .. n, \A j \in i .. n : M[j + 1] - M[j] <= CheckClonesPeriod
          PROVE  InARow(a, i) /\ ~(L[n] + CheckClonesPeriod < second)
        <3>1. n \in i .. n /\ n \in 1 .. n /\ L[n] \in Nat
            BY <1>9
        <3>2. second - L[n] <= CheckClonesPeriod
            BY <2>1, <2>6, <3>1
        <3>3. ~(L[n] + CheckClonesPeriod < second)
            BY <1>2, <1>9, <3>1, <3>2
        <3>4. ASSUME NEW j \in i .. n - 1 PROVE L[j + 1] - L[j] <= CheckClonesPeriod
            <4>1. j \in i .. n /\ j \in 1 .. n /\ j + 1 \in 1 .. n
                BY <1>9
            <4> QED BY <2>1, <2>6, <4>1
        <3> QED BY <3>3, <3>4 DEF InARow, L
    <2>7. Rationed(a)'
        <3> SUFFICES ASSUME NEW i \in 1 .. n + 1, ~Loose(a, i)',
                            \A j \in i .. n : M[j + 1] - M[j] <= CheckClonesPeriod
                     PROVE  (n + 1) - i + 1 <= So_many(r.count)
            <4>1. second <= r.last
                BY <1>2, <1>4
            <4>2. (n + 1) - 1 = n
                BY <1>9
            <4> QED BY <1>4, <1>12, <2>0, <2>1, <4>1, <4>2 DEF Rationed, InARow
        <3>1. CASE i = n + 1
            BY <1>6, <1>9, <3>1
        <3>2. CASE i \in 1 .. n
            <4>1. n - i + 2 <= So_many(r.count)
                BY <1>13, <1>15, <2>5, <2>6, <3>2
            <4>2. (n + 1) - i + 1 = n - i + 2
                BY <1>9
            <4> QED BY <4>1, <4>2
        <3> QED BY <3>1, <3>2, <2>3
    <2>8. Windowed(a)'
        <3> SUFFICES ASSUME NEW i \in 1 .. (n + 1) - CheckClonesLimit, ~Loose(a, i)',
                            \A j \in i .. i + CheckClonesLimit - 1 :
                               ~(M[j + 1] - M[j] > CheckClonesPeriod)
                     PROVE  FALSE
            BY <2>0, <2>1 DEF Windowed
        <3>1. i \in 1 .. n /\ (i \in 1 .. n - CheckClonesLimit \/ i = (n + 1) - CheckClonesLimit)
            <4>1. i \in Int /\ i >= 1 /\ i <= (n + 1) - CheckClonesLimit
                OBVIOUS
            <4>2. n \in Nat /\ CheckClonesLimit \in Nat /\ CheckClonesLimit >= 2
                BY <1>9
            <4>3. i <= n /\ (i <= n - CheckClonesLimit \/ i = (n + 1) - CheckClonesLimit)
                BY <4>1, <4>2
            <4> QED BY <4>1, <4>2, <4>3
        <3>2. ~Loose(a, i)
            BY <2>5, <3>1
        <3>3. CASE i \in 1 .. n - CheckClonesLimit
            <4>1. PICK j \in i .. i + CheckClonesLimit - 1 : L[j + 1] - L[j] > CheckClonesPeriod
                BY <3>2, <3>3 DEF HeldInv, Held_back, Windowed, L
            <4>2. j \in 1 .. n /\ j + 1 \in 1 .. n
                <5>1. n \in Nat /\ CheckClonesLimit \in Nat
                    BY <1>9
                <5>2. i \in Int /\ 1 <= i /\ i <= n - CheckClonesLimit
                    BY <3>3
                <5>3. j \in Int /\ i <= j /\ j <= i + CheckClonesLimit - 1
                    BY <5>2
                <5> QED BY <5>1, <5>2, <5>3
            <4> QED BY <2>1, <4>1, <4>2
        <3>4. CASE i = (n + 1) - CheckClonesLimit
            <4>1. i + CheckClonesLimit - 1 = n
                BY <1>9, <3>4
            <4>2. ASSUME NEW j \in i .. n PROVE M[j + 1] - M[j] <= CheckClonesPeriod
                <5>1. j \in 1 .. n + 1 /\ j + 1 \in 1 .. n + 1 /\ i \in Nat
                    BY <1>9, <3>1
                <5>2. M[j + 1] \in Nat /\ M[j] \in Nat
                    BY <2>1, <5>1
                <5>3. ~(M[j + 1] - M[j] > CheckClonesPeriod)
                    BY <4>1
                <5>4. CheckClonesPeriod \in Nat
                    BY <1>9
                <5> QED BY ONLY <5>2, <5>3, <5>4
            <4>3. n - i + 2 <= So_many(r.count)
                BY <1>13, <1>15, <2>6, <3>1, <3>2, <4>2
            <4> QED BY <1>6, <1>9, <3>1, <4>1, <4>3
        <3> QED BY <3>1, <3>3, <3>4
    <2> QED BY <2>2, <2>4, <2>7, <2>8 DEF Held_back
<1>16. Held_back(a)'
    BY <1>14, <1>15
<1> QED BY <1>8, <1>10, <1>11, <1>16 DEF HeldInv

(* At first nobody has come.                                                *)
LEMMA HeldInit == ASSUME HInit PROVE HeldInv
<1>1. /\ throttles = [b \in Buckets |-> << >>] /\ zlined = [a \in Ip |-> 0] /\ second = 1
      /\ let = [a \in Ip |-> << >>] /\ back = [a \in Ip |-> {}]
    BY DEF HInit
<1>2. One(<< >>) /\ Records(<< >>) = {}
    BY DEF One, Records
<1>3. Bucketed /\ HTypes
    BY <1>1, <1>2 DEF Bucketed, HTypes
<1>4. ASSUME NEW a \in Ip PROVE Held_back(a)
    <2>1. let[a] = << >> /\ ByXor[a] \in Buckets
        BY <1>1 DEF Buckets
    <2>2. throttles[ByXor[a]] = << >>
        BY <1>1, <2>1
    <2>3. 1 .. 0 = {} /\ 1 .. 0 - CheckClonesLimit = {}
        BY CountTypes
    <2> QED BY <1>2, <2>1, <2>2, <2>3 DEF Held_back, Warned, Rationed, Windowed, Past_times
<1> QED BY <1>3, <1>4 DEF HeldInv

(* Of clients of one address that come with no more than CheckClonesPeriod  *)
(* between one and the next, check_clones lets in CheckClonesLimit, unless  *)
(* remove_clone_check has been called for one since; and each address has   *)
(* one record at most, in its bucket.                                       *)
THEOREM ThrottleHolds == HSpec => []ThrottleHeld
<1>1. ASSUME HeldInv, [HNext]_hvars PROVE HeldInv'
    <2>1. CASE UNCHANGED hvars
        BY <1>1, <2>1 DEF hvars, HeldInv, Bucketed, HTypes, Held_back, Warned, Rationed, Windowed,
                          Past_times, Loose, InARow
    <2>2. CASE HNext
        BY <1>1, <2>2, Time_Passes, Visit_Held, Off_Again DEF HNext
    <2> QED BY <1>1, <2>1, <2>2
<1>2. ASSUME HeldInv PROVE ThrottleHeld
    <2>1. ASSUME NEW a \in Ip, NEW i \in 1 .. Len(let[a]) - CheckClonesLimit
          PROVE  \/ \E j \in i .. i + CheckClonesLimit - 1 :
                       let[a][j + 1] - let[a][j] > CheckClonesPeriod
                 \/ \E t \in back[a] : let[a][i] <= t
        BY <1>2 DEF HeldInv, Held_back, Windowed, Loose
    <2>2. ASSUME NEW b \in Buckets
          PROVE  /\ \A i, j \in DOMAIN throttles[b] : throttles[b][i].ip = throttles[b][j].ip => i = j
                 /\ \A i \in DOMAIN throttles[b] : ByXor[throttles[b][i].ip] = b
        <3>1. DOMAIN throttles[b] = 1 .. Len(throttles[b])
            BY <1>2 DEF HeldInv, Bucketed
        <3> QED BY <1>2, <3>1 DEF HeldInv, Bucketed, One, Records
    <2> QED BY <2>1, <2>2 DEF ThrottleHeld
<1> QED BY <1>1, <1>2, HeldInit, PTL DEF HSpec
=================================================================================
