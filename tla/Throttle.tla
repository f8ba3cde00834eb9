-------------------------------- MODULE Throttle --------------------------------
(***************************************************************************)
(* The throttle of clients from one address: its hash table (throttle.c),   *)
(* and the Z-line that check_client puts on an address it throttles.        *)
(***************************************************************************)
EXTENDS Integers, Sequences, SequencesExt

CONSTANTS
    Ip, ByXor, BySum,        \* addresses; the two ways of taking a bucket for one
    CheckClonesLimit, CheckClonesPeriod, CheckClonesDelay,
    MaxVisits            \* bound of the clients and of the seconds

ASSUME ThrottleAssumption ==
    /\ ByXor \in [Ip -> Nat] /\ BySum \in [Ip -> Nat]
    /\ CheckClonesLimit \in Nat \ {0, 1}        \* with 1 the limit is never met
    /\ CheckClonesPeriod \in Nat \ {0}
    /\ CheckClonesDelay \in Nat /\ CheckClonesDelay > CheckClonesPeriod     \* as in samples/main.dconf.sample

VARIABLES
    throttles,      \* throttles[b]: the records of a bucket, the newest first
    zlined,         \* zlined[a]: until when a has a Z-line
    second,
    let, back,      \* history: when a client of a came in, when one was taken off
    visits

hvars == <<throttles, zlined, second, let, back, visits>>

HITLIMIT == -1
SENTWARN == -2
Buckets == {ByXor[a] : a \in Ip} \cup {BySum[a] : a \in Ip}

HInit ==
    /\ throttles = [b \in Buckets |-> << >>] /\ zlined = [a \in Ip |-> 0] /\ second = 1
    /\ let = [a \in Ip |-> << >>] /\ back = [a \in Ip |-> {}] /\ visits = 0

Counts == visits < MaxVisits /\ visits' = visits + 1
Expired(r) == r.last + CheckClonesPeriod < second
IndexOf(a, s) == SelectInSeq(s, LAMBDA r : r.ip = a)        \* 0 when there is none

(* The scan of check_clones drops the expired records in front of a's.      *)
Unexpired(s, k) ==
    LET f[n \in 0 .. k] == IF n = 0 THEN << >>
                           ELSE IF Expired(s[n]) THEN f[n - 1] ELSE Append(f[n - 1], s[n])
    IN  f[k]
Scanned(a) ==
    LET s == throttles[ByXor[a]]
        k == IF IndexOf(a, s) = 0 THEN Len(s) ELSE IndexOf(a, s) - 1
    IN  Unexpired(s, k) \o SubSeq(s, k + 1, Len(s))

(* What becomes of a's record; in seconds of silence it is forgotten.       *)
More_Late(n) == IF n >= 0 THEN (IF n + 1 > CheckClonesLimit THEN HITLIMIT ELSE n + 1) ELSE SENTWARN

More(n) == IF n >= 0 THEN (IF n + 1 = CheckClonesLimit THEN HITLIMIT ELSE n + 1) ELSE SENTWARN
Recorded(a) ==
    LET s == Scanned(a)
        i == IndexOf(a, s)
    IN  IF i = 0 THEN <<[ip |-> a, count |-> 1, last |-> second]>> \o s
        ELSE [s EXCEPT ![i].count = IF Expired(s[i]) THEN 1 ELSE More(@), ![i].last = second]
Refuses(a) ==
    LET s == throttles[ByXor[a]]
        i == IndexOf(a, s)
    IN  IF i = 0 THEN FALSE ELSE ~Expired(s[i]) /\ s[i].count = HITLIMIT

(* check_client of a client that verify_access has let in.                  *)
Zlined(a) == zlined[a] >= second
Visit(a) ==
    /\ Counts /\ ~Zlined(a)
    /\ throttles' = [throttles EXCEPT ![ByXor[a]] = Recorded(a)]
    /\ IF Refuses(a) THEN /\ zlined' = [zlined EXCEPT ![a] = second + CheckClonesDelay]
                          /\ UNCHANGED let
       ELSE /\ let' = [let EXCEPT ![a] = Append(@, second)] /\ UNCHANGED zlined
    /\ UNCHANGED <<second, back>>

(* remove_clone_check, for one that a Z-line or a full I-line keeps out, or *)
(* when the server is full: it takes another bucket for the address.        *)
Taken_off(a) ==
    LET s == throttles[BySum[a]]
        i == IndexOf(a, s)
    IN  IF i = 0 THEN s ELSE [s EXCEPT ![i].count = IF @ > 1 THEN @ - 1 ELSE @]
remove_clone_check(a) ==
    /\ Counts
    /\ throttles' = [throttles EXCEPT ![BySum[a]] = Taken_off(a)]
    /\ back' = [back EXCEPT ![a] = @ \cup {second}]
    /\ UNCHANGED <<zlined, second, let>>

Goes_on ==
    /\ Counts /\ second' = second + 1
    /\ UNCHANGED <<throttles, zlined, let, back>>

HNext == Goes_on \/ \E a \in Ip : Visit(a) \/ remove_clone_check(a)

HSpec == HInit /\ [][HNext]_hvars

-----------------------------------------------------------------------------
(* Of clients of one address that come with no more than CheckClonesPeriod  *)
(* between one and the next, only CheckClonesLimit get in, unless one was   *)
(* taken off again; and whatever else hashes alike, an address has one      *)
(* record, in its bucket.  (check_clones, remove_clone_check, check_client.) *)
ThrottleHeld ==
    /\ \A a \in Ip : LET s == let[a] IN
          \A i \in 1 .. Len(s) - CheckClonesLimit :
              \/ \E j \in i .. i + CheckClonesLimit - 1 : s[j + 1] - s[j] > CheckClonesPeriod
              \/ \E t \in back[a] : s[i] <= t
    /\ \A b \in Buckets : LET s == throttles[b] IN
          /\ \A i, j \in DOMAIN s : s[i].ip = s[j].ip => i = j
          /\ \A i \in DOMAIN s : ByXor[s[i].ip] = b
===============================================================================
