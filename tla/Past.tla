---------------------------------- MODULE Past ----------------------------------
(***************************************************************************)
(* The history of nicks (whowas.c): a ring of records that are used again,  *)
(* each in the list of its hash value and, while the client is there, in    *)
(* the list of that client.  KILL and MODE after a nick that has changed    *)
(* follow it through get_history.                                           *)
(***************************************************************************)
EXTENDS Integers, Sequences, FiniteSets, SequencesExt, Lists

CONSTANTS
    Nick_, Bearer,          \* nicks; clients
    HashOf,                 \* HashOf[n]: hash_whowas_name
    NICKNAMEHISTORYLENGTH,
    Unborn,                 \* no client, and no nick
    MaxChanges              \* bound of what happens

ASSUME PastAssumption ==
    /\ HashOf \in [Nick_ -> Nat] /\ NICKNAMEHISTORYLENGTH \in Nat \ {0}
    /\ Unborn \notin Nick_ \cup Bearer

VARIABLES
    WHOWAS,             \* the ring: name, hashv, logoff, online
    whowas_next,
    WHOWASHASH,         \* per hash value, and
    whowas,             \* per client: lists of places in the ring, the newest first
    bears,              \* bears[c]: the nick of c
    CurrentSecond,
    past,               \* history: all that add_history was told, the newest first
    changes

pvars == <<WHOWAS, whowas_next, WHOWASHASH, whowas, bears, CurrentSecond, past, changes>>

Place == 1 .. NICKNAMEHISTORYLENGTH
Hashes == {HashOf[n] : n \in Nick_}

PaInit ==
    /\ WHOWAS = [i \in Place |-> [name |-> Unborn, hashv |-> -1, logoff |-> 0, online |-> Unborn]]
    /\ whowas_next = 1
    /\ WHOWASHASH = [h \in Hashes |-> << >>] /\ whowas = [c \in Bearer |-> << >>]
    /\ bears = [c \in Bearer |-> Unborn]
    /\ CurrentSecond = 1 /\ past = << >> /\ changes = 0

Counted_change == changes < MaxChanges /\ changes' = changes + 1
Others(s, i) == Pick(s, {k \in DOMAIN s : s[k] # i})

(* add_history, of client c that leaves its nick, to stay or to go.  The    *)
(* record that is used again leaves its lists first.                        *)
Unlinked_Kept(i) == whowas

Unlinked(i) ==
    [d \in Bearer |-> IF WHOWAS[i].online = d THEN Others(whowas[d], i) ELSE whowas[d]]
Bucket_of(i) ==
    [k \in Hashes |-> IF k = WHOWAS[i].hashv THEN Others(WHOWASHASH[k], i) ELSE WHOWASHASH[k]]
(* off_history, which follows when c goes: its records forget it.           *)
off_history(c, i, stays) ==
    IF stays THEN {} ELSE {j \in Place : Contains(Unlinked(i)[c], j)}

add_history(c, stays) ==
    LET i == whowas_next
        h == HashOf[bears[c]]
        who == IF stays THEN c ELSE Unborn
        gone == off_history(c, i, stays)
    IN  /\ WHOWAS' = [j \in Place |->
              IF j = i THEN [name |-> bears[c], hashv |-> h, logoff |-> CurrentSecond, online |-> who]
              ELSE IF j \in gone THEN [WHOWAS[j] EXCEPT !.online = Unborn] ELSE WHOWAS[j]]
        /\ WHOWASHASH' = [Bucket_of(i) EXCEPT ![h] = <<i>> \o @]
        /\ whowas' = [Unlinked(i) EXCEPT ![c] = IF stays THEN <<i>> \o @ ELSE << >>]
        /\ whowas_next' = (i % NICKNAMEHISTORYLENGTH) + 1
        /\ past' = <<[name |-> bears[c], at |-> CurrentSecond, who |-> who]>>
                   \o [j \in DOMAIN past |->
                         IF past[j].who = c /\ ~stays THEN [past[j] EXCEPT !.who = Unborn]
                         ELSE past[j]]

Free_nick(n) == \A c \in Bearer : bears[c] # n
Signon(c, n) ==
    /\ Counted_change /\ bears[c] = Unborn /\ Free_nick(n)
    /\ bears' = [bears EXCEPT ![c] = n]
    /\ UNCHANGED <<WHOWAS, whowas_next, WHOWASHASH, whowas, CurrentSecond, past>>
NickChange(c, n) ==
    /\ Counted_change /\ bears[c] # Unborn /\ Free_nick(n)
    /\ add_history(c, TRUE)
    /\ bears' = [bears EXCEPT ![c] = n] /\ UNCHANGED CurrentSecond
release_client_state(c) ==
    /\ Counted_change /\ bears[c] # Unborn
    /\ add_history(c, FALSE)
    /\ bears' = [bears EXCEPT ![c] = Unborn] /\ UNCHANGED CurrentSecond
Passes_by ==
    /\ Counted_change /\ CurrentSecond' = CurrentSecond + 1
    /\ UNCHANGED <<WHOWAS, whowas_next, WHOWASHASH, whowas, bears, past>>

PaNext ==
    \/ Passes_by
    \/ \E c \in Bearer : \/ release_client_state(c)
                         \/ \E n \in Nick_ : Signon(c, n) \/ NickChange(c, n)

PaSpec == PaInit /\ [][PaNext]_pvars

-----------------------------------------------------------------------------
(* get_history: the newest record of the nick that is not too old.          *)
get_history(n, limit) ==
    LET s == WHOWASHASH[HashOf[n]]
        hits == Pick(s, {k \in DOMAIN s : /\ WHOWAS[s[k]].name = n
                                         /\ WHOWAS[s[k]].logoff >= CurrentSecond - limit})
    IN  IF hits = << >> THEN Unborn ELSE WHOWAS[Head(hits)].online

(* m_whowas: when a nick was given up, the last time first.                 *)
m_whowas(n) ==
    LET s == WHOWASHASH[HashOf[n]]
        hits == Pick(s, {k \in DOMAIN s : WHOWAS[s[k]].name = n})
    IN  [k \in DOMAIN hits |-> WHOWAS[hits[k]].logoff]

(* The ring is as good as a list of the last NICKNAMEHISTORYLENGTH nicks    *)
(* given up: a chase finds the client that had the nick last, if it is      *)
(* still there, and WHOWAS shows them all; and a client's list has exactly  *)
(* the records that refer to it.  (add_history, off_history, get_history,   *)
(* m_whowas.)                                                               *)
PastRight ==
    LET last == SubSeq(past, 1, IF Len(past) < NICKNAMEHISTORYLENGTH THEN Len(past)
                                ELSE NICKNAMEHISTORYLENGTH)
    IN  /\ \A n \in Nick_ :
             LET of == Pick(last, {k \in DOMAIN last : last[k].name = n})
             IN  /\ m_whowas(n) = [k \in DOMAIN of |-> of[k].at]
                 /\ \A limit \in 0 .. CurrentSecond :
                       get_history(n, limit) =
                         (IF of = << >> THEN Unborn
                          ELSE IF of[1].at >= CurrentSecond - limit THEN of[1].who ELSE Unborn)
        /\ \A c \in Bearer, i \in Place :
             Contains(whowas[c], i) <=> WHOWAS[i].online = c
===============================================================================
