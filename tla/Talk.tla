---------------------------------- MODULE Talk ----------------------------------
(***************************************************************************)
(* PRIVMSG and NOTICE at one server, and what holds back who sends them too *)
(* fast: the limit on targets, the blocking of CTCPs to a client (flud.c)   *)
(* and the drone protection.  Whether a channel may be spoken to is a       *)
(* choice here (Room has can_send), as are +R and silence lists (Users).    *)
(***************************************************************************)
EXTENDS Integers, Sequences, FiniteSets, SequencesExt, FiniteSetsExt, TLC

CONSTANTS
    Talker, Mine,           \* clients, the local ones
    Alias, Excused,         \* services with a command of their own; operators and services
    Forum,                  \* channels
    Hash,                   \* Hash[t]: the byte made of the address of a target
    Text,                   \* among "plain", "spam", "ctcp", "dcc", "banned"
    MAXTARGETS, TARGET_DELAY,
    FLUDNUM, FLUDTIME, FLUDBLOCK,
    DRONETIME, DRONECOUNT,
    Birth, Steps,           \* the time it is at first; by how much it may go on
    Talking                 \* sets of who says what to whom, each with the bound of its steps

ASSUME TalkAssumption ==
    /\ Mine \subseteq Talker /\ Alias \subseteq Excused /\ Excused \subseteq Talker
    /\ Talker \cap Forum = {} /\ Hash \in [Talker \cup Forum -> 0 .. 255]
    /\ Text \subseteq {"plain", "spam", "ctcp", "dcc", "banned"}
    /\ {MAXTARGETS, TARGET_DELAY, FLUDNUM, FLUDTIME, DRONETIME} \subseteq Nat \ {0}
    /\ {FLUDBLOCK, DRONECOUNT, Birth} \subseteq Nat /\ Steps \subseteq Nat
    /\ Birth > TARGET_DELAY * MAXTARGETS /\ Birth > FLUDBLOCK /\ Birth > DRONETIME

VARIABLES
    here,               \* the clients and channels there are
    fluders,            \* fluders[t]: who sends CTCPs to t, with count, first, last
    fludees,            \* fludees[p]: whom p sends them to
    fludblock,
    targets, nexttarget,    \* of a client
    zombies, nodcc,
    drone,              \* received_number_of_privmsgs, since when, drone_noticed
    sendq,              \* in quarters of what it may be
    seconds,
    \* history
    tries,              \* tries[q]: the CTCPs to q: when, by whom (still known), let through
    fresh,              \* fresh[p]: when a new target was let pass
    heardof, thrown,    \* when q was sent to; when and in what state one was thrown away
    talking, talked

lvars == <<here, fluders, fludees, fludblock, targets, nexttarget, zombies, nodcc, drone,
           sendq, seconds, tries, fresh, heardof, thrown, talking, talked>>
flood == <<fluders, fludees, fludblock, tries>>
pace  == <<targets, nexttarget, zombies, fresh>>
swarm == <<drone, sendq, heardof, thrown>>

Name == Talker \cup Forum
Nobody == [q \in {} |-> 0]

LInit ==
    /\ here = Name /\ seconds = Birth
    /\ fluders = [t \in Name |-> Nobody] /\ fludees = [p \in Talker |-> {}]
    /\ fludblock = [t \in Name |-> 0]
    /\ targets = [p \in Talker |-> [i \in 1 .. MAXTARGETS |-> 0]]
    /\ nexttarget = [p \in Talker |-> 0]
    /\ zombies = {} /\ nodcc = {}
    /\ drone = [p \in Talker |-> [n |-> 0, since |-> 0, noticed |-> 0]]
    /\ sendq = [p \in Talker |-> 0]
    /\ tries = [p \in Talker |-> << >>] /\ fresh = [p \in Talker |-> << >>]
    /\ heardof = [p \in Talker |-> << >>] /\ thrown = [p \in Talker |-> {}]
    /\ talking \in DOMAIN Talking /\ talked = 0

Does(a) == a \subseteq talking /\ talked < Talking[talking] /\ talked' = talked + 1 /\ UNCHANGED talking
Says(p, text, notice, to) == Does({p, text, to} \cup (IF notice THEN {"notice"} ELSE {}))

-----------------------------------------------------------------------------
(* check_for_flud: the CTCP of p to t.                                      *)
check_for_ctcp(text) == text \in {"ctcp", "dcc", "banned"}

Blocking(t) == fludblock[t] > seconds - FLUDBLOCK
Garbage(t) == IF Blocking(t) THEN {}
              ELSE {q \in DOMAIN fluders[t] : fluders[t][q].last < seconds - FLUDTIME}
Counted_in(p, t) ==
    LET f == fluders[t]
    IN  [q \in (DOMAIN f \ Garbage(t)) \cup {p} |->
           IF q # p THEN f[q]
           ELSE IF p \in DOMAIN f \ Garbage(t) THEN [f[p] EXCEPT !.last = seconds, !.count = @ + 1]
           ELSE [count |-> 1, first |-> seconds, last |-> seconds]]
Weight(r) == IF r.first < seconds - FLUDTIME THEN 1 ELSE r.count
Weights(f) == UNION {{q} \X (1 .. Weight(f[q])) : q \in DOMAIN f}
Starts(p, t) == Cardinality(Weights(Counted_in(p, t))) > FLUDNUM
Stops(p, t) == Blocking(t) \/ Starts(p, t)

check_for_flud(p, t) ==
    IF FLUDBLOCK = 0 THEN UNCHANGED <<fluders, fludees, fludblock>>
    ELSE /\ fluders' = [fluders EXCEPT ![t] = Counted_in(p, t)]
         /\ fludees' = [q \in Talker |-> IF q = p THEN fludees[q] \cup {t}
                                         ELSE IF q \in Garbage(t) THEN fludees[q] \ {t}
                                         ELSE fludees[q]]
         /\ fludblock' = [fludblock EXCEPT ![t] = IF Stops(p, t) THEN seconds ELSE @]

(* free_fluders of t, and free_fludees of p: all references to what goes.   *)
Unreferred_Fluders(x) == [t \in Name |-> IF t = x THEN Nobody ELSE fluders[t]]

Unreferred(x) ==
    [t \in Name |->
       IF t = x THEN Nobody
       ELSE IF x \in Talker /\ t \in fludees[x]
       THEN [q \in DOMAIN fluders[t] \ {x} |-> fluders[t][q]] ELSE fluders[t]]
Release_flud(x) ==
    /\ fluders' = Unreferred(x)
    /\ fludees' = [p \in Talker |-> IF p = x THEN {}
                                    ELSE IF p \in DOMAIN fluders[x] THEN fludees[p] \ {x}
                                    ELSE fludees[p]]

-----------------------------------------------------------------------------
(* check_target_limit of a local client.  A target that is not among the    *)
(* last ones is let pass if nexttarget has come; else it takes longer.      *)
Recent(p, t) == Contains(targets[p], Hash[t])
ToFront(p, t) ==
    LET s == targets[p]
        k == IF Recent(p, t) THEN CHOOSE i \in DOMAIN s : s[i] = Hash[t] /\ \A j \in 1 .. i - 1 : s[j] # Hash[t]
             ELSE MAXTARGETS
    IN  [i \in 1 .. MAXTARGETS |-> IF i = 1 THEN Hash[t] ELSE IF i <= k THEN s[i - 1] ELSE s[i]]
Early(p, t) == ~Recent(p, t) /\ seconds < nexttarget[p]
Allowance == seconds - TARGET_DELAY * (MAXTARGETS - 1)
Passes(p, t) ==
    /\ targets' = [targets EXCEPT ![p] = ToFront(p, t)]
    /\ IF Recent(p, t) THEN UNCHANGED <<nexttarget, fresh>>
       ELSE /\ nexttarget' = [nexttarget EXCEPT ![p] = Max({@ + TARGET_DELAY, Allowance})]
            /\ fresh' = [fresh EXCEPT ![p] = Append(@, seconds)]
    /\ UNCHANGED zombies
Held_up(p, t, text) ==
    LET soon == nexttarget[p] - seconds < TARGET_DELAY + 8
    IN  /\ nexttarget' = [nexttarget EXCEPT ![p] = IF soon THEN @ + 2 ELSE @]
        /\ zombies' = IF soon /\ text = "spam" THEN zombies \cup {p} ELSE zombies
        /\ UNCHANGED <<targets, fresh>>

-----------------------------------------------------------------------------
(* m_message.  Zombies are not heard.                                       *)
Speaker(p) == p \in here /\ p \notin zombies

(* To a channel: a CTCP is counted but not stopped, and counted before it   *)
(* is known whether p may speak.                                            *)
ToChannel(p, c, text, notice, can_send) ==
    /\ Says(p, text, notice, "channel") /\ Speaker(p) /\ c \in here
    /\ IF ~notice /\ check_for_ctcp(text) THEN check_for_flud(p, c)
       ELSE UNCHANGED <<fluders, fludees, fludblock>>
    /\ IF ~can_send \/ p \notin Mine THEN UNCHANGED pace
       ELSE IF Early(p, c) THEN Held_up(p, c, text) ELSE Passes(p, c)
    /\ UNCHANGED <<here, nodcc, swarm, seconds, tries>>

(* To the operators of a channel, by one of them: no limit of targets.      *)
ToChanops(p, c, text, notice) ==
    /\ Says(p, text, notice, "channel") /\ Speaker(p) /\ c \in here
    /\ ~notice /\ check_for_ctcp(text) /\ check_for_flud(p, c)
    /\ UNCHANGED <<here, nodcc, swarm, seconds, tries, pace>>

(* A file that services forbid: the client may send no file any more.       *)
Dcc_Refused(p, text, notice) ==
    p \in Mine /\ ~notice /\ text \in {"dcc", "banned"} /\ (p \in nodcc \/ text = "banned")

(* The drone protection of a local client q: in DRONETIME it gets no more   *)
(* than DRONECOUNT messages uncounted, and while its queue does not drain   *)
(* the others are thrown away.                                              *)
Counts_Drones(p, q) == q \in Mine /\ p \notin Excused
Wind_up(q) ==
    LET d == drone[q]
        first == IF d.noticed = 0 THEN 1 ELSE d.noticed
        on == IF sendq[q] > 2 /\ first = 1 THEN 2 ELSE first
    IN  IF d.since + DRONETIME < seconds THEN [n |-> 1, since |-> seconds, noticed |-> 0]
        ELSE IF d.n <= DRONECOUNT THEN [d EXCEPT !.n = @ + 1]
        ELSE [d EXCEPT !.noticed = IF sendq[q] <= 1 THEN 1 ELSE on]
Throws(q) == LET d == drone[q] IN
    d.since + DRONETIME >= seconds /\ d.n > DRONECOUNT /\ Wind_up(q).noticed > 1

Into_queue(p, q) ==
    /\ drone' = [drone EXCEPT ![q] = IF Counts_Drones(p, q) THEN Wind_up(q) ELSE @]
    /\ IF Counts_Drones(p, q) /\ Throws(q)
       THEN /\ thrown' = [thrown EXCEPT ![q] = @ \cup {[at |-> seconds, queue |-> sendq[q]]}]
            /\ UNCHANGED <<sendq, heardof>>
       ELSE /\ sendq' = [sendq EXCEPT ![q] = IF q \in Mine THEN Min({@ + 1, 4}) ELSE @]
            /\ heardof' = [heardof EXCEPT ![q] = IF Counts_Drones(p, q) THEN Append(@, seconds) ELSE @]
            /\ UNCHANGED thrown

(* To a client that hears p: the limit of targets, then an alias of         *)
(* services, then files, then CTCPs, then drones.                           *)
ToPerson(p, q, text, notice) ==
    LET ctcp == ~notice /\ q \in Mine /\ check_for_ctcp(text)
        stop == FLUDBLOCK # 0 /\ ctcp /\ Stops(p, q)
    IN  /\ Says(p, text, notice, "person") /\ Speaker(p) /\ q \in here
        /\ UNCHANGED <<here, seconds>>
        /\ \/ /\ p \in Mine /\ Early(p, q) /\ Held_up(p, q, text)
              /\ UNCHANGED <<flood, swarm, nodcc>>
           \/ /\ p \in Mine => ~Early(p, q)
              /\ IF p \in Mine THEN Passes(p, q) ELSE UNCHANGED pace
              /\ IF p \in Mine /\ q \in Alias THEN UNCHANGED <<flood, swarm, nodcc>>
                 ELSE IF Dcc_Refused(p, text, notice)
                 THEN nodcc' = nodcc \cup {p} /\ UNCHANGED <<flood, swarm>>
                 ELSE /\ UNCHANGED nodcc
                      /\ IF ctcp
                         THEN /\ check_for_flud(p, q)
                              /\ tries' = [tries EXCEPT ![q] =
                                    Append(@, [at |-> seconds, by |-> p, let |-> ~stop, known |-> TRUE])]
                         ELSE UNCHANGED flood
                      /\ IF stop THEN UNCHANGED swarm ELSE Into_queue(p, q)

(* m_dccallow, by an operator or services.                                  *)
Dcc_Allowed(p) ==
    /\ Does({"banned"}) /\ p \in nodcc /\ nodcc' = nodcc \ {p}
    /\ UNCHANGED <<here, flood, pace, swarm, seconds>>

-----------------------------------------------------------------------------
(* A client goes, or a channel: release_client_state, sub1_from_channel;    *)
(* later there is a new one.                                                *)
Forgets(f, x, v) == IF x \in DOMAIN f THEN [f EXCEPT ![x] = v] ELSE f
Goes(x) ==
    /\ Does({"exit"}) /\ x \in here /\ here' = here \ {x}
    /\ Release_flud(x)
    /\ fludblock' = [fludblock EXCEPT ![x] = 0]
    /\ targets' = Forgets(targets, x, [i \in 1 .. MAXTARGETS |-> 0])
    /\ nexttarget' = Forgets(nexttarget, x, 0) /\ fresh' = Forgets(fresh, x, << >>)
    /\ zombies' = zombies \ {x} /\ nodcc' = nodcc \ {x}
    /\ drone' = Forgets(drone, x, [n |-> 0, since |-> 0, noticed |-> 0])
    /\ sendq' = Forgets(sendq, x, 0)
    /\ heardof' = Forgets(heardof, x, << >>) /\ thrown' = Forgets(thrown, x, {})
    /\ tries' = [q \in Talker |-> IF q = x THEN << >>
                                  ELSE [i \in DOMAIN tries[q] |->
                                          [tries[q][i] EXCEPT !.known = @ /\ tries[q][i].by # x]]]
    /\ UNCHANGED seconds
Comes(x) ==
    /\ x \notin here /\ here' = here \cup {x}
    /\ UNCHANGED <<flood, pace, swarm, nodcc, seconds, talking, talked>>

Drains(q) ==
    /\ sendq[q] > 0 /\ \E n \in 0 .. sendq[q] - 1 : sendq' = [sendq EXCEPT ![q] = n]
    /\ UNCHANGED <<here, flood, pace, nodcc, drone, heardof, thrown, seconds, talking, talked>>
Waits(d) ==
    /\ Does({"wait"}) /\ seconds' = seconds + d
    /\ UNCHANGED <<here, flood, pace, swarm, nodcc>>

LNext ==
    \/ \E x \in Name : Goes(x) \/ Comes(x)
    \/ \E p \in Talker : Dcc_Allowed(p) \/ Drains(p)
    \/ \E d \in Steps : Waits(d)
    \/ \E p \in Talker, text \in Text, notice \in BOOLEAN :
          \/ \E c \in Forum : \/ ToChanops(p, c, text, notice)
                              \/ \E b \in BOOLEAN : ToChannel(p, c, text, notice, b)
          \/ \E q \in Talker : ToPerson(p, q, text, notice)

LSpec == LInit /\ [][LNext]_lvars

-----------------------------------------------------------------------------
(* Who is listed as sending CTCPs to whom, on both sides; nobody and        *)
(* nothing that is gone.  (check_for_flud, free_fluders, free_fludees,      *)
(* remove_fluder_reference, remove_fludee_reference.)                       *)
Referred ==
    \A t \in Name, p \in Talker :
        /\ p \in DOMAIN fluders[t] <=> t \in fludees[p]
        /\ p \in DOMAIN fluders[t] => {p, t} \subseteq here

(* After a CTCP was stopped none gets through for FLUDBLOCK seconds; and of *)
(* those who began to send less than FLUDTIME ago not more than FLUDNUM do  *)
(* in that time.  FLUDBLOCK 0 turns this off.  (check_for_flud.)            *)
Newly(s, j) ==
    {i \in 1 .. j : /\ s[i].known
                    /\ \A k \in 1 .. j : s[k].known /\ s[k].by = s[i].by
                                         => s[k].at >= s[j].at - FLUDTIME}
Blocked ==
    FLUDBLOCK # 0 => \A q \in Talker : LET s == tries[q] IN
        \A j \in DOMAIN s : s[j].let =>
            /\ \A i \in 1 .. j - 1 : ~s[i].let => s[j].at - s[i].at >= FLUDBLOCK
            /\ Cardinality(Newly(s, j)) <= FLUDNUM

(* A message is thrown away only for a client with a filled queue that was  *)
(* sent more than DRONECOUNT in the last DRONETIME seconds.  (m_message.)   *)
Spared_Messages ==
    \A q \in Talker : \A x \in thrown[q] :
        /\ x.queue > 1
        /\ Cardinality({i \in DOMAIN heardof[q] : heardof[q][i] \in x.at - DRONETIME .. x.at})
             > DRONECOUNT

FludsRight == Referred /\ Blocked /\ Spared_Messages

(* However a client goes about it, of the new targets that it is let write  *)
(* to only the first MAXTARGETS come free: each further one takes           *)
(* TARGET_DELAY seconds.  (check_target_limit, m_message.)                  *)
TargetsHeld ==
    \A p \in Talker : \A i, j \in DOMAIN fresh[p] :
        i < j => fresh[p][j] - fresh[p][i] >= TARGET_DELAY * (j - i - MAXTARGETS)

(* The three protections and the limit of targets hold.                     *)
TalkRight == FludsRight /\ TargetsHeld
===============================================================================
