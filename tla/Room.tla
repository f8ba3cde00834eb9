---------------------------------- MODULE Room ----------------------------------
(***************************************************************************)
(* The channels of one server as its clients find them: who may enter and   *)
(* speak, invitations, bans, the flood limit, and the books kept on both    *)
(* sides of a membership.  Remote clients come and go by what their servers *)
(* say; ChanTS has how the servers agree.                                   *)
(***************************************************************************)
EXTENDS Integers, Sequences, FiniteSets, SequencesExt, TLC, Lists

CONSTANTS
    Channel, Guest, Local,      \* channels; clients, the local ones
    Traits,                     \* Traits[u]: what u is: oper, admin, ssl, id, bot, service
    Mode,                       \* the letters of an instance
    Banmask, Bans,              \* ban masks; Bans[m]: the clients that m matches
    MAXBANS, MaxChansPerUser, LIMIT,       \* LIMIT: the number of a +l
    OperCanAlwaysJoin, OperKickProtection, RestrictedChans,    \* BOOLEAN
    new_cmodes,                 \* the modes of a new channel
    MSGS, PER,                  \* the numbers of a +f
    Scene                       \* sets of what is done, with how often; a letter is a mode

ASSUME RoomAssumption ==
    /\ Local \subseteq Guest /\ Traits \in [Guest -> SUBSET STRING]
    /\ Bans \in [Banmask -> SUBSET Guest]
    /\ MAXBANS \in Nat /\ MaxChansPerUser \in Nat \ {0} /\ LIMIT \in Nat \ {0}
    /\ OperCanAlwaysJoin \in BOOLEAN /\ OperKickProtection \in BOOLEAN
    /\ RestrictedChans \in BOOLEAN
    /\ MSGS \in Nat \ {0, 1} /\ PER \in Nat \ {0}

VARIABLES
    channel,            \* the channels that exist
    mode,               \* mode[c]: its letters
    members, chanop,    \* members[c], those opped
    users, iusers,      \* users[c], iusers[c]: counters
    userchannel, joined,    \* user->channel, user->joined
    banlist, num_bed,
    invites, invited,   \* invites[c]: a set; invited[u]: a list, the oldest first
    stealth,            \* the clients with +S
    nmsg, lastmsg,      \* of the membership of u in c
    CurrentTime,
    \* history
    odd,                \* the channels where somebody got or lost +S inside
    kept,               \* the channels that were kept when they became empty
    invitable,          \* pairs <<u, c>>: invited since c exists and had its last -i
    heard,              \* heard[c][u]: when lines of u went out under +f
    scene, acts

rvars == <<channel, mode, members, chanop, users, iusers, userchannel, joined, banlist,
           num_bed, invites, invited, stealth, nmsg, lastmsg, CurrentTime, odd, kept,
           invitable, heard, scene, acts>>
books == <<channel, members, chanop, users, iusers, userchannel, joined, odd, kept>>
talk  == <<nmsg, lastmsg, heard>>
banlists == <<banlist, num_bed, invites, invited, invitable>>
still == <<CurrentTime, scene>>

ForEach(x) == [c \in Channel |-> x]
RInit ==
    /\ channel = {} /\ mode = ForEach({}) /\ members = ForEach({}) /\ chanop = ForEach({})
    /\ users = ForEach(0) /\ iusers = ForEach(0)
    /\ userchannel = [u \in Guest |-> {}] /\ joined = [u \in Guest |-> 0]
    /\ banlist = ForEach({}) /\ num_bed = ForEach(0)
    /\ invites = ForEach({}) /\ invited = [u \in Guest |-> << >>]
    /\ stealth = {} /\ CurrentTime = 0
    /\ nmsg = ForEach([u \in Guest |-> 0]) /\ lastmsg = nmsg
    /\ odd = {} /\ kept = {} /\ invitable = {}
    /\ heard = ForEach([u \in Guest |-> << >>])
    /\ scene \in DOMAIN Scene /\ acts = 0

Act(a) == a \in scene /\ acts < Scene[scene] /\ acts' = acts + 1
Is(u, x) == x \in Traits[u]

-----------------------------------------------------------------------------
(* Who may enter: what a letter asks of a client.                           *)
Wants == ("A" :> "admin") @@ ("O" :> "oper") @@ ("C" :> "ssl") @@ ("R" :> "id")

is_banned(u, c) == \E m \in banlist[c] : u \in Bans[m]

can_join(u, c, key) ==
    \/ Is(u, "service")
    \/ OperCanAlwaysJoin /\ Is(u, "oper") /\ "A" \notin mode[c]
    \/ "k" \notin mode[c] /\ u \in invites[c]
    \/ /\ "i" \in mode[c] => "k" \in mode[c]
       /\ \A x \in mode[c] \cap DOMAIN Wants : Is(u, Wants[x])
       /\ ~("B" \in mode[c] /\ Is(u, "bot"))
       /\ "k" \in mode[c] => key
       /\ "l" \in mode[c] => users[c] < LIMIT
       /\ ~is_banned(u, c)

TooMany(u) ==
    /\ ~Is(u, "service")
    /\ joined[u] >= (IF Is(u, "oper") THEN 10 ELSE 1) * MaxChansPerUser

(* del_invite, of the invitations that are in a set of pairs.               *)
del_invite(pairs) ==
    /\ invites' = [c \in Channel |-> {u \in invites[c] : <<u, c>> \notin pairs}]
    /\ invited' = [u \in Guest |->
                    Pick(invited[u], {i \in DOMAIN invited[u] : <<u, invited[u][i]>> \notin pairs})]

(* add_user_to_channel; the first one gets the channel, and if it is one of *)
(* ours it is opped.                                                        *)
add_user_to_channel(u, c, new) ==
    /\ channel' = channel \cup {c} /\ kept' = kept \ {c}
    /\ members' = [members EXCEPT ![c] = @ \cup {u}]
    /\ chanop' = [chanop EXCEPT ![c] = IF new THEN @ \cup {u} ELSE @]
    /\ users' = [users EXCEPT ![c] = @ + 1]
    /\ iusers' = [iusers EXCEPT ![c] = IF u \in stealth THEN @ + 1 ELSE @]
    /\ userchannel' = [userchannel EXCEPT ![u] = @ \cup {c}]
    /\ joined' = [joined EXCEPT ![u] = @ + 1]
    /\ nmsg' = [nmsg EXCEPT ![c][u] = 0] /\ lastmsg' = [lastmsg EXCEPT ![c][u] = 0]
    /\ heard' = [heard EXCEPT ![c][u] = << >>]

(* m_join of a local client, for one channel.                               *)
May_create(u, c) == c \in channel \/ ~RestrictedChans \/ Is(u, "oper")
Comes_in(u, c, key) ==
    /\ u \in Local /\ c \notin userchannel[u]
    /\ May_create(u, c) /\ ~TooMany(u)
    /\ c \in channel => can_join(u, c, key)
    /\ add_user_to_channel(u, c, c \notin channel)
    /\ del_invite({<<u, c>>}) /\ invitable' = invitable \ {<<u, c>>}
    /\ mode' = [mode EXCEPT ![c] = IF c \in channel \/ u \in stealth THEN @ ELSE new_cmodes]
    /\ UNCHANGED <<banlist, num_bed, stealth, odd, still>>
m_join(u, c, key) == Act("join") /\ Comes_in(u, c, key)

(* Services make a client join, without a key but as if it asked itself,    *)
(* if the timestamp that they give, meant, is the client's or none.         *)
m_svsjoin(by, u, c, meant) == Act("svs") /\ Is(by, "service") /\ meant /\ Comes_in(u, c, FALSE)

(* A remote client, by the SJOIN of its server.                             *)
RemoteJoin(u, c) ==
    /\ Act("join") /\ u \notin Local /\ c \notin userchannel[u]
    /\ \E op \in BOOLEAN : add_user_to_channel(u, c, op)
    /\ UNCHANGED <<mode, banlists, stealth, odd, still>>

-----------------------------------------------------------------------------
(* remove_user_from_channel of all pairs of a set, and sub1_from_channel:   *)
(* an empty channel goes with its invitations and bans, unless it is kept.  *)
Sticky_Letters == {"A", "O", "L"} \cup (IF RestrictedChans THEN {"r"} ELSE {})
Freed(pairs) == {c \in channel :
    /\ \E u \in members[c] : <<u, c>> \in pairs
    /\ \A u \in members[c] : <<u, c>> \in pairs
    /\ mode[c] \cap Sticky_Letters = {}}

(* The invitations that go with the channels C, and those of the clients U. *)
Withdrawn_Kept(C, U) == {p \in Guest \X Channel : p[1] \in U}

Withdrawn(C, U) == {p \in Guest \X Channel : p[2] \in C \/ p[1] \in U}

remove_user(pairs, U) ==
    LET gone == Freed(pairs)
        out(c) == {u \in members[c] : <<u, c>> \in pairs}
    IN  /\ channel' = channel \ gone
        /\ kept' = kept \cup {c \in channel \ gone : out(c) # {} /\ out(c) = members[c]}
        /\ members' = [c \in Channel |-> members[c] \ out(c)]
        /\ chanop' = [c \in Channel |-> chanop[c] \ out(c)]
        /\ users' = [c \in Channel |-> IF c \in gone THEN 0 ELSE users[c] - Cardinality(out(c))]
        /\ iusers' = [c \in Channel |-> IF c \in gone THEN 0
                                        ELSE iusers[c] - Cardinality(out(c) \cap stealth)]
        /\ odd' = odd \ gone
        /\ userchannel' = [u \in Guest |-> {c \in userchannel[u] : <<u, c>> \notin pairs}]
        /\ joined' = [u \in Guest |-> joined[u] -
                          Cardinality({c \in userchannel[u] : <<u, c>> \in pairs})]
        /\ mode' = [c \in Channel |-> IF c \in gone THEN {} ELSE mode[c]]
        /\ banlist' = [c \in Channel |-> IF c \in gone THEN {} ELSE banlist[c]]
        /\ num_bed' = [c \in Channel |-> IF c \in gone THEN 0 ELSE num_bed[c]]
        /\ del_invite(Withdrawn(gone, U))
        /\ invitable' = {p \in invitable : p[1] \notin U /\ p[2] \notin gone}
        /\ nmsg' = [c \in Channel |-> [u \in Guest |->
                       IF <<u, c>> \in pairs THEN 0 ELSE nmsg[c][u]]]
        /\ lastmsg' = [c \in Channel |-> [u \in Guest |->
                       IF <<u, c>> \in pairs THEN 0 ELSE lastmsg[c][u]]]
        /\ heard' = [c \in Channel |-> [u \in Guest |->
                       IF <<u, c>> \in pairs THEN << >> ELSE heard[c][u]]]

(* m_part and m_kick.  What another server says of its own is believed.     *)
isok(by, c) == by \in chanop[c] \/ Is(by, "service") \/ by \notin Local
Out(u, c) ==
    /\ c \in userchannel[u]
    /\ remove_user({<<u, c>>}, {}) /\ UNCHANGED <<stealth, still>>
Part(u, c) == Act("part") /\ Out(u, c)
m_svspart(by, u, c, meant) ==
    Act("svs") /\ Is(by, "service") /\ u \in Local /\ meant /\ Out(u, c)
m_kick(by, u, c) ==
    /\ Act("part") /\ isok(by, c) /\ u \in members[c]
    /\ by \in Local => /\ u \notin stealth /\ ~Is(u, "service")
                       /\ (OperKickProtection /\ Is(u, "oper")) => Is(by, "oper")
    /\ remove_user({<<u, c>>}, {}) /\ UNCHANGED <<stealth, still>>
(* exit_one_client; the client comes back as a new one.                     *)
LeaveAll(u) ==
    /\ Act("part") /\ (userchannel[u] # {} \/ invited[u] # << >>)
    /\ remove_user({u} \X userchannel[u], {u})
    /\ stealth' = stealth \ {u} /\ UNCHANGED still
(* JOIN 0 of a remote client.                                               *)
JoinZero(u) ==
    /\ Act("part") /\ u \notin Local /\ userchannel[u] # {}
    /\ remove_user({u} \X userchannel[u], {}) /\ UNCHANGED <<stealth, still>>

(* +S and -S come from services (m_svsmode), in whatever channels one is.   *)
Stealthy(u) ==
    /\ Act("S")
    /\ stealth' = IF u \in stealth THEN stealth \ {u} ELSE stealth \cup {u}
    /\ odd' = odd \cup userchannel[u]
    /\ UNCHANGED <<channel, mode, members, chanop, users, iusers, userchannel, joined, kept,
                   banlists, talk, still>>

-----------------------------------------------------------------------------
(* add_invite; the oldest invitation gives way.                             *)
add_invite(u, c) ==
    LET others == Pick(invited[u], {i \in DOMAIN invited[u] : invited[u][i] # c})
        held   == IF Len(others) >= MaxChansPerUser THEN Tail(others) ELSE others
    IN  /\ invited' = [invited EXCEPT ![u] = Append(held, c)]
        /\ invites' = [d \in Channel |->
              IF d = c THEN invites[d] \cup {u}
              ELSE IF Contains(held, d) THEN invites[d] ELSE invites[d] \ {u}]
        /\ invitable' = {p \in invitable : p[1] = u => Contains(held, p[2])} \cup {<<u, c>>}

(* m_invite: only for a channel that an invitation helps with.              *)
NeedInvite(by, c) ==
    \/ mode[c] \cap {"O", "A"} # {} /\ (Is(by, "oper") \/ Is(by, "service"))
    \/ /\ mode[c] \cap {"O", "A"} = {} /\ mode[c] \cap {"i", "B"} # {}
       /\ by \in chanop[c] \/ Is(by, "service")
m_invite(by, u, c) ==
    /\ Act("invite") /\ c \in channel /\ u \in Local
    /\ by \in members[c] \/ Is(by, "service")
    /\ u \notin members[c] \/ u \in stealth
    /\ NeedInvite(by, c)
    /\ add_invite(u, c)
    /\ UNCHANGED <<mode, books, banlist, num_bed, stealth, talk, still>>

(* set_channel_mode.  For +r and -r one has to be a service, for O an       *)
(* operator of the network and for A an administrator; nothing else.        *)
Permitted(by, c, x) ==
    \/ Is(by, "service")
    \/ IF x = "r" THEN FALSE ELSE IF x = "O" THEN Is(by, "oper")
       ELSE IF x = "A" THEN Is(by, "admin") ELSE isok(by, c)
SetMode(by, c, x) ==
    /\ Act(x) /\ c \in channel /\ x \notin mode[c] /\ Permitted(by, c, x)
    /\ mode' = [mode EXCEPT ![c] = @ \cup {x}]
    /\ UNCHANGED <<books, banlists, stealth, talk, still>>
(* -i takes every invitation back.                                          *)
TakenBack(c, x) == IF x = "i" THEN {c} ELSE {}
UnsetMode(by, c, x) ==
    /\ Act(x) /\ c \in channel /\ Permitted(by, c, x) /\ x \in mode[c] \cup {"i"}
    /\ mode' = [mode EXCEPT ![c] = @ \ {x}]
    /\ del_invite(Withdrawn(TakenBack(c, x), {}))
    /\ invitable' = IF x = "i" THEN {p \in invitable : p[2] # c} ELSE invitable
    /\ UNCHANGED <<books, banlist, num_bed, stealth, talk, still>>
Opping(by, u, c) ==
    /\ Act("o") /\ isok(by, c) /\ u \in members[c]
    /\ by \in Local => u \notin stealth /\ by \in members[c] \ stealth
    /\ \E v \in {chanop[c] \cup {u}, chanop[c] \ {u}} : chanop' = [chanop EXCEPT ![c] = v]
    /\ UNCHANGED <<channel, mode, members, users, iusers, userchannel, joined, odd, kept,
                   banlists, stealth, talk, still>>

(* add_banid: not beyond MAXBANS for a local client, nor a mask that one in *)
(* the list covers.                                                         *)
CoversMask(m, n) == Bans[n] \subseteq Bans[m]
add_banid(by, c, m) ==
    /\ Act("b") /\ c \in channel /\ isok(by, c)
    /\ by \in Local => num_bed[c] < MAXBANS
    /\ ~\E n \in banlist[c] : CoversMask(n, m)
    /\ banlist' = [banlist EXCEPT ![c] = @ \cup {m}]
    /\ num_bed' = [num_bed EXCEPT ![c] = @ + 1]
    /\ UNCHANGED <<mode, books, invites, invited, invitable, stealth, talk, still>>
del_banid(by, c, m) ==
    /\ Act("b") /\ isok(by, c) /\ m \in banlist[c]
    /\ banlist' = [banlist EXCEPT ![c] = @ \ {m}]
    /\ num_bed' = [num_bed EXCEPT ![c] = @ - 1]
    /\ UNCHANGED <<mode, books, invites, invited, invitable, stealth, talk, still>>

-----------------------------------------------------------------------------
(* can_send.  check_for_chan_flood restarts the count after PER seconds of  *)
(* silence, and stops the line that makes it MSGS.                          *)
Waited(u, c) == CurrentTime - lastmsg[c][u] >= PER
Free_to_speak(u, c) == Is(u, "service") \/ u \in chanop[c]
can_send(u, c) ==
    /\ ~(u \in Local /\ u \in stealth)
    /\ \/ Free_to_speak(u, c)
       \/ /\ "n" \in mode[c] => u \in members[c]
          /\ "m" \notin mode[c] /\ ~is_banned(u, c)
Limited(u, c) ==
    u \in Local \cap members[c] /\ ~Free_to_speak(u, c) /\ "f" \in mode[c]
Say(u, c) ==
    /\ Act("say") /\ c \in channel /\ can_send(u, c)
    /\ IF Limited(u, c)
       THEN LET n == IF Waited(u, c) THEN 1 ELSE nmsg[c][u] + 1
            IN  /\ nmsg' = [nmsg EXCEPT ![c][u] = n]
                /\ lastmsg' = [lastmsg EXCEPT ![c][u] = CurrentTime]
                /\ heard' = IF n >= MSGS THEN heard
                            ELSE [heard EXCEPT ![c][u] = Append(@, CurrentTime)]
       ELSE UNCHANGED talk
    /\ UNCHANGED <<mode, books, banlists, stealth, still>>

Second ==
    /\ "say" \in scene /\ acts < Scene[scene] /\ acts' = acts + 1
    /\ CurrentTime' = CurrentTime + 1
    /\ UNCHANGED <<mode, books, banlists, stealth, talk, scene>>

RNext ==
    \/ Second
    \/ \E u \in Guest : LeaveAll(u) \/ JoinZero(u) \/ Stealthy(u)
    \/ \E u \in Guest, c \in Channel :
          \/ RemoteJoin(u, c) \/ Part(u, c) \/ Say(u, c)
          \/ \E key \in BOOLEAN : m_join(u, c, key)
          \/ \E v \in Guest, meant \in BOOLEAN :
                m_svsjoin(u, v, c, meant) \/ m_svspart(u, v, c, meant)
          \/ \E v \in Guest : m_kick(u, v, c) \/ m_invite(u, v, c) \/ Opping(u, v, c)
          \/ \E x \in Mode : SetMode(u, c, x) \/ UnsetMode(u, c, x)
          \/ \E m \in Banmask : add_banid(u, c, m) \/ del_banid(u, c, m)

RSpec == RInit /\ [][RNext]_rvars

-----------------------------------------------------------------------------
(* A channel and its clients list each other and count right, its bans and  *)
(* invitations are counted and listed on both sides; what does not exist    *)
(* has left nothing behind, and an empty channel is one that was kept.      *)
(* (add_user_to_channel, remove_user_from_channel, sub1_from_channel,       *)
(* add_banid, add_invite, del_invite.)                                      *)
Booked ==
    /\ \A c \in Channel :
        /\ users[c] = Cardinality(members[c]) /\ chanop[c] \subseteq members[c]
        /\ c \in odd \/ iusers[c] = Cardinality(members[c] \cap stealth)
        /\ num_bed[c] = Cardinality(banlist[c])
        /\ c \notin channel => members[c] \cup banlist[c] \cup invites[c] \cup mode[c] = {}
        /\ c \in channel => members[c] # {} \/ c \in kept
        /\ \A u \in Guest : /\ u \in members[c] <=> c \in userchannel[u]
                            /\ u \in invites[c] <=> Contains(invited[u], c)
    /\ \A u \in Guest : /\ joined[u] = Cardinality(userchannel[u])
                        /\ IsInjective(invited[u]) /\ Len(invited[u]) <= MaxChansPerUser

(* Every invitation was given for the channel as it now exists and since    *)
(* its last -i, and nobody sits in a channel with one in hand but who is    *)
(* stealthy or was when invited.  (m_invite, m_join, set_channel_mode,      *)
(* sub1_from_channel, exit_one_client.)                                     *)
InvitesFresh ==
    \A u \in Guest, c \in Channel :
        u \in invites[c] => /\ <<u, c>> \in invitable
                            /\ u \in members[c] => c \in odd \/ u \in stealth

(* No local client without ops or voice gets MSGS lines into a channel with *)
(* +f within PER seconds, as long as it stays in.  (check_for_chan_flood,   *)
(* can_send.)                                                               *)
FloodHeld ==
    \A c \in Channel, u \in Guest :
        \A i \in 1 .. Len(heard[c][u]) - MSGS + 1 :
            heard[c][u][i + MSGS - 1] - heard[c][u][i] >= PER

(* The books of a channel, the invitations to it and its flood limit, as    *)
(* above.                                                                   *)
RoomRight == Booked /\ InvitesFresh /\ FloodHeld
===============================================================================
