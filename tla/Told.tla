---------------------------------- MODULE Told ----------------------------------
(***************************************************************************)
(* What the members of a channel on one server are told of its modes and of *)
(* the status of its members, and what holds.  A MODE tells what it does; a *)
(* netjoin compares the modes before and after it, letter by letter, and    *)
(* names the members it takes status from.  ChanTS has what a netjoin       *)
(* decides between servers; here is what its clients see of it, and what    *)
(* becomes of the flood limit, which is kept twice: as two numbers, and as  *)
(* a flag that can_send looks at.                                           *)
(***************************************************************************)
EXTENDS Naturals, FiniteSets

CONSTANTS
    Here, There,        \* clients of this server, and of the one behind the link
    Founder,            \* the client who made the channel, and stays
    Letter,             \* modes that are one letter
    Limits, Keys, Msgs, \* what +l, +k and the first number of +f may be; 0 is none
    Offered,            \* channel modes that a netjoin brings
    MaxSaid, MaxDone    \* bounds: lines said since the last +f or -f; steps

ASSUME ToldAssumption ==
    /\ Founder \in Here /\ Here \cap There = {}
    /\ Limits \subseteq Nat \ {0} /\ Keys \subseteq Nat \ {0} /\ Msgs \subseteq Nat \ {0, 1}
    /\ Offered \subseteq [flags : SUBSET Letter, limit : Limits \cup {0},
                          key : Keys \cup {0}, msgs : Msgs \cup {0}]

Guests == Here \cup There
Status == {"a", "o", "v"}

VARIABLES
    members, status,    \* status[u]: its letters, and d, the mark of the deopped
    modes,              \* letters, limit, key and flood limit
    limited,            \* MODE_FLOODLIMIT
    nmsg,               \* of the memberships
    told,               \* what the founder has been told: modes and statuses
    done,
    said                \* history: lines of u since the last +f or -f that was told

tvars_ == <<members, status, modes, limited, nmsg, told, done, said>>

Plain == [flags |-> {}, limit |-> 0, key |-> 0, msgs |-> 0]
Nothing == [u \in Guests |-> {}]
Zero == [u \in Guests |-> 0]

(* The founder is opped, and was shown the modes of a new channel.          *)
ToInit ==
    /\ members = {Founder} /\ status = [Nothing EXCEPT ![Founder] = {"o"}]
    /\ modes = Plain /\ limited = FALSE /\ nmsg = Zero /\ said = Zero /\ done = 0
    /\ told = [modes |-> Plain, status |-> status]

(* A client that comes or goes is known to be without status; how those of  *)
(* the other server come is below.                                          *)
Enters(u) ==
    /\ u \in Here \ members /\ members' = members \cup {u}
    /\ status' = [status EXCEPT ![u] = {}] /\ nmsg' = [nmsg EXCEPT ![u] = 0]
    /\ told' = [told EXCEPT !.status[u] = {}] /\ said' = [said EXCEPT ![u] = 0]
    /\ UNCHANGED <<modes, limited>>
Leaves(u) ==
    /\ u \in members \ {Founder} /\ members' = members \ {u}
    /\ status' = [status EXCEPT ![u] = {}] /\ nmsg' = [nmsg EXCEPT ![u] = 0]
    /\ told' = [told EXCEPT !.status[u] = {}] /\ said' = [said EXCEPT ![u] = 0]
    /\ UNCHANGED <<modes, limited>>

-----------------------------------------------------------------------------
(* set_channel_mode, for one letter of a MODE; isok is an operator, or a      *)
(* client behind the link who is not marked.                                *)
May_set(by) == "o" \in status[by] \/ (by \in There /\ "d" \notin status[by])

Lettered(by, x) ==
    /\ May_set(by)
    /\ \E new \in {modes.flags \cup {x}, modes.flags \ {x}} :
          modes' = [modes EXCEPT !.flags = new] /\ told' = [told EXCEPT !.modes.flags = new]
    /\ UNCHANGED <<members, status, limited, nmsg, said>>
Limiting(by) ==
    /\ May_set(by)
    /\ \E n \in Limits \cup {0} :
          modes' = [modes EXCEPT !.limit = n] /\ told' = [told EXCEPT !.modes.limit = n]
    /\ UNCHANGED <<members, status, limited, nmsg, said>>
(* A key takes the place of the one before, whose end is told too.          *)
Keying(by) ==
    /\ May_set(by)
    /\ \E k \in Keys \cup {0} :
          modes' = [modes EXCEPT !.key = k] /\ told' = [told EXCEPT !.modes.key = k]
    /\ UNCHANGED <<members, status, limited, nmsg, said>>
Flooding(by) ==
    /\ May_set(by)
    /\ \E n \in Msgs \cup {0} :
          /\ modes' = [modes EXCEPT !.msgs = n] /\ limited' = (n # 0)
          /\ told' = [told EXCEPT !.modes.msgs = n]
    /\ said' = Zero /\ UNCHANGED <<members, status, nmsg>>

(* +a and -a, +o and so on.  One of ours may only take its own +a away, may *)
(* not take ops from one with +a, and nobody ops himself.                   *)
MayGrant(by, u, x, sign) ==
    /\ by \in Here => /\ x = "a" => sign = "-" /\ by = u
                      /\ x # "a" /\ sign = "-" /\ "a" \in status[u] => "a" \in status[by]
    /\ ~(by = u /\ x = "o" /\ sign = "+")
Granted(s, x, sign) ==
    IF sign = "+" THEN (s \cup {x}) \ (IF x = "o" THEN {"d"} ELSE {}) ELSE s \ {x}
Granting(by, u, x, sign) ==
    /\ May_set(by) /\ u \in members /\ MayGrant(by, u, x, sign)
    /\ status' = [status EXCEPT ![u] = Granted(@, x, sign)]
    /\ told' = [told EXCEPT !.status[u] = Granted(@, x, sign)]
    /\ UNCHANGED <<members, modes, limited, nmsg, said>>
(* Whom a marked client ops is marked as well.                              *)
Marks(by, u) ==
    /\ by \in There /\ "d" \in status[by] /\ "o" \notin status[by]
    /\ u \in members /\ u # by /\ "o" \notin status[u]
    /\ status' = [status EXCEPT ![u] = @ \cup {"d"}]
    /\ UNCHANGED <<members, modes, limited, nmsg, told, said>>

-----------------------------------------------------------------------------
(* m_sjoin.                                                                 *)
Higher(i, j) == IF i > j THEN i ELSE j
Together(old, new) ==
    [flags |-> new.flags \cup old.flags, limit |-> Higher(old.limit, new.limit),
     key |-> Higher(old.key, new.key), msgs |-> IF old.msgs # 0 THEN old.msgs ELSE new.msgs]

(* What is told: the letters that come, those that go (but for K), and the  *)
(* parameters that differ.                                                  *)
Come(old, new) == new.flags \ old.flags
Gone(old, new) == (old.flags \ new.flags) \ {"K"}
Parameters_Set(t, old, new) ==
    [limit |-> IF old.limit = 0 THEN new.limit ELSE t.limit,
     key |-> IF old.key # new.key THEN new.key ELSE t.key,
     msgs |-> IF old.msgs # new.msgs THEN new.msgs ELSE t.msgs]
Parameters(t, old, new) ==
    [limit |-> IF old.limit # new.limit THEN new.limit ELSE t.limit,
     key |-> IF old.key # new.key THEN new.key ELSE t.key,
     msgs |-> IF old.msgs # new.msgs THEN new.msgs ELSE t.msgs]
ModeLine(t, old, new) ==
    LET p == Parameters(t, old, new)
    IN  [flags |-> (t.flags \cup Come(old, new)) \ Gone(old, new),
         limit |-> p.limit, key |-> p.key, msgs |-> p.msgs]

(* The newcomer u with its prefixes pf, and a channel that is older than    *)
(* ours, younger, or the same.                                              *)
Netjoin(u, pf, m, age) ==
    LET doesop  == "o" \in pf
        haveops == \E v \in members : "o" \in status[v]
        ours    == age = "older" => ~doesop
        theirs  == age = "younger" => ~haveops
        new     == IF ~theirs THEN modes ELSE IF ours THEN Together(modes, m) ELSE m
        given   == IF theirs THEN pf
                   ELSE IF "o" \in pf /\ "a" \notin pf THEN {"d"} ELSE {}
        left(v) == IF ours THEN {} ELSE Status
    IN  /\ u \in There \ members /\ members' = members \cup {u}
        /\ modes' = new
        /\ limited' = (limited /\ (~theirs \/ ours))
        /\ status' = [v \in Guests |-> IF v = u THEN given ELSE status[v] \ left(v)]
        /\ told' = [modes |-> ModeLine(told.modes, modes, new),
                    status |-> [v \in Guests |->
                        IF v = u THEN given \cap Status
                        ELSE told.status[v] \ (left(v) \cap status[v])]]
        /\ nmsg' = [nmsg EXCEPT ![u] = 0]
        /\ said' = IF new.msgs # modes.msgs THEN Zero ELSE [said EXCEPT ![u] = 0]

(* can_send, of lines within the seconds of a +f: the flag decides whether  *)
(* the numbers matter.                                                      *)
Held(u) == "o" \notin status[u] /\ "v" \notin status[u]
Speak(u) ==
    /\ u \in members \cap Here /\ Held(u) /\ modes.msgs # 0
    /\ said[u] < MaxSaid /\ nmsg[u] < MaxSaid
    /\ nmsg' = IF limited THEN [nmsg EXCEPT ![u] = @ + 1] ELSE nmsg
    /\ said' = IF limited /\ nmsg[u] + 1 >= modes.msgs THEN said
               ELSE [said EXCEPT ![u] = @ + 1]
    /\ UNCHANGED <<members, status, modes, limited, told>>

ToNext ==
    /\ done < MaxDone /\ done' = done + 1
    /\ \/ \E u \in Guests : Enters(u) \/ Leaves(u) \/ Speak(u)
       \/ \E by \in Guests :
             \/ Limiting(by) \/ Keying(by) \/ Flooding(by)
             \/ \E x \in Letter : Lettered(by, x)
             \/ \E u \in Guests, x \in Status, sign \in {"+", "-"} : Granting(by, u, x, sign)
             \/ \E u \in Guests : Marks(by, u)
       \/ \E u \in There, pf \in SUBSET Status, m \in Offered,
             age \in {"older", "same", "younger"} : Netjoin(u, pf, m, age)

ToSpec == ToInit /\ [][ToNext]_tvars_

-----------------------------------------------------------------------------
(* Who has been in a channel since it was made knows its modes and who has  *)
(* what status in it; but for K, whose end in a netjoin is not told.        *)
(* (set_channel_mode, m_sjoin, sjoin_sendit.)                               *)
AsTold ==
    /\ told.modes.flags \ {"K"} = modes.flags \ {"K"} /\ modes.flags \subseteq told.modes.flags
    /\ <<told.modes.limit, told.modes.key, told.modes.msgs>>
       = <<modes.limit, modes.key, modes.msgs>>
    /\ \A u \in members : told.status[u] = status[u] \cap Status

(* "Channel mode +f detects channel flooders, and blocks their messages."   *)
(* (samples/help.user; m_sjoin, can_send.)                                  *)
FloodersBlocked ==
    told.modes.msgs # 0 => \A u \in Here \cap members : said[u] < told.modes.msgs
=================================================================================
