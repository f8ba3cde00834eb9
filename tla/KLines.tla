-------------------------------- MODULE KLines --------------------------------
(***************************************************************************)
(* The K-lines and D-lines of one server: the commands of its operators,    *)
(* the copy in memory, kline.conf with an editor that may lock it, the      *)
(* lines that wait for the lock, temporary K-lines, and the hunt of         *)
(* check_pings for the clients that a new line is about.  What matches what *)
(* is a constant here; ConfTables has the matching.                         *)
(***************************************************************************)
EXTENDS Integers, Sequences, FiniteSets, Lists

CONSTANTS
    KUser,       \* clients
    Ban,         \* masks that lines are placed on
    Kind,        \* Kind[b]: "K" or "D"
    Form,        \* Form[b]: "host" or "ip"
    Whom,      \* Whom[b]: the clients it is about
    Spared,      \* Spared[k]: clients with an exempt I line (K), a d-line (D)
    Hold,        \* how long a temporary K-line lasts
    MaxNow, MaxCmds    \* bounds: the clock, the commands

ASSUME KLinesAssumption ==
    /\ Kind \in [Ban -> {"K", "D"}] /\ Form \in [Ban -> {"host", "ip"}]
    /\ Whom \in [Ban -> SUBSET KUser] /\ Spared \in [{"K", "D"} -> SUBSET KUser]
    /\ Hold \in Nat \ {0} /\ MaxNow \in Nat /\ MaxCmds \in Nat

VARIABLES
    client,     \* client[u]: "off", "unknown" (not registered), "person"
    inforce,    \* the K-lines and D-lines in the tables
    temporary,  \* temporary_klines and temporary_ip_klines: [ban, hold]
    conf,       \* the lines in kline.conf
    locked,     \* somebody edits kline.conf
    PendingLines,
    rehashed, dline_in_progress,
    now, cmds,
    missed      \* history: lines that nothing hunts for, see Clean

kvars == <<client, inforce, temporary, conf, locked, PendingLines, rehashed,
           dline_in_progress, now, cmds, missed>>

KEntry == [ban : Ban, hold : Nat]

KTypeOK ==
    /\ client \in [KUser -> {"off", "unknown", "person"}]
    /\ inforce \in SUBSET Ban /\ conf \in SUBSET Ban
    /\ temporary \in [{"host", "ip"} -> Seq(KEntry)] /\ PendingLines \in Seq(Ban)
    /\ {locked, rehashed, dline_in_progress} \subseteq BOOLEAN
    /\ now \in 0 .. MaxNow /\ cmds \in 0 .. MaxCmds /\ missed \in SUBSET Ban

KInit == /\ client = [u \in KUser |-> "off"]
         /\ inforce = {} /\ conf = {}
         /\ temporary = [f \in {"host", "ip"} |-> << >>]
         /\ locked = FALSE /\ PendingLines = << >>
         /\ rehashed = FALSE /\ dline_in_progress = FALSE
         /\ now = 0 /\ cmds = 0 /\ missed = {}

Elements(s) == {s[i] : i \in DOMAIN s}
OfKind(k) == {b \in Ban : Kind[b] = k}
About(S, u) == \E b \in S : u \in Whom[b]

-----------------------------------------------------------------------------
(* find_tkline for each set of clients in Q: entries that are over are      *)
(* removed up to the first one that matches.                                *)
KOver(e) == e.hold <= now
Hit(e, U) == ~KOver(e) /\ U \subseteq Whom[e.ban]
HasHit(s, U) == \E i \in DOMAIN s : Hit(s[i], U)
Swept(s, Q) ==
    Pick(s, {i \in DOMAIN s : KOver(s[i]) => \A U \in Q : \E j \in 1 .. i - 1 : Hit(s[j], U)})
find_tkline(U) == HasHit(temporary["host"], U) \/ HasHit(temporary["ip"], U)
AfterFind(Q) == [temporary EXCEPT !["host"] = Swept(@, Q),
                                  !["ip"] = Swept(@, {U \in Q : ~HasHit(temporary["host"], U)})]

KLined(U) == \E b \in inforce : Kind[b] = "K" /\ U \subseteq Whom[b]

(* What a new line does to the hunt: the one flag makes it forget the       *)
(* clients that lines of the other kind were to be hunted for.              *)
Due(k) == rehashed /\ dline_in_progress = (k = "D")
Other(k) == IF k = "K" THEN "D" ELSE "K"
InTables == inforce \cup {e.ban : e \in Elements(temporary["host"]) \cup Elements(temporary["ip"])}
Overtaken(k) == IF Due(Other(k)) THEN InTables \cap OfKind(Other(k)) ELSE {}
Hunt(k) == /\ rehashed' = TRUE /\ dline_in_progress' = (k = "D")
           /\ missed' = missed \cup Overtaken(k)
KCommand == cmds < MaxCmds /\ cmds' = cmds + 1

(* WritePendingLines and the new line.                                      *)
Written_Dropped(b) == {b}
Written(b) == Elements(PendingLines) \cup {b}

Store(b) ==
    /\ inforce' = inforce \cup {b}
    /\ IF locked
       THEN /\ PendingLines' = <<b>> \o PendingLines
            /\ missed' = missed \cup {b}
            /\ UNCHANGED <<conf, rehashed, dline_in_progress>>
       ELSE /\ conf' = conf \cup Written(b) /\ PendingLines' = << >>
            /\ Hunt(Kind[b])

-----------------------------------------------------------------------------
(* m_kline: is_klined, then a permanent or a temporary line.                *)
is_klined(U) == find_tkline(U) \/ KLined(U)
KLined_Already(b) ==
    /\ KCommand /\ Kind[b] = "K" /\ is_klined(Whom[b])
    /\ temporary' = AfterFind({Whom[b]})
    /\ UNCHANGED <<client, inforce, conf, locked, PendingLines, rehashed,
                   dline_in_progress, now, missed>>

KLine(b) ==
    /\ KCommand /\ Kind[b] = "K" /\ ~is_klined(Whom[b])
    /\ temporary' = AfterFind({Whom[b]})
    /\ Store(b)
    /\ UNCHANGED <<client, locked, now>>

TempKLine(b) ==
    /\ KCommand /\ Kind[b] = "K" /\ ~is_klined(Whom[b])
    /\ temporary' = [AfterFind({Whom[b]}) EXCEPT
                         ![Form[b]] = <<[ban |-> b, hold |-> now + Hold]>> \o @]
    /\ Hunt("K")
    /\ UNCHANGED <<client, inforce, conf, locked, PendingLines, now>>

(* m_dline: a range that a D-line or a d-line covers is refused.            *)
DLine(b) ==
    /\ KCommand /\ Kind[b] = "D"
    /\ ~\E d \in inforce : Kind[d] = "D" /\ Whom[b] \subseteq Whom[d]
    /\ Store(b)
    /\ UNCHANGED <<client, temporary, locked, now>>

(* rehash: the tables are filled from the file; lines that only wait to be  *)
(* written are forgotten until then.                                        *)
Reread(file) ==
    /\ conf' = file /\ inforce' = file /\ rehashed' = TRUE
    /\ missed' = missed \cup ((file \ inforce) \cap OfKind(IF dline_in_progress' THEN "K" ELSE "D"))

(* m_unkline: a temporary K-line, or the line in the file.                  *)
FirstTemp(b) ==
    LET s == temporary[Form[b]]
        hits == {i \in DOMAIN s : IF Form[b] = "ip" THEN Whom[b] \subseteq Whom[s[i].ban]
                                                    ELSE s[i].ban = b}
    IN  IF hits = {} THEN 0 ELSE CHOOSE i \in hits : \A j \in hits : i <= j
UnTemp(b) ==
    LET i == FirstTemp(b)
    IN  /\ KCommand /\ Kind[b] = "K" /\ i # 0
        /\ temporary' = [temporary EXCEPT ![Form[b]] =
                             SubSeq(@, 1, i - 1) \o SubSeq(@, i + 1, Len(@))]
        /\ UNCHANGED <<client, inforce, conf, locked, PendingLines, rehashed,
                       dline_in_progress, now, missed>>

(* The file is copied without the line, and read again: of a K-line if no   *)
(* temporary one was removed, of a D-line (m_undline) always.               *)
Copied_without(b) == UNCHANGED dline_in_progress /\ Reread(conf \ {b})
UnLine(b) ==
    /\ KCommand /\ (Kind[b] = "K" => FirstTemp(b) = 0)
    /\ Copied_without(b)
    /\ UNCHANGED <<client, temporary, locked, PendingLines, now>>

(* REHASH, REHASH DLINES, REHASH TKLINES.                                   *)
KRehash ==
    /\ KCommand /\ UNCHANGED dline_in_progress /\ Reread(conf)
    /\ UNCHANGED <<client, temporary, locked, PendingLines, now>>
RehashDlines ==
    /\ KCommand /\ dline_in_progress' = TRUE
    /\ conf' = conf /\ inforce' = conf /\ rehashed' = TRUE
    /\ missed' = missed \cup Overtaken("D") \cup ((conf \ inforce) \cap OfKind("K"))
    /\ UNCHANGED <<client, temporary, locked, PendingLines, now>>
flush_temp_klines ==
    /\ KCommand /\ temporary' = [f \in {"host", "ip"} |-> << >>]
    /\ UNCHANGED <<client, inforce, conf, locked, PendingLines, rehashed,
                   dline_in_progress, now, missed>>

(* The editor of kline.conf.                                                *)
Edit == /\ locked' = ~locked
        /\ IF locked THEN UNCHANGED cmds ELSE KCommand
        /\ UNCHANGED <<client, inforce, temporary, conf, PendingLines, rehashed,
                       dline_in_progress, now, missed>>

-----------------------------------------------------------------------------
(* add_connection: conf_connect_allowed.                                    *)
DLined(u) == u \notin Spared["D"] /\ About(inforce \cap OfKind("D"), u)
Accept(u) ==
    /\ client[u] = "off" /\ ~DLined(u)
    /\ client' = [client EXCEPT ![u] = "unknown"]
    /\ UNCHANGED <<inforce, temporary, conf, locked, PendingLines, rehashed,
                   dline_in_progress, now, cmds, missed>>

(* verify_access: the tables, then the temporary K-lines.                   *)
verify_access(u) == u \notin Spared["K"] => ~KLined({u}) /\ ~find_tkline({u})

KRegister(u) ==
    /\ client[u] = "unknown"
    /\ client' = [client EXCEPT ![u] = IF verify_access(u) THEN "person" ELSE "off"]
    /\ temporary' = IF u \in Spared["K"] THEN temporary ELSE AfterFind({{u}})
    /\ UNCHANGED <<inforce, conf, locked, PendingLines, rehashed, dline_in_progress,
                   now, cmds, missed>>

KQuit(u) ==
    /\ client[u] # "off" /\ client' = [client EXCEPT ![u] = "off"]
    /\ UNCHANGED <<inforce, temporary, conf, locked, PendingLines, rehashed,
                   dline_in_progress, now, cmds, missed>>

(* check_pings: hunts for D-lines or else for K-lines.                      *)
Huntable == {u \in KUser : client[u] = "person" /\ u \notin Spared["K"]}
Target(u) == IF dline_in_progress THEN client[u] # "off" /\ DLined(u)
             ELSE u \in Huntable /\ is_klined({u})
check_pings ==
    /\ rehashed
    /\ client' = [u \in KUser |-> IF Target(u) THEN "off" ELSE client[u]]
    /\ temporary' = IF dline_in_progress THEN temporary
                    ELSE AfterFind({{u} : u \in Huntable})
    /\ missed' = missed \cap OfKind(IF dline_in_progress THEN "K" ELSE "D")
    /\ rehashed' = FALSE /\ dline_in_progress' = FALSE
    /\ UNCHANGED <<inforce, conf, locked, PendingLines, now, cmds>>

KTick == /\ now < MaxNow /\ now' = now + 1
        /\ UNCHANGED <<client, inforce, temporary, conf, locked, PendingLines,
                       rehashed, dline_in_progress, cmds, missed>>

(* The process dies and is started again.                                   *)
Restart ==
    /\ KCommand
    /\ client' = [u \in KUser |-> "off"] /\ inforce' = conf
    /\ temporary' = [f \in {"host", "ip"} |-> << >>] /\ PendingLines' = << >>
    /\ rehashed' = TRUE /\ dline_in_progress' = FALSE /\ missed' = {}
    /\ UNCHANGED <<conf, locked, now>>

KNext == \/ \E b \in Ban : KLined_Already(b) \/ KLine(b) \/ TempKLine(b)
                          \/ DLine(b) \/ UnTemp(b) \/ UnLine(b)
         \/ KRehash \/ RehashDlines \/ flush_temp_klines \/ Edit
         \/ \E u \in KUser : Accept(u) \/ KRegister(u) \/ KQuit(u)
         \/ check_pings \/ KTick \/ Restart

KSpec == KInit /\ [][KNext]_kvars

-----------------------------------------------------------------------------
(* What is in force for good is in the file or waits to be written there.   *)
(* (m_kline, m_dline, WritePendingLines, rehash.)                           *)
Kept == inforce \subseteq conf \cup Elements(PendingLines)

(* Nobody stays on the server whom a line in force is about, but while the  *)
(* hunt is due; except for the lines that the code never hunts for: those   *)
(* placed while the file is locked, those whose hunt a line of the other    *)
(* kind overtook, and those that a rehash brings in of the kind it does not *)
(* hunt for.  (m_kline, m_dline, check_pings, verify_access.)               *)
Current(f) == {e.ban : e \in {x \in Elements(temporary[f]) : ~KOver(x)}}
Clean ==
    \A u \in KUser, b \in (inforce \cup Current("host") \cup Current("ip")) \ missed :
        u \in Whom[b] \ Spared[Kind[b]] =>
            \/ client[u] = "off" \/ Due(Kind[b])
            \/ Kind[b] = "K" /\ client[u] = "unknown"

(* The file and the clients, as above, follow the lines in force.           *)
KLinesRight == Kept /\ Clean
===============================================================================
