------------------------------ MODULE ConfTables ------------------------------
(***************************************************************************)
(* The tables that a server matches its clients with, filled line by line   *)
(* from the conf files or by KLINE and DLINE, and cleared by a rehash: the  *)
(* trees of D-lines and of K-lines on addresses (dline_conf.c), the trie of *)
(* host labels and the lists of masks that do not fit it (mtrie_conf.c).    *)
(*                                                                          *)
(* A host is the sequence of its labels, top level domain first.  A level   *)
(* of the trie is named by the path of labels to it and has a chain of      *)
(* pieces per bucket.  The 256 trees of the code are one.                   *)
(***************************************************************************)
EXTENDS IpTree, FiniteSets, Bitwise

CONSTANTS
    Def,         \* Def[l]: what line l says, see LineDef
    Label,       \* labels and first labels of masks
    Bucket,      \* Bucket[x]: the low bits of the first character of x
    Matches,     \* <<pattern, label>>: match() for first labels
    Client,      \* clients to look up: [host, user, ip]
    File,        \* the files a rehash may find: sets of lines
    LP64         \* unsigned long has 64 bits

Line == DOMAIN Def
LineDef == [type : {"I", "K", "D"},
            exempt : BOOLEAN,                         \* CONF_FLAGS_E_LINED
            user : {"*"} \cup {c.user : c \in Client},
            form : {"host", "any", "odd", "ip"},      \* sortable, *, unsortable, address
            host : Seq(Label), wild : BOOLEAN,        \* its labels; begins with *
            odd : SUBSET {c.host : c \in Client},     \* what an odd mask matches
            ip : Nat, len : 1 .. Width]
Chain == {Bucket[x] : x \in Label}

ASSUME ConfTablesAssumption ==
    /\ Def \in [Line -> LineDef] /\ Bucket \in [Label -> Nat]
    /\ Matches \subseteq Label \X Label
    /\ \A c \in Client : c.host \in Seq(Label) /\ c.ip \in 0 .. 2 ^ Width - 1
    /\ File \subseteq SUBSET Line /\ LP64 \in BOOLEAN

VARIABLES
    file, unread,   \* the lines of the file, those that have not been read
    dline, oracle, leftover,       \* Dline[], oracle[], leftover
    ip_Kline, ike_oracle,
    trie,      \* trie_list: path -> bucket -> chain of pieces
    status,    \* status[l] of the conf items that are in the tables
    lists,     \* the unsortable and wildcard lists
    table, spare, lost   \* history: what the D-lines should be, D-lines dropped

vars == <<file, unread, dline, oracle, leftover, ip_Kline, ike_oracle, trie, status,
          lists, table, spare, lost>>

None == "-"
user_matches(pattern, user) == pattern \in {"*", user}
type(l) == Def[l].type
Elined(l) == Def[l].exempt
Select(s, Test(_)) == SelectSeq(s, Test)
Members(s) == {s[i] : i \in DOMAIN s}
FirstOf(s, Test(_)) == Head(Append(SelectSeq(s, Test), None))
LastOf(s, Test(_)) == LET hits == SelectSeq(s, Test)
                      IN  IF hits = << >> THEN None ELSE hits[Len(hits)]

Lists == [ilines |-> << >>, klines |-> << >>, wildcard |-> << >>, ip_i |-> << >>]

Init == /\ file \in File /\ unread = file
        /\ dline = NULL /\ oracle = 0 /\ leftover = << >>
        /\ ip_Kline = NULL /\ ike_oracle = 0
        /\ trie = << >>
        /\ status = [l \in Line |-> {type(l)}]
        /\ lists = Lists
        /\ table = {} /\ spare = {} /\ lost = {}

Unchanged_D == UNCHANGED <<dline, oracle, leftover, table, spare, lost>>
Unchanged_Trie == UNCHANGED <<trie, status, lists>>
Unchanged_K == UNCHANGED <<ip_Kline, ike_oracle>>
Read(l) == l \in unread /\ unread' = unread \ {l} /\ UNCHANGED file

-----------------------------------------------------------------------------
(* dline_conf.c.  The oracle collects the bits of all addresses of a line;  *)
(* the code adds its base as it was given to the bits of its width.         *)
Asked(bits, l) == bits | (Size(Def[l].len) - 1 + Def[l].ip)
Admits(bits, ip) == (bits & ip) = ip
find_exception(ip) == \E l \in Members(leftover) : Def[l].ip = Masked(ip, Def[l].len)

(* add_dline: the exception goes behind the D-line that covers its base.    *)
Behind(conf, l) == <<Head(conf), l>> \o Tail(conf)
Placed(t, l) == WithConf(t, Def[l].ip, Behind(find_ip_subtree(t, Def[l].ip).conf, l))
Parented(t, l) == find_ip_subtree(t, Def[l].ip) # NULL

add_dline(l) ==
    IF Parented(dline, l)
    THEN dline' = Placed(dline, l) /\ UNCHANGED leftover
    ELSE leftover' = <<l>> \o leftover /\ UNCHANGED dline

(* rescan_dlines, from the end of the list.                                 *)
RECURSIVE rescan_dlines(_, _)
rescan_dlines(t, s) ==
    IF s = << >> THEN t
    ELSE LET rest == rescan_dlines(t, Tail(s))
         IN  IF Parented(t, Head(s)) THEN Placed(rest, Head(s)) ELSE rest

(* trim_Dlines: the exceptions stay.                                        *)
trim_Dlines(clist) == Select(clist, Elined)

(* add_Dline: nothing if a broader D-line or an unplaced exception covers   *)
(* its base; otherwise it replaces the narrower ones and inherits their     *)
(* exceptions.                                                              *)
Refused(l) == LET node == find_ip_subtree(dline, Def[l].ip)
              IN  (node # NULL /\ node.len <= Def[l].len) \/ find_exception(Def[l].ip)

Deletions(t, l) == delete_ip_subtree(t, Def[l].ip, Def[l].len, << >>)
NodeFor(l, clist) == new_ip_subtree(Def[l].ip, Def[l].len, <<l>> \o clist)
add_Dline(l, r) ==
    LET t == insert_ip_subtree(r.t, NodeFor(l, trim_Dlines(r.clist)))
    IN  /\ oracle' = Asked(oracle, l)
        /\ dline' = rescan_dlines(t, leftover)
        /\ leftover' = Select(leftover, LAMBDA e : ~Parented(t, e))

match_Dline(ip) ==
    LET node == find_ip_subtree(dline, ip)
    IN  IF ~Admits(oracle, ip) \/ node = NULL THEN None
        ELSE LET e == FirstOf(node.conf, LAMBDA l : Elined(l) /\ Def[l].ip = Masked(ip, Def[l].len))
             IN  IF e # None THEN e ELSE Head(node.conf)

(* What the D-lines should be: the broadest ranges, each with the           *)
(* exceptions whose base it covers.  The ranges gone that the tree lost by  *)
(* the way are left out.                                                    *)
IpRange(l) == [ip |-> Masked(Def[l].ip, Def[l].len), len |-> Def[l].len]
UnderLine(n, l) == Within(n, IpRange(l).ip, IpRange(l).len)
Gone(r, l) == {n \in Nodes(dline) \ Nodes(r.t) : ~UnderLine(n, l)}
SpecD(l, gone) ==
    LET under == {n \in table : UnderLine(n, l)}
        kept  == {n \in table \ under : \A m \in gone : m.ip # n.ip}
        new   == {e \in spare : Covers(IpRange(l), Def[e].ip)}
    IN  /\ table' = kept \cup {[ip |-> IpRange(l).ip, len |-> IpRange(l).len,
                                exc |-> UNION {n.exc : n \in under} \cup new]}
        /\ spare' = spare \ new
        /\ lost' = lost \cup {[ip |-> n.ip, len |-> n.len] : n \in gone}
Spec_d(l) ==
    LET over == {n \in table : Covers(n, Def[l].ip)}
    IN  IF over = {} THEN spare' = spare \cup {l} /\ UNCHANGED table
        ELSE /\ table' = (table \ over) \cup {[n EXCEPT !.exc = @ \cup {l}] : n \in over}
             /\ UNCHANGED spare

ReadD(l) ==
    /\ Read(l) /\ type(l) = "D" /\ ~Elined(l) /\ ~Refused(l)
    /\ \E r \in Deletions(dline, l) : add_Dline(l, r) /\ SpecD(l, Gone(r, l))
    /\ Unchanged_Trie /\ Unchanged_K

ReadRefusedD(l) ==
    /\ Read(l) /\ type(l) = "D" /\ ~Elined(l) /\ Refused(l)
    /\ Unchanged_D /\ Unchanged_Trie /\ Unchanged_K

ReadException(l) ==
    /\ Read(l) /\ type(l) = "D" /\ Elined(l)
    /\ add_dline(l) /\ Spec_d(l)
    /\ UNCHANGED <<oracle, lost>> /\ Unchanged_Trie /\ Unchanged_K

-----------------------------------------------------------------------------
(* K-lines on addresses.                                                    *)
ReachesInto(node, l) ==
    \E i \in DOMAIN node.conf :
        LET k == node.conf[i] IN Def[k].user = "*" /\ Def[k].len < Def[l].len
(* trim_ip_Klines(clist, mask): the mask is an int, and as a 64 bit number  *)
(* larger than any other unless it is 0.                                    *)
trim_ip_Klines(clist, len) ==
    IF len > 0 /\ LP64 THEN clist
    ELSE Select(clist, LAMBDA k : Elined(k) \/ Def[k].len < len)

Joined(conf, l) == <<l>> \o (IF Def[l].user = "*" THEN trim_ip_Klines(conf, Def[l].len)
                                                  ELSE conf)

add_ip_Kline(l) ==
    LET ip == Def[l].ip
        node == find_ip_subtree(ip_Kline, ip)
    IN  \/ /\ node = NULL
           /\ \E r \in Deletions(ip_Kline, l) :
                ip_Kline' = insert_ip_subtree(r.t, NodeFor(l,
                                IF Def[l].user = "*" THEN trim_ip_Klines(r.clist, 0)
                                                    ELSE r.clist))
           /\ ike_oracle' = Asked(ike_oracle, l)
        \/ /\ node # NULL /\ ReachesInto(node, l)
           /\ Unchanged_K
        \/ /\ node # NULL /\ ~ReachesInto(node, l)
           /\ ip_Kline' = WithConf(ip_Kline, ip, Joined(node.conf, l))
           /\ ike_oracle' = Asked(ike_oracle, l)

match_ip_Kline(ip, user) ==
    LET node == find_ip_subtree(ip_Kline, ip)
    IN  IF ~Admits(ike_oracle, ip) \/ node = NULL THEN None
        ELSE LastOf(node.conf, LAMBDA k : /\ Masked(ip, Def[k].len) = Def[k].ip
                                          /\ user_matches(Def[k].user, user))

ReadIpKline(l) ==
    /\ Read(l) /\ type(l) = "K" /\ Def[l].form = "ip"
    /\ add_ip_Kline(l)
    /\ Unchanged_D /\ Unchanged_Trie

-----------------------------------------------------------------------------
(* mtrie_conf.c.  Piece: a label of a level with the conf item of *@host    *)
(* (wild) and of another user (conf), and the kinds of lines below it.      *)
Piece(x, flags) == [host |-> x, conf |-> None, wild |-> None, flags |-> flags]
EmptyLevel == [b \in Chain |-> << >>]
HasPiece(chain, x) == \E i \in DOMAIN chain : chain[i].host = x
PieceOf(chain, x) == CHOOSE i \in DOMAIN chain :
                         chain[i].host = x /\ \A j \in 1 .. i - 1 : chain[j].host # x

find_or_add_host_piece(chain, x, flags) ==
    IF HasPiece(chain, x)
    THEN [chain EXCEPT ![PieceOf(chain, x)].flags = @ \cup flags]
    ELSE Append(chain, Piece(x, flags))

(* create_sub_mtrie: the levels of the trie along the labels of l.          *)
RECURSIVE create_sub_mtrie(_, _, _)
create_sub_mtrie(tr, l, d) ==
    IF d > Len(Def[l].host) THEN tr
    ELSE LET path == SubSeq(Def[l].host, 1, d - 1)
             x == Def[l].host[d]
             t == IF path \in DOMAIN tr THEN tr
                  ELSE [p \in DOMAIN tr \cup {path} |-> IF p = path THEN EmptyLevel ELSE tr[p]]
         IN  create_sub_mtrie([t EXCEPT ![path][Bucket[x]] =
                                  find_or_add_host_piece(@, x, {type(l)})], l, d + 1)

(* find_or_add_user_piece, the case of a wild conf item: the chain and the  *)
(* status of all items afterwards.                                          *)
Result(chain, st) == [chain |-> chain, status |-> st]
AddWild(chain, i, l) ==
    LET w == chain[i].wild
        t == type(l)
    IN  IF w = None
        THEN Result([chain EXCEPT ![i].wild = l, ![i].flags = @ \cup {t}], status)
        ELSE IF Elined(w)
        THEN Result([chain EXCEPT ![i].flags = (@ \cup {t}) \ {"K"}],
                    [status EXCEPT ![w] = (@ \cup {t}) \ {"K"}])
        ELSE IF t = "K"
        THEN Result([chain EXCEPT ![i].wild = l, ![i].flags = @ \cup {t}], status)
        ELSE Result([chain EXCEPT ![i].flags = @ \cup {t}],
                    [status EXCEPT ![w] = @ \cup {t}])

(* The other case goes on along the chain from piece i, to the first piece  *)
(* that has no item or the same user.                                       *)
(* Mutant: the users are not compared.                                      *)
SameLine_Host(p, x, l) == <<p.host, x>> \in Matches

SameLine(p, x, l) == <<p.host, x>> \in Matches /\ Def[p.conf].user = Def[l].user
AddUser(chain, i, l) ==
    LET t == type(l)
        x == chain[i].host
        stops == {j \in i .. Len(chain) : chain[j].conf = None \/ SameLine(chain[j], x, l)}
        j == CHOOSE k \in stops : \A m \in stops : k <= m
        f == chain[j].conf
        marked == [chain EXCEPT ![i].flags = @ \cup {t}]
        st == [status EXCEPT ![f] = @ \cup {t}]
    IN  IF stops = {} THEN Result(Append(chain, [Piece(x, {}) EXCEPT !.conf = l]), status)
        ELSE IF f = None THEN Result([marked EXCEPT ![j].conf = l], status)
        ELSE IF Elined(f)
        THEN Result([marked EXCEPT ![i].flags = @ \ {"K"}], [st EXCEPT ![f] = @ \ {"K"}])
        ELSE IF "I" \in st[f] /\ t = "K" THEN Result([marked EXCEPT ![j].conf = l], st)
        ELSE Result(marked, st)

find_or_add_user_piece(chain, i, l) ==
    IF Def[l].user = "*" /\ ~Def[l].wild THEN AddWild(chain, i, l) ELSE AddUser(chain, i, l)

add_to_trie(l) ==
    LET h == Def[l].host
        x == h[Len(h)]
        path == SubSeq(h, 1, Len(h) - 1)
        tr == create_sub_mtrie(trie, l, 1)
        chain == tr[path][Bucket[x]]
        r == find_or_add_user_piece(chain, PieceOf(chain, x), l)
    IN  trie' = [tr EXCEPT ![path][Bucket[x]] = r.chain] /\ status' = r.status

ListFor(l) == CASE Def[l].form = "ip" -> "ip_i"
                [] type(l) = "K" -> "klines"
                [] Def[l].form = "any" -> "wildcard"
                [] OTHER -> "ilines"

(* add_mtrie_conf_entry, add_ip_Iline.                                      *)
ReadMask(l) ==
    /\ Read(l) /\ type(l) \in {"I", "K"}
    /\ \/ Def[l].form = "host" /\ add_to_trie(l) /\ UNCHANGED lists
       \/ /\ Def[l].form \in {"any", "odd"} \/ (Def[l].form = "ip" /\ type(l) = "I")
          /\ lists' = [lists EXCEPT ![ListFor(l)] = <<l>> \o @]
          /\ UNCHANGED <<trie, status>>
    /\ Unchanged_D /\ Unchanged_K

-----------------------------------------------------------------------------
(* The search.  A piece is the position <<path, bucket, i>>; "last" is      *)
(* last_found_iline_aconf, "first" the depth of first_kline_trie_list (0:   *)
(* none), which always lies on the path of the host.                        *)
At(path, x) == IF path \in DOMAIN trie THEN trie[path][Bucket[x]] ELSE << >>
LastPiece(chain, Test(_)) ==
    LET hits == SelectSeq(chain, Test)
    IN  IF hits = << >> THEN Piece(None, {}) ELSE hits[Len(hits)]
PieceMatches(p, x) == <<p.host, x>> \in Matches
UserMatches(l, user) == user_matches(Def[l].user, user)
Usable(item, f) == item # None /\ f \in status[item]

(* find_user_piece: the last conf item from piece i on for this user, but   *)
(* the wild item of piece i if there is one.                                *)
find_user_piece(chain, i, f, x, user) ==
    LET hit == LastPiece(SubSeq(chain, i, Len(chain)),
                      LAMBDA p : Usable(p.conf, f) /\ PieceMatches(p, x)
                                 /\ UserMatches(p.conf, user))
    IN  IF chain[i].wild # None THEN chain[i].wild
        ELSE hit.conf

(* find_wild_host_piece: the same over the pieces that begin with * (and    *)
(* their neighbours in the bucket), from the last one that matches on.      *)
find_wild_host_piece(path, f, x, user) ==
    LET chain == At(path, "*")
        from  == {i \in DOMAIN chain : PieceMatches(chain[i], x) /\ f \in chain[i].flags}
        start == CHOOSE i \in from : \A j \in from : j <= i
        rest  == SubSeq(chain, start, Len(chain))
        user_hit == LastPiece(rest, LAMBDA p : Usable(p.conf, f) /\ PieceMatches(p, x)
                                            /\ UserMatches(p.conf, user))
        wild_hit == LastPiece(rest, LAMBDA p : Usable(p.wild, f) /\ PieceMatches(p, x))
    IN  IF from = {} THEN None
        ELSE IF wild_hit.wild # None THEN wild_hit.wild ELSE user_hit.conf

find_host_piece(chain, f, x) ==
    LET hits == {i \in DOMAIN chain : chain[i].host = x /\ f \in chain[i].flags}
    IN  IF hits = {} THEN 0 ELSE CHOOSE i \in hits : \A j \in hits : i <= j

HostMatches[l \in Line, host \in {c.host : c \in Client}] ==
    LET h == Def[l].host
        n == Len(h)
    IN  CASE Def[l].form = "any" -> TRUE
          [] Def[l].form = "odd" -> host \in Def[l].odd
          [] Def[l].form = "ip" -> FALSE
          [] OTHER -> /\ IF Def[l].wild THEN Len(host) >= n ELSE Len(host) = n
                      /\ \A d \in 1 .. n - 1 : h[d] = host[d]
                      /\ <<h[n], host[n]>> \in Matches

Item == Line \cup {None}
OneOf(items) == FirstOf(items, LAMBDA l : l # None)
Found(item, last, first) == [item |-> item, last |-> last, first |-> first]

(* find_sub_mtrie for lines of kind f, from level d on.                     *)
find_sub_mtrie[c \in Client, d \in Nat, f \in {"I", "K"}, last \in Item, first \in Nat] ==
    LET x == c.host[d]
        path == SubSeq(c.host, 1, d - 1)
        chain == At(path, x)
        w == find_wild_host_piece(path, f, x, c.user)
        i == find_host_piece(chain, f, x)
        seen == IF f = "I" THEN OneOf(<<w, last>>) ELSE last
        from == IF first = 0 /\ i # 0 /\ "K" \in chain[i].flags THEN d ELSE first
        u == find_user_piece(chain, i, f, x, c.user)
    IN  IF f = "K" /\ w # None THEN Found(w, last, first)
        ELSE IF i = 0 THEN Found(IF f = "K" THEN None ELSE seen, seen, first)
        ELSE IF d = Len(c.host) THEN Found(OneOf(<<u, seen>>), seen, from)
        ELSE IF Append(path, x) \in DOMAIN trie THEN find_sub_mtrie[c, d + 1, f, seen, from]
        ELSE IF u # None /\ HostMatches[u, c.host] THEN Found(u, seen, from)
        ELSE Found(OneOf(<<w, seen>>), seen, from)

find_matching_ip_i_line(c) ==
    FirstOf(lists.ip_i, LAMBDA l : Masked(c.ip, Def[l].len) = Def[l].ip
                                   /\ UserMatches(l, c.user))
InList(s, c) == FirstOf(s, LAMBDA l : HostMatches[l, c.host] /\ UserMatches(l, c.user))

Exempt == {l \in Line : Elined(l)}

(* The second search starts where the first one met K-lines.                *)
Search == [item : Item, last : Item, first : Nat]
find_kline[c \in Client, s \in Search] ==
    find_sub_mtrie[c, IF s.first = 0 THEN 1 ELSE s.first, "K", s.last, s.first].item

(* find_matching_mtrie_conf: an exempt I line, or the K-line that is found  *)
(* once there is an I line, or that.                                        *)
find_matching_mtrie_conf(c) ==
    LET odd == InList(lists.ilines, c)
        s == IF trie = << >> THEN Found(None, None, 0)
             ELSE find_sub_mtrie[c, 1, "I", None, 0]
        byip == OneOf(<<s.item, IF c.ip = 0 THEN None ELSE find_matching_ip_i_line(c)>>)
        i == OneOf(<<odd, byip, FirstOf(lists.wildcard, LAMBDA l : UserMatches(l, c.user))>>)
        k == IF trie = << >> THEN None ELSE find_kline[c, s]
    IN  OneOf(<<FirstOf(<<odd, byip>>, LAMBDA l : l \in Exempt),
                IF i \notin Line \ Exempt THEN None
                ELSE OneOf(<<k, InList(lists.klines, c), match_ip_Kline(c.ip, c.user)>>),
                i>>)

(* verify_access lets in whom an I line is found for; a K-line that became  *)
(* an I line too lets in as well.                                           *)
Banned(c) == find_matching_mtrie_conf(c) \in {l \in Line : "I" \notin status[l]}

(* clear_mtrie_conf_links, zap_Dlines, and the file is read again.          *)
Rehash ==
    /\ file' \in File /\ unread' = file'
    /\ dline' = NULL /\ oracle' = 0 /\ leftover' = << >>
    /\ ip_Kline' = NULL /\ ike_oracle' = 0
    /\ trie' = << >>
    /\ status' = [l \in Line |-> {type(l)}]
    /\ lists' = Lists
    /\ table' = {} /\ spare' = {} /\ lost' = {}

Next == \/ \E l \in Line : \/ ReadD(l) \/ ReadRefusedD(l) \/ ReadException(l)
                            \/ ReadIpKline(l) \/ ReadMask(l)
        \/ unread = {} /\ Rehash

Spec == Init /\ [][Next]_vars

-----------------------------------------------------------------------------
Address == 0 .. 2 ^ Width - 1
Loaded == file \ unread
Shape(n) == [ip |-> n.ip, len |-> n.len, exc |-> {l \in Members(n.conf) : Elined(l)}]
Unmasked(l) == Def[l].ip # IpRange(l).ip
OnAddress(S) == {l \in S : type(l) = "K" /\ Def[l].form = "ip"}

(* The tree of D-lines is what it should be, and a lookup finds an          *)
(* exception if one applies and the D-line otherwise; only a D-line given   *)
(* with bits outside its mask may be missed, because of the oracle.         *)
(* (add_Dline, delete_ip_subtree, rescan_dlines, match_Dline.)              *)
DlinesRight ==
    /\ {Shape(n) : n \in Nodes(dline)} = table
    /\ Members(leftover) = spare
    /\ \A ip \in Address :
         LET l == match_Dline(ip)
             over == {n \in table : Covers(n, ip)}
             exempt == \E n \in over, e \in UNION {m.exc : m \in over} :
                           Covers(IpRange(e), ip)
         IN  IF l = None THEN over = {} \/ \E d \in Loaded : type(d) = "D" /\ Unmasked(d)
             ELSE over # {} /\ (Elined(l) <=> exempt)

(* Lines whose search interferes: different labels of one bucket on one     *)
(* level of the trie; ranges of addresses inside each other.                *)
Sorted(S) == {l \in S : type(l) # "D" /\ Def[l].form = "host"}
Crowded == \E k, l \in Sorted(Loaded), d \in 1 .. 3 :
              /\ d <= Len(Def[k].host) /\ d <= Len(Def[l].host)
              /\ SubSeq(Def[k].host, 1, d - 1) = SubSeq(Def[l].host, 1, d - 1)
              /\ Def[k].host[d] # Def[l].host[d]
              /\ Bucket[Def[k].host[d]] = Bucket[Def[l].host[d]]
Nested == \E k, l \in OnAddress(Loaded) : Within(IpRange(k), IpRange(l).ip, Def[l].len)
                                          /\ Def[k].len # Def[l].len

Concerns(l, c) == /\ UserMatches(l, c.user)
                  /\ IF Def[l].form = "ip" THEN Covers(IpRange(l), c.ip) ELSE HostMatches[l, c.host]
Lines(t, c) == {l \in Loaded : type(l) = t /\ Concerns(l, c)}

Overlaid(k) == \E e \in Sorted(Loaded) :
                  /\ Elined(e) /\ Len(Def[e].host) <= Len(Def[k].host)
                  /\ SubSeq(Def[k].host, 1, Len(Def[e].host)) = Def[e].host

(* A client is refused only for a K-line that is about it; and if one is,   *)
(* it is refused, unless an exempt I line or one sorted by host lets it in. *)
(* (add_mtrie_conf_entry, add_ip_Kline, find_matching_mtrie_conf.)          *)
BannedRight ==
    \/ Loaded = {} \/ Crowded
    \/ \A c \in Client :
          LET due == Lines("K", c)
              let_in == Lines("I", c)
              sure == \E k \in due : /\ Def[k].form = "host" => ~Overlaid(k)
                                     /\ Def[k].form = "ip" => ~Nested
              open == \E l \in let_in : Elined(l) \/ l \in Sorted(Loaded)
          IN  IF Banned(c) THEN due # {} ELSE let_in = {} \/ open \/ ~sure

(* Both kinds of table refuse whom their lines are about, and nobody else.  *)
BansRight == DlinesRight /\ BannedRight
===============================================================================
