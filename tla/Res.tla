--------------------------------- MODULE Res ---------------------------------
(***************************************************************************)
(* res.c: the resolver of an ircd.  Clients ask for the name of their       *)
(* address, conf items for the address of their name; a request is sent to  *)
(* the nameservers, sent again when no answer comes, and given up; answers  *)
(* are lost, late and doubled, and fill a cache with hash tables, a least   *)
(* recently used order, times of expiry and counted references.             *)
(*                                                                         *)
(* Times are relative to CurrentTime.  The id of a request is not used      *)
(* again while an answer to it may still come (ids have 16 bits).           *)
(***************************************************************************)
EXTENDS Integers, Sequences, FiniteSets

CONSTANTS
    Client, Ip,         \* clients, and their addresses
    Conf, Host,         \* conf items, and their names
    Name, Addr,
    Zone,               \* Zone[k]: what the nameservers may say about k
    HashName, HashNum,  \* hash_name, hash_number
    Id, Entry,          \* ids of requests; room for cache entries
    Retries, Timeout,   \* of make_request, by ReverseLookup
    TTL,                \* AR_TTL, of the cache and of an idle timer
    MaxCached,          \* MAXCACHED
    MaxAddrs,           \* RES_MAXADDRS and RES_MAXALIASES
    MaxAsk, MaxBad      \* bounds: lookups; SERVFAILs and broken answers

Asker == Client \cup Conf
Key(q) == IF q \in Client THEN Ip[q] ELSE Host[q]

None == "none"
NoEntry == 0

ASSUME ResAssumption ==
    /\ Client \cap Conf = {}
    /\ Ip \in [Client -> Addr] /\ Host \in [Conf -> Name]
    /\ {Retries, Timeout, MaxAsk, MaxBad} \subseteq Nat /\ TTL \in Nat \ {0}
    /\ MaxCached \in Nat \ {0} /\ MaxAddrs \in Nat
    /\ Entry \subseteq Nat \ {NoEntry} /\ Id \subseteq Nat
    /\ None \notin Name

VARIABLES
    req,      \* the list of requests
    cache,    \* the entries, their list, tables and number
    net,      \* queries whose answer may come, once or more often
    who,      \* what became of the lookup of every asker
    dnsAt,    \* nextDNSCheck
    expireAt, \* nextCacheExpire
    ask, bad  \* lookups, and failing answers, so far

vars == <<req, cache, net, who, dnsAt, expireAt, ask, bad>>

(* A struct hostent; h_name may be missing.                                 *)
Hostent == [name : Name \cup {None}, aliases : Seq(Name), addrs : Seq(Addr)]
NoHost == [name |-> None, aliases |-> << >>, addrs |-> << >>]

Request == [id : Id, asker : Asker, type : {"ptr", "a"}, key : Name \cup Addr,
            left : Int,           \* sentat + timeout
            timeout : Nat, retries : Int, he : Hostent]

Item == [he : Hostent, exp : Int, ref : Nat]
Empty == [he |-> NoHost, exp |-> 0, ref |-> 0]

NameBucket == {HashName[n] : n \in Name}
NumBucket == {HashNum[a] : a \in Addr}

Init == /\ req = << >>
        /\ cache = [ent |-> [e \in Entry |-> Empty], top |-> << >>,
                    names |-> [b \in NameBucket |-> << >>],
                    nums |-> [b \in NumBucket |-> << >>], count |-> 0]
        /\ net = {}
        /\ who = [q \in Asker |-> [st |-> "idle", entry |-> NoEntry]]
        /\ dnsAt = 0 /\ expireAt = 1 /\ ask = 0 /\ bad = 0

Elems(s) == {s[i] : i \in DOMAIN s}
Without(s, x) == SelectSeq(s, LAMBDA y : y # x)
Least(S) == CHOOSE x \in S : \A y \in S : x <= y
FirstOf(s, P(_)) == IF \E i \in DOMAIN s : P(s[i])
                    THEN s[Least({i \in DOMAIN s : P(s[i])})] ELSE NoEntry

-----------------------------------------------------------------------------
(* The cache.  Every name and alias is compared within a bucket, but only   *)
(* the first alias of the entries of other buckets.                         *)
he(c, e) == c.ent[e].he
Called(h, n) == n = h.name \/ n \in Elems(h.aliases)

find_cache_name(c, n) ==
    LET e == FirstOf(c.names[HashName[n]], LAMBDA x : Called(he(c, x), n))
    IN  IF e # NoEntry THEN e
        ELSE FirstOf(c.top, LAMBDA x : /\ he(c, x).aliases # << >>
                                       /\ HashName[he(c, x).name] # HashName[n]
                                       /\ he(c, x).aliases[1] = n)

find_cache_number(c, a) ==
    LET e == FirstOf(c.nums[HashNum[a]], LAMBDA x : a \in Elems(he(c, x).addrs))
    IN  IF e # NoEntry THEN e
        ELSE FirstOf(c.top, LAMBDA x : /\ Len(he(c, x).addrs) > 1
                                       /\ HashNum[he(c, x).addrs[1]] # HashNum[a]
                                       /\ a \in Elems(Tail(he(c, x).addrs)))

(* update_list, which all callers leave without a request: the entry comes  *)
(* to the top.                                                              *)
update_list(c, e) == [c EXCEPT !.top = <<e>> \o Without(@, e)]

(* rem_cache: an entry that is in use stays for another while.              *)
rem_cache_InUse(c, e) ==
    LET h == he(c, e)
    IN  [c EXCEPT !.top = Without(@, e),
                  !.names[HashName[h.name]] = Without(@, e),
                  !.nums[HashNum[h.addrs[1]]] = Without(@, e),
                  !.ent[e] = Empty, !.count = @ - 1]

rem_cache(c, e) ==
    LET h == he(c, e)
    IN  IF c.ent[e].ref > 0 THEN [c EXCEPT !.ent[e].exp = TTL]
        ELSE [c EXCEPT !.top = Without(@, e),
                       !.names[HashName[h.name]] = Without(@, e),
                       !.nums[HashNum[h.addrs[1]]] = Without(@, e),
                       !.ent[e] = Empty, !.count = @ - 1]

(* add_to_cache: a new entry; the last of the list goes if there are too    *)
(* many.                                                                    *)
add_to_cache(c, e, h) ==
    LET d == [c EXCEPT !.ent[e] = [he |-> h, exp |-> TTL, ref |-> 0],
                       !.top = <<e>> \o @,
                       !.names[HashName[h.name]] = <<e>> \o @,
                       !.nums[HashNum[h.addrs[1]]] = <<e>> \o @,
                       !.count = @ + 1]
    IN  IF d.count > MaxCached THEN rem_cache(d, d.top[Len(d.top)]) ELSE d

(* make_cache: the entry and the cache after it.                            *)
Free(c) == Entry \ Elems(c.top)
make_cache(c, h) ==
    LET known == FirstOf([i \in DOMAIN h.addrs |-> find_cache_number(c, h.addrs[i])],
                         LAMBDA e : e # NoEntry)
        new == Least(Free(c))
    IN  IF h.name = None \/ h.addrs = << >> THEN [entry |-> NoEntry, cache |-> c]
        ELSE IF known # NoEntry THEN [entry |-> known, cache |-> update_list(c, known)]
        ELSE [entry |-> new, cache |-> add_to_cache(c, new, h)]

(* The callback of a lookup.  A client takes a name only if its address is  *)
(* among those of the entry; a reference is counted.                        *)
Callback(c, w, q, e) ==
    LET taken == e # NoEntry /\ (q \in Client => Ip[q] \in Elems(he(c, e).addrs))
    IN  [cache |-> IF taken THEN [c EXCEPT !.ent[e].ref = @ + 1] ELSE c,
         who |-> [w EXCEPT ![q] = [st |-> "idle", entry |-> IF taken THEN e ELSE NoEntry]]]

-----------------------------------------------------------------------------
(* query_name: a new id, and the query is on its way.  When all ids are     *)
(* taken a query that nobody waits for is lost.                             *)
Query(id, r) == [id |-> id, type |-> r.type, key |-> r.key]
Used(rs) == {rs[i].id : i \in DOMAIN rs}
NewId(rs, n) == LET free == Id \ (Used(rs) \cup {m.id : m \in n})
                IN  IF free # {} THEN Least(free) ELSE Least(Id \ Used(rs))
Sent(rs, n, r) == LET id == NewId(rs, n)
                  IN  {m \in n : m.id # id} \cup {Query(id, r)}

(* do_query_name and do_query_number with a new request, which goes to the  *)
(* end of the list.                                                         *)
NewRequest(rs, n, q, type, key, h) ==
    LET r == [id |-> NewId(rs, n), asker |-> q, type |-> type, key |-> key,
              left |-> Timeout, timeout |-> Timeout, retries |-> Retries, he |-> h]
    IN  [req |-> Append(rs, r), net |-> Sent(rs, n, r)]

(* resend_query.                                                            *)
Resend_Fresh(rs, n, i) ==
    [req |-> [rs EXCEPT ![i] = [@ EXCEPT !.id = NewId(rs, n), !.left = Timeout,
                                         !.retries = Retries, !.timeout = Timeout]],
     net |-> Sent(rs, n, rs[i])]

Resend(rs, n, i) == [req |-> [rs EXCEPT ![i].id = NewId(rs, n)],
                     net |-> Sent(rs, n, rs[i])]

Drop(rs, i) == SubSeq(rs, 1, i - 1) \o SubSeq(rs, i + 1, Len(rs))

-----------------------------------------------------------------------------
(* gethost_byaddr and gethost_byname: an entry, or a request and a check of *)
(* the requests as soon as the timer runs.                                  *)
Ask(q) ==
    LET e == IF q \in Client THEN find_cache_number(cache, Key(q))
                             ELSE find_cache_name(cache, Key(q))
        new == NewRequest(req, net, q, IF q \in Client THEN "ptr" ELSE "a", Key(q), NoHost)
        done == Callback(update_list(cache, e), who, q, e)
    IN  /\ who[q] = [st |-> "idle", entry |-> NoEntry]
        /\ ask < MaxAsk /\ ask' = ask + 1
        /\ IF e # NoEntry
           THEN /\ cache' = done.cache /\ who' = done.who
                /\ UNCHANGED <<req, net, dnsAt>>
           ELSE /\ req' = new.req /\ net' = new.net /\ dnsAt' = -1
                /\ who' = [who EXCEPT ![q].st = "waiting"]
                /\ UNCHANGED cache
        /\ UNCHANGED <<expireAt, bad>>

(* delete_resolver_queries: the registration timed out, the item is freed.  *)
GiveUp(q) ==
    /\ who[q].st = "waiting"
    /\ req' = SelectSeq(req, LAMBDA r : r.asker # q)
    /\ who' = [who EXCEPT ![q].st = "idle"]
    /\ UNCHANGED <<cache, net, dnsAt, expireAt, ask, bad>>

(* The connection that used an entry is closed.                             *)
Release(q) ==
    /\ who[q].entry # NoEntry
    /\ cache' = [cache EXCEPT !.ent[who[q].entry].ref = @ - 1]
    /\ who' = [who EXCEPT ![q].entry = NoEntry]
    /\ UNCHANGED <<req, net, dnsAt, expireAt, ask, bad>>

-----------------------------------------------------------------------------
(* proc_answer: names and addresses are added to what the request has.      *)
RECURSIVE Added(_, _)
Added(s, t) == IF t = << >> \/ Len(s) + 1 >= MaxAddrs THEN s
               ELSE Added(Append(s, Head(t)), Tail(t))
proc_answer(h, z) == [name |-> IF h.name = None THEN z.name ELSE h.name,
                      aliases |-> Added(h.aliases, z.aliases),
                      addrs |-> Added(h.addrs, z.addrs)]

Finish(i, c, e) ==
    LET done == Callback(c, who, req[i].asker, e)
    IN  /\ req' = Drop(req, i)
        /\ cache' = done.cache /\ who' = done.who

(* A name: look it up in turn, with the names found so far.                 *)
PtrAnswer(i, z) ==
    LET h == proc_answer(req[i].he, z)
        e == find_cache_name(cache, h.name)
        new == NewRequest(req, net, req[i].asker, "a", h.name, h)
    IN  IF h.name = None
        THEN Finish(i, cache, NoEntry) /\ UNCHANGED <<net, dnsAt>>
        ELSE IF e # NoEntry
        THEN Finish(i, update_list(cache, e), e) /\ UNCHANGED <<net, dnsAt>>
        ELSE /\ req' = Drop(new.req, i) /\ net' = new.net /\ dnsAt' = -1
             /\ UNCHANGED <<cache, who>>

AddrAnswer(i, z) ==
    LET made == make_cache(cache, proc_answer(req[i].he, z))
    IN  Finish(i, made.cache, made.entry) /\ UNCHANGED <<net, dnsAt>>

Requested(m) == {i \in DOMAIN req : req[i].id = m.id}

(* An answer to m, which may never come, come late, or come again.          *)
Answered(m) ==
    \E i \in Requested(m) :
        /\ \E z \in Zone[m.key] : IF req[i].type = "ptr" THEN PtrAnswer(i, z)
                                  ELSE AddrAnswer(i, z)
        /\ UNCHANGED <<expireAt, ask, bad>>

(* An error: no retries are granted.                                        *)
Refused(m) ==
    \E i \in Requested(m) :
        /\ Finish(i, cache, NoEntry)
        /\ UNCHANGED <<net, dnsAt, expireAt, ask, bad>>

(* SERVFAIL: the query is sent again at once.                               *)
ServerFailed(m) ==
    \E i \in Requested(m) :
        /\ LET s == Resend(req, net, i) IN req' = s.req /\ net' = s.net
        /\ bad < MaxBad /\ bad' = bad + 1
        /\ UNCHANGED <<cache, who, dnsAt, expireAt, ask>>

(* A broken message: what stood before the error is kept, and the request.  *)
Broken(m) ==
    \E i \in Requested(m) :
        /\ \E z \in Zone[m.key] : req' = [req EXCEPT ![i].he = proc_answer(@, z)]
        /\ bad < MaxBad /\ bad' = bad + 1
        /\ UNCHANGED <<cache, net, who, dnsAt, expireAt, ask>>

(* get_res.  An answer to a request that is gone, or was sent again under   *)
(* another id, is ignored.                                                  *)
get_res == \E m \in net : Answered(m) \/ Refused(m) \/ ServerFailed(m) \/ Broken(m)

-----------------------------------------------------------------------------
(* timeout_query_list: requests that were given up go; others are sent      *)
(* again, with twice the time.  The next check is due at the earliest of    *)
(* the times before that, or after a long while if it is past.              *)
RECURSIVE timeout_query_list(_, _)
timeout_query_list(s, i) ==
    LET r == s.req[i]
        tried == [s EXCEPT !.req[i] = [@ EXCEPT !.retries = @ - 1,
                                                !.timeout = 2 * @, !.left = 2 * r.timeout],
                           !.next = @ \cup {r.left}]
        again == Resend(tried.req, tried.net, i)
    IN  IF i > Len(s.req) THEN s
        ELSE IF r.left > 0
        THEN timeout_query_list([s EXCEPT !.next = @ \cup {r.left}], i + 1)
        ELSE IF r.retries <= 1
        THEN timeout_query_list(
                 [s EXCEPT !.req = Drop(@, i),
                           !.who[r.asker] = [st |-> "idle", entry |-> NoEntry]], i)
        ELSE timeout_query_list([tried EXCEPT !.req = again.req, !.net = again.net], i + 1)

NextTime(S) == IF S # {} /\ Least(S) > 0 THEN Least(S) ELSE TTL

TimeoutQueries ==
    LET s == timeout_query_list([req |-> req, net |-> net, who |-> who, next |-> {}], 1)
    IN  /\ dnsAt < 0
        /\ req' = s.req /\ net' = s.net /\ who' = s.who
        /\ dnsAt' = NextTime(s.next)
        /\ UNCHANGED <<cache, expireAt, ask, bad>>

(* expire_cache.                                                            *)
RECURSIVE RemAll(_, _)
RemAll(c, s) == IF s = << >> THEN c ELSE RemAll(rem_cache(c, Head(s)), Tail(s))

Old(e) == cache.ent[e].exp < 0
ExpireCache ==
    /\ expireAt < 0
    /\ cache' = RemAll(cache, SelectSeq(cache.top, Old))
    /\ expireAt' = NextTime({cache.ent[e].exp : e \in {x \in Elems(cache.top) : ~Old(x)}})
    /\ UNCHANGED <<req, net, who, dnsAt, ask, bad>>

(* io_loop runs timeout_resolver several times in a second.                 *)
Tick ==
    /\ dnsAt >= 0 /\ expireAt >= 0
    /\ req' = [i \in DOMAIN req |-> [req[i] EXCEPT !.left = @ - 1]]
    /\ cache' = [cache EXCEPT !.ent = [e \in Entry |->
                    IF e \in Elems(cache.top) THEN [@[e] EXCEPT !.exp = @ - 1] ELSE @[e]]]
    /\ dnsAt' = dnsAt - 1 /\ expireAt' = expireAt - 1
    /\ UNCHANGED <<net, who, ask, bad>>

Next == \/ \E q \in Asker : Ask(q) \/ GiveUp(q) \/ Release(q)
        \/ get_res
        \/ TimeoutQueries \/ ExpireCache \/ Tick

Spec == Init /\ [][Next]_vars

(* Time passes and the timers run: fairness, with the conditions under      *)
(* which the timers are enabled spelt out.                                  *)
FairSpec == /\ Spec
            /\ WF_vars(Tick)
            /\ (<>[](dnsAt >= 0) \/ []<><<TimeoutQueries>>_vars)
            /\ (<>[](expireAt >= 0) \/ []<><<ExpireCache>>_vars)

-----------------------------------------------------------------------------
TypeOK ==
    /\ req \in Seq(Request)
    /\ cache.ent \in [Entry -> Item] /\ cache.top \in Seq(Entry) /\ cache.count \in Nat
    /\ net \subseteq [id : Id, type : {"ptr", "a"}, key : Name \cup Addr]
    /\ who \in [Asker -> [st : {"idle", "waiting"}, entry : Entry \cup {NoEntry}]]
    /\ dnsAt \in Int /\ expireAt \in Int

(* The cache is one: an entry is in the list, in the bucket of its name and *)
(* in that of its first address, once each; their number is cachedCount;    *)
(* and its references are the connections that use it, so that none of them *)
(* uses an entry that was freed.                                            *)
Once(s) == Cardinality(Elems(s)) = Len(s)
CacheRight ==
    /\ TypeOK
    /\ Once(cache.top) /\ cache.count = Len(cache.top)
    /\ \A b \in NameBucket :
          /\ Once(cache.names[b])
          /\ Elems(cache.names[b]) = {e \in Elems(cache.top) : HashName[he(cache, e).name] = b}
    /\ \A b \in NumBucket :
          /\ Once(cache.nums[b])
          /\ Elems(cache.nums[b]) = {e \in Elems(cache.top) : HashNum[he(cache, e).addrs[1]] = b}
    /\ \A e \in Entry : cache.ent[e].ref = Cardinality({q \in Asker : who[q].entry = e})
    /\ \A q \in Asker : who[q].entry # NoEntry => who[q].entry \in Elems(cache.top)

(* Who waits has exactly one request, also when the name of an address is   *)
(* looked up in turn, and nobody else has one: a callback is called once,   *)
(* and never for a lookup that was given up.                                *)
OneAnswer ==
    /\ Cardinality(Used(req)) = Len(req)
    /\ \A q \in Asker : Cardinality({i \in DOMAIN req : req[i].asker = q})
                           = IF who[q].st = "waiting" THEN 1 ELSE 0

(* The cache is sound and whoever waits will hear once.                     *)
LookupsRight == CacheRight /\ OneAnswer

(* Every lookup is answered or given up, whatever the nameservers do.       *)
Answers == \A q \in Asker : who[q].st = "waiting" ~> who[q].st = "idle"
=============================================================================
