# A TLA+ model of PTlink ircd

PTlink ircd is an IRC server of the hybrid-6 family.  A network of such servers
is a tree of TCP links on which every server keeps its own copy of the global
tables (clients, nicks, channels) and repairs them from the lines it receives.
There is no agreement protocol: the copies are equal only because every handler
decides by the same timestamp rules.  Below that, each server is one thread that
keeps connections, configuration, bans, queues and a DNS cache, full of pointers
into each other that callbacks, timeouts and rehashes pull away.  This directory
models both levels, checks them with TLC on small instances, and proves the
invariants that they rest on with TLAPS.

PROJECT.json lists the parts with their status, the hazards with the line at
which each one bites, the mutants that each property detects, and the source
lines behind every definition.

## Inventory

| Part | State | Operations | What is hard about it | What makes it correct |
|---|---|---|---|---|
| Channel timestamp protocol (`channel.c`: `m_sjoin`, `send_channel_modes`) | per server and channel: timestamp, members with flags, modes | SJOIN/NJOIN merge and relay, burst | both sides of a link merge at once; a relayed line is rewritten; descriptions in different orders | one channel everywhere; the younger side gains nothing |
| Channel commands (`channel.c`, `m_mode.c`) | the same, and what members were told | JOIN, PART, KICK, MODE, local and remote | lines crossing a merge; flags that remember an earlier decision; when the channel is freed | members and flags agree; no ghosts; members know the modes |
| Netjoin and netsplit (`s_serv.c`, `m_server.c`, `m_squit.c`, `client.c`) | links, and who is behind which | `m_server`, `server_estab`, `exit_client` of a server, `remove_dependents` | lines lost in flight; crossing dials; circles; the link comes back | one tree; nobody is left behind |
| Nick collisions (`s_user.c`) | nick, timestamp, user@host of every client | NICK introduction and change, `nickkilldone`, SVSNICK | two servers decide about a collision without talking about it | one client per nick; the same one everywhere |
| KILL, QUIT, history (`m_kill.c`, `m_quit.c`, `whowas.c`) | history ring with pointers to clients | chase through the history, exit | a KILL names a nick, not a client; records are used again | no pointer to a client that is gone; a chase finds the last holder |
| Prefix checks (`parse.c`) | none | `remove_unknown`, `cancel_clients` | lines of clients that are gone, or come from the wrong side | answers to answers end |
| Distribution and queues (`send.c`, `dbuf.c`, `packet.c`) | chains of blocks, zip buffers, dead marks | `send_message`, `send_queued`, `read_packet`, `dopacket`, LIST | block boundaries; a queue over its limit in the middle of a relay; a flush that runs LIST | a byte pipe with bounds; lines are executed as sent |
| Connections (`listener.c`, `s_auth.c`, `s_bsd.c`, `ircd.c`, `list.c`, `client.c`) | the state of each socket, its pending lookups | accept, ident, DNS, registration, ping, timeout, exit | answers after the client is gone; timeouts racing answers | no query outlives its client; nobody stays for good |
| Configuration (`s_conf.c`, `class.c`, `m_rehash.c`) | conf items, classes and their counts | attach, detach, rehash | items marked illegal while in use | exact counts, nothing dangles, nothing leaks |
| Tables of lines (`mtrie_conf.c`, `dline_conf.c`) | trie of host labels, trees of address ranges | add, find, clear | order of insertion; shared buckets | who is banned is whom a line is about |
| K- and D-lines (`m_kline.c`, `m_dline.c`, `m_unkline.c`) | memory, `kline.conf`, pending and temporary lines | the commands, rehash, the hunt of `check_pings` | a locked file; a rehash meanwhile | file, memory and clients follow the lines in force |
| Network lines (`m_gline.c`, `zline.c`, `sqline.c`, `sxline.c`, `svline.c`, `vlinks.c`) | lists with expiry times | add, remove, expire, netjoin | a netjoin crossing a removal | servers have the same, and act on it |
| Handshake (`m_server.c`, `m_svinfo.c`, `m_capab.c`, `m_pass.c`) | per connection: capabilities, password, name | the sequence up to `server_estab` | two links to one server; loops | see netjoin |
| Local channel policy (`channel.c`) | bans, invitations, flood counters | `can_join`, `can_send`, ban edits, SVSJOIN | both sides of each list; limits | the books agree; the limit holds |
| Topics (`channel.c`, `s_serv.c`) | topic, its time, `services_on` | TOPIC of clients and of netjoins | services come and go with links | one topic where one side gives way |
| Messages (`m_message.c`, `flud.c`, `dline`/drone checks) | target list, flud lists, drone window | the refusals of PRIVMSG in their order | lists with back pointers; windows of time | protections hold; lists agree |
| Throttle (`throttle.c`) | hash table of addresses, Z-lines | `check_clones`, `remove_clone_check` | two hash functions | the limit holds |
| User modes and services commands (`s_user.c`, `m_oper.c`, `m_svs*.c`, `m_away.c`) | flags, counters, list of operators | MODE, OPER, SVS commands, AWAY | counters that drift; splits | modes agree; counters are exact |
| WATCH, SILENCE (`m_watch.c`, `m_silence.c`, `hash.c`) | lists per client, hash table | add, remove, notify | back pointers on exit | both sides agree; watchers are told |
| DNS (`res.c`) | requests, cache with two hashes | `do_query`, `get_res`, timeouts | late, doubled and wrong answers | one answer each; a sound cache |
| Pattern matching (`match.c`); queries, MOTD, logging, TLS, zlib, code pages | none of their own | replies | text, character by character | not modelled |

Interactions: every command line is read from a link (`packet.c`), its prefix is
resolved (`parse.c`), one handler runs to its end and appends what it relays to
the queues of the other links.  The program has one thread, so one action per
handler is exactly the granularity of the code; the interleaving is between
servers, between the lines on different links, and between handlers, timeouts
and answers on one server.  Where functions call each other back inside one
handler (`send_message`, `send_queued`, LIST, `dead_link`) the call stack is part of
the model (`SendQ`).  A link delivers in order and loses its tail when it breaks.

## Modules

| Module | Content | Proofs |
|---|---|---|
| `ChanTS` | one global channel on a tree of servers: burst, SJOIN, JOIN, PART, KICK, MODE, QUIT, KILL, split and relink | `ChanTSProofs` |
| `NickTS` | nicks on a tree of servers: burst, introduction, collision, change, SVSNICK, QUIT, KILL, history | `NickTSProofs` |
| `Conn` | the local connections of one server: ident, DNS, listeners, address counts, conf items, classes, rehash, links, pings | `ConnProofs`, `ConnLines` |
| `Pipe` | what a connection promises: a byte pipe | |
| `SendQ` | output: relays, SendQ limits, zip buffers, `send_queued`, dead links, LIST | `SendQProofs` |
| `DBuf`, `RecvQ` | the blocks of `dbuf.c`; input: `read_packet`, `dopacket`, flood control | |
| `Tree` | the tree of servers: dialling, SERVER, circles, SQUIT | |
| `Topic` | the topic of a channel on servers and services | `ToldProofs` |
| `Told` | what members of a channel are told of it, and whom +f blocks | `ToldProofs` |
| `Users` | modes, AWAY, SILENCE and counters of users on a network | |
| `Watch` | WATCH lists and their hash table | `ServerProofs` |
| `Room` | local channel policy of one server | `ServerProofs` |
| `Talk` | flud lists, target limits, drone window, DCC | `TalkProofs` |
| `Throttle` | the clone throttle | `TalkProofs` |
| `Past` | the history ring | `ServerProofs` |
| `Res` | the resolver `res.c` | |
| `IpTree`, `ConfTables` | trees of address ranges; the tables that clients are matched with | |
| `KLines` | K- and D-lines of one server, their file and the hunt for clients | `ServerProofs` |
| `NetLines` | lists shared by servers | |
| `Lists` | `Pick`: the entries of a list at given places, in order | `ServerProofs` |
| `MCChanTS`, `MCConn`, `MCSendQ`, `MCRecvQ`, `MCRes`, `MCTree`, `MCTold` | instances of one module for TLC | |
| `MCNickTS`, `MCSplit`, `MCServer` | instances of several modules that share no state | |

`ChanTS`, `NickTS`, `Tree`, `Topic`, `Users` and `NetLines` model what servers tell each
other, each about one kind of thing; a line never concerns two of them, but for
the establishment and loss of a link, which each has as an action.  The others
model one server.  `Conn` has what `Res` and `KLines` do to connections as actions
of its own (an answer, an exit), `RecvQ` stands on `DBuf`, `ConfTables` on `IpTree`,
`SendQ` implements `Pipe`.

A composed instance (`MCNickTS`, `MCSplit`, `MCServer`) has a variable `part`: a
behaviour is one of the part it began with, the variables of the others stay
as they are.  Nothing is lost by this, since the parts share no state; it is one
run of TLC for several questions.

### ChanTS and the code

`ch[s]` is the `struct Channel` of server s (`on` is whether it exists, `ts` is
`channelts`, `mem` and `fl` the member list with the flags a, o, h, v and d for
`CHFL_DEOPPED`, `mode` the `struct Mode`); `known[s]` the clients in its hash
table, `links[s]` the established server links, `q[s][t]` the lines written to t
and not yet read.  `SjoinChan` is the body of `m_sjoin`: the comparison of the
timestamps (`SjoinTS`, `keep_our_modes`, `keep_new_modes`), the merge of the
modes (`Larger` for +l), the removal of our statuses, the names; `SjoinRelay` is
the line it passes on, with its own timestamp and the prefixes it kept.  Each
`Recv...` action is a handler including `parse.c`'s treatment of its prefix;
each `User...` action a command of a local client; `Split` is `exit_client` of
the link on both ends.  `HalfOps` selects the build with `HALFOPS`.

Abstracted: all clients and modes are model values; keys and limits are small
numbers whose order stands for `strcmp` and `<`; a burst is one or two lines.

`Told` has what this does to the clients of one server: `told` is the modes and
statuses that a member derives from the MODE lines it is sent by `set_channel_mode`
and by `m_sjoin`, whose comparison letter by letter it follows; `said` counts the
lines since the last +f.  `Topic` has `topic`, `services_on` (the global of that
name) and `spath` (the links with `FLAGS_SPATH`).  `Room` has the lists of a channel
and of a client on both sides, as the code does.

`Tree` has two ends for every connection between two servers: `stage` is the
`status` of an end, `firsttime` the time by which `m_server` chooses between two
links to one server, `transit` what is on its way to an end, `tree[s]` the order of
s's `GlobalClientList`.

### NickTS and the code

`tab[s]` has, for every client, whether s knows it, its nick, its timestamp and
the history entries that point to it.  `Verdict` is the decision of `m_nick` on a
collision: by timestamp, and the other way around if user@host are the same.
`find_chasing` is the lookup of a KILL's target by nick, then through the history.
A client that has given NICK and not yet USER is in the table and unknown to
everybody else.  `Past` has the ring itself (`WHOWAS`, `whowas_next`, the list of each
hash value and of each client).

### Conn and the code

The tables are one record `t`, because each handler goes through several of them:
`cl` the client structures (status, ident and DNS flags of the `AuthRequest`,
`FLAGS_DEADSOCKET`, `FLAGS_PINGSENT`, the time since `lasttime`, `FLAGS_IPHASH`),
`held` the pairs of a client and a conf item on its `confs` list, `item` the
`ConfItem`s with their counts and their pending lookup, `klass` the classes with
`links`, `ip` the `IP_ENTRY` counts, `lis` the listeners, `asking` and `resolving`
the queries in the hands of the resolver.  An item is a line and the generation
of the file it was read in, so that a line that is read again is a new item next
to an illegal old one.

The operators on `t` are the functions of the code (`Attach` is `attach_conf`,
`Detach` `detach_conf`, `Exit` `exit_client` with `close_connection`, `ClearOut` and
`ReadFile` the halves of `rehash`) and the actions compose them as the callers
do: `Register` counts the address, then looks at the limits, then attaches or
exits; `CheckServer` attaches, chooses, detaches and attaches again.  A query is in
`resolving` or `asking` from the call of the resolver to its callback, whatever
happens to the client or line; a callback for a freed line sets `stale`, and
nothing is modelled after that.  `Adns` selects the resolver.

Assumed of the files: class 0 exists, H and L lines have no class (the example
files give them none), all C and N lines are of one neighbour and name one host.

### Queues and the code

In `SendQ` bytes are named by their place in the stream of their connection; `ln[c]`
is a connection with its queue `sq` of units (a byte, or a packet that
`zip_buffer` made of several), `zout` the bytes in `outbuf`, `dead` for
`FLAGS_DEADSOCKET`, `lopt` and `doing` for the state of LIST.  `run` is the stack of
calls: each action runs the frame at its head up to its next call, so that a
`send_message` that flushes, a flush that continues LIST and a LIST line that
exceeds the limit happen inside each other as in the code.  `DBuf` has
`dbuf_put`, `dbuf_map`, `dbuf_delete` and `dbuf_getmsg` loop by loop, with the pool; in
`RecvQ` a byte is its connection and place, so that it can be followed from the
socket through the blocks to the line that was executed.  A server's line is
executed up to byte 511: what exceeds it only goes to the place of the end of the
string (`packet.c:198`, `:144`).  `client_dopacket` copies 512 bytes, so that a full
buffer of a client has no end of its own; it is the null `zip` behind it
(`client.h:222-224`).  Operators and who is named by FLOODEX have no limit
(`s_bsd.c:1071-1076`) and another price of a command, or none (`parse.c:258-271`).

### Tables, bans, people

`ConfTables` keeps the trie as the code does: a level is named by the labels that
lead to it, a piece has its lines, a wild piece its mask; `find_matching` goes
down the levels in the code's order.  What `match()` says of two labels is a
constant.  `KLines` has a line in memory (`inforce`), in the file (`conf`) and
among the pending ones, the lock of the file, and the flags `rehashed` and
`dline_in_progress` that make `check_pings` hunt; what matches whom is a constant
there.  `NetLines` has the list of each server as a sequence and the
wires between them.  `Users` counts as the code counts, `Actual` is a recount; `drift`
names the counters that a command has put wrong by what the code does (see
Known divergences), since when nothing is claimed of them.  `Talk` has the lists of
`flud.c` from both sides (`fluders`, `fludees`), `nexttarget` and `targets` of
`check_target_limit`, and `fresh`, the times of the new targets let through.  `Watch`
has the list of each client and the hash table; `told` is what a watcher was last
told.  `Throttle` has both hash functions of the code as constants;
`let` and `back` are the histories its promise is about.  `Res` has the
cache with both hashes (`hash_name`, `hash_number`), the order `top` and the counts of
references.

## Runs

| Run | Instance | Shows |
|---|---|---|
| `ChanTS_line` | 3 servers in a line, halfops, channels of any age that have ops, one opping meanwhile | crossing bursts leave one channel (`Agreement`); the younger side gains nothing (`YoungerGainsNothing`); all lines are read and all links come up (`Converges`) |
| `ChanTS_cmds` | 2 servers, two commands of any kind but KILL during the netjoin, one break | `OpNotDeopped`, `MembersKnown`; member lists meet again (`NamesAgree`); no empty channel is kept (`NoGhost`) |
| `ChanTS_split` | `MCSplit`: members of a channel, its topic, what its members are told, or the tree, while links break and come again | a server only knows clients it can reach (`KnownReachable`); linked servers have one topic where one side gives way (`TopicsRight`); members know the modes (`AsTold`); the servers stay one tree that each of them knows (`TreeRight`) |
| `NickTS_steady` | `MCNickTS`: two crossing commands on linked servers; three servers that meet, one of them services, with two users of one nick; users' modes, AWAY and SILENCE | one client per nick (`NickUnique`); a sound history (`NoDangling`); same clients, nicks and timestamps everywhere (`CrossingAgrees`, `NetjoinAgrees`); exact counters and equal modes (`UsersRight`); answers to answers end (`Settles`) |
| `Conn_rehash` | 2 connections, 1 neighbour, 3 generations of 3 files | the counts of items, classes, addresses and listeners are exact (`CountsExact`); nothing in use is freed (`NoDangling`), nothing else is kept (`NoLeak`); links and operators hold the lines later code dereferences (`LinesHeld`) |
| `Conn_time` | 2 connections, users and links, the clock | no query outlives what it is for (`QueriesLive`); `timeout_auth_queries` lets everybody out of the auth module (`AuthReleased`); `check_pings` removes the dead and the silent (`SilentGone`) |
| `SendQ_list` | a zipped server and an operator who lists, small queues | bytes arrive in order and without a gap, queues are bounded (`QueueRight`, refinement `PipeSpec`); LIST shows every channel that was there all along (`ListComplete`); everything is sent or dead (`Settles`) |
| `RecvQ_flood` | a user who floods, becomes an operator or exempt; a connection that becomes a server | block chains and counts are right, a line is executed as sent, an overlong one exactly as far as the buffer goes (`InputRight`); what is queued is served (`Serves`) |
| `Res_lookup` | a client and a conf line; lost, late, doubled and wrong answers | one answer each, a sound cache (`LookupsRight`); every request ends (`Answers`) |
| `Server` | `MCServer`: one of the eight modules below at a time | `BansRight` (`ConfTables`), `KLinesRight`, `NetLinesRight`, `WatchRight`, `RoomRight`, `TalkRight`, `ThrottleHeld`, `PastRight` |
| `Tree_squit` (violation) | 3 servers, one operator's SQUIT | `NoGhostServer` fails, see Findings |
| `Told_flood` (violation) | a netjoin that brings +f | `FloodersBlocked` fails, see Findings |

*Bounds.*  Commands (`MaxOps`, `MaxCmds`, `MaxDone`, `MaxSets`, `MaxWatchOps`, `Scene`,
`Talking`), breaks (`MaxCuts`, `MaxLosses`, `MaxTroubles`, `MaxBreaks`), dials and clocks
bound the runs.  The timestamp rules only compare, so three values give every
order of three channels; a line of three servers is the smallest tree in which a
line is relayed and rewritten; two commands are the fewest that can cross.  With
more commands the agreement properties are false of the code (see Known
divergences), so the bounds also say where they hold.  In `Conn`, `MaxGen` bounds
the rehashes: two are needed for a class that goes and comes back while clients
of its first life are connected.  Two connections are the fewest that share an
item, a class, an address and a listener, and with which a link is reintroduced;
the class and the address admit one user each, so that every refusal of
`attach_iline` occurs.  `MaxIdle` 0 turns the clock off where a timeout would only be
one more way to end.  Queues and blocks are a few bytes long with lines of one to
three, so that every line meets every block boundary; the sendQ of the server is
so small that a line can exceed it in the middle of a flush.  In `Res`, `MaxCached`
1 makes the cache overflow, `MaxBad` is the number of wrong answers.  In `Server`,
addresses are three bits (`Width`), the history ring has two entries and seven
changes, so that each entry is used more than three times; lists are allowed one
or two entries, so that each limit is met.

Deadlock is checked in the runs of `Conn`.  The others stop by design: all lines are
read and the bounded commands are used up, or a behaviour was told to stop.

*Fairness.*  `ChanTS`, `NickTS`: weak fairness of `Receive` and of `Connect` for every
link, since the main loop reads every readable link and `try_connections` keeps
trying the configured ones.  `Conn`: the clock (`Tick`) and the housekeeping of
`io_loop` (`ircd.c:577-580`, which calls `check_pings` and `timeout_auth_queries`
whenever `nextping` has passed; `select` returns after at most `TIMESEC` seconds).
`SendQ`: weak fairness of `Step` (a handler runs to its end), strong fairness of
`WriteReady` and `CheckPings` of each connection: `select` visits every connection
whose peer reads, again and again.  `RecvQ`: the clock, and strong fairness of
reading and of `parse_later`.  `Res`: the clock, and strong fairness of
`timeout_query_list` and `expire_cache`.  (In `RecvQ` and `Res` the conditions under
which these act are written out.)  Nothing is assumed about commands, breaks,
the order of links, answers of ident or DNS, or what a client sends.

## Proofs

All theorems hold for every value of the constants, from the assumptions named
in the modules: `ConstAssumption` of `ChanTS` and `NickTS` (homes and routes are
servers; bounds are naturals), `RouteAssumption` (the links make a tree: every server
is on one side of each link; for what `ChanTSProofs` shows of `Reach` and `Told`), `ConnAssumption` (clients,
lines and classes are finitely many, lines have kinds, classes and hosts, every
file has class 0), `WatchAssumption`, `RoomAssumption`, `PastAssumption`, `KLinesAssumption`,
`SendQAssumption`, `ToldAssumption`,
`TopicAssumption` and `TopicTree` (the links make a tree, each side hangs together),
`TalkAssumption`, `ThrottleAssumption` (a limit of at least 2, and `CheckClonesDelay` longer
than `CheckClonesPeriod`, as in `samples/main.dconf.sample`).

* `ChanTSProofs`.  `TypeCorrect`, `OpsAreNotDeopped`, `MembersAreKnown`: `OpNotDeopped` is
  not inductive as it stands, an SJOIN in flight brings in flags, so the type of a
  line says that prefixes are among a, o, h, v; `MembersKnown` needs that nobody
  has flags who is not a member, and that a freed channel is `NoChan`.
  `TimestampsNeverRise`, `YoungerSjoinGainsNothing` are action properties, from the type
  invariant.  `MergeAgrees` is the heart of the netjoin: two channels with disjoint
  members, any timestamps, ops and modes (+f equal, or set on one side only) are
  equal after each side has merged the other's description.  `KnownAreReachable`
  needs to know what is in the queues: `FitsAll` says that lines are under way only
  on a link their sender holds, that SERVER is the first of them and only while
  the other end has not answered, and that the clients which NICK lines
  introduce are behind the sender; on a tree they are so whatever else breaks.
  `ClientsAgree`, `NamesAgreeHolds`, `LinesUnderstood` and `NoGhostHolds` need more: `Told`
  says for each direction of each link that the names its reader will have, when it
  has read the lines under way, are those the sender has now, and that it has the
  names a line speaks of when it reads that line (`Pair`); it is stated for two lists
  of names, the clients a server knows and the members of its channel.  It is kept
  because NICK, QUIT and SQUIT are the only lines that change the first list, SJOIN,
  PART, QUIT and SQUIT the second, clients come and go by their own server, a break empties
  both directions, and `server_estab` tells everything.  So no line is refused, an SJOIN
  never comes without nicks, and only a departure empties a channel.  They are
  stated for servers where nobody is KILLed: KILLs come from either side of a link,
  cross each other and the lines of their victim, and an SJOIN whose nicks are all
  gone does leave an empty channel; and `NamesAgreeHolds` for servers where nobody is
  KICKed either, as a KICK comes from the other side of a link than the client's own
  JOINs and PARTs (both in Known divergences).  With KICK the run `ChanTS_cmds`
  checks `NamesAgree` for two commands.
* `NickTSProofs`.  `NickTypeCorrect`, `NicksAreUnique`, `HistoryIsSound`, with one inductive
  invariant: each table is good (nicks of known clients differ, history entries
  point to known clients), and lines are typed.  The three are proved together
  because a change of nick writes table and history at once.
* `ConnProofs`.  `ConnTypeCorrect`, `CountsAreExact`, `NothingDangles`, `NothingLeaks`,
  `LookupsHaveLines`, from the inductive invariant `Ok`.  `NoDangling` is not inductive
  alone: what `detach_conf` and `check_class` free depends on counts, so these have
  to be exact; and exact counts stay exact only if a freed item or class had
  nobody left.  `Ok` therefore joins `CountsExact` to what the tables require of each
  other: an illegal item is attached, an item that is not illegal has a listed
  class, a class that is not listed has links, the class of an item counts it,
  only registered clients count in their address, and the auth module's clients
  are those with a query.  Lemmas say of each operation (`Attach`, `Detach`, `Exit`,
  `ClearOut`, `ReadFile`) which fields it changes and that it keeps this; `Almost` is
  for the middle of `register_user`, where the address of a client is counted that
  is not registered yet.
* `ConnLines`.  `LinesAreHeld`: the invariant `Shaped` says for each status which kinds
  of lines a connection holds, through the middle of `check_server`.  `QueriesAreLive`
  (`Live`): the queries are those that clients and lines wait for.  It has two
  hypotheses that the theorem states: the resolver is `res.c` (with adns it is
  false, `s_conf.c:286`), and no file moves the neighbour to another host
  (`HostsKept`; otherwise `check_server` can go on with a freed line).
* `SendQProofs`.  `SendQ_Type`, `SendQ_QueueRight`: the invariant `SInv` follows a line
  through nested calls, `StackRight` says of each frame on the stack what it has
  already done to which queue, `LinksRight` that the queue of a connection continues
  what was delivered, `Tables` the types of the channel table.  `SendQ_Pipe` shows with it
  that every step of `SendQ` is a step of `Pipe` or a stutter.
  `SendQ_ListComplete` (`ListInv`): at most one `send_list` is on the stack, and what its
  client is still owed lies behind the place it has reached, counting the line that
  is being written (`AtWork`, `Writing`); when it stopped, behind the place it
  remembers (`Standing`).  `FLAGS2_SENDQ_POP` is clear while a list runs and its line is
  being sent, so the flush of that line does not resume the same list below itself.
  A channel that is created comes to the front of its chain, which only moves
  others further back; a destroyed one moves them forward, hence `cut`.
* `ServerProofs`, the tables of one server.  It begins with what `Pick` (`Lists`) takes out
  of a list: place i of the result is the i-th of the chosen places (`Enumerates`,
  `Rank`), which is how lists are filtered in `Room`, `Past` and `KLines`.
  `Watch_Right` (`WatchInv`): besides both sides of the tables it needs that the names
  of persons differ (`NamesUnique`), that everybody has one (`PersonsNamed`) and that
  lists are finite.
  `Room_Holds` (`RoomInv`): the counters are inductive with both sides of the lists they
  count; an invitation is fresh because what clears a channel or its +i clears
  its invitations; the flood limit holds because the buffer of a member has the
  times of the last lines that were heard of it, in order.
  `Past_Holds`: each place of the ring has an age, counted back from `whowas_next`
  (`RingRight`), and a bucket or a client's list has its places by age
  (`BucketsRight`, `ClientsRight`); so the records of a bucket with one nick, filtered, are
  the history's of that nick, filtered.  The time of nicks given up never goes down
  (`TimesRise`), so that the first record is the one to look at.
  `KLines_Hold`: `Kept` is nearly inductive; `Clean` needs that a temporary line in a list
  is of the kind of the list (`TempsAreK`), and that a client is let in only past the
  lines in force.
* `ToldProofs`.  `FounderKnows`: `AsTold` is inductive with its types.
  `Services_marked` proves `ServicesMarked`, the part of `TopicsRight` about who believes
  in services, for any tree.  Its invariant says what each server makes of its links
  (`Sighted`: what it knows is behind a link that is up, and the marked links are the
  ones services are behind) and what may be on its way between two neighbours
  (`Wired`: the first line of a new connection is the neighbour's own SERVER, all
  others are about servers behind it, and nothing comes the other way once one end
  has closed).  That is what makes an SQUIT or a lost link take away exactly what
  came over it.
  `Topics_right` adds `TopicsAgree`.  `Topic_inv` says what can be on its way while nothing
  has crossed (`In_order_still`): nothing about topics (`Calm`); two sides about to meet,
  one of which has yet to hear of it (`Meeting`); the topic w of one side that goes
  through the other, which had l (`Wave`); or the topic of a client (`Spreading`).  The
  heart is `Wave`: every TOPIC that is still to be read is w and will be taken, or l and
  will be refused (`Taken`, `Turned_down`), so the two never mix.  Where services decide
  this holds because SERVER comes before TOPIC in a burst and both keep their order
  from server to server: who takes w knows by then where services are
  (`Warned`, `Behindhand`).
* `TalkProofs`.  `TalkHolds` joins four theorems about the parts of `TalkRight`.
  `FludersReferred`: the lists of `flud.c`, inductive with their types.
  `TargetsAreHeld` (`Paced`): of L new targets let through, the i-th puts `nexttarget` at
  least L - i + 1 - MAXTARGETS delays after its time.  `CtcpsAreBlocked` (`BlockInv`): an
  account in `fluders` counts the CTCPs of its client from some one on, those before
  were over FLUDTIME earlier, and who has no account sent none for FLUDTIME
  (`Accounted`, `Accounts`); so the CTCPs of those who have just begun can be mapped
  one to one into the weights that `check_for_flud` adds up.  `MessagesAreSpared`
  (`SwarmInv`): since `drone[q].since` at least `drone[q].n` messages have come to q.
  `ThrottleHolds` is about `Throttle`.  `ThrottleHeld` says nothing of the table's counts,
  which are all that `check_clones` sees, so the invariant `HeldInv` ties them to the
  history: `Bucketed` (one record for an address, in its bucket, through the scan
  that drops expired ones), `Rationed` (the record that has not expired counts at least
  as many as came in a row), `Warned` (after the one refusal the Z-line lasts longer
  than the record; this is where the delay has to be longer than the period).

Induction over finite data is done from the order of finite subsets (`WFMin`,
`FS_StrictSubsetOrderingWellFounded`), which needs no operator parameter: the least
number in a set, and from it statements about all numbers up to one
(`Least_Number`, `Up_To`, `Set_Induction`).  `Unexpired` of `Throttle` is a recursive
function for that reason.

Only model-checked, with the reason:

* what relates the copies of several servers over time, whose invariants would
  have to describe every order of lines in flight: `Agreement`,
  `NetjoinAgrees`, `CrossingAgrees`, `TreeRight`, `UsersRight`, `NetLinesRight`;
* what depends on RECURSIVE operators (`IpTree`, `ConfTables`, `DBuf`, `RecvQ`, `Res`):
  `BansRight`, `InputRight`, `LookupsRight`;
* liveness, which needs ENABLED and fairness: `Converges`, `Settles`, `AuthReleased`,
  `SilentGone`, `Serves`, `Answers`.

## Findings

* **A ghost of a server** (`Tree_squit`).  `m_squit.c:183-188` says that a SQUIT goes "to all
  directions, also to the link from which the orinal SQUIT came".
  `remove_dependents` skips that link if it has CAP_QS (`client.c:1277`).  An
  operator's SQUIT that crosses the SQUIT and the new SERVER of a server that moves
  takes it from everybody except the side the SQUIT came from, which keeps it and its
  users for ever.
* **A flood limit that blocks nobody** (`Told_flood`).  `m_sjoin` takes `mode.msgs` and
  `mode.per` from a netjoin (`channel.c:4871`) and tells the members "+f", but does not
  set `MODE_FLOODLIMIT`, which is all that `can_send` looks at (`channel.c:713`);
  `samples/help.user:57` says that +f blocks the messages of flooders.

### Known divergences outside the runs' bounds

These were met while modelling and choosing bounds; they follow from the same
code.

* Channels: without ops the outcome of three descriptions depends on their order
  (against `doc/README.TSora:320-328`), and a lagged +o survives the loss of ops
  (against `README.TSora:317-318`), so `ChanTS_line` has channels with ops; a KICK that
  crosses PART and JOIN of its victim; a KICK by somebody who is killed meanwhile;
  a KILL that crosses a split and a relink; the last operator leaving during the
  burst (`haveops`, `channel.c:4950`, then differs between the servers; `ChanTS_line`
  has lagged MODEs only); a +f merge in which both sides have different values; timestamp 0 with
  three servers; a split that frees the middle server's channel while an SJOIN is
  on its way; an admin (`.@`) who loses is not marked `CHFL_DEOPPED`; a KILL racing an
  SJOIN leaves an empty channel; -r, -O or -A on an empty kept channel does not free
  it, and the next to join gets no ops.  The end of +K in a netjoin is not told to the
  members (`channel.c:5182-5345` has no case for it).
* Nicks: a KILL for the loser of three claimants is sent by nick and can remove the
  winner further on; three crossing commands (u1 goes a, c, a while u2 goes from b
  to c) leave a ghost, so does a change and a QUIT; a client that quits while
  bursts cross; a KILL that hits the next holder of a nick; SVSNICK to a nick just
  taken: the link it came from is not told of the exit (`s_user.c:2568`).  The
  protection of services' nicks applies to introductions only.  A refused nick
  change moves the timestamp on the client's own server only (`s_user.c:1599` comes
  before the refusals), against `doc/README.TSora:82-86`.
* Connections: `check_server` (`s_serv.c:447-468`) detaches all lines, not only those
  that `attach_confs` attached; if a rehash moved the neighbour to another host during
  the handshake, the lines it found are freed by that and attached afterwards
  (`LinesHeld` leaves these states out).  With adns `free_conf` cancels nothing, so a
  lookup outlives its line (`s_conf.c:286`).  -o of an operator that SVSMODE made
  detaches the I line, so that the class admits one more than its Y line says.
  `attach_conf` exempts O lines from the limit of their class although
  `doc/simple.conf:24` promises one.  REHASH DNS with adns calls the callbacks of all
  pending queries without an answer, and `conf_dns_callback` dereferences it.
* Queues: an overlong line is dropped, but its tail is executed
  (`s_bsd.c:972-979`); a connection that becomes a server with bytes in its recvQ has
  them parsed late; the mark of an interrupted LIST stays (`m_list.c:252-263`
  against `parse.c:372-375`).
* Tables: `delete_ip_subtree` loses other ranges (`dline_conf.c:159-188` against the
  comment at 352-359); `find_or_add_user_piece` puts a K-line on another label of its
  bucket (`mtrie_conf.c:446`); a D-line with host bits set in its mask is found
  through the oracle only; a sortable I-line shields from unsortable and from IP
  K-lines; a second E-line clears the KILL flag; of two wild pieces in a bucket the
  second is not looked at; nested IP K-lines are lost; `trim_ip_Klines` never trims
  where a long has 64 bits.
* K- and D-lines: a line added while `kline.conf` is locked is not hunted, since the
  function returns before `rehashed` is set (`m_kline.c:790-820`, `1208-1236` against
  1255-1261); `dline_in_progress` is one flag, so of a KLINE and a DLINE before the
  next `check_pings` only the last kind is enforced; pending lines keep pointers to
  clients (`m_kline.c:803`), are forgotten by a rehash and not removed by UNKLINE,
  which also rewrites the file although it is locked; `remove_tkline_match` removes
  any temporary line that covers an address.
* Network lines: Z-lines are not sent at a netjoin; `send_all_glines` sends expired lines,
  with a negative time printed as `%lu`, and the receiver acts on a line that it
  adds expired; a G-line's user without `~` does not strike those seated with it;
  covering masks added in another order leave other lists; a removal by services
  that crosses a burst, or a resync during a split, brings lines back; VLINK's
  addition is always relayed.
* Users: SVSMODE ±i does not adjust `Count.invisi`; +o on a local operator counts twice;
  an introduction counts 'o' and not 'O', though an exit uncounts both; SVSADMIN does
  not uncount an operator; a nick change clears R on the client's own server only;
  operator-only flags set by SVSMODE are stripped by servers that saw the MODE and
  kept by those that got them with NICK; the ghost path of `register_user` uncounts
  a client that was not counted; `FLAGS_AUTOAWAY` survives an AWAY by hand, which
  `remove_autoaway` then ends; CHGHOST that crosses a split leaves two hosts (not
  modelled).  `drift` in `Users` marks the counters these have moved.
* WATCH: USER before NICK announces on, off, on (`s_user.c:1296`, `1774-1781`); a
  change of case by SVSNICK announces off and on.
* Local channel policy: `check_for_chan_flood` blocks at the limit, not above it
  (against `channel.c:5806-5812`), and its window ends only with silence; the checks
  of `m_kick` for +O, +A and services send their error and go on
  (`channel.c:3845-3860`); JOIN 0 of a local client is unreachable, "JOIN #a,0" of a
  remote one builds an empty list; `iusers` drifts when +S changes inside a
  channel; +O, +A and r need neither ops nor membership; `nmsg` outlives changes of the
  limit.
* Topics: setting the same topic again sets its time to 0, so that a netjoin swaps
  topics; equal times are never reconciled; a TOPIC that crosses another or a
  burst diverges; the older topic wins, and with services only the services' side;
  `services_on` is reset only when services themselves exit, not when they go with a
  hub (`client.c:1545-1550`), and a server that still believes in them refuses every
  topic of a netjoin, also behind a hub that takes it: `Meet_well`, the condition
  under which `TopicsAgree` claims one topic, is therefore about whole sides; `ClearServicesPath` is applied to the link the SQUIT came
  from, not to that of the services.
* Tree: the test for "you are trying to SQUIT me" never fires, since `acptr` was
  replaced before; with AUTOCONN ALL 0 every SERVER message closes its link
  (`m_server.c:261`); equal `firsttime`s and two crossing dials can cost both links.
* Talk and throttle: a fluder whose window is over counts as 1 (`flud.c:230` against
  285-287); for channels the refusal is announced and not made; a reset of the
  drone window clears `drone_noticed` without the notice.  `remove_clone_check` sums the
  bytes of the address where `check_clones` xors them, so it seldom finds the record;
  a limit of 1 is never met; after its one refusal `check_clones` lets everybody in
  once the Z-line has expired, if the record has not (excluded by the assumption
  on the delay); attempts of those with a Z-line lower the count.
* DNS: after a resend the next timeout is computed from the old one (`res.c:498-536`),
  so is that of `expire_cache`; `find_cache_name` compares only the first alias in
  other buckets; `update_hostent`'s code is dead; with `ReverseLookup` off the lookups of
  conf lines time out; entries in use can exceed MAXCACHED; the cache is searched
  without regard to expiry.

## Not modelled

In `Conn`: reading and parsing, TLS, throttled and delayed accepts, D, X, U and Q
lines (see `ConfTables`, `KLines`), a rehash that cannot open its file, several
neighbours, and the restart of the program, which keeps nothing of a connection.
In `ChanTS`: bans, key changes, refusals of `can_join` (they change nothing; see
`Room`), the early return of `SecureModes`, stealth members.  In `NickTS`: breaking
links (they are in `ChanTS`), nick syntax and quarantines, case-only changes,
prefixes of opers' own KILL paths; zero timestamps of nicks are in the code and
cannot be sent by a PTlink server.  In `Tree`: masked server names, L-lines,
SVINFO and passwords, hold times and class limits, a reset that loses data.  In
`Room`: `MaxChansPerRegUser`, `OperByPass`, the counters of spambots, the filter of
`ChanFloodTime`, KNOCK.  In `RecvQ`: the G-line that `GLineOnExcessFlood` (0 by default) adds when a
flooder exits (those of `NetLines` are added in the same way), the price of long lines
(`i / 120` seconds), lines longer than `READBUF_SIZE`, which take those behind them along.
In `Res`: the wire format, search domains.  The traffic modes
of `io_loop` (HLC, LIFESUX), bundled adns, the configuration tools, replies,
logging, TLS, zlib and code pages are left out.

## Plan

Done: the modules above, their runs, and the proofs listed.  To prove next, in
this order:

1. `Agreement` of `ChanTS` for channels with ops and links that stay, from `MergeAgrees`.
2. `Rooted` of `Tree` and the two-sided lists of `Users` (SILENCE).
