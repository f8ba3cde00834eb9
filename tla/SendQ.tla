-------------------------------- MODULE SendQ --------------------------------
(***************************************************************************)
(* The output side of an ircd: the SendQ of every local connection, the     *)
(* relays that fill it, the select loop that empties it, zipped links, dead *)
(* links, and LIST, the one command whose output may exceed the SendQ.      *)
(*                                                                          *)
(* The program has one thread, but send_message, send_queued, send_list and *)
(* dead_link call each other; "run" is the stack of these calls.  The main  *)
(* loop starts something when the stack is empty, and one step runs the     *)
(* frame at its head up to the next call.                                   *)
(*                                                                          *)
(* Bytes are named by their place in the stream of their connection, so a   *)
(* unit of a queue is a range <<a, b>> of places: one byte, or a packet in  *)
(* which zip_buffer compressed b - a of them.  dbuf.c is kept as the        *)
(* sequence of units and the offset of the first one in its block (DBuf     *)
(* has the blocks themselves).                                              *)
(***************************************************************************)
EXTENDS Integers, Sequences, FiniteSets

CONSTANTS
    Link,             \* local connections
    Server, Zip,      \* those that are servers; that are compressed
    Oper,             \* operators that get server notices
    Order,            \* the connections in the order of their descriptors
    Limit,            \* get_sendq: the sendq of the class
    K,                \* DBUF_SIZE, also the 1024 of send_message
    Slack,            \* the 4 K a client's queue grows between two writes
    ZipMin, ZipMax,   \* ZIP_MINIMUM, ZIP_MAXIMUM
    MaxLine,          \* BUFSIZE: the longest line
    Channel, Chains,  \* channels; the initial chains of the channel hash table
    Hash,             \* the bucket of a channel
    Hidden,           \* <<client, channel>>: secret and not a member
    Lister,           \* clients that use LIST
    Traffic,          \* lines that may come: [src, to, n, burst]
    MaxOps            \* bound: lines relayed, LIST commands and channel changes

VARIABLES
    ln,       \* the struct Client of every connection
    sent,     \* sent[c]: bytes queued for c so far
    seen,     \* seen[c]: bytes its peer has received
    run,      \* the stack of calls, the running one first
    chain,    \* chain[i]: the channels of bucket i of the hash table
    owed,     \* owed[c]: channels LIST still owes to c
    cut,      \* cut[c]: a channel was destroyed since that LIST began
    ops

vars == <<ln, sent, seen, run, chain, owed, cut, ops>>

NoChannel == "-"
Bucket == DOMAIN Chains
NB == Len(Chains)

Unit == Nat \X Nat

Client == [open : BOOLEAN,       \* fd >= 0
           dead : BOOLEAN,       \* FLAGS_DEADSOCKET
           ex   : BOOLEAN,       \* FLAGS_SENDQEX
           doing : BOOLEAN,      \* FLAGS2_DOINGLIST
           pop  : BOOLEAN,       \* FLAGS2_SENDQ_POP
           lopt : BOOLEAN,       \* list options are allocated
           pi : Nat, pj : Nat,   \* listprogress, listprogress2 (NB + 1: the -1)
           sq : Seq(Unit), off : Nat,   \* sendQ, start of its first block
           lastsq : Nat,         \* length of sendQ in K after the last write
           zout : Nat]           \* zip->outcount

Ops == {"msg", "sendq", "loop", "reap", "begin", "start", "list", "listchk",
        "listend", "interrupt", "close", "shut"}

Frame == [op : Ops, to : Link, n : Nat, i : Nat, j : Nat,
          ch : Channel \cup {NoChannel}]

F(op, c) == [op |-> op, to |-> c, n |-> 0, i |-> 0, j |-> 0, ch |-> NoChannel]
Msg(c, n) == [F("msg", c) EXCEPT !.n = n]
List(op, c, i, j) == [F(op, c) EXCEPT !.i = i, !.j = j]

ASSUME SendQAssumption ==
    /\ Server \subseteq Link /\ Zip \subseteq Server
    /\ Oper \subseteq Link \ Server /\ Lister \subseteq Link \ Server
    /\ Order \in Seq(Link) /\ \A k, l \in DOMAIN Order : Order[k] = Order[l] => k = l
    /\ Limit \in [Link -> Nat]
    /\ K \in Nat \ {0} /\ Slack \in Nat /\ MaxLine \in Nat \ {0}
    /\ ZipMin \in Nat \ {0} /\ ZipMax \in Nat /\ ZipMin + MaxLine <= ZipMax
    /\ NoChannel \notin Channel
    /\ Chains \in Seq(Seq(Channel)) /\ Hash \in [Channel -> DOMAIN Chains]
    /\ Traffic \subseteq [src : Link, to : SUBSET Link, n : 1 .. MaxLine, burst : {0, 1}]
    /\ MaxOps \in Nat

New == [open |-> TRUE, dead |-> FALSE, ex |-> FALSE, doing |-> FALSE,
        pop |-> FALSE, lopt |-> FALSE, pi |-> 1, pj |-> 1, sq |-> << >>,
        off |-> 0, lastsq |-> 0, zout |-> 0]

Init == /\ ln = [c \in Link |-> New]
        /\ sent = [c \in Link |-> 0]
        /\ seen = [c \in Link |-> {}]
        /\ run = << >>
        /\ chain = Chains
        /\ owed = [c \in Link |-> {}]
        /\ cut = [c \in Link |-> FALSE]
        /\ ops = 0

Up(c) == ln[c].open /\ ~ln[c].dead
Idle == run = << >>
Top(op) == run # << >> /\ Head(run).op = op
Call(fs) == run' = fs \o Tail(run)
Return == run' = Tail(run)
Begin(fs) == Idle /\ run' = fs

(* Frame f for each member of S, in the order of their descriptors.         *)
Places(S) == {k \in DOMAIN Order : Order[k] \in S}
Nth(S, k) == CHOOSE i \in Places(S) : Cardinality({j \in Places(S) : j < i}) = k - 1
Each(S, f) == [k \in 1 .. Cardinality(Places(S)) |-> [f EXCEPT !.to = Order[Nth(S, k)]]]

-----------------------------------------------------------------------------
(* dbuf.c on a queue that is the sequence sq whose first block starts at    *)
(* off: a block is full before the next one is allocated, and freed when it *)
(* is drained.                                                              *)
Smaller(a, b) == IF a < b THEN a ELSE b
HeadBlock(r) == Smaller(Len(r.sq), K - r.off)
DbufDelete_Block(r, n) ==
    [r EXCEPT !.sq = SubSeq(r.sq, (IF n = 0 THEN 0 ELSE HeadBlock(r)) + 1, Len(r.sq)),
              !.off = 0]

DbufDelete(r, n) ==
    LET rest == SubSeq(r.sq, n + 1, Len(r.sq))
    IN  [r EXCEPT !.sq = rest,
                  !.off = IF rest = << >> THEN 0 ELSE (r.off + n) % K]
Bytes(a, n) == [k \in 1 .. n |-> <<a + (k - 1), a + k>>]

(* The bytes in the first r units of a queue.                               *)
Covered(sq, r) == UNION {u[1] .. (u[2] - 1) : u \in {sq[k] : k \in 1 .. r}}

(* zip_buffer: outbuf is compressed into one packet when it is large        *)
(* enough; during the connect burst, when it is nearly full.                *)
ZipDue(zout, burst) == /\ zout >= ZipMin
                       /\ burst = 1 => zout + MaxLine >= ZipMax
ZipFlush_NoReset(r, total) == [r EXCEPT !.sq = Append(r.sq, <<total - r.zout, total>>)]

ZipFlush(r, total) == [r EXCEPT !.sq = Append(r.sq, <<total - r.zout, total>>),
                                !.zout = 0]

(* zip_buffer and dbuf_put: n bytes that follow the first a of the stream.  *)
Put(r, c, a, n, burst) ==
    IF c \notin Zip THEN [r EXCEPT !.sq = r.sq \o Bytes(a, n)]
    ELSE LET z == [r EXCEPT !.zout = r.zout + n]
         IN  IF ZipDue(z.zout, burst) THEN ZipFlush(z, a + n) ELSE z

(* dead_link: mark it and drop its queues; operators hear about a server.   *)
Dead(r) == [r EXCEPT !.dead = TRUE, !.sq = << >>, !.off = 0]
Notices(c) == IF c \in Server THEN Each(Oper, Msg(c, 1)) ELSE << >>

-----------------------------------------------------------------------------
(* send_message.  Nothing is written to closed or dead connections.         *)
MsgIgnored ==
    /\ Top("msg") /\ ~Up(Head(run).to)
    /\ Return
    /\ UNCHANGED <<ln, sent, seen, chain, owed, cut, ops>>

(* The queue is over its limit: the line is dropped if a LIST is going on,  *)
(* else the connection is dead.  "Max SendQ limit exceeded" is told first.  *)
MsgOverLimit ==
    /\ Top("msg")
    /\ LET c == Head(run).to IN
       /\ Up(c) /\ Len(ln[c].sq) > Limit[c]
       /\ IF ln[c].doing
          THEN /\ ln' = [ln EXCEPT ![c].pop = TRUE]
               /\ Return
          ELSE /\ ln' = [ln EXCEPT ![c] = Dead([@ EXCEPT !.ex = (c \notin Server)])]
               /\ Call(Notices(c) \o Notices(c))
    /\ UNCHANGED <<sent, seen, chain, owed, cut, ops>>

(* The line is queued; a queue that has grown enough since the last write   *)
(* is sent at once.                                                         *)
MsgQueued ==
    /\ Top("msg")
    /\ LET f == Head(run)
           c == f.to
           r == Put(ln[c], c, sent[c], f.n, f.i)
       IN /\ Up(c) /\ Len(ln[c].sq) <= Limit[c]
          /\ ln' = [ln EXCEPT ![c] = r]
          /\ sent' = [sent EXCEPT ![c] = @ + f.n]
          /\ owed' = [owed EXCEPT ![c] = @ \ {f.ch}]
          /\ IF Len(r.sq) \div K > r.lastsq + (IF c \in Server THEN 0 ELSE Slack)
             THEN Call(<<F("sendq", c)>>)
             ELSE Return
    /\ UNCHANGED <<seen, chain, cut, ops>>

(* send_queued, before its loop: outbuf must not be left behind.  Field n   *)
(* of a loop says "more", field i that select found the socket writable.    *)
SendQueued_NoOutbuf ==
    /\ Top("sendq")
    /\ IF Up(Head(run).to) THEN Call(<<[Head(run) EXCEPT !.op = "loop", !.n = 0]>>) ELSE Return
    /\ UNCHANGED <<ln, sent, seen, chain, owed, cut, ops>>

SendQueued ==
    /\ Top("sendq")
    /\ LET f == Head(run)
           c == f.to
           z == c \in Zip /\ ln[c].zout > 0
       IN IF ~Up(c)
          THEN /\ Return
               /\ UNCHANGED ln
          ELSE /\ ln' = IF z /\ ln[c].sq = << >>
                        THEN [ln EXCEPT ![c] = ZipFlush(@, sent[c])] ELSE ln
               /\ Call(<<[f EXCEPT !.op = "loop",
                                   !.n = IF z /\ ln[c].sq # << >> THEN 1 ELSE 0]>>)
    /\ UNCHANGED <<sent, seen, chain, owed, cut, ops>>

(* The loop is over, or goes on with what was left in outbuf.               *)
LoopEmpty ==
    /\ Top("loop")
    /\ LET f == Head(run)
           c == f.to
       IN /\ ln[c].sq = << >>
          /\ IF f.n = 1 /\ Up(c)
             THEN /\ ln' = [ln EXCEPT ![c] = ZipFlush(@, sent[c])]
                  /\ Call(<<[f EXCEPT !.n = 0, !.i = 0]>>)
             ELSE Return /\ UNCHANGED ln
    /\ UNCHANGED <<sent, seen, chain, owed, cut, ops>>

(* deliver_it fails.                                                        *)
WriteError ==
    /\ Top("loop")
    /\ LET c == Head(run).to IN
       /\ ln[c].sq # << >>
       /\ ln' = [ln EXCEPT ![c] = Dead(@)]
       /\ Call(Notices(c))
    /\ UNCHANGED <<sent, seen, chain, owed, cut, ops>>

(* deliver_it writes r units of the first block.  A LIST that was blocked   *)
(* goes on when the queue has become empty; the loop ends when the socket   *)
(* takes less than the block.                                               *)
Write ==
    /\ Top("loop")
    /\ LET f == Head(run)
           c == f.to
           h == HeadBlock(ln[c])
       IN \E r \in f.i .. h :
          LET d == DbufDelete(ln[c], r)
              resume == ln[c].pop /\ d.sq = << >>
          IN /\ ln[c].sq # << >>
             /\ ln' = [ln EXCEPT ![c] = [d EXCEPT !.lastsq = Len(d.sq) \div K,
                                                  !.pop = @ /\ ~resume]]
             /\ seen' = [seen EXCEPT ![c] = @ \cup Covered(ln[c].sq, r)]
             /\ Call((IF resume THEN <<F("start", c)>> ELSE << >>)
                     \o (IF r < h THEN << >> ELSE <<[f EXCEPT !.i = 0]>>))
    /\ UNCHANGED <<sent, chain, owed, cut, ops>>
-----------------------------------------------------------------------------
(* m_list and send_list.  A channel that is hidden from c is passed over.   *)
Shown(c, i, j) ==
    {p \in UNION {{b} \X (1 .. Len(chain[b])) : b \in Bucket} :
        /\ p[1] > i \/ (p[1] = i /\ p[2] >= j)
        /\ <<c, chain[p[1]][p[2]]>> \notin Hidden}

AllShown(c) == {chain[p[1]][p[2]] : p \in Shown(c, 1, 1)}

(* m_list behind RPL_LISTSTART: an unfiltered list only starts if the queue *)
(* is short, but its options are allocated either way.                      *)
ListBegin ==
    /\ Top("begin")
    /\ LET f == Head(run)
           c == f.to
       IN IF f.i = 1 \/ Len(ln[c].sq) < 2 * K
          THEN /\ ln' = [ln EXCEPT ![c] = [@ EXCEPT !.lopt = TRUE, !.doing = TRUE,
                                            !.pop = FALSE, !.pi = 1, !.pj = 1]]
               /\ owed' = [owed EXCEPT ![c] = AllShown(c)]
               /\ cut' = [cut EXCEPT ![c] = FALSE]
               /\ Call(<<F("start", c)>>)
          ELSE /\ ln' = [ln EXCEPT ![c].lopt = TRUE]
               /\ Return
               /\ UNCHANGED <<owed, cut>>
    /\ UNCHANGED <<sent, seen, chain, ops>>

(* m_list while the options of a list are there: that list is given up.     *)
ListInterrupted ==
    /\ Top("interrupt")
    /\ ln' = [ln EXCEPT ![Head(run).to].pop = FALSE]
    /\ Return
    /\ UNCHANGED <<sent, seen, chain, owed, cut, ops>>

(* send_list, from the place where it was left.                             *)
ListStart ==
    /\ Top("start")
    /\ LET c == Head(run).to IN
       IF ln[c].lopt THEN Call(<<List("list", c, ln[c].pi, ln[c].pj)>>) ELSE Return
    /\ UNCHANGED <<ln, sent, seen, chain, owed, cut, ops>>

(* The next line: RPL_LIST of a channel, or RPL_LISTEND.                    *)
ListLine ==
    /\ Top("list")
    /\ LET f == Head(run)
           c == f.to
           left == Shown(c, f.i, f.j)
       IN IF left = {}
          THEN Call(<<Msg(c, 1), F("listend", c)>>)
          ELSE \E p \in left :
               /\ \A q \in left : p[1] < q[1] \/ (p[1] = q[1] /\ p[2] <= q[2])
               /\ Call(<<[Msg(c, 1) EXCEPT !.ch = chain[p[1]][p[2]]],
                         List("listchk", c, p[1], p[2])>>)
    /\ UNCHANGED <<ln, sent, seen, chain, owed, cut, ops>>

(* The line was dropped: remember where it was, and wait for the queue.     *)
ListCheck_Next ==
    /\ Top("listchk")
    /\ LET f == Head(run)
           c == f.to
       IN IF ln[c].pop
          THEN /\ ln' = [ln EXCEPT ![c] = [@ EXCEPT !.pi = f.i, !.pj = f.j + 1]]
               /\ Return
          ELSE /\ Call(<<List("list", c, f.i, f.j + 1)>>)
               /\ UNCHANGED ln
    /\ UNCHANGED <<sent, seen, chain, owed, cut, ops>>

ListCheck ==
    /\ Top("listchk")
    /\ LET f == Head(run)
           c == f.to
       IN IF ln[c].pop
          THEN /\ ln' = [ln EXCEPT ![c] = [@ EXCEPT !.pi = f.i, !.pj = f.j]]
               /\ Return
          ELSE /\ Call(<<List("list", c, f.i, f.j + 1)>>)
               /\ UNCHANGED ln
    /\ UNCHANGED <<sent, seen, chain, owed, cut, ops>>

ListEnd ==
    /\ Top("listend")
    /\ LET c == Head(run).to IN
       ln' = IF ln[c].pop THEN [ln EXCEPT ![c].pi = NB + 1]
             ELSE [ln EXCEPT ![c] = [@ EXCEPT !.doing = FALSE, !.lopt = FALSE]]
    /\ Return
    /\ UNCHANGED <<sent, seen, chain, owed, cut, ops>>

-----------------------------------------------------------------------------
(* exit_client: a last line, the connection is closed, servers are told.    *)
ExitFrames(c) ==
    <<Msg(c, 1), F("close", c)>> \o Each(Server \ {c}, Msg(c, 1))

(* The main loop, and dopacket, exit a client that turns out to be dead.    *)
Reap ==
    /\ Top("reap")
    /\ LET c == Head(run).to IN
       IF ln[c].open /\ ln[c].dead THEN Call(ExitFrames(c)) ELSE Return
    /\ UNCHANGED <<ln, sent, seen, chain, owed, cut, ops>>

(* close_connection: one last write, then everything queued is dropped.     *)
Close ==
    /\ Top("close")
    /\ LET c == Head(run).to IN
       Call((IF ln[c].sq # << >> THEN <<F("sendq", c)>> ELSE << >>)
            \o <<F("shut", c)>>)
    /\ UNCHANGED <<ln, sent, seen, chain, owed, cut, ops>>

Shut ==
    /\ Top("shut")
    /\ ln' = [ln EXCEPT ![Head(run).to] =
                 [@ EXCEPT !.open = FALSE, !.sq = << >>, !.off = 0, !.zout = 0]]
    /\ Return
    /\ UNCHANGED <<sent, seen, chain, owed, cut, ops>>

-----------------------------------------------------------------------------
(* The main loop.  A line read from src is relayed to the connections in to *)
(* (dead and closed ones are met by those loops too), or it is a burst.     *)
Relay(src, to, n, burst) ==
    /\ ln[src].open /\ ops < MaxOps
    /\ ops' = ops + 1
    /\ Begin(Each(to, [Msg(src, n) EXCEPT !.i = burst]) \o <<F("reap", src)>>)
    /\ UNCHANGED <<ln, sent, seen, chain, owed, cut>>

(* LIST, with a mask (1) or without (0).                                    *)
ListCommand(c, masked) ==
    /\ ln[c].open /\ ops < MaxOps
    /\ ops' = ops + 1
    /\ IF ln[c].lopt
       THEN /\ ln' = [ln EXCEPT ![c].lopt = FALSE]
            /\ owed' = [owed EXCEPT ![c] = {}]
            /\ Begin(<<Msg(c, 1), F("interrupt", c), F("reap", c)>>)
       ELSE /\ Begin(<<Msg(c, 1), [F("begin", c) EXCEPT !.i = masked], F("reap", c)>>)
            /\ UNCHANGED <<ln, owed>>
    /\ UNCHANGED <<sent, seen, chain, cut>>

(* read_message: select found room in the socket of c, which has something  *)
(* in its queue or in outbuf.                                               *)
WriteReady(c) ==
    /\ Up(c)
    /\ ln[c].sq # << >> \/ (c \in Zip /\ ln[c].zout > 0)
    /\ Begin(<<[F("sendq", c) EXCEPT !.i = 1], F("reap", c)>>)
    /\ UNCHANGED <<ln, sent, seen, chain, owed, cut, ops>>

(* flush_connections(0) at the end of io_loop.                              *)
FlushAll ==
    /\ \E c \in Link : /\ ln[c].sq # << >>
                      /\ Begin(Each({d \in Link : ln[d].sq # << >>}, F("sendq", c)))
    /\ UNCHANGED <<ln, sent, seen, chain, owed, cut, ops>>

(* QUIT, KILL, SQUIT, end of file or a ping timeout of c.                   *)
Leave(c) ==
    /\ Up(c)
    /\ Begin(ExitFrames(c))
    /\ UNCHANGED <<ln, sent, seen, chain, owed, cut, ops>>

(* check_pings finds what was marked dead.                                  *)
CheckPings(c) ==
    /\ ln[c].open /\ ln[c].dead
    /\ Begin(ExitFrames(c))
    /\ UNCHANGED <<ln, sent, seen, chain, owed, cut, ops>>

(* Channels come to the front of their chain, and go.                       *)
Alive == UNION {{chain[i][j] : j \in 1 .. Len(chain[i])} : i \in Bucket}

CreateChannel(ch) ==
    /\ Idle /\ ch \notin Alive /\ ops < MaxOps
    /\ ops' = ops + 1
    /\ chain' = [chain EXCEPT ![Hash[ch]] = <<ch>> \o @]
    /\ UNCHANGED <<ln, sent, seen, run, owed, cut>>

DestroyChannel(ch) ==
    /\ Idle /\ ch \in Alive /\ ops < MaxOps
    /\ ops' = ops + 1
    /\ \E i \in DOMAIN chain[Hash[ch]] :
          /\ chain[Hash[ch]][i] = ch
          /\ chain' = [chain EXCEPT ![Hash[ch]] =
                          SubSeq(@, 1, i - 1) \o SubSeq(@, i + 1, Len(@))]
    /\ owed' = [c \in Link |-> owed[c] \ {ch}]
    /\ cut' = [c \in Link |-> TRUE]
    /\ UNCHANGED <<ln, sent, seen, run>>

Step == \/ MsgIgnored \/ MsgOverLimit \/ MsgQueued
        \/ SendQueued \/ LoopEmpty \/ WriteError \/ Write
        \/ ListBegin \/ ListInterrupted \/ ListStart \/ ListLine \/ ListCheck \/ ListEnd
        \/ Reap \/ Close \/ Shut

MainLoop ==
    \/ \E r \in Traffic : Relay(r.src, r.to, r.n, r.burst)
    \/ \E c \in Lister, masked \in {0, 1} : ListCommand(c, masked)
    \/ \E c \in Link : WriteReady(c) \/ Leave(c) \/ CheckPings(c)
    \/ FlushAll
    \/ \E ch \in Channel : CreateChannel(ch) \/ DestroyChannel(ch)

Next == Step \/ MainLoop

Spec == Init /\ [][Next]_vars

(* A call runs to its end; select visits every connection whose peer reads; *)
(* check_pings runs.                                                        *)
Fairness == /\ WF_vars(Step)
            /\ \A c \in Link : SF_vars(WriteReady(c)) /\ SF_vars(CheckPings(c))

FairSpec == Spec /\ Fairness

-----------------------------------------------------------------------------
TypeOK ==
    /\ ln \in [Link -> Client]
    /\ sent \in [Link -> Nat]
    /\ seen \in [Link -> SUBSET Nat]
    /\ run \in Seq(Frame)
    /\ chain \in [Bucket -> Seq(Channel)]
    /\ owed \in [Link -> SUBSET Channel]
    /\ cut \in [Link -> BOOLEAN]
    /\ ops \in 0 .. MaxOps

(* What was queued and is not yet sent is the end of the stream, in order   *)
(* and without a gap, across the SendQ and outbuf (send_message,            *)
(* send_queued, zip_buffer).                                                *)
Pending(c) == [k \in 1 .. Len(ln[c].sq) |-> ln[c].sq[k]]
                 \o <<<<sent[c] - ln[c].zout, sent[c]>>>>
Contiguous ==
    /\ TypeOK
    /\ \A c \in Link : Up(c) =>
        \E n \in 0 .. sent[c] :
           /\ seen[c] = 0 .. (n - 1)
           /\ Pending(c)[1][1] = n
           /\ \A k \in 1 .. Len(ln[c].sq) :
                 /\ Pending(c)[k][2] = Pending(c)[k + 1][1]
                 /\ Pending(c)[k][1] < Pending(c)[k][2]

(* No queue grows past its limit by more than the line that passed it, and  *)
(* the next line always fits into outbuf, which send_message and zip_buffer *)
(* fill without a check (ZIP_MAXIMUM), also in the burst.                   *)
Bounded ==
    \A c \in Link : /\ Len(ln[c].sq) <= Limit[c] + MaxLine
                    /\ ln[c].zout + MaxLine <= ZipMax

(* What is queued is the right end of the stream, and not too much of it.   *)
QueueRight == Contiguous /\ Bounded

(* A LIST that runs to its end has shown every channel that was there all   *)
(* the time, however often it was blocked, unless a channel was destroyed   *)
(* meanwhile (listprogress2 counts the channels of a chain).                *)
ListComplete ==
    \A c \in Lister : Idle /\ Up(c) /\ ~ln[c].lopt => owed[c] = {} \/ cut[c]

(* In the end every connection that is up has been sent all that was queued *)
(* for it, outbuf included, if the peers read; a LIST that was blocked has  *)
(* gone on to its end; dead links are closed.                               *)
Settled(c) == /\ ~ln[c].dead \/ ~ln[c].open
              /\ Up(c) => seen[c] = 0 .. (sent[c] - 1) /\ ~(ln[c].doing /\ ln[c].lopt)
Settles == \A c \in Link : <>[]Settled(c)

(* The promise of Pipe, with the queues hidden.                             *)
P == INSTANCE Pipe WITH up <- [c \in Link |-> Up(c)]
PipeSpec == P!Spec
=============================================================================
