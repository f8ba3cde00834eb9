-------------------------------- MODULE RecvQ --------------------------------
(***************************************************************************)
(* The input side of an ircd: select decides which sockets are read,        *)
(* read_packet stores or executes what came, parse_client_queued takes      *)
(* lines from the recvQ of a client as its "since" allows, and a server's   *)
(* bytes go through the line buffer of dopacket.                            *)
(*                                                                         *)
(* Script[c] is what the peer of c sends, byte by byte: "|" ends a line,    *)
(* and the first byte of a line says what it does: "R" registers a user,    *)
(* "S" a server, "O" makes an operator, "Q" quits, anything else is a       *)
(* command.  A byte is named by its connection and place, so that it can be *)
(* followed through the blocks of DBuf.                                     *)
(***************************************************************************)
EXTENDS Integers, Sequences, FiniteSets

CONSTANTS Conn, Script,
          BlockSize, InitBlocks, UsualMax,  \* see DBuf
          ReadBuf,      \* READBUF_SIZE
          ReadMax,      \* 4088: a longer recvQ is not read into
          NoLine,       \* 510: a longer recvQ without a line end is cleared
          BufSize,      \* BUFSIZE, and CLIENT_BUFSIZE, the size of cptr->buffer
          Flood,        \* CLIENT_FLOOD
          Burst,        \* 10: how far "since" may be ahead of the clock
          Cost,         \* 2: what a command adds to "since"
          Free,         \* 5: the operator's command that adds nothing
          Exempted,     \* whom FLOODEX is said of
          Idle          \* bound: how far "since" may lie behind the clock

Byte == {b \in Conn \X Nat : b[2] \in DOMAIN Script[b[1]]}
At(b) == Script[b[1]][b[2]]
Eol(b) == At(b) = "|"

D == INSTANCE DBuf WITH IsEol <- Eol

ASSUME RecvQAssumption ==
    /\ \A c \in Conn : Script[c] \in Seq({"R", "S", "O", "Q", "m", "x", "|"})
    /\ {ReadBuf, Burst, Cost, Free} \subseteq Nat \ {0} /\ BufSize > 1
    /\ BufSize \in Nat /\ Exempted \subseteq Conn
    /\ {ReadMax, NoLine, Flood, Idle} \subseteq Nat
    /\ BlockSize \in Nat \ {0} /\ InitBlocks \in Nat /\ UsualMax \in Nat

VARIABLES cl,     \* the struct Client of every connection
          pos,    \* pos[c]: how many bytes of Script[c] were read
          pool    \* the blocks of dbuf.c

vars == <<cl, pos, pool>>

Client == [st : {"unknown", "person", "server", "gone"},
           oper : BOOLEAN,               \* IsAnOper
           floodex : BOOLEAN,            \* UMODE_FLOODEX
           nonl : BOOLEAN,               \* FLAGS_NONL
           wait : -Idle .. (Burst + Cost),  \* since - CurrentTime
           q : [blk : Seq([data : Seq(Byte), start : Nat]), len : Nat],  \* recvQ
           buf : Seq(Byte),              \* buffer and count, for dopacket
           ran : Seq(Seq(Byte)),         \* the lines that were executed
           cleared : BOOLEAN,            \* a line without an end was dropped
           late : BOOLEAN]               \* became a server with bytes in recvQ

New == [st |-> "unknown", oper |-> FALSE, floodex |-> FALSE, nonl |-> FALSE, wait |-> 0, q |-> D!Empty, buf |-> << >>,
        ran |-> << >>, cleared |-> FALSE, late |-> FALSE]

Init == /\ cl = [c \in Conn |-> New]
        /\ pos = [c \in Conn |-> 0]
        /\ pool = D!dbuf_init

Larger(a, b) == IF a > b THEN a ELSE b
Read(c, n) == [k \in 1 .. n |-> <<c, pos[c] + k>>]

(* A client and the pool, [cl, pool], is what the functions below work on.  *)
Kept(x, d) == [cl |-> [x.cl EXCEPT !.q = D!Queue(d)], pool |-> d.pool]
Of(x) == D!With(x.cl.q, x.pool)

(* exit_client: close_connection clears both queues, and the client is      *)
(* freed.  What it did is remembered.                                       *)
Exit(x) == [Kept(x, D!DBufClear(Of(x))) EXCEPT
              !.cl = [New EXCEPT !.st = "gone", !.ran = x.cl.ran,
                                 !.cleared = x.cl.cleared, !.late = x.cl.late]]

(* What a command costs: time, for all but servers and the exempt.  One in  *)
(* Free commands of an operator is free, the others cost a second.          *)
Price(r, nth) ==
    IF r.st = "server" \/ r.floodex THEN 0
    ELSE IF ~r.oper THEN Cost
    ELSE IF nth % Free = 0 THEN 0 ELSE 1

(* parse and the command; registration, OPER.                               *)
Command(x, line) ==
    LET kind == At(line[1])
        r == [x.cl EXCEPT !.ran = Append(@, line),
                          !.wait = @ + Price(x.cl, Len(x.cl.ran) + 1)]
        y == [x EXCEPT !.cl = r]
    IN  CASE kind = "Q" -> Exit(y)
          [] kind = "R" /\ r.st = "unknown" -> [y EXCEPT !.cl.st = "person"]
          [] kind = "S" /\ r.st = "unknown" -> [y EXCEPT !.cl.st = "server"]
          [] kind = "O" /\ r.st = "person" -> [y EXCEPT !.cl.oper = TRUE]
          [] OTHER -> y

(* client_dopacket: what exceeds the buffer is cut off.  A line that fills  *)
(* it leaves no room for the end of the string, which is then the null zip  *)
(* of a client that is no server, behind the buffer.                        *)
client_dopacket(x, line) == Command(x, SubSeq(line, 1, D!Least(Len(line), BufSize)))

(* The buffer after byte b of a line: what exceeds it goes to its last      *)
(* place, where the end of the string is put later.                         *)
Stored_Over(buf, b) ==
    Append(IF Len(buf) < BufSize - 1 THEN buf ELSE SubSeq(buf, 1, BufSize - 2), b)

Stored(buf, b) == IF Len(buf) < BufSize - 1 THEN Append(buf, b) ELSE buf

(* dopacket: line ends at the front are skipped.                            *)
RECURSIVE dopacket(_, _)
dopacket(x, s) ==
    IF s = << >> \/ x.cl.st = "gone" THEN x
    ELSE LET b == x.cl.buf
         IN  IF ~Eol(Head(s))
             THEN dopacket([x EXCEPT !.cl.buf = Stored(b, Head(s))], Tail(s))
             ELSE IF b = << >> THEN dopacket(x, Tail(s))
             ELSE dopacket(Command([x EXCEPT !.cl.buf = << >>], b), Tail(s))

(* parse_client_queued.                                                     *)
RECURSIVE ParseQueued(_)
ParseQueued(x) ==
    LET got == D!dbuf_get(Of(x), ReadBuf)
        msg == D!dbuf_getmsg(Of(x), ReadBuf)
        y == Kept(x, msg.d)
    IN  IF x.cl.st = "gone" \/ x.cl.q.len = 0 \/ x.cl.nonl \/ x.cl.wait >= Burst THEN x
        ELSE IF x.cl.st = "server"
        THEN dopacket(Kept(x, got.d), got.out)
        ELSE IF msg.out # << >> THEN ParseQueued(client_dopacket(y, msg.out))
        ELSE IF y.cl.q.len < NoLine THEN [y EXCEPT !.cl.nonl = TRUE]
        ELSE [Kept(y, D!DBufClear(Of(y))) EXCEPT !.cl.cleared = TRUE]

State(c) == [cl |-> cl[c], pool |-> pool]

(* A server's recvQ is only read again when it is too long to be read into. *)
Set(c, x) ==
    /\ cl' = [cl EXCEPT ![c] = [x.cl EXCEPT !.late = @ \/ (x.cl.st = "server" /\ x.cl.q.len > 0)]]
    /\ pool' = x.pool

-----------------------------------------------------------------------------
Selected(c) == cl[c].st # "gone" /\ cl[c].q.len < ReadMax
Come(c) == Len(Script[c]) - pos[c]

(* Excess Flood: no limit for operators and the exempt.                     *)
Floods(r) == r.st = "person" /\ ~r.floodex /\ ~r.oper /\ r.q.len > Flood

(* read_packet for the n bytes that recv returned.                          *)
ReadPacket_NoNL(c, n) ==
    LET r == [cl[c] EXCEPT !.wait = Larger(@, 0)]
        x == [cl |-> r, pool |-> pool]
        put == Kept(x, D!dbuf_put(Of(x), Read(c, n)))
    IN  /\ Selected(c) /\ n <= Come(c)
        /\ pos' = [pos EXCEPT ![c] = @ + n]
        /\ Set(c, CASE r.st = "server" -> dopacket(x, Read(c, n))
                    [] Floods(put.cl) -> Exit(put)
                    [] OTHER -> ParseQueued(put))

ReadPacket(c, n) ==
    LET r == [cl[c] EXCEPT !.wait = Larger(@, 0), !.nonl = FALSE]
        x == [cl |-> r, pool |-> pool]
        put == Kept(x, D!dbuf_put(Of(x), Read(c, n)))
    IN  /\ Selected(c) /\ n <= Come(c)
        /\ pos' = [pos EXCEPT ![c] = @ + n]
        /\ Set(c, CASE r.st = "server" -> dopacket(x, Read(c, n))
                    [] Floods(put.cl) -> Exit(put)
                    [] OTHER -> ParseQueued(put))

(* Nothing to read, or the recvQ is too long to be read into: its lines are *)
(* executed if the time for them has come.                                  *)
ParseLater(c) ==
    /\ cl[c].st # "gone"
    /\ \/ ~Selected(c)
       \/ cl[c].st \in {"unknown", "person"} /\ ~cl[c].nonl
    /\ Set(c, ParseQueued(State(c)))
    /\ cl' # cl
    /\ UNCHANGED pos

(* The peer closes the connection behind its last byte, or it fails.        *)
EndOfFile(c) ==
    /\ Selected(c)
    /\ Set(c, Exit(State(c)))
    /\ UNCHANGED pos

(* An operator somewhere says FLOODEX of c, or says it again.               *)
FloodEx(c) ==
    /\ cl[c].st = "person" /\ c \in Exempted
    /\ cl' = [cl EXCEPT ![c].floodex = ~@]
    /\ UNCHANGED <<pos, pool>>

(* A second passes.                                                         *)
Tick ==
    /\ \E c \in Conn : cl[c].wait > -Idle
    /\ cl' = [c \in Conn |-> [cl[c] EXCEPT !.wait = Larger(@ - 1, -Idle)]]
    /\ UNCHANGED <<pos, pool>>

Reading(c) == \E n \in 1 .. ReadBuf : ReadPacket(c, n)

Next == \/ \E c \in Conn : Reading(c) \/ ParseLater(c) \/ EndOfFile(c) \/ FloodEx(c)
        \/ Tick

Spec == Init /\ [][Next]_vars

(* read_message visits every connection; time passes.  Strong fairness of   *)
(* the two actions, the condition that enables them spelt out.             *)
CanRead(c) == Selected(c) /\ Come(c) > 0
CanParse(c) == /\ cl[c].st # "gone" /\ cl[c].q.len > 0
               /\ cl[c].wait < Burst /\ ~cl[c].nonl
               /\ ~Selected(c) \/ cl[c].st # "server"

FairSpec == /\ Spec
            /\ WF_vars(Tick)
            /\ \A c \in Conn : /\ (<>[]~CanRead(c) \/ []<><<Reading(c)>>_vars)
                             /\ (<>[]~CanParse(c) \/ []<><<ParseLater(c)>>_vars)

-----------------------------------------------------------------------------
TypeOK == /\ \A c \in Conn : cl[c] \in Client /\ pos[c] \in 0 .. Len(Script[c])
          /\ pool \in D!Pool

(* The lines of a script as the peer means them: the longest runs of bytes  *)
(* between line ends.                                                       *)
Line(c) == {p \in (1 .. pos[c]) \X (1 .. pos[c]) :
              /\ p[1] <= p[2]
              /\ \A k \in p[1] .. p[2] : Script[c][k] # "|"
              /\ p[1] = 1 \/ Script[c][p[1] - 1] = "|"
              /\ p[2] < pos[c] /\ Script[c][p[2] + 1] = "|"}

(* Places of the bytes the program still has of what c sent, in order.      *)
RECURSIVE Flat(_)
Flat(blk) == IF blk = << >> THEN << >>
             ELSE SubSeq(Head(blk).data, Head(blk).start + 1, Len(Head(blk).data))
                  \o Flat(Tail(blk))
Held(c) == cl[c].buf \o Flat(cl[c].q.blk)

(* The books of dbuf.c are right: every queue knows its length, no drained  *)
(* block is kept, full blocks come before the last, the used blocks are     *)
(* those of the queues, and no more were allocated than were counted.  A    *)
(* recvQ holds at most one read more than the limit of read_message.        *)
BooksRight ==
    /\ TypeOK
    /\ \A c \in Conn :
         LET q == cl[c].q IN
         /\ q.len < ReadMax + ReadBuf
         /\ q.len = Len(Flat(q.blk))
         /\ \A i \in 1 .. Len(q.blk) : /\ q.blk[i].start < Len(q.blk[i].data)
                                       /\ Len(q.blk[i].data) <= BlockSize
                                       /\ i < Len(q.blk) => Len(q.blk[i].data) = BlockSize
                                       /\ i > 1 => q.blk[i].start = 0
    /\ LET n[C \in SUBSET Conn] == IF C = {} THEN 0
                                   ELSE LET c == CHOOSE c \in C : TRUE
                                        IN  Len(cl[c].q.blk) + n[C \ {c}]
       IN  pool.used = n[Conn]
    /\ pool.used + pool.free <= pool.count + 1

(* No line is lost: what was read is executed, still held, or was given up  *)
(* because no line end was among NoLine bytes.                              *)
NotLost(c) ==
    \A p \in Line(c) :
      \/ \E i \in 1 .. Len(cl[c].ran) : cl[c].ran[i][1] = <<c, p[1]>>
      \/ \E k \in 1 .. Len(Held(c)) : Held(c)[k] = <<c, p[1]>>
      \/ cl[c].cleared /\ p[2] - p[1] + 1 >= NoLine

(* Lines are executed in the order in which they were sent, each once and   *)
(* as its peer sent it: its bytes from the first on, to its end or as many  *)
(* as the buffer takes, one less in that of a server, and none other.  A    *)
(* line that was given up leaves its rest behind, which is executed as if   *)
(* it were a line (parse_client_queued).                                    *)
Registers(l) == At(l[1]) \in {"R", "S"}
Room(ran, i) ==
    IF \E j \in 1 .. i - 1 : /\ At(ran[j][1]) = "S"
                            /\ \A k \in 1 .. j - 1 : ~Registers(ran[k])
    THEN BufSize - 1 ELSE BufSize

Whole(c, i) ==
    LET l == cl[c].ran[i]
        room == Room(cl[c].ran, i)
        first == l[1][2]
        last == first + Len(l) - 1
    IN  /\ \A k \in 1 .. Len(l) : l[k] = <<c, first + k - 1>> /\ ~Eol(l[k])
        /\ Len(l) <= room
        /\ Len(l) = room \/ (last < pos[c] /\ Script[c][last + 1] = "|")
        /\ first = 1 \/ Script[c][first - 1] = "|" \/ cl[c].cleared

LinesRight ==
    \A c \in Conn : ~cl[c].late =>
      /\ \A i \in 1 .. Len(cl[c].ran) :
           /\ Whole(c, i)
           /\ i > 1 => LET p == cl[c].ran[i - 1] IN cl[c].ran[i][1][2] > p[Len(p)][2]
      /\ cl[c].st # "gone" => NotLost(c)

(* Both: what is read is kept in order, and executed as it was sent.        *)
InputRight == BooksRight /\ LinesRight

(* Every line that a connection sends is executed in the end, unless it     *)
(* goes away before: the delay of a flooding client passes, a recvQ that is *)
(* too long to be read into is emptied, and a client that waits for the end *)
(* of a line is heard again when it comes.                                  *)
AllDone(c) == \/ cl[c].st = "gone"
              \/ /\ pos[c] = Len(Script[c])
                 /\ \/ cl[c].late
                    \/ cl[c].cleared
                    \/ \A p \in Line(c) : \E i \in 1 .. Len(cl[c].ran) :
                                            cl[c].ran[i][1] = <<c, p[1]>>
Serves == \A c \in Conn : <>AllDone(c)
=============================================================================
