--------------------------------- MODULE DBuf ---------------------------------
(***************************************************************************)
(* dbuf.c: byte queues made of blocks of BlockSize bytes, and the pool the  *)
(* blocks come from.  A queue is [blk, len]: its chain of blocks, head      *)
(* first, each with the bytes put into it and where the unread ones start,  *)
(* and the length that the code keeps beside it.  The operators work on     *)
(* [blk, len, pool], a queue together with the pool, loop by loop.          *)
(***************************************************************************)
EXTENDS Integers, Sequences, FiniteSets

CONSTANTS BlockSize,    \* DBUF_SIZE
          InitBlocks,   \* INITIAL_DBUFS
          UsualMax,     \* DBUF_USUAL_MAX_COUNT
          IsEol(_)      \* a byte that ends a line

(* DBufUsedCount, the length of dbufFreeList, DBufCount.  The list begins   *)
(* with one block more than DBufCount says.                                 *)
Pool == [used : Nat, free : Nat, count : Nat]
dbuf_init == [used |-> 0, free |-> InitBlocks + 1, count |-> InitBlocks]

Empty == [blk |-> << >>, len |-> 0]
With(q, pool) == [blk |-> q.blk, len |-> q.len, pool |-> pool]
Queue(d) == [blk |-> d.blk, len |-> d.len]

Least(a, b) == IF a < b THEN a ELSE b

dbuf_alloc(p) ==
    IF p.free > 0 THEN [p EXCEPT !.free = @ - 1, !.used = @ + 1]
                  ELSE [p EXCEPT !.count = @ + 1, !.used = @ + 1]

(* A block that is not usual any more goes back to malloc (DBufCount keeps  *)
(* counting it).                                                            *)
dbuf_free(p) ==
    IF p.used > UsualMax THEN [p EXCEPT !.used = @ - 1]
                         ELSE [p EXCEPT !.free = @ + 1, !.used = @ - 1]

Drop(d) == [d EXCEPT !.blk = Tail(@), !.pool = dbuf_free(@)]
Unread(b) == Len(b.data) - b.start

(* dbuf_put: fill the last block, then allocate.                            *)
RECURSIVE PutFrom(_, _, _)
PutFrom(d, i, s) ==
    IF s = << >> THEN d
    ELSE IF i > Len(d.blk)
    THEN PutFrom([d EXCEPT !.blk = Append(@, [data |-> << >>, start |-> 0]),
                           !.pool = dbuf_alloc(@)], i, s)
    ELSE LET chunk == Least(BlockSize - Len(d.blk[i].data), Len(s))
         IN  PutFrom([d EXCEPT !.blk[i].data = @ \o SubSeq(s, 1, chunk)],
                     i + 1, SubSeq(s, chunk + 1, Len(s)))

dbuf_put(d, s) ==
    PutFrom([d EXCEPT !.len = @ + Len(s)], IF d.len = 0 THEN 1 ELSE Len(d.blk), s)

(* dbuf_delete, block by block.                                             *)
RECURSIVE DeleteLoop(_, _)
DeleteLoop(d, n) ==
    IF n = 0 \/ d.blk = << >> THEN d
    ELSE LET chunk == Least(Unread(Head(d.blk)), n)
             e == [d EXCEPT !.len = @ - chunk, !.blk[1].start = @ + chunk]
         IN  DeleteLoop(IF Unread(Head(e.blk)) = 0 THEN Drop(e) ELSE e, n - chunk)

dbuf_delete(d, n) ==
    LET e == DeleteLoop(d, Least(n, d.len))
    IN  IF e.blk = << >> THEN [e EXCEPT !.len = 0] ELSE e

DBufClear(d) == dbuf_delete(d, d.len)

(* dbuf_map: what is left of the first block.                               *)
dbuf_map(d) ==
    IF d.len = 0 THEN << >>
    ELSE SubSeq(Head(d.blk).data, Head(d.blk).start + 1, Len(Head(d.blk).data))

RECURSIVE GetLoop(_, _, _)
GetLoop(d, n, got) ==
    LET b == dbuf_map(d)
        chunk == Least(Len(b), n)
    IN  IF n = 0 \/ b = << >> THEN [out |-> got, d |-> d]
        ELSE GetLoop(dbuf_delete(d, chunk), n - chunk, got \o SubSeq(b, 1, chunk))

dbuf_get(d, n) == GetLoop(d, n, << >>)

(* dbuf_flush: line ends at the front go.                                   *)
RECURSIVE FlushLoop(_)
FlushLoop(d) ==
    LET b == Head(d.blk)
        e == [d EXCEPT !.blk[1].start = @ + 1]
        g == Drop(e)
    IN  IF ~IsEol(b.data[b.start + 1]) THEN d
        ELSE IF Unread(Head(e.blk)) > 0 THEN FlushLoop([e EXCEPT !.len = @ - 1])
        ELSE IF g.blk = << >> THEN [g EXCEPT !.len = 0]
        ELSE FlushLoop([g EXCEPT !.len = @ - 1])

dbuf_flush(d) == IF d.blk = << >> THEN d ELSE FlushLoop(d)

(* dbuf_getmsg: the bytes up to the first line end among the first n, over  *)
(* as many blocks as it takes; the line ends after it go too.  No bytes:    *)
(* there is no whole line.                                                  *)
RECURSIVE ScanLoop(_, _, _, _)
ScanLoop(d, i, n, line) ==
    LET b == d.blk[i]
        last == Least(Len(b.data), b.start + n)
        eol == {k \in (b.start + 1) .. last : IsEol(b.data[k])}
    IN  IF n = 0 THEN << >>
        ELSE IF eol # {}
        THEN line \o SubSeq(b.data, b.start + 1,
                            (CHOOSE k \in eol : \A l \in eol : k <= l) - 1)
        ELSE IF i = Len(d.blk) THEN << >>
        ELSE ScanLoop(d, i + 1, n - (last - b.start),
                      line \o SubSeq(b.data, b.start + 1, last))

dbuf_getmsg(d, n) ==
    LET e == dbuf_flush(d)
        line == IF e.len = 0 THEN << >> ELSE ScanLoop(e, 1, Least(n, e.len), << >>)
    IN  [out |-> line,
         d |-> IF line = << >> THEN e ELSE dbuf_flush(dbuf_delete(e, Len(line)))]
===============================================================================
