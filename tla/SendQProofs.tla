------------------------------ MODULE SendQProofs ------------------------------
(***************************************************************************)
(* Proofs about module SendQ: what is queued is the end of the stream, and  *)
(* not too much of it; and so SendQ implements Pipe; and a LIST that runs   *)
(* to its end is complete.                                                  *)
(*                                                                          *)
(* The stream of a connection is cut in three: what the peer has (seen),    *)
(* the units of its queue, each beginning where the one before it ended,    *)
(* and the bytes in outbuf.  A relay, a write, a flush of outbuf and a dead *)
(* link each keep this, and the bounds of the queue and of outbuf.  A flush *)
(* after the loop of send_queued finds bytes in outbuf since nothing else   *)
(* runs between: the loop that has more to do is always the running call.   *)
(*                                                                          *)
(* For LIST, ListInv says what the list of a client still has to show, by   *)
(* the call of it that is on the stack, or by the place where it stopped.   *)
(***************************************************************************)
EXTENDS SendQ, SequenceTheorems, FiniteSetTheorems, WellFoundedInduction, TLAPS

(* The least number of a set of them, from the well-founded order of the    *)
(* initial segments; and from it induction over a set.                      *)
LEMMA Least_Number ==
    ASSUME NEW T \in SUBSET Nat, T # {}
    PROVE  \E x \in T : \A y \in T : x <= y
<1> DEFINE Segments == {0 .. n : n \in T}
<1>1. Segments \subseteq FiniteSubsetsOf(Nat) /\ Segments # {}
    <2>1. \A n \in T : n \in Nat /\ 0 .. n \in SUBSET Nat
        OBVIOUS
    <2>2. \A n \in T : IsFiniteSet(0 .. n)
        BY <2>1, FS_Interval
    <2> QED
        BY <2>1, <2>2 DEF FiniteSubsetsOf
<1>2. PICK X \in Segments : \A Y \in Segments : <<Y, X>> \notin StrictSubsetOrdering(Nat)
    <2> HIDE DEF Segments
    <2> QED
        BY <1>1, WFMin, FS_StrictSubsetOrderingWellFounded
<1>3. PICK x \in T : X = 0 .. x
    OBVIOUS
<1>4. ASSUME NEW y \in T PROVE x <= y
    <2> SUFFICES ASSUME y < x PROVE FALSE
        OBVIOUS
    <2>1. 0 .. y \subseteq 0 .. x /\ 0 .. y # 0 .. x
        OBVIOUS
    <2>2. <<0 .. y, X>> \in StrictSubsetOrdering(Nat)
        BY <2>1, <1>3 DEF StrictSubsetOrdering
    <2> QED
        BY <2>2, <1>2
<1> QED
    BY <1>4

LEMMA Set_Induction ==
    ASSUME NEW S, 0 \in S, \A n \in Nat : n \in S => n + 1 \in S
    PROVE  Nat \subseteq S
<1> DEFINE Without == {n \in Nat : n \notin S}
<1> SUFFICES ASSUME Without # {} PROVE FALSE
    OBVIOUS
<1>1. PICK x \in Without : \A y \in Without : x <= y
    <2>1. Without \in SUBSET Nat
        OBVIOUS
    <2> HIDE DEF Without
    <2> QED
        BY Least_Number, <2>1
<1>2. x # 0 /\ x \in Nat
    OBVIOUS
<1>3. x - 1 \in Nat /\ x - 1 \in S
    BY <1>1, <1>2
<1> QED
    BY <1>3, <1>1

-----------------------------------------------------------------------------
(* Queues of units that follow one another.                                 *)
Chained(sq) ==
    \A k \in 1 .. Len(sq) : /\ sq[k][1] < sq[k][2]
                            /\ k < Len(sq) => sq[k][2] = sq[k + 1][1]

(* The bytes of the first r units of a queue are those from its first one   *)
(* to the last of unit r (deliver_it).                                      *)
LEMMA Covered_Range ==
    ASSUME NEW sq \in Seq(Unit), sq # << >>, Chained(sq), NEW r \in 1 .. Len(sq)
    PROVE  /\ Covered(sq, r) = sq[1][1] .. (sq[r][2] - 1)
           /\ sq[1][1] < sq[r][2]
<1> DEFINE First == sq[1][1]
           Good == {n \in Nat : n \in 1 .. Len(sq) =>
                       Covered(sq, n) = First .. (sq[n][2] - 1) /\ First < sq[n][2]}
<1>0. /\ Len(sq) \in Nat /\ \A k \in 1 .. Len(sq) : sq[k] \in Unit
      /\ \A k \in 1 .. Len(sq) : sq[k][1] \in Nat /\ sq[k][2] \in Nat
    BY DEF Unit
<1>1. 0 \in Good
    OBVIOUS
<1>2. ASSUME NEW n \in Nat, n \in Good PROVE n + 1 \in Good
    <2> SUFFICES ASSUME n + 1 \in 1 .. Len(sq)
                 PROVE  Covered(sq, n + 1) = First .. (sq[n + 1][2] - 1) /\ First < sq[n + 1][2]
        BY <1>2
    <2>1. Covered(sq, n + 1) = Covered(sq, n) \cup (sq[n + 1][1] .. (sq[n + 1][2] - 1))
        <3>1. 1 .. n + 1 = (1 .. n) \cup {n + 1}
            BY <1>0
        <3>2. {sq[k] : k \in 1 .. n + 1} = {sq[k] : k \in 1 .. n} \cup {sq[n + 1]}
            BY <3>1
        <3> QED
            BY <3>2, Zenon DEF Covered
    <2>2. sq[n + 1][1] < sq[n + 1][2]
        BY DEF Chained
    <2>3. CASE n = 0
        <3>1. Covered(sq, n) = {}
            BY <2>3 DEF Covered
        <3>2. n + 1 = 1
            BY <2>3
        <3> QED
            BY <3>1, <3>2, <2>1, <2>2
    <2>4. CASE n # 0
        <3>1. n \in 1 .. Len(sq) /\ sq[n][2] = sq[n + 1][1]
            BY <2>4, <1>0 DEF Chained
        <3>2. Covered(sq, n) = First .. (sq[n][2] - 1) /\ First < sq[n][2]
            BY <3>1, <1>2
        <3>3. First \in Nat /\ sq[n + 1][1] \in Nat /\ sq[n + 1][2] \in Nat
            BY <1>0, <3>1
        <3>4. First < sq[n + 1][2]
            BY <3>1, <3>2, <3>3, <2>2
        <3>5. Covered(sq, n + 1) = (First .. (sq[n + 1][1] - 1)) \cup (sq[n + 1][1] .. (sq[n + 1][2] - 1))
            BY <2>1, <3>1, <3>2
        <3>6. First < sq[n + 1][1]
            BY <3>1, <3>2
        <3> HIDE DEF First
        <3>7. (First .. (sq[n + 1][1] - 1)) \cup (sq[n + 1][1] .. (sq[n + 1][2] - 1))
              = First .. (sq[n + 1][2] - 1)
            BY <3>3, <3>6, <2>2
        <3> QED
            BY <3>4, <3>5, <3>7
    <2> QED
        BY <2>3, <2>4
<1> HIDE DEF Good
<1>3. Nat \subseteq Good
    BY <1>1, <1>2, Set_Induction
<1> QED
    BY <1>3, <1>0 DEF Good

-----------------------------------------------------------------------------
(* The stream of a connection r with total bytes queued so far, of which    *)
(* the peer has got.                                                        *)
Begins(r, total) == IF r.sq = << >> THEN total - r.zout ELSE r.sq[1][1]
InStream(r, total, got) ==
    /\ got = 0 .. (Begins(r, total) - 1)
    /\ Chained(r.sq)
    /\ r.sq # << >> => r.sq[Len(r.sq)][2] = total - r.zout
    /\ \A k \in 1 .. Len(r.sq) : r.sq[k][2] <= total - r.zout

(* The sequence of one connection that is up or not, with its bounds.       *)
LinkRight(c, r, total, got) ==
    /\ r \in Client /\ total \in Nat /\ got \in SUBSET Nat
    /\ r.doing \/ r.pop => c \in Lister
    /\ c \notin Zip => r.zout = 0
    /\ r.zout <= total /\ r.zout + MaxLine <= ZipMax
    /\ Len(r.sq) <= Limit[c] + MaxLine
    /\ IF r.open /\ ~r.dead THEN InStream(r, total, got) ELSE r.sq = << >>

(* zip_buffer moves outbuf to the end of the queue.                         *)
LEMMA Flush_Stream ==
    ASSUME NEW r \in Client, NEW total \in Nat, NEW got,
           InStream(r, total, got), r.zout > 0, r.zout <= total
    PROVE  /\ ZipFlush(r, total) \in Client
           /\ Len(ZipFlush(r, total).sq) = Len(r.sq) + 1
           /\ InStream(ZipFlush(r, total), total, got)
<1> DEFINE u == <<total - r.zout, total>>
           s == Append(r.sq, u)
           z == ZipFlush(r, total)
<1>1. /\ r.zout \in Nat /\ r.sq \in Seq(Unit) /\ u \in Unit /\ Len(r.sq) \in Nat
      /\ u[1] = total - r.zout /\ u[2] = total
    BY DEF Client, Unit
<1>2. /\ s \in Seq(Unit) /\ s # << >> /\ Len(s) = Len(r.sq) + 1
      /\ \A k \in 1 .. Len(r.sq) : s[k] = r.sq[k]
      /\ s[Len(r.sq) + 1] = u
    BY <1>1, AppendProperties
<1>3. z \in Client /\ z.sq = s /\ z.zout = 0
    BY <1>1, <1>2 DEF ZipFlush, Client
<1>4. \A k \in 1 .. Len(r.sq) : r.sq[k][1] \in Nat /\ r.sq[k][2] \in Nat
    BY <1>1 DEF Unit
<1> HIDE DEF u, s, z
<1>5. Chained(s)
    <2> SUFFICES ASSUME NEW k \in 1 .. Len(s)
                 PROVE  /\ s[k][1] < s[k][2]
                        /\ k < Len(s) => s[k][2] = s[k + 1][1]
        BY DEF Chained
    <2>1. CASE k = Len(r.sq) + 1
        BY <2>1, <1>1, <1>2
    <2>2. CASE k \in 1 .. Len(r.sq)
        <3>1. s[k] = r.sq[k] /\ s[k][1] < s[k][2]
            BY <2>2, <1>2 DEF InStream, Chained
        <3>2. CASE k = Len(r.sq)
            <4>1. r.sq # << >>
                BY <2>2, <1>1
            <4> QED
                BY <3>1, <3>2, <1>1, <1>2, <4>1 DEF InStream
        <3>3. CASE k < Len(r.sq)
            <4>1. s[k + 1] = r.sq[k + 1]
                BY <3>3, <2>2, <1>1, <1>2
            <4> QED
                BY <3>1, <3>3, <4>1, <2>2 DEF InStream, Chained
        <3> QED
            BY <3>2, <3>3, <2>2, <1>1
    <2> QED
        BY <2>1, <2>2, <1>1, <1>2
<1>6. Begins(z, total) = Begins(r, total)
    <2>1. CASE r.sq = << >>
        BY <2>1, <1>1, <1>2, <1>3 DEF Begins
    <2>2. CASE r.sq # << >>
        <3>1. 1 \in 1 .. Len(r.sq)
            BY <2>2, <1>1
        <3> QED
            BY <2>2, <3>1, <1>2, <1>3 DEF Begins
    <2> QED
        BY <2>1, <2>2
<1>7. \A k \in 1 .. Len(s) : s[k][2] <= total
    <2> SUFFICES ASSUME NEW k \in 1 .. Len(s) PROVE s[k][2] <= total
        OBVIOUS
    <2>1. CASE k = Len(r.sq) + 1
        BY <2>1, <1>1, <1>2
    <2>2. CASE k \in 1 .. Len(r.sq)
        BY <2>2, <1>1, <1>2, <1>4 DEF InStream
    <2> QED
        BY <2>1, <2>2, <1>1, <1>2
<1> QED
    BY <1>1, <1>2, <1>3, <1>5, <1>6, <1>7 DEF InStream, z

(* dbuf_put adds n bytes to the queue of a connection that is not           *)
(* compressed.                                                              *)
LEMMA Bytes_Value ==
    ASSUME NEW a \in Nat, NEW n \in Nat
    PROVE  /\ Bytes(a, n) \in Seq(Unit) /\ Len(Bytes(a, n)) = n
           /\ \A k \in 1 .. n : /\ Bytes(a, n)[k] = <<a + (k - 1), a + k>>
                               /\ Bytes(a, n)[k][1] = a + (k - 1)
                               /\ Bytes(a, n)[k][2] = a + k
<1>1. \A k \in 1 .. n : <<a + (k - 1), a + k>> \in Unit
    BY DEF Unit
<1>2. Bytes(a, n) \in [1 .. n -> Unit]
    BY <1>1 DEF Bytes
<1>3. Bytes(a, n) \in Seq(Unit)
    BY <1>2, SeqDef
<1>4. DOMAIN Bytes(a, n) = 1 .. n
    BY DEF Bytes
<1>5. Len(Bytes(a, n)) = n
    BY <1>3, <1>4, LenProperties
<1>6. \A k \in 1 .. n : Bytes(a, n)[k] = <<a + (k - 1), a + k>>
    BY DEF Bytes
<1> QED
    BY <1>3, <1>5, <1>6

LEMMA Bytes_Stream ==
    ASSUME NEW r \in Client, NEW total \in Nat, NEW got, NEW n \in Nat \ {0},
           InStream(r, total, got), r.zout = 0
    PROVE  LET z == [r EXCEPT !.sq = r.sq \o Bytes(total, n)]
           IN  /\ z \in Client /\ Len(z.sq) = Len(r.sq) + n
               /\ InStream(z, total + n, got)
<1> DEFINE b == Bytes(total, n)
           s == r.sq \o b
           z == [r EXCEPT !.sq = s]
<1>1. /\ r.sq \in Seq(Unit) /\ Len(r.sq) \in Nat /\ r.zout = 0
      /\ \A k \in 1 .. Len(r.sq) : r.sq[k][1] \in Nat /\ r.sq[k][2] \in Nat
    BY DEF Client, Unit
<1>2. /\ b \in Seq(Unit) /\ Len(b) = n
      /\ \A k \in 1 .. n : b[k][1] = total + (k - 1) /\ b[k][2] = total + k
    BY Bytes_Value
<1> HIDE DEF b
<1>3. /\ s \in Seq(Unit) /\ Len(s) = Len(r.sq) + n
      /\ \A k \in 1 .. Len(r.sq) : s[k] = r.sq[k]
      /\ \A k \in 1 .. n : s[Len(r.sq) + k] = b[k]
    <2>1. /\ s \in Seq(Unit) /\ Len(s) = Len(r.sq) + n
          /\ \A i \in 1 .. Len(r.sq) + Len(b) :
                s[i] = IF i <= Len(r.sq) THEN r.sq[i] ELSE b[i - Len(r.sq)]
        BY <1>1, <1>2, ConcatProperties
    <2>2. ASSUME NEW k \in 1 .. n PROVE s[Len(r.sq) + k] = b[k]
        <3>1. Len(r.sq) + k \in 1 .. Len(r.sq) + Len(b) /\ ~(Len(r.sq) + k <= Len(r.sq))
            BY <1>1, <1>2
        <3>2. (Len(r.sq) + k) - Len(r.sq) = k
            BY <1>1
        <3> QED
            BY <2>1, <3>1, <3>2
    <2>3. ASSUME NEW k \in 1 .. Len(r.sq) PROVE s[k] = r.sq[k]
        BY <2>1, <1>1, <1>2
    <2> QED
        BY <2>1, <2>2, <2>3
<1>4. z \in Client /\ z.sq = s /\ z.zout = 0
    BY <1>1, <1>3 DEF Client
<1> HIDE DEF s, z
<1>5. \A k \in 1 .. n : /\ s[Len(r.sq) + k][1] = total + (k - 1)
                        /\ s[Len(r.sq) + k][2] = total + k
    BY <1>2, <1>3
<1>6. Chained(s)
    <2> SUFFICES ASSUME NEW k \in 1 .. Len(s)
                 PROVE  /\ s[k][1] < s[k][2]
                        /\ k < Len(s) => s[k][2] = s[k + 1][1]
        BY DEF Chained
    <2>1. CASE k > Len(r.sq)
        <3>1. PICK i \in 1 .. n : k = Len(r.sq) + i
            <4>1. k - Len(r.sq) \in 1 .. n
                BY <2>1, <1>1, <1>3
            <4>2. k \in Int /\ k = Len(r.sq) + (k - Len(r.sq))
                BY <1>1, <1>3
            <4> QED
                BY <4>1, <4>2
        <3>2. CASE i < n
            <4>1. i + 1 \in 1 .. n /\ Len(r.sq) + (i + 1) = k + 1
                <5>1. i \in Nat /\ Len(r.sq) \in Nat /\ i + 1 <= n
                    BY <3>2, <1>1
                <5>2. i + 1 \in 1 .. n
                    BY <5>1
                <5>3. \A x, y \in Nat : x + (y + 1) = (x + y) + 1
                    OBVIOUS
                <5> QED
                    BY <5>1, <5>2, <5>3, <3>1
            <4>2. s[k + 1][1] = total + ((i + 1) - 1)
                BY <4>1, <1>5
            <4> QED
                BY <3>1, <4>2, <1>5
        <3>3. CASE i = n
            <4>1. k = Len(s) /\ s[k][1] = total + (n - 1) /\ s[k][2] = total + n
                BY <3>1, <3>3, <1>3, <1>5
            <4> QED
                BY <4>1, <1>1, <1>3
        <3> QED
            BY <3>2, <3>3
    <2>2. CASE k \in 1 .. Len(r.sq)
        <3>1. s[k] = r.sq[k] /\ s[k][1] < s[k][2]
            BY <2>2, <1>3 DEF InStream, Chained
        <3>2. CASE k = Len(r.sq)
            <4>1. r.sq # << >>
                BY <2>2, <1>1
            <4>2. s[k][2] = total
                BY <4>1, <3>1, <3>2, <1>1 DEF InStream
            <4>3. s[Len(r.sq) + 1][1] = total + (1 - 1)
                BY <1>5
            <4> QED
                BY <3>1, <3>2, <4>2, <4>3
        <3>3. CASE k < Len(r.sq)
            <4>1. s[k + 1] = r.sq[k + 1]
                BY <3>3, <2>2, <1>1, <1>3
            <4> QED
                BY <3>1, <3>3, <4>1, <2>2 DEF InStream, Chained
        <3> QED
            BY <3>2, <3>3, <2>2, <1>1
    <2> QED
        BY <2>1, <2>2, <1>1
<1>7. s # << >> /\ s[Len(s)][2] = total + n
    <2>1. s[Len(r.sq) + n][2] = total + n
        BY <1>5
    <2> QED
        BY <2>1, <1>1, <1>3
<1>8. Begins(z, total + n) = Begins(r, total)
    <2>1. CASE r.sq = << >>
        <3>1. s[Len(r.sq) + 1][1] = total + (1 - 1) /\ Len(r.sq) = 0
            BY <2>1, <1>5
        <3> QED
            BY <3>1, <2>1, <1>1, <1>4, <1>7 DEF Begins
    <2>2. CASE r.sq # << >>
        <3>1. 1 \in 1 .. Len(r.sq)
            BY <2>2, <1>1
        <3> QED
            BY <2>2, <3>1, <1>3, <1>4, <1>7 DEF Begins
    <2> QED
        BY <2>1, <2>2
<1>9. \A k \in 1 .. Len(s) : s[k][2] <= total + n
    <2> SUFFICES ASSUME NEW k \in 1 .. Len(s) PROVE s[k][2] <= total + n
        OBVIOUS
    <2>1. CASE k \in 1 .. Len(r.sq)
        <3>1. r.sq[k][2] <= total
            BY <2>1, <1>1 DEF InStream
        <3>2. s[k] = r.sq[k] /\ s[k][2] \in Nat
            BY <2>1, <1>1, <1>3
        <3> QED
            BY <3>1, <3>2
    <2>2. CASE k > Len(r.sq)
        <3>1. k - Len(r.sq) \in 1 .. n /\ k = Len(r.sq) + (k - Len(r.sq))
            BY <2>2, <1>1, <1>3
        <3>2. s[k][2] = total + (k - Len(r.sq))
            BY <3>1, <1>5
        <3>3. k - Len(r.sq) <= n /\ k - Len(r.sq) \in Nat
            BY <3>1
        <3>4. \A x, y, w \in Nat : x <= y => w + x <= w + y
            OBVIOUS
        <3>5. n \in Nat /\ total + (k - Len(r.sq)) <= total + n
            BY <3>3, <3>4
        <3> QED
            BY <3>2, <3>5
    <2> QED
        BY <2>1, <2>2, <1>1
<1>10. InStream(z, total + n, got)
    BY <1>1, <1>4, <1>6, <1>7, <1>8, <1>9 DEF InStream
<1> QED
    BY <1>1, <1>3, <1>4, <1>10 DEF z, s, b

LEMMA Quotient == ASSUME NEW a \in Nat, NEW b \in Nat \ {0} PROVE a \div b \in Nat
OBVIOUS

LEMMA Modulo == ASSUME NEW a \in Nat, NEW b \in Nat \ {0} PROVE a % b \in Nat
OBVIOUS

(* The peer gets the next bytes, as Deliver of Pipe has it.                 *)
Further(got, all, total) ==
    \E k \in 1 .. total : all = 0 .. (k - 1) /\ got \subseteq 0 .. (k - 1)

(* DBufDelete of n units that were written: the peer has got up to the      *)
(* beginning of what is left.                                               *)
LEMMA Delete_Stream ==
    ASSUME NEW r \in Client, NEW total \in Nat, NEW got,
           InStream(r, total, got), r.zout <= total, r.sq # << >>,
           NEW n \in Nat, n <= Len(r.sq)
    PROVE  LET z == DbufDelete(r, n)
               all == got \cup Covered(r.sq, n)
           IN  /\ z \in Client /\ Len(z.sq) <= Len(r.sq)
               /\ InStream(z, total, all)
               /\ n = 0 => all = got
               /\ n # 0 => Further(got, all, total)
<1> DEFINE s == SubSeq(r.sq, n + 1, Len(r.sq))
           z == DbufDelete(r, n)
           L == Len(r.sq)
           all == got \cup Covered(r.sq, n)
<1>1. /\ r.sq \in Seq(Unit) /\ L \in Nat /\ L # 0 /\ r.zout \in Nat /\ r.off \in Nat
      /\ \A k \in 1 .. L : r.sq[k][1] \in Nat /\ r.sq[k][2] \in Nat
    BY DEF Client, Unit
<1>2. /\ s \in Seq(Unit) /\ Len(s) = L - n
      /\ \A k \in 1 .. L - n : s[k] = r.sq[n + k]
    <2>1. \A i \in n + 1 .. L : r.sq[i] \in Unit
        BY <1>1
    <2>2. /\ s \in Seq(Unit)
          /\ Len(s) = IF n + 1 <= L THEN L - (n + 1) + 1 ELSE 0
          /\ \A i \in 1 .. L - (n + 1) + 1 : s[i] = r.sq[(n + 1) + i - 1]
        BY <2>1, <1>1, SubSeqProperties
    <2>3. L - (n + 1) + 1 = L - n
        BY <1>1
    <2>4. \A i \in 1 .. L - n : (n + 1) + i - 1 = n + i
        BY <1>1
    <2>5. n <= L
        OBVIOUS
    <2> HIDE DEF s, L
    <2>6. \A k \in 1 .. L - n : s[k] = r.sq[n + k]
        BY <2>2, <2>3, <2>4
    <2>7. Len(s) = L - n
        BY <2>2, <2>3, <2>5, <1>1
    <2> QED
        BY <2>2, <2>6, <2>7
<1>3. z \in Client /\ z.sq = s /\ z.zout = r.zout
    <2>1. (r.off + n) % K \in Nat
        BY <1>1, Modulo, SendQAssumption
    <2> QED
        BY <2>1, <1>1, <1>2 DEF DbufDelete, Client
<1> HIDE DEF s, z
<1>4. Chained(s)
    <2> SUFFICES ASSUME NEW k \in 1 .. Len(s)
                 PROVE  /\ s[k][1] < s[k][2]
                        /\ k < Len(s) => s[k][2] = s[k + 1][1]
        BY DEF Chained
    <2>1. n + k \in 1 .. L /\ k \in 1 .. L - n
        BY <1>1, <1>2
    <2>2. s[k] = r.sq[n + k] /\ s[k][1] < s[k][2]
        BY <2>1, <1>2 DEF InStream, Chained
    <2>3. ASSUME k < Len(s) PROVE s[k][2] = s[k + 1][1]
        <3>1. k + 1 \in 1 .. L - n /\ n + k < L
            BY <2>3, <2>1, <1>1, <1>2
        <3>2. \A a, b \in Nat : a + (b + 1) = (a + b) + 1
            OBVIOUS
        <3>3. n + (k + 1) = (n + k) + 1
            BY <2>1, <3>2
        <3>4. s[k + 1] = r.sq[(n + k) + 1]
            BY <3>1, <3>3, <1>2
        <3>5. r.sq[n + k][2] = r.sq[(n + k) + 1][1]
            BY <3>1, <2>1 DEF InStream, Chained
        <3> QED
            BY <3>4, <3>5, <2>2
    <2> QED
        BY <2>2, <2>3
<1>5. s # << >> => s[Len(s)][2] = total - r.zout
    <2> SUFFICES ASSUME s # << >> PROVE s[Len(s)][2] = total - r.zout
        OBVIOUS
    <2>1. Len(s) \in 1 .. L - n /\ n + Len(s) = L
        BY <1>1, <1>2
    <2>2. s[Len(s)] = r.sq[L]
        BY <2>1, <1>2
    <2> QED
        BY <2>2 DEF InStream
<1>6. \A k \in 1 .. Len(s) : s[k][2] <= total - r.zout
    <2> SUFFICES ASSUME NEW k \in 1 .. Len(s) PROVE s[k][2] <= total - r.zout
        OBVIOUS
    <2>1. n + k \in 1 .. L /\ k \in 1 .. L - n
        BY <1>1, <1>2
    <2> QED
        BY <2>1, <1>2 DEF InStream
<1>7. CASE n = 0
    <2>1. s = r.sq
        BY <1>7, <1>1, SubSeqFull DEF s
    <2>2. Covered(r.sq, n) = {}
        BY <1>7 DEF Covered
    <2>3. InStream(z, total, all)
        BY <2>1, <2>2, <1>3 DEF InStream, Begins
    <2> QED
        BY <1>7, <2>1, <2>2, <2>3, <1>1, <1>3 DEF z
<1>8. CASE n # 0
    <2> DEFINE e == r.sq[n][2]
               f == r.sq[1][1]
    <2>1. n \in 1 .. L /\ 1 \in 1 .. L
        BY <1>8, <1>1
    <2>2. e \in Nat /\ f \in Nat
        BY <2>1, <1>1
    <2>3. Covered(r.sq, n) = f .. (e - 1) /\ f < e
        BY <2>1, <1>1, Covered_Range DEF InStream
    <2>4. e <= total - r.zout
        BY <2>1 DEF InStream
    <2>5. got = 0 .. (f - 1)
        BY DEF InStream, Begins
    <2>6. all = 0 .. (e - 1)
        <3>1. \A a, b \in Nat : a < b => (0 .. (a - 1)) \cup (a .. (b - 1)) = 0 .. (b - 1)
            OBVIOUS
        <3> HIDE DEF e, f
        <3> QED
            BY <2>2, <2>3, <2>5, <3>1
    <2>7. Begins(z, total) = e
        <3>1. CASE n = L
            <4>1. s = << >>
                BY <3>1, <1>1, <1>2
            <4> QED
                BY <4>1, <3>1, <1>3 DEF Begins, InStream
        <3>2. CASE n < L
            <4>1. s # << >> /\ 1 \in 1 .. L - n
                BY <3>2, <1>1, <1>2
            <4>2. s[1] = r.sq[n + 1]
                BY <4>1, <1>2
            <4>3. r.sq[n + 1][1] = e
                BY <3>2, <2>1 DEF InStream, Chained
            <4> QED
                BY <4>1, <4>2, <4>3, <1>3 DEF Begins
        <3> QED
            BY <3>1, <3>2, <1>1
    <2>8. InStream(z, total, all)
        BY ONLY <2>6, <2>7, <1>3, <1>4, <1>5, <1>6 DEF InStream
    <2>9. e \in 1 .. total /\ got \subseteq 0 .. (e - 1)
        <3>1. e <= total /\ e >= 1
            BY <2>2, <2>3, <2>4, <1>1
        <3>2. got \subseteq all
            OBVIOUS
        <3> QED
            BY <3>1, <3>2, <2>2, <2>6
    <2>10. Len(z.sq) <= Len(r.sq)
        BY <1>1, <1>2, <1>3
    <2> QED
        BY <1>8, <1>3, <2>6, <2>8, <2>9, <2>10 DEF z, Further
<1> QED
    BY <1>7, <1>8

-----------------------------------------------------------------------------
(* What happens to one connection keeps LinkRight.  Only flags, or where    *)
(* LIST is, change.                                                         *)
LEMMA Flags_Link ==
    ASSUME NEW c \in Link, NEW r, NEW total, NEW got, LinkRight(c, r, total, got),
           NEW q \in Client,
           q.open = r.open, q.dead = r.dead, q.sq = r.sq, q.zout = r.zout,
           q.doing \/ q.pop => c \in Lister
    PROVE  LinkRight(c, q, total, got)
BY DEF LinkRight, InStream, Begins

(* dead_link, and close_connection.                                         *)
LEMMA Dead_Link ==
    ASSUME NEW c \in Link, NEW r, NEW total, NEW got, LinkRight(c, r, total, got),
           NEW q \in Client,
           ~(q.open /\ ~q.dead), q.sq = << >>, q.zout \in {0, r.zout},
           q.doing \/ q.pop => c \in Lister
    PROVE  LinkRight(c, q, total, got)
<1>1. Len(q.sq) = 0 /\ Limit[c] \in Nat /\ MaxLine \in Nat
    BY SendQAssumption
<1>2. MaxLine <= ZipMax /\ total \in Nat /\ r.zout \in Nat
    BY SendQAssumption DEF LinkRight, Client
<1> QED
    BY <1>1, <1>2 DEF LinkRight

LEMMA Flush_Link ==
    ASSUME NEW c \in Link, NEW r, NEW total, NEW got, LinkRight(c, r, total, got),
           r.open, ~r.dead, r.zout > 0, Len(r.sq) <= Limit[c]
    PROVE  /\ LinkRight(c, ZipFlush(r, total), total, got)
           /\ ZipFlush(r, total).open = r.open /\ ZipFlush(r, total).dead = r.dead
<1> DEFINE z == ZipFlush(r, total)
<1>1. /\ r \in Client /\ total \in Nat /\ r.zout \in Nat /\ r.sq \in Seq(Unit)
      /\ Limit[c] \in Nat /\ MaxLine \in Nat /\ MaxLine >= 1 /\ ZipMax \in Nat
    BY SendQAssumption DEF LinkRight, Client
<1>2. /\ z.open = r.open /\ z.dead = r.dead /\ z.doing = r.doing /\ z.pop = r.pop
      /\ z.zout = 0
    BY <1>1 DEF ZipFlush, Client
<1>3. /\ z \in Client /\ Len(z.sq) = Len(r.sq) + 1 /\ InStream(z, total, got)
    BY <1>1, Flush_Stream DEF LinkRight
<1>4. Len(r.sq) + 1 <= Limit[c] + MaxLine /\ 0 + MaxLine <= ZipMax /\ 0 <= total
    BY <1>1 DEF LinkRight
<1> HIDE DEF z
<1> QED
    BY <1>1, <1>2, <1>3, <1>4 DEF LinkRight, z

(* zip_buffer or dbuf_put of a line.                                        *)
LEMMA Put_Link ==
    ASSUME NEW c \in Link, NEW r, NEW total, NEW got, LinkRight(c, r, total, got),
           r.open, ~r.dead, Len(r.sq) <= Limit[c], NEW n \in 1 .. MaxLine, NEW burst
    PROVE  /\ LinkRight(c, Put(r, c, total, n, burst), total + n, got)
           /\ Put(r, c, total, n, burst).open = r.open
           /\ Put(r, c, total, n, burst).dead = r.dead
<1>1. /\ r \in Client /\ total \in Nat /\ r.zout \in Nat /\ r.sq \in Seq(Unit)
      /\ Limit[c] \in Nat /\ MaxLine \in Nat /\ MaxLine >= 1
      /\ ZipMin \in Nat /\ ZipMax \in Nat /\ ZipMin + MaxLine <= ZipMax
      /\ n \in Nat \ {0} /\ total + n \in Nat /\ n <= MaxLine
    BY SendQAssumption DEF LinkRight, Client
<1>2. CASE c \notin Zip
    <2> DEFINE z == [r EXCEPT !.sq = r.sq \o Bytes(total, n)]
    <2>1. Put(r, c, total, n, burst) = z /\ r.zout = 0
        BY <1>2 DEF Put, LinkRight
    <2>2. z \in Client /\ Len(z.sq) = Len(r.sq) + n /\ InStream(z, total + n, got)
        BY <1>1, <2>1, Bytes_Stream DEF LinkRight
    <2>3. /\ z.open = r.open /\ z.dead = r.dead /\ z.doing = r.doing /\ z.pop = r.pop
          /\ z.zout = r.zout
        BY <1>1 DEF Client
    <2>4. Len(r.sq) + n <= Limit[c] + MaxLine /\ 0 <= total + n
        BY <1>1
    <2> HIDE DEF z
    <2>5. LinkRight(c, z, total + n, got)
        BY <1>1, <1>2, <2>1, <2>2, <2>3, <2>4 DEF LinkRight
    <2> QED
        BY <2>1, <2>3, <2>5
<1>3. CASE c \in Zip
    <2> DEFINE z == [r EXCEPT !.zout = r.zout + n]
    <2>1. Put(r, c, total, n, burst)
          = IF ZipDue(z.zout, burst) THEN ZipFlush(z, total + n) ELSE z
        BY <1>3 DEF Put
    <2>2. /\ z \in Client /\ z.open = r.open /\ z.dead = r.dead /\ z.doing = r.doing
          /\ z.pop = r.pop /\ z.zout = r.zout + n /\ z.sq = r.sq
        <3>1. r.zout + n \in Nat
            BY <1>1
        <3> QED
            BY <1>1, <3>1 DEF Client
    <2> HIDE DEF z
    <2>3. InStream(z, total + n, got)
        <3>1. (total + n) - (r.zout + n) = total - r.zout
            BY <1>1
        <3> QED
            BY <2>2, <3>1 DEF InStream, Begins, LinkRight
    <2>4. z.zout > 0 /\ z.zout <= total + n
        BY <1>1, <2>2 DEF LinkRight
    <2>5. CASE ZipDue(z.zout, burst)
        <3> DEFINE y == ZipFlush(z, total + n)
        <3>1. y \in Client /\ Len(y.sq) = Len(z.sq) + 1 /\ InStream(y, total + n, got)
            BY <1>1, <2>2, <2>3, <2>4, Flush_Stream
        <3>2. /\ y.open = r.open /\ y.dead = r.dead /\ y.doing = r.doing
              /\ y.pop = r.pop /\ y.zout = 0
            BY <2>2 DEF ZipFlush, Client
        <3>3. Len(r.sq) + 1 <= Limit[c] + MaxLine /\ 0 + MaxLine <= ZipMax /\ 0 <= total + n
            BY <1>1
        <3> HIDE DEF y
        <3>4. LinkRight(c, y, total + n, got)
            BY <1>1, <1>3, <2>2, <3>1, <3>2, <3>3 DEF LinkRight
        <3> QED
            BY <2>1, <2>5, <3>2, <3>4 DEF y
    <2>6. CASE ~ZipDue(z.zout, burst)
        <3>1. z.zout + MaxLine <= ZipMax
            BY <2>6, <2>2, <1>1 DEF ZipDue
        <3>2. Len(r.sq) <= Limit[c] + MaxLine
            BY <1>1
        <3>3. LinkRight(c, z, total + n, got)
            BY <1>1, <1>3, <2>2, <2>3, <2>4, <3>1, <3>2 DEF LinkRight
        <3> QED
            BY <2>1, <2>2, <2>6, <3>3
    <2> QED
        BY <2>5, <2>6
<1> QED
    BY <1>2, <1>3

(* deliver_it of part of the first block, and DBufDelete.                   *)
LEMMA Delete_Link ==
    ASSUME NEW c \in Link, NEW r, NEW total, NEW got, LinkRight(c, r, total, got),
           r.sq # << >>, NEW i \in Nat, NEW n \in i .. HeadBlock(r)
    PROVE  LET z == DbufDelete(r, n)
               all == got \cup Covered(r.sq, n)
           IN  /\ LinkRight(c, z, total, all) /\ z.open = r.open /\ z.dead = r.dead
               /\ z.pop = r.pop /\ z.doing = r.doing /\ z.zout = r.zout
               /\ r.open /\ ~r.dead
               /\ n = 0 => all = got
               /\ n # 0 => Further(got, all, total)
<1> DEFINE z == DbufDelete(r, n)
           all == got \cup Covered(r.sq, n)
<1>1. /\ r \in Client /\ total \in Nat /\ r.zout \in Nat /\ r.sq \in Seq(Unit)
      /\ Len(r.sq) \in Nat /\ r.off \in Nat /\ K \in Nat
      /\ Limit[c] \in Nat /\ MaxLine \in Nat
    BY SendQAssumption DEF LinkRight, Client
<1>2. /\ r.open /\ ~r.dead /\ InStream(r, total, got) /\ r.zout <= total
    BY DEF LinkRight
<1>3. HeadBlock(r) \in Int /\ HeadBlock(r) <= Len(r.sq)
    BY <1>1 DEF HeadBlock, Smaller
<1>4. n \in Nat /\ n <= Len(r.sq)
    BY <1>1, <1>3
<1>5. /\ z \in Client /\ Len(z.sq) <= Len(r.sq)
      /\ InStream(z, total, all)
      /\ n = 0 => all = got
      /\ n # 0 => Further(got, all, total)
    <2>1. r \in Client /\ total \in Nat /\ r.sq # << >>
        BY <1>1
    <2> HIDE DEF z, all
    <2>2. r.zout <= total /\ InStream(r, total, got) /\ n \in Nat /\ n <= Len(r.sq)
        BY <1>2, <1>4
    <2> QED
        BY <2>1, <2>2, Delete_Stream DEF z, all
<1>6. /\ z.open = r.open /\ z.dead = r.dead /\ z.pop = r.pop /\ z.doing = r.doing
      /\ z.zout = r.zout
    BY <1>1 DEF DbufDelete, Client
<1>7. Len(z.sq) <= Limit[c] + MaxLine
    <2>1. Len(r.sq) <= Limit[c] + MaxLine /\ Len(z.sq) \in Nat
        BY <1>5 DEF LinkRight, Client
    <2> QED
        BY <2>1, <1>1, <1>5
<1>8. all \in SUBSET Nat
    <2>1. CASE n = 0
        BY <2>1, <1>5 DEF LinkRight
    <2>2. CASE n # 0
        <3>1. PICK k \in 1 .. total : all = 0 .. (k - 1)
            BY <2>2, <1>5 DEF Further
        <3> QED
            BY <3>1
    <2> QED
        BY <2>1, <2>2
<1> HIDE DEF z, all
<1>9. LinkRight(c, z, total, all)
    BY <1>1, <1>2, <1>5, <1>6, <1>7, <1>8 DEF LinkRight
<1> QED
    BY <1>2, <1>5, <1>6, <1>9 DEF z, all

-----------------------------------------------------------------------------
(* The members of S in the order of their descriptors: there is a k-th one  *)
(* as long as k is not too large.                                           *)
LEMMA Nth_Place ==
    ASSUME NEW S, NEW k \in 1 .. Cardinality(Places(S))
    PROVE  Nth(S, k) \in DOMAIN Order
<1> DEFINE P_ == Places(S)
           Before(i) == {j \in P_ : j < i}
           N == Cardinality(P_)
           Good == {n \in Nat : n + 1 <= N => \E i \in P_ : Cardinality(Before(i)) = n}
<1>1. P_ \subseteq Nat /\ IsFiniteSet(P_) /\ N \in Nat /\ P_ \subseteq DOMAIN Order
    <2>1. DOMAIN Order = 1 .. Len(Order) /\ Len(Order) \in Nat
        BY SendQAssumption
    <2>2. IsFiniteSet(1 .. Len(Order))
        BY <2>1, FS_Interval
    <2>3. P_ \in SUBSET (1 .. Len(Order))
        BY <2>1 DEF Places
    <2>4. IsFiniteSet(P_)
        BY <2>2, <2>3, FS_Subset
    <2> QED
        BY <2>1, <2>3, <2>4, FS_CardinalityType
<1> HIDE DEF P_
<1>2. 0 \in Good
    <2> SUFFICES ASSUME 1 <= N PROVE \E i \in P_ : Cardinality(Before(i)) = 0
        OBVIOUS
    <2>1. P_ # {}
        BY FS_EmptySet
    <2>2. PICK i \in P_ : \A j \in P_ : i <= j
        BY <1>1, <2>1, Least_Number
    <2>3. \A a, b \in Nat : a <= b => ~(b < a)
        OBVIOUS
    <2>4. \A j \in P_ : ~(j < i)
        BY <2>2, <2>3, <1>1
    <2>5. Before(i) = {}
        BY <2>4
    <2> QED
        BY <2>5, FS_EmptySet
<1>3. ASSUME NEW n \in Nat, n \in Good PROVE n + 1 \in Good
    <2> SUFFICES ASSUME (n + 1) + 1 <= N
                 PROVE  \E i \in P_ : Cardinality(Before(i)) = n + 1
        OBVIOUS
    <2>1. PICK i \in P_ : Cardinality(Before(i)) = n
        BY <1>1, <1>3
    <2> DEFINE A == Before(i) \cup {i}
               B == P_ \ A
    <2>2. IsFiniteSet(Before(i)) /\ i \notin Before(i)
        BY <1>1, FS_Subset
    <2>3. Cardinality(A) = n + 1
        BY <2>1, <2>2, FS_AddElement
    <2>4. B # {}
        <3>1. A = P_ => Cardinality(A) = N
            OBVIOUS
        <3>2. n + 1 # N
            BY <1>1
        <3>3. A \subseteq P_
            OBVIOUS
        <3> QED
            BY <2>3, <3>1, <3>2, <3>3
    <2>5. B \in SUBSET Nat
        BY <1>1
    <2>6. PICK q \in B : \A j \in B : q <= j
        <3> HIDE DEF B
        <3> QED
            BY <2>4, <2>5, Least_Number
    <2>7. Before(q) = A
        <3>1. i \in Nat /\ q \in Nat /\ i < q
            BY <2>6, <1>1
        <3>2. ASSUME NEW j \in P_ PROVE j < q <=> j \in A
            BY <3>1, <2>6, <1>1
        <3>3. A \subseteq P_
            OBVIOUS
        <3> QED
            BY <3>2, <3>3
    <2> QED
        BY <2>3, <2>7
<1>4. Nat \subseteq Good
    <2> HIDE DEF Good
    <2> QED
        BY <1>2, <1>3, Set_Induction
<1>5. k - 1 \in Good /\ (k - 1) + 1 <= N /\ k - 1 \in Nat
    <2>1. \A n \in Nat : \A j \in 1 .. n : j - 1 \in Nat /\ (j - 1) + 1 <= n
        OBVIOUS
    <2>2. k \in 1 .. N
        BY DEF P_
    <2> HIDE DEF N, Good
    <2>3. k - 1 \in Nat /\ (k - 1) + 1 <= N
        BY <2>1, <2>2, <1>1
    <2> QED
        BY <2>3, <1>4
<1>6. \E i \in P_ : Cardinality(Before(i)) = k - 1
    BY <1>5
<1>7. Nth(S, k) \in P_
    BY <1>6 DEF Nth, P_
<1> QED
    BY <1>7, <1>1

LEMMA Each_Type ==
    ASSUME NEW S, NEW f, NEW T, \A d \in Link : [f EXCEPT !.to = d] \in T
    PROVE  Each(S, f) \in Seq(T)
<1> DEFINE N == Cardinality(Places(S))
<1>1. N \in Nat
    <2>1. DOMAIN Order = 1 .. Len(Order) /\ Len(Order) \in Nat
        BY SendQAssumption
    <2>2. IsFiniteSet(1 .. Len(Order))
        BY <2>1, FS_Interval
    <2>3. Places(S) \in SUBSET (1 .. Len(Order))
        BY <2>1 DEF Places
    <2> QED
        BY <2>2, <2>3, FS_Subset, FS_CardinalityType
<1>2. \A k \in 1 .. N : Order[Nth(S, k)] \in Link
    BY Nth_Place, SendQAssumption
<1>3. Each(S, f) = [k \in 1 .. N |-> [f EXCEPT !.to = Order[Nth(S, k)]]]
    BY DEF Each
<1> HIDE DEF N
<1>4. Each(S, f) \in [1 .. N -> T]
    BY <1>2, <1>3
<1> QED
    BY <1>1, <1>4, SeqDef

-----------------------------------------------------------------------------
(* The stack of calls.  Lines are not empty and LIST is for clients only.  A *)
(* loop that has more to do after its queue is empty is the running call,   *)
(* of a compressed link with bytes in outbuf: nothing it calls returns to   *)
(* it (deliver_it of a server resumes no LIST).                             *)
GoodFrame == {f \in Frame : /\ f.op = "msg" => f.n \in 1 .. MaxLine
                            /\ f.op = "begin" => f.to \in Lister}
More(f) == f.op = "loop" /\ f.n = 1
Calm == {f \in GoodFrame : ~More(f)}
StackRight(s, l) ==
    /\ s \in Seq(GoodFrame)
    /\ s # << >> => /\ Tail(s) \in Seq(Calm)
                    /\ More(Head(s)) => Head(s).to \in Zip /\ l[Head(s).to].zout > 0

LinksRight ==
    /\ ln \in [Link -> Client] /\ sent \in [Link -> Nat] /\ seen \in [Link -> SUBSET Nat]
    /\ \A c \in Link : LinkRight(c, ln[c], sent[c], seen[c])

Tables ==
    /\ chain \in [Bucket -> Seq(Channel)]
    /\ owed \in [Link -> SUBSET Channel]
    /\ cut \in [Link -> BOOLEAN]
    /\ ops \in 0 .. MaxOps

SInv == StackRight(run, ln) /\ LinksRight /\ Tables

(* What a step keeps: the invariant, and the promise of Pipe.               *)
StepRight == SInv' /\ [P!Next]_(P!vars)

LEMMA Calls_Right ==
    ASSUME NEW fs \in Seq(Calm), NEW t \in Seq(Calm), NEW l
    PROVE  StackRight(fs \o t, l) /\ StackRight(t, l)
<1>1. ASSUME NEW s \in Seq(Calm) PROVE StackRight(s, l)
    <2>1. s \in Seq(GoodFrame)
        BY DEF Calm
    <2>2. ASSUME s # << >> PROVE Tail(s) \in Seq(Calm) /\ ~More(Head(s))
        <3>1. Head(s) \in Calm /\ Tail(s) \in Seq(Calm)
            BY <2>2
        <3> QED
            BY <3>1 DEF Calm
    <2> QED
        BY <2>1, <2>2 DEF StackRight
<1>2. fs \o t \in Seq(Calm)
    OBVIOUS
<1> QED
    BY <1>1, <1>2

LEMMA Loop_Right ==
    ASSUME NEW f \in GoodFrame, NEW t \in Seq(Calm), NEW l,
           More(f) => f.to \in Zip /\ l[f.to].zout > 0
    PROVE  StackRight(<<f>> \o t, l)
<1>1. /\ <<f>> \o t \in Seq(GoodFrame) /\ <<f>> \o t # << >>
      /\ Head(<<f>> \o t) = f /\ Tail(<<f>> \o t) = t
    <2>1. <<f>> \in Seq(GoodFrame) /\ t \in Seq(GoodFrame)
        BY DEF Calm
    <2>2. <<f>> \o t \in Seq(GoodFrame) /\ <<f>> \o t # << >>
        BY <2>1
    <2> QED
        BY <2>1, <2>2
<1> QED
    BY <1>1 DEF StackRight

(* The frame that runs, and those below it.                                 *)
LEMMA Top_Frame ==
    ASSUME SInv, run # << >>
    PROVE  /\ Head(run) \in GoodFrame /\ Tail(run) \in Seq(Calm)
           /\ Head(run).to \in Link
           /\ More(Head(run)) => Head(run).to \in Zip /\ ln[Head(run).to].zout > 0
BY DEF SInv, StackRight, GoodFrame, Frame

LEMMA Frame_Type ==
    /\ \A c \in Link : \A op \in Ops \ {"msg", "begin"} : F(op, c) \in Calm
    /\ \A c \in Link : \A n \in 1 .. MaxLine : Msg(c, n) \in Calm
    /\ \A c \in Link : Msg(c, 1) \in Calm
<1>1. \A c \in Link : \A op \in Ops : F(op, c) \in Frame
    BY DEF F, Frame
<1>2. \A c \in Link : \A op \in Ops : F(op, c).op = op /\ F(op, c).n = 0 /\ F(op, c).to = c
    BY DEF F
<1>3. \A c \in Link : \A op \in Ops \ {"msg", "begin"} : F(op, c) \in Calm
    BY <1>1, <1>2 DEF Calm, GoodFrame, More
<1>4. \A c \in Link : \A n \in 1 .. MaxLine : Msg(c, n) \in Calm
    <2>1. \A c, n : Msg(c, n) = [op |-> "msg", to |-> c, n |-> n, i |-> 0, j |-> 0,
                                 ch |-> NoChannel]
        BY DEF Msg, F
    <2>2. 1 .. MaxLine \subseteq Nat
        BY SendQAssumption
    <2>3. \A c \in Link : \A n \in 1 .. MaxLine : Msg(c, n) \in Frame
        BY <2>1, <2>2 DEF Frame, Ops
    <2> QED
        BY <2>1, <2>3 DEF Calm, GoodFrame, More
<1>5. 1 \in 1 .. MaxLine
    BY SendQAssumption
<1> QED
    BY <1>3, <1>4, <1>5

LEMMA List_Type ==
    \A c \in Link : \A op \in {"list", "listchk"} : \A i, j \in Nat : List(op, c, i, j) \in Calm
<1> TAKE c \in Link, op \in {"list", "listchk"}, i, j \in Nat
<1>1. F(op, c) \in Calm /\ F(op, c).op = op
    BY Frame_Type DEF Ops, F
<1> DEFINE g == [F(op, c) EXCEPT !.i = i]
           h == [g EXCEPT !.j = j]
<1>2. g \in Frame /\ g.op = op /\ g.n = F(op, c).n
    BY <1>1 DEF Calm, GoodFrame, Frame
<1>3. h \in Frame /\ h.op = op /\ h.n = F(op, c).n
    <2> HIDE DEF g
    <2> QED
        BY <1>2 DEF Frame
<1>4. h = List(op, c, i, j)
    BY DEF List
<1> HIDE DEF h
<1> QED
    BY <1>1, <1>3, <1>4 DEF Calm, GoodFrame, More

LEMMA Calls_Type ==
    /\ \A S : \A c \in Link : Each(S, Msg(c, 1)) \in Seq(Calm)
    /\ \A S : \A c \in Link : Each(S, F("sendq", c)) \in Seq(Calm)
    /\ \A c \in Link : Notices(c) \in Seq(Calm)
    /\ \A c \in Link : ExitFrames(c) \in Seq(Calm)
<1>1. ASSUME NEW S, NEW c \in Link PROVE Each(S, Msg(c, 1)) \in Seq(Calm)
    <2>1. \A d : Msg(d, 1) = [op |-> "msg", to |-> d, n |-> 1, i |-> 0, j |-> 0,
                              ch |-> NoChannel]
        BY DEF Msg, F
    <2>2. \A d \in Link : [Msg(c, 1) EXCEPT !.to = d] = Msg(d, 1)
        BY <2>1
    <2> QED
        BY <2>2, Frame_Type, Each_Type
<1>2. ASSUME NEW S, NEW c \in Link PROVE Each(S, F("sendq", c)) \in Seq(Calm)
    <2>1. \A d \in Link : [F("sendq", c) EXCEPT !.to = d] = F("sendq", d)
        BY DEF F
    <2>2. \A d \in Link : F("sendq", d) \in Calm
        BY Frame_Type DEF Ops
    <2> QED
        BY <2>1, <2>2, Each_Type
<1>3. ASSUME NEW c \in Link PROVE Notices(c) \in Seq(Calm)
    BY <1>1 DEF Notices
<1>4. ASSUME NEW c \in Link PROVE ExitFrames(c) \in Seq(Calm)
    <2>1. Msg(c, 1) \in Calm /\ F("close", c) \in Calm
        BY Frame_Type DEF Ops
    <2>2. <<Msg(c, 1), F("close", c)>> \in Seq(Calm)
        BY <2>1
    <2> QED
        BY <2>2, <1>1 DEF ExitFrames
<1> QED
    BY <1>1, <1>2, <1>3, <1>4

-----------------------------------------------------------------------------
(* One connection changes.                                                  *)
LEMMA One_Link ==
    ASSUME LinksRight, NEW c \in Link, NEW q, NEW n, NEW g, LinkRight(c, q, n, g),
           ln' = [ln EXCEPT ![c] = q], sent' = [sent EXCEPT ![c] = n],
           seen' = [seen EXCEPT ![c] = g]
    PROVE  LinksRight'
<1>1. q \in Client /\ n \in Nat /\ g \in SUBSET Nat
    BY DEF LinkRight
<1>2. /\ ln' \in [Link -> Client] /\ sent' \in [Link -> Nat]
      /\ seen' \in [Link -> SUBSET Nat]
    BY <1>1 DEF LinksRight
<1>3. ASSUME NEW d \in Link PROVE LinkRight(d, ln'[d], sent'[d], seen'[d])
    <2>1. CASE d = c
        BY <2>1 DEF LinksRight
    <2>2. CASE d # c
        <3>1. ln'[d] = ln[d] /\ sent'[d] = sent[d] /\ seen'[d] = seen[d]
            BY <2>2 DEF LinksRight
        <3> QED
            BY <3>1 DEF LinksRight
    <2> QED
        BY <2>1, <2>2
<1> QED
    BY <1>2, <1>3 DEF LinksRight

(* The same, with nothing queued and nothing received.                      *)
LEMMA Quiet_Link ==
    ASSUME LinksRight, NEW c \in Link, NEW q, LinkRight(c, q, sent[c], seen[c]),
           ln' = [ln EXCEPT ![c] = q], UNCHANGED <<sent, seen>>
    PROVE  LinksRight'
<1>1. sent' = [sent EXCEPT ![c] = sent[c]] /\ seen' = [seen EXCEPT ![c] = seen[c]]
    BY DEF LinksRight
<1> QED
    BY <1>1, One_Link

LEMMA Same_Links ==
    ASSUME LinksRight, UNCHANGED <<ln, sent, seen>>
    PROVE  LinksRight' /\ [P!Next]_(P!vars)
<1>1. LinksRight'
    BY DEF LinksRight
<1>2. UNCHANGED P!vars
    BY DEF P!vars, Up
<1> QED
    BY <1>1, <1>2

LEMMA Same_Tables ==
    ASSUME Tables, UNCHANGED <<chain, cut, ops>>, owed' \in [Link -> SUBSET Channel]
    PROVE  Tables'
BY DEF Tables

(* How Pipe sees a connection that changes without going up or down, and    *)
(* one that goes down.                                                      *)
LEMMA Map_Same ==
    ASSUME LinksRight, NEW c \in Link, NEW q, ln' = [ln EXCEPT ![c] = q],
           q.open = ln[c].open, q.dead = ln[c].dead
    PROVE  [d \in Link |-> Up(d)]' = [d \in Link |-> Up(d)]
<1>1. \A d \in Link : ln'[d].open = ln[d].open /\ ln'[d].dead = ln[d].dead
    BY DEF LinksRight
<1> QED
    BY <1>1 DEF Up

LEMMA Map_Down ==
    ASSUME LinksRight, NEW c \in Link, NEW q, ln' = [ln EXCEPT ![c] = q],
           ~(q.open /\ ~q.dead), UNCHANGED <<sent, seen>>
    PROVE  [P!Next]_(P!vars)
<1>1. \A d \in Link \ {c} : Up(d)' = Up(d)
    BY DEF Up, LinksRight
<1>2. Up(c)' = FALSE
    BY DEF Up, LinksRight
<1>3. [d \in Link |-> Up(d)]' = [[d \in Link |-> Up(d)] EXCEPT ![c] = FALSE]
    <2>1. [d \in Link |-> Up(d)]' = [d \in Link |-> IF d = c THEN FALSE ELSE Up(d)]
        BY <1>1, <1>2, Zenon
    <2>2. [[d \in Link |-> Up(d)] EXCEPT ![c] = FALSE]
          = [d \in Link |-> IF d = c THEN FALSE ELSE Up(d)]
        BY Zenon
    <2> QED
        BY <2>1, <2>2, Zenon
<1>4. P!Down(c)
    BY <1>3 DEF P!Down
<1> QED
    BY <1>4 DEF P!Next

LEMMA Map_Quiet ==
    ASSUME LinksRight, NEW c \in Link, NEW q, ln' = [ln EXCEPT ![c] = q],
           q.open = ln[c].open, q.dead = ln[c].dead, UNCHANGED <<sent, seen>>
    PROVE  [P!Next]_(P!vars)
<1>1. UNCHANGED P!vars
    BY Map_Same DEF P!vars
<1> QED
    BY <1>1

-----------------------------------------------------------------------------
(* A step that changes no connection and no table: only calls are made.     *)
LEMMA Only_Calls ==
    ASSUME SInv, run # << >>, NEW fs \in Seq(Calm), Call(fs), NEW o \in [Link -> SUBSET Channel],
           UNCHANGED <<ln, sent, seen, chain, cut, ops>>, owed' = o
    PROVE  StepRight
<1>1. StackRight(run', ln')
    BY Top_Frame, Calls_Right DEF Call
<1>2. LinksRight' /\ [P!Next]_(P!vars)
    BY Same_Links DEF SInv
<1>3. Tables'
    BY Same_Tables DEF SInv
<1> QED
    BY <1>1, <1>2, <1>3 DEF StepRight, SInv

LEMMA Empty_Call == << >> \in Seq(Calm) /\ (Return => Call(<< >>))
<1>1. Return => run' = << >> \o Tail(run)
    <2> SUFFICES ASSUME Return PROVE run' = << >> \o Tail(run)
        OBVIOUS
    <2> QED
        BY DEF Return
<1> QED
    BY <1>1 DEF Call

LEMMA MsgIgnored_Right == ASSUME SInv, MsgIgnored PROVE StepRight
<1>1. run # << >> /\ Call(<< >>)
    BY Empty_Call DEF MsgIgnored, Top
<1> QED
    BY <1>1, Empty_Call, Only_Calls DEF MsgIgnored, SInv, Tables

LEMMA Dead_Client ==
    ASSUME NEW r \in Client, NEW x \in BOOLEAN
    PROVE  LET q == Dead([r EXCEPT !.ex = x])
           IN  /\ q \in Client /\ ~(q.open /\ ~q.dead) /\ q.sq = << >>
               /\ q.zout = r.zout /\ q.doing = r.doing /\ q.pop = r.pop
<1> DEFINE y == [r EXCEPT !.ex = x]
<1>1. y \in Client /\ y.zout = r.zout /\ y.doing = r.doing /\ y.pop = r.pop
    BY DEF Client
<1> HIDE DEF y
<1>2. /\ Dead(y).dead /\ Dead(y).sq = << >>
      /\ Dead(y).zout = y.zout /\ Dead(y).doing = y.doing /\ Dead(y).pop = y.pop
    BY <1>1 DEF Client, Dead
<1>3. Dead(y) \in Client
    <2> DEFINE u == [y EXCEPT !.dead = TRUE]
               v == [u EXCEPT !.sq = << >>]
    <2>1. u \in Client
        BY <1>1 DEF Client
    <2>2. v \in Client
        <3> HIDE DEF u
        <3>1. << >> \in Seq(Unit)
            OBVIOUS
        <3> QED
            BY <2>1, <3>1 DEF Client
    <2>3. [v EXCEPT !.off = 0] \in Client
        <3> HIDE DEF v
        <3> QED
            BY <2>2 DEF Client
    <2> QED
        BY <2>3 DEF Dead
<1> QED
    BY <1>1, <1>2, <1>3 DEF y

(* A line that finds the queue over its limit.                              *)
LEMMA MsgOverLimit_Right == ASSUME SInv, MsgOverLimit PROVE StepRight
<1> DEFINE c == Head(run).to
<1>1. run # << >> /\ c \in Link /\ Up(c) /\ UNCHANGED <<sent, seen, chain, owed, cut, ops>>
    BY Top_Frame DEF MsgOverLimit, Top
<1>2. Tables'
    BY <1>1, Same_Tables DEF SInv, Tables
<1>3. /\ ln \in [Link -> Client] /\ LinkRight(c, ln[c], sent[c], seen[c])
      /\ ln[c] \in Client /\ LinksRight
    BY <1>1 DEF SInv, LinksRight
<1>4. CASE ln[c].doing
    <2> DEFINE q == [ln[c] EXCEPT !.pop = TRUE]
    <2>1. ln' = [ln EXCEPT ![c] = q] /\ Return
        BY <1>4, <1>3 DEF MsgOverLimit
    <2>2. /\ q \in Client /\ q.open = ln[c].open /\ q.dead = ln[c].dead
          /\ q.sq = ln[c].sq /\ q.zout = ln[c].zout /\ c \in Lister
        BY <1>3, <1>4 DEF Client, LinkRight
    <2> HIDE DEF q, c
    <2>3. LinkRight(c, q, sent[c], seen[c])
        BY <1>1, <1>3, <2>2, Flags_Link
    <2>4. LinksRight' /\ [P!Next]_(P!vars)
        BY <1>1, <1>3, <2>1, <2>2, <2>3, Quiet_Link, Map_Quiet
    <2>5. StackRight(run', ln')
        BY <1>1, <2>1, Top_Frame, Calls_Right DEF Return
    <2> QED
        BY <1>2, <2>4, <2>5 DEF StepRight, SInv
<1>5. CASE ~ln[c].doing
    <2> DEFINE q == Dead([ln[c] EXCEPT !.ex = (c \notin Server)])
    <2>1. ln' = [ln EXCEPT ![c] = q] /\ Call(Notices(c) \o Notices(c))
        BY <1>5, <1>3 DEF MsgOverLimit
    <2>2. /\ q \in Client /\ ~(q.open /\ ~q.dead) /\ q.sq = << >>
          /\ q.zout \in {0, ln[c].zout} /\ (q.doing \/ q.pop => c \in Lister)
        <3>1. (c \notin Server) \in BOOLEAN
            OBVIOUS
        <3>2. q = Dead([ln[c] EXCEPT !.ex = (c \notin Server)])
            OBVIOUS
        <3> HIDE DEF q, c
        <3> QED
            BY <1>3, <3>1, <3>2, Dead_Client DEF LinkRight
    <2> HIDE DEF q, c
    <2>3. LinkRight(c, q, sent[c], seen[c])
        BY <1>1, <1>3, <2>2, Dead_Link
    <2>4. LinksRight' /\ [P!Next]_(P!vars)
        BY <1>1, <1>3, <2>1, <2>2, <2>3, Quiet_Link, Map_Down
    <2>5. StackRight(run', ln')
        <3>1. Notices(c) \o Notices(c) \in Seq(Calm)
            BY <1>1, Calls_Type
        <3> QED
            BY <1>1, <2>1, <3>1, Top_Frame, Calls_Right DEF Call
    <2> QED
        BY <1>2, <2>4, <2>5 DEF StepRight, SInv
<1> QED
    BY <1>4, <1>5

(* A line that is queued.                                                   *)
LEMMA MsgQueued_Right == ASSUME SInv, MsgQueued PROVE StepRight
<1>a. PICK f \in GoodFrame, c \in Link : f = Head(run) /\ c = f.to
    BY Top_Frame DEF MsgQueued, Top
<1> DEFINE q == Put(ln[c], c, sent[c], f.n, f.i)
<1>1. /\ run # << >> /\ Up(c) /\ f.op = "msg"
      /\ Len(ln[c].sq) <= Limit[c]
      /\ ln' = [ln EXCEPT ![c] = q] /\ sent' = [sent EXCEPT ![c] = sent[c] + f.n]
      /\ owed' = [owed EXCEPT ![c] = owed[c] \ {f.ch}]
      /\ UNCHANGED <<seen, chain, cut, ops>>
      /\ Call(<<F("sendq", c)>>) \/ Return
    BY <1>a DEF MsgQueued, Top, SInv, LinksRight, Tables
<1>2. f.n \in 1 .. MaxLine /\ f.n \in Nat /\ f.n >= 1
    <2>1. f.n \in 1 .. MaxLine
        BY <1>1 DEF GoodFrame
    <2> QED
        BY <2>1, SendQAssumption
<1>3. /\ LinkRight(c, ln[c], sent[c], seen[c]) /\ LinksRight /\ sent[c] \in Nat
      /\ sent \in [Link -> Nat] /\ seen' = [seen EXCEPT ![c] = seen[c]]
    BY <1>1 DEF SInv, LinksRight
<1>4. Tables'
    <2>1. owed' \in [Link -> SUBSET Channel]
        BY <1>1 DEF SInv, Tables
    <2> QED
        BY <1>1, <2>1, Same_Tables DEF SInv
<1>5. StackRight(run', ln')
    <2>1. <<F("sendq", c)>> \in Seq(Calm)
        BY <1>1, Frame_Type DEF Ops
    <2> HIDE DEF q
    <2> QED
        BY <1>1, <2>1, Top_Frame, Calls_Right DEF Call, Return
<1>6. /\ LinkRight(c, q, sent[c] + f.n, seen[c])
      /\ q.open = ln[c].open /\ q.dead = ln[c].dead
    <2>1. ln[c].open /\ ~ln[c].dead
        BY <1>1 DEF Up
    <2>2. /\ f.n \in 1 .. MaxLine /\ Len(ln[c].sq) <= Limit[c] /\ c \in Link
          /\ LinkRight(c, ln[c], sent[c], seen[c])
        BY <1>1, <1>2, <1>3
    <2>3. LinkRight(c, Put(ln[c], c, sent[c], f.n, f.i), sent[c] + f.n, seen[c])
        BY <2>1, <2>2, Put_Link
    <2>4. Put(ln[c], c, sent[c], f.n, f.i).open = ln[c].open
        BY <2>1, <2>2, Put_Link
    <2>5. Put(ln[c], c, sent[c], f.n, f.i).dead = ln[c].dead
        BY <2>1, <2>2, Put_Link
    <2> QED
        BY <2>3, <2>4, <2>5
<1> HIDE DEF q
<1>7. LinksRight'
    BY <1>1, <1>3, <1>6, One_Link
<1>8. P!Next
    <2>1. [d \in Link |-> Up(d)]' = [d \in Link |-> Up(d)]
        BY <1>1, <1>3, <1>6, Map_Same
    <2>2. sent'[c] = sent[c] + f.n /\ sent'[c] > sent[c]
        BY <1>1, <1>2, <1>3
    <2>3. sent' = [sent EXCEPT ![c] = sent'[c]]
        BY <1>1, <2>2
    <2>4. [d \in Link |-> Up(d)][c]
        BY <1>1
    <2>5. P!Send(c)
        BY <1>1, <2>1, <2>2, <2>3, <2>4 DEF P!Send
    <2> QED
        BY <1>1, <2>5 DEF P!Next
<1> QED
    BY <1>4, <1>5, <1>7, <1>8 DEF StepRight, SInv

(* send_queued: the bytes in outbuf follow an empty queue at once, else the *)
(* loop knows that there is more.                                           *)
LEMMA SendQueued_Right == ASSUME SInv, SendQueued PROVE StepRight
<1>a. PICK f \in GoodFrame, c \in Link : f = Head(run) /\ c = f.to
    BY Top_Frame DEF SendQueued, Top
<1> DEFINE z == c \in Zip /\ ln[c].zout > 0
           q == ZipFlush(ln[c], sent[c])
           g == [f EXCEPT !.op = "loop", !.n = IF z /\ ln[c].sq # << >> THEN 1 ELSE 0]
<1>1. run # << >> /\ UNCHANGED <<sent, seen, chain, owed, cut, ops>> /\ f.op = "sendq"
    BY <1>a DEF SendQueued, Top
<1>2. Tables'
    BY <1>1, Same_Tables DEF SInv, Tables
<1>3. CASE ~Up(c)
    <2>1. Call(<< >>) /\ UNCHANGED ln
        BY <1>3, <1>a, Empty_Call DEF SendQueued
    <2> QED
        BY <1>1, <2>1, Empty_Call, Only_Calls DEF SInv, Tables
<1>4. CASE Up(c)
    <2>1. /\ ln' = IF z /\ ln[c].sq = << >> THEN [ln EXCEPT ![c] = q] ELSE ln
          /\ Call(<<g>>)
        BY <1>4, <1>a DEF SendQueued
    <2>2. /\ LinkRight(c, ln[c], sent[c], seen[c]) /\ LinksRight /\ ln[c].open /\ ~ln[c].dead
          /\ Tail(run) \in Seq(Calm)
        BY <1>1, <1>4, Top_Frame DEF SInv, LinksRight, Up
    <2>3. /\ g \in GoodFrame /\ g.to = c
          /\ More(g) => z /\ ln[c].sq # << >>
        <3> DEFINE n == IF z /\ ln[c].sq # << >> THEN 1 ELSE 0
        <3>1. n \in Nat /\ (n = 1 => z /\ ln[c].sq # << >>) /\ g = [f EXCEPT !.op = "loop", !.n = n]
            OBVIOUS
        <3>2. f \in Frame /\ f.to = c
            BY <1>a DEF GoodFrame
        <3> HIDE DEF g, n, z
        <3>3. g \in Frame /\ g.op = "loop" /\ g.n = n /\ g.to = c
            BY <3>1, <3>2 DEF Frame, Ops
        <3> QED
            BY <3>1, <3>3 DEF GoodFrame, More
    <2>4. CASE z /\ ln[c].sq = << >>
        <3>1. ln' = [ln EXCEPT ![c] = q]
            BY <2>1, <2>4
        <3>2. Len(ln[c].sq) <= Limit[c]
            BY <2>4, SendQAssumption
        <3>3. LinkRight(c, q, sent[c], seen[c]) /\ q.open = ln[c].open /\ q.dead = ln[c].dead
            <4>1. ln[c].zout > 0
                BY <2>4
            <4>2. LinkRight(c, ln[c], sent[c], seen[c]) /\ ln[c].open /\ ~ln[c].dead
                BY <2>2
            <4> QED
                BY ONLY <3>2, <4>1, <4>2, Flush_Link, c \in Link
        <3> HIDE DEF q, g
        <3>4. LinksRight' /\ [P!Next]_(P!vars)
            BY <1>1, <2>2, <3>1, <3>3, Quiet_Link, Map_Quiet
        <3>5. StackRight(run', ln')
            BY <2>1, <2>2, <2>3, <2>4, Loop_Right DEF Call
        <3> QED
            BY <1>2, <3>4, <3>5 DEF StepRight, SInv
    <2>5. CASE ~(z /\ ln[c].sq = << >>)
        <3>1. UNCHANGED ln
            BY <2>1, <2>5
        <3>2. LinksRight' /\ [P!Next]_(P!vars)
            BY <1>1, <2>2, <3>1, Same_Links
        <3>3. More(g) => g.to \in Zip /\ ln'[g.to].zout > 0
            BY <2>3, <3>1
        <3> HIDE DEF q, g
        <3>4. StackRight(run', ln')
            BY <2>1, <2>2, <2>3, <3>3, Loop_Right DEF Call
        <3> QED
            BY <1>2, <3>2, <3>4 DEF StepRight, SInv
    <2> QED
        BY <2>4, <2>5
<1> QED
    BY <1>3, <1>4

(* The loop of send_queued when the queue is empty.                         *)
LEMMA LoopEmpty_Right == ASSUME SInv, LoopEmpty PROVE StepRight
<1>a. PICK f \in GoodFrame, c \in Link : f = Head(run) /\ c = f.to
    BY Top_Frame DEF LoopEmpty, Top
<1> DEFINE q == ZipFlush(ln[c], sent[c])
           g == [f EXCEPT !.n = 0, !.i = 0]
<1>1. /\ run # << >> /\ UNCHANGED <<sent, seen, chain, owed, cut, ops>> /\ f.op = "loop"
      /\ ln[c].sq = << >>
    BY <1>a DEF LoopEmpty, Top
<1>2. Tables'
    BY <1>1, Same_Tables DEF SInv, Tables
<1>3. CASE ~(f.n = 1 /\ Up(c))
    <2>1. Call(<< >>) /\ UNCHANGED ln
        BY <1>3, <1>a, Empty_Call DEF LoopEmpty
    <2> QED
        BY <1>1, <2>1, Empty_Call, Only_Calls DEF SInv, Tables
<1>4. CASE f.n = 1 /\ Up(c)
    <2>1. ln' = [ln EXCEPT ![c] = q] /\ Call(<<g>>)
        BY <1>4, <1>a DEF LoopEmpty, SInv, LinksRight
    <2>2. /\ LinkRight(c, ln[c], sent[c], seen[c]) /\ LinksRight /\ ln[c].open /\ ~ln[c].dead
          /\ Tail(run) \in Seq(Calm) /\ ln[c].zout > 0 /\ Len(ln[c].sq) <= Limit[c]
        BY <1>a, <1>1, <1>4, Top_Frame, SendQAssumption DEF SInv, LinksRight, Up, More
    <2>3. g \in Calm
        <3>1. g \in Frame /\ g.op = "loop" /\ g.n = 0
            BY <1>1 DEF GoodFrame, Frame
        <3> HIDE DEF g
        <3> QED
            BY <3>1 DEF GoodFrame, Calm, More
    <2>4. LinkRight(c, q, sent[c], seen[c]) /\ q.open = ln[c].open /\ q.dead = ln[c].dead
        BY <2>2, Flush_Link
    <2> HIDE DEF q, g
    <2>5. LinksRight' /\ [P!Next]_(P!vars)
        BY <1>1, <2>1, <2>2, <2>4, Quiet_Link, Map_Quiet
    <2>6. StackRight(run', ln')
        <3>1. <<g>> \in Seq(Calm)
            BY <2>3
        <3> QED
            BY <2>1, <2>2, <3>1, Calls_Right DEF Call
    <2> QED
        BY <1>2, <2>5, <2>6 DEF StepRight, SInv
<1> QED
    BY <1>3, <1>4

(* deliver_it fails: dead_link.                                             *)
LEMMA WriteError_Right == ASSUME SInv, WriteError PROVE StepRight
<1>a. PICK f \in GoodFrame, c \in Link : f = Head(run) /\ c = f.to
    BY Top_Frame DEF WriteError, Top
<1> DEFINE q == Dead(ln[c])
<1>1. /\ run # << >> /\ UNCHANGED <<sent, seen, chain, owed, cut, ops>>
      /\ ln' = [ln EXCEPT ![c] = q] /\ Call(Notices(c))
    BY <1>a DEF WriteError, Top, SInv, LinksRight
<1>2. Tables'
    BY <1>1, Same_Tables DEF SInv, Tables
<1>3. /\ LinkRight(c, ln[c], sent[c], seen[c]) /\ LinksRight /\ ln[c] \in Client
    BY DEF SInv, LinksRight
<1>4. /\ q \in Client /\ ~(q.open /\ ~q.dead) /\ q.sq = << >>
      /\ q.zout = ln[c].zout /\ q.doing = ln[c].doing /\ q.pop = ln[c].pop
    <2>1. [ln[c] EXCEPT !.ex = ln[c].ex] = ln[c] /\ ln[c].ex \in BOOLEAN
        BY <1>3 DEF Client
    <2> QED
        BY <1>3, <2>1, Dead_Client
<1> HIDE DEF q
<1>5. LinkRight(c, q, sent[c], seen[c])
    <2>1. q.doing \/ q.pop => c \in Lister
        BY <1>3, <1>4 DEF LinkRight
    <2> QED
        BY <1>3, <1>4, <2>1, Dead_Link
<1>6. LinksRight' /\ [P!Next]_(P!vars)
    BY <1>1, <1>3, <1>4, <1>5, Quiet_Link, Map_Down
<1>7. StackRight(run', ln')
    BY <1>1, Calls_Type, Top_Frame, Calls_Right DEF Call
<1> QED
    BY <1>2, <1>6, <1>7 DEF StepRight, SInv

(* deliver_it takes part of the first block: the peer gets the next bytes.  *)
(* The frame of the loop stays on top unless a LIST goes on, which is never *)
(* that of a server.                                                        *)
LEMMA Write_Right == ASSUME SInv, Write PROVE StepRight
<1>0. run # << >>
    BY DEF Write, Top
<1>a. PICK f \in GoodFrame, c \in Link : f = Head(run) /\ c = f.to
    BY <1>0, Top_Frame
<1>b. PICK r \in f.i .. HeadBlock(ln[c]) :
        LET d == DbufDelete(ln[c], r)
            resume == ln[c].pop /\ d.sq = << >>
        IN  /\ ln[c].sq # << >>
            /\ ln' = [ln EXCEPT ![c] = [d EXCEPT !.lastsq = Len(d.sq) \div K,
                                                 !.pop = @ /\ ~resume]]
            /\ seen' = [seen EXCEPT ![c] = @ \cup Covered(ln[c].sq, r)]
            /\ Call((IF resume THEN <<F("start", c)>> ELSE << >>)
                    \o (IF r < HeadBlock(ln[c]) THEN << >> ELSE <<[f EXCEPT !.i = 0]>>))
    BY <1>a, Zenon DEF Write
<1> DEFINE d == DbufDelete(ln[c], r)
           resume == ln[c].pop /\ d.sq = << >>
           p == d.pop /\ ~resume
           q == [d EXCEPT !.lastsq = Len(d.sq) \div K, !.pop = p]
           all == seen[c] \cup Covered(ln[c].sq, r)
           g == [f EXCEPT !.i = 0]
           Resumed == IF resume THEN <<F("start", c)>> ELSE << >>
           Again == IF r < HeadBlock(ln[c]) THEN << >> ELSE <<g>>
<1>1. /\ run # << >> /\ UNCHANGED <<sent, chain, owed, cut, ops>> /\ f.op = "loop"
      /\ ln[c].sq # << >> /\ f.i \in Nat
    BY <1>a, <1>b DEF Write, Top, GoodFrame, Frame
<1>2. /\ LinkRight(c, ln[c], sent[c], seen[c]) /\ LinksRight /\ ln[c] \in Client
      /\ sent' = [sent EXCEPT ![c] = sent[c]]
    BY <1>1 DEF SInv, LinksRight
<1>3. /\ LinkRight(c, d, sent[c], all) /\ d.open = ln[c].open /\ d.dead = ln[c].dead
      /\ d.pop = ln[c].pop /\ d.doing = ln[c].doing /\ d.zout = ln[c].zout
      /\ ln[c].open /\ ~ln[c].dead
      /\ r = 0 => all = seen[c]
      /\ r # 0 => Further(seen[c], all, sent[c])
    <2>1. r \in f.i .. HeadBlock(ln[c])
        OBVIOUS
    <2> QED
        BY <1>1, <1>2, <2>1, Delete_Link
<1>4. seen' = [seen EXCEPT ![c] = all]
    BY <1>b, <1>2 DEF LinksRight
<1>5. Call(Resumed \o Again)
    BY <1>b
<1>6. /\ q \in Client /\ q.open = d.open /\ q.dead = d.dead /\ q.sq = d.sq
      /\ q.zout = d.zout /\ q.doing = d.doing /\ (q.pop => d.pop)
    <2> DEFINE k == Len(d.sq) \div K
    <2>1. d \in Client /\ Len(d.sq) \in Nat
        BY <1>3 DEF LinkRight, Client
    <2>2. k \in Nat
        <3> HIDE DEF d
        <3> QED
            BY <2>1, Quotient, SendQAssumption
    <2>3. p \in BOOLEAN /\ (p => d.pop)
        OBVIOUS
    <2>4. q = [d EXCEPT !.lastsq = k, !.pop = p]
        OBVIOUS
    <2> HIDE DEF d, k, p, q
    <2> QED
        BY <2>1, <2>2, <2>3, <2>4 DEF Client
<1>7. ln' = [ln EXCEPT ![c] = q]
    BY <1>b
<1>8. Tables'
    BY <1>1, Same_Tables DEF SInv, Tables
<1>9. g \in GoodFrame /\ (More(g) <=> More(f)) /\ g.to = c
    <2>1. g \in Frame /\ g.op = f.op /\ g.n = f.n /\ g.to = f.to
        BY DEF GoodFrame, Frame
    <2> QED
        BY <1>a, <2>1 DEF GoodFrame, More
<1>10. resume => ~More(f)
    BY <1>a, <1>1, <1>2, Top_Frame, SendQAssumption DEF LinkRight
<1>11. Tail(run) \in Seq(Calm) /\ (More(f) => c \in Zip /\ ln[c].zout > 0)
    BY <1>a, <1>1, Top_Frame
<1>12. /\ resume => Resumed = <<F("start", c)>>
       /\ ~resume => Resumed = << >>
       /\ Resumed = << >> \/ Resumed = <<F("start", c)>>
       /\ Again = << >> \/ Again = <<g>>
    OBVIOUS
<1>13. ln'[c].zout = ln[c].zout
    BY <1>2, <1>3, <1>6, <1>7 DEF SInv, LinksRight
<1> HIDE DEF d, q, p, all, g, resume, Resumed, Again
<1>14. LinkRight(c, q, sent[c], all)
    <2>1. q.doing \/ q.pop => c \in Lister
        BY <1>3, <1>6 DEF LinkRight
    <2> QED
        BY <1>3, <1>6, <2>1, Flags_Link
<1>15. LinksRight'
    BY <1>2, <1>4, <1>7, <1>14, One_Link
<1>16. [P!Next]_(P!vars)
    <2>1. [e \in Link |-> Up(e)]' = [e \in Link |-> Up(e)]
        BY <1>2, <1>3, <1>6, <1>7, Map_Same
    <2>2. CASE r = 0
        <3>1. seen' = seen
            BY <2>2, <1>3, <1>4 DEF SInv, LinksRight
        <3> QED
            BY <1>1, <2>1, <3>1 DEF P!vars
    <2>3. CASE r # 0
        <3>1. PICK k \in 1 .. sent[c] : all = 0 .. (k - 1) /\ seen[c] \subseteq 0 .. (k - 1)
            BY <2>3, <1>3 DEF Further
        <3>2. [e \in Link |-> Up(e)][c]
            BY <1>3 DEF Up
        <3>3. P!Deliver(c)
            BY <1>1, <1>4, <2>1, <3>1, <3>2 DEF P!Deliver, P!First
        <3> QED
            BY <3>3 DEF P!Next
    <2> QED
        BY <2>2, <2>3
<1>17. StackRight(run', ln')
    <2>1. CASE More(f)
        <3>1. Resumed = << >> /\ g.to \in Zip /\ ln'[g.to].zout > 0
            BY <2>1, <1>9, <1>10, <1>11, <1>12, <1>13
        <3>2. CASE Again = << >>
            <4>1. run' = (<< >> \o << >>) \o Tail(run)
                BY <1>5, <3>1, <3>2 DEF Call
            <4>2. << >> \o << >> = << >>
                OBVIOUS
            <4> QED
                BY <4>1, <4>2, <1>11, Empty_Call, Calls_Right
        <3>3. CASE Again = <<g>>
            <4>1. << >> \o <<g>> = <<g>>
                OBVIOUS
            <4>2. run' = <<g>> \o Tail(run)
                BY <1>5, <3>1, <3>3, <4>1 DEF Call
            <4> QED
                BY <4>2, <3>1, <1>9, <1>11, Loop_Right
        <3> QED
            BY <3>2, <3>3, <1>12
    <2>2. CASE ~More(f)
        <3>1. g \in Calm
            BY <2>2, <1>9 DEF Calm
        <3>2. F("start", c) \in Calm
            BY Frame_Type DEF Ops
        <3>3. Resumed \in Seq(Calm) /\ Again \in Seq(Calm)
            <4>1. << >> \in Seq(Calm) /\ <<F("start", c)>> \in Seq(Calm) /\ <<g>> \in Seq(Calm)
                BY <3>1, <3>2
            <4>2. Resumed = << >> \/ Resumed = <<F("start", c)>>
                BY <1>12
            <4>3. Again = << >> \/ Again = <<g>>
                BY <1>12
            <4>4. Resumed \in Seq(Calm)
                BY <4>1, <4>2
            <4>5. Again \in Seq(Calm)
                BY <4>1, <4>3
            <4> QED
                BY <4>4, <4>5
        <3>4. Resumed \o Again \in Seq(Calm)
            BY <3>3
        <3> QED
            BY <3>4, <1>5, <1>11, Calls_Right DEF Call
    <2> QED
        BY <2>1, <2>2
<1> QED
    BY <1>8, <1>15, <1>16, <1>17 DEF StepRight, SInv


-----------------------------------------------------------------------------
(* The calls of LIST change its own fields only.                            *)
LEMMA Flags_Right ==
    ASSUME SInv, NEW c \in Link, NEW q \in Client,
           q.open = ln[c].open, q.dead = ln[c].dead, q.sq = ln[c].sq, q.zout = ln[c].zout,
           q.doing \/ q.pop => c \in Lister,
           ln' = [ln EXCEPT ![c] = q], StackRight(run', ln'),
           UNCHANGED <<sent, seen, chain>>, owed' \in [Link -> SUBSET Channel],
           cut' \in [Link -> BOOLEAN], ops' \in 0 .. MaxOps
    PROVE  StepRight
<1>1. LinkRight(c, ln[c], sent[c], seen[c]) /\ LinksRight
    BY DEF SInv, LinksRight
<1>2. LinkRight(c, q, sent[c], seen[c])
    BY <1>1, Flags_Link
<1>3. LinksRight' /\ [P!Next]_(P!vars)
    BY <1>1, <1>2, Quiet_Link, Map_Quiet
<1>4. Tables'
    BY DEF SInv, Tables
<1> QED
    BY <1>3, <1>4 DEF StepRight, SInv

LEMMA Shown_Type ==
    ASSUME Tables, NEW c, NEW i, NEW j, NEW p \in Shown(c, i, j)
    PROVE  chain[p[1]][p[2]] \in Channel /\ p[1] \in Nat /\ p[2] \in Nat
<1>1. PICK b \in Bucket : p \in {b} \X (1 .. Len(chain[b]))
    BY DEF Shown
<1>2. p[1] = b /\ p[2] \in 1 .. Len(chain[b])
    BY <1>1
<1>3. chain[b] \in Seq(Channel)
    BY DEF Tables
<1>4. b \in Nat
    BY SendQAssumption DEF Bucket
<1> QED
    BY <1>2, <1>3, <1>4

LEMMA AllShown_Type == ASSUME Tables, NEW c PROVE AllShown(c) \in SUBSET Channel
BY Shown_Type DEF AllShown

LEMMA ListBegin_Right == ASSUME SInv, ListBegin PROVE StepRight
<1>a. PICK f \in GoodFrame, c \in Link : f = Head(run) /\ c = f.to
    BY Top_Frame DEF ListBegin, Top
<1>1. /\ run # << >> /\ UNCHANGED <<sent, seen, chain, ops>> /\ f.op = "begin" /\ c \in Lister
      /\ Tail(run) \in Seq(Calm) /\ ln[c] \in Client /\ LinkRight(c, ln[c], sent[c], seen[c])
    BY <1>a, Top_Frame DEF ListBegin, Top, GoodFrame, SInv, LinksRight
<1>2. ops' \in 0 .. MaxOps
    BY <1>1 DEF SInv, Tables
<1>3. CASE f.i = 1 \/ Len(ln[c].sq) < 2 * K
    <2> DEFINE q == [ln[c] EXCEPT !.lopt = TRUE, !.doing = TRUE,
                                  !.pop = FALSE, !.pi = 1, !.pj = 1]
    <2>1. /\ ln' = [ln EXCEPT ![c] = q] /\ owed' = [owed EXCEPT ![c] = AllShown(c)]
          /\ cut' = [cut EXCEPT ![c] = FALSE] /\ Call(<<F("start", c)>>)
        BY <1>3, <1>a DEF ListBegin, SInv, LinksRight
    <2>2. /\ q \in Client /\ q.open = ln[c].open /\ q.dead = ln[c].dead
          /\ q.sq = ln[c].sq /\ q.zout = ln[c].zout
        BY <1>1 DEF Client
    <2>3. owed' \in [Link -> SUBSET Channel] /\ cut' \in [Link -> BOOLEAN]
        BY <2>1, AllShown_Type DEF SInv, Tables
    <2> HIDE DEF q
    <2>4. StackRight(run', ln')
        <3>1. F("start", c) \in Calm
            BY Frame_Type DEF Ops
        <3>2. <<F("start", c)>> \in Seq(Calm)
            BY <3>1
        <3> QED
            BY <1>1, <2>1, <3>2, Calls_Right DEF Call
    <2> QED
        BY <1>1, <1>2, <2>1, <2>2, <2>3, <2>4, Flags_Right
<1>4. CASE ~(f.i = 1 \/ Len(ln[c].sq) < 2 * K)
    <2> DEFINE q == [ln[c] EXCEPT !.lopt = TRUE]
    <2>1. ln' = [ln EXCEPT ![c] = q] /\ Return /\ UNCHANGED <<owed, cut>>
        BY <1>4, <1>a DEF ListBegin, SInv, LinksRight
    <2>2. /\ q \in Client /\ q.open = ln[c].open /\ q.dead = ln[c].dead
          /\ q.sq = ln[c].sq /\ q.zout = ln[c].zout
        BY <1>1 DEF Client
    <2>3. owed' \in [Link -> SUBSET Channel] /\ cut' \in [Link -> BOOLEAN]
        BY <2>1 DEF SInv, Tables
    <2> HIDE DEF q
    <2>4. StackRight(run', ln')
        BY <1>1, <2>1, Calls_Right DEF Return
    <2> QED
        BY <1>1, <1>2, <2>1, <2>2, <2>3, <2>4, Flags_Right
<1> QED
    BY <1>3, <1>4

LEMMA ListInterrupted_Right == ASSUME SInv, ListInterrupted PROVE StepRight
<1>a. PICK f \in GoodFrame, c \in Link : f = Head(run) /\ c = f.to
    BY Top_Frame DEF ListInterrupted, Top
<1> DEFINE q == [ln[c] EXCEPT !.pop = FALSE]
<1>1. /\ run # << >> /\ Return /\ ln' = [ln EXCEPT ![c] = q]
      /\ UNCHANGED <<sent, seen, chain, owed, cut, ops>>
      /\ Tail(run) \in Seq(Calm) /\ ln[c] \in Client /\ LinkRight(c, ln[c], sent[c], seen[c])
    BY <1>a, Top_Frame DEF ListInterrupted, Top, SInv, LinksRight
<1>2. /\ owed' \in [Link -> SUBSET Channel] /\ cut' \in [Link -> BOOLEAN]
      /\ ops' \in 0 .. MaxOps
    BY <1>1 DEF SInv, Tables
<1>3. /\ q \in Client /\ q.open = ln[c].open /\ q.dead = ln[c].dead
      /\ q.sq = ln[c].sq /\ q.zout = ln[c].zout /\ (q.doing \/ q.pop => c \in Lister)
    BY <1>1 DEF Client, LinkRight
<1> HIDE DEF q
<1>4. StackRight(run', ln')
    BY <1>1, Calls_Right DEF Return
<1> QED
    BY <1>1, <1>2, <1>3, <1>4, Flags_Right

LEMMA ListStart_Right == ASSUME SInv, ListStart PROVE StepRight
<1>a. PICK f \in GoodFrame, c \in Link : f = Head(run) /\ c = f.to
    BY Top_Frame DEF ListStart, Top
<1>1. /\ run # << >> /\ UNCHANGED <<ln, sent, seen, chain, owed, cut, ops>>
      /\ Call(<<List("list", c, ln[c].pi, ln[c].pj)>>) \/ Return
    BY <1>a DEF ListStart, Top
<1>2. <<List("list", c, ln[c].pi, ln[c].pj)>> \in Seq(Calm)
    BY List_Type DEF SInv, LinksRight, Client, Ops
<1> QED
    BY <1>1, <1>2, Empty_Call, Only_Calls DEF SInv, Tables

LEMMA ListLine_Right == ASSUME SInv, ListLine PROVE StepRight
<1>a. PICK f \in GoodFrame, c \in Link : f = Head(run) /\ c = f.to
    BY Top_Frame DEF ListLine, Top
<1>1. run # << >> /\ UNCHANGED <<ln, sent, seen, chain, owed, cut, ops>> /\ Tables
    BY DEF ListLine, Top, SInv
<1>2. CASE Shown(c, f.i, f.j) = {}
    <2>1. Call(<<Msg(c, 1), F("listend", c)>>)
        BY <1>2, <1>a DEF ListLine
    <2>2. Msg(c, 1) \in Calm /\ F("listend", c) \in Calm
        BY Frame_Type DEF Ops
    <2>3. <<Msg(c, 1), F("listend", c)>> \in Seq(Calm)
        BY <2>2
    <2> QED
        BY <1>1, <2>1, <2>3, Only_Calls DEF SInv, Tables
<1>3. CASE Shown(c, f.i, f.j) # {}
    <2>1. PICK p \in Shown(c, f.i, f.j) :
             Call(<<[Msg(c, 1) EXCEPT !.ch = chain[p[1]][p[2]]], List("listchk", c, p[1], p[2])>>)
        BY <1>3, <1>a DEF ListLine
    <2> DEFINE m == [Msg(c, 1) EXCEPT !.ch = chain[p[1]][p[2]]]
    <2>2. chain[p[1]][p[2]] \in Channel /\ p[1] \in Nat /\ p[2] \in Nat
        BY <1>1, Shown_Type
    <2>3. m \in Calm
        <3>1. Msg(c, 1) \in Calm
            BY Frame_Type
        <3>2. /\ m \in Frame /\ m.op = Msg(c, 1).op /\ m.n = Msg(c, 1).n
              /\ m.to = Msg(c, 1).to
            BY <2>2, <3>1 DEF Calm, GoodFrame, Frame
        <3> HIDE DEF m
        <3> QED
            BY <3>1, <3>2 DEF Calm, GoodFrame, More
    <2> HIDE DEF m
    <2>4. <<m, List("listchk", c, p[1], p[2])>> \in Seq(Calm)
        BY <2>2, <2>3, List_Type
    <2>5. Call(<<m, List("listchk", c, p[1], p[2])>>)
        BY <2>1 DEF m
    <2> QED
        BY <1>1, <2>4, <2>5, Only_Calls DEF SInv, Tables
<1> QED
    BY <1>2, <1>3

LEMMA ListCheck_Right == ASSUME SInv, ListCheck PROVE StepRight
<1>a. PICK f \in GoodFrame, c \in Link : f = Head(run) /\ c = f.to
    BY Top_Frame DEF ListCheck, Top
<1>1. /\ run # << >> /\ UNCHANGED <<sent, seen, chain, owed, cut, ops>>
      /\ Tail(run) \in Seq(Calm) /\ ln[c] \in Client /\ LinkRight(c, ln[c], sent[c], seen[c])
      /\ f.i \in Nat /\ f.j \in Nat
    BY Top_Frame DEF ListCheck, Top, SInv, LinksRight, GoodFrame, Frame
<1>2. /\ owed' \in [Link -> SUBSET Channel] /\ cut' \in [Link -> BOOLEAN]
      /\ ops' \in 0 .. MaxOps
    BY <1>1 DEF SInv, Tables
<1>3. CASE ln[c].pop
    <2> DEFINE q == [ln[c] EXCEPT !.pi = f.i, !.pj = f.j]
    <2>1. ln' = [ln EXCEPT ![c] = q] /\ Return
        BY <1>3, <1>a DEF ListCheck, SInv, LinksRight
    <2>2. /\ q \in Client /\ q.open = ln[c].open /\ q.dead = ln[c].dead
          /\ q.sq = ln[c].sq /\ q.zout = ln[c].zout /\ (q.doing \/ q.pop => c \in Lister)
        BY <1>1 DEF Client, LinkRight
    <2> HIDE DEF q
    <2>3. StackRight(run', ln')
        BY <1>1, <2>1, Calls_Right DEF Return
    <2> QED
        BY <1>1, <1>2, <2>1, <2>2, <2>3, Flags_Right
<1>4. CASE ~ln[c].pop
    <2>1. Call(<<List("list", c, f.i, f.j + 1)>>) /\ UNCHANGED ln
        BY <1>4, <1>a DEF ListCheck
    <2>2. <<List("list", c, f.i, f.j + 1)>> \in Seq(Calm)
        BY <1>1, List_Type
    <2> QED
        BY <1>1, <2>1, <2>2, Only_Calls DEF SInv, Tables
<1> QED
    BY <1>3, <1>4

LEMMA ListEnd_Right == ASSUME SInv, ListEnd PROVE StepRight
<1>a. PICK f \in GoodFrame, c \in Link : f = Head(run) /\ c = f.to
    BY Top_Frame DEF ListEnd, Top
<1> DEFINE q == IF ln[c].pop THEN [ln[c] EXCEPT !.pi = NB + 1]
                ELSE [ln[c] EXCEPT !.doing = FALSE, !.lopt = FALSE]
<1>1. /\ run # << >> /\ Return /\ ln' = [ln EXCEPT ![c] = q]
      /\ UNCHANGED <<sent, seen, chain, owed, cut, ops>>
      /\ Tail(run) \in Seq(Calm) /\ ln[c] \in Client /\ LinkRight(c, ln[c], sent[c], seen[c])
    <2>1. ln' = [ln EXCEPT ![c] = q]
        BY <1>a DEF ListEnd, SInv, LinksRight
    <2> QED
        BY <2>1, <1>a, Top_Frame DEF ListEnd, Top, SInv, LinksRight
<1>2. /\ owed' \in [Link -> SUBSET Channel] /\ cut' \in [Link -> BOOLEAN]
      /\ ops' \in 0 .. MaxOps
    BY <1>1 DEF SInv, Tables
<1>3. /\ q \in Client /\ q.open = ln[c].open /\ q.dead = ln[c].dead
      /\ q.sq = ln[c].sq /\ q.zout = ln[c].zout /\ (q.doing \/ q.pop => c \in Lister)
    <2>1. NB + 1 \in Nat
        BY SendQAssumption DEF NB
    <2>2. CASE ln[c].pop
        BY <1>1, <2>1, <2>2 DEF Client, LinkRight
    <2>3. CASE ~ln[c].pop
        BY <1>1, <2>3 DEF Client, LinkRight
    <2> QED
        BY <2>2, <2>3
<1> HIDE DEF q
<1>4. StackRight(run', ln')
    BY <1>1, Calls_Right DEF Return
<1> QED
    BY <1>1, <1>2, <1>3, <1>4, Flags_Right

-----------------------------------------------------------------------------
(* exit_client, close_connection.                                           *)
LEMMA Reap_Right == ASSUME SInv, Reap PROVE StepRight
<1>a. PICK f \in GoodFrame, c \in Link : f = Head(run) /\ c = f.to
    BY Top_Frame DEF Reap, Top
<1>1. /\ run # << >> /\ UNCHANGED <<ln, sent, seen, chain, owed, cut, ops>>
      /\ Call(ExitFrames(c)) \/ Return
    BY <1>a DEF Reap, Top
<1>2. ExitFrames(c) \in Seq(Calm)
    BY Calls_Type
<1> QED
    BY <1>1, <1>2, Empty_Call, Only_Calls DEF SInv, Tables

LEMMA Close_Right == ASSUME SInv, Close PROVE StepRight
<1>a. PICK f \in GoodFrame, c \in Link : f = Head(run) /\ c = f.to
    BY Top_Frame DEF Close, Top
<1> DEFINE A == IF ln[c].sq # << >> THEN <<F("sendq", c)>> ELSE << >>
<1>1. /\ run # << >> /\ UNCHANGED <<ln, sent, seen, chain, owed, cut, ops>>
      /\ Call(A \o <<F("shut", c)>>)
    BY <1>a DEF Close, Top
<1>2. F("sendq", c) \in Calm /\ F("shut", c) \in Calm
    BY Frame_Type DEF Ops
<1>3. A \in Seq(Calm) /\ <<F("shut", c)>> \in Seq(Calm)
    BY <1>2
<1> HIDE DEF A
<1>4. A \o <<F("shut", c)>> \in Seq(Calm)
    BY <1>3
<1> QED
    BY <1>1, <1>4, Only_Calls DEF SInv, Tables

LEMMA Shut_Right == ASSUME SInv, Shut PROVE StepRight
<1>a. PICK f \in GoodFrame, c \in Link : f = Head(run) /\ c = f.to
    BY Top_Frame DEF Shut, Top
<1> DEFINE q == [ln[c] EXCEPT !.open = FALSE, !.sq = << >>, !.off = 0, !.zout = 0]
<1>1. /\ run # << >> /\ Return /\ ln' = [ln EXCEPT ![c] = q]
      /\ UNCHANGED <<sent, seen, chain, owed, cut, ops>>
      /\ Tail(run) \in Seq(Calm) /\ ln[c] \in Client /\ LinkRight(c, ln[c], sent[c], seen[c])
      /\ LinksRight
    BY <1>a, Top_Frame DEF Shut, Top, SInv, LinksRight
<1>2. /\ q \in Client /\ ~(q.open /\ ~q.dead) /\ q.sq = << >> /\ q.zout = 0
      /\ q.doing = ln[c].doing /\ q.pop = ln[c].pop
    <2>1. /\ ~q.open /\ q.sq = << >> /\ q.zout = 0
          /\ q.doing = ln[c].doing /\ q.pop = ln[c].pop
        BY <1>1 DEF Client
    <2>2. q \in Client
        <3> DEFINE u == [ln[c] EXCEPT !.open = FALSE]
                   v == [u EXCEPT !.sq = << >>]
                   w == [v EXCEPT !.off = 0]
        <3>1. u \in Client
            BY <1>1 DEF Client
        <3>2. v \in Client
            <4>1. << >> \in Seq(Unit)
                OBVIOUS
            <4> HIDE DEF u
            <4> QED
                BY <3>1, <4>1 DEF Client
        <3>3. w \in Client
            <4> HIDE DEF v
            <4> QED
                BY <3>2 DEF Client
        <3>4. [w EXCEPT !.zout = 0] \in Client
            <4> HIDE DEF w
            <4> QED
                BY <3>3 DEF Client
        <3> QED
            BY <3>4
    <2> QED
        BY <2>1, <2>2
<1> HIDE DEF q
<1>3. LinkRight(c, q, sent[c], seen[c])
    <2>1. q.doing \/ q.pop => c \in Lister
        BY <1>1, <1>2 DEF LinkRight
    <2> QED
        BY <1>1, <1>2, <2>1, Dead_Link
<1>4. LinksRight' /\ [P!Next]_(P!vars)
    BY <1>1, <1>2, <1>3, Quiet_Link, Map_Down
<1>5. StackRight(run', ln')
    BY <1>1, Calls_Right DEF Return
<1>6. Tables'
    BY <1>1, Same_Tables DEF SInv, Tables
<1> QED
    BY <1>4, <1>5, <1>6 DEF StepRight, SInv

LEMMA Step_Right == ASSUME SInv, Step PROVE StepRight
BY MsgIgnored_Right, MsgOverLimit_Right, MsgQueued_Right, SendQueued_Right, LoopEmpty_Right,
   WriteError_Right, Write_Right, ListBegin_Right, ListInterrupted_Right, ListStart_Right,
   ListLine_Right, ListCheck_Right, ListEnd_Right, Reap_Right, Close_Right, Shut_Right
   DEF Step

-----------------------------------------------------------------------------
(* The main loop begins something when no call is running.                  *)
LEMMA Only_Begin ==
    ASSUME SInv, NEW fs \in Seq(Calm), Begin(fs),
           UNCHANGED <<ln, sent, seen, chain, owed, cut>>, ops' \in 0 .. MaxOps
    PROVE  StepRight
<1>1. StackRight(run', ln')
    BY Calls_Right DEF Begin
<1>2. LinksRight' /\ [P!Next]_(P!vars)
    BY Same_Links DEF SInv
<1>3. Tables'
    BY DEF SInv, Tables
<1> QED
    BY <1>1, <1>2, <1>3 DEF StepRight, SInv

LEMMA Ops_Next == ASSUME ops \in 0 .. MaxOps, ops < MaxOps PROVE ops + 1 \in 0 .. MaxOps
BY SendQAssumption

LEMMA Relay_Right == ASSUME SInv, NEW r \in Traffic, Relay(r.src, r.to, r.n, r.burst) PROVE StepRight
<1> DEFINE m == [Msg(r.src, r.n) EXCEPT !.i = r.burst]
<1>1. r.src \in Link /\ r.n \in 1 .. MaxLine /\ r.burst \in Nat
    <2>1. r \in [src : Link, to : SUBSET Link, n : 1 .. MaxLine, burst : {0, 1}]
        BY SendQAssumption
    <2> QED
        BY <2>1
<1>2. \A d \in Link : [m EXCEPT !.to = d] \in Calm
    <2> TAKE d \in Link
    <2>1. Msg(r.src, r.n) \in Calm
        BY <1>1, Frame_Type
    <2>2. m \in Frame /\ m.op = Msg(r.src, r.n).op /\ m.n = Msg(r.src, r.n).n /\ m.op = "msg"
        BY <1>1, <2>1 DEF Calm, GoodFrame, Frame, Msg, F
    <2>3. m.n \in 1 .. MaxLine
        BY <2>1, <2>2 DEF Calm, GoodFrame
    <2> HIDE DEF m
    <2>4. /\ [m EXCEPT !.to = d] \in Frame /\ [m EXCEPT !.to = d].op = "msg"
          /\ [m EXCEPT !.to = d].n = m.n
        BY <2>2 DEF Frame
    <2> QED
        BY <2>3, <2>4 DEF Calm, GoodFrame, More
<1> HIDE DEF m
<1>3. Each(r.to, m) \in Seq(Calm)
    BY <1>2, Each_Type
<1>4. <<F("reap", r.src)>> \in Seq(Calm)
    BY <1>1, Frame_Type DEF Ops
<1>5. Each(r.to, m) \o <<F("reap", r.src)>> \in Seq(Calm)
    BY <1>3, <1>4
<1>6. /\ Begin(Each(r.to, m) \o <<F("reap", r.src)>>)
      /\ UNCHANGED <<ln, sent, seen, chain, owed, cut>>
      /\ ops' \in 0 .. MaxOps
    BY Ops_Next DEF Relay, m, SInv, Tables
<1> QED
    BY <1>5, <1>6, Only_Begin

LEMMA ListCommand_Right ==
    ASSUME SInv, NEW c \in Lister, NEW masked \in {0, 1}, ListCommand(c, masked)
    PROVE  StepRight
<1>1. /\ c \in Link /\ UNCHANGED <<sent, seen, chain, cut>> /\ ops' \in 0 .. MaxOps
    BY Ops_Next, SendQAssumption DEF ListCommand, SInv, Tables
<1>2. /\ Msg(c, 1) \in Calm /\ F("interrupt", c) \in Calm /\ F("reap", c) \in Calm
      /\ ln[c] \in Client
    BY <1>1, Frame_Type DEF Ops, SInv, LinksRight
<1>3. CASE ln[c].lopt
    <2> DEFINE q == [ln[c] EXCEPT !.lopt = FALSE]
               fs == <<Msg(c, 1), F("interrupt", c), F("reap", c)>>
    <2>1. ln' = [ln EXCEPT ![c] = q] /\ run' = fs /\ owed' = [owed EXCEPT ![c] = {}]
        BY <1>1, <1>3 DEF ListCommand, Begin, SInv, LinksRight
    <2>2. /\ q \in Client /\ q.open = ln[c].open /\ q.dead = ln[c].dead
          /\ q.sq = ln[c].sq /\ q.zout = ln[c].zout
        BY <1>2 DEF Client
    <2>3. fs \in Seq(Calm)
        BY <1>2
    <2>4. owed' \in [Link -> SUBSET Channel] /\ cut' \in [Link -> BOOLEAN]
        BY <1>1, <2>1 DEF SInv, Tables
    <2> HIDE DEF q, fs
    <2>5. StackRight(run', ln')
        BY <2>1, <2>3, Calls_Right
    <2> QED
        BY <1>1, <2>1, <2>2, <2>4, <2>5, Flags_Right
<1>4. CASE ~ln[c].lopt
    <2> DEFINE b == [F("begin", c) EXCEPT !.i = masked]
    <2>1. Begin(<<Msg(c, 1), b, F("reap", c)>>) /\ UNCHANGED <<ln, owed>>
        BY <1>4 DEF ListCommand
    <2>2. b \in Calm
        <3>1. F("begin", c) = [op |-> "begin", to |-> c, n |-> 0, i |-> 0, j |-> 0, ch |-> NoChannel]
            BY DEF F
        <3>2. b \in Frame /\ b.op = "begin" /\ b.to = c
            BY <1>1, <3>1 DEF Frame, Ops
        <3> HIDE DEF b
        <3> QED
            BY <3>2 DEF Calm, GoodFrame, More
    <2> HIDE DEF b
    <2>3. <<Msg(c, 1), b, F("reap", c)>> \in Seq(Calm)
        BY <1>2, <2>2
    <2> QED
        BY <1>1, <2>1, <2>3, Only_Begin
<1> QED
    BY <1>3, <1>4

LEMMA Service_Right ==
    ASSUME SInv, NEW c \in Link, WriteReady(c) \/ Leave(c) \/ CheckPings(c)
    PROVE  StepRight
<1>1. ops \in 0 .. MaxOps
    BY DEF SInv, Tables
<1>2. CASE WriteReady(c)
    <2> DEFINE w == [F("sendq", c) EXCEPT !.i = 1]
    <2>1. w \in Calm
        <3>1. F("sendq", c) = [op |-> "sendq", to |-> c, n |-> 0, i |-> 0, j |-> 0, ch |-> NoChannel]
            BY DEF F
        <3>2. w \in Frame /\ w.op = "sendq"
            BY <3>1 DEF Frame, Ops
        <3> HIDE DEF w
        <3> QED
            BY <3>2 DEF Calm, GoodFrame, More
    <2>2. F("reap", c) \in Calm
        BY Frame_Type DEF Ops
    <2>3. /\ Begin(<<w, F("reap", c)>>)
          /\ UNCHANGED <<ln, sent, seen, chain, owed, cut, ops>>
        BY <1>2 DEF WriteReady
    <2> HIDE DEF w
    <2>4. <<w, F("reap", c)>> \in Seq(Calm)
        BY <2>1, <2>2
    <2> QED
        BY <1>1, <2>3, <2>4, Only_Begin
<1>3. CASE Leave(c) \/ CheckPings(c)
    <2>1. ExitFrames(c) \in Seq(Calm)
        BY Calls_Type
    <2>2. Begin(ExitFrames(c)) /\ UNCHANGED <<ln, sent, seen, chain, owed, cut, ops>>
        BY <1>3 DEF Leave, CheckPings
    <2> QED
        BY <1>1, <2>1, <2>2, Only_Begin
<1> QED
    BY <1>2, <1>3

LEMMA FlushAll_Right == ASSUME SInv, FlushAll PROVE StepRight
<1>1. PICK c \in Link : Begin(Each({d \in Link : ln[d].sq # << >>}, F("sendq", c)))
    BY DEF FlushAll
<1>2. Each({d \in Link : ln[d].sq # << >>}, F("sendq", c)) \in Seq(Calm)
    BY Calls_Type
<1>3. UNCHANGED <<ln, sent, seen, chain, owed, cut, ops>> /\ ops \in 0 .. MaxOps
    BY DEF FlushAll, SInv, Tables
<1> QED
    BY <1>1, <1>2, <1>3, Only_Begin

LEMMA Channel_Right ==
    ASSUME SInv, NEW ch \in Channel, CreateChannel(ch) \/ DestroyChannel(ch)
    PROVE  StepRight
<1>1. UNCHANGED <<ln, sent, seen, run>> /\ ops' \in 0 .. MaxOps
    BY Ops_Next DEF CreateChannel, DestroyChannel, SInv, Tables
<1>2. LinksRight' /\ [P!Next]_(P!vars)
    BY <1>1, Same_Links DEF SInv
<1>3. StackRight(run', ln')
    BY <1>1 DEF SInv
<1>4. Hash[ch] \in Bucket /\ chain[Hash[ch]] \in Seq(Channel)
    BY SendQAssumption DEF SInv, Tables, Bucket
<1>5. CASE CreateChannel(ch)
    <2>1. <<ch>> \o chain[Hash[ch]] \in Seq(Channel)
        BY <1>4
    <2>2. chain' \in [Bucket -> Seq(Channel)] /\ UNCHANGED <<owed, cut>>
        BY <1>5, <2>1 DEF CreateChannel, SInv, Tables
    <2>3. Tables'
        BY <1>1, <2>2 DEF SInv, Tables
    <2> QED
        BY <1>2, <1>3, <2>3 DEF StepRight, SInv
<1>6. CASE DestroyChannel(ch)
    <2> DEFINE s == chain[Hash[ch]]
    <2>1. PICK i \in DOMAIN s :
             chain' = [chain EXCEPT ![Hash[ch]] = SubSeq(s, 1, i - 1) \o SubSeq(s, i + 1, Len(s))]
        BY <1>6 DEF DestroyChannel, SInv, Tables
    <2>2. s \in Seq(Channel) /\ i \in 1 .. Len(s) /\ Len(s) \in Nat
        BY <1>4
    <2> HIDE DEF s
    <2>3. SubSeq(s, 1, i - 1) \in Seq(Channel)
        <3>1. \A k \in 1 .. (i - 1) : s[k] \in Channel
            BY <2>2
        <3> QED
            BY <2>2, <3>1, SubSeqProperties
    <2>4. SubSeq(s, i + 1, Len(s)) \in Seq(Channel)
        <3>1. \A k \in (i + 1) .. Len(s) : s[k] \in Channel
            BY <2>2
        <3> QED
            BY <2>2, <3>1, SubSeqProperties
    <2>5. SubSeq(s, 1, i - 1) \o SubSeq(s, i + 1, Len(s)) \in Seq(Channel)
        BY <2>3, <2>4
    <2>6. chain' \in [Bucket -> Seq(Channel)]
        BY <1>4, <2>1, <2>5 DEF SInv, Tables
    <2>7. owed' \in [Link -> SUBSET Channel] /\ cut' \in [Link -> BOOLEAN]
        BY <1>6 DEF DestroyChannel, SInv, Tables
    <2>8. Tables'
        BY <1>1, <2>6, <2>7 DEF Tables
    <2> QED
        BY <1>2, <1>3, <2>8 DEF StepRight, SInv
<1> QED
    BY <1>5, <1>6

LEMMA Next_Right == ASSUME SInv, [Next]_vars PROVE StepRight
<1>1. CASE Step
    BY <1>1, Step_Right
<1>2. CASE MainLoop
    BY <1>2, Relay_Right, ListCommand_Right, Service_Right, FlushAll_Right, Channel_Right
       DEF MainLoop
<1>3. CASE UNCHANGED vars
    <2>1. LinksRight' /\ [P!Next]_(P!vars)
        BY <1>3, Same_Links DEF SInv, vars
    <2>2. StackRight(run', ln') /\ Tables'
        BY <1>3 DEF SInv, vars, Tables
    <2> QED
        BY <2>1, <2>2 DEF StepRight, SInv
<1> QED
    BY <1>1, <1>2, <1>3 DEF Next

LEMMA Init_Right == ASSUME Init PROVE SInv /\ P!Init
<1>1. New \in Client
    <2>1. << >> \in Seq(Unit)
        OBVIOUS
    <2> QED
        BY <2>1 DEF New, Client
<1>2. StackRight(run, ln)
    BY Empty_Call, Calls_Right DEF Init
<1>3. ASSUME NEW c \in Link PROVE LinkRight(c, New, 0, {})
    <2>1. /\ New.open /\ ~New.dead /\ New.sq = << >> /\ New.zout = 0
          /\ ~New.doing /\ ~New.pop /\ Len(<< >>) = 0
        BY DEF New
    <2>2. InStream(New, 0, {})
        BY <2>1 DEF InStream, Chained, Begins
    <2>3. Limit[c] \in Nat /\ MaxLine \in Nat /\ MaxLine <= ZipMax
        BY SendQAssumption
    <2>4. 0 <= Limit[c] + MaxLine /\ 0 + MaxLine <= ZipMax
        BY <2>3
    <2> HIDE DEF New
    <2> QED
        BY <1>1, <2>1, <2>2, <2>4 DEF LinkRight
<1>4. LinksRight
    BY <1>1, <1>3 DEF Init, LinksRight
<1>5. Tables
    BY SendQAssumption DEF Init, Tables, Bucket
<1>6. [c \in Link |-> Up(c)] = [c \in Link |-> TRUE]
    BY DEF Init, Up, New
<1>7. P!Init
    BY <1>6 DEF Init, P!Init
<1> QED
    BY <1>2, <1>4, <1>5, <1>7 DEF SInv

-----------------------------------------------------------------------------
LEMMA Spec_SInv == Spec => []SInv
<1>1. Init => SInv
    BY Init_Right
<1>2. SInv /\ [Next]_vars => SInv'
    BY Next_Right DEF StepRight
<1> QED
    BY <1>1, <1>2, PTL DEF Spec

LEMMA SInv_Type == ASSUME SInv PROVE TypeOK
<1>1. run \in Seq(Frame)
    BY DEF SInv, StackRight, GoodFrame
<1> QED
    BY <1>1 DEF SInv, LinksRight, Tables, TypeOK

(* Every variable of the output side keeps its type: the queues and flags   *)
(* of the connections, the stack of calls, the channel table and LIST.      *)
THEOREM SendQ_Type == Spec => []TypeOK
<1>1. SInv => TypeOK
    BY SInv_Type
<1> QED
    BY <1>1, Spec_SInv, PTL

(* In every reachable state the SendQ and outbuf of a connection that is up *)
(* hold the end of its stream, without a gap and in order, the queue is at  *)
(* most a line over its limit, and the next line fits into outbuf           *)
(* (send_message, send_queued, zip_buffer).                                 *)
THEOREM SendQ_QueueRight == Spec => []QueueRight
<1>1. ASSUME SInv PROVE Contiguous
    <2>1. TypeOK
        BY <1>1, SInv_Type
    <2> SUFFICES ASSUME NEW c \in Link, Up(c)
                 PROVE  \E n \in 0 .. sent[c] :
                           /\ seen[c] = 0 .. (n - 1)
                           /\ Pending(c)[1][1] = n
                           /\ \A k \in 1 .. Len(ln[c].sq) :
                                 /\ Pending(c)[k][2] = Pending(c)[k + 1][1]
                                 /\ Pending(c)[k][1] < Pending(c)[k][2]
        BY <2>1 DEF Contiguous
    <2> DEFINE r == ln[c]
               L == Len(r.sq)
               u == <<sent[c] - r.zout, sent[c]>>
               n == Begins(r, sent[c])
    <2>2. /\ r \in Client /\ sent[c] \in Nat /\ InStream(r, sent[c], seen[c])
          /\ r.zout <= sent[c] /\ r.sq \in Seq(Unit) /\ L \in Nat /\ r.zout \in Nat
          /\ \A k \in 1 .. L : r.sq[k][1] \in Nat /\ r.sq[k][2] \in Nat
        BY <1>1 DEF SInv, LinksRight, LinkRight, Up, Client, Unit
    <2>3. /\ \A k \in 1 .. L : Pending(c)[k] = r.sq[k]
          /\ Pending(c)[L + 1] = u /\ u[1] = sent[c] - r.zout
        <3>1. [k \in 1 .. L |-> r.sq[k]] = r.sq
            BY <2>2
        <3>2. Pending(c) = r.sq \o <<u>>
            BY <3>1, Zenon DEF Pending
        <3>3. u \in Unit /\ u[1] = sent[c] - r.zout
            BY <2>2 DEF Unit
        <3> HIDE DEF r, u
        <3>4. Pending(c) = Append(r.sq, u)
            BY <2>2, <3>2, <3>3
        <3> QED
            BY <2>2, <3>3, <3>4
    <2> HIDE DEF r, u
    <2>4. CASE r.sq = << >>
        <3>1. n = sent[c] - r.zout /\ L = 0
            BY <2>4 DEF Begins
        <3>2. n \in 0 .. sent[c]
            BY <2>2, <3>1
        <3>3. Pending(c)[1][1] = n
            BY <2>3, <3>1
        <3>4. seen[c] = 0 .. (n - 1)
            BY <2>2 DEF InStream
        <3> QED
            BY <3>1, <3>2, <3>3, <3>4 DEF r
    <2>5. CASE r.sq # << >>
        <3>1. 1 \in 1 .. L /\ L \in 1 .. L /\ n = r.sq[1][1]
            BY <2>2, <2>5 DEF Begins
        <3>2. n \in 0 .. sent[c]
            <4>1. r.sq[1][2] <= sent[c] - r.zout /\ r.sq[1][1] < r.sq[1][2]
                BY <2>2, <3>1 DEF InStream, Chained
            <4> QED
                BY <2>2, <3>1, <4>1
        <3>3. Pending(c)[1][1] = n /\ seen[c] = 0 .. (n - 1)
            BY <2>2, <2>3, <3>1 DEF InStream
        <3>4. ASSUME NEW k \in 1 .. L
              PROVE  /\ Pending(c)[k][2] = Pending(c)[k + 1][1]
                     /\ Pending(c)[k][1] < Pending(c)[k][2]
            <4>1. Pending(c)[k] = r.sq[k] /\ r.sq[k][1] < r.sq[k][2]
                BY <2>2, <2>3 DEF InStream, Chained
            <4>2. CASE k = L
                BY <4>1, <4>2, <2>2, <2>3, <2>5 DEF InStream
            <4>3. CASE k < L
                <5>1. k + 1 \in 1 .. L
                    BY <4>3, <2>2
                <5> QED
                    BY <4>1, <4>3, <5>1, <2>2, <2>3 DEF InStream, Chained
            <4> QED
                BY <4>2, <4>3, <2>2
        <3> QED
            BY <3>2, <3>3, <3>4 DEF r
    <2> QED
        BY <2>4, <2>5
<1>2. ASSUME SInv PROVE Bounded
    BY <1>2 DEF SInv, LinksRight, LinkRight, Bounded
<1>3. SInv => QueueRight
    BY <1>1, <1>2 DEF QueueRight
<1> QED
    BY <1>3, Spec_SInv, PTL

(* The queues implement Pipe: every line handed to a connection that is up  *)
(* is added to its stream, every write delivers the next bytes of it, and   *)
(* a connection that went down delivers nothing more.                       *)
THEOREM SendQ_Pipe == Spec => PipeSpec
<1>1. Init => P!Init
    BY Init_Right
<1>2. SInv /\ [Next]_vars => [P!Next]_(P!vars)
    BY Next_Right DEF StepRight
<1> QED
    BY <1>1, <1>2, Spec_SInv, PTL DEF Spec, PipeSpec, P!Spec

-----------------------------------------------------------------------------
(* LIST.  Between two steps at most one send_list is on the stack: it runs  *)
(* itself, or waits for the call of send_message that it made for its       *)
(* client, and the calls of that.  A client whose list is not running       *)
(* is owed no more than what lies behind the place where it stopped, and    *)
(* one without list options nothing.  It matters that nothing resumes the   *)
(* same list below itself: FLAGS2_SENDQ_POP is clear while it runs.         *)
Listing == {"start", "list", "listchk", "listend"}
Plain == {f \in Frame : f.op \notin Listing}

Left(c, i, j) == {chain[p[1]][p[2]] : p \in Shown(c, i, j)}
InHand(c) == Up(c) /\ ~cut[c]
Owes(c, A) == InHand(c) => owed[c] \subseteq A

Standing(c) == ln[c].lopt => Owes(c, Left(c, ln[c].pi, ln[c].pj))
Paid(c) == ~ln[c].lopt => Owes(c, {})

(* No send_list runs; it does, for c; it waits for a line to c, f is of     *)
(* that line and g of the list.                                             *)
Resting == run \in Seq(Plain) /\ \A c \in Link : Standing(c)
AtWork(c, f) ==
    /\ Tail(run) \in Seq(Plain)
    /\ \/ f.op = "start" /\ ~ln[c].pop /\ Standing(c)
       \/ f.op = "list" /\ ~ln[c].pop /\ Owes(c, Left(c, f.i, f.j))
       \/ f.op = "listchk" /\ ln[c].pop /\ Owes(c, Left(c, f.i, f.j))
       \/ f.op = "listchk" /\ ~ln[c].pop /\ Owes(c, Left(c, f.i, f.j + 1))
       \/ f.op = "listend" /\ Owes(c, {})
Waits(c, f, g) ==
    \/ /\ g.op = "listchk" /\ Owes(c, Left(c, g.i, g.j))
       /\ Owes(c, (IF f.op = "msg" THEN {f.ch} ELSE {}) \cup Left(c, g.i, g.j + 1))
    \/ g.op = "listend" /\ Owes(c, {})
Writing(c, f) ==
    /\ f.op \in {"msg", "sendq", "loop"} /\ ~ln[c].pop
    /\ Tail(run) # << >> /\ Tail(Tail(run)) \in Seq(Plain)
    /\ Head(Tail(run)).to = c /\ Waits(c, f, Head(Tail(run)))
Listed(c) == /\ run # << >> /\ Head(run).to = c
             /\ AtWork(c, Head(run)) \/ Writing(c, Head(run))
             /\ \A d \in Link \ {c} : Standing(d)

ListInv == /\ \A c \in Link : Paid(c)
           /\ Resting \/ \E c \in Lister : Listed(c)

(* A step that leaves the places of all lists alone, and pays at most.      *)
Softer(q, r) == /\ q.lopt = r.lopt /\ q.pi = r.pi /\ q.pj = r.pj
                /\ q.open /\ ~q.dead => r.open /\ ~r.dead
Softly == /\ \A c \in Link : Softer(ln'[c], ln[c]) /\ owed'[c] \subseteq owed[c]
          /\ UNCHANGED <<chain, cut>>

LEMMA Softer_Changes ==
    ASSUME NEW r \in Client
    PROVE  /\ Softer(r, r)
           /\ Softer(Dead(r), r) /\ Dead(r).pop = r.pop /\ Dead(r).dead
           /\ \A total : Softer(ZipFlush(r, total), r) /\ ZipFlush(r, total).pop = r.pop
           /\ \A n : Softer(DbufDelete(r, n), r) /\ DbufDelete(r, n).pop = r.pop
<1>1. Softer(r, r)
    BY DEF Softer
<1>2. Softer(Dead(r), r) /\ Dead(r).pop = r.pop /\ Dead(r).dead
    BY DEF Softer, Dead, Client
<1>3. ASSUME NEW total
      PROVE  Softer(ZipFlush(r, total), r) /\ ZipFlush(r, total).pop = r.pop
    BY DEF Softer, ZipFlush, Client
<1>4. ASSUME NEW n
      PROVE  Softer(DbufDelete(r, n), r) /\ DbufDelete(r, n).pop = r.pop
    BY DEF Softer, DbufDelete, Client
<1> QED
    BY <1>1, <1>2, <1>3, <1>4

LEMMA Softer_Put ==
    ASSUME NEW r \in Client, NEW c, NEW a, NEW n, NEW burst
    PROVE  Softer(Put(r, c, a, n, burst), r) /\ Put(r, c, a, n, burst).pop = r.pop
<1> DEFINE z == [r EXCEPT !.zout = r.zout + n]
           s == [r EXCEPT !.sq = r.sq \o Bytes(a, n)]
           t == [z EXCEPT !.sq = Append(z.sq, <<(a + n) - z.zout, a + n>>), !.zout = 0]
<1>1. Softer(s, r) /\ s.pop = r.pop /\ Softer(z, r) /\ z.pop = r.pop
    BY DEF Softer, Client
<1>2. Softer(t, r) /\ t.pop = r.pop
    BY DEF Softer, Client
<1>3. Put(r, c, a, n, burst) \in {s, z, t}
    BY DEF Put, ZipFlush
<1> HIDE DEF s, z, t
<1> QED
    BY <1>1, <1>2, <1>3

LEMMA Softly_Link ==
    ASSUME LinksRight, NEW c \in Link, NEW q, ln' = [ln EXCEPT ![c] = q], Softer(q, ln[c]),
           \A d \in Link : owed'[d] \subseteq owed[d], UNCHANGED <<chain, cut>>
    PROVE  Softly
<1> SUFFICES ASSUME NEW d \in Link PROVE Softer(ln'[d], ln[d])
    BY DEF Softly
<1>1. CASE d = c
    BY <1>1 DEF LinksRight
<1>2. CASE d # c
    <2>1. ln'[d] = ln[d]
        BY <1>2 DEF LinksRight
    <2> QED
        BY <2>1 DEF Softer
<1> QED
    BY <1>1, <1>2

LEMMA Softly_Same ==
    ASSUME UNCHANGED <<ln, owed, chain, cut>>
    PROVE  Softly
BY DEF Softly, Softer

LEMMA Standing_Keeps ==
    ASSUME NEW c \in Link, UNCHANGED chain, InHand(c)' => InHand(c), owed'[c] \subseteq owed[c],
           ln'[c].pi = ln[c].pi, ln'[c].pj = ln[c].pj, Standing(c),
           ln'[c].lopt => ln[c].lopt \/ owed[c] = {}
    PROVE  Standing(c)'
<1> DEFINE A == Left(c, ln[c].pi, ln[c].pj)
<1>1. Left(c, ln[c].pi, ln[c].pj)' = A
    BY DEF Left, Shown
<1>2. ASSUME ln'[c].lopt, InHand(c)' PROVE owed'[c] \subseteq A
    <2>1. owed[c] = {} \/ owed[c] \subseteq A
        BY <1>2 DEF Standing, Owes
    <2> HIDE DEF A
    <2> QED
        BY <2>1
<1> QED
    BY <1>1, <1>2 DEF Standing, Owes

(* Nothing happens to c.                                                    *)
LEMMA Same_Keeps ==
    ASSUME NEW c \in Link, UNCHANGED chain, ln'[c] = ln[c], owed'[c] = owed[c], cut'[c] = cut[c]
    PROVE  /\ Standing(c) => Standing(c)'
           /\ Paid(c) => Paid(c)'
<1>1. InHand(c)' = InHand(c)
    BY DEF InHand, Up
<1>2. Standing(c) => Standing(c)'
    BY <1>1, Standing_Keeps
<1>3. Paid(c) => Paid(c)'
    BY <1>1 DEF Paid, Owes
<1> QED
    BY <1>2, <1>3

LEMMA Softly_Keeps ==
    ASSUME Softly, NEW c \in Link
    PROVE  /\ InHand(c)' => InHand(c)
           /\ \A i, j : Left(c, i, j)' = Left(c, i, j)
           /\ \A A : Owes(c, A) => Owes(c, A)'
           /\ Standing(c) => Standing(c)'
           /\ Paid(c) => Paid(c)'
<1>1. /\ ln'[c].lopt = ln[c].lopt /\ ln'[c].pi = ln[c].pi /\ ln'[c].pj = ln[c].pj
      /\ ln'[c].open /\ ~ln'[c].dead => ln[c].open /\ ~ln[c].dead
      /\ owed'[c] \subseteq owed[c] /\ chain' = chain /\ cut'[c] = cut[c]
    BY DEF Softly, Softer
<1>2. InHand(c)' => InHand(c)
    BY <1>1 DEF InHand, Up
<1>3. ASSUME NEW i, NEW j PROVE Left(c, i, j)' = Left(c, i, j)
    BY <1>1 DEF Left, Shown
<1>4. ASSUME NEW A, Owes(c, A) PROVE Owes(c, A)'
    BY <1>1, <1>2, <1>4 DEF Owes
<1>5. Standing(c) => Standing(c)'
    BY <1>1, <1>2, Standing_Keeps
<1>6. Paid(c) => Paid(c)'
    BY <1>1, <1>2 DEF Paid, Owes
<1> QED
    BY <1>2, <1>3, <1>4, <1>5, <1>6


(* Which of the cases a step finds.                                         *)
Line_ops == {"msg", "sendq", "loop"}

LEMMA Which_Case ==
    ASSUME ListInv, run # << >>
    PROVE  \/ Resting
           \/ Head(run).to \in Lister /\ Listed(Head(run).to)
BY DEF ListInv, Listed

LEMMA At_Rest ==
    ASSUME ListInv, run # << >>, Head(run).op \notin Listing \cup Line_ops
    PROVE  Resting
BY DEF ListInv, Listed, AtWork, Writing, Listing, Line_ops

LEMMA Must_Work ==
    ASSUME ListInv, run # << >>, Head(run).op \in Listing
    PROVE  /\ Head(run).to \in Lister /\ Listed(Head(run).to)
           /\ AtWork(Head(run).to, Head(run)) /\ Tail(run) \in Seq(Plain)
<1>1. ~Resting
    BY DEF Resting, Plain
<1>2. Head(run).to \in Lister /\ Listed(Head(run).to)
    BY <1>1, Which_Case
<1>3. ~Writing(Head(run).to, Head(run))
    BY DEF Writing, Listing
<1> QED
    BY <1>2, <1>3 DEF Listed, AtWork

LEMMA Plain_Calls ==
    ASSUME NEW fs \in Seq(Plain), NEW s \in Seq(Plain)
    PROVE  fs \o s \in Seq(Plain)
OBVIOUS

LEMMA Plain_Types ==
    /\ \A c \in Link : \A op \in Ops \ Listing : F(op, c) \in Plain
    /\ \A c \in Link : \A n \in 1 .. MaxLine : Msg(c, n) \in Plain
    /\ \A c \in Link : Msg(c, 1) \in Plain
    /\ \A S : \A c \in Link : Each(S, Msg(c, 1)) \in Seq(Plain)
    /\ \A S : \A c \in Link : Each(S, F("sendq", c)) \in Seq(Plain)
    /\ \A c \in Link : Notices(c) \in Seq(Plain)
    /\ \A c \in Link : ExitFrames(c) \in Seq(Plain)
<1>1. ASSUME NEW c \in Link, NEW op \in Ops \ Listing PROVE F(op, c) \in Plain
    BY DEF F, Frame, Plain
<1>2. ASSUME NEW c \in Link, NEW n \in 1 .. MaxLine PROVE Msg(c, n) \in Plain
    <2>1. Msg(c, n) \in Calm
        BY Frame_Type
    <2>2. Msg(c, n).op = "msg"
        BY DEF Msg, F
    <2> QED
        BY <2>1, <2>2 DEF Calm, GoodFrame, Plain, Listing
<1>3. 1 \in 1 .. MaxLine
    BY SendQAssumption
<1>4. ASSUME NEW S, NEW c \in Link PROVE Each(S, Msg(c, 1)) \in Seq(Plain)
    <2>1. \A d : Msg(d, 1) = [op |-> "msg", to |-> d, n |-> 1, i |-> 0, j |-> 0,
                              ch |-> NoChannel]
        BY DEF Msg, F
    <2>2. \A d \in Link : [Msg(c, 1) EXCEPT !.to = d] = Msg(d, 1)
        BY <2>1
    <2> QED
        BY <2>2, <1>2, <1>3, Each_Type
<1>5. ASSUME NEW S, NEW c \in Link PROVE Each(S, F("sendq", c)) \in Seq(Plain)
    <2>1. \A d \in Link : [F("sendq", c) EXCEPT !.to = d] = F("sendq", d)
        BY DEF F
    <2>2. \A d \in Link : F("sendq", d) \in Plain
        BY <1>1 DEF Ops, Listing
    <2> QED
        BY <2>1, <2>2, Each_Type
<1>6. ASSUME NEW c \in Link PROVE Notices(c) \in Seq(Plain)
    BY <1>4 DEF Notices
<1>7. ASSUME NEW c \in Link PROVE ExitFrames(c) \in Seq(Plain)
    <2>1. Msg(c, 1) \in Plain /\ F("close", c) \in Plain
        BY <1>1, <1>2, <1>3 DEF Ops, Listing
    <2>2. <<Msg(c, 1), F("close", c)>> \in Seq(Plain)
        BY <2>1
    <2> QED
        BY <2>2, <1>4 DEF ExitFrames
<1> QED
    BY <1>1, <1>2, <1>3, <1>4, <1>5, <1>6, <1>7

(* A soft step makes a call while no list runs.                             *)
LEMMA Rest_On ==
    ASSUME ListInv, Resting, run # << >>, Softly, NEW fs \in Seq(Plain), Call(fs)
    PROVE  ListInv'
<1>1. ASSUME NEW c \in Link PROVE Standing(c)' /\ Paid(c)'
    BY Softly_Keeps DEF ListInv, Resting
<1>2. run' \in Seq(Plain)
    BY Plain_Calls DEF Resting, Call
<1> QED
    BY <1>1, <1>2 DEF ListInv, Resting

LEMMA Paid_On == ASSUME ListInv, Softly PROVE \A c \in Link : Paid(c)'
BY Softly_Keeps DEF ListInv

LEMMA Others_On ==
    ASSUME Softly, NEW c, Listed(c)
    PROVE  \A d \in Link \ {c} : Standing(d)'
BY Softly_Keeps DEF Listed

(* A soft step of the line to the client of a list: it goes on with another *)
(* call for this line, or returns.                                          *)
LEMMA Waits_On ==
    ASSUME Softly, NEW c \in Link, NEW f, NEW g, NEW h, Waits(c, f, g),
           h.op # "msg", f.op = "msg" => f.ch \notin owed'[c] \/ ~InHand(c)'
    PROVE  /\ Waits(c, h, g)'
           /\ g.op = "listchk" => Owes(c, Left(c, g.i, g.j))' /\ Owes(c, Left(c, g.i, g.j + 1))'
           /\ g.op = "listend" => Owes(c, {})'
<1>1. CASE g.op = "listend" /\ Owes(c, {})
    BY <1>1, Softly_Keeps DEF Waits
<1>2. CASE /\ g.op = "listchk" /\ Owes(c, Left(c, g.i, g.j))
           /\ Owes(c, (IF f.op = "msg" THEN {f.ch} ELSE {}) \cup Left(c, g.i, g.j + 1))
    <2> DEFINE A == Left(c, g.i, g.j)
               B == Left(c, g.i, g.j + 1)
    <2>1. A' = A /\ B' = B
        BY Softly_Keeps
    <2>2. Owes(c, A)'
        BY <1>2, <2>1, Softly_Keeps DEF Owes
    <2>3. Owes(c, B)'
        <3> SUFFICES ASSUME InHand(c)' PROVE owed'[c] \subseteq B
            BY <2>1 DEF Owes
        <3>1. owed[c] \subseteq (IF f.op = "msg" THEN {f.ch} ELSE {}) \cup B
            BY <1>2, Softly_Keeps DEF Owes
        <3>2. owed'[c] \subseteq owed[c]
            BY DEF Softly
        <3> HIDE DEF B
        <3> QED
            BY <3>1, <3>2
    <2>4. (IF h.op = "msg" THEN {h.ch} ELSE {}) = {}
        OBVIOUS
    <2>5. Owes(c, (IF h.op = "msg" THEN {h.ch} ELSE {}) \cup B)'
        BY <2>3, <2>4 DEF Owes
    <2> QED
        BY <1>2, <2>2, <2>3, <2>5 DEF Waits
<1> QED
    BY <1>1, <1>2 DEF Waits

LEMMA Write_On ==
    ASSUME ListInv, NEW c \in Lister, Listed(c), NEW f, f = Head(run), Writing(c, f), Softly,
           NEW h, Call(<<h>>), h.op \in {"sendq", "loop"}, h.to = c, ~ln'[c].pop,
           f.op = "msg" => f.ch \notin owed'[c] \/ ~InHand(c)'
    PROVE  ListInv'
<1>1. c \in Link /\ run # << >> /\ f.to = c
    BY SendQAssumption DEF Listed
<1>2. PICK t, g : /\ t = Tail(run) /\ g = Head(t)
                  /\ t # << >> /\ Tail(t) \in Seq(Plain) /\ g.to = c /\ Waits(c, f, g)
                  /\ f.op \in {"msg", "sendq", "loop"}
    BY DEF Writing
<1>3. run' # << >> /\ Head(run') = h /\ Tail(run') = t
    BY <1>2 DEF Call
<1>4. Waits(c, h, g)'
    BY <1>1, <1>2, Waits_On
<1>5. Writing(c, h)'
    BY <1>2, <1>3, <1>4 DEF Writing
<1>6. Listed(c)'
    BY <1>3, <1>5, Others_On DEF Listed
<1> QED
    BY <1>6, Paid_On DEF ListInv

LEMMA Write_Back ==
    ASSUME ListInv, NEW c \in Lister, Listed(c), NEW f, f = Head(run), Writing(c, f), Softly,
           Return, \/ ln'[c].pop
                   \/ f.op # "msg" \/ f.ch \notin owed'[c] \/ ~InHand(c)'
    PROVE  ListInv'
<1>1. c \in Link /\ run # << >> /\ f.to = c
    BY SendQAssumption DEF Listed
<1>2. PICK t, g : /\ t = Tail(run) /\ g = Head(t)
                  /\ t # << >> /\ Tail(t) \in Seq(Plain) /\ g.to = c /\ Waits(c, f, g)
    BY DEF Writing
<1>3. run' = t
    BY <1>2 DEF Return
<1>4. ASSUME g.op = "listend" PROVE AtWork(c, g)'
    <2>1. Owes(c, {})'
        BY <1>1, <1>2, <1>4, Softly_Keeps DEF Waits
    <2> QED
        BY <2>1, <1>2, <1>3, <1>4 DEF AtWork
<1>5. ASSUME g.op = "listchk" PROVE AtWork(c, g)'
    <2>1. CASE ln'[c].pop
        <3>1. Owes(c, Left(c, g.i, g.j))
            BY <1>2, <1>5 DEF Waits
        <3>2. Owes(c, Left(c, g.i, g.j))'
            BY <1>1, <3>1, Softly_Keeps DEF Owes
        <3> QED
            BY <2>1, <3>2, <1>2, <1>3, <1>5 DEF AtWork
    <2>2. CASE ~ln'[c].pop
        <3>1. Owes(c, Left(c, g.i, g.j + 1))'
            <4>1. PICK h : h = F("loop", c)
                OBVIOUS
            <4>2. h.op # "msg"
                BY <4>1 DEF F
            <4> QED
                BY <1>1, <1>2, <1>5, <2>2, <4>2, Waits_On
        <3> QED
            BY <2>2, <3>1, <1>2, <1>3, <1>5 DEF AtWork
    <2> QED
        BY <2>1, <2>2
<1>6. AtWork(c, g)'
    BY <1>2, <1>4, <1>5 DEF Waits
<1>7. Listed(c)'
    BY <1>2, <1>3, <1>6, Others_On DEF Listed
<1> QED
    BY <1>7, Paid_On DEF ListInv


(* A soft step of a line, whether or not a list waits for it.               *)
LEMMA Line_Step ==
    ASSUME SInv, ListInv, run # << >>, NEW f, f = Head(run), f.op \in Line_ops, Softly,
           NEW fs \in Seq(Plain), Call(fs),
           f.to \in Lister /\ ~ln[f.to].pop =>
              \/ /\ fs = << >>
                 /\ \/ ln'[f.to].pop
                    \/ f.op # "msg" \/ f.ch \notin owed'[f.to] \/ ~InHand(f.to)'
              \/ /\ \E h : fs = <<h>> /\ h.op \in {"sendq", "loop"} /\ h.to = f.to
                 /\ ~ln'[f.to].pop /\ (f.op = "msg" => f.ch \notin owed'[f.to])
    PROVE  ListInv'
<1>1. CASE Resting
    BY <1>1, Rest_On
<1>2. CASE f.to \in Lister /\ Listed(f.to)
    <2>1. f.op \notin Listing
        BY DEF Line_ops, Listing
    <2>2. Writing(f.to, f) /\ ~ln[f.to].pop
        BY <1>2, <2>1 DEF Listed, AtWork, Writing, Listing
    <2>3. CASE /\ fs = << >>
               /\ \/ ln'[f.to].pop
                  \/ f.op # "msg" \/ f.ch \notin owed'[f.to] \/ ~InHand(f.to)'
        <3>1. Tail(run) \in Seq(Calm)
            BY Top_Frame
        <3>2. Return
            BY <2>3, <3>1 DEF Call, Return
        <3> QED
            BY <1>2, <2>2, <2>3, <3>2, Write_Back
    <2>4. ASSUME NEW h, fs = <<h>>, h.op \in {"sendq", "loop"}, h.to = f.to,
                 ~ln'[f.to].pop, f.op = "msg" => f.ch \notin owed'[f.to]
          PROVE  ListInv'
        <3>1. Call(<<h>>)
            BY <2>4
        <3> QED
            BY <1>2, <2>2, <2>4, <3>1, Write_On
    <2> QED
        BY <1>2, <2>2, <2>3, <2>4
<1> QED
    BY <1>1, <1>2, Which_Case

LEMMA Nothing == << >> \in Seq(Plain) /\ (Return => Call(<< >>))
BY Empty_Call

LEMMA MsgIgnored_List == ASSUME SInv, ListInv, MsgIgnored PROVE ListInv'
<1>a. PICK f \in GoodFrame, c \in Link : f = Head(run) /\ c = f.to
    BY Top_Frame DEF MsgIgnored, Top
<1>1. /\ run # << >> /\ f.op \in Line_ops /\ Softly /\ Call(<< >>) /\ ~Up(c)
      /\ UNCHANGED <<ln, cut>>
    BY <1>a, Nothing, Softly_Same DEF MsgIgnored, Top, Line_ops
<1>2. ~InHand(c)'
    BY <1>1 DEF InHand, Up
<1> QED
    BY <1>a, <1>1, <1>2, Nothing, Line_Step

LEMMA No_Notices == ASSUME NEW c \in Lister PROVE Notices(c) = << >>
BY SendQAssumption DEF Notices

LEMMA MsgOverLimit_List == ASSUME SInv, ListInv, MsgOverLimit PROVE ListInv'
<1>a. PICK f \in GoodFrame, c \in Link : f = Head(run) /\ c = f.to
    BY Top_Frame DEF MsgOverLimit, Top
<1>1. /\ run # << >> /\ f.op \in Line_ops /\ UNCHANGED <<owed, chain, cut>> /\ LinksRight
      /\ ln \in [Link -> Client] /\ ln[c] \in Client
    BY <1>a DEF MsgOverLimit, Top, Line_ops, SInv, LinksRight
<1>2. CASE ln[c].doing
    <2> DEFINE q == [ln[c] EXCEPT !.pop = TRUE]
    <2>1. ln' = [ln EXCEPT ![c] = q] /\ Call(<< >>)
        BY <1>2, <1>a, <1>1, Nothing DEF MsgOverLimit
    <2>2. Softer(q, ln[c]) /\ q.pop
        BY <1>1 DEF Softer, Client
    <2> HIDE DEF q
    <2>3. Softly /\ ln'[c].pop
        BY <1>1, <2>1, <2>2, Softly_Link
    <2> QED
        BY <1>a, <1>1, <2>1, <2>3, Nothing, Line_Step
<1>3. CASE ~ln[c].doing
    <2> DEFINE r == [ln[c] EXCEPT !.ex = (c \notin Server)]
               fs == Notices(c) \o Notices(c)
    <2>1. ln' = [ln EXCEPT ![c] = Dead(r)] /\ Call(fs)
        BY <1>3, <1>a, <1>1 DEF MsgOverLimit
    <2>2. Softer(Dead(r), ln[c]) /\ Dead(r).dead
        BY <1>1 DEF Softer, Client, Dead
    <2> DEFINE q == Dead(r)
    <2> HIDE DEF q
    <2>3. Softly /\ ln'[c].dead
        BY <1>1, <2>1, <2>2, Softly_Link DEF q
    <2>4. ~InHand(c)'
        BY <2>3 DEF InHand, Up
    <2>5. fs \in Seq(Plain)
        BY Plain_Types, Plain_Calls
    <2>6. c \in Lister => fs = << >>
        BY No_Notices
    <2> HIDE DEF fs
    <2> QED
        BY <1>a, <1>1, <2>1, <2>3, <2>4, <2>5, <2>6, Line_Step
<1> QED
    BY <1>2, <1>3

LEMMA One_Plain == ASSUME NEW h \in Plain PROVE <<h>> \in Seq(Plain)
OBVIOUS

LEMMA MsgQueued_List == ASSUME SInv, ListInv, MsgQueued PROVE ListInv'
<1>a. PICK f \in GoodFrame, c \in Link : f = Head(run) /\ c = f.to
    BY Top_Frame DEF MsgQueued, Top
<1> DEFINE r == Put(ln[c], c, sent[c], f.n, f.i)
           h == F("sendq", c)
<1>1. /\ run # << >> /\ f.op \in Line_ops /\ UNCHANGED <<chain, cut>> /\ LinksRight
      /\ ln \in [Link -> Client] /\ ln[c] \in Client /\ owed \in [Link -> SUBSET Channel]
      /\ owed' = [owed EXCEPT ![c] = owed[c] \ {f.ch}]
      /\ ln' = [ln EXCEPT ![c] = r]
      /\ (Call(<<h>>) \/ Call(<< >>))
    BY <1>a, Nothing DEF MsgQueued, Top, Line_ops, SInv, LinksRight, Tables
<1>2. Softer(r, ln[c]) /\ r.pop = ln[c].pop
    BY <1>1, Softer_Put
<1> HIDE DEF r
<1>3. /\ \A d \in Link : owed'[d] \subseteq owed[d]
      /\ f.ch \notin owed'[c] /\ ln'[c].pop = ln[c].pop
    BY <1>1, <1>2
<1>4. Softly
    BY <1>1, <1>2, <1>3, Softly_Link
<1>5. h \in Plain /\ <<h>> \in Seq(Plain) /\ h.op = "sendq" /\ h.to = c
    <2>1. h \in Plain
        BY Plain_Types DEF Ops, Listing
    <2>2. h.op = "sendq" /\ h.to = c
        BY DEF F
    <2> HIDE DEF h
    <2> QED
        BY <2>1, <2>2
<1> HIDE DEF h
<1>6. CASE Call(<<h>>)
    BY <1>a, <1>1, <1>3, <1>4, <1>5, <1>6, Line_Step
<1>7. CASE Call(<< >>)
    BY <1>a, <1>1, <1>3, <1>4, <1>7, Nothing, Line_Step
<1> QED
    BY <1>1, <1>6, <1>7


LEMMA SendQueued_List == ASSUME SInv, ListInv, SendQueued PROVE ListInv'
<1>a. PICK f \in GoodFrame, c \in Link : f = Head(run) /\ c = f.to
    BY Top_Frame DEF SendQueued, Top
<1>1. /\ run # << >> /\ f.op = "sendq" /\ f.op \in Line_ops /\ f.op # "msg"
      /\ UNCHANGED <<owed, chain, cut>> /\ LinksRight
      /\ ln \in [Link -> Client] /\ ln[c] \in Client
    BY <1>a DEF SendQueued, Top, Line_ops, SInv, LinksRight
<1>2. CASE ~Up(c)
    <2>1. Call(<< >>) /\ UNCHANGED ln
        BY <1>2, <1>a, Nothing DEF SendQueued
    <2> QED
        BY <1>a, <1>1, <2>1, Nothing, Softly_Same, Line_Step
<1>3. CASE Up(c)
    <2> DEFINE m == IF (c \in Zip /\ ln[c].zout > 0) /\ ln[c].sq # << >> THEN 1 ELSE 0
               h == [f EXCEPT !.op = "loop", !.n = m]
    <2>1. /\ ln' = [ln EXCEPT ![c] = ZipFlush(ln[c], sent[c])] \/ UNCHANGED ln
          /\ Call(<<h>>)
        BY <1>3, <1>a, <1>1 DEF SendQueued
    <2>2. m \in Nat
        OBVIOUS
    <2> HIDE DEF m
    <2>3. h \in Plain /\ h.op = "loop" /\ h.to = c
        <3>1. f \in Frame
            BY DEF GoodFrame
        <3>2. h \in Frame /\ h.op = "loop" /\ h.to = f.to
            BY <3>1, <2>2 DEF Frame, Ops
        <3> HIDE DEF h
        <3> QED
            BY <3>2, <1>a DEF Plain, Listing
    <2> HIDE DEF h
    <2>4. Softly /\ ln'[c].pop = ln[c].pop
        <3>1. CASE UNCHANGED ln
            BY <3>1, <1>1, Softly_Same
        <3> DEFINE q == ZipFlush(ln[c], sent[c])
        <3>2. Softer(q, ln[c]) /\ q.pop = ln[c].pop
            BY <1>1, Softer_Changes
        <3>3. CASE ln' = [ln EXCEPT ![c] = q]
            <4> HIDE DEF q
            <4> QED
                BY <3>2, <3>3, <1>1, Softly_Link
        <3> QED
            BY <2>1, <3>1, <3>3
    <2>5. <<h>> \in Seq(Plain)
        BY <2>3
    <2> QED
        BY <1>a, <1>1, <2>1, <2>3, <2>4, <2>5, Line_Step
<1> QED
    BY <1>2, <1>3

LEMMA LoopEmpty_List == ASSUME SInv, ListInv, LoopEmpty PROVE ListInv'
<1>a. PICK f \in GoodFrame, c \in Link : f = Head(run) /\ c = f.to
    BY Top_Frame DEF LoopEmpty, Top
<1> DEFINE h == [f EXCEPT !.n = 0, !.i = 0]
<1>1. /\ run # << >> /\ f.op = "loop" /\ f.op \in Line_ops /\ f.op # "msg"
      /\ UNCHANGED <<owed, chain, cut>> /\ LinksRight
      /\ ln \in [Link -> Client] /\ ln[c] \in Client
    BY <1>a DEF LoopEmpty, Top, Line_ops, SInv, LinksRight
<1>2. CASE ~(f.n = 1 /\ Up(c))
    <2>1. Call(<< >>) /\ UNCHANGED ln
        BY <1>2, <1>a, Nothing DEF LoopEmpty
    <2> QED
        BY <1>a, <1>1, <2>1, Nothing, Softly_Same, Line_Step
<1>3. CASE f.n = 1 /\ Up(c)
    <2> DEFINE q == ZipFlush(ln[c], sent[c])
    <2>1. ln' = [ln EXCEPT ![c] = q] /\ Call(<<h>>)
        BY <1>3, <1>a, <1>1 DEF LoopEmpty
    <2>2. Softer(q, ln[c]) /\ q.pop = ln[c].pop
        BY <1>1, Softer_Changes
    <2>3. h \in Plain /\ h.op = "loop" /\ h.to = c
        <3>1. f \in Frame
            BY DEF GoodFrame
        <3>2. h \in Frame /\ h.op = f.op /\ h.to = f.to
            BY <3>1 DEF Frame
        <3> HIDE DEF h
        <3> QED
            BY <3>2, <1>a, <1>1 DEF Plain, Listing
    <2> HIDE DEF h, q
    <2>4. Softly /\ ln'[c].pop = ln[c].pop
        BY <2>1, <2>2, <1>1, Softly_Link
    <2>5. <<h>> \in Seq(Plain)
        BY <2>3
    <2> QED
        BY <1>a, <1>1, <2>1, <2>3, <2>4, <2>5, Line_Step
<1> QED
    BY <1>2, <1>3

LEMMA WriteError_List == ASSUME SInv, ListInv, WriteError PROVE ListInv'
<1>a. PICK f \in GoodFrame, c \in Link : f = Head(run) /\ c = f.to
    BY Top_Frame DEF WriteError, Top
<1> DEFINE q == Dead(ln[c])
           fs == Notices(c)
<1>1. /\ run # << >> /\ f.op = "loop" /\ f.op \in Line_ops /\ f.op # "msg"
      /\ UNCHANGED <<owed, chain, cut>> /\ LinksRight
      /\ ln \in [Link -> Client] /\ ln[c] \in Client
      /\ ln' = [ln EXCEPT ![c] = q] /\ Call(fs)
    BY <1>a DEF WriteError, Top, Line_ops, SInv, LinksRight
<1>2. Softer(q, ln[c])
    BY <1>1, Softer_Changes
<1>3. fs \in Seq(Plain) /\ (c \in Lister => fs = << >>)
    BY Plain_Types, No_Notices
<1> HIDE DEF q, fs
<1>4. Softly
    BY <1>1, <1>2, Softly_Link
<1> QED
    BY <1>a, <1>1, <1>3, <1>4, Line_Step

(* A list that was blocked goes on: none is running, since the one that     *)
(* runs has its client's FLAGS2_SENDQ_POP clear.                            *)
LEMMA Write_List == ASSUME SInv, ListInv, Write PROVE ListInv'
<1>0. run # << >>
    BY DEF Write, Top
<1>a. PICK f \in GoodFrame, c \in Link : f = Head(run) /\ c = f.to
    BY <1>0, Top_Frame
<1>b. PICK r \in f.i .. HeadBlock(ln[c]) :
        LET d == DbufDelete(ln[c], r)
            resume == ln[c].pop /\ d.sq = << >>
        IN  /\ ln' = [ln EXCEPT ![c] = [d EXCEPT !.lastsq = Len(d.sq) \div K,
                                                 !.pop = @ /\ ~resume]]
            /\ Call((IF resume THEN <<F("start", c)>> ELSE << >>)
                    \o (IF r < HeadBlock(ln[c]) THEN << >> ELSE <<[f EXCEPT !.i = 0]>>))
    BY <1>a, Zenon DEF Write
<1> DEFINE d == DbufDelete(ln[c], r)
           resume == ln[c].pop /\ d.sq = << >>
           p == d.pop /\ ~resume
           k == Len(d.sq) \div K
           q == [d EXCEPT !.lastsq = k, !.pop = p]
           h == [f EXCEPT !.i = 0]
           Again == IF r < HeadBlock(ln[c]) THEN << >> ELSE <<h>>
<1>1. /\ run # << >> /\ f.op = "loop" /\ f.op \in Line_ops /\ f.op # "msg"
      /\ UNCHANGED <<owed, chain, cut>> /\ LinksRight
      /\ ln \in [Link -> Client] /\ ln[c] \in Client /\ LinkRight(c, ln[c], sent[c], seen[c])
    BY <1>a DEF Write, Top, Line_ops, SInv, LinksRight
<1>2. /\ ln' = [ln EXCEPT ![c] = q]
      /\ Call((IF resume THEN <<F("start", c)>> ELSE << >>) \o Again)
    BY <1>b
<1>3. Softer(d, ln[c]) /\ d.pop = ln[c].pop
    BY <1>1, Softer_Changes
<1>4. Softer(q, ln[c]) /\ (q.pop <=> ln[c].pop /\ ~resume)
    <2> HIDE DEF k, resume
    <2>1. Softer(q, d) /\ (q.pop <=> p)
        BY <1>1 DEF DbufDelete, Client, Softer
    <2> QED
        BY <1>3, <2>1 DEF Softer
<1>5. h \in Plain /\ h.op = "loop" /\ h.to = c
    <2>1. f \in Frame
        BY DEF GoodFrame
    <2>2. h \in Frame /\ h.op = f.op /\ h.to = f.to
        BY <2>1 DEF Frame
    <2> HIDE DEF h
    <2> QED
        BY <2>2, <1>a, <1>1 DEF Plain, Listing
<1>6. Again = << >> \/ Again = <<h>>
    OBVIOUS
<1>7. Again \in Seq(Plain)
    <2> HIDE DEF h, Again
    <2> QED
        BY <1>5, <1>6, Nothing, One_Plain
<1>8. resume => ln[c].pop
    OBVIOUS
<1> HIDE DEF q, d, k, p, h, Again, resume
<1>9. Softly /\ (ln'[c].pop <=> ln[c].pop /\ ~resume)
    BY <1>1, <1>2, <1>4, Softly_Link
<1>10. CASE ~resume
    <2>1. Call(Again)
        BY <1>2, <1>7, <1>10
    <2> QED
        BY <1>a, <1>1, <1>5, <1>6, <1>7, <1>9, <2>1, Line_Step
<1>11. CASE resume
    <2>1. c \in Lister /\ ln[c].pop
        BY <1>1, <1>8, <1>11 DEF LinkRight
    <2>2. ~(Listed(c))
        BY <2>1, <1>a, <1>1 DEF Listed, AtWork, Writing
    <2>3. Resting
        BY <2>2, <1>a, <1>1, Which_Case
    <2> DEFINE g == F("start", c)
               s == Again \o Tail(run)
    <2>4. run' = <<g>> \o s /\ s \in Seq(Plain)
        <3>1. Tail(run) \in Seq(Plain)
            BY <2>3, <1>1 DEF Resting
        <3>2. run' = (<<g>> \o Again) \o Tail(run)
            BY <1>2, <1>11 DEF Call
        <3> HIDE DEF g
        <3> QED
            BY <3>1, <3>2, <1>7
    <2>5. g.op = "start" /\ g.to = c
        BY DEF F
    <2> HIDE DEF g, s
    <2>6. run' # << >> /\ Head(run') = g /\ Tail(run') = s
        BY <2>4
    <2>7. \A e \in Link : Standing(e)' /\ Paid(e)'
        BY <2>3, <1>9, Softly_Keeps DEF Resting, ListInv
    <2>8. Listed(c)'
        BY <2>1, <2>4, <2>5, <2>6, <2>7, <1>9, <1>11 DEF Listed, AtWork
    <2> QED
        BY <2>1, <2>7, <2>8 DEF ListInv
<1> QED
    BY <1>10, <1>11


(* A step of c's list puts the frame h in its place.                        *)
LEMMA List_On ==
    ASSUME ListInv, NEW c \in Lister, Listed(c), NEW h, NEW s \in Seq(Plain),
           run' = <<h>> \o s, h.to = c, AtWork(c, h)', \A d \in Link \ {c} : Standing(d)',
           \A d \in Link : Paid(d)'
    PROVE  ListInv'
<1>1. run' # << >> /\ Head(run') = h
    OBVIOUS
<1>2. Listed(c)'
    BY <1>1 DEF Listed
<1> QED
    BY <1>2 DEF ListInv

(* A step of c's list returns.                                              *)
LEMMA List_Off ==
    ASSUME \A d \in Link : Paid(d)', \A d \in Link : Standing(d)', run' \in Seq(Plain)
    PROVE  ListInv'
BY DEF ListInv, Resting

LEMMA ListBegin_List == ASSUME SInv, ListInv, ListBegin PROVE ListInv'
<1>a. PICK f \in GoodFrame, c \in Link : f = Head(run) /\ c = f.to
    BY Top_Frame DEF ListBegin, Top
<1>1. /\ run # << >> /\ UNCHANGED chain /\ f.op = "begin" /\ c \in Lister
      /\ LinksRight /\ ln \in [Link -> Client] /\ ln[c] \in Client
      /\ owed \in [Link -> SUBSET Channel] /\ cut \in [Link -> BOOLEAN]
    BY <1>a DEF ListBegin, Top, GoodFrame, SInv, LinksRight, Tables
<1>2. Resting
    BY <1>a, <1>1, At_Rest DEF Listing, Line_ops
<1>3. Tail(run) \in Seq(Plain)
    BY <1>1, <1>2 DEF Resting
<1>4. \A d \in Link : Standing(d) /\ Paid(d)
    BY <1>2 DEF Resting, ListInv
<1>5. CASE f.i = 1 \/ Len(ln[c].sq) < 2 * K
    <2> DEFINE q == [ln[c] EXCEPT !.lopt = TRUE, !.doing = TRUE,
                                  !.pop = FALSE, !.pi = 1, !.pj = 1]
    <2>1. /\ ln' = [ln EXCEPT ![c] = q] /\ owed' = [owed EXCEPT ![c] = AllShown(c)]
          /\ cut' = [cut EXCEPT ![c] = FALSE] /\ Call(<<F("start", c)>>)
        BY <1>5, <1>a, <1>1 DEF ListBegin
    <2>2. q.lopt /\ ~q.pop /\ q.pi = 1 /\ q.pj = 1
        BY <1>1 DEF Client
    <2> HIDE DEF q
    <2>3. /\ ln'[c] = q /\ owed'[c] = AllShown(c)
          /\ \A d \in Link \ {c} : ln'[d] = ln[d] /\ owed'[d] = owed[d] /\ cut'[d] = cut[d]
        BY <1>1, <2>1
    <2>4. ASSUME NEW d \in Link \ {c} PROVE Standing(d)' /\ Paid(d)'
        <3>1. Standing(d) /\ Paid(d)
            BY <1>4
        <3> QED
            BY <3>1, <2>3, <1>1, Same_Keeps
    <2>5. Standing(c)' /\ Paid(c)'
        <3>1. owed'[c] = Left(c, 1, 1)'
            BY <1>1, <2>3 DEF AllShown, Left, Shown
        <3> QED
            BY <3>1, <2>2, <2>3 DEF Standing, Paid, Owes
    <2> DEFINE g == F("start", c)
               s == Tail(run)
    <2>6. run' = <<g>> \o s /\ s \in Seq(Plain)
        BY <1>3, <2>1 DEF Call
    <2>7. g.op = "start" /\ g.to = c
        BY DEF F
    <2> HIDE DEF g, s
    <2>8. run' # << >> /\ Head(run') = g /\ Tail(run') = s
        BY <2>6
    <2>9. Listed(c)'
        BY <2>2, <2>3, <2>4, <2>5, <2>6, <2>7, <2>8 DEF Listed, AtWork
    <2> QED
        BY <1>1, <2>4, <2>5, <2>9 DEF ListInv
<1>6. CASE ~(f.i = 1 \/ Len(ln[c].sq) < 2 * K)
    <2> DEFINE q == [ln[c] EXCEPT !.lopt = TRUE]
    <2>1. ln' = [ln EXCEPT ![c] = q] /\ UNCHANGED <<owed, cut>> /\ Return
        BY <1>6, <1>a, <1>1 DEF ListBegin
    <2>2. /\ q.lopt /\ q.pi = ln[c].pi /\ q.pj = ln[c].pj /\ q.open = ln[c].open
          /\ q.dead = ln[c].dead
        BY <1>1 DEF Client
    <2> HIDE DEF q
    <2>3. ln'[c] = q /\ \A d \in Link \ {c} : ln'[d] = ln[d]
        BY <1>1, <2>1
    <2>4. ASSUME NEW d \in Link \ {c} PROVE Standing(d)' /\ Paid(d)'
        <3>1. Standing(d) /\ Paid(d)
            BY <1>4
        <3> QED
            BY <3>1, <2>1, <2>3, <1>1, Same_Keeps
    <2>5. Standing(c)' /\ Paid(c)'
        <3>1. Standing(c) /\ Paid(c)
            BY <1>4
        <3>2. InHand(c)' => InHand(c)
            BY <2>1, <2>2, <2>3 DEF InHand, Up
        <3>3. ~ln[c].lopt /\ InHand(c)' => owed[c] = {}
            BY <3>1, <3>2 DEF Paid, Owes
        <3>4. CASE InHand(c)'
            BY <3>1, <3>2, <3>3, <3>4, <1>1, <2>1, <2>2, <2>3, Standing_Keeps DEF Paid
        <3>5. CASE ~InHand(c)'
            BY <3>5 DEF Standing, Paid, Owes
        <3> QED
            BY <3>4, <3>5
    <2>6. run' \in Seq(Plain)
        BY <1>3, <2>1 DEF Return
    <2> QED
        BY <2>4, <2>5, <2>6, List_Off
<1> QED
    BY <1>5, <1>6

LEMMA ListInterrupted_List == ASSUME SInv, ListInv, ListInterrupted PROVE ListInv'
<1>a. PICK f \in GoodFrame, c \in Link : f = Head(run) /\ c = f.to
    BY Top_Frame DEF ListInterrupted, Top
<1> DEFINE q == [ln[c] EXCEPT !.pop = FALSE]
<1>1. /\ run # << >> /\ UNCHANGED <<owed, chain, cut>> /\ f.op = "interrupt"
      /\ LinksRight /\ ln \in [Link -> Client] /\ ln[c] \in Client
      /\ ln' = [ln EXCEPT ![c] = q] /\ Call(<< >>)
    BY <1>a, Nothing DEF ListInterrupted, Top, SInv, LinksRight
<1>2. Softer(q, ln[c])
    BY <1>1 DEF Client, Softer
<1> HIDE DEF q
<1>3. Softly
    BY <1>1, <1>2, Softly_Link
<1>4. Resting
    BY <1>a, <1>1, At_Rest DEF Listing, Line_ops
<1> QED
    BY <1>1, <1>3, <1>4, Nothing, Rest_On

LEMMA ListStart_List == ASSUME SInv, ListInv, ListStart PROVE ListInv'
<1>a. PICK f \in GoodFrame, c \in Link : f = Head(run) /\ c = f.to
    BY Top_Frame DEF ListStart, Top
<1>1. /\ run # << >> /\ UNCHANGED <<ln, owed, chain, cut>> /\ f.op = "start"
    BY <1>a DEF ListStart, Top
<1>2. /\ c \in Lister /\ Listed(c) /\ AtWork(c, f) /\ Tail(run) \in Seq(Plain)
    BY <1>a, <1>1, Must_Work DEF Listing
<1>3. ~ln[c].pop /\ Standing(c)
    BY <1>1, <1>2 DEF AtWork
<1>4. Softly
    BY <1>1, Softly_Same
<1>5. \A d \in Link : Paid(d)' /\ (d # c => Standing(d)')
    BY <1>2, <1>4, Others_On, Paid_On
<1>6. CASE ln[c].lopt
    <2> DEFINE i == ln[c].pi
               j == ln[c].pj
    <2>0. PICK h, s : h = List("list", c, i, j) /\ s = Tail(run)
        OBVIOUS
    <2>1. run' = <<h>> \o s /\ s \in Seq(Plain)
        BY <1>2, <1>6, <1>a, <2>0 DEF ListStart, Call
    <2>2. h.op = "list" /\ h.to = c /\ h.i = i /\ h.j = j
        BY <2>0 DEF List, F
    <2>3. Tail(run') = s
        BY <2>1
    <2>4. Owes(c, Left(c, h.i, h.j))
        BY <1>3, <1>6, <2>2 DEF Standing
    <2>5. Owes(c, Left(c, h.i, h.j))'
        BY <2>4, <1>4, Softly_Keeps DEF Owes
    <2>6. AtWork(c, h)'
        BY <1>1, <1>3, <2>1, <2>2, <2>3, <2>5 DEF AtWork
    <2> QED
        BY <1>2, <1>5, <2>1, <2>2, <2>6, List_On
<1>7. CASE ~ln[c].lopt
    <2>1. run' \in Seq(Plain)
        BY <1>2, <1>7, <1>a DEF ListStart, Return
    <2>2. Standing(c)'
        BY <1>3, <1>4, Softly_Keeps
    <2> QED
        BY <1>5, <2>1, <2>2, List_Off
<1> QED
    BY <1>6, <1>7


(* The next channel: what lies behind it is the rest of what is owed.       *)
LEMMA Next_Left ==
    ASSUME Tables, NEW c, NEW i, NEW j, NEW p \in Shown(c, i, j),
           \A q \in Shown(c, i, j) : p[1] < q[1] \/ (p[1] = q[1] /\ p[2] <= q[2])
    PROVE  /\ Left(c, i, j) \subseteq Left(c, p[1], p[2])
           /\ Left(c, i, j) \subseteq {chain[p[1]][p[2]]} \cup Left(c, p[1], p[2] + 1)
<1> SUFFICES ASSUME NEW q \in Shown(c, i, j)
             PROVE  /\ chain[q[1]][q[2]] \in Left(c, p[1], p[2])
                    /\ \/ chain[q[1]][q[2]] = chain[p[1]][p[2]]
                       \/ chain[q[1]][q[2]] \in Left(c, p[1], p[2] + 1)
    BY DEF Left
<1>1. p[1] \in Nat /\ p[2] \in Nat /\ q[1] \in Nat /\ q[2] \in Nat
    BY Shown_Type
<1>2. p[1] < q[1] \/ (p[1] = q[1] /\ p[2] <= q[2])
    OBVIOUS
<1>3. q \in Shown(c, p[1], p[2])
    BY <1>2 DEF Shown
<1>4. CASE p[1] = q[1] /\ p[2] = q[2]
    BY <1>3, <1>4 DEF Left
<1>5. CASE ~(p[1] = q[1] /\ p[2] = q[2])
    <2>1. p[1] < q[1] \/ (p[1] = q[1] /\ p[2] + 1 <= q[2])
        BY <1>1, <1>2, <1>5
    <2>2. q \in Shown(c, p[1], p[2] + 1)
        BY <1>1, <2>1 DEF Shown
    <2> QED
        BY <1>3, <2>2 DEF Left
<1> QED
    BY <1>4, <1>5

Stacked(t, h, g, s) == /\ t # << >> /\ Head(t) = h
                       /\ Tail(t) # << >> /\ Head(Tail(t)) = g /\ Tail(Tail(t)) = s

LEMMA Two_Frames ==
    ASSUME NEW h, NEW g, NEW s \in Seq(Plain), NEW t, t = <<h, g>> \o s
    PROVE  Stacked(t, h, g, s)
<1> DEFINE T == Plain \cup {h, g}
<1>1. h \in T /\ g \in T /\ s \in Seq(T)
    OBVIOUS
<1> HIDE DEF T
<1>2. <<h, g>> \in Seq(T)
    BY <1>1
<1>3. t \in Seq(T) /\ Len(t) = Len(s) + 2 /\ t[1] = h /\ t[2] = g
      /\ \A k \in 1 .. Len(s) : t[k + 2] = s[k]
    BY <1>1, <1>2
<1>4. t # << >> /\ Head(t) = h
    BY <1>1, <1>3
<1> DEFINE u == Tail(t)
<1>5. /\ u \in Seq(T) /\ Len(u) = Len(s) + 1 /\ u[1] = g
      /\ \A k \in 1 .. Len(s) : u[k + 1] = s[k]
    BY <1>1, <1>3, <1>4
<1> HIDE DEF u
<1>6. u # << >> /\ Head(u) = g
    BY <1>1, <1>5
<1>7. Tail(u) = s
    <2> DEFINE v == Tail(u)
    <2>1. /\ v \in Seq(T) /\ Len(v) = Len(s) /\ \A k \in 1 .. Len(s) : v[k] = s[k]
        BY <1>1, <1>5, <1>6
    <2> HIDE DEF v
    <2>2. v = s
        BY ONLY <2>1, <1>1, SeqEqual
    <2> QED
        BY <2>2 DEF v
<1> QED
    BY <1>4, <1>6, <1>7 DEF u, Stacked

LEMMA ListLine_List == ASSUME SInv, ListInv, ListLine PROVE ListInv'
<1>a. PICK f \in GoodFrame, c \in Link : f = Head(run) /\ c = f.to
    BY Top_Frame DEF ListLine, Top
<1>1. /\ run # << >> /\ UNCHANGED <<ln, owed, chain, cut>> /\ f.op = "list" /\ Tables
    BY <1>a DEF ListLine, Top, SInv
<1>2. c \in Lister /\ Listed(c) /\ AtWork(c, f) /\ Tail(run) \in Seq(Plain)
    BY <1>a, <1>1, Must_Work DEF Listing
<1>3. ~ln[c].pop /\ Owes(c, Left(c, f.i, f.j))
    BY <1>1, <1>2 DEF AtWork
<1>4. Softly
    BY <1>1, Softly_Same
<1>5. \A d \in Link : Paid(d)' /\ (d # c => Standing(d)')
    BY <1>2, <1>4, Others_On, Paid_On
<1>6. SUFFICES ASSUME NEW h, NEW g, Call(<<h, g>>), h.op = "msg", h.to = c, g.to = c,
                      Waits(c, h, g)'
               PROVE  ListInv'
    <2>1. CASE Shown(c, f.i, f.j) = {}
        <3>0. PICK h, g : h = Msg(c, 1) /\ g = F("listend", c)
            OBVIOUS
        <3>1. Call(<<h, g>>)
            BY <2>1, <1>a, <3>0 DEF ListLine
        <3>2. h.op = "msg" /\ h.to = c /\ g.op = "listend" /\ g.to = c
            BY <3>0 DEF Msg, F
        <3>3. Owes(c, {})
            BY <2>1, <1>3 DEF Left, Owes
        <3>4. Waits(c, h, g)'
            BY <3>2, <3>3, <1>4, Softly_Keeps DEF Waits
        <3> QED
            BY <3>1, <3>2, <3>4, <1>6
    <2>2. CASE Shown(c, f.i, f.j) # {}
        <3>1. PICK p \in Shown(c, f.i, f.j) :
                 /\ \A q \in Shown(c, f.i, f.j) : p[1] < q[1] \/ (p[1] = q[1] /\ p[2] <= q[2])
                 /\ Call(<<[Msg(c, 1) EXCEPT !.ch = chain[p[1]][p[2]]],
                           List("listchk", c, p[1], p[2])>>)
            BY <2>2, <1>a DEF ListLine
        <3>2. PICK h, g : /\ h = [Msg(c, 1) EXCEPT !.ch = chain[p[1]][p[2]]]
                          /\ g = List("listchk", c, p[1], p[2])
            OBVIOUS
        <3>3. /\ h.op = "msg" /\ h.to = c /\ h.ch = chain[p[1]][p[2]]
              /\ g.op = "listchk" /\ g.to = c /\ g.i = p[1] /\ g.j = p[2]
            BY <3>2 DEF Msg, List, F
        <3>4. Owes(c, Left(c, g.i, g.j)) /\ Owes(c, {h.ch} \cup Left(c, g.i, g.j + 1))
            BY <1>1, <1>3, <3>1, <3>3, Next_Left DEF Owes
        <3>5. Owes(c, Left(c, g.i, g.j))'
            BY <3>4, <1>4, Softly_Keeps DEF Owes
        <3>6. Owes(c, {h.ch} \cup Left(c, g.i, g.j + 1))'
            BY <3>4, <1>4, Softly_Keeps DEF Owes
        <3>7. (IF h.op = "msg" THEN {h.ch} ELSE {}) = {h.ch}
            BY <3>3
        <3>8. Waits(c, h, g)'
            BY <3>3, <3>5, <3>6, <3>7 DEF Waits
        <3>9. Call(<<h, g>>)
            BY <3>1, <3>2
        <3> QED
            BY <3>3, <3>8, <3>9, <1>6
    <2> QED
        BY <2>1, <2>2
<1>0. PICK s : s = Tail(run)
    OBVIOUS
<1>7. run' = <<h, g>> \o s /\ s \in Seq(Plain)
    BY <1>0, <1>2, <1>6 DEF Call
<1>8. /\ run' # << >> /\ Head(run') = h
      /\ Tail(run') # << >> /\ Head(Tail(run')) = g /\ Tail(Tail(run')) = s
    <2>1. Stacked(run', h, g, s)
        BY ONLY <1>7, Two_Frames
    <2> QED
        BY <2>1 DEF Stacked
<1>9. ~ln'[c].pop
    BY <1>1, <1>3
<1>10. Writing(c, h)'
    BY <1>6, <1>7, <1>8, <1>9 DEF Writing
<1>11. Listed(c)'
    BY <1>5, <1>6, <1>8, <1>10 DEF Listed
<1> QED
    BY <1>2, <1>5, <1>11 DEF ListInv

LEMMA ListCheck_List == ASSUME SInv, ListInv, ListCheck PROVE ListInv'
<1>a. PICK f \in GoodFrame, c \in Link : f = Head(run) /\ c = f.to
    BY Top_Frame DEF ListCheck, Top
<1>1. /\ run # << >> /\ UNCHANGED <<owed, chain, cut>> /\ f.op = "listchk"
      /\ ln \in [Link -> Client] /\ ln[c] \in Client
    BY <1>a DEF ListCheck, Top, SInv, LinksRight
<1>2. c \in Lister /\ Listed(c) /\ AtWork(c, f) /\ Tail(run) \in Seq(Plain)
    BY <1>a, <1>1, Must_Work DEF Listing
<1>3. CASE ln[c].pop
    <2> DEFINE q == [ln[c] EXCEPT !.pi = f.i, !.pj = f.j]
    <2>1. ln' = [ln EXCEPT ![c] = q] /\ Return
        BY <1>3, <1>a, <1>1 DEF ListCheck
    <2>2. /\ q.lopt = ln[c].lopt /\ q.pi = f.i /\ q.pj = f.j /\ q.open = ln[c].open
          /\ q.dead = ln[c].dead
        BY <1>1 DEF Client
    <2> HIDE DEF q
    <2>3. ln'[c] = q /\ \A d \in Link \ {c} : ln'[d] = ln[d]
        BY <1>1, <2>1
    <2>4. ASSUME NEW d \in Link \ {c} PROVE Standing(d)' /\ Paid(d)'
        <3>1. Standing(d) /\ Paid(d)
            BY <1>2 DEF ListInv, Listed
        <3> QED
            BY <3>1, <2>3, <1>1, Same_Keeps
    <2>5. InHand(c)' = InHand(c)
        BY <1>1, <2>2, <2>3 DEF InHand, Up
    <2>6. Paid(c)'
        <3>1. Paid(c)
            BY DEF ListInv
        <3> QED
            BY <3>1, <1>1, <2>2, <2>3, <2>5 DEF Paid, Owes
    <2>7. Standing(c)'
        <3> DEFINE A == Left(c, f.i, f.j)
        <3>1. Owes(c, A)
            BY <1>1, <1>2, <1>3 DEF AtWork
        <3>2. A' = A
            BY <1>1 DEF Left, Shown
        <3>3. Left(c, ln[c].pi, ln[c].pj)' = A'
            BY <2>2, <2>3
        <3> HIDE DEF A
        <3> QED
            BY <1>1, <2>5, <3>1, <3>2, <3>3 DEF Standing, Owes
    <2>8. run' \in Seq(Plain)
        BY <1>2, <2>1 DEF Return
    <2> QED
        BY <2>4, <2>6, <2>7, <2>8, List_Off
<1>4. CASE ~ln[c].pop
    <2>0. PICK h, s : h = List("list", c, f.i, f.j + 1) /\ s = Tail(run)
        OBVIOUS
    <2>1. run' = <<h>> \o s /\ s \in Seq(Plain) /\ UNCHANGED ln
        BY <1>2, <1>4, <1>a, <2>0 DEF ListCheck, Call
    <2>2. h.op = "list" /\ h.to = c /\ h.i = f.i /\ h.j = f.j + 1
        BY <2>0 DEF List, F
    <2>3. Softly
        BY <1>1, <2>1, Softly_Same
    <2>4. \A d \in Link : Paid(d)' /\ (d # c => Standing(d)')
        BY <1>2, <2>3, Others_On, Paid_On
    <2>5. Owes(c, Left(c, h.i, h.j))
        BY <1>1, <1>2, <1>4, <2>2 DEF AtWork
    <2>6. Owes(c, Left(c, h.i, h.j))'
        BY <2>5, <2>3, Softly_Keeps DEF Owes
    <2>7. Tail(run') = s
        BY <2>1
    <2>8. AtWork(c, h)'
        BY <1>4, <2>1, <2>2, <2>6, <2>7 DEF AtWork
    <2> QED
        BY <1>2, <2>1, <2>2, <2>4, <2>8, List_On
<1> QED
    BY <1>3, <1>4

LEMMA ListEnd_List == ASSUME SInv, ListInv, ListEnd PROVE ListInv'
<1>a. PICK f \in GoodFrame, c \in Link : f = Head(run) /\ c = f.to
    BY Top_Frame DEF ListEnd, Top
<1> DEFINE q == IF ln[c].pop THEN [ln[c] EXCEPT !.pi = NB + 1]
                ELSE [ln[c] EXCEPT !.doing = FALSE, !.lopt = FALSE]
<1>1. /\ run # << >> /\ UNCHANGED <<owed, chain, cut>> /\ f.op = "listend"
      /\ ln \in [Link -> Client] /\ ln[c] \in Client /\ Return
      /\ ln' = [ln EXCEPT ![c] = q]
    BY <1>a DEF ListEnd, Top, SInv, LinksRight
<1>2. c \in Lister /\ Listed(c) /\ AtWork(c, f) /\ Tail(run) \in Seq(Plain)
    BY <1>a, <1>1, Must_Work DEF Listing
<1>3. q.open = ln[c].open /\ q.dead = ln[c].dead
    BY <1>1 DEF Client
<1> HIDE DEF q
<1>4. ln'[c] = q /\ \A d \in Link \ {c} : ln'[d] = ln[d]
    BY <1>1
<1>5. ASSUME NEW d \in Link \ {c} PROVE Standing(d)' /\ Paid(d)'
    <2>1. Standing(d) /\ Paid(d)
        BY <1>2 DEF ListInv, Listed
    <2> QED
        BY <2>1, <1>1, <1>4, Same_Keeps
<1>6. InHand(c)' => owed'[c] = {}
    <2>1. Owes(c, {})
        BY <1>1, <1>2 DEF AtWork
    <2>2. InHand(c)' => InHand(c)
        BY <1>1, <1>3, <1>4 DEF InHand, Up
    <2> QED
        BY <2>1, <2>2, <1>1 DEF Owes
<1>7. Standing(c)' /\ Paid(c)'
    BY <1>6 DEF Standing, Paid, Owes
<1>8. run' \in Seq(Plain)
    BY <1>1, <1>2 DEF Return
<1> QED
    BY <1>5, <1>7, <1>8, List_Off


(* The rest of the calls, and what the main loop starts, is soft.           *)
LEMMA Reap_List == ASSUME SInv, ListInv, Reap PROVE ListInv'
<1>a. PICK f \in GoodFrame, c \in Link : f = Head(run) /\ c = f.to
    BY Top_Frame DEF Reap, Top
<1>1. /\ run # << >> /\ f.op = "reap" /\ Softly
      /\ Call(ExitFrames(c)) \/ Call(<< >>)
    BY <1>a, Nothing, Softly_Same DEF Reap, Top
<1>2. Resting
    BY <1>a, <1>1, At_Rest DEF Listing, Line_ops
<1> QED
    BY <1>1, <1>2, Nothing, Plain_Types, Rest_On

LEMMA Close_List == ASSUME SInv, ListInv, Close PROVE ListInv'
<1>a. PICK f \in GoodFrame, c \in Link : f = Head(run) /\ c = f.to
    BY Top_Frame DEF Close, Top
<1> DEFINE a == IF ln[c].sq # << >> THEN <<F("sendq", c)>> ELSE << >>
           b == <<F("shut", c)>>
<1>1. run # << >> /\ f.op = "close" /\ Softly /\ Call(a \o b)
    BY <1>a, Softly_Same DEF Close, Top
<1>2. Resting
    BY <1>a, <1>1, At_Rest DEF Listing, Line_ops
<1>3. a \o b \in Seq(Plain)
    <2>1. F("sendq", c) \in Plain /\ F("shut", c) \in Plain
        BY Plain_Types DEF Ops, Listing
    <2>2. a \in Seq(Plain) /\ b \in Seq(Plain)
        BY <2>1
    <2> HIDE DEF a, b
    <2> QED
        BY <2>2
<1> HIDE DEF a, b
<1> QED
    BY <1>1, <1>2, <1>3, Rest_On

LEMMA Shut_List == ASSUME SInv, ListInv, Shut PROVE ListInv'
<1>a. PICK f \in GoodFrame, c \in Link : f = Head(run) /\ c = f.to
    BY Top_Frame DEF Shut, Top
<1> DEFINE q == [ln[c] EXCEPT !.open = FALSE, !.sq = << >>, !.off = 0, !.zout = 0]
<1>1. /\ run # << >> /\ f.op = "shut" /\ ln' = [ln EXCEPT ![c] = q] /\ Call(<< >>)
      /\ UNCHANGED <<owed, chain, cut>> /\ LinksRight /\ ln[c] \in Client
    BY <1>a, Nothing DEF Shut, Top, SInv, LinksRight
<1>2. Softer(q, ln[c])
    BY <1>1 DEF Client, Softer
<1> HIDE DEF q
<1>3. Softly
    BY <1>1, <1>2, Softly_Link
<1>4. Resting
    BY <1>a, <1>1, At_Rest DEF Listing, Line_ops
<1> QED
    BY <1>1, <1>3, <1>4, Nothing, Rest_On

LEMMA Step_List == ASSUME SInv, ListInv, Step PROVE ListInv'
BY MsgIgnored_List, MsgOverLimit_List, MsgQueued_List, SendQueued_List, LoopEmpty_List,
   WriteError_List, Write_List, ListBegin_List, ListInterrupted_List, ListStart_List,
   ListLine_List, ListCheck_List, ListEnd_List, Reap_List, Close_List, Shut_List DEF Step

LEMMA Begin_List ==
    ASSUME ListInv, Softly, NEW fs \in Seq(Plain), run' = fs, Idle
    PROVE  ListInv'
<1>1. Resting
    BY DEF ListInv, Listed, Idle
<1>2. ASSUME NEW c \in Link PROVE Standing(c)' /\ Paid(c)'
    BY <1>1, Softly_Keeps DEF ListInv, Resting
<1> QED
    BY <1>2, List_Off

LEMMA Relay_List ==
    ASSUME SInv, ListInv, NEW r \in Traffic, Relay(r.src, r.to, r.n, r.burst)
    PROVE  ListInv'
<1>1. r.src \in Link /\ r.n \in 1 .. MaxLine /\ r.burst \in Nat
    <2>1. r \in [src : Link, to : SUBSET Link, n : 1 .. MaxLine, burst : {0, 1}]
        BY SendQAssumption
    <2> QED
        BY <2>1
<1> DEFINE m == [Msg(r.src, r.n) EXCEPT !.i = r.burst]
           s == Each(r.to, m)
           t == <<F("reap", r.src)>>
<1>2. run' = s \o t /\ Idle /\ Softly
    BY Softly_Same DEF Relay, Begin
<1>3. s \in Seq(Plain)
    <2>1. \A d \in Link : [m EXCEPT !.to = d] \in Plain
        <3> TAKE d \in Link
        <3>1. Msg(r.src, r.n) \in Plain
            BY <1>1, Plain_Types
        <3>2. m \in Frame /\ m.op = Msg(r.src, r.n).op
            BY <1>1, <3>1 DEF Plain, Frame, Msg, F
        <3>3. m.op \notin Listing
            BY <3>1, <3>2 DEF Plain
        <3> HIDE DEF m
        <3>4. [m EXCEPT !.to = d] \in Frame /\ [m EXCEPT !.to = d].op = m.op
            BY <3>2 DEF Frame
        <3> QED
            BY <3>3, <3>4 DEF Plain
    <2> HIDE DEF m
    <2> QED
        BY <2>1, Each_Type
<1>4. t \in Seq(Plain)
    BY <1>1, Plain_Types DEF Ops, Listing
<1> HIDE DEF s, t
<1>5. s \o t \in Seq(Plain)
    BY <1>3, <1>4
<1> QED
    BY <1>2, <1>5, Begin_List

(* LIST gives up the list there is, and owes no more of it.                 *)
LEMMA ListCommand_List ==
    ASSUME SInv, ListInv, NEW c \in Lister, NEW masked \in {0, 1}, ListCommand(c, masked)
    PROVE  ListInv'
<1>1. /\ c \in Link /\ LinksRight /\ ln \in [Link -> Client] /\ ln[c] \in Client
      /\ owed \in [Link -> SUBSET Channel] /\ UNCHANGED <<chain, cut>>
    BY SendQAssumption DEF SInv, LinksRight, Tables, ListCommand
<1>2. Resting /\ \A d \in Link : Standing(d) /\ Paid(d)
    BY DEF ListCommand, Begin, Idle, ListInv, Listed, Resting
<1>3. Msg(c, 1) \in Plain /\ F("interrupt", c) \in Plain /\ F("reap", c) \in Plain
    BY <1>1, Plain_Types DEF Ops, Listing
<1>4. CASE ln[c].lopt
    <2> DEFINE q == [ln[c] EXCEPT !.lopt = FALSE]
    <2>1. /\ ln' = [ln EXCEPT ![c] = q] /\ owed' = [owed EXCEPT ![c] = {}]
          /\ run' = <<Msg(c, 1), F("interrupt", c), F("reap", c)>>
        BY <1>1, <1>4 DEF ListCommand, Begin
    <2>2. ~q.lopt
        BY <1>1 DEF Client
    <2> HIDE DEF q
    <2>3. ln'[c] = q /\ owed'[c] = {} /\ \A d \in Link \ {c} : ln'[d] = ln[d] /\ owed'[d] = owed[d]
        BY <1>1, <2>1
    <2>4. ASSUME NEW d \in Link \ {c} PROVE Standing(d)' /\ Paid(d)'
        BY <1>1, <1>2, <2>3, Same_Keeps
    <2>5. Standing(c)' /\ Paid(c)'
        BY <2>2, <2>3 DEF Standing, Paid, Owes
    <2>6. run' \in Seq(Plain)
        BY <1>3, <2>1
    <2> QED
        BY <2>4, <2>5, <2>6, List_Off
<1>5. CASE ~ln[c].lopt
    <2> DEFINE g == [F("begin", c) EXCEPT !.i = masked]
    <2>1. run' = <<Msg(c, 1), g, F("reap", c)>> /\ UNCHANGED <<ln, owed>> /\ Idle
        BY <1>5 DEF ListCommand, Begin
    <2>2. g \in Plain
        <3>1. g = [op |-> "begin", to |-> c, n |-> 0, i |-> masked, j |-> 0, ch |-> NoChannel]
            BY DEF F
        <3> QED
            BY <1>1, <3>1 DEF Plain, Frame, Ops, Listing
    <2> HIDE DEF g
    <2>3. <<Msg(c, 1), g, F("reap", c)>> \in Seq(Plain)
        BY <1>3, <2>2
    <2> QED
        BY <1>1, <2>1, <2>3, Softly_Same, Begin_List
<1> QED
    BY <1>4, <1>5

LEMMA Service_List ==
    ASSUME SInv, ListInv, NEW c \in Link, WriteReady(c) \/ Leave(c) \/ CheckPings(c)
    PROVE  ListInv'
<1>1. Softly
    BY Softly_Same DEF WriteReady, Leave, CheckPings
<1>2. CASE WriteReady(c)
    <2> DEFINE g == [F("sendq", c) EXCEPT !.i = 1]
    <2>1. run' = <<g, F("reap", c)>> /\ Idle
        BY <1>2 DEF WriteReady, Begin
    <2>2. g \in Plain
        <3>1. g = [op |-> "sendq", to |-> c, n |-> 0, i |-> 1, j |-> 0, ch |-> NoChannel]
            BY DEF F
        <3> QED
            BY <3>1 DEF Plain, Frame, Ops, Listing
    <2>3. F("reap", c) \in Plain
        BY Plain_Types DEF Ops, Listing
    <2> HIDE DEF g
    <2>4. <<g, F("reap", c)>> \in Seq(Plain)
        BY <2>2, <2>3
    <2> QED
        BY <1>1, <2>1, <2>4, Begin_List
<1>3. CASE Leave(c) \/ CheckPings(c)
    <2>1. run' = ExitFrames(c) /\ Idle
        BY <1>3 DEF Leave, CheckPings, Begin
    <2> QED
        BY <1>1, <2>1, Plain_Types, Begin_List
<1> QED
    BY <1>2, <1>3

LEMMA FlushAll_List == ASSUME SInv, ListInv, FlushAll PROVE ListInv'
<1>1. PICK c \in Link : /\ run' = Each({d \in Link : ln[d].sq # << >>}, F("sendq", c))
                        /\ Idle
    BY DEF FlushAll, Begin
<1>2. Softly
    BY Softly_Same DEF FlushAll
<1>3. \A S : Each(S, F("sendq", c)) \in Seq(Plain)
    BY Plain_Types
<1> QED
    BY <1>1, <1>2, <1>3, Begin_List

(* A channel comes to the front of its chain, and those behind it move by   *)
(* one place: what a list still has to show stays behind its place.  When   *)
(* one goes, they move the other way.                                       *)
LEMMA CreateChannel_List ==
    ASSUME SInv, ListInv, NEW ch \in Channel, CreateChannel(ch)
    PROVE  ListInv'
<1>1. /\ chain \in [Bucket -> Seq(Channel)] /\ Hash[ch] \in Bucket
      /\ chain' = [chain EXCEPT ![Hash[ch]] = <<ch>> \o chain[Hash[ch]]]
      /\ UNCHANGED <<ln, run, owed, cut>> /\ Idle
    BY SendQAssumption DEF CreateChannel, SInv, Tables, Bucket
<1>2. run' \in Seq(Plain) /\ \A c \in Link : Standing(c) /\ Paid(c)
    BY <1>1 DEF Idle, ListInv, Listed, Resting
<1>3. ASSUME NEW c \in Link, NEW i, NEW j \in Nat, NEW p \in Shown(c, i, j)
      PROVE  chain[p[1]][p[2]] \in Left(c, i, j)'
    <2> DEFINE b == p[1]
               k == p[2]
               m == IF b = Hash[ch] THEN k + 1 ELSE k
               q == <<b, m>>
    <2>1. /\ b \in Bucket /\ k \in 1 .. Len(chain[b]) /\ (b > i \/ (b = i /\ k >= j))
          /\ <<c, chain[b][k]>> \notin Hidden
        BY DEF Shown
    <2>2. m \in 1 .. Len(chain'[b]) /\ chain'[b][m] = chain[b][k]
        <3>1. CASE b = Hash[ch]
            <4> DEFINE s == chain[b]
                       t == <<ch>> \o s
            <4>1. s \in Seq(Channel) /\ chain'[b] = t
                BY <1>1, <2>1, <3>1
            <4>2. t \in Seq(Channel) /\ Len(t) = Len(s) + 1 /\ \A l \in 1 .. Len(s) : t[l + 1] = s[l]
                BY <4>1
            <4> HIDE DEF s, t
            <4> QED
                BY <2>1, <3>1, <4>1, <4>2 DEF s
        <3>2. CASE b # Hash[ch]
            BY <1>1, <2>1, <3>2
        <3> QED
            BY <3>1, <3>2
    <2>3. b > i \/ (b = i /\ m >= j)
        BY <2>1
    <2>4. q[1] = b /\ q[2] = m
        OBVIOUS
    <2> HIDE DEF m
    <2>5. q \in Shown(c, i, j)'
        BY <2>1, <2>2, <2>3 DEF Shown
    <2> HIDE DEF q
    <2> QED
        BY <2>2, <2>4, <2>5 DEF Left
<1>4. ASSUME NEW c \in Link PROVE Standing(c)' /\ Paid(c)'
    <2>1. InHand(c)' = InHand(c) /\ Paid(c)'
        BY <1>1, <1>2 DEF InHand, Up, Paid, Owes
    <2>2. PICK i, j : i = ln[c].pi /\ j = ln[c].pj
        OBVIOUS
    <2>3. j \in Nat
        BY <2>2 DEF SInv, LinksRight, Client
    <2>4. Left(c, i, j) \subseteq Left(c, i, j)'
        BY <1>3, <2>3 DEF Left
    <2>5. Left(c, ln[c].pi, ln[c].pj) = Left(c, i, j) /\ Left(c, ln[c].pi, ln[c].pj)' = Left(c, i, j)'
        BY <1>1, <2>2
    <2> QED
        BY <1>1, <1>2, <2>1, <2>4, <2>5 DEF Standing, Owes
<1> QED
    BY <1>2, <1>4, List_Off

LEMMA DestroyChannel_List ==
    ASSUME SInv, ListInv, NEW ch \in Channel, DestroyChannel(ch)
    PROVE  ListInv'
<1>1. \A c \in Link : ~InHand(c)'
    BY DEF DestroyChannel, InHand
<1>2. run' \in Seq(Plain)
    BY DEF DestroyChannel, Idle
<1> QED
    BY <1>1, <1>2, List_Off DEF Standing, Paid, Owes

LEMMA Next_List == ASSUME SInv, ListInv, [Next]_vars PROVE ListInv'
<1>1. CASE Step
    BY <1>1, Step_List
<1>2. CASE MainLoop
    BY <1>2, Relay_List, ListCommand_List, Service_List, FlushAll_List, CreateChannel_List,
       DestroyChannel_List DEF MainLoop
<1>3. CASE UNCHANGED vars
    <2>1. /\ Softly /\ UNCHANGED <<ln, run, owed, chain, cut>>
          /\ Head(run)' = Head(run) /\ Tail(run)' = Tail(run)
        BY <1>3, Softly_Same DEF vars
    <2>2. ASSUME NEW c \in Link
          PROVE  (Standing(c) => Standing(c)') /\ (Paid(c) => Paid(c)')
        BY <2>1, Softly_Keeps
    <2>3. ASSUME NEW c, NEW A PROVE Owes(c, A)' = Owes(c, A)
        BY <2>1 DEF Owes, InHand, Up
    <2>4. ASSUME NEW c, NEW i, NEW j PROVE Left(c, i, j)' = Left(c, i, j)
        BY <2>1 DEF Left, Shown
    <2>5. ASSUME NEW c, NEW i, NEW j
          PROVE  Owes(c, Left(c, i, j))' = Owes(c, Left(c, i, j))
        BY <2>1, <2>4 DEF Owes, InHand, Up
    <2>6. ASSUME NEW c, NEW f, NEW g, Waits(c, f, g) PROVE Waits(c, f, g)'
        <3> DEFINE B == IF f.op = "msg" THEN {f.ch} ELSE {}
        <3>1. Owes(c, B \cup Left(c, g.i, g.j + 1))' = Owes(c, B \cup Left(c, g.i, g.j + 1))
            BY <2>1, <2>4 DEF Owes, InHand, Up
        <3> QED
            BY <2>3, <2>5, <2>6, <3>1 DEF Waits
    <2>7. ASSUME NEW c \in Link, Listed(c) PROVE Listed(c)'
        <3>1. PICK f : f = Head(run)
            OBVIOUS
        <3>2. ASSUME AtWork(c, f) PROVE AtWork(c, f)'
            BY <2>1, <2>2, <2>3, <2>5, <3>2 DEF AtWork
        <3>3. ASSUME Writing(c, f) PROVE Writing(c, f)'
            <4>1. PICK g : g = Head(Tail(run))
                OBVIOUS
            <4>2. Waits(c, f, g)'
                BY <2>6, <3>3, <4>1 DEF Writing
            <4>3. Tail(Tail(run))' = Tail(Tail(run)) /\ Head(Tail(run))' = g
                BY <2>1, <4>1
            <4> QED
                BY <2>1, <3>3, <4>1, <4>2, <4>3 DEF Writing
        <3> QED
            BY <2>1, <2>2, <2>7, <3>1, <3>2, <3>3 DEF Listed
    <2> QED
        BY <2>1, <2>2, <2>7, SendQAssumption DEF ListInv, Resting
<1> QED
    BY <1>1, <1>2, <1>3 DEF Next

LEMMA Init_List == ASSUME Init PROVE ListInv
<1>1. \A c \in Link : ~ln[c].lopt /\ owed[c] = {}
    BY DEF Init, New
<1>2. run \in Seq(Plain)
    BY DEF Init
<1> QED
    BY <1>1, <1>2 DEF ListInv, Resting, Standing, Paid, Owes

(* A LIST that ran to its end has shown every channel that was there all    *)
(* the time, unless one was destroyed meanwhile, however often the queue of *)
(* the client stopped it (m_list, send_list, send_queued): where it goes on *)
(* is never behind a channel that it still owes.                            *)
THEOREM SendQ_ListComplete == Spec => []ListComplete
<1>1. Init => SInv /\ ListInv
    BY Init_Right, Init_List
<1>2. SInv /\ ListInv /\ [Next]_vars => SInv' /\ ListInv'
    BY Next_Right, Next_List DEF StepRight
<1>3. ListInv => ListComplete
    BY SendQAssumption DEF ListInv, Paid, Owes, InHand, ListComplete
<1> QED
    BY <1>1, <1>2, <1>3, PTL DEF Spec

===============================================================================
