------------------------------ MODULE MCChanTS ------------------------------
(***************************************************************************)
(* Small networks for ChanTS.  A pair or a line of three servers; what the *)
(* servers' channels may look like before they meet is one of the Start    *)
(* sets below.  All of them are states a single server reaches by local    *)
(* JOIN, MODE and PART commands.                                           *)
(***************************************************************************)
EXTENDS ChanTS, TLC

(* Servers 1 and 2, or the line 1 - 2 - 3. *)
PairVia == [s \in {1, 2} |-> [t \in {1, 2} |-> t]]
LineVia == [s \in 1..3 |-> [t \in 1..3 |->
              CASE s = t -> t [] s = 2 -> t [] OTHER -> 2]]

PairHome == [u \in User |-> IF u \in {"u1", "v1"} THEN 1 ELSE 2]
LineHome == ("u1" :> 1) @@ ("u2" :> 2) @@ ("u3" :> 3)

Mode1(flags, limit, key, flood) ==
  [flags |-> flags, limit |-> limit, key |-> key, flood |-> flood]

(* Channels with given timestamps, member flags and modes; some member.    *)
Channels(tss, flagsets, modes) ==
  UNION { { [on |-> TRUE, ts |-> t, mem |-> m, fl |-> f, mode |-> md] :
            t \in tss, md \in modes,
            f \in {g \in [User -> flagsets \cup {{}}] :
                     \A u \in User \ m : g[u] = {}} } :
          m \in {x \in SUBSET User : x # {} /\ \E s \in Server : \A u \in x : Home[u] = s} }

(* Channels with ops and a real timestamp, as m_join creates them.         *)
StartOpped ==
  {NoChan} \cup {c \in Channels(1..MaxTS, {{"o"}, {"v"}}, {NoMode, Mode1({"m"}, 1, 0, 0)}) :
                   haveops(c)}

(* Opped channels of every age without modes.                              *)
StartBare == {NoChan} \cup {c \in Channels(1..MaxTS, {{"o"}}, {NoMode}) : haveops(c)}

(* One channel, open on every server when the network is put together.     *)
StartOpen == Channels({1}, {{"o"}}, {NoMode}) \cap StartBare
=============================================================================
