-------------------------------- MODULE IpTree --------------------------------
(***************************************************************************)
(* The ip_subtree of dline_conf.c: a binary search tree of address ranges,  *)
(* each with the list of its conf items.  A range is [ip, len]: the Width   *)
(* bit addresses whose first len bits are those of ip; the code's masks     *)
(* compare like their lengths.                                              *)
(***************************************************************************)
EXTENDS Integers, Sequences

CONSTANT Width

ASSUME IpTreeAssumption == Width \in Nat

Size(len) == 2 ^ (Width - len)
Masked(ip, len) == ip - (ip % Size(len))
Covers(r, ip) == Masked(ip, r.len) = r.ip
Within(r, ip, len) == r.len >= len /\ Masked(r.ip, len) = ip

NULL == << >>
new_ip_subtree(ip, len, conf) ==
    [ip |-> Masked(ip, len), len |-> len, conf |-> conf, left |-> NULL, right |-> NULL]

RECURSIVE Nodes(_)
Nodes(t) == IF t = NULL THEN {}
            ELSE {[ip |-> t.ip, len |-> t.len, conf |-> t.conf]}
                 \cup Nodes(t.left) \cup Nodes(t.right)

RECURSIVE insert_ip_subtree(_, _)
insert_ip_subtree(head, node) ==
    IF head = NULL THEN node
    ELSE IF head.ip > node.ip
    THEN [head EXCEPT !.left = insert_ip_subtree(@, node)]
    ELSE [head EXCEPT !.right = insert_ip_subtree(@, node)]

RECURSIVE find_ip_subtree(_, _)
find_ip_subtree(cur, ip) ==
    IF cur = NULL \/ Covers(cur, ip) THEN cur
    ELSE find_ip_subtree(IF cur.ip > Masked(ip, cur.len) THEN cur.left ELSE cur.right, ip)

(* Change the conf list of the node that find_ip_subtree returns.           *)
RECURSIVE WithConf(_, _, _)
WithConf(t, ip, conf) ==
    IF Covers(t, ip) THEN [t EXCEPT !.conf = conf]
    ELSE IF t.ip > Masked(ip, t.len)
    THEN [t EXCEPT !.left = WithConf(@, ip, conf)]
    ELSE [t EXCEPT !.right = WithConf(@, ip, conf)]

-----------------------------------------------------------------------------
(* delete_ip_subtree: the possible [t, clist].  A covered node with two     *)
(* children is replaced by its in-order predecessor or successor, as rand() *)
(* has it; the code hangs only the other child below the replacement, so    *)
(* what was between the node and the replacement leaves the tree.           *)
RECURSIVE Rightmost(_), Leftmost(_)
Rightmost(t) == IF t.right = NULL THEN t ELSE Rightmost(t.right)
Leftmost(t) == IF t.left = NULL THEN t ELSE Leftmost(t.left)

Replacements(h) ==
    CASE h.left = NULL -> {h.right}
      [] h.right = NULL -> {h.left}
      [] OTHER -> {[Rightmost(h.left) EXCEPT !.right = h.right],
                   [Leftmost(h.right) EXCEPT !.left = h.left]}

Removed(h, ip, len, clist) ==
    IF Within(h, ip, len)
    THEN {[t |-> t, clist |-> h.conf \o clist] : t \in Replacements(h)}
    ELSE {[t |-> h, clist |-> clist]}

RECURSIVE delete_ip_subtree(_, _, _, _)
delete_ip_subtree(head, ip, len, clist) ==
    IF head = NULL THEN {[t |-> NULL, clist |-> clist]}
    ELSE UNION {UNION {Removed([head EXCEPT !.left = a.t, !.right = b.t],
                               Masked(ip, len), len, b.clist)
                       : b \in delete_ip_subtree(head.right, ip, len, a.clist)}
                : a \in delete_ip_subtree(head.left, ip, len, clist)}
===============================================================================
