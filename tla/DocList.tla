------------------------------ MODULE DocList ------------------------------
(***************************************************************************)
(* The list CRDT (crates/lib/src/crdt/doc/list.rs): elements are kept under *)
(* rational positions, ties are broken by a random identifier, and a        *)
(* removed element leaves a tombstone at its position.  Two copies of one   *)
(* list are edited by index and merged.  The numbers stay far below 64      *)
(* bits at the list lengths used here.                                      *)
(***************************************************************************)
EXTENDS Integers, FiniteSets

CONSTANTS
    Copies,   \* the copies of the list
    MaxItems  \* bound on the positions ever created

VARIABLES
    items,  \* items[c]: the positions of copy c with their values
    used,   \* the identifiers drawn so far; random, hence in any order
    asked   \* the last insertion by index: [copy, index, item, plain]

vars == <<items, used, asked>>

(* The value of a position: the number of the insertion, or a tombstone. *)
Deleted == 0
Uid == 1..MaxItems
NoInsert == [copy |-> "none", index |-> 0, uid |-> 0, plain |-> FALSE]

RECURSIVE Gcd(_, _)
Gcd(a, b) == IF b = 0 THEN a ELSE Gcd(b, a % b)

Abs(n) == IF n < 0 THEN -n ELSE n

(* Rust's division rounds towards zero. *)
Quot(n, d) == IF n < 0 THEN -((-n) \div d) ELSE n \div d

(* Position::new reduces the fraction. *)
New(num, den) ==
    LET g == Gcd(Abs(num), den)
    IN  [num |-> Quot(num, g), den |-> den \div g]

Beginning == New(0, 1)

(* A faulty variant of Between: the precision is never increased. *)
BetweenTruncated(l, r) ==
    New(Quot(l.num * r.den + r.num * l.den, 2), l.den * r.den)

Between(l, r) ==
    LET left == l.num * r.den
        right == r.num * l.den
        den == l.den * r.den
        mid == Quot(left + right, 2)
    IN  IF mid \in {left, right} THEN New(left + right, den * 2)
        ELSE New(mid, den)

(* Ord for Position. *)
Before(p, q) ==
    \/ p.num * q.den < q.num * p.den
    \/ p.num * q.den = q.num * p.den /\ p.uid < q.uid

Visible(c) == {p \in items[c] : p.value # Deleted}
Length(c) == Cardinality(Visible(c))

(* The n-th element (from 0) of a set of positions in their order. *)
Nth(S, n) == CHOOSE p \in S : Cardinality({q \in S : Before(q, p)}) = n
First(S) == Nth(S, 0)
Last(S) == Nth(S, Cardinality(S) - 1)
IndexOf(c, p) == Cardinality({q \in Visible(c) : Before(q, p)})

Item(at, uid) == [num |-> at.num, den |-> at.den, uid |-> uid, value |-> uid]

(***************************************************************************)
(* Operations                                                              *)
(***************************************************************************)

Init ==
    /\ items = [c \in Copies |-> {}]
    /\ used = {}
    /\ asked = NoInsert

PushPosition(c) ==
    IF items[c] = {} THEN Beginning ELSE New(Last(items[c]).num + 1, 1)

Push(c) ==
    \E uid \in Uid \ used :
        /\ items' = [items EXCEPT ![c] = @ \cup {Item(PushPosition(c), uid)}]
        /\ used' = used \cup {uid}
        /\ asked' = NoInsert

(* insert: the two ends count every position, tombstones included, and so   *)
(* do the neighbours in the middle; the index was checked against the       *)
(* visible elements.                                                        *)
InsertPosition(c, index) ==
    LET all == items[c]
    IN  CASE all = {} -> Beginning
          [] all # {} /\ index = 0 -> New(First(all).num - 1, First(all).den)
          [] all # {} /\ index # 0 /\ index = Length(c) ->
                 New(Last(all).num + 1, Last(all).den)
          [] OTHER -> Between(Nth(all, index - 1), Nth(all, index))

(* No tombstone, and no two positions at the same number. *)
Plain(c) ==
    /\ Visible(c) = items[c]
    /\ \A p, q \in items[c] : p.num = q.num /\ p.den = q.den => p = q

Insert(c, index) ==
    /\ index <= Length(c)
    /\ \E uid \in Uid \ used :
        /\ items' = [items EXCEPT ![c] = @ \cup {Item(InsertPosition(c, index), uid)}]
        /\ used' = used \cup {uid}
        /\ asked' = [copy |-> c, index |-> index, uid |-> uid,
                     plain |-> Plain(c)]

(* remove finds the element among the visible ones; set does the same. *)
Remove(c, index) ==
    /\ index < Length(c)
    /\ LET p == Nth(Visible(c), index)
       IN  items' = [items EXCEPT ![c] = (@ \ {p}) \cup {[p EXCEPT !.value = Deleted]}]
    /\ asked' = NoInsert
    /\ UNCHANGED used

(* A faulty variant of MergedItems: an own position is kept as it is. *)
MergedKeepingOwn(own, other) ==
    own \cup {q \in other : \A p \in own : p.uid # q.uid}

(* merge: at a shared position the other value wins, over a tombstone and   *)
(* as a tombstone (Value::merge).                                           *)
MergedItems(own, other) ==
    {p \in own : \A q \in other : q.uid # p.uid} \cup other

MergeFrom(c, d) ==
    /\ items' = [items EXCEPT ![c] = MergedItems(items[c], items[d])]
    /\ asked' = NoInsert
    /\ UNCHANGED used

Next ==
    \E c \in Copies :
        \/ Push(c)
        \/ \E index \in 0..MaxItems : Insert(c, index) \/ Remove(c, index)
        \/ \E d \in Copies \ {c} : MergeFrom(c, d)

Spec == Init /\ [][Next]_vars

(***************************************************************************)
(* Properties                                                              *)
(***************************************************************************)

InsertedItem == CHOOSE p \in items[asked.copy] : p.uid = asked.uid

(* Into a list without tombstones and without concurrent insertions at one  *)
(* place, insert puts the new element at the index it was given, after any  *)
(* sequence of pushes, insertions and merges: the rational positions never  *)
(* run into each other.                                                     *)
PlainInsertLands ==
    asked # NoInsert /\ asked.plain
        => IndexOf(asked.copy, InsertedItem) = asked.index

(* Two copies that merge each other agree afterwards, whatever either one   *)
(* inserted or removed since they last did: the one that merges second      *)
(* ends up with what the first one has.                                     *)
MutualMergeAgrees ==
    \A c, d \in Copies :
        LET first == MergedItems(items[c], items[d])
        IN  MergedItems(items[d], first) = first
=============================================================================
