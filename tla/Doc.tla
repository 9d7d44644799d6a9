-------------------------------- MODULE Doc --------------------------------
(***************************************************************************)
(* The Doc CRDT (crates/lib/src/crdt/doc/mod.rs and value.rs): a tree of   *)
(* keys whose values are leaves, nested documents or tombstones, merged    *)
(* left to right.  Leaves (null, bool, int, text) are one kind of value.   *)
(* The paths here are sequences of keys: the dots of the textual form, and *)
(* the empty segments it drops, are gone.  Lists are in module DocList.    *)
(***************************************************************************)
EXTENDS Integers, Sequences

NoKids == [k \in {} |-> 0]
Value(kind, leaf, atomic, kids) ==
    [kind |-> kind, leaf |-> leaf, atomic |-> atomic, kids |-> kids]

Leaf(n) == Value("leaf", n, FALSE, NoKids)
Deleted == Value("deleted", 0, FALSE, NoKids)
Absent == Value("absent", 0, FALSE, NoKids)
NewDoc == Value("doc", 0, FALSE, NoKids)
AtomicDoc == Value("doc", 0, TRUE, NoKids)

IsDoc(v) == v.kind = "doc"
Child(d, k) == IF k \in DOMAIN d.kids THEN d.kids[k] ELSE Absent
WithChild(d, k, v) ==
    [d EXCEPT !.kids = [j \in DOMAIN d.kids \cup {k} |->
                          IF j = k THEN v ELSE d.kids[j]]]

(* get_raw: a path that runs into anything but a document leads nowhere. *)
RECURSIVE GetRaw(_, _)
GetRaw(d, path) ==
    IF Len(path) = 1 THEN Child(d, path[1])
    ELSE LET next == Child(d, path[1])
         IN  IF IsDoc(next) THEN GetRaw(next, Tail(path)) ELSE Absent

(* get hides tombstones. *)
Get(d, path) ==
    LET v == GetRaw(d, path) IN IF v.kind = "deleted" THEN Absent ELSE v

IsTombstone(d, path) == GetRaw(d, path).kind = "deleted"

(* set: whatever is in the way, a tombstone included, becomes a document. *)
RECURSIVE SetAt(_, _, _)
SetAt(d, path, v) ==
    IF Len(path) = 1 THEN WithChild(d, path[1], v)
    ELSE LET next == Child(d, path[1])
             inner == IF IsDoc(next) THEN next ELSE NewDoc
         IN  WithChild(d, path[1], SetAt(inner, Tail(path), v))

Remove(d, path) == SetAt(d, path, Deleted)

(* Merge: of two documents, an atomic right side replaces the left one, and *)
(* otherwise the left one keeps its flag and their keys are merged; of two  *)
(* values, whichever comes second, unless both are documents.               *)
RECURSIVE Merge(_, _)
Merge(a, b) ==
    IF ~(IsDoc(a) /\ IsDoc(b)) \/ b.atomic THEN b
    ELSE [a EXCEPT !.kids = [k \in DOMAIN a.kids \cup DOMAIN b.kids |->
                               IF k \notin DOMAIN b.kids THEN a.kids[k]
                               ELSE IF k \notin DOMAIN a.kids THEN b.kids[k]
                               ELSE Merge(a.kids[k], b.kids[k])]]

RECURSIVE MergeAll(_)
MergeAll(s) ==
    IF s = <<>> THEN NewDoc
    ELSE Merge(MergeAll(SubSeq(s, 1, Len(s) - 1)), s[Len(s)])
=============================================================================
