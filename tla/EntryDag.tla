------------------------------ MODULE EntryDag ------------------------------
(***************************************************************************)
(* Entries are content addressed, so what an ID stands for never changes:  *)
(* the main-tree parents of every entry are a fixed function `par`, and    *)
(* what varies is the set of entries a replica holds.  These operators are *)
(* the graph questions the backend asks about the entries it holds.        *)
(***************************************************************************)
EXTENDS Naturals, FiniteSets

(* An entry is a tip of S when no other entry of S lists it as a parent. *)
Tips(par, S) == {e \in S : \A o \in S : e \notin par[o]}

(* What a breadth-first walk over parent links, started at `from` and      *)
(* skipping entries that are not held, collects: after as many rounds as   *)
(* there are entries there is nothing left to add.                         *)
Reach(par, held, from) ==
    LET round[n \in 0..Cardinality(held)] ==
            IF n = 0 THEN from \cap held
            ELSE LET known == round[n-1]
                 IN  known \cup ((UNION {par[e] : e \in known}) \cap held)
    IN  {e \in held : e \in round[Cardinality(held)]}
=============================================================================
