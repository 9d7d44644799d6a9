----------------------------- MODULE MCInMemory -----------------------------
(***************************************************************************)
(* Small entry graphs for the in-memory backend.  Entry 1 is the root of   *)
(* the tree asked about; a second root, where present, starts another   *)
(* tree held by the same backend.                                          *)
(***************************************************************************)
EXTENDS InMemory

MCStore == {"a"}

(* Parents as Transaction::new_at accepts them: the tips of a set of       *)
(* entries, so never an entry together with one of its ancestors.          *)
ParentChoices ==
    {p \in [1..4 -> SUBSET (1..3)] :
        /\ p[1] = {}
        /\ \A e \in 2..4 : p[e] # {} /\ \A q \in p[e] : q < e
        /\ \A e \in 2..4 : p[e] = Tips(p, Reach(p, 1..4, p[e]))}

(* The store parents of an entry: the tips of the store among the entry's  *)
(* ancestors.                                                              *)
WorldOf(p, members) ==
    LET below(e) == Reach(p, 1..4, p[e]) \cap members
        sp[e \in 1..4] ==
            IF e \in members
            THEN {x \in below(e) : \A y \in below(e) : x \notin sp[y]}
            ELSE {}
    IN  [parents |-> p,
         root |-> [e \in 1..4 |-> 1],
         stores |-> [e \in 1..4 |-> IF e \in members THEN {"a"} ELSE {}],
         storeParents |-> [e \in 1..4 |-> [s \in {"a"} |-> sp[e]]]]

MCWorlds == {WorldOf(p, m) : p \in ParentChoices, m \in SUBSET (1..4)}

(* Two trees in one backend: 1 <- 2, and the root 3. *)
TwoTrees ==
    {[parents |-> <<{}, {1}, {}>>,
      root |-> <<1, 1, 3>>,
      stores |-> [e \in 1..3 |-> {"a"}],
      storeParents |-> [e \in 1..3 |-> [s \in {"a"} |->
                          IF e = 2 THEN {1} ELSE {}]]]}
=============================================================================
