----------------------------- MODULE Delegation -----------------------------
(***************************************************************************)
(* The walk of a delegation path                                           *)
(* (crates/lib/src/auth/validation/delegation.rs).  Every step reads one   *)
(* declaration in the settings of the tree before it and folds its bounds  *)
(* into those collected so far; the last tree's keys are then resolved and *)
(* each permission found is clamped to the collected bounds.  Which        *)
(* declaration a step finds is any: the settings of the trees on the path  *)
(* are written by different administrators.                                *)
(***************************************************************************)
EXTENDS Permission, Sequences

CONSTANT
  MaxSteps        \* MAX_DELEGATION_STEPS, 10 in the code

VARIABLES
  path,           \* the bounds declared by the steps walked, in order
  collected,      \* cumulative_bounds: none, or the one collected bounds
  own,            \* the permission the last tree gives the key, once found
  effective       \* the permission it is clamped to, once found

vars == <<path, collected, own, effective>>

NotYet == {}

Init == /\ path = <<>>
        /\ collected = {}
        /\ own = NotYet
        /\ effective = NotYet

\* One delegation step: get_delegated_tree finds declaration b.  A path of more
\* than MaxSteps steps is refused before the first of them.
Step(b) == /\ effective = NotYet
           /\ Len(path) < MaxSteps
           /\ path' = Append(path, b)
           /\ collected' = {IF collected = {} THEN b
                            ELSE CombineBounds(CHOOSE c \in collected : TRUE, b)}
           /\ UNCHANGED <<own, effective>>

\* resolve_hint in the last tree finds a key with permission p.  An empty path
\* is refused, so there are collected bounds.
Resolve(p) == /\ effective = NotYet
              /\ path # <<>>
              /\ own' = {p}
              /\ effective' = {ClampPermission(p, c) : c \in collected}
              /\ UNCHANGED <<path, collected>>

Next == \/ \E b \in Bounds : Step(b)
        \/ \E p \in Perms : Resolve(p)

Spec == Init /\ [][Next]_vars

-----------------------------------------------------------------------------
(* Type correctness. *)
TypeOK == /\ path \in Seq(Bounds)
          /\ collected \in SUBSET Bounds
          /\ own \in SUBSET Perms
          /\ effective \in SUBSET Perms

(* A key reached through a path has at most the maximum that every step of *)
(* it declares: no later tree can widen what an earlier one allows, not    *)
(* even with a minimum (delegation.rs:196-221, permission.rs:40-66).       *)
WithinEveryMaximum ==
  \A e \in effective : \A i \in DOMAIN path : AtMost(e, path[i].max)

(* A path lifts a key above what its own tree gives it only to a minimum   *)
(* that some step of the path declares (permission.rs:58-63).              *)
RaisedOnlyToAMinimum ==
  \A e \in effective, o \in own :
    ~AtMost(e, o) => \E i \in DOMAIN path : e \in path[i].min
=============================================================================
