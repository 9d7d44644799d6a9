----------------------------- MODULE Permission -----------------------------
(***************************************************************************)
(* Permission levels, their order, and the bounds a delegation puts on     *)
(* them: crates/lib/src/auth/types/permissions.rs and auth/permission.rs.  *)
(***************************************************************************)
EXTENDS Integers

\* The largest priority of a Write or Admin permission (u32::MAX).
CONSTANT PriorityMax

ASSUME PriorityAssumption == PriorityMax \in Nat

Priority == 0..PriorityMax

\* Permission: Read carries no priority, here always 0.
Perms == [kind : {"Read"}, priority : {0}]
           \cup [kind : {"Write", "Admin"}, priority : Priority]

Read == [kind |-> "Read", priority |-> 0]
Write(p) == [kind |-> "Write", priority |-> p]
Admin(p) == [kind |-> "Admin", priority |-> p]

\* A lower priority number is a higher permission; u64, so nothing wraps.
OrderingValue(p) ==
  CASE p.kind = "Read"  -> 0
    [] p.kind = "Write" -> 1 + PriorityMax - p.priority
    [] OTHER            -> 2 + 2 * PriorityMax - p.priority

AtMost(p, q) == OrderingValue(p) <= OrderingValue(q)

Lower(p, q) == IF AtMost(p, q) THEN p ELSE q
Higher(p, q) == IF AtMost(p, q) THEN q ELSE p

CanWrite(p) == p.kind \in {"Write", "Admin"}
CanAdmin(p) == p.kind = "Admin"

\* check_permissions: what an entry does decides what its signer needs.
CheckPermissions(p, operation) ==
  IF operation = "WriteSettings" THEN CanAdmin(p) ELSE CanWrite(p) \/ CanAdmin(p)

-----------------------------------------------------------------------------
(* Bounds of a delegation: a maximum and a set of at most one minimum.     *)

Bounds == [max : Perms, min : {{}} \cup {{p} : p \in Perms}]

ValidatePermissionBounds(b) == \A m \in b.min : AtMost(m, b.max)

\* Minimum above maximum: only the maximum applies.
ClampPermission(p, b) ==
  IF ~AtMost(p, b.max) THEN b.max
  ELSE IF ValidatePermissionBounds(b) /\ \E m \in b.min : ~AtMost(m, p)
       THEN CHOOSE m \in b.min : TRUE
       ELSE p

CombinedMin(a, b) ==
  CASE a = {}  -> b
    [] b = {}  -> a
    [] OTHER   -> {Higher(CHOOSE m \in a : TRUE, CHOOSE m \in b : TRUE)}

\* The bounds of the last step only.
CombineLast(a, b) == b

\* Two steps of a path: the lower maximum and the higher minimum.
CombineBounds(a, b) ==
  [max |-> Lower(a.max, b.max), min |-> CombinedMin(a.min, b.min)]

\* can_delegate_with_bounds.
CanDelegateWithBounds(p, b) == AtMost(b.max, p) /\ ValidatePermissionBounds(b)
=============================================================================
