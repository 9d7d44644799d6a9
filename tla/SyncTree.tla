------------------------------ MODULE SyncTree ------------------------------
(***************************************************************************)
(* The sync tree (crates/lib/src/sync/): the database in which an instance *)
(* keeps its peers, the users it syncs for and the bootstrap requests it   *)
(* received.  Every operation on it is a transaction, and the managers     *)
(* read and write it as DocStores, one value per path: what they know is   *)
(* the last value written to every path they ask for.                      *)
(*                                                                         *)
(* A `log` is the sequence of the committed entries in the order in which  *)
(* they are merged.  An entry records what was written to which path.  A   *)
(* transaction sees the entries committed when it began; its own entry     *)
(* comes after all of these, and before or after the concurrent ones: an   *)
(* order the instance does not choose (it follows the heights and the ids  *)
(* of the entries).  The state of the log is the same for every reader.    *)
(* A user's own database is read and written in the same way (KeyRing).    *)
(***************************************************************************)
EXTENDS Integers, Sequences, SequencesExt, FiniteSetsExt

(* The entries in the log, by id. *)
Committed(log) == {log[i].id : i \in DOMAIN log}

(* The value at a path, for a reader that sees the entries `seen`. *)
ValueAt(log, seen, path, absent) ==
    LET writers == {i \in DOMAIN log : log[i].id \in seen /\ path \in DOMAIN log[i].writes}
    IN  IF writers = {} THEN absent ELSE log[Max(writers)].writes[path]

(* The places an entry may take that was written with `seen` in sight. *)
Places(log, seen) ==
    LET last == Max({0} \cup {i \in DOMAIN log : log[i].id \in seen})
    IN  (last + 1)..(Len(log) + 1)

(* The log once the entry is committed at one of these places. *)
WithEntry(log, place, writes) ==
    InsertAt(log, place, [id |-> Len(log) + 1, writes |-> writes])

(* No transaction has committed beside another one: every entry saw all     *)
(* the ones before it.                                                      *)
Serial(log, seen) == seen = Committed(log)
=============================================================================
