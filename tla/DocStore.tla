------------------------------ MODULE DocStore ------------------------------
(***************************************************************************)
(* The DocStore and Table handles of one transaction after another         *)
(* (crates/lib/src/store/docstore.rs, value_editor.rs, table.rs): edits    *)
(* are staged in a document of their own and merged into the committed     *)
(* state by commit.  A read looks into the staged document first.          *)
(***************************************************************************)
EXTENDS Doc

CONSTANTS
    Rows,        \* keys of a table, and top-level keys of a document
    Fields,      \* keys one level down
    Leaves,      \* leaf values
    MaxCommits   \* bound on the transactions

VARIABLES
    type,       \* "docstore" or "table"
    committed,  \* the documents committed so far, oldest first
    staged,     \* the document staged by the transaction; NewDoc at first
    written     \* the last staged write: [path, value]; Absent after a delete

vars == <<type, committed, staged, written>>

Paths == {<<r>> : r \in Rows} \cup {<<r, f>> : r \in Rows, f \in Fields}
Nothing == [path |-> <<>>, value |-> Absent]

(* What set_node and set_at_path are given: empty, with a field, atomic. *)
Nodes ==
    {NewDoc, AtomicDoc}
    \cup {WithChild(d, f, Leaf(n)) : d \in {NewDoc, AtomicDoc}, f \in Fields,
                                    n \in Leaves}

Roots == {WithChild(d, r, Leaf(n)) : d \in {NewDoc, AtomicDoc}, r \in Rows,
                                    n \in Leaves}

(***************************************************************************)
(* Reads                                                                   *)
(***************************************************************************)

(* get_full_state: the history, without what is staged. *)
FullState == MergeAll(committed)

(* get_all, search and get_at_path read the two merged. *)
GetAll == Merge(FullState, staged)
GetAtPath(path) == Get(GetAll, path)

(* DocStore::get: Doc::get answers nothing for a key that is absent from    *)
(* the staged document and for one that is deleted there, so the arm of the *)
(* match for tombstones is never taken.  get_path and contains_path do the  *)
(* same with a path, and contains_key asks whether there is an answer.      *)
GetKey(r) ==
    IF Get(staged, <<r>>) # Absent THEN Get(staged, <<r>>)
    ELSE Get(FullState, <<r>>)

GetPath(path) ==
    IF Get(staged, path) # Absent THEN Get(staged, path)
    ELSE Get(FullState, path)

ContainsKey(r) == Get(staged, <<r>>) # Absent \/ Get(FullState, <<r>>) # Absent
ContainsPath(path) == Get(staged, path) # Absent \/ Get(FullState, path) # Absent

(* get_as and get_path_as convert the value to the caller's leaf type. *)
IsLeaf(v) == v.kind = "leaf"

(* Table::get looks for a staged tombstone before anything else. *)
TableGet(r) ==
    IF IsTombstone(staged, <<r>>) THEN Absent ELSE GetKey(r)

(***************************************************************************)
(* Writes                                                                  *)
(***************************************************************************)

Init ==
    /\ type \in {"docstore", "table"}
    /\ committed = <<>>
    /\ staged = NewDoc
    /\ written = Nothing

Write(path, value) ==
    /\ staged' = SetAt(staged, path, value)
    /\ written' = [path |-> path, value |-> value]
    /\ UNCHANGED <<type, committed>>

(* set, insert, set_result, set_string, set_node and set_value. *)
Set(r, v) == type = "docstore" /\ Write(<<r>>, v)
SetPath(path, v) == type = "docstore" /\ Write(path, v)

(* get_or_insert: the default is written if nothing of its type is there. *)
GetOrInsert(r, n) == ~IsLeaf(GetKey(r)) /\ Set(r, Leaf(n))
GetOrInsertPath(path, n) == ~IsLeaf(GetPath(path)) /\ SetPath(path, Leaf(n))

(* modify fails unless there is a value of the type; what it computes from  *)
(* the value is the caller's.  modify_or_insert starts from the default.    *)
Modify(r, n) == IsLeaf(GetKey(r)) /\ Set(r, Leaf(n))
ModifyPath(path, n) == IsLeaf(GetPath(path)) /\ SetPath(path, Leaf(n))
ModifyOrInsert(r, n) == Modify(r, n) \/ GetOrInsert(r, n)
ModifyOrInsertPath(path, n) == ModifyPath(path, n) \/ GetOrInsertPath(path, n)

(* set_at_path: at the root it replaces everything that was staged. *)
SetAtPath(path, v) ==
    \/ path # <<>> /\ SetPath(path, v)
    \/ /\ path = <<>>
       /\ type = "docstore"
       /\ IsDoc(v)
       /\ staged' = v
       /\ written' = Nothing
       /\ UNCHANGED <<type, committed>>

(* A faulty variant of Delete: the key is dropped from the staged document. *)
DeleteStagedOnly(r) ==
    /\ type = "docstore"
    /\ GetAtPath(<<r>>) # Absent
    /\ staged' = [staged EXCEPT !.kids = [k \in DOMAIN @ \ {r} |-> @[k]]]
    /\ written' = [path |-> <<r>>, value |-> Absent]
    /\ UNCHANGED <<type, committed>>

(* delete: a key that is not in the merged view is left alone. *)
Delete(r) ==
    /\ type = "docstore"
    /\ GetAtPath(<<r>>) # Absent
    /\ staged' = Remove(staged, <<r>>)
    /\ written' = [path |-> <<r>>, value |-> Absent]
    /\ UNCHANGED <<type, committed>>

(* Table::insert and Table::set; rows are serialised records, thus leaves. *)
SetRow(r, n) == type = "table" /\ Write(<<r>>, Leaf(n))

(* Table::delete asks Table::get whether there is a row. *)
DeleteRow(r) ==
    /\ type = "table"
    /\ TableGet(r) # Absent
    /\ staged' = Remove(staged, <<r>>)
    /\ written' = [path |-> <<r>>, value |-> Absent]
    /\ UNCHANGED <<type, committed>>

(* The transaction commits, and the next one starts from the new state. *)
Commit ==
    /\ Len(committed) < MaxCommits
    /\ committed' = Append(committed, staged)
    /\ staged' = NewDoc
    /\ UNCHANGED <<type, written>>

Next ==
    \/ \E r \in Rows, v \in Nodes \cup {Leaf(n) : n \in Leaves} : Set(r, v)
    \/ \E r \in Rows, n \in Leaves :
        GetOrInsert(r, n) \/ Modify(r, n) \/ ModifyOrInsert(r, n) \/ SetRow(r, n)
    \/ \E path \in Paths, n \in Leaves :
        \/ SetPath(path, Leaf(n))
        \/ GetOrInsertPath(path, n)
        \/ ModifyPath(path, n)
        \/ ModifyOrInsertPath(path, n)
        \/ SetAtPath(path, Leaf(n))
    \/ \E doc \in Roots : SetAtPath(<<>>, doc)
    \/ \E r \in Rows : Delete(r) \/ DeleteRow(r)
    \/ Commit

Spec == Init /\ [][Next]_vars

(***************************************************************************)
(* Properties                                                              *)
(***************************************************************************)

(* In the merged view the last write is what is there, before the commit    *)
(* and after it, whatever documents, leaves and tombstones were there       *)
(* before: a leaf is that leaf and is found by contains_key and             *)
(* contains_path, a deleted key is absent, and Table::get finds in a row    *)
(* what Table::search finds.                                                *)
LastWriteShows ==
    /\ written # Nothing /\ ~IsDoc(written.value)
          => /\ GetAtPath(written.path) = written.value
             /\ written.value # Absent
                  => ContainsKey(written.path[1]) /\ ContainsPath(written.path)
    /\ type = "table" => \A r \in Rows : TableGet(r) = GetAtPath(<<r>>)
=============================================================================
