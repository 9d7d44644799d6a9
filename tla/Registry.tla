------------------------------ MODULE Registry ------------------------------
(***************************************************************************)
(* The _index store (crates/lib/src/store/registry.rs) and the methods of   *)
(* the Store trait that write it (store/mod.rs): for one store name, its    *)
(* type, its configuration and its settings, one document that is staged    *)
(* as a whole and merged key by key with the committed ones.                *)
(***************************************************************************)
EXTENDS Doc

CONSTANTS
    Types,       \* store types, numbers
    Strategies,  \* height strategies, numbers from 1; 0 is "inherit"
    MaxCommits   \* bound on the transactions

VARIABLES
    committed,  \* the documents committed so far, merged in their order
    commits,    \* how many there are
    staged,     \* the document staged by the transaction
    asked       \* the last strategy set: 0 for None, -1 when none was set

vars == <<committed, commits, staged, asked>>

Name == "store"

(* Configurations: the default one, and one that replaces its predecessor. *)
DefaultConfig == NewDoc
OwnConfig(n) == WithChild(AtomicDoc, "own", Leaf(n))

(* DocStore::get on the whole entry: the staged one hides the committed one. *)
Found ==
    IF Get(staged, <<Name>>) # Absent THEN Get(staged, <<Name>>)
    ELSE Get(committed, <<Name>>)

(* get_entry *)
GetEntry ==
    LET settings == Get(Found, <<"settings">>)
        config == Get(Found, <<"config">>)
    IN  [type |-> Get(Found, <<"type">>).leaf,
         config |-> IF IsDoc(config) THEN config ELSE NewDoc,
         strategy |-> IF IsDoc(settings)
                      THEN Get(settings, <<"height_strategy">>).leaf ELSE 0]

Contains == IsDoc(Found) /\ Get(Found, <<"type">>).kind = "leaf"

Metadata(type, config) ==
    WithChild(WithChild(NewDoc, "type", Leaf(type)), "config", config)

Stage(doc) == staged' = SetAt(staged, <<Name>>, doc)

Init ==
    /\ committed = NewDoc
    /\ commits = 0
    /\ staged = NewDoc
    /\ asked = -1

(* set_entry, as register and set_config call it. *)
SetEntry(type, config) ==
    /\ Stage(Metadata(type, config))
    /\ UNCHANGED <<committed, commits, asked>>

Register(type) == ~Contains /\ SetEntry(type, DefaultConfig)
SetConfig(config) == Contains /\ SetEntry(GetEntry.type, config)

(* A faulty variant of SetSubtreeSettings: the configuration is not read.  *)
SetSettingsAlone(strategy) ==
    /\ Contains
    /\ Stage(WithChild(Metadata(GetEntry.type, DefaultConfig), "settings",
                       WithChild(NewDoc, "height_strategy", Leaf(strategy))))
    /\ asked' = strategy
    /\ UNCHANGED <<committed, commits>>

(* set_height_strategy and set_subtree_settings: type and configuration are *)
(* read and written again, default settings are left out.                   *)
SetSubtreeSettings(strategy) ==
    LET kept == Metadata(GetEntry.type, GetEntry.config)
    IN  /\ Contains
        /\ Stage(IF strategy = 0 THEN kept
                 ELSE WithChild(kept, "settings",
                          WithChild(NewDoc, "height_strategy", Leaf(strategy))))
        /\ asked' = strategy
        /\ UNCHANGED <<committed, commits>>

Commit ==
    /\ commits < MaxCommits
    /\ staged # NewDoc
    /\ committed' = Merge(committed, staged)
    /\ commits' = commits + 1
    /\ staged' = NewDoc
    /\ UNCHANGED asked

Next ==
    \/ \E type \in Types : Register(type)
    \/ \E config \in {DefaultConfig, OwnConfig(1), OwnConfig(2)} : SetConfig(config)
    \/ \E strategy \in Strategies \cup {0} : SetSubtreeSettings(strategy)
    \/ Commit

Spec == Init /\ [][Next]_vars

(***************************************************************************)
(* Properties                                                              *)
(***************************************************************************)

(* Setting a strategy and committing change neither the type of a store nor *)
(* a configuration that was written as a replacement (as PasswordStore's    *)
(* is), although every write stages the whole entry and commit merges it    *)
(* key by key with the entries before it.                                   *)
ConfigOutlivesSettings ==
    [][GetEntry.config.atomic
          /\ (Commit \/ \E s \in Strategies \cup {0} : SetSubtreeSettings(s))
          => GetEntry'.type = GetEntry.type /\ GetEntry'.config = GetEntry.config]_vars
=============================================================================
