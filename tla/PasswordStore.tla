--------------------------- MODULE PasswordStore ---------------------------
(***************************************************************************)
(* PasswordStore (crates/lib/src/store/password_store.rs) over the commits  *)
(* of several transactions: its configuration (salt, parameters and the     *)
(* wrapped type, encrypted) is an atomic document in _index, its data is    *)
(* encrypted by the encryptor of the transaction that writes it.  A key is  *)
(* the pair of password and salt it is derived from; a ciphertext is the    *)
(* key it was made with, and decrypts under that key alone (AES-GCM).       *)
(***************************************************************************)
EXTENDS Integers, FiniteSetsExt

CONSTANTS
    Txn,        \* transactions
    Password,   \* passwords
    MaxEntries  \* bound on the commits; entry ids, in no particular order

VARIABLES
    entries,  \* the committed entries: [id, height, seen, config, key]
    store     \* store[t]: the handle of transaction t

vars == <<entries, store>>

None == [salt |-> 0, password |-> "none"]
Ids(E) == {e.id : e \in E}
Seen(t) == {e \in entries : e.id \in store[t].seen}

NoStore == [state |-> "None", seen |-> {}, config |-> None, key |-> None,
            initialized |-> FALSE, wrote |-> FALSE]

(***************************************************************************)
(* The configuration                                                       *)
(***************************************************************************)

Follows(e, f) == e.height > f.height \/ (e.height = f.height /\ e.id > f.id)

(* The configuration is an atomic document: the last one replaces the others. *)
ConfigIn(E) ==
    LET configs == {e \in E : e.config # None}
    IN  IF configs = {} THEN None
        ELSE (CHOOSE e \in configs : \A f \in configs \ {e} : Follows(e, f)).config

(* The key the encryptor derives: Argon2 of the password with the salt. *)
DerivedKey(password, salt) == [salt |-> salt, password |-> password]

(* Encrypting gives a ciphertext only the same key decrypts. *)
Encrypt(key) == key
Decrypts(key, ciphertext) == ciphertext = key

(***************************************************************************)
(* The handle                                                              *)
(***************************************************************************)

Init ==
    /\ entries = {}
    /\ store = [t \in Txn |-> NoStore]

(* A transaction starts and gets the store: registered with an empty        *)
(* configuration if it is new, loaded from the configuration in its view    *)
(* otherwise.                                                               *)
Load(t) ==
    /\ store[t].state = "None"
    /\ store' = [store EXCEPT ![t] =
                   [@ EXCEPT !.seen = Ids(entries),
                             !.config = ConfigIn(entries),
                             !.state = IF ConfigIn(entries) = None
                                       THEN "Uninitialized" ELSE "Locked"]]
    /\ UNCHANGED entries

(* initialize draws a salt that nobody else has; the wrapped configuration  *)
(* is encrypted, the encryptor is registered and the handle is unlocked.    *)
Initialized(t, password) ==
    LET salt == CHOOSE s \in 1..MaxEntries + 1 :
                    /\ \A e \in entries : e.config.salt # s
                    /\ \A u \in Txn : store[u].config.salt # s
        key == DerivedKey(password, salt)
    IN  [store[t] EXCEPT !.state = "Unlocked", !.config = Encrypt(key),
                         !.key = key, !.initialized = TRUE]

(* A faulty variant of Initialize: the state is not looked at. *)
InitializeAgain(t, password) ==
    /\ store[t].state # "None"
    /\ store' = [store EXCEPT ![t] = Initialized(t, password)]
    /\ UNCHANGED entries

Initialize(t, password) ==
    /\ store[t].state = "Uninitialized"
    /\ store' = [store EXCEPT ![t] = Initialized(t, password)]
    /\ UNCHANGED entries

(* open fails unless the wrapped configuration decrypts. *)
Open(t, password) ==
    LET key == DerivedKey(password, store[t].config.salt)
    IN  /\ store[t].state = "Locked"
        /\ Decrypts(key, store[t].config)
        /\ store' = [store EXCEPT ![t].state = "Unlocked", ![t].key = key]
        /\ UNCHANGED entries

(* inner() hands out the wrapped store, which stages plain data. *)
Inner(t) ==
    /\ store[t].state = "Unlocked"
    /\ store' = [store EXCEPT ![t].wrote = TRUE]
    /\ UNCHANGED entries

(* commit encrypts what was staged; the entry may get any id. *)
Commit(t) ==
    /\ store[t].initialized \/ store[t].wrote
    /\ \E id \in (1..MaxEntries) \ Ids(entries) :
        entries' = entries \cup
            {[id |-> id,
              height |-> 1 + Max({e.height : e \in Seen(t)} \cup {0}),
              seen |-> store[t].seen,
              config |-> IF store[t].initialized THEN store[t].config ELSE None,
              key |-> IF store[t].wrote THEN Encrypt(store[t].key) ELSE None]}
    /\ store' = [store EXCEPT ![t] = NoStore]

Next ==
    \E t \in Txn :
        \/ Load(t) \/ Inner(t) \/ Commit(t)
        \/ \E password \in Password : Initialize(t, password) \/ Open(t, password)

Spec == Init /\ [][Next]_vars

(***************************************************************************)
(* Properties                                                              *)
(***************************************************************************)

(* One of the two transactions that wrote a configuration saw the other. *)
NoneConcurrent ==
    \A e, f \in {x \in entries : x.config # None} :
        e = f \/ e.id \in f.seen \/ f.id \in e.seen

(* As long as no two initialisations were concurrent, whoever opens the     *)
(* store with the password that fits its configuration can decrypt every    *)
(* entry of it, whichever transactions wrote them in whatever order.        *)
OpenStoreDecryptsAll ==
    NoneConcurrent =>
        \A e \in entries : e.key # None => Decrypts(ConfigIn(entries), e.key)
=============================================================================
