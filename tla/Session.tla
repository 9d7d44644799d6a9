------------------------------ MODULE Session ------------------------------
(***************************************************************************)
(* Who a service connection acts for: trusted_login and                    *)
(* register_session_key of service/client.rs, the login and session-key    *)
(* handlers, dispatch_inner and the permission gates of service/server.rs. *)
(*                                                                         *)
(* Several tasks share the connection.  The daemon handles one request at  *)
(* a time; between the two round trips of a login or of a registration the *)
(* requests of other tasks get in.  Meanwhile other writers change the     *)
(* auth settings of the databases.                                         *)
(***************************************************************************)
EXTENDS Integers

CONSTANTS
    Task,           \* tasks on the connection
    User,           \* users of the daemon; the root key of a user has its name
    DbKey,          \* further keys the client holds
    Tree,           \* databases other than _databases
    MaxChallenges,  \* bound on the challenges the daemon mints
    MaxLogins,      \* bound on the logins
    MaxChanges      \* bound on the changes of auth settings

ASSUME SessionAssumption ==
    MaxChallenges \in Nat /\ MaxLogins \in Nat /\ MaxChanges \in Nat

VARIABLES
    conn,        \* ConnectionState: where it is, for whom, the login challenge
    keyset,      \* session_keyset
    challenges,  \* pending_key_challenges: key -> challenge, 0 when none
    minted,      \* challenges minted so far
    logins,      \* TrustedLoginUser requests handled so far
    session,     \* the client's SessionState: the root key, or Nobody
    registered,  \* the client's registered_keys
    task,        \* what each task is doing, with the challenge it was given
    exists,      \* the databases the daemon holds
    granted,     \* auth settings: database -> key -> level
    changes,     \* changes of auth settings so far
    answer       \* the op the last step served, or None

sessionVars == <<conn, keyset, challenges, minted, logins, session, registered, task,
                 exists, granted, changes, answer>>

client == <<session, registered, task>>
settings == <<exists, granted, changes>>

Databases == "_databases"
Nobody == "nobody"
Key == User \cup DbKey
Trees == Tree \cup {Databases}
None == [op |-> "none", key |-> Nobody, root |-> Databases, owner |-> Databases]
Idle == [at |-> "idle", key |-> Nobody, challenge |-> 0]

(* 0 none, 1 Read, 2 Write, 3 Admin. *)
Level == 0..3

ConnectionState ==
    [at : {"PreAuth", "AwaitingProof", "Authenticated"}, user : User \cup {Nobody},
     challenge : 0..MaxChallenges]
TaskState ==
    [at : {"idle", "challenged", "proved", "registering", "joined"},
     key : Key \cup {Nobody}, challenge : 0..MaxChallenges]
Answer ==
    [op : {"none", "read", "entry", "metadata", "submit"},
     key : Key \cup {Nobody}, root : Trees, owner : Trees]

SessionTypeOK ==
    /\ conn \in ConnectionState
    /\ keyset \subseteq Key
    /\ challenges \in [Key -> 0..MaxChallenges]
    /\ minted \in 0..MaxChallenges
    /\ logins \in 0..MaxLogins
    /\ session \in User \cup {Nobody}
    /\ registered \subseteq Key
    /\ task \in [Task -> TaskState]
    /\ exists \subseteq Trees
    /\ granted \in [Trees -> [Key -> Level]]
    /\ changes \in 0..MaxChanges
    /\ answer \in Answer

(* The first user is Admin on _databases; a database is not there yet. *)
SessionInit ==
    /\ conn = [at |-> "PreAuth", user |-> Nobody, challenge |-> 0]
    /\ keyset = {}
    /\ challenges = [k \in Key |-> 0]
    /\ minted = 0
    /\ logins = 0
    /\ session = Nobody
    /\ registered = {}
    /\ task = [t \in Task |-> Idle]
    /\ exists = {Databases}
    /\ \E first \in User :
          granted = [d \in Trees |-> [k \in Key |->
                        IF d = Databases /\ k = first THEN 3 ELSE 0]]
    /\ changes = 0
    /\ answer = None

Authenticated == conn.at = "Authenticated"

Becomes(t, at, k, challenge) ==
    task' = [task EXCEPT ![t] = [at |-> at, key |-> k, challenge |-> challenge]]

Mint == minted < MaxChallenges /\ minted' = minted + 1

-----------------------------------------------------------------------------
(* handle_trusted_login_user, whatever the connection was before: a known   *)
(* user gets a challenge.                                                   *)
TrustedLoginUser(t, u) ==
    /\ task[t].at = "idle"
    /\ Mint
    /\ logins < MaxLogins
    /\ logins' = logins + 1
    /\ conn' = [at |-> "AwaitingProof", user |-> u, challenge |-> minted + 1]
    /\ keyset' = {}
    /\ challenges' = [k \in Key |-> 0]
    /\ Becomes(t, "challenged", u, minted + 1)
    /\ answer' = None
    /\ UNCHANGED <<session, registered, settings>>

(* An unknown or disabled user: back to PreAuth. *)
TrustedLoginUnknown(t) ==
    /\ task[t].at = "idle"
    /\ logins < MaxLogins
    /\ logins' = logins + 1
    /\ conn' = [at |-> "PreAuth", user |-> Nobody, challenge |-> 0]
    /\ keyset' = {}
    /\ challenges' = [k \in Key |-> 0]
    /\ answer' = None
    /\ UNCHANGED <<minted, client, settings>>

(* The password does not open the root key: trusted_login returns without a *)
(* further request.                                                         *)
WrongPassword(t) ==
    /\ task[t].at = "challenged"
    /\ task' = [task EXCEPT ![t] = Idle]
    /\ answer' = None
    /\ UNCHANGED <<conn, keyset, challenges, minted, logins, session, registered,
                   settings>>

(* handle_trusted_login_prove: the signature is over the challenge the task *)
(* was given, by the root key of the user it named.                         *)
TrustedLoginProve(t) ==
    /\ task[t].at = "challenged"
    /\ LET proved == conn.user = task[t].key /\ conn.challenge = task[t].challenge
       IN IF conn.at # "AwaitingProof"
          THEN /\ UNCHANGED <<conn, keyset, challenges>>
               /\ task' = [task EXCEPT ![t] = Idle]
          ELSE IF proved
          THEN /\ conn' = [at |-> "Authenticated", user |-> conn.user, challenge |-> 0]
               /\ keyset' = {conn.user}
               /\ challenges' = [k \in Key |-> 0]
               /\ Becomes(t, "proved", conn.user, 0)
          ELSE /\ conn' = [at |-> "PreAuth", user |-> Nobody, challenge |-> 0]
               /\ UNCHANGED <<keyset, challenges>>
               /\ task' = [task EXCEPT ![t] = Idle]
    /\ answer' = None
    /\ UNCHANGED <<minted, logins, session, registered, settings>>

(* trusted_login has its TrustedLoginOk. *)
LoggedIn(t) ==
    /\ task[t].at = "proved"
    /\ session' = task[t].key
    /\ registered' = registered \cup {task[t].key}
    /\ task' = [task EXCEPT ![t] = Idle]
    /\ answer' = None
    /\ UNCHANGED <<conn, keyset, challenges, minted, logins, settings>>

-----------------------------------------------------------------------------
(* register_session_key, first round trip: handle_session_key_challenge.    *)
(* A key known to be registered needs none.                                 *)
SessionKeyChallenge(t, k) ==
    /\ task[t].at = "idle"
    /\ k \notin registered
    /\ IF Authenticated
       THEN /\ Mint
            /\ challenges' = [challenges EXCEPT ![k] = minted + 1]
            /\ Becomes(t, "registering", k, minted + 1)
       ELSE UNCHANGED <<minted, challenges, task>>
    /\ answer' = None
    /\ UNCHANGED <<conn, keyset, logins, session, registered, settings>>

(* The challenge signed is the one outstanding for the key. *)
Joins(t) == Authenticated /\ challenges[task[t].key] = task[t].challenge

(* A faulty variant of AfterRegister: the answer is not looked at. *)
AfterRegisterAnyway(t) == "joined"

AfterRegister(t) == IF Joins(t) THEN "joined" ELSE "idle"

(* Its second: handle_session_key_register consumes the challenge of the    *)
(* key, right or wrong.                                                     *)
SessionKeyRegister(t) ==
    /\ task[t].at = "registering"
    /\ LET k == task[t].key
       IN /\ challenges' = [challenges EXCEPT ![k] = 0]
          /\ keyset' = IF Joins(t) THEN keyset \cup {k} ELSE keyset
          /\ task' = [task EXCEPT ![t] =
                         IF AfterRegister(t) = "joined"
                         THEN [at |-> "joined", key |-> k, challenge |-> 0]
                         ELSE Idle]
    /\ answer' = None
    /\ UNCHANGED <<conn, minted, logins, session, registered, settings>>

(* register_session_key has its Ok and remembers the key. *)
Registered(t) ==
    /\ task[t].at = "joined"
    /\ registered' = registered \cup {task[t].key}
    /\ task' = [task EXCEPT ![t] = Idle]
    /\ answer' = None
    /\ UNCHANGED <<conn, keyset, challenges, minted, logins, session, settings>>

-----------------------------------------------------------------------------
(* gate_tree_permission: an absent database passes unless it must exist. *)
GateTreePermission(k, d, required, requireExisting) ==
    IF d \notin exists THEN ~requireExisting ELSE granted[d][k] >= required

(* gate_entry_read: the database the entry says it belongs to. *)
OwningTree(root, owner) == owner

(* The gates of an AuthenticatedDb request that acts as key k of the        *)
(* keyset: resolve_acting_pubkey has found it there.                        *)
Permits(op, k, root, owner) ==
    CASE op = "read" -> GateTreePermission(k, root, 1, FALSE)
      [] op = "entry" -> /\ GateTreePermission(k, root, 1, FALSE)
                         /\ GateTreePermission(k, OwningTree(root, owner), 1, FALSE)
      [] op = "metadata" -> GateTreePermission(k, Databases, 3, TRUE)
      [] op = "submit" -> TRUE

(* dispatch_inner and dispatch_database_op.  A request under a key that is  *)
(* not in the keyset, or that the gates refuse, changes nothing; a submit   *)
(* may create the database.                                                 *)
AuthenticatedDb(op, k, root, owner) ==
    /\ Authenticated
    /\ k \in keyset
    /\ Permits(op, k, root, owner)
    /\ answer' = [op |-> op, key |-> k, root |-> root, owner |-> owner]
    /\ exists' = IF op = "submit" THEN exists \cup {root} ELSE exists
    /\ UNCHANGED <<conn, keyset, challenges, minted, logins, client, granted, changes>>

(* Another writer changes the auth settings of a database. *)
SetAuth(d, k, level) ==
    /\ changes < MaxChanges
    /\ d \in exists
    /\ granted[d][k] # level
    /\ granted' = [granted EXCEPT ![d][k] = level]
    /\ changes' = changes + 1
    /\ answer' = None
    /\ UNCHANGED <<conn, keyset, challenges, minted, logins, client, exists>>

-----------------------------------------------------------------------------
SessionNext ==
    \/ \E t \in Task :
          \/ \E u \in User : TrustedLoginUser(t, u)
          \/ TrustedLoginUnknown(t) \/ WrongPassword(t)
          \/ TrustedLoginProve(t) \/ LoggedIn(t)
          \/ \E k \in Key : SessionKeyChallenge(t, k)
          \/ SessionKeyRegister(t) \/ Registered(t)
    \/ \E op \in {"read", "submit"}, k \in Key, d \in Tree : AuthenticatedDb(op, k, d, d)
    \/ \E k \in Key, d \in Trees, o \in exists : AuthenticatedDb("entry", k, d, o)
    \/ \E k \in Key : AuthenticatedDb("metadata", k, Databases, Databases)
    \/ \E d \in Trees, k \in Key, level \in {0, 1, 3} : SetAuth(d, k, level)

SessionSpec == SessionInit /\ [][SessionNext]_sessionVars

(* register_session_key: "a successful registration caches the pubkey in    *)
(* registered_keys".  On a connection that logged in once, a key the client *)
(* takes for registered is in the daemon's keyset, however the              *)
(* registrations of its tasks interleave: a key wrongly cached would have   *)
(* every later operation under it refused.                                  *)
RegisteredKeysHold ==
    logins = 1 /\ conn.at # "AwaitingProof" =>
        /\ registered \subseteq keyset
        /\ \A t \in Task : task[t].at = "joined" => task[t].key \in keyset
=============================================================================
