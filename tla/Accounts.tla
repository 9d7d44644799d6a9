------------------------------ MODULE Accounts ------------------------------
(***************************************************************************)
(* The life of an instance and its accounts: connect_or_create and         *)
(* create_internal (instance/mod.rs), create_user, login_user and the      *)
(* grants of user/system_databases.rs, and user/admin.rs.  Every write is  *)
(* a step, durable when it is done (the SQL backends; with the in-memory   *)
(* one nothing is left of an instance that was not flushed), and the       *)
(* process may end between any two of them.  An account's password, which  *)
(* only its owner's login reads, is left out.                              *)
(***************************************************************************)
EXTENDS Integers, FiniteSets, Sequences

CONSTANTS
    Caller,     \* concurrent callers of the running instance
    First,      \* the name of the initial user
    Other,      \* other names
    MaxUsers,   \* bound on the keys generated for accounts
    MaxCrashes  \* bound on the crashes

VARIABLES
    up,        \* the process runs
    secrets,   \* the device key that is stored, 0 for none
    metadata,  \* the device key the stored metadata names, 0 for none
    users,     \* the table `users`: one row [name, key] per account
    admins,    \* per system database, the users' keys that are Admin on it
    task,      \* of every caller, and of the process that starts: what it does
    session,   \* the key a caller is logged in with, 0 for none
    minted,    \* the number of user keys generated
    crashes,   \* the number of crashes
    created    \* create_internal has returned

vars == <<up, secrets, metadata, users, admins, task, session, minted, crashes, created>>

Name == {First} \cup Other
Key == 1..MaxUsers
Start == "start"
Tasks == Caller \cup {Start}
Idle == [at |-> "idle"]
Device == 0

TypeOK ==
    /\ up \in BOOLEAN
    /\ secrets \in 0..(MaxCrashes + 1)
    /\ metadata \in 0..(MaxCrashes + 1)
    /\ users \subseteq [name : Name, key : Key]
    /\ admins \in [{"users", "databases"} -> SUBSET Key]
    /\ \A t \in Tasks : task[t].at \in {"idle", "secrets", "metadata", "check", "insert",
                                        "promote", "grant users", "grant databases"}
    /\ session \in [Caller -> {0} \cup Key]
    /\ minted \in 0..MaxUsers
    /\ crashes \in 0..MaxCrashes
    /\ created \in BOOLEAN

Init ==
    /\ up = FALSE
    /\ secrets = 0
    /\ metadata = 0
    /\ users = {}
    /\ admins = [db \in {"users", "databases"} |-> {}]
    /\ task = [t \in Tasks |-> Idle]
    /\ session = [c \in Caller |-> 0]
    /\ minted = 0
    /\ crashes = 0
    /\ created = FALSE

(***************************************************************************)
(* Starting                                                                *)
(***************************************************************************)

(* create_internal: the system databases belong to a new device key, which  *)
(* is stored before the metadata.                                           *)
InitialStages == <<"secrets", "metadata">>

(* connect_or_create tells by the metadata whether there is an instance. *)
IsInitialized == metadata # 0

(* connect_or_create on a backend without metadata: create_internal with a  *)
(* new device key; the system databases are created on the way.             *)
Create ==
    /\ ~up
    /\ ~IsInitialized
    /\ up' = TRUE
    /\ task' = [task EXCEPT ![Start] = [at |-> InitialStages[1], device |-> crashes + 1]]
    /\ UNCHANGED <<secrets, metadata, users, admins, session, minted, crashes, created>>

(* ... and on a backend with metadata: the instance is opened, unless its   *)
(* secrets are of another device.                                           *)
Open ==
    /\ ~up
    /\ IsInitialized
    /\ secrets \in {0, metadata}
    /\ up' = TRUE
    /\ UNCHANGED <<secrets, metadata, users, admins, task, session, minted, crashes, created>>

(* The initial user, once secrets and metadata are stored. *)
AfterStage(at, device) ==
    IF at = InitialStages[1] THEN [at |-> InitialStages[2], device |-> device]
    ELSE [at |-> "check", name |-> First, signer |-> Device]

SetInstanceSecrets ==
    /\ task[Start].at = "secrets"
    /\ secrets' = task[Start].device
    /\ task' = [task EXCEPT ![Start] = AfterStage("secrets", @.device)]
    /\ UNCHANGED <<up, metadata, users, admins, session, minted, crashes, created>>

SetInstanceMetadata ==
    /\ task[Start].at = "metadata"
    /\ metadata' = task[Start].device
    /\ task' = [task EXCEPT ![Start] = AfterStage("metadata", @.device)]
    /\ UNCHANGED <<up, secrets, users, admins, session, minted, crashes, created>>

(* The process ends: what is stored stays. *)
Crash ==
    /\ up
    /\ crashes < MaxCrashes
    /\ up' = FALSE
    /\ crashes' = crashes + 1
    /\ task' = [t \in Tasks |-> Idle]
    /\ session' = [c \in Caller |-> 0]
    /\ UNCHANGED <<secrets, metadata, users, admins, minted, created>>

(***************************************************************************)
(* create_user                                                             *)
(***************************************************************************)

RowsOf(name) == {r \in users : r.name = name}

(* A faulty variant of NameIsFree: nothing is looked up. *)
NameIsAnything(name) == TRUE

(* "Check if username already exists" *)
NameIsFree(name) == RowsOf(name) = {}

(* What follows the check of the name, the insertion and the promotion. *)
CreateStage(at) ==
    CASE at = "check" -> "insert" [] at = "insert" -> "promote" [] at = "promoted" -> "idle"

(* The task goes on, or is done: the start of the process has then returned *)
(* the instance.                                                            *)
GoesTo(t, at) ==
    /\ task' = [task EXCEPT ![t] = IF at = "idle" THEN Idle ELSE [@ EXCEPT !.at = at]]
    /\ created' = (created \/ (t = Start /\ at = "idle"))

(* The name is looked up, then the user's key and database are created. *)
CheckName(t) ==
    /\ task[t].at = "check"
    /\ \/ /\ NameIsFree(task[t].name)
          /\ minted < MaxUsers
          /\ minted' = minted + 1
          /\ task' = [task EXCEPT ![t] =
                        [at |-> CreateStage("check"), name |-> @.name, key |-> minted + 1,
                         signer |-> @.signer, creates |-> TRUE]]
       \/ /\ ~NameIsFree(task[t].name)
          /\ task' = [task EXCEPT ![t] = Idle]
          /\ minted' = minted
    /\ UNCHANGED <<up, secrets, metadata, users, admins, session, crashes, created>>

(* The row gets a generated primary key: no row is replaced. *)
InsertUser(t) ==
    /\ task[t].at = "insert"
    /\ users' = users \cup {[name |-> task[t].name, key |-> task[t].key]}
    /\ GoesTo(t, CreateStage("insert"))
    /\ UNCHANGED <<up, secrets, metadata, admins, session, minted, crashes>>

(* has_instance_admin *)
HasInstanceAdmin == admins["users"] # {}

(* First-admin bootstrap: the account is promoted when there is no admin. *)
Promote(t) ==
    /\ task[t].at = "promote"
    /\ GoesTo(t, IF HasInstanceAdmin THEN CreateStage("promoted") ELSE "grant users")
    /\ UNCHANGED <<up, secrets, metadata, users, admins, session, minted, crashes>>

(* The key that signs the grants is Admin there: the device always is. *)
MaySign(signer, db) == signer = Device \/ signer \in admins[db]

(* grant_admin_on_system_dbs: `_users` first *)
GrantUsers(t) ==
    /\ task[t].at = "grant users"
    /\ MaySign(task[t].signer, "users")
    /\ admins' = [admins EXCEPT !["users"] = @ \cup {task[t].key}]
    /\ GoesTo(t, "grant databases")
    /\ UNCHANGED <<up, secrets, metadata, users, session, minted, crashes>>

(* ... and `_databases` in a transaction of its own, which is refused when  *)
(* the signer is Admin on `_users` only.                                    *)
GrantDatabases(t) ==
    /\ task[t].at = "grant databases"
    /\ admins' = IF MaySign(task[t].signer, "databases")
                 THEN [admins EXCEPT !["databases"] = @ \cup {task[t].key}] ELSE admins
    /\ GoesTo(t, IF task[t].creates THEN CreateStage("promoted") ELSE "idle")
    /\ UNCHANGED <<up, secrets, metadata, users, session, minted, crashes>>

(***************************************************************************)
(* The calls                                                               *)
(***************************************************************************)

Ready(c) == up /\ task[Start] = Idle /\ task[c] = Idle

(* login_user: exactly one row has the name. *)
LoginUser(c, name) ==
    /\ Ready(c)
    /\ \E r \in users : RowsOf(name) = {r} /\ session' = [session EXCEPT ![c] = r.key]
    /\ UNCHANGED <<up, secrets, metadata, users, admins, task, minted, crashes, created>>

(* User::admin: the session's key is Admin on `_users`. *)
IsAdmin(c) == session[c] \in admins["users"]

(* admin_keyed_system_db, users_db_for_session: an admin's handles on the   *)
(* system databases are keyed by the session's own key.                     *)
SessionKey(c) == session[c]

(* InstanceAdmin::create_user, the handle on `_users` keyed by the admin;   *)
(* the first-admin bootstrap, which it never reaches, would be the device's.*)
CreateUser(c, name) ==
    /\ Ready(c)
    /\ IsAdmin(c)
    /\ minted < MaxUsers
    /\ task' = [task EXCEPT ![c] = [at |-> "check", name |-> name, signer |-> SessionKey(c)]]
    /\ UNCHANGED <<up, secrets, metadata, users, admins, session, minted, crashes, created>>

(* InstanceAdmin::grant_instance_admin, for the key of an account *)
GrantInstanceAdmin(c, k) ==
    /\ Ready(c)
    /\ IsAdmin(c)
    /\ k \in {r.key : r \in users}
    /\ task' = [task EXCEPT ![c] = [at |-> "grant users", key |-> k, signer |-> SessionKey(c),
                                    creates |-> FALSE]]
    /\ UNCHANGED <<up, secrets, metadata, users, admins, session, minted, crashes, created>>

Next ==
    \/ Create \/ Open \/ SetInstanceSecrets \/ SetInstanceMetadata \/ Crash
    \/ \E t \in Tasks : CheckName(t) \/ InsertUser(t) \/ Promote(t)
                        \/ GrantUsers(t) \/ GrantDatabases(t)
    \/ \E c \in Caller, name \in Name : LoginUser(c, name) \/ CreateUser(c, name)
    \/ \E c \in Caller, k \in Key : GrantInstanceAdmin(c, k)

Spec == Init /\ [][Next]_vars

(***************************************************************************)
(* Properties                                                              *)
(***************************************************************************)

(* Some admin's login is not refused: its name has one row. *)
SomeAdminCanLogIn == \E r \in users : r.key \in admins["users"] /\ RowsOf(r.name) = {r}

(* Once an instance was created, it can be opened with the device key its   *)
(* metadata names, and there is always an admin that can log in: the race   *)
(* of create_user, which leaves two accounts of a name that then both are   *)
(* refused at login, cannot hit the initial user, and no crash undoes it.   *)
AdminCanLogIn == created => secrets = metadata /\ SomeAdminCanLogIn

(* "The presence of the Metadata indicates the instance is fully            *)
(* initialized" (create_internal): an instance with metadata that is not    *)
(* being created has an admin who can log in.                               *)
MetadataMeansInitialized ==
    IsInitialized /\ task[Start] = Idle => SomeAdminCanLogIn
=============================================================================
