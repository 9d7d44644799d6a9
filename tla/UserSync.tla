------------------------------ MODULE UserSync ------------------------------
(***************************************************************************)
(* Which databases an instance syncs, and how often: sync/user.rs and      *)
(* sync/user_sync_manager.rs over the sync tree.  A user's preferences are *)
(* in a database of the user's own; sync_user copies them to the sync tree *)
(* (who tracks a database, and the settings combined over its users), and  *)
(* the write path and the handler obey what is there.                      *)
(*                                                                         *)
(* The preferences are written while sync_user runs, and several sync_user *)
(* run beside each other.  sync_user opens its transaction and takes the   *)
(* snapshot of the preferences, then reads the user's table, and at the    *)
(* end reads the tables of the other users: three steps here.              *)
(***************************************************************************)
EXTENDS SyncTree

CONSTANTS
    User,        \* users of the instance
    Db,          \* databases they may track
    Setting,     \* settings that enable sync: [commit |-> BOOLEAN, interval |-> Nat], 0 for None
    MaxCommits,  \* bound on the entries of the sync tree
    MaxEdits     \* bound on the versions of a user's preferences

VARIABLES
    log,      \* the sync tree
    prefs,    \* of every user: the version of the table `databases` and what is in it
    task,     \* of every user: the sync_user that runs for it
    removed,  \* the users for which remove_user was called
    forked    \* some transaction has committed beside another one

vars == <<log, prefs, task, removed, forked>>

Off == [commit |-> FALSE, interval |-> 0, enabled |-> FALSE]
On(s) == [commit |-> s.commit, interval |-> s.interval, enabled |-> TRUE]
Settings == {Off} \cup {On(s) : s \in Setting}

Idle == [at |-> "idle"]

TypeOK ==
    /\ \A u \in User : prefs[u].version \in 0..MaxEdits /\ prefs[u].table \in [Db -> Settings]
    /\ \A u \in User : task[u].at \in {"idle", "snapshot", "read"}
    /\ Len(log) <= MaxCommits
    /\ removed \subseteq User
    /\ forked \in BOOLEAN

Init ==
    /\ log = <<>>
    /\ prefs = [u \in User |-> [version |-> 0, table |-> [d \in Db |-> Off]]]
    /\ task = [u \in User |-> Idle]
    /\ removed = {}
    /\ forked = FALSE

(***************************************************************************)
(* The paths of the sync tree and their readers                            *)
(***************************************************************************)

(* get_tracked_user_state: the version that was processed last; -1 when the *)
(* user is not tracked or only just is.                                     *)
TrackedTips(seen, u) == ValueAt(log, seen, <<"tips", u>>, -1)

(* get_linked_users, get_linked_databases, get_combined_settings *)
LinkedUsers(seen, d) == ValueAt(log, seen, <<"users", d>>, {})
LinkedDatabases(seen, u) == {d \in Db : u \in LinkedUsers(seen, d)}
CombinedSettings(seen, d) == ValueAt(log, seen, <<"combined", d>>, Off)

(* merge_sync_settings: any of the flags, the least of the intervals given. *)
MergeSyncSettings(list) ==
    LET intervals == {s.interval : s \in list} \ {0}
    IN  [enabled |-> \E s \in list : s.enabled,
         commit |-> \E s \in list : s.commit,
         interval |-> IF intervals = {} THEN 0 ELSE Min(intervals)]

(* The settings of those linked users that have the database enabled now.   *)
(* Only a user the sync tree tracks is asked.                               *)
SettingsList(users, d) ==
    {prefs[v].table[d] : v \in {w \in users : prefs[w].table[d].enabled}}

(***************************************************************************)
(* The operations                                                          *)
(***************************************************************************)

(* The user edits the preferences: add_database, set_database_settings ... *)
SetPreference(u, d, s) ==
    /\ prefs[u].version < MaxEdits
    /\ prefs[u].table[d] # s
    /\ prefs' = [prefs EXCEPT ![u] = [version |-> @.version + 1,
                                      table |-> [@.table EXCEPT ![d] = s]]]
    /\ UNCHANGED <<log, task, removed, forked>>

(* sync_user, first part: the transaction begins and the snapshot of the    *)
(* preferences is compared with the tips that were processed last.          *)
SyncUserBegin(u) ==
    /\ task[u] = Idle
    /\ u \notin removed
    /\ Len(log) < MaxCommits
    /\ LET seen == Committed(log)
       IN  /\ TrackedTips(seen, u) # prefs[u].version
           /\ task' = [task EXCEPT ![u] =
                         [at |-> "snapshot", seen |-> seen, tips |-> prefs[u].version]]
    /\ UNCHANGED <<log, prefs, removed, forked>>

(* sync_user reads the rows of the user's own table. *)
SyncUserRead(u) ==
    /\ task[u].at = "snapshot"
    /\ task' = [task EXCEPT ![u] = [at |-> "read", seen |-> @.seen, tips |-> @.tips,
                                    current |-> {d \in Db : prefs[u].table[d].enabled}]]
    /\ UNCHANGED <<log, prefs, removed, forked>>

(* What unlink_user_from_database and link_user_to_database leave as the    *)
(* users of a database.                                                     *)
UsersAfter(seen, u, current, d) ==
    IF d \in current THEN LinkedUsers(seen, d) \cup {u}
    ELSE LinkedUsers(seen, d) \ {u}

(* A faulty variant of Affected: a database the user left is not revisited. *)
AffectedByLinks(seen, u, current) == current

(* The databases whose combined settings are recomputed. *)
Affected(seen, u, current) ==
    current \cup (LinkedDatabases(seen, u) \ current)

(* What get_linked_users answers to the same transaction: the record of a   *)
(* database that lost its last user is staged as deleted, and a DocStore    *)
(* that finds no value staged answers from what was committed.              *)
UsersRead(seen, u, current, d) ==
    LET after == UsersAfter(seen, u, current, d)
    IN  IF after = {} THEN LinkedUsers(seen, d) ELSE after

(* The paths a sync_user writes.  Deleting a record deletes what is below   *)
(* it; set_combined_settings is skipped when no linked user has the         *)
(* database enabled.                                                        *)
SyncUserWrites(t, u) ==
    LET affected == Affected(t.seen, u, t.current)
        touched == {d \in Db : UsersAfter(t.seen, u, t.current, d) # LinkedUsers(t.seen, d)}
        emptied == {d \in touched : UsersAfter(t.seen, u, t.current, d) = {}}
        list == [d \in Db |-> SettingsList(UsersRead(t.seen, u, t.current, d), d)]
        combined == {d \in affected : list[d] # {}}
        paths == {<<"tips", u>>}
                 \cup {<<"users", d>> : d \in touched}
                 \cup {<<"combined", d>> : d \in combined \cup emptied}
    IN  [p \in paths |->
           CASE p[1] = "tips" -> t.tips
             [] p[1] = "users" -> UsersAfter(t.seen, u, t.current, p[2])
             [] OTHER -> IF p[2] \in combined THEN MergeSyncSettings(list[p[2]]) ELSE Off]

(* sync_user, last part: everything is written by one entry. *)
SyncUserFinish(u) ==
    /\ task[u].at = "read"
    /\ Len(log) < MaxCommits
    /\ \E place \in Places(log, task[u].seen) :
          log' = WithEntry(log, place, SyncUserWrites(task[u], u))
    /\ forked' = (forked \/ ~Serial(log, task[u].seen))
    /\ task' = [task EXCEPT ![u] = Idle]
    /\ UNCHANGED <<prefs, removed>>

(* remove_user: the user is unlinked everywhere; a record without users is  *)
(* deleted; nothing is recomputed and the tracking of the user stays.       *)
RemoveUser(u) ==
    /\ task[u] = Idle
    /\ u \notin removed
    /\ Len(log) < MaxCommits
    /\ LET seen == Committed(log)
           linked == LinkedDatabases(seen, u)
           emptied == {d \in linked : LinkedUsers(seen, d) = {u}}
           paths == {<<"users", d>> : d \in linked} \cup {<<"combined", d>> : d \in emptied}
       IN  log' = WithEntry(log, Len(log) + 1,
                    [p \in paths |-> IF p[1] = "users" THEN LinkedUsers(seen, p[2]) \ {u}
                                     ELSE Off])
    /\ removed' = removed \cup {u}
    /\ UNCHANGED <<prefs, task, forked>>

Next ==
    \E u \in User :
        \/ \E d \in Db, s \in Settings : SetPreference(u, d, s)
        \/ SyncUserBegin(u)
        \/ SyncUserRead(u)
        \/ SyncUserFinish(u)
        \/ RemoveUser(u)

Spec == Init /\ [][Next]_vars

(***************************************************************************)
(* Properties                                                              *)
(***************************************************************************)

(* Everything that was asked for has been processed, one task at a time. *)
Settled ==
    /\ ~forked
    /\ \A u \in User : task[u] = Idle
    /\ \A u \in User : u \in removed \/ TrackedTips(Committed(log), u) = prefs[u].version

(* What the sync tree must say of a database: who of the users that are not *)
(* removed has it enabled, and the settings merged over these.              *)
Mirrors ==
    LET all == Committed(log)
    IN  \A d \in Db :
          LET users == {u \in User \ removed : prefs[u].table[d].enabled}
          IN  /\ LinkedUsers(all, d) = users
              /\ CombinedSettings(all, d) =
                   IF users = {} THEN Off
                   ELSE MergeSyncSettings({prefs[u].table[d] : u \in users})

(* When every user's preferences were processed, by one sync_user after the *)
(* other, the sync tree lists for every database exactly the users that     *)
(* have it enabled, and its combined settings are the most aggressive of    *)
(* theirs: also for a database a user has left, or left and taken up again, *)
(* and although the preferences change while they are read.                 *)
SettingsFollowPreferences == Settled /\ removed = {} => Mirrors
=============================================================================
