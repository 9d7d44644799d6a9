------------------------------ MODULE MCAccess ------------------------------
(***************************************************************************)
(* Keys and permissions, accounts, sessions, the daemon's connections and  *)
(* the records of the sync tree on small instances, explored side by side. *)
(* They share no state: `part` names the one whose behaviour this is, and  *)
(* the others stay in their initial state.  The walk of a delegation path, *)
(* the signed requests, the connection and its session are taken as they   *)
(* are, the rest is instantiated.                                          *)
(***************************************************************************)
EXTENDS Delegation, RequestAuth, Connection, Session

(* Sync on an interval, and sync on commit. *)
Settings == {[commit |-> FALSE, interval |-> 1], [commit |-> TRUE, interval |-> 0]}

VARIABLES
    part,
    keys, global, delegation, commits,
    kLog, manager, kTask, kMinted, authorized, calls, kForked,
    up, secrets, metadata, users, admins, aTask, aSession, aMinted, aCrashes, created,
    uLog, prefs, uTask, removed, uForked,
    pLog, call,
    level, wild, enabled, bLog, bTask, bChanges, bCrashes, have, bAnswer, revoked

I == INSTANCE Access WITH
        Key <- {"a", "b"}, Name <- {"n"}, Creator <- "a",
        MaxCommits <- 2
K == INSTANCE KeyRing WITH
        Session <- {"s", "t"}, Root <- "root", NewKey <- {"k"}, Own <- {"d"},
        Shared <- {"e"}, MaxCalls <- 2,
        log <- kLog, task <- kTask, minted <- kMinted, forked <- kForked
A == INSTANCE Accounts WITH
        Caller <- {"c", "d"}, First <- "admin", Other <- {"n"}, MaxUsers <- 3,
        MaxCrashes <- 2,
        task <- aTask, session <- aSession, minted <- aMinted, crashes <- aCrashes
U == INSTANCE UserSync WITH
        User <- {"u", "v"}, Db <- {"d"}, Setting <- Settings, MaxCommits <- 3,
        MaxEdits <- 2, log <- uLog, task <- uTask, forked <- uForked
P == INSTANCE PeerRegistry WITH
        Peer <- {"p"}, Tree <- {"t"}, Address <- {"a"}, Caller <- {"x", "y"},
        MaxCommits <- 3, log <- pLog
B == INSTANCE Bootstrap WITH
        UserKey <- "u", DeviceKey <- "d", Admins <- {"a", "b"}, Level <- {1, 2},
        MaxRequests <- 1, MaxChanges <- 2, MaxCrashes <- 1,
        log <- bLog, task <- bTask, changes <- bChanges, crashes <- bCrashes,
        answer <- bAnswer

Parts == {"delegation", "identity", "keyring", "accounts", "connection",
          "session", "usersync", "peers", "bootstrap", "request"}

AccessInit ==
    /\ part \in Parts
    /\ Init /\ RequestInit /\ ConnectionInit /\ SessionInit
    /\ I!Init /\ K!Init /\ A!Init /\ U!Init /\ P!Init /\ B!Init

identityVars == <<keys, global, delegation, commits>>
keyringVars == <<kLog, manager, kTask, kMinted, authorized, calls, kForked>>
accountsVars == <<up, secrets, metadata, users, admins, aTask, aSession, aMinted,
                  aCrashes, created>>
usersyncVars == <<uLog, prefs, uTask, removed, uForked>>
peersVars == <<pLog, call>>
bootstrapVars == <<level, wild, enabled, bLog, bTask, bChanges, bCrashes, have,
                   bAnswer, revoked>>

AccessNext ==
    /\ part' = part
    /\ IF part = "delegation" THEN Next ELSE UNCHANGED vars
    /\ IF part = "identity" THEN I!Next ELSE UNCHANGED identityVars
    /\ IF part = "keyring" THEN K!Next ELSE UNCHANGED keyringVars
    /\ IF part = "accounts" THEN A!Next ELSE UNCHANGED accountsVars
    /\ IF part = "connection" THEN ConnectionNext ELSE UNCHANGED connectionVars
    /\ IF part = "session" THEN SessionNext ELSE UNCHANGED sessionVars
    /\ IF part = "usersync" THEN U!Next ELSE UNCHANGED usersyncVars
    /\ IF part = "peers" THEN P!Next ELSE UNCHANGED peersVars
    /\ IF part = "bootstrap" THEN B!Next ELSE UNCHANGED bootstrapVars
    /\ IF part = "request" THEN RequestNext ELSE UNCHANGED requestVars

accessVars ==
    <<part, vars, identityVars, keyringVars, accountsVars, connectionVars,
      sessionVars, usersyncVars, peersVars, bootstrapVars, requestVars>>

AccessSpec == AccessInit /\ [][AccessNext]_accessVars

(***************************************************************************)
(* The properties of the instances, each of the part that its module       *)
(* describes.                                                              *)
(***************************************************************************)

(* The permission that find_sigkeys announces is the one validation grants. *)
DiscoveryMatchesValidation == part = "identity" => I!DiscoveryMatchesValidation

(* A tracked database has a key mapped to it that its settings give access. *)
TrackedIsUsable == part = "keyring" => K!TrackedIsUsable

(* Once the instance was created, some administrator can log in.            *)
AdminCanLogIn == part = "accounts" => A!AdminCanLogIn

(* The combined settings of a database follow its users' preferences.       *)
SettingsFollowPreferences == part = "usersync" => U!SettingsFollowPreferences

(* A blocked peer stays blocked through calls that begin later.             *)
BlockOutlivesLaterCalls == P!BlockOutlivesLaterCalls

(* An approved bootstrap request has its key listed, unless taken back.     *)
ApprovedIsListed == part = "bootstrap" => B!ApprovedIsListed
=============================================================================
