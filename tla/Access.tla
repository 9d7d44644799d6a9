------------------------------- MODULE Access -------------------------------
(***************************************************************************)
(* Who may do what to a database: its auth settings (auth/settings.rs,     *)
(* store/settings_store.rs), the keys and identities they name             *)
(* (auth/types/keys.rs) and the three ways the code asks them.             *)
(*  - discovery: Database::find_sigkeys and can_access, for a caller that  *)
(*    holds a key and looks for an identity;                               *)
(*  - resolution: resolve_identity_permission, behind                      *)
(*    Database::current_permission and every service request;              *)
(*  - validation: validate_entry, for every entry that is committed or     *)
(*    received.                                                            *)
(*                                                                         *)
(* Two databases: `main`, and `team` to which main may delegate.  Settings *)
(* change by committed entries only, one after another here; what happens  *)
(* when they are written beside each other is DocStore's and WritePath's   *)
(* subject.  A delegation is resolved at the current tips of the team.     *)
(***************************************************************************)
EXTENDS Permission, FiniteSets

CONSTANTS
    Key,         \* public keys; every one of them can sign
    Name,        \* names a key may be given
    Creator,     \* the key that created both databases
    MaxCommits   \* bound on the settings entries after the creation

VARIABLES
    keys,        \* of every database: the key each public key is listed with
    global,      \* of every database: the wildcard key
    delegation,  \* the bounds under which main delegates to team
    commits      \* entries committed so far

vars == <<keys, global, delegation, commits>>

Database == {"main", "team"}

(* An Option is a set of at most one value. *)
Optional(S) == {{}} \cup {{x} : x \in S}
AuthKey == [perm : Perms, status : {"Active", "Revoked"}, name : Optional(Name)]

TypeOK ==
    /\ keys \in [Database -> [Key -> Optional(AuthKey)]]
    /\ global \in [Database -> Optional(AuthKey)]
    /\ delegation \in Optional(Bounds)
    /\ commits \in 0..MaxCommits

(* Database::create lists the creating key as its administrator. *)
Init ==
    /\ keys = [d \in Database |-> [k \in Key |->
                  IF k = Creator THEN {[perm |-> Admin(0), status |-> "Active", name |-> {}]}
                  ELSE {}]]
    /\ global = [d \in Database |-> {}]
    /\ delegation = {}
    /\ commits = 0

(***************************************************************************)
(* Identities.  A hint names a public key, a name, or the wildcard with    *)
(* the public key that signs; the path of a delegation has one step.       *)
(***************************************************************************)

FromPubkey(k) == [pubkey |-> {k}, name |-> {}, is_global |-> FALSE]
FromName(n) == [pubkey |-> {}, name |-> {n}, is_global |-> FALSE]
GlobalHint(k) == [pubkey |-> {k}, name |-> {}, is_global |-> TRUE]

Direct(hint) == [via |-> "main", hint |-> hint]
ThroughTeam(hint) == [via |-> "team", hint |-> hint]

(* The identities a key can be used with. *)
Identities(k) ==
    LET hints == {FromPubkey(k), GlobalHint(k)} \cup {FromName(n) : n \in Name}
    IN  {Direct(h) : h \in hints} \cup {ThroughTeam(h) : h \in hints}

(***************************************************************************)
(* Resolution of a hint to the keys it may mean                            *)
(***************************************************************************)

Resolved(k, key) == [pubkey |-> k, perm |-> key.perm, status |-> key.status]

(* get_global_permission *)
GlobalPermission(d) == {g.perm : g \in {g \in global[d] : g.status = "Active"}}

(* resolve_hint: an error is no candidate, which every caller treats alike. *)
ResolveHint(d, hint) ==
    IF hint.is_global
    THEN {Resolved(k, g) : k \in hint.pubkey, g \in global[d]}
    ELSE IF hint.pubkey # {}
    THEN UNION {{Resolved(k, key) : key \in keys[d][k]} : k \in hint.pubkey}
    ELSE UNION {{Resolved(k, key) : key \in {key \in keys[d][k] :
                                                hint.name # {} /\ key.name = hint.name}} :
                k \in Key}

(* resolve_delegation_path: no wildcard at the end of a path, a declaration *)
(* in main's settings, and every candidate clamped to its bounds.           *)
ResolveDelegation(hint) ==
    IF hint.is_global THEN {}
    ELSE {[r EXCEPT !.perm = ClampPermission(r.perm, b)] :
             r \in ResolveHint("team", hint), b \in delegation}

(* resolve_sig_key, in the settings of main. *)
ResolveSigKey(sk) ==
    IF sk.via = "team" THEN ResolveDelegation(sk.hint) ELSE ResolveHint("main", sk.hint)

(* select_effective_permission: the highest of the active candidates. *)
SelectEffective(candidates, k) ==
    LET mine == {r.perm : r \in {r \in candidates : r.pubkey = k /\ r.status = "Active"}}
    IN  {p \in mine : \A q \in mine : AtMost(q, p)}

(***************************************************************************)
(* The three questions                                                     *)
(***************************************************************************)

(* find_all_sigkeys_for_pubkey, by the settings of one database. *)
SigKeysIn(d, k) ==
    {[hint |-> FromPubkey(k), perm |-> key.perm] :
        key \in {key \in keys[d][k] : key.status = "Active"}}
    \cup {[hint |-> GlobalHint(k), perm |-> p] : p \in GlobalPermission(d)}

(* A faulty variant of FindSigKeys: it reports what the team grants, without *)
(* asking the walker for the bounds.                                        *)
FindSigKeysUnclamped(k) ==
    {[sk |-> Direct(f.hint), perm |-> f.perm] : f \in SigKeysIn("main", k)}
    \cup {[sk |-> ThroughTeam(f.hint), perm |-> f.perm] :
             f \in {f \in SigKeysIn("team", k) : delegation # {} /\ ~f.hint.is_global}}

(* find_sigkeys: each listed delegation is resolved by the shared walker. *)
FindSigKeys(k) ==
    {[sk |-> Direct(f.hint), perm |-> f.perm] : f \in SigKeysIn("main", k)}
    \cup UNION {{[sk |-> ThroughTeam(f.hint), perm |-> p] :
                    p \in SelectEffective(ResolveSigKey(ThroughTeam(f.hint)), k)} :
                f \in {f \in SigKeysIn("team", k) : delegation # {}}}

(* can_access: the first identity found, sorted from the highest down. *)
CanAccess(k, perm) ==
    LET found == {f.perm : f \in FindSigKeys(k)}
    IN  \E p \in found : (\A q \in found : AtMost(q, p)) /\ AtMost(perm, p)

(* resolve_identity_permission, for the proven key k: a direct identity     *)
(* falls back to the wildcard when its hint gives no active key of k.       *)
ResolveIdentity(k, sk) ==
    IF sk.via = "team" THEN SelectEffective(ResolveDelegation(sk.hint), k)
    ELSE IF sk.hint.pubkey \notin {{}, {k}} THEN {}
    ELSE IF sk.hint.is_global THEN GlobalPermission("main")
    ELSE LET own == SelectEffective(ResolveHint("main", sk.hint), k)
         IN  IF own # {} THEN own ELSE GlobalPermission("main")

HasAuth(d) == (\E k \in Key : keys[d][k] # {}) \/ GlobalPermission(d) # {}

(* validate_entry of an entry signed by k under the identity sk: some       *)
(* active candidate is the signer and may do what the entry does.           *)
ValidateEntry(k, sk, operation) ==
    /\ HasAuth("main")
    /\ \E r \in ResolveSigKey(sk) :
          /\ r.status = "Active"
          /\ r.pubkey = k
          /\ CheckPermissions(r.perm, operation)

(* The same for the team, which delegates to nobody. *)
ValidateTeamEntry(k, hint, operation) ==
    /\ HasAuth("team")
    /\ \E r \in ResolveHint("team", hint) :
          r.status = "Active" /\ r.pubkey = k /\ CheckPermissions(r.perm, operation)

(***************************************************************************)
(* Settings entries.  The signer commits what SettingsStore staged; the    *)
(* entry is refused, and nothing changes, unless it validates.             *)
(***************************************************************************)

MayWriteSettings(d) ==
    /\ commits < MaxCommits
    /\ \E k \in Key :
          IF d = "main" THEN \E sk \in Identities(k) : ValidateEntry(k, sk, "WriteSettings")
          ELSE \E sk \in Identities(k) : ValidateTeamEntry(k, sk.hint, "WriteSettings")
    /\ commits' = commits + 1

(* set_auth_key: whatever was listed for the key is overwritten. *)
SetAuthKey(d, k, key) ==
    /\ MayWriteSettings(d)
    /\ keys' = [keys EXCEPT ![d][k] = {key}]
    /\ UNCHANGED <<global, delegation>>

(* rename_auth_key *)
RenameAuthKey(d, k, name) ==
    /\ keys[d][k] # {}
    /\ MayWriteSettings(d)
    /\ keys' = [keys EXCEPT ![d][k] = {[key EXCEPT !.name = name] : key \in @}]
    /\ UNCHANGED <<global, delegation>>

(* revoke_auth_key *)
RevokeAuthKey(d, k) ==
    /\ keys[d][k] # {}
    /\ MayWriteSettings(d)
    /\ keys' = [keys EXCEPT ![d][k] = {[key EXCEPT !.status = "Revoked"] : key \in @}]
    /\ UNCHANGED <<global, delegation>>

(* set_global_auth_key *)
SetGlobalAuthKey(d, key) ==
    /\ MayWriteSettings(d)
    /\ global' = [global EXCEPT ![d] = {key}]
    /\ UNCHANGED <<keys, delegation>>

(* add_delegated_tree *)
AddDelegatedTree(bounds) ==
    /\ MayWriteSettings("main")
    /\ delegation' = {bounds}
    /\ UNCHANGED <<keys, global>>

Next ==
    \/ \E d \in Database, k \in Key, p \in Perms, n \in Optional(Name) :
          SetAuthKey(d, k, [perm |-> p, status |-> "Active", name |-> n])
    \/ \E d \in Database, k \in Key, n \in Optional(Name) : RenameAuthKey(d, k, n)
    \/ \E d \in Database, k \in Key : RevokeAuthKey(d, k)
    \/ \E d \in Database, p \in Perms, s \in {"Active", "Revoked"} :
          SetGlobalAuthKey(d, [perm |-> p, status |-> s, name |-> {}])
    \/ \E b \in Bounds : AddDelegatedTree(b)

Spec == Init /\ [][Next]_vars

(***************************************************************************)
(* Properties                                                              *)
(***************************************************************************)

(* Discovery overlooks nothing within one hop: when an entry of the key     *)
(* would be accepted under some identity, the pubkey-only decision (a       *)
(* bootstrap request, say) says yes as well, and the other way round.       *)
DiscoveryMatchesValidation ==
    \A k \in Key :
        /\ (\E sk \in Identities(k) : ValidateEntry(k, sk, "WriteData"))
              <=> CanAccess(k, Write(PriorityMax))
        /\ (\E sk \in Identities(k) : ValidateEntry(k, sk, "WriteSettings"))
              <=> CanAccess(k, Admin(PriorityMax))
=============================================================================
