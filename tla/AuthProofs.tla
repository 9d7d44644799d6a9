----------------------------- MODULE AuthProofs -----------------------------
(***************************************************************************)
(* Who may do what, and how often: what a delegation path can give a key,  *)
(* for every largest priority and every length of path; a signed request   *)
(* is served at most once in a life of the server, for every window, every *)
(* skew of the clients' clocks and every number of requests; and the keys  *)
(* a client takes for registered on its connection are, for every number   *)
(* of tasks, users and keys.                                               *)
(***************************************************************************)
EXTENDS Delegation, RequestAuth, Session, TLAPS

(* The order of permissions is total on their values and separates the     *)
(* kinds: any Admin is above any Write, any Write is above Read, whatever  *)
(* the priorities (permissions.rs:36-46).                                  *)
LEMMA KindsAreOrdered ==
  \A p, q \in Priority : /\ ~AtMost(Write(p), Read)
                         /\ ~AtMost(Admin(q), Write(p))
  BY PriorityAssumption DEF Priority, AtMost, OrderingValue, Read, Write, Admin

(* Every permission has a natural number as its value. *)
LEMMA ValueIsNat == \A p \in Perms : OrderingValue(p) \in Nat
  BY PriorityAssumption DEF Perms, Priority, OrderingValue

(* The comparison of permissions is transitive and total. *)
LEMMA OrderLaws ==
  ASSUME NEW p \in Perms, NEW q \in Perms, NEW r \in Perms
  PROVE  /\ AtMost(p, p)
         /\ AtMost(p, q) \/ AtMost(q, p)
         /\ AtMost(p, q) /\ AtMost(q, r) => AtMost(p, r)
  BY ValueIsNat DEF AtMost

(* Two permissions of the same value are the same permission, so "highest" *)
(* names one permission and not several (permissions.rs:40-46).            *)
THEOREM OrderIsStrict ==
  ASSUME NEW p \in Perms, NEW q \in Perms, AtMost(p, q), AtMost(q, p)
  PROVE  p = q
<1>1. OrderingValue(p) = OrderingValue(q)
  BY ValueIsNat DEF AtMost
<1>2. /\ p.kind \in {"Read", "Write", "Admin"} /\ p.priority \in 0..PriorityMax
      /\ q.kind \in {"Read", "Write", "Admin"} /\ q.priority \in 0..PriorityMax
      /\ p.kind = "Read" => p.priority = 0
      /\ q.kind = "Read" => q.priority = 0
  BY PriorityAssumption DEF Perms, Priority
<1>3. /\ p.kind = "Read" => OrderingValue(p) = 0
      /\ q.kind = "Read" => OrderingValue(q) = 0
      /\ p.kind = "Write" => OrderingValue(p) = 1 + PriorityMax - p.priority
      /\ q.kind = "Write" => OrderingValue(q) = 1 + PriorityMax - q.priority
      /\ p.kind = "Admin" => OrderingValue(p) = 2 + 2 * PriorityMax - p.priority
      /\ q.kind = "Admin" => OrderingValue(q) = 2 + 2 * PriorityMax - q.priority
  BY DEF OrderingValue
<1>4. p.kind = q.kind /\ p.priority = q.priority
  BY <1>1, <1>2, <1>3, PriorityAssumption, SMTT(30)
<1> QED BY <1>4 DEF Perms

(* A clamped permission is a permission, stays under the maximum, and is   *)
(* above the permission it came from only when it is the declared minimum. *)
LEMMA ClampLaws ==
  ASSUME NEW p \in Perms, NEW b \in Bounds
  PROVE  /\ ClampPermission(p, b) \in Perms
         /\ AtMost(ClampPermission(p, b), b.max)
         /\ ~AtMost(ClampPermission(p, b), p) => ClampPermission(p, b) \in b.min
<1>1. b.max \in Perms /\ b.min \in SUBSET Perms
  BY DEF Bounds
<1>2. b.min = {} \/ \E m \in Perms : b.min = {m}
  BY DEF Bounds
<1>3. CASE ~AtMost(p, b.max)
  BY <1>1, <1>3, OrderLaws DEF ClampPermission
<1>4. CASE AtMost(p, b.max) /\ ValidatePermissionBounds(b)
           /\ \E m \in b.min : ~AtMost(m, p)
  <2>1. PICK m \in Perms : b.min = {m}
    BY <1>2, <1>4
  <2>2. ClampPermission(p, b) = m
    BY <1>4, <2>1 DEF ClampPermission
  <2> QED BY <1>4, <2>1, <2>2 DEF ValidatePermissionBounds
<1>5. CASE AtMost(p, b.max) /\ ~(ValidatePermissionBounds(b)
           /\ \E m \in b.min : ~AtMost(m, p))
  BY <1>1, <1>5, OrderLaws DEF ClampPermission
<1> QED BY <1>3, <1>4, <1>5

(* can_delegate_with_bounds: under bounds that a permission may delegate    *)
(* with, no key is clamped to more than that permission.                    *)
THEOREM DelegatorIsNotExceeded ==
  ASSUME NEW p \in Perms, NEW q \in Perms, NEW b \in Bounds,
         CanDelegateWithBounds(p, b)
  PROVE  AtMost(ClampPermission(q, b), p)
<1>1. b.max \in Perms /\ AtMost(b.max, p)
  BY DEF Bounds, CanDelegateWithBounds
<1>2. ClampPermission(q, b) \in Perms /\ AtMost(ClampPermission(q, b), b.max)
  BY ClampLaws
<1> QED
  BY <1>1, <1>2, OrderLaws

(* Combining bounds keeps both maxima and invents no minimum. *)
LEMMA CombineLaws ==
  ASSUME NEW a \in Bounds, NEW b \in Bounds
  PROVE  /\ CombineBounds(a, b) \in Bounds
         /\ AtMost(CombineBounds(a, b).max, a.max)
         /\ AtMost(CombineBounds(a, b).max, b.max)
         /\ CombineBounds(a, b).min \subseteq a.min \cup b.min
<1>1. a.max \in Perms /\ b.max \in Perms
  BY DEF Bounds
<1>2. /\ a.min = {} \/ \E m \in Perms : a.min = {m}
      /\ b.min = {} \/ \E m \in Perms : b.min = {m}
  BY DEF Bounds
<1>3. /\ Lower(a.max, b.max) \in Perms
      /\ AtMost(Lower(a.max, b.max), a.max)
      /\ AtMost(Lower(a.max, b.max), b.max)
  BY <1>1, OrderLaws DEF Lower
<1>4. /\ CombinedMin(a.min, b.min) \subseteq a.min \cup b.min
      /\ CombinedMin(a.min, b.min) \in {{}} \cup {{p} : p \in Perms}
  <2>1. CASE a.min = {}
    BY <1>2, <2>1 DEF CombinedMin
  <2>2. CASE a.min # {} /\ b.min = {}
    BY <1>2, <2>2 DEF CombinedMin
  <2>3. CASE a.min # {} /\ b.min # {}
    <3>1. PICK m \in Perms : a.min = {m}
      BY <1>2, <2>3
    <3>2. PICK n \in Perms : b.min = {n}
      BY <1>2, <2>3
    <3>3. CombinedMin(a.min, b.min) = {Higher(m, n)}
      BY <3>1, <3>2 DEF CombinedMin
    <3>4. Higher(m, n) \in {m, n}
      BY DEF Higher
    <3> QED BY <3>1, <3>2, <3>3, <3>4
  <2> QED BY <2>1, <2>2, <2>3
<1> QED BY <1>3, <1>4 DEF CombineBounds, Bounds

-----------------------------------------------------------------------------
(* What the walk maintains: there are collected bounds once a step was     *)
(* walked, they are one value, under every declared maximum, with no       *)
(* minimum that no step declares; and the result, once there, came from    *)
(* them.                                                                   *)
CollectedCoverPath ==
  /\ path = <<>> => collected = {}
  /\ path # <<>> => \E c \in Bounds : collected = {c}
  /\ \A c \in collected, i \in DOMAIN path : AtMost(c.max, path[i].max)
  /\ \A c \in collected : \A m \in c.min : \E i \in DOMAIN path : m \in path[i].min

WalkInv == TypeOK /\ CollectedCoverPath /\ WithinEveryMaximum /\ RaisedOnlyToAMinimum

(* A step keeps the collected bounds under every maximum walked. *)
LEMMA StepKeeps ==
  ASSUME WalkInv, NEW b \in Bounds, Step(b)
  PROVE  WalkInv'
<1> USE DEF WalkInv, Step
<1>1. /\ path \in Seq(Bounds)
      /\ path' = Append(path, b)
      /\ path' \in Seq(Bounds)
      /\ path' # <<>>
      /\ DOMAIN path' = DOMAIN path \cup {Len(path) + 1}
      /\ \A i \in DOMAIN path : path'[i] = path[i] /\ path[i] \in Bounds
      /\ path'[Len(path) + 1] = b
      /\ Len(path) + 1 \in DOMAIN path'
      /\ \A i \in DOMAIN path : i \in DOMAIN path'
  BY DEF TypeOK
<1>2. PICK d \in Bounds : /\ collected' = {d}
                          /\ AtMost(d.max, b.max)
                          /\ \A c \in collected : AtMost(d.max, c.max)
                          /\ \A m \in d.min : m \in b.min \/ \E c \in collected : m \in c.min
  <2>1. CASE path = <<>>
    <3>1. collected' = {b}
      BY <2>1 DEF CollectedCoverPath
    <3>2. b.max \in Perms
      BY DEF Bounds
    <3> QED BY <2>1, <3>1, <3>2, OrderLaws DEF CollectedCoverPath
  <2>2. CASE path # <<>>
    <3>1. PICK c \in Bounds : collected = {c}
      BY <2>2 DEF CollectedCoverPath
    <3>2. collected' = {CombineBounds(c, b)}
      BY <3>1
    <3> QED BY <3>1, <3>2, CombineLaws
  <2> QED BY <2>1, <2>2
<1>3. TypeOK'
  BY <1>1, <1>2 DEF TypeOK
<1>4. CollectedCoverPath'
  <2>1. ASSUME NEW c \in collected', NEW i \in DOMAIN path'
        PROVE  AtMost(c.max, path'[i].max)
    <3>1. c = d /\ d.max \in Perms /\ b.max \in Perms
      BY <1>2 DEF Bounds
    <3>2. CASE i = Len(path) + 1
      BY <1>1, <1>2, <3>1, <3>2
    <3>3. CASE i \in DOMAIN path
      <4>1. path # <<>>
        BY <1>1, <3>3
      <4>2. PICK e \in Bounds : collected = {e}
        BY <4>1 DEF CollectedCoverPath
      <4>3. AtMost(d.max, e.max) /\ AtMost(e.max, path[i].max)
        BY <1>2, <3>3, <4>2 DEF CollectedCoverPath
      <4>4. e.max \in Perms /\ path[i].max \in Perms
        BY <1>1, <3>3 DEF Bounds
      <4> QED BY <1>1, <3>1, <3>3, <4>3, <4>4, OrderLaws
    <3> QED BY <1>1, <3>2, <3>3
  <2>2. ASSUME NEW c \in collected', NEW m \in c.min
        PROVE  \E i \in DOMAIN path' : m \in path'[i].min
    <3>1. CASE m \in b.min
      BY <1>1, <3>1
    <3>2. CASE \E e \in collected : m \in e.min
      <4>1. PICK i \in DOMAIN path : m \in path[i].min
        BY <3>2 DEF CollectedCoverPath
      <4> QED BY <1>1, <4>1
    <3> QED BY <1>2, <3>1, <3>2
  <2> QED BY <1>1, <1>2, <2>1, <2>2 DEF CollectedCoverPath
<1>5. effective' = {}
  BY DEF NotYet
<1> QED BY <1>3, <1>4, <1>5 DEF WithinEveryMaximum, RaisedOnlyToAMinimum

(* Resolving the key at the end clamps it under every maximum walked. *)
LEMMA ResolveKeeps ==
  ASSUME WalkInv, NEW p \in Perms, Resolve(p)
  PROVE  WalkInv'
<1> USE DEF WalkInv, Resolve
<1>1. PICK c \in Bounds : collected = {c}
  BY DEF CollectedCoverPath
<1>2. effective' = {ClampPermission(p, c)} /\ own' = {p}
  BY <1>1
<1>3. TypeOK'
  BY <1>2, ClampLaws DEF TypeOK
<1>4. CollectedCoverPath'
  BY DEF CollectedCoverPath
<1>5. WithinEveryMaximum'
  <2>1. ASSUME NEW i \in DOMAIN path
        PROVE  AtMost(ClampPermission(p, c), path[i].max)
    <3>1. AtMost(ClampPermission(p, c), c.max) /\ ClampPermission(p, c) \in Perms
      BY ClampLaws
    <3>2. AtMost(c.max, path[i].max)
      BY <1>1 DEF CollectedCoverPath
    <3>3. path[i] \in Bounds
      BY DEF TypeOK
    <3>4. c.max \in Perms /\ path[i].max \in Perms
      BY <3>3 DEF Bounds
    <3> QED BY <3>1, <3>2, <3>4, OrderLaws
  <2> QED BY <1>2, <2>1 DEF WithinEveryMaximum
<1>6. RaisedOnlyToAMinimum'
  <2>1. ASSUME ~AtMost(ClampPermission(p, c), p)
        PROVE  \E i \in DOMAIN path : ClampPermission(p, c) \in path[i].min
    BY <1>1, <2>1, ClampLaws DEF CollectedCoverPath
  <2> QED BY <1>2, <2>1 DEF RaisedOnlyToAMinimum
<1> QED BY <1>3, <1>4, <1>5, <1>6

(* The walk invariant holds throughout. *)
LEMMA WalkInvariance == Spec => []WalkInv
<1>1. Init => WalkInv
  BY DEF Init, WalkInv, TypeOK, CollectedCoverPath, WithinEveryMaximum,
         RaisedOnlyToAMinimum, NotYet
<1>2. WalkInv /\ [Next]_vars => WalkInv'
  <2> SUFFICES ASSUME WalkInv, [Next]_vars PROVE WalkInv'
    OBVIOUS
  <2>1. CASE \E b \in Bounds : Step(b)
    BY <2>1, StepKeeps
  <2>2. CASE \E p \in Perms : Resolve(p)
    BY <2>2, ResolveKeeps
  <2>3. CASE UNCHANGED vars
    BY <2>3 DEF vars, WalkInv, TypeOK, CollectedCoverPath, WithinEveryMaximum,
                RaisedOnlyToAMinimum
  <2> QED BY <2>1, <2>2, <2>3 DEF Next
<1> QED BY <1>1, <1>2, PTL DEF Spec

(* For every largest priority and every path length: a delegated key never *)
(* gets more than the maximum of each step of its path.                    *)
THEOREM DelegationIsBounded == Spec => []WithinEveryMaximum
  BY WalkInvariance, PTL DEF WalkInv

(* For every largest priority and every path length: a delegated key is    *)
(* above its own tree's grant only at a minimum some step declares.        *)
THEOREM DelegationRaisesToMinimum == Spec => []RaisedOnlyToAMinimum
  BY WalkInvariance, PTL DEF WalkInv

-----------------------------------------------------------------------------
(* Signed requests.                                                        *)

(* The constants are what the code has: a number of milliseconds, and any  *)
(* bound on the clocks.                                                    *)
ConstantsOK == Window \in Nat /\ Skew \in Nat /\ MaxTime \in Nat

(* A nonce belongs to one request; a request that was accepted is still    *)
(* remembered or is behind the window for good; no remembered request is   *)
(* ahead of the window, and nothing was accepted twice.                    *)
NoncesInv ==
  /\ now \in Int
  /\ sent \subseteq [nonce : Nonce, timestamp : Int]
  /\ spent \subseteq sent
  /\ accepted \in [Nonce -> {0, 1}]
  /\ \A r, s \in sent : r.nonce = s.nonce => r = s
  /\ \A r \in sent : accepted[r.nonce] = 1 => r \in spent \/ r.timestamp + Window < now
  /\ \A r \in spent : r.timestamp <= now + Window
  /\ \A n \in Nonce : accepted[n] = 1 => \E r \in sent : r.nonce = n

(* What has left the window as time goes on does not come back, and what a *)
(* remembered request is pruned for is that it has left.                   *)
LEMMA TickKeeps ==
  ASSUME ConstantsOK, NoncesInv, Tick
  PROVE  NoncesInv'
  BY DEF ConstantsOK, NoncesInv, Tick

(* A freshly signed request has a nonce that was never accepted. *)
LEMMA SignKeeps ==
  ASSUME ConstantsOK, NoncesInv, NEW n \in Nonce, NEW t \in Int, Sign(n, t)
  PROVE  NoncesInv'
<1> DEFINE q == [nonce |-> n, timestamp |-> t]
<1>1. sent' = sent \cup {q} /\ now' = now /\ spent' = spent /\ accepted' = accepted
  BY DEF Sign
<1>2. q \in [nonce : Nonce, timestamp : Int] /\ q.nonce = n
  OBVIOUS
<1>3. \A r \in sent : r.nonce # n
  BY DEF Sign
<1>4. accepted[n] = 0
  BY <1>3 DEF NoncesInv
<1> HIDE DEF q
<1> QED BY <1>1, <1>2, <1>3, <1>4 DEF NoncesInv

(* A copy is accepted only if its nonce is neither remembered nor out of   *)
(* the window, which leaves only the first one.                            *)
LEMMA AuthenticateKeeps ==
  ASSUME ConstantsOK, NoncesInv, NEW r \in sent, AuthenticateRequest(r)
  PROVE  NoncesInv'
<1>1. /\ now \in Int
      /\ r.timestamp \in Int /\ r.nonce \in Nonce
      /\ Window \in Nat
  BY DEF NoncesInv, ConstantsOK
<1>2. /\ spent' = Retained \cup {r}
      /\ now' = now /\ sent' = sent
      /\ AbsDiff(now, r.timestamp) <= Window
  BY DEF AuthenticateRequest, Remembered
<1>3. now <= r.timestamp + Window /\ r.timestamp <= now + Window
  BY <1>1, <1>2 DEF AbsDiff
<1>4. Retained \subseteq spent
  BY DEF Retained
<1>5. \A s \in spent : s \in Retained \/ s.timestamp + Window < now
  <2> SUFFICES ASSUME NEW s \in spent, ~(s.timestamp + Window < now)
               PROVE  s \in Retained
    OBVIOUS
  <2>1. s.timestamp \in Int /\ s.timestamp <= now + Window
    BY DEF NoncesInv
  <2>2. AbsDiff(now, s.timestamp) <= Window
    BY <1>1, <2>1 DEF AbsDiff
  <2> QED BY <2>2 DEF Retained
<1>6. accepted' \in [Nonce -> {0, 1}]
      /\ \A n \in Nonce : accepted'[n] = 1 => accepted[n] = 1 \/ n = r.nonce
  <2>1. CASE \E s \in Retained : s.nonce = r.nonce
    BY <2>1 DEF AuthenticateRequest, NoncesInv
  <2>2. CASE ~\E s \in Retained : s.nonce = r.nonce
    <3>1. accepted[r.nonce] # 1
      BY <1>1, <1>3, <1>5, <2>2 DEF NoncesInv
    <3>2. accepted[r.nonce] = 0
      BY <1>1, <3>1 DEF NoncesInv
    <3>3. accepted' = [accepted EXCEPT ![r.nonce] = 1]
      BY <1>1, <2>2, <3>2 DEF AuthenticateRequest, NoncesInv
    <3> QED BY <1>1, <3>3 DEF NoncesInv
  <2> QED BY <2>1, <2>2
<1>7. \A s \in sent : accepted'[s.nonce] = 1 => s \in spent' \/ s.timestamp + Window < now
  <2> SUFFICES ASSUME NEW s \in sent, accepted'[s.nonce] = 1
               PROVE  s \in spent' \/ s.timestamp + Window < now
    OBVIOUS
  <2>1. s.nonce \in Nonce
    BY DEF NoncesInv
  <2>2. CASE s.nonce = r.nonce
    BY <1>2, <2>2 DEF NoncesInv
  <2>3. CASE accepted[s.nonce] = 1
    BY <1>2, <1>5, <2>3 DEF NoncesInv
  <2> QED BY <1>6, <2>1, <2>2, <2>3
<1>8. \A s \in spent' : s \in sent /\ s.timestamp <= now + Window
  BY <1>2, <1>3, <1>4 DEF NoncesInv
<1> QED BY <1>1, <1>2, <1>6, <1>7, <1>8 DEF NoncesInv

(* For every window, skew and number of requests: a copy of a request that *)
(* was served is never served again by the same process.                   *)
THEOREM RequestsAreServedOnce ==
  ASSUME ConstantsOK
  PROVE  RequestSpec => []AcceptedOnce
<1>1. RequestInit => NoncesInv
  BY DEF RequestInit, NoncesInv
<1>2. NoncesInv /\ [RequestNext]_requestVars => NoncesInv'
  <2> SUFFICES ASSUME NoncesInv, [RequestNext]_requestVars PROVE NoncesInv'
    OBVIOUS
  <2>1. CASE Tick
    BY <2>1, TickKeeps
  <2>2. CASE \E n \in Nonce, t \in (now - Skew)..(now + Skew) : Sign(n, t)
    BY <2>2, SignKeeps DEF NoncesInv, ConstantsOK
  <2>3. CASE \E r \in sent : AuthenticateRequest(r)
    BY <2>3, AuthenticateKeeps
  <2>4. CASE UNCHANGED requestVars
    BY <2>4 DEF requestVars, NoncesInv
  <2> QED BY <2>1, <2>2, <2>3, <2>4 DEF RequestNext
<1>3. NoncesInv => AcceptedOnce
  BY DEF NoncesInv, AcceptedOnce
<1> QED BY <1>1, <1>2, <1>3, PTL DEF RequestSpec

-----------------------------------------------------------------------------
(* A login that is under way or proved is that of a user, and a key that   *)
(* is being registered is one.                                             *)
WhoInv ==
    /\ conn.at # "PreAuth" => conn.user \in User
    /\ \A t \in Task : task[t].at = "proved" => task[t].key \in User
    /\ \A t \in Task : task[t].at \in {"registering", "joined"} => task[t].key \in Key

(* Before the first login nobody is anybody.  On a connection that logged  *)
(* in once the keyset only grows, and every key the client knows or is     *)
(* about to know as registered was put into it first; until the login is   *)
(* proved no task is further than the challenge.                           *)
OnceInv ==
    /\ logins = 0 => conn.at = "PreAuth" /\ \A t \in Task : task[t].at = "idle"
    /\ logins \in {0, 1} /\ ~ Authenticated =>
         /\ registered = {}
         /\ \A t \in Task : task[t].at \in {"idle", "challenged"}
    /\ logins = 1 /\ Authenticated =>
         /\ registered \subseteq keyset
         /\ \A t \in Task : task[t].at \in {"proved", "joined"} => task[t].key \in keyset

SessionInv == SessionTypeOK /\ WhoInv /\ OnceInv

(* What the handlers put into the variables has its type. *)
LEMMA Records ==
  /\ Idle \in TaskState /\ None \in Answer
  /\ \A at \in {"idle", "challenged", "proved", "registering", "joined"},
        k \in Key \cup {Nobody}, n \in 0..MaxChallenges :
        [at |-> at, key |-> k, challenge |-> n] \in TaskState
  /\ \A at \in {"PreAuth", "AwaitingProof", "Authenticated"},
        u \in User \cup {Nobody}, n \in 0..MaxChallenges :
        [at |-> at, user |-> u, challenge |-> n] \in ConnectionState
  /\ \A op \in {"none", "read", "entry", "metadata", "submit"},
        k \in Key \cup {Nobody}, d \in Trees, o \in Trees :
        [op |-> op, key |-> k, root |-> d, owner |-> o] \in Answer
  BY SessionAssumption DEF Idle, None, TaskState, ConnectionState, Answer, Trees

(* What their fields are. *)
LEMMA Fields ==
  /\ \A s \in TaskState : s.key \in Key \cup {Nobody} /\ s.challenge \in 0..MaxChallenges
  /\ \A s \in ConnectionState : s.user \in User \cup {Nobody}
  BY DEF TaskState, ConnectionState

LEMMA TrustedLoginUserKeeps ==
  ASSUME SessionInv, NEW t \in Task, NEW u \in User, TrustedLoginUser(t, u)
  PROVE  SessionInv'
<1> USE SessionAssumption DEF SessionInv, TrustedLoginUser, Mint, Becomes, settings
<1>1. SessionTypeOK'
  BY Records, Fields DEF SessionTypeOK, WhoInv, Key, Level
<1>2. WhoInv'
  BY DEF SessionTypeOK, WhoInv, Idle, TaskState, ConnectionState
<1>3. OnceInv'
  BY DEF SessionTypeOK, OnceInv, Authenticated, Idle, TaskState, ConnectionState
<1> QED BY <1>1, <1>2, <1>3

LEMMA TrustedLoginUnknownKeeps ==
  ASSUME SessionInv, NEW t \in Task, TrustedLoginUnknown(t)
  PROVE  SessionInv'
<1> USE SessionAssumption DEF SessionInv, TrustedLoginUnknown, client, settings
<1>1. SessionTypeOK'
  <2>1. conn' \in ConnectionState
    <3>1. conn' = [at |-> "PreAuth", user |-> Nobody, challenge |-> 0] /\ 0 \in 0..MaxChallenges
      OBVIOUS
    <3> QED BY <3>1 DEF ConnectionState
  <2>2. challenges' \in [Key -> 0..MaxChallenges] /\ logins' \in 0..MaxLogins
    BY DEF SessionTypeOK
  <2> QED BY <2>1, <2>2, Records DEF SessionTypeOK
<1>2. WhoInv'
  BY DEF SessionTypeOK, WhoInv, Idle, TaskState, ConnectionState
<1>3. OnceInv'
  BY DEF SessionTypeOK, OnceInv, Authenticated, Idle, TaskState, ConnectionState
<1> QED BY <1>1, <1>2, <1>3

LEMMA WrongPasswordKeeps ==
  ASSUME SessionInv, NEW t \in Task, WrongPassword(t)
  PROVE  SessionInv'
<1> USE SessionAssumption DEF SessionInv, WrongPassword, settings
<1>1. SessionTypeOK'
  BY Records, Fields DEF SessionTypeOK, WhoInv, Key, Level
<1>2. WhoInv'
  BY DEF SessionTypeOK, WhoInv, Idle, TaskState, ConnectionState
<1>3. OnceInv'
  BY DEF SessionTypeOK, OnceInv, Authenticated, Idle, TaskState, ConnectionState
<1> QED BY <1>1, <1>2, <1>3

LEMMA TrustedLoginProveKeeps ==
  ASSUME SessionInv, NEW t \in Task, TrustedLoginProve(t)
  PROVE  SessionInv'
<1>1. /\ SessionTypeOK /\ WhoInv /\ OnceInv
      /\ UNCHANGED <<minted, logins, session, registered, exists, granted, changes>>
      /\ answer' = None /\ None \in Answer /\ Idle \in TaskState /\ Idle.at = "idle"
      /\ task \in [Task -> TaskState] /\ logins \in Nat
  BY SessionAssumption, Records DEF SessionInv, TrustedLoginProve, SessionTypeOK, settings, Idle
<1>2. CASE conn' = conn /\ keyset' = keyset /\ challenges' = challenges
           /\ task' = [task EXCEPT ![t] = Idle]
  <2>1. SessionTypeOK'
    BY <1>1, <1>2 DEF SessionTypeOK
  <2>2. WhoInv'
    BY <1>1, <1>2 DEF WhoInv
  <2>3. OnceInv'
    BY <1>1, <1>2 DEF OnceInv, Authenticated
  <2> QED BY <2>1, <2>2, <2>3 DEF SessionInv
<1>3. CASE /\ conn.at = "AwaitingProof"
           /\ conn' = [at |-> "PreAuth", user |-> Nobody, challenge |-> 0]
           /\ keyset' = keyset /\ challenges' = challenges
           /\ task' = [task EXCEPT ![t] = Idle]
  <2>1. conn' \in ConnectionState /\ conn'.at = "PreAuth"
    BY <1>3, SessionAssumption, Records
  <2>2. SessionTypeOK'
    BY <1>1, <1>3, <2>1 DEF SessionTypeOK
  <2>3. WhoInv'
    BY <1>1, <1>3, <2>1 DEF WhoInv
  <2>4. OnceInv'
    BY <1>1, <1>3, <2>1 DEF OnceInv, Authenticated
  <2> QED BY <2>2, <2>3, <2>4 DEF SessionInv
<1>4. CASE /\ conn.at = "AwaitingProof"
           /\ conn' = [at |-> "Authenticated", user |-> conn.user, challenge |-> 0]
           /\ keyset' = {conn.user} /\ challenges' = [k \in Key |-> 0]
           /\ task' = [task EXCEPT ![t] = [at |-> "proved", key |-> conn.user, challenge |-> 0]]
  <2> DEFINE s == [at |-> "proved", key |-> conn.user, challenge |-> 0]
  <2>1. conn.user \in User /\ conn.user \in Key /\ User \subseteq User \cup {Nobody}
    BY <1>1, <1>4 DEF WhoInv, Key
  <2>2. /\ conn' \in ConnectionState /\ conn'.at = "Authenticated" /\ conn'.user = conn.user
        /\ s \in TaskState /\ s.at = "proved" /\ s.key = conn.user
    BY <1>4, <2>1, SessionAssumption, Records
  <2> HIDE DEF s
  <2>3. task' = [task EXCEPT ![t] = s]
    BY <1>4 DEF s
  <2>4. SessionTypeOK'
    BY <1>1, <1>4, <2>1, <2>2, <2>3, SessionAssumption DEF SessionTypeOK
  <2>5. WhoInv'
    BY <1>1, <1>4, <2>1, <2>2, <2>3 DEF WhoInv
  <2>6. OnceInv'
    BY <1>1, <1>4, <2>1, <2>2, <2>3 DEF OnceInv, Authenticated
  <2> QED BY <2>4, <2>5, <2>6 DEF SessionInv
<1> QED BY <1>2, <1>3, <1>4 DEF TrustedLoginProve, Becomes

LEMMA LoggedInKeeps ==
  ASSUME SessionInv, NEW t \in Task, LoggedIn(t)
  PROVE  SessionInv'
<1> USE SessionAssumption DEF SessionInv, LoggedIn, settings
<1>1. SessionTypeOK'
  BY Records, Fields DEF SessionTypeOK, WhoInv, Key, Level
<1>2. WhoInv'
  BY DEF SessionTypeOK, WhoInv, Idle, TaskState, ConnectionState
<1>3. OnceInv'
  BY DEF SessionTypeOK, OnceInv, Authenticated, Idle, TaskState, ConnectionState
<1> QED BY <1>1, <1>2, <1>3

LEMMA SessionKeyChallengeKeeps ==
  ASSUME SessionInv, NEW t \in Task, NEW k \in Key, SessionKeyChallenge(t, k)
  PROVE  SessionInv'
<1> USE SessionAssumption DEF SessionInv, SessionKeyChallenge, Mint, Becomes, settings
<1>1. SessionTypeOK'
  <2>1. CASE Authenticated
    <3>1. /\ minted' \in 0..MaxChallenges /\ minted' = minted + 1
          /\ challenges' \in [Key -> 0..MaxChallenges]
      BY <2>1 DEF SessionTypeOK
    <3>2. [at |-> "registering", key |-> k, challenge |-> minted'] \in TaskState
      BY <3>1, Records
    <3> QED BY <2>1, <3>1, <3>2, Records DEF SessionTypeOK
  <2>2. CASE ~ Authenticated
    BY <2>2, Records DEF SessionTypeOK
  <2> QED BY <2>1, <2>2
<1>2. WhoInv'
  BY DEF SessionTypeOK, WhoInv, Idle, TaskState, ConnectionState
<1>3. OnceInv'
  BY DEF SessionTypeOK, OnceInv, Authenticated, Idle, TaskState, ConnectionState
<1> QED BY <1>1, <1>2, <1>3

LEMMA SessionKeyRegisterKeeps ==
  ASSUME SessionInv, NEW t \in Task, SessionKeyRegister(t)
  PROVE  SessionInv'
<1> USE SessionAssumption DEF SessionInv, SessionKeyRegister, AfterRegister, Joins, settings
<1>1. SessionTypeOK'
  BY Records, Fields DEF SessionTypeOK, WhoInv, Key, Level
<1>2. WhoInv'
  BY DEF SessionTypeOK, WhoInv, Idle, TaskState, ConnectionState
<1>3. OnceInv'
  BY DEF SessionTypeOK, OnceInv, Authenticated, Idle, TaskState, ConnectionState
<1> QED BY <1>1, <1>2, <1>3

LEMMA RegisteredKeeps ==
  ASSUME SessionInv, NEW t \in Task, Registered(t)
  PROVE  SessionInv'
<1> USE SessionAssumption DEF SessionInv, Registered, settings
<1>1. SessionTypeOK'
  BY Records, Fields DEF SessionTypeOK, WhoInv, Key, Level
<1>2. WhoInv'
  BY DEF SessionTypeOK, WhoInv, Idle, TaskState, ConnectionState
<1>3. OnceInv'
  BY DEF SessionTypeOK, OnceInv, Authenticated, Idle, TaskState, ConnectionState
<1> QED BY <1>1, <1>2, <1>3

LEMMA AuthenticatedDbKeeps ==
  ASSUME SessionInv, NEW op \in {"read", "entry", "metadata", "submit"},
         NEW k \in Key, NEW d \in Trees, NEW o \in Trees, AuthenticatedDb(op, k, d, o)
  PROVE  SessionInv'
<1> USE SessionAssumption DEF SessionInv, AuthenticatedDb, client
<1>1. SessionTypeOK'
  BY Records, Fields DEF SessionTypeOK, WhoInv, Key, Level
<1>2. WhoInv'
  BY DEF SessionTypeOK, WhoInv, Idle, TaskState, ConnectionState
<1>3. OnceInv'
  BY DEF SessionTypeOK, OnceInv, Authenticated, Idle, TaskState, ConnectionState
<1> QED BY <1>1, <1>2, <1>3

LEMMA SetAuthKeeps ==
  ASSUME SessionInv, NEW d \in Trees, NEW k \in Key, NEW l \in {0, 1, 3}, SetAuth(d, k, l)
  PROVE  SessionInv'
<1> USE SessionAssumption DEF SessionInv, SetAuth, client
<1>1. SessionTypeOK'
  BY Records, Fields DEF SessionTypeOK, WhoInv, Key, Level
<1>2. WhoInv'
  BY DEF SessionTypeOK, WhoInv, Idle, TaskState, ConnectionState
<1>3. OnceInv'
  BY DEF SessionTypeOK, OnceInv, Authenticated, Idle, TaskState, ConnectionState
<1> QED BY <1>1, <1>2, <1>3

(* The invariant of the session holds throughout. *)
LEMMA SessionInvariance == SessionSpec => []SessionInv
<1>1. SessionInit => SessionInv
  <2> SUFFICES ASSUME SessionInit PROVE SessionInv
    OBVIOUS
  <2> USE SessionAssumption DEF SessionInit
  <2>1. SessionTypeOK
    <3>1. conn \in ConnectionState
      BY DEF ConnectionState
    <3>2. granted \in [Trees -> [Key -> Level]]
      BY DEF Level
    <3>3. exists \subseteq Trees
      BY DEF Trees
    <3> QED BY <3>1, <3>2, <3>3, Records DEF SessionTypeOK
  <2>2. WhoInv
    BY DEF WhoInv, Idle
  <2>3. OnceInv
    BY DEF OnceInv, Idle, Authenticated
  <2> QED BY <2>1, <2>2, <2>3 DEF SessionInv
<1>2. SessionInv /\ [SessionNext]_sessionVars => SessionInv'
  <2> SUFFICES ASSUME SessionInv, [SessionNext]_sessionVars PROVE SessionInv'
    OBVIOUS
  <2>1. CASE \E t \in Task : \/ \E u \in User : TrustedLoginUser(t, u)
                             \/ TrustedLoginUnknown(t) \/ WrongPassword(t)
                             \/ TrustedLoginProve(t) \/ LoggedIn(t)
                             \/ \E k \in Key : SessionKeyChallenge(t, k)
                             \/ SessionKeyRegister(t) \/ Registered(t)
    BY <2>1, TrustedLoginUserKeeps, TrustedLoginUnknownKeeps, WrongPasswordKeeps,
       TrustedLoginProveKeeps, LoggedInKeeps, SessionKeyChallengeKeeps,
       SessionKeyRegisterKeeps, RegisteredKeeps
  <2>2. Tree \subseteq Trees /\ Databases \in Trees /\ exists \subseteq Trees
    BY DEF Trees, SessionInv, SessionTypeOK
  <2>3. CASE \/ \E op \in {"read", "submit"}, k \in Key, d \in Tree : AuthenticatedDb(op, k, d, d)
             \/ \E k \in Key, d \in Trees, o \in exists : AuthenticatedDb("entry", k, d, o)
             \/ \E k \in Key : AuthenticatedDb("metadata", k, Databases, Databases)
    BY <2>2, <2>3, AuthenticatedDbKeeps
  <2>4. CASE \E d \in Trees, k \in Key, level \in {0, 1, 3} : SetAuth(d, k, level)
    BY <2>4, SetAuthKeeps
  <2>5. CASE UNCHANGED sessionVars
    BY <2>5 DEF sessionVars, SessionInv, SessionTypeOK, WhoInv, OnceInv, Authenticated
  <2> QED BY <2>1, <2>3, <2>4, <2>5 DEF SessionNext
<1> QED BY <1>1, <1>2, PTL DEF SessionSpec

(* For every number of tasks, users and keys, however many registrations   *)
(* interleave: on a connection that logged in once, a key the client takes *)
(* for registered is in the daemon's keyset.                               *)
THEOREM RegisteredKeysAlwaysHold == SessionSpec => []RegisteredKeysHold
<1>1. SessionInv => RegisteredKeysHold
  BY DEF SessionInv, OnceInv, RegisteredKeysHold, Authenticated
<1> QED BY <1>1, SessionInvariance, PTL
=============================================================================
