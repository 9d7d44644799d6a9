---------------------------- MODULE RequestAuth ----------------------------
(***************************************************************************)
(* The freshness of a signed sync request: SyncHandler::                   *)
(* authenticate_request in sync/handler.rs.  A request carries the time of *)
(* the client's clock and a nonce, both under the signature; the network   *)
(* may deliver it late, and again.  The server accepts it within a window  *)
(* around its own time and remembers the nonces it has accepted for as     *)
(* long as a copy could still be in the window.                            *)
(*                                                                         *)
(* One life of the server: the nonces are kept in memory only, a restart   *)
(* forgets them.  Its clock does not go back.                              *)
(***************************************************************************)
EXTENDS Integers, FiniteSets

CONSTANTS
    Nonce,     \* one for every request a client signs
    Window,    \* MAX_REQUEST_AGE_MS
    Skew,      \* how far the clients' clocks are ahead or behind
    MaxTime    \* bound on the server's clock

VARIABLES
    now,       \* the server's clock
    sent,      \* the requests signed so far: nonce and timestamp
    spent,     \* spent_nonces: the accepted ones that are remembered
    accepted   \* how often each nonce was accepted

requestVars == <<now, sent, spent, accepted>>

SignedRequest == [nonce : Nonce, timestamp : (-Skew)..(MaxTime + Skew)]

RequestTypeOK ==
    /\ now \in 0..MaxTime
    /\ sent \subseteq SignedRequest
    /\ spent \subseteq SignedRequest
    /\ accepted \in [Nonce -> 0..2]

RequestInit ==
    /\ now = 0
    /\ sent = {}
    /\ spent = {}
    /\ accepted = [n \in Nonce |-> 0]

AbsDiff(a, b) == IF a > b THEN a - b ELSE b - a

Tick ==
    /\ now < MaxTime
    /\ now' = now + 1
    /\ UNCHANGED <<sent, spent, accepted>>

(* SyncRequestAuth::sign: a fresh nonce, and the client's time. *)
Sign(n, t) ==
    /\ \A r \in sent : r.nonce # n
    /\ sent' = sent \cup {[nonce |-> n, timestamp |-> t]}
    /\ UNCHANGED <<now, spent, accepted>>

(* A faulty variant of Remembered: aged by the time of arrival. *)
RememberedOnArrival(r) == [nonce |-> r.nonce, timestamp |-> now]

(* The nonce is remembered with the timestamp of its request. *)
Remembered(r) == r

(* The nonces kept: those whose request would still be fresh. *)
Retained == {s \in spent : AbsDiff(now, s.timestamp) <= Window}

(* authenticate_request: the signature verifies (only these requests were   *)
(* signed), the request is fresh and its nonce is not spent.                *)
AuthenticateRequest(r) ==
    /\ AbsDiff(now, r.timestamp) <= Window
    /\ spent' = Retained \cup {Remembered(r)}
    /\ IF \E s \in Retained : s.nonce = r.nonce
       THEN UNCHANGED accepted
       ELSE accepted' = [accepted EXCEPT ![r.nonce] = @ + 1]
    /\ UNCHANGED <<now, sent>>

(* A request outside the window leaves the nonces alone. *)
RequestNext ==
    \/ Tick
    \/ \E n \in Nonce, t \in (now - Skew)..(now + Skew) : Sign(n, t)
    \/ \E r \in sent : AuthenticateRequest(r)

RequestSpec == RequestInit /\ [][RequestNext]_requestVars

(* A signed request is served once: no copy of it is accepted again, however *)
(* late it comes and however far the client's clock is off (handler.rs:     *)
(* 110-133 prunes by the timestamp of the request, not by its arrival).     *)
AcceptedOnce == \A n \in Nonce : accepted[n] <= 1
=============================================================================
