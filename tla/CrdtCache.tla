----------------------------- MODULE CrdtCache ------------------------------
(***************************************************************************)
(* The byte-bounded LRU cache of computed store states in the in-memory    *)
(* backend (InMemoryCrdtCache).  States computed by this process (scope    *)
(* Shared) and states uploaded by a client (scope User) share one budget.  *)
(***************************************************************************)
EXTENDS Integers, Sequences, SequencesExt, FiniteSetsExt

CONSTANTS
    Scope,       \* "shared", and one per user
    Slot,        \* (entry, store) pairs
    Size,        \* lengths of serialized states
    Capacity,    \* capacity_bytes
    Bound        \* bound on the number of puts

VARIABLES
    lru,       \* cached items, least recently used first
    bytes,     \* current_bytes
    puts

vars == <<lru, bytes, puts>>

(* A cache key carries its scope. *)
Key == Scope \X Slot

Init == lru = << >> /\ bytes = 0 /\ puts = 0

Cached(k) == \E i \in DOMAIN lru : lru[i].key = k
Item(k) == lru[CHOOSE i \in DOMAIN lru : lru[i].key = k]
Others(k) == SelectSeq(lru, LAMBDA item : item.key # k)

SizeOf(items) == FoldSeq(LAMBDA item, sum : sum + item.size, 0, items)

(* A hit makes the item the most recently used one. *)
Get(k) ==
    /\ Cached(k)
    /\ lru' = Append(Others(k), Item(k))
    /\ UNCHANGED <<bytes, puts>>

(* What replacing k gives back. *)
Replaced(k) == IF Cached(k) THEN Item(k).size ELSE 0

(* A faulty variant of Dropped: one eviction is taken to be enough. *)
DroppedAtMostOne(items, total) ==
    IF total > Capacity /\ Len(items) > 1 THEN 1 ELSE 0

(* How many of the oldest items the eviction loop pops, the item just put   *)
(* being the last one: it stops under the cap, and before that item.        *)
Dropped(items, total) ==
    CHOOSE n \in 0..(Len(items) - 1) :
        LET left(i) == total - SizeOf(SubSeq(items, 1, i))
        IN  /\ left(n) <= Capacity \/ n = Len(items) - 1
            /\ \A i \in 0..(n-1) : left(i) > Capacity

Put(k, size) ==
    /\ puts < Bound
    /\ puts' = puts + 1
    /\ LET items == Append(Others(k), [key |-> k, size |-> size])
           total == bytes - Replaced(k) + size
           n == Dropped(items, total)
       IN  /\ lru' = SubSeq(items, n + 1, Len(items))
           /\ bytes' = total - SizeOf(SubSeq(items, 1, n))

Clear ==
    /\ lru # << >>
    /\ lru' = << >> /\ bytes' = 0
    /\ UNCHANGED puts

Next ==
    \/ \E k \in Key : Get(k)
    \/ \E k \in Key, size \in Size : Put(k, size)
    \/ Clear

Spec == Init /\ [][Next]_vars

(***************************************************************************)
(* Properties                                                              *)
(***************************************************************************)

(* The cap is soft for one blob only: when more is cached than it allows,   *)
(* the cache holds nothing but the blob that is too large.  What is cached  *)
(* is measured here, not read off the byte count that evict_to_cap goes by: *)
(* the count must stay right through replacements and evictions.            *)
OverCapOnlyAlone == SizeOf(lru) > Capacity => Len(lru) = 1
=============================================================================
