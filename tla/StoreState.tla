----------------------------- MODULE StoreState -----------------------------
(***************************************************************************)
(* How the state of one store is computed from its entries: the height     *)
(* given to a new entry, the merge base of several tips, the path from the *)
(* base to the tips, and the cache of computed states in front of them     *)
(* (Transaction::compute_subtree_state_merge_based and the traversals of   *)
(* the two backends).  A state is kept as the sequence of the entries whose*)
(* data was merged, in the order of the merges: equal sequences are equal  *)
(* states whatever the CRDT of the store is.                               *)
(***************************************************************************)
EXTENDS EntryDag, Integers, SequencesExt

CONSTANTS
    MaxEntries,       \* bound on the number of entries
    MaxClock,         \* bound on the clock readings of a Timestamp database
    MaxReads,         \* bound on the number of reads
    DepthLimit,       \* MERGE_BASE_DEPTH_LIMIT of the SQL backends
    UnverifiedReads   \* whether some handle has allow_unverified set

VARIABLES
    strategy,   \* the HeightStrategy of the database
    links,      \* store parents of every entry authored so far, anywhere
    past,       \* the entry and everything it builds on
    height,     \* its store height
    present,    \* entries this backend holds
    memo,       \* CRDT cache: a function from sets of tips to states
    answer,     \* what the last step returned, when it was a read
    reads

vars == <<strategy, links, past, height, present, memo, answer, reads>>

(* Entries are numbered in the order they are authored.  IDs only break     *)
(* ties between entries of the same height, which are concurrent, so the    *)
(* numbers can be taken for the IDs: authoring two concurrent entries in    *)
(* the other order is the other outcome of the tie.                         *)
authored == DOMAIN links

Init ==
    /\ strategy \in {"Incremental", "Timestamp"}
    /\ links = << >> /\ past = << >> /\ height = << >>
    /\ present = {}
    /\ memo = << >>
    /\ answer = << >>
    /\ reads = 0

(***************************************************************************)
(* HeightCalculator::calculate_height                                      *)
(***************************************************************************)

TopHeight(P) == Max({height[p] : p \in P})

(* A faulty variant of CalculateHeight: the clock alone decides. *)
CalculateHeightFromClock(P, now) ==
    IF strategy = "Timestamp" THEN now
    ELSE IF P = {} THEN 0 ELSE TopHeight(P) + 1

(* One more than the highest parent; with timestamps, never behind the      *)
(* author's clock, which may itself be behind the parents.                  *)
CalculateHeight(P, now) ==
    LET least == IF P = {} THEN 0 ELSE TopHeight(P) + 1
    IN  IF strategy = "Timestamp" /\ now > least THEN now ELSE least

(***************************************************************************)
(* Traversals over the entries held                                        *)
(***************************************************************************)

Below(S) == Reach(links, present, S)
History(S) == UNION {past[e] : e \in S}

(* sort_entries_by_subtree_height: by height, then by ID. *)
Earlier(a, b) == height[a] < height[b] \/ (height[a] = height[b] /\ a < b)
Sorted(S) == SetToSortSeq(S, Earlier)

(* store_at: the walk skips parents that are not held. *)
StoreAt(S) == Sorted(Below(S))

(* collect_ancestors also names the parents it could not open. *)
CollectAncestors(e) == {e} \cup UNION {{a} \cup links[a] : a \in Below({e})}

(* get_subtree_height of an entry that is not held is 0. *)
SubtreeHeight(e) == IF e \in present THEN height[e] ELSE 0

(* No root can be reached from e without going through c. *)
AllPathsPassThrough(e, c) ==
    \/ e = c
    \/ \A r \in Reach(links, present \ {c}, {e}) : links[r] # {}

(* find_merge_base: the common ancestors that all paths pass through, of    *)
(* the greatest height.  Empty is the error NoCommonAncestor.               *)
MergeBase(T) ==
    LET sets == {CollectAncestors(e) : e \in T}
        common == {c \in authored : \A A \in sets : c \in A}
        through == {c \in common : \A e \in T : AllPathsPassThrough(e, c)}
    IN  IF ~ T \subseteq present THEN {}
        ELSE {c \in through :
                \A o \in through : SubtreeHeight(o) <= SubtreeHeight(c)}

(* get_path_from_to: everything above the base; an entry of the walk that   *)
(* is not held makes it an error.                                           *)
PathFromTo(m, T) == Reach(links, authored \ {m}, T \ {m})

(***************************************************************************)
(* The same question to a SQL backend                                      *)
(***************************************************************************)

(* One batch of collect_ancestors_from_frontier: what is at most DepthLimit *)
(* parent links from the frontier, and what is at exactly that depth.       *)
Batch(frontier) ==
    LET at[d \in 0..DepthLimit] ==
            IF d = 0 THEN frontier
            ELSE UNION {links[e] : e \in at[d-1] \cap present}
    IN  [ancestors |-> UNION {at[d] \cap present : d \in 0..DepthLimit},
         frontier |-> at[DepthLimit] \cap present]

(* The sets known for each tip after n batches. *)
Batches(T) ==
    LET round[n \in 0..MaxEntries] ==
            IF n = 0 THEN [e \in T |-> [ancestors |-> {}, frontier |-> {e}]]
            ELSE LET known == round[n-1]
                 IN  [e \in T |->
                        LET b == Batch(known[e].frontier)
                        IN  [ancestors |-> known[e].ancestors \cup b.ancestors,
                             frontier |-> b.frontier]]
    IN  round

(* is_dominator_cte: a node without store_parents rows ends the walk, held  *)
(* or not.                                                                  *)
IsDominator(e, c) ==
    \/ e = c
    \/ \A r \in {e} \cup ((UNION {links[a] : a \in Reach(links, present \ {c}, {e})})
                          \ {c}) :
          r \in present /\ links[r] # {}

(* A faulty variant of SqlMergeBase: the first common ancestors that a batch *)
(* finds are taken without asking whether they dominate.                     *)
SqlFirstCommon(T) ==
    LET round == Batches(T)
        common(n) == {c \in authored : \A e \in T : c \in round[n][e].ancestors}
        found == {n \in 1..MaxEntries : common(n) # {}}
    IN  IF found = {} THEN {}
        ELSE {c \in common(Min(found)) :
                \A o \in common(Min(found)) \ {c} :
                    height[o] < height[c] \/ (height[o] = height[c] /\ c < o)}

(* find_merge_base: after each batch, the highest common ancestor known so  *)
(* far that dominates every tip; the search goes on while there is none.    *)
SqlMergeBase(T) ==
    LET round == Batches(T)
        through(n) == {c \in authored :
                         \A e \in T : /\ c \in round[n][e].ancestors
                                      /\ IsDominator(e, c)}
        found == {n \in 1..MaxEntries : through(n) # {}}
    IN  IF found = {} THEN {}
        ELSE {c \in through(Min(found)) :
                \A o \in through(Min(found)) \ {c} :
                    height[o] < height[c] \/ (height[o] = height[c] /\ c < o)}

(***************************************************************************)
(* Entries are authored, and reach this backend                            *)
(***************************************************************************)

Antichain(T) == \A a, b \in T : a # b => a \notin past[b]

(* A transaction on some replica: its store parents are the store's tips at *)
(* the snapshot the transaction was opened at.                              *)
Author(P, now) ==
    /\ Len(links) < MaxEntries
    /\ Antichain(P)
    /\ links' = Append(links, P)
    /\ past' = Append(past, History(P) \cup {Len(links) + 1})
    /\ height' = Append(height, CalculateHeight(P, now))
    /\ answer' = << >>
    /\ UNCHANGED <<strategy, present, memo, reads>>

(* Committed here, or received; a batch may bring it before its parents. *)
Arrive(e) ==
    /\ e \in authored \ present
    /\ present' = present \cup {e}
    /\ answer' = << >>
    /\ UNCHANGED <<strategy, links, past, height, memo, reads>>

(***************************************************************************)
(* Reads                                                                   *)
(***************************************************************************)

Cached(T) == T \in DOMAIN memo
Remember(f, T, s) == [U \in DOMAIN f \cup {T} |-> IF U = T THEN s ELSE f[U]]

(* compute_single_entry_state_recursive *)
SingleState(e) == IF Cached({e}) THEN memo[{e}] ELSE StoreAt({e})

(* What a read may be asked for: tips of the Verified view, which holds all *)
(* that it builds on, or on an allow_unverified handle the raw tips.        *)
Askable(T) ==
    /\ T # {} /\ T \subseteq present /\ Antichain(T)
    /\ \/ History(T) \subseteq present
       \/ UnverifiedReads /\ T = Tips(links, present)

(* compute_subtree_state_merge_based: one tip, several tips whose state is  *)
(* cached, or several tips from their merge base.                           *)
Read(T) ==
    /\ reads < MaxReads
    /\ reads' = reads + 1
    /\ Askable(T)
    /\ \/ /\ Cardinality(T) = 1
          /\ LET s == SingleState(CHOOSE e \in T : TRUE)
             IN  /\ memo' = Remember(memo, T, s)
                 /\ answer' = [tips |-> T, ok |-> TRUE, state |-> s]
       \/ /\ Cardinality(T) > 1 /\ Cached(T)
          /\ answer' = [tips |-> T, ok |-> TRUE, state |-> memo[T]]
          /\ UNCHANGED memo
       \/ /\ Cardinality(T) > 1 /\ ~ Cached(T)
          /\ \E m \in MergeBase(T) :
               LET base == SingleState(m)
                   path == PathFromTo(m, T)
                   s == base \o Sorted(path)
               IN  IF path \subseteq present
                   THEN /\ memo' = Remember(Remember(memo, {m}, base), T, s)
                        /\ answer' = [tips |-> T, ok |-> TRUE, state |-> s]
                   ELSE /\ memo' = Remember(memo, {m}, base)
                        /\ answer' = [tips |-> T, ok |-> FALSE]
       \/ /\ Cardinality(T) > 1 /\ ~ Cached(T) /\ MergeBase(T) = {}
          /\ answer' = [tips |-> T, ok |-> FALSE]
          /\ UNCHANGED memo
    /\ UNCHANGED <<strategy, links, past, height, present>>

(* The cache drops what was used least recently, one state at a time. *)
Evict(T) ==
    /\ Cached(T)
    /\ memo' = [U \in DOMAIN memo \ {T} |-> memo[U]]
    /\ answer' = << >>
    /\ UNCHANGED <<strategy, links, past, height, present, reads>>

Next ==
    \/ \E P \in SUBSET authored, 
         now \in IF strategy = "Timestamp" THEN 0..MaxClock ELSE {0} :
          Author(P, now)
    \/ \E e \in authored : Arrive(e)
    \/ \E T \in SUBSET present : Read(T)
    \/ \E T \in DOMAIN memo : Evict(T)

Spec == Init /\ [][Next]_vars

(***************************************************************************)
(* Properties                                                              *)
(***************************************************************************)

OneRoot(T) == Cardinality({r \in History(T) : links[r] = {}}) = 1

(* Whatever was read before, in whatever order entries arrived and caches   *)
(* filled, a read of tips with their whole history held and one store root  *)
(* returns the merge of exactly that history in (height, ID) order: the     *)
(* merge base loses nothing, merges nothing twice, and reorders nothing.    *)
ReadIsReplay ==
    answer # << >> =>
        IF answer.ok THEN answer.state = Sorted(History(answer.tips))
        ELSE ~ OneRoot(answer.tips)

(* The batched search of the SQL backends finds the merge base that the     *)
(* in-memory search finds, however deep the divergence is.                  *)
BackendsAgreeOnBase ==
    present = authored =>
        \A T \in SUBSET present :
            Cardinality(T) > 1 /\ Antichain(T)
                => SqlMergeBase(T) = MergeBase(T)
=============================================================================
