--------------------------- MODULE SnapshotProofs ---------------------------
(***************************************************************************)
(* That a default snapshot misses nothing and names only Verified entries  *)
(* with their history, and that the walk of a verify pass misses nothing,  *)
(* for every number of entries and tasks and every graph of remote         *)
(* entries.                                                                *)
(***************************************************************************)
EXTENDS WritePathProofs, FiniteSetTheorems, WellFoundedInduction

(***************************************************************************)
(* The walks of EntryDag, for every graph of entries and every finite set  *)
(* held: a walk collects the least set that has the start and is closed    *)
(* under parent links.  Induction is by a least counterexample, found in a *)
(* well-founded order on finite sets.                                      *)
(***************************************************************************)

(* Among finite sets there is one with no other below it. *)
LEMMA MinimalFinite ==
    ASSUME NEW S, NEW T, T \subseteq FiniteSubsetsOf(S), T # {}
    PROVE  \E x \in T : \A y \in T : ~ (y \subseteq x /\ y # x)
<1>1. \E x \in T : \A y \in T : <<y, x>> \notin StrictSubsetOrdering(S)
  BY FS_StrictSubsetOrderingWellFounded, WFMin
<1>2. ASSUME NEW x \in T, NEW y \in T, y \subseteq x, y # x
      PROVE  <<y, x>> \in StrictSubsetOrdering(S)
  BY <1>2 DEF StrictSubsetOrdering, FiniteSubsetsOf
<1> QED
  BY <1>1, <1>2, Zenon

(* A set of naturals with a member has a least one. *)
LEMMA Least ==
    ASSUME NEW T \in SUBSET Nat, T # {}
    PROVE  \E n \in T : \A m \in T : n <= m
<1> DEFINE I == {1..n : n \in T}
<1>1. I # {}
  BY Zenon
<1>0. I \subseteq FiniteSubsetsOf(Nat)
  BY FS_Interval DEF FiniteSubsetsOf
<1>2. PICK x \in I : \A y \in I : ~ (y \subseteq x /\ y # x)
  <2> HIDE DEF I
  <2> QED BY <1>0, <1>1, MinimalFinite
<1>3. PICK n \in T : x = 1..n
  OBVIOUS
<1>4. ASSUME NEW m \in T, m < n PROVE FALSE
  <2>1. 1..m \in I /\ 1..m \subseteq 1..n
    BY <1>4
  <2>2. n \in 1..n /\ n \notin 1..m
    BY <1>4
  <2> QED BY <2>1, <2>2, <1>2, <1>3, Zenon
<1> QED
  BY <1>4

(* In a finite set of entries with heights one is the highest. *)
LEMMA Highest ==
    ASSUME NEW S, IsFiniteSet(S), S # {},
           NEW h, \A e \in S : h[e] \in Nat
    PROVE  \E e \in S : \A o \in S : h[o] <= h[e]
<1> DEFINE Above(e) == {o \in S : h[e] < h[o]}
           A == {Above(e) : e \in S}
<1>1. A # {}
  BY Zenon
<1>2. A \subseteq FiniteSubsetsOf(S)
  BY FS_Subset DEF FiniteSubsetsOf
<1>3. PICK x \in A : \A y \in A : ~ (y \subseteq x /\ y # x)
  <2> HIDE DEF A
  <2> QED BY <1>1, <1>2, MinimalFinite
<1>4. PICK e \in S : x = Above(e)
  OBVIOUS
<1>5. ASSUME NEW o \in S, h[e] < h[o] PROVE FALSE
  <2>1. o \in Above(e) /\ o \notin Above(o)
    BY <1>5
  <2>2. Above(o) \subseteq Above(e)
    BY <1>5
  <2> QED BY <2>1, <2>2, <1>3, <1>4, Zenon
<1> QED
  BY <1>5

(* One round of the walk. *)
Round(par, H, known) == known \cup ((UNION {par[e] : e \in known}) \cap H)

(* f holds the first k rounds. *)
IsWalk(par, H, from, k, f) ==
    f = [n \in 0..k |-> IF n = 0 THEN from \cap H
                        ELSE Round(par, H, f[n-1])]

(* The rounds of the walk exist, as many as are wanted. *)
LEMMA Rounds ==
    ASSUME NEW par, NEW H, NEW from, NEW N \in Nat
    PROVE  \E f : IsWalk(par, H, from, N, f)
<1> USE DEF IsWalk
<1> DEFINE Walk(f, k) == IsWalk(par, H, from, k, f)
           Bad == {k \in Nat : ~ \E f : Walk(f, k)}
<1> SUFFICES ASSUME Bad # {} PROVE FALSE
  BY Zenon
<1>1. PICK k \in Bad : \A m \in Bad : k <= m
  <2> HIDE DEF Bad
  <2>1. Bad \in SUBSET Nat
    BY DEF Bad
  <2> QED BY <2>1, Least
<1>2. ~ \E f : Walk(f, k)
  <2> HIDE DEF Walk
  <2> QED OBVIOUS
<1>3. CASE k = 0
  <2>1. Walk([n \in 0..0 |-> from \cap H], 0)
    OBVIOUS
  <2>2. \E f : Walk(f, k)
    BY <2>1, <1>3, Zenon
  <2> QED BY <2>2, <1>2
<1>4. CASE k # 0
  <2>1. k-1 \in Nat /\ ~ (k <= k-1)
    BY <1>4
  <2>2. PICK f : Walk(f, k-1)
    BY <2>1, <1>1
  <2> DEFINE g == [n \in 0..k |-> IF n = k THEN Round(par, H, f[k-1])
                                  ELSE f[n]]
  <2>3. ASSUME NEW n \in 0..k
        PROVE  g[n] = IF n = 0 THEN from \cap H
                      ELSE Round(par, H, g[n-1])
    <3>1. CASE n = k
      <4>1. g[n] = Round(par, H, f[k-1]) /\ g[n-1] = f[k-1]
        BY <3>1, <1>4
      <4> QED BY <4>1, <3>1, <1>4
    <3>2. CASE n # k
      <4>1. n \in 0..k-1 /\ g[n] = f[n]
        BY <3>2
      <4>2. f[n] = IF n = 0 THEN from \cap H ELSE Round(par, H, f[n-1])
        BY <4>1, <2>2, Zenon
      <4>3. n # 0 => g[n-1] = f[n-1]
        BY <4>1
      <4> QED BY <4>1, <4>2, <4>3
    <3> QED BY <3>1, <3>2
  <2>4. Walk(g, k)
    <3> HIDE DEF g
    <3>1. g = [n \in 0..k |-> g[n]]
      BY DEF g
    <3> QED BY <3>1, <2>3, Zenon
  <2> QED BY <2>4, <1>2, Zenon
<1> QED
  BY <1>3, <1>4

(* f holds all rounds of a walk, which stay within what is held, and Reach  *)
(* is the last.                                                             *)
Collects(par, H, from, f) ==
    /\ f[0] = from \cap H
    /\ \A n \in 0..Cardinality(H) : n # 0 => f[n] = Round(par, H, f[n-1])
    /\ \A n \in 0..Cardinality(H) : f[n] \subseteq H
    /\ Reach(par, H, from) = f[Cardinality(H)]

(* There is such a sequence of rounds. *)
LEMMA ReachRounds ==
    ASSUME NEW par, NEW H, IsFiniteSet(H), NEW from
    PROVE  \E f : Collects(par, H, from, f)
<1> DEFINE N == Cardinality(H)
           r == CHOOSE f : IsWalk(par, H, from, N, f)
<1>1. N \in Nat
  BY FS_CardinalityType
<1>2. IsWalk(par, H, from, N, r)
  <2> HIDE DEF N
  <2> QED BY <1>1, Rounds
<1>3. Reach(par, H, from) = {e \in H : e \in r[N]}
  BY DEF Reach, Round, IsWalk
<1> HIDE DEF N, r
<1>4. r[0] = from \cap H
  BY <1>1, <1>2 DEF IsWalk
<1>5. ASSUME NEW n \in 0..N, n # 0 PROVE r[n] = Round(par, H, r[n-1])
  BY <1>1, <1>2, <1>5, Zenon DEF IsWalk
<1>6. ASSUME NEW n \in 0..N PROVE r[n] \subseteq H
  <2> DEFINE Bad == {m \in 0..N : ~ r[m] \subseteq H}
  <2> SUFFICES ASSUME Bad # {} PROVE FALSE
    OBVIOUS
  <2>1. PICK m \in Bad : \A o \in Bad : m <= o
    <3>1. Bad \in SUBSET Nat
      BY <1>1
    <3> HIDE DEF Bad
    <3> QED BY <3>1, Least
  <2>2. m # 0
    BY <1>4
  <2>3. m-1 \in 0..N /\ m-1 \notin Bad
    BY <2>1, <2>2, <1>1
  <2> QED BY <2>2, <2>3, <1>5 DEF Round
<1>7. Reach(par, H, from) = r[N]
  BY <1>1, <1>3, <1>6
<1> QED
  BY <1>4, <1>5, <1>6, <1>7 DEF N, Collects

(* The walk stays within what is held, starts at `from`, and is closed      *)
(* under parent links to what is held: as long as a round adds something    *)
(* the sets grow, and there are as many rounds as there are entries.        *)
THEOREM ReachIsClosed ==
    ASSUME NEW par, NEW H, IsFiniteSet(H), NEW from
    PROVE  /\ Reach(par, H, from) \subseteq H
           /\ from \cap H \subseteq Reach(par, H, from)
           /\ \A e \in Reach(par, H, from) :
                par[e] \cap H \subseteq Reach(par, H, from)
<1> DEFINE N == Cardinality(H)
<1>0. PICK f : Collects(par, H, from, f)
  BY ReachRounds, Zenon
<1>1. /\ f[0] = from \cap H
      /\ \A n \in 0..N : n # 0 => f[n] = Round(par, H, f[n-1])
      /\ \A n \in 0..N : f[n] \subseteq H
      /\ Reach(par, H, from) = f[N]
  BY <1>0 DEF Collects
<1> DEFINE Closed(n) == Round(par, H, f[n]) = f[n]
<1>2. N \in Nat
  BY FS_CardinalityType
<1> HIDE DEF N
<1>3. ASSUME NEW n \in 0..N, NEW m \in 0..N, m <= n PROVE f[m] \subseteq f[n]
  <2> DEFINE Bad == {k \in m..N : ~ f[m] \subseteq f[k]}
  <2> SUFFICES ASSUME Bad # {} PROVE FALSE
    BY <1>3
  <2>1. PICK k \in Bad : \A o \in Bad : k <= o
    <3>1. Bad \in SUBSET Nat
      BY <1>2
    <3> HIDE DEF Bad
    <3> QED BY <3>1, Least
  <2>2. k # m /\ k \in m..N /\ ~ f[m] \subseteq f[k]
    OBVIOUS
  <2>3. k-1 \in m..N /\ k \in 0..N /\ k # 0 /\ ~ (k <= k-1)
    BY <2>2, <1>2
  <2>4. f[m] \subseteq f[k-1]
    BY <2>1, <2>3
  <2>5. f[k-1] \subseteq f[k]
    BY <2>3, <1>1 DEF Round
  <2> QED BY <2>2, <2>4, <2>5
<1>4. ASSUME NEW n \in 0..N, Closed(n) PROVE f[N] \subseteq f[n]
  <2> DEFINE Bad == {k \in n..N : ~ f[k] \subseteq f[n]}
  <2> SUFFICES ASSUME Bad # {} PROVE FALSE
    BY <1>2
  <2>1. PICK k \in Bad : \A o \in Bad : k <= o
    <3>1. Bad \in SUBSET Nat
      BY <1>2
    <3> HIDE DEF Bad
    <3> QED BY <3>1, Least
  <2>2. k # n /\ k \in n..N /\ ~ f[k] \subseteq f[n]
    OBVIOUS
  <2>3. k-1 \in n..N /\ k \in 0..N /\ k # 0 /\ ~ (k <= k-1)
    BY <2>2, <1>2
  <2>4. f[k-1] \subseteq f[n]
    BY <2>1, <2>3
  <2>5. f[k] = Round(par, H, f[k-1])
    BY <2>3, <1>1
  <2>6. Round(par, H, f[k-1]) \subseteq Round(par, H, f[n])
    BY <2>4 DEF Round
  <2> QED BY <2>2, <2>5, <2>6, <1>4
<1>5. ASSUME \A n \in 0..N : ~ Closed(n) PROVE FALSE
  <2> DEFINE Bad == {k \in 0..N : ~ k <= Cardinality(f[k])}
  <2>1. ASSUME NEW n \in 0..N
        PROVE  IsFiniteSet(f[n]) /\ Cardinality(f[n]) \in Nat
    BY <1>1, FS_Subset, FS_CardinalityType
  <2>2. ASSUME Bad # {} PROVE FALSE
    <3>1. PICK k \in Bad : \A o \in Bad : k <= o
      <4>1. Bad \in SUBSET Nat
        BY <1>2
      <4> HIDE DEF Bad
      <4> QED BY <4>1, <2>2, Least
    <3>2. k \in 0..N /\ ~ k <= Cardinality(f[k])
      OBVIOUS
    <3>3. k # 0
      BY <3>2, <2>1
    <3>4. k-1 \in 0..N /\ ~ (k <= k-1)
      BY <3>2, <3>3, <1>2
    <3>5. k-1 <= Cardinality(f[k-1])
      BY <3>1, <3>4
    <3>6. f[k-1] \subseteq f[k] /\ f[k-1] # f[k]
      BY <3>2, <3>3, <3>4, <1>1, <1>5 DEF Round
    <3>7. Cardinality(f[k-1]) < Cardinality(f[k])
      <4>1. Cardinality(f[k-1]) <= Cardinality(f[k])
        BY <3>2, <3>6, <2>1, FS_Subset
      <4>2. Cardinality(f[k-1]) # Cardinality(f[k])
        BY <3>2, <3>6, <2>1, FS_Subset
      <4> QED BY <4>1, <4>2, <3>2, <3>4, <2>1
    <3> QED BY <3>2, <3>4, <3>5, <3>7, <2>1
  <2>3. N <= Cardinality(f[N]) /\ f[N] \subseteq H /\ N \in 0..N
    BY <2>2, <1>1, <1>2
  <2>4. f[N] = H
    BY <2>1, <2>3, <1>2, FS_Subset DEF N
  <2> QED BY <2>3, <2>4, <1>5 DEF Round
<1>6. PICK n \in 0..N : Closed(n)
  BY <1>5
<1>7. f[N] = f[n]
  BY <1>2, <1>3, <1>4, <1>6
<1>8. from \cap H \subseteq f[N] /\ f[N] \subseteq H
  BY <1>1, <1>2, <1>3
<1>9. \A e \in f[N] : par[e] \cap H \subseteq f[N]
  BY <1>6, <1>7 DEF Round
<1> QED
  BY <1>1, <1>8, <1>9

(* ... and it collects nothing else: it is below every such set. *)
THEOREM ReachIsLeast ==
    ASSUME NEW par, NEW H, IsFiniteSet(H), NEW from,
           NEW C, from \cap H \subseteq C,
           \A e \in C : par[e] \cap H \subseteq C
    PROVE  Reach(par, H, from) \subseteq C
<1> DEFINE N == Cardinality(H)
<1>0. PICK f : Collects(par, H, from, f)
  BY ReachRounds, Zenon
<1>1. /\ f[0] = from \cap H
      /\ \A n \in 0..N : n # 0 => f[n] = Round(par, H, f[n-1])
      /\ \A n \in 0..N : f[n] \subseteq H
      /\ Reach(par, H, from) = f[N]
  BY <1>0 DEF Collects
<1>2. N \in Nat
  BY FS_CardinalityType
<1> HIDE DEF N
<1> DEFINE Bad == {k \in 0..N : ~ f[k] \subseteq C}
<1> SUFFICES ASSUME Bad # {} PROVE FALSE
  BY <1>1, <1>2
<1>3. PICK k \in Bad : \A o \in Bad : k <= o
  <2>1. Bad \in SUBSET Nat
    BY <1>2
  <2> HIDE DEF Bad
  <2> QED BY <2>1, Least
<1>4. k \in 0..N /\ ~ f[k] \subseteq C
  OBVIOUS
<1>5. k # 0
  BY <1>1, <1>4
<1>6. k-1 \in 0..N /\ ~ (k <= k-1)
  BY <1>2, <1>4, <1>5
<1>7. f[k-1] \subseteq C
  BY <1>3, <1>6
<1>8. f[k] = Round(par, H, f[k-1])
  BY <1>1, <1>4, <1>5
<1> QED
  BY <1>4, <1>7, <1>8 DEF Round

(* A walk over more entries from a larger start collects more, if the links *)
(* of what it had collected are the same.                                   *)
LEMMA ReachGrows ==
    ASSUME NEW par, NEW H, IsFiniteSet(H), NEW from,
           NEW par2, NEW H2, IsFiniteSet(H2), NEW from2,
           H \subseteq H2, from \cap H \subseteq from2,
           \A e \in H : par[e] \subseteq par2[e]
    PROVE  Reach(par, H, from) \subseteq Reach(par2, H2, from2)
<1> DEFINE R2 == Reach(par2, H2, from2)
           C == R2 \cap H
<1>1. from2 \cap H2 \subseteq R2
  BY ReachIsClosed
<1>2. \A e \in R2 : par2[e] \cap H2 \subseteq R2
  BY ReachIsClosed
<1> HIDE DEF R2
<1>3. from \cap H \subseteq C
  BY <1>1
<1>4. \A e \in C : par[e] \cap H \subseteq C
  BY <1>2
<1>5. Reach(par, H, from) \subseteq C
  <2> HIDE DEF C
  <2> QED BY <1>3, <1>4, ReachIsLeast
<1> QED
  BY <1>5 DEF R2

(* Where heights rise from parents to children, the walk from the tips of a *)
(* set comes to all of the set.                                             *)
THEOREM TipsCover ==
    ASSUME NEW par, NEW H, IsFiniteSet(H), NEW from,
           NEW S, S \subseteq H,
           NEW h, \A e \in S : h[e] \in Nat,
           \A e \in S : \A q \in par[e] \cap S : h[q] < h[e],
           \A e \in S : e \in from \/ \E c \in S : e \in par[c]
    PROVE  S \subseteq Reach(par, H, from)
<1> DEFINE R == Reach(par, H, from)
           Missed == S \ R
<1>1. from \cap H \subseteq R /\ \A e \in R : par[e] \cap H \subseteq R
  BY ReachIsClosed
<1> HIDE DEF R
<1> SUFFICES ASSUME Missed # {} PROVE FALSE
  BY DEF R
<1>2. PICK e \in Missed : \A o \in Missed : h[o] <= h[e]
  <2>1. IsFiniteSet(Missed) /\ \A o \in Missed : h[o] \in Nat
    BY FS_Subset
  <2> HIDE DEF Missed
  <2> QED BY <2>1, Highest
<1>3. PICK c \in S : e \in par[c]
  BY <1>1
<1>4. c \in R
  BY <1>2, <1>3
<1> QED
  BY <1>1, <1>3, <1>4

(***************************************************************************)
(* The invariant of the snapshots                                          *)
(***************************************************************************)

(* Heights rise along parent links, and no entry names one that a local     *)
(* transaction has still to write.                                          *)
HeightInv ==
    /\ \A e \in Remote : parents[e] = world.parents[e]
    /\ \A e \in ID : \A q \in parents[e] :
         height[q] < height[e] /\ (q \in Writers => status[q] # "Absent")

(* Tasks have read and build on nothing that is not held. *)
HeldInv ==
    /\ \A p \in Viewers : scan[p] \subseteq held /\ seen[p] \subseteq held
    /\ \A w \in Writers : base[w] \subseteq held

(* The Verified prefix there was when a snapshot began is Verified and      *)
(* prefix-closed.  It is below the tips that were read first; once the      *)
(* statuses are read, it has been seen or has still to be read, unless the  *)
(* tips are returned as they are; and it is below what is returned.         *)
ReadsInv(p) ==
    /\ floor[p] \subseteq With("Verified")
    /\ \A e \in floor[p] : parents[e] \subseteq floor[p]
    /\ pc[p] = "probe" => floor[p] \subseteq Ancestry(scan[p])
    /\ pc[p] = "scan" =>
         \/ floor[p] \subseteq seen[p] \cup scan[p]
         \/ scan[p] = {} /\ floor[p] \subseteq Ancestry(seen[p])
    /\ pc[p] \in {"txn", "wantPut", "register"} =>
         floor[p] \subseteq Ancestry(view[p])

SnapshotInv ==
    /\ LockInv /\ HeightInv /\ HeldInv
    /\ \A p \in Viewers \ AllowUnverified : ReadsInv(p)

(***************************************************************************)
(* What the invariants say about the walks                                 *)
(***************************************************************************)

LEMMA IDFinite == IsFiniteSet(ID) /\ \A S \in SUBSET ID : IsFiniteSet(S)
<1>1. IsFiniteSet(ID)
  BY EntriesFinite, FS_Singleton, FS_Union, Zenon DEF ID
<1> QED
  BY <1>1, FS_Subset

(* The tips of a set of entries that are held have all of it below them. *)
LEMMA TipsHaveAll ==
    ASSUME TypeOK, HeightInv, NEW S, S \subseteq held
    PROVE  S \subseteq Ancestry(S \ UNION {parents[e] : e \in S})
<1> DEFINE T == S \ UNION {parents[e] : e \in S}
<1>1. IsFiniteSet(held) /\ S \subseteq ID
  BY IDFinite DEF held
<1>2. \A e \in S : height[e] \in Nat
  BY <1>1 DEF TypeOK
<1>3. \A e \in S : \A q \in parents[e] \cap S : height[q] < height[e]
  BY <1>1 DEF HeightInv
<1>4. \A e \in S : e \in T \/ \E c \in S : e \in parents[c]
  OBVIOUS
<1> HIDE DEF T
<1>5. S \subseteq Reach(parents, held, T)
  BY <1>1, <1>2, <1>3, <1>4, TipsCover
<1> QED
  BY <1>5 DEF Ancestry, T

(* What is below entries that are below T is below T. *)
LEMMA AncestryOfAncestry ==
    ASSUME NEW S, NEW T, S \subseteq Ancestry(T)
    PROVE  Ancestry(S) \subseteq Ancestry(T)
<1>1. IsFiniteSet(held)
  BY IDFinite DEF held
<1>2. /\ Ancestry(T) \subseteq held
      /\ \A e \in Ancestry(T) : parents[e] \cap held \subseteq Ancestry(T)
  BY <1>1, ReachIsClosed, Zenon DEF Ancestry
<1>3. S \cap held \subseteq Ancestry(T)
  OBVIOUS
<1> QED
  BY <1>1, <1>2, <1>3, ReachIsLeast, Zenon DEF Ancestry

(* As long as no entry has Failed, a verify pass comes to every Unverified  *)
(* entry: what stands on an Unverified entry is not Verified.               *)
LEMMA RegionCovers ==
    ASSUME TypeOK, PrefixClosed, HeightInv, With("Failed") = {}
    PROVE  NoneStranded
<1> DEFINE U == With("Unverified")
<1>1. TypeOK /\ PrefixClosed /\ HeightInv
  OBVIOUS
<1>2. U \subseteq ID /\ IsFiniteSet(U)
  BY IDFinite DEF With
<1>3. \A e \in U : height[e] \in Nat
  BY <1>1, <1>2 DEF TypeOK
<1>4. \A e \in U : \A q \in parents[e] \cap U : height[q] < height[e]
  BY <1>1, <1>2 DEF HeightInv
<1>5. ASSUME NEW e \in U PROVE e \in rawTips \/ \E c \in U : e \in parents[c]
  <2>1. SUFFICES ASSUME NEW c \in held, e \in parents[c] PROVE c \in U
    BY DEF rawTips, Tips, held, With
  <2>2. e \notin With("Verified")
    BY DEF With
  <2>3. c \in ID /\ c \notin With("Verified") /\ c \notin With("Failed")
    BY <1>1, <2>1, <2>2 DEF PrefixClosed, held
  <2> QED BY <1>1, <2>1, <2>3 DEF TypeOK, held, With
<1> HIDE DEF U
<1>6. U \subseteq Reach(parents, U, rawTips)
  BY <1>2, <1>3, <1>4, <1>5, TipsCover
<1> QED
  BY <1>6 DEF NoneStranded, UnverifiedRegion, U

(***************************************************************************)
(* Heights                                                                 *)
(***************************************************************************)

(* Only the first call of write_entry changes the graph. *)
LEMMA DagSteps ==
    ASSUME [Next]_vars
    PROVE  /\ world' = world
           /\ \/ parents' = parents /\ height' = height
              \/ \E w \in Writers : PutWrite(w)
<1> DEFINE Same == world' = world /\ parents' = parents /\ height' = height
<1>1. ASSUME NEW p, Read(p) PROVE Same
  BY <1>1 DEF Read, ProbeTips, ProbeStatus, ProbeError, StartScan, ReadError,
              ScanEntry, dag
<1>2. ASSUME NEW p, Verify(p) PROVE Same
  BY <1>2 DEF Verify, VerifyLock, VerifyDone, VerifyFail, VerifyEntry, dag
<1>3. ASSUME NEW w \in Writers, Write(w)
      PROVE  world' = world /\ (Same \/ PutWrite(w))
  <2>1. CASE PutWrite(w)
    BY <2>1, Zenon DEF PutWrite
  <2> QED
    BY <1>1, <1>2, <1>3, <2>1 DEF Write, OpenTransaction, SealTransaction,
       PutLock, PutMark, PutFire, PutFail, dag
<1>4. ASSUME NEW c \in Callbacks, Watch(c) PROVE Same
  BY <1>1, <1>2, <1>4 DEF Watch, ReadCursor, RegisterCallback, dag
<1>5. ASSUME NEW d \in Receivers, Ingest(d) PROVE Same
  BY <1>2, <1>5 DEF Ingest, StoreLock, StoreDone, StoreEntry, dag
<1>6. (\E d \in Receivers, B \in SUBSET Remote : B # {} /\ Receive(d, B))
         \/ SyncDelegated \/ Crash \/ UNCHANGED vars => Same
  BY DEF Receive, SyncDelegated, Crash, vars, dag
<1> QED
  BY <1>3, <1>4, <1>5, <1>6 DEF Next

(* What is held stays held. *)
LEMMA HeldGrows ==
    ASSUME LockInv, [Next]_vars
    PROVE  held \subseteq held'
<1>0. TypeOK
  BY DEF LockInv
<1>1. ASSUME NEW w \in Writers, PutWrite(w) \/ PutMark(w) PROVE held \subseteq held'
  BY <1>0, <1>1 DEF PutWrite, PutMark, TypeOK, held
<1>2. ASSUME NEW p \in Process, NEW e \in ID, VerifyEntry(p, e)
      PROVE  held \subseteq held'
  <2>1. Decision(e) # "Absent"
    BY DEF Decision
  <2>2. status' = [status EXCEPT ![e] = Decision(e)]
    BY <1>2 DEF VerifyEntry
  <2> QED BY <1>0, <2>1, <2>2 DEF TypeOK, held
<1>3. ASSUME NEW d \in Receivers, NEW e \in ID, StoreEntry(d, e)
      PROVE  held \subseteq held'
  BY <1>0, <1>3 DEF StoreEntry, TypeOK, held
<1>4. CASE UNCHANGED status
  BY <1>4 DEF held
<1> QED
  BY <1>1, <1>2, <1>3, <1>4, StatusSteps

(* A transaction's entry is put above everything it builds on. *)
LEMMA NextKeepsHeightInv ==
    ASSUME LockInv, HeightInv, HeldInv, [Next]_vars
    PROVE  HeightInv'
<1>0. TypeOK
  BY DEF LockInv
<1>1. ASSUME NEW e \in ID, status[e] # "Absent" PROVE status'[e] # "Absent"
  BY <1>0, <1>1, HeldGrows DEF held
<1>2. CASE parents' = parents /\ height' = height
  BY <1>0, <1>1, <1>2, DagSteps DEF HeightInv, TypeOK, ID
<1>3. ASSUME NEW w \in Writers, PutWrite(w) PROVE HeightInv'
  <2>1. w \in ID /\ w \notin Remote /\ status[w] = "Absent"
    BY <1>0, <1>3, TasksAndEntriesDistinct DEF PutWrite, LockInv, ID
  <2>2. PICK b \in base[w] :
          /\ \A o \in base[w] : height[o] <= height[b]
          /\ height' = [height EXCEPT ![w] = height[b] + 1]
    BY <1>3, Zenon DEF PutWrite
  <2>3. /\ base[w] \subseteq ID /\ w \notin base[w]
        /\ \A q \in base[w] : status[q] # "Absent"
    BY <2>1 DEF HeldInv, held
  <2>4. parents' = [parents EXCEPT ![w] = base[w]]
    BY <1>3 DEF PutWrite
  <2>5. \A e \in Remote : parents'[e] = world'.parents[e]
    BY <1>0, <2>1, <2>4, DagSteps DEF HeightInv, TypeOK, ID
  <2>6. ASSUME NEW e \in ID, NEW q \in parents'[e]
        PROVE  height'[q] < height'[e] /\ (q \in Writers => status'[q] # "Absent")
    <3>1. CASE e = w
      <4>1. q \in base[w] /\ q # w
        BY <1>0, <2>1, <2>3, <2>4, <3>1 DEF TypeOK
      <4>2. height'[q] = height[q] /\ height'[w] = height[b] + 1
        BY <1>0, <2>1, <2>2, <2>3, <4>1 DEF TypeOK
      <4>3. height[q] \in Nat /\ height[b] \in Nat /\ height[q] <= height[b]
        BY <1>0, <2>2, <2>3, <4>1 DEF TypeOK
      <4>4. status'[q] # "Absent"
        BY <1>1, <2>3, <4>1
      <4> QED BY <3>1, <4>2, <4>3, <4>4
    <3>2. CASE e # w
      <4>1. q \in parents[e] /\ q \in ID
        BY <1>0, <2>4, <3>2 DEF TypeOK
      <4>2. q # w /\ height[q] < height[e] /\ (q \in Writers => status[q] # "Absent")
        BY <2>1, <4>1 DEF HeightInv
      <4>3. height'[q] = height[q] /\ height'[e] = height[e]
        BY <1>0, <2>2, <3>2, <4>1, <4>2 DEF TypeOK
      <4> QED BY <1>1, <4>1, <4>2, <4>3
    <3> QED BY <3>1, <3>2
  <2> QED BY <2>5, <2>6 DEF HeightInv
<1> QED
  BY <1>2, <1>3, DagSteps

(***************************************************************************)
(* The reads of a snapshot                                                 *)
(***************************************************************************)

(* What will be below S after the step. *)
AncestryNext(S) == Reach(parents', held', S)

(* The links of what is held are final, so what is below it only grows. *)
LEMMA AncestryGrows ==
    ASSUME LockInv, [Next]_vars
    PROVE  /\ held \subseteq held'
           /\ \A e \in held : parents'[e] = parents[e]
           /\ \A S : Ancestry(S) \subseteq AncestryNext(S)
<1>1. held \subseteq held'
  BY HeldGrows
<1>2. \A e \in held : parents'[e] = parents[e]
  <2>1. ASSUME NEW w \in Writers, PutWrite(w), NEW e \in held
        PROVE  parents'[e] = parents[e]
    <3>1. status[w] = "Absent" /\ w \in ID /\ e \in ID /\ e # w
      BY <2>1 DEF PutWrite, LockInv, ID, held
    <3> QED BY <2>1, <3>1 DEF PutWrite, LockInv, TypeOK
  <2> QED BY <2>1, DagSteps
<1>3. IsFiniteSet(held) /\ IsFiniteSet(held')
  BY IDFinite DEF held
<1>4. ASSUME NEW S PROVE Ancestry(S) \subseteq AncestryNext(S)
  <2>1. S \cap held \subseteq S /\ \A e \in held : parents[e] \subseteq parents'[e]
    BY <1>2
  <2> QED BY <1>1, <1>3, <2>1, ReachGrows, Zenon DEF Ancestry, AncestryNext
<1> QED BY <1>1, <1>2, <1>4

Looking == {"probe", "scan", "txn", "wantPut", "register"}

SameReads(q) == /\ scan'[q] = scan[q] /\ seen'[q] = seen[q]
                /\ view'[q] = view[q] /\ floor'[q] = floor[q]

(* How one step moves the snapshot that q is taking, if any: not at all; to *)
(* a place where nothing has been read or returned; to its first read of    *)
(* the tips; into the scan; out of a failed status read; one status read    *)
(* further; or to the snapshot it returns.                                  *)
ReadsMove(q) ==
    \/ SameReads(q) /\ pc'[q] = pc[q]
    \/ /\ pc'[q] \notin Looking
       /\ scan'[q] \in {scan[q], {}} /\ seen'[q] \in {seen[q], {}}
       /\ floor'[q] \in {floor[q], {}}
    \/ /\ pc'[q] = "probe" /\ scan'[q] = rawTips /\ seen'[q] = {}
       /\ floor'[q] = verifiedPrefix
    \/ /\ pc'[q] = "scan" /\ scan'[q] \subseteq held \cup scan[q]
       /\ q \notin AllowUnverified => scan'[q] = held
       /\ seen'[q] = seen[q] /\ floor'[q] = floor[q]
    \/ /\ "read" \in BackendMayFail
       /\ pc'[q] = "scan" /\ pc[q] = "probe" /\ floor'[q] = floor[q]
       /\ scan'[q] = {} /\ seen'[q] = scan[q]
    \/ /\ pc'[q] = "scan" /\ pc[q] = "scan" /\ floor'[q] = floor[q]
       /\ \E e \in scan[q] :
            /\ \A o \in scan[q] : height[e] <= height[o]
            /\ scan'[q] = scan[q] \ {e}
            /\ seen'[q] = IF Visible(q, e) THEN seen[q] \cup {e} ELSE seen[q]
    \/ /\ ScanDone(q) /\ view'[q] = Frontier(q) /\ pc'[q] \notin {"probe", "scan"}
       /\ scan'[q] = scan[q] /\ seen'[q] = seen[q] /\ floor'[q] = floor[q]

(* Whatever one step does, ReadsInv is kept: entries are read parents       *)
(* first, so when one that was Verified all along is read, its parents have *)
(* been seen.                                                               *)
LEMMA ReadsInvMoves ==
    ASSUME SnapshotInv, [Next]_vars,
           NEW p \in Viewers \ AllowUnverified, ReadsMove(p)
    PROVE  ReadsInv(p)'
<1>0. /\ TypeOK /\ LockInv /\ HeightInv /\ ReadsInv(p)
      /\ scan[p] \subseteq held /\ seen[p] \subseteq held
  BY DEF SnapshotInv, LockInv, HeldInv
<1>1. With("Verified") \subseteq With("Verified")'
  BY <1>0, StatusChange DEF With
<1>2. With("Verified") \subseteq held
  BY DEF With, held
<1>3. /\ \A e \in held : parents'[e] = parents[e]
      /\ \A S : Ancestry(S) \subseteq AncestryNext(S)
  BY <1>0, AncestryGrows
<1>4. /\ floor[p] \subseteq With("Verified")'
      /\ \A e \in floor[p] : parents'[e] \subseteq floor[p]
  BY <1>0, <1>1, <1>2, <1>3 DEF ReadsInv
<1>5. CASE SameReads(p) /\ pc'[p] = pc[p]
  <2>1. pc[p] = "probe" => floor[p] \subseteq AncestryNext(scan[p])
    BY <1>0, <1>3 DEF ReadsInv
  <2>2. pc[p] = "scan" =>
          \/ floor[p] \subseteq seen[p] \cup scan[p]
          \/ scan[p] = {} /\ floor[p] \subseteq AncestryNext(seen[p])
    BY <1>0, <1>3 DEF ReadsInv
  <2>3. pc[p] \in {"txn", "wantPut", "register"} =>
          floor[p] \subseteq AncestryNext(view[p])
    BY <1>0, <1>3 DEF ReadsInv
  <2> QED BY <1>4, <1>5, <2>1, <2>2, <2>3 DEF ReadsInv, Ancestry, AncestryNext, SameReads
<1>6. CASE pc'[p] \notin Looking /\ floor'[p] \in {floor[p], {}}
  BY <1>4, <1>6 DEF ReadsInv, Looking
<1>7. CASE pc'[p] = "probe" /\ scan'[p] = rawTips /\ floor'[p] = verifiedPrefix
  <2>1. /\ verifiedPrefix \subseteq With("Verified")
        /\ \A e \in verifiedPrefix : parents[e] \subseteq verifiedPrefix
    BY DEF verifiedPrefix
  <2>2. held \subseteq Ancestry(rawTips)
    <3>1. rawTips = held \ UNION {parents[e] : e \in held}
      BY DEF rawTips, Tips
    <3> QED BY <1>0, <3>1, TipsHaveAll
  <2>3. verifiedPrefix \subseteq AncestryNext(rawTips)
    BY <1>2, <1>3, <2>1, <2>2
  <2>4. \A e \in verifiedPrefix : parents'[e] \subseteq verifiedPrefix
    BY <1>2, <1>3, <2>1
  <2> QED BY <1>1, <1>7, <2>1, <2>3, <2>4 DEF ReadsInv, Ancestry, AncestryNext
<1>8. CASE pc'[p] = "scan" /\ scan'[p] = held /\ floor'[p] = floor[p]
  <2>1. floor[p] \subseteq held
    BY <1>0, <1>2 DEF ReadsInv
  <2> QED BY <1>4, <1>8, <2>1 DEF ReadsInv, Ancestry, AncestryNext
<1>9. CASE /\ pc'[p] = "scan" /\ pc[p] = "probe" /\ floor'[p] = floor[p]
           /\ scan'[p] = {} /\ seen'[p] = scan[p]
  <2>1. floor[p] \subseteq AncestryNext(scan[p])
    BY <1>0, <1>3, <1>9 DEF ReadsInv
  <2> QED BY <1>4, <1>9, <2>1 DEF ReadsInv, Ancestry, AncestryNext
<1>10. ASSUME pc'[p] = "scan", pc[p] = "scan", floor'[p] = floor[p],
              NEW e \in scan[p],
              \A o \in scan[p] : height[e] <= height[o],
              scan'[p] = scan[p] \ {e},
              seen'[p] = IF Visible(p, e) THEN seen[p] \cup {e} ELSE seen[p]
       PROVE  ReadsInv(p)'
  <2>1. e \in ID
    BY <1>0 DEF TypeOK
  <2>2. floor[p] \subseteq seen[p] \cup scan[p]
    BY <1>0, <1>10 DEF ReadsInv
  <2>3. ASSUME e \in floor[p] PROVE Visible(p, e)
    <3>1. status[e] = "Verified" /\ parents[e] \subseteq seen[p] \cup scan[p]
      BY <1>0, <2>2, <2>3 DEF ReadsInv, With
    <3>2. ASSUME NEW q \in parents[e], q \in scan[p] PROVE FALSE
      <4>1. height[q] < height[e] /\ height[e] <= height[q]
        BY <1>0, <1>10, <2>1, <3>2 DEF HeightInv
      <4>2. height[q] \in Nat /\ height[e] \in Nat
        BY <1>0, <2>1, <3>2 DEF TypeOK
      <4> QED BY <4>1, <4>2
    <3> QED BY <1>0, <3>1, <3>2 DEF Visible
  <2>4. floor[p] \subseteq seen'[p] \cup scan'[p]
    BY <1>10, <2>2, <2>3
  <2> QED BY <1>4, <1>10, <2>4 DEF ReadsInv, Ancestry, AncestryNext
<1>11. CASE /\ ScanDone(p) /\ view'[p] = Frontier(p)
            /\ pc'[p] \notin {"probe", "scan"} /\ floor'[p] = floor[p]
  <2>1. seen[p] \subseteq Ancestry(Frontier(p))
    BY <1>0, TipsHaveAll DEF Frontier
  <2>2. floor[p] \subseteq seen[p] \/ floor[p] \subseteq Ancestry(seen[p])
    BY <1>0, <1>11 DEF ReadsInv, ScanDone
  <2>3. floor[p] \subseteq Ancestry(Frontier(p))
    BY <2>1, <2>2, AncestryOfAncestry
  <2>4. floor[p] \subseteq AncestryNext(Frontier(p))
    BY <1>3, <2>3
  <2> QED BY <1>4, <1>11, <2>4 DEF ReadsInv, Ancestry, AncestryNext
<1> QED
  BY <1>5, <1>6, <1>7, <1>8, <1>9, <1>10, <1>11, Zenon DEF ReadsMove

(* Steps of Database::snapshot, by one task. *)
LEMMA ReadReadsMove ==
    ASSUME TypeOK, NEW p \in Viewers, Read(p), NEW q \in Viewers
    PROVE  ReadsMove(q)
<1> USE DEF Goto, Looking
<1>0. p \in Process /\ q \in Process
  BY DEF Process
<1>1. ASSUME q # p PROVE ReadsMove(q)
  <2>1. /\ scan'[q] = scan[q] /\ seen'[q] = seen[q] /\ view'[q] = view[q]
        /\ floor'[q] = floor[q]
    BY <1>1 DEF Read, ProbeTips, ProbeStatus, ProbeError, StartScan, ReadError,
                ScanEntry, ForgetReads, TypeOK
  <2>2. pc'[q] = pc[q]
    BY <1>0, <1>1 DEF Read, ProbeTips, ProbeStatus, ProbeError, StartScan,
                      ReadError, ScanEntry, TypeOK
  <2> QED BY <2>1, <2>2 DEF ReadsMove, SameReads
<1>2. CASE ProbeTips(p)
  BY <1>0, <1>1, <1>2, Zenon DEF ProbeTips, TypeOK, ReadsMove
<1>3. CASE ProbeStatus(p)
  <2>1. pc'[p] \notin Looking
    BY <1>0, <1>3 DEF ProbeStatus, TypeOK
  <2>2. scan'[p] \in {scan[p], {}} /\ seen' = seen /\ floor' = floor
    BY <1>3 DEF ProbeStatus, TypeOK
  <2> QED BY <1>1, <2>1, <2>2, Zenon DEF ReadsMove
<1>4. CASE ProbeError(p)
  BY <1>0, <1>1, <1>4, Zenon DEF ProbeError, TypeOK, ReadsMove
<1>5. CASE StartScan(p)
  <2>1. rawTips \subseteq held
    BY DEF rawTips, Tips
  <2>2. scan'[p] \subseteq held \cup scan[p] /\ (p \notin AllowUnverified => scan'[p] = held)
    BY <1>5, <2>1 DEF StartScan, TypeOK
  <2>3. pc'[p] = "scan" /\ seen' = seen /\ floor' = floor
    BY <1>0, <1>5 DEF StartScan, TypeOK
  <2> QED BY <1>1, <2>2, <2>3, Zenon DEF ReadsMove
<1>6. CASE ReadError(p)
  BY <1>0, <1>1, <1>6, Zenon DEF ReadError, ForgetReads, TypeOK, ReadsMove
<1>7. ASSUME NEW e \in ID, ScanEntry(p, e) PROVE ReadsMove(q)
  BY <1>0, <1>1, <1>7, Zenon DEF ScanEntry, TypeOK, ReadsMove
<1> QED
  BY <1>2, <1>3, <1>4, <1>5, <1>6, <1>7, Zenon DEF Read

(* A verify pass reads no snapshot. *)
LEMMA VerifyReadsMove ==
    ASSUME TypeOK, NEW p \in Process, Verify(p), NEW q \in Viewers
    PROVE  ReadsMove(q)
<1> USE DEF Goto
<1>0. q \in Process
  BY DEF Process
<1>1. scan' = scan /\ seen' = seen /\ view' = view /\ floor' = floor
  BY DEF Verify, VerifyLock, VerifyDone, VerifyFail, VerifyEntry, reading
<1>2. pc' = pc \/ \E l \in {"verify", "done", "view"} : pc' = [pc EXCEPT ![p] = l]
  BY Zenon DEF Verify, VerifyLock, VerifyDone, VerifyFail, VerifyEntry
<1> QED
  BY <1>0, <1>1, <1>2 DEF ReadsMove, SameReads, Looking, TypeOK

(* No step moves a snapshot any other way. *)
LEMMA StepReadsMove ==
    ASSUME LockInv, [Next]_vars, NEW q \in Viewers
    PROVE  ReadsMove(q)
<1> USE DEF Goto
<1>0. /\ TypeOK /\ q \in Process
      /\ Writers \subseteq Process /\ Callbacks \subseteq Process
      /\ Receivers \subseteq Process /\ Receivers \cap Viewers = {}
      /\ Writers \subseteq Viewers /\ Callbacks \subseteq Viewers
  BY TasksAndEntriesDistinct DEF LockInv, Process, Viewers
<1>1. ASSUME scan' = scan, seen' = seen, view' = view, floor' = floor,
             NEW o \in Process, NEW l, pc' = [pc EXCEPT ![o] = l],
             o \in Viewers => l \notin Looking
      PROVE  ReadsMove(q)
  BY <1>0, <1>1 DEF ReadsMove, SameReads, Looking, TypeOK
<1>2. ASSUME NEW o \in Viewers, ForgetReads(o),
             NEW l, pc' = [pc EXCEPT ![o] = l], l \notin Looking
      PROVE  ReadsMove(q)
  BY <1>0, <1>2 DEF ForgetReads, ReadsMove, SameReads, Looking, Process, TypeOK
<1>3. ASSUME NEW o \in Viewers, ScanDone(o),
             view' = [view EXCEPT ![o] = Frontier(o)],
             scan' = scan, seen' = seen, floor' = floor,
             NEW l, pc' = [pc EXCEPT ![o] = l], l \notin {"probe", "scan"}
      PROVE  ReadsMove(q)
  <2>1. o \in Process /\ (q # o => view'[q] = view[q] /\ pc'[q] = pc[q])
    BY <1>0, <1>3 DEF TypeOK, Process
  <2>2. view'[o] = Frontier(o) /\ pc'[o] = l
    BY <1>0, <1>3 DEF TypeOK, Process
  <2>3. CASE q = o
    BY <1>3, <2>2, <2>3 DEF ReadsMove
  <2>4. CASE q # o
    BY <1>3, <2>1, <2>4 DEF ReadsMove, SameReads
  <2> QED BY <2>3, <2>4
<1>4. ASSUME NEW w \in Writers, Write(w) PROVE ReadsMove(q)
  <2>1. CASE OpenTransaction(w)
    <3>1. PICK l \in {"failed", "txn"} : pc' = [pc EXCEPT ![w] = l]
      BY <2>1, Zenon DEF OpenTransaction
    <3> QED BY <1>0, <1>3, <2>1, <3>1, Zenon DEF OpenTransaction
  <2>2. CASE SealTransaction(w)
    <3>1. PICK l \in {"wantPut", "failed"} : pc' = [pc EXCEPT ![w] = l]
      BY <2>2, Zenon DEF SealTransaction
    <3> QED BY <1>0, <1>3, <2>2, <3>1, Zenon DEF SealTransaction
  <2>3. CASE PutLock(w)
    BY <1>0, <1>1, <2>3, Zenon DEF PutLock, reading, Looking
  <2>4. CASE PutWrite(w)
    BY <1>0, <1>1, <2>4, Zenon DEF PutWrite, reading, Looking
  <2>5. CASE PutMark(w)
    BY <1>0, <1>1, <2>5, Zenon DEF PutMark, reading, Looking
  <2>6. CASE PutFire(w)
    BY <1>0, <1>2, <2>6, Zenon DEF PutFire, Looking
  <2>7. CASE PutFail(w)
    BY <1>0, <1>2, <2>7, Zenon DEF PutFail, Looking
  <2> QED
    BY <1>0, <1>4, <2>1, <2>2, <2>3, <2>4, <2>5, <2>6, <2>7, ReadReadsMove,
       VerifyReadsMove DEF Write
<1>5. ASSUME NEW c \in Callbacks, Watch(c) PROVE ReadsMove(q)
  <2>1. CASE ReadCursor(c)
    BY <1>0, <1>3, <2>1, Zenon DEF ReadCursor
  <2>2. CASE RegisterCallback(c)
    BY <1>0, <1>2, <2>2, Zenon DEF RegisterCallback, Looking
  <2> QED
    BY <1>0, <1>5, <2>1, <2>2, ReadReadsMove, VerifyReadsMove DEF Watch
<1>6. ASSUME NEW d \in Receivers, Ingest(d) PROVE ReadsMove(q)
  <2>1. CASE StoreLock(d)
    BY <1>0, <1>1, <2>1, Zenon DEF StoreLock, reading
  <2>2. CASE StoreDone(d)
    <3>1. PICK l \in {"wantVerify", "done"} : pc' = [pc EXCEPT ![d] = l]
      BY <2>2, Zenon DEF StoreDone
    <3> QED BY <1>0, <1>1, <2>2, <3>1, Zenon DEF StoreDone, reading
  <2>3. ASSUME NEW e \in ID, StoreEntry(d, e) PROVE ReadsMove(q)
    BY <2>3 DEF StoreEntry, reading, ReadsMove, SameReads
  <2> QED
    BY <1>0, <1>6, <2>1, <2>2, <2>3, VerifyReadsMove DEF Ingest
<1>7. ASSUME NEW d \in Receivers, NEW B \in SUBSET Remote, Receive(d, B)
      PROVE  ReadsMove(q)
  BY <1>0, <1>1, <1>7, Zenon DEF Receive, reading
<1>8. CASE SyncDelegated \/ UNCHANGED vars
  BY <1>8 DEF SyncDelegated, vars, reading, ReadsMove, SameReads
<1>9. CASE Crash
  <2>1. /\ pc'[q] \notin Looking
        /\ scan'[q] = {} /\ seen'[q] = {} /\ floor'[q] = {}
    BY <1>0, <1>9 DEF Crash, Looking
  <2> QED BY <2>1 DEF ReadsMove
<1> QED
  BY <1>4, <1>5, <1>6, <1>7, <1>8, <1>9 DEF Next

(* A transaction builds on what its snapshot has seen. *)
LEMMA BasesMove ==
    ASSUME LockInv, [Next]_vars, NEW w \in Writers
    PROVE  base'[w] \subseteq base[w] \cup seen[w]
<1>0. TypeOK
  BY DEF LockInv
<1>1. ASSUME NEW p, Read(p) PROVE base'[w] \subseteq base[w]
  BY <1>1 DEF Read, ProbeTips, ProbeStatus, ProbeError, StartScan, ReadError,
              ScanEntry
<1>2. ASSUME NEW p, Verify(p) PROVE base' = base
  BY <1>2 DEF Verify, VerifyLock, VerifyDone, VerifyFail, VerifyEntry
<1>3. ASSUME NEW o \in Writers, Write(o)
      PROVE  base'[w] \subseteq base[w] \cup seen[w]
  <2>1. CASE OpenTransaction(o)
    <3>1. Frontier(o) \subseteq seen[o]
      BY DEF Frontier
    <3> QED BY <1>0, <2>1, <3>1 DEF OpenTransaction, TypeOK
  <2>2. CASE PutFire(o) \/ PutFail(o)
    BY <1>0, <2>2 DEF PutFire, PutFail, TypeOK
  <2> QED
    BY <1>1, <1>2, <1>3, <2>1, <2>2, Zenon DEF Write, SealTransaction, PutLock,
       PutWrite, PutMark
<1>4. ASSUME NEW c \in Callbacks, Watch(c) PROVE base'[w] \subseteq base[w]
  BY <1>1, <1>2, <1>4 DEF Watch, ReadCursor, RegisterCallback
<1>5. ASSUME NEW d \in Receivers, Ingest(d) PROVE base' = base
  BY <1>2, <1>5 DEF Ingest, StoreLock, StoreDone, StoreEntry
<1>6. (\E d \in Receivers, B \in SUBSET Remote : B # {} /\ Receive(d, B))
         \/ SyncDelegated \/ Crash \/ UNCHANGED vars => base'[w] \subseteq base[w]
  BY DEF Receive, SyncDelegated, Crash, vars
<1> QED
  BY <1>3, <1>4, <1>5, <1>6 DEF Next

(***************************************************************************)
(* The invariant and what follows from it                                  *)
(***************************************************************************)

LEMMA InitSnapshotInv == Init => SnapshotInv
<1> SUFFICES ASSUME Init PROVE SnapshotInv
  OBVIOUS
<1>1. LockInv
  BY InitPrefixInv DEF PrefixInv
<1>2. world \in Worlds
  BY DEF Init
<1>3. /\ world.parents \in [Remote -> SUBSET ({Root} \cup Remote)]
      /\ world.height \in [Remote -> Nat]
      /\ \A e \in Remote :
           /\ world.height[e] > 0
           /\ \A q \in world.parents[e] \ {Root} : world.height[q] < world.height[e]
  BY <1>2, WorldsWellFormed, HeightsRise
<1>4. \A e \in ID : parents[e] = IF e \in Remote THEN world.parents[e] ELSE {}
  BY DEF Init
<1>5. \A e \in ID : height[e] = IF e \in Remote THEN world.height[e] ELSE 0
  BY DEF Init
<1>6. HeightInv
  <2>1. Root \in ID /\ Root \notin Remote /\ Remote \subseteq ID
        /\ Remote \cap Writers = {} /\ Root \notin Writers
    BY TasksAndEntriesDistinct DEF ID
  <2>2. ASSUME NEW e \in ID, NEW q \in parents[e]
        PROVE  height[q] < height[e] /\ q \notin Writers
    <3>1. e \in Remote /\ (q = Root \/ q \in Remote) /\ q \in world.parents[e]
      BY <1>3, <1>4, <2>2
    <3>2. height[e] = world.height[e]
      BY <1>5, <3>1, <2>1
    <3>3. q = Root => height[q] = 0
      BY <1>5, <2>1
    <3>4. q \in Remote => height[q] = world.height[q]
      BY <1>5, <2>1
    <3> QED BY <1>3, <2>1, <3>1, <3>2, <3>3, <3>4
  <2>3. \A e \in Remote : parents[e] = world.parents[e]
    BY <1>4, <2>1
  <2> QED BY <2>2, <2>3 DEF HeightInv
<1>7. ASSUME NEW p \in Viewers PROVE ReadsInv(p)
  BY DEF Init, ReadsInv, Process
<1>8. HeldInv
  BY DEF Init, HeldInv
<1> QED
  BY <1>1, <1>6, <1>7, <1>8 DEF SnapshotInv

LEMMA NextKeepsSnapshotInv ==
    ASSUME SnapshotInv, [Next]_vars
    PROVE  SnapshotInv'
<1>1. LockInv /\ HeightInv /\ HeldInv
  BY DEF SnapshotInv
<1>2. LockInv'
  BY <1>1, NextKeepsLockInv
<1>3. HeightInv'
  BY <1>1, NextKeepsHeightInv
<1>4. held \subseteq held' /\ rawTips \subseteq held
  BY <1>1, HeldGrows DEF rawTips, Tips
<1>5. ASSUME NEW p \in Viewers
      PROVE  scan'[p] \subseteq held' /\ seen'[p] \subseteq held'
  <2>1. ReadsMove(p) /\ scan[p] \subseteq held /\ seen[p] \subseteq held
    BY <1>1, StepReadsMove DEF HeldInv
  <2> QED BY <1>4, <2>1, Zenon DEF ReadsMove, SameReads
<1>6. ASSUME NEW w \in Writers PROVE base'[w] \subseteq held'
  <2>1. base[w] \subseteq held /\ seen[w] \subseteq held
    BY <1>1 DEF HeldInv, Viewers
  <2> QED BY <1>1, <1>4, <2>1, BasesMove
<1>7. ASSUME NEW p \in Viewers \ AllowUnverified PROVE ReadsInv(p)'
  BY <1>1, StepReadsMove, ReadsInvMoves
<1> QED
  BY <1>2, <1>3, <1>5, <1>6, <1>7 DEF SnapshotInv, HeldInv

(* The invariant of the reads, for every number of entries and tasks,       *)
(* whatever the handles' views and the backend's errors.                    *)
THEOREM SnapshotInvariant == Spec => []SnapshotInv
<1>1. Init => SnapshotInv
  BY InitSnapshotInv
<1>2. SnapshotInv /\ [Next]_vars => SnapshotInv'
  BY NextKeepsSnapshotInv
<1> QED
  BY <1>1, <1>2, PTL DEF Spec

(* A default snapshot (Database::snapshot, verified_frontier) misses        *)
(* nothing of the Verified prefix there was when it began to read, whatever *)
(* commits, batches, verify passes, failed reads and writes and crashes     *)
(* interleave with its status reads.                                        *)
THEOREM SnapshotsMissNothing == Spec => []SnapshotIsComplete
<1>1. SnapshotInv => SnapshotIsComplete
  BY DEF SnapshotInv, ReadsInv, SnapshotIsComplete
<1> QED
  BY <1>1, SnapshotInvariant, PTL

(* As long as no entry has Failed, every Unverified entry is where the walk *)
(* of the next verify pass finds it (Database::verify), after any crash.    *)
THEOREM VerifyMissesNothing ==
    ASSUME DefaultViews
    PROVE  Spec => [](With("Failed") = {} => NoneStranded)
<1>1. PrefixInv /\ SnapshotInv => (With("Failed") = {} => NoneStranded)
  BY RegionCovers DEF PrefixInv, LockInv, SnapshotInv
<1> QED
  BY <1>1, PrefixInvariant, SnapshotInvariant, PTL

(***************************************************************************)
(* What a default snapshot names is Verified, with its history             *)
(***************************************************************************)

(* S lies inside an ancestor-closed set of Verified entries. *)
InVerifiedCut(S) ==
    \E C \in SUBSET With("Verified") :
        S \subseteq C /\ \A e \in C : parents[e] \subseteq C

CutInv(p) ==
    /\ seen[p] \subseteq With("Verified")
    /\ \A e \in seen[p] : parents[e] \subseteq seen[p]
    /\ InVerifiedCut(view[p])

(* What a task's last snapshot returned is replaced by the next one only. *)
LEMMA ViewsMove ==
    ASSUME LockInv, [Next]_vars, NEW q \in Viewers
    PROVE  view'[q] \in {view[q], {}} \/ view'[q] = Frontier(q)
<1>0. TypeOK /\ Writers \subseteq Viewers /\ Callbacks \subseteq Viewers
  BY DEF LockInv, Viewers
<1>1. ASSUME NEW p \in Viewers, Read(p) PROVE view'[q] \in {view[q], {}}
  BY <1>0, <1>1 DEF Read, ProbeTips, ProbeStatus, ProbeError, StartScan,
                    ReadError, ScanEntry, ForgetReads, TypeOK
<1>2. ASSUME NEW p, Verify(p) PROVE view' = view
  BY <1>2 DEF Verify, VerifyLock, VerifyDone, VerifyFail, VerifyEntry, reading
<1>3. ASSUME NEW w \in Writers, Write(w)
      PROVE  view'[q] \in {view[q], {}} \/ view'[q] = Frontier(q)
  <2>1. CASE OpenTransaction(w) \/ SealTransaction(w)
    BY <1>0, <2>1 DEF OpenTransaction, SealTransaction, TypeOK
  <2>2. CASE PutFire(w) \/ PutFail(w)
    BY <1>0, <2>2 DEF PutFire, PutFail, ForgetReads, TypeOK
  <2> QED
    BY <1>0, <1>1, <1>2, <1>3, <2>1, <2>2 DEF Write, PutLock, PutWrite, PutMark,
       reading
<1>4. ASSUME NEW c \in Callbacks, Watch(c)
      PROVE  view'[q] \in {view[q], {}} \/ view'[q] = Frontier(q)
  <2>1. CASE ReadCursor(c)
    BY <1>0, <2>1 DEF ReadCursor, TypeOK
  <2>2. CASE RegisterCallback(c)
    BY <1>0, <2>2 DEF RegisterCallback, ForgetReads, TypeOK
  <2> QED BY <1>0, <1>1, <1>2, <1>4, <2>1, <2>2 DEF Watch
<1>5. ASSUME NEW d \in Receivers, Ingest(d) PROVE view' = view
  BY <1>2, <1>5 DEF Ingest, StoreLock, StoreDone, StoreEntry, reading
<1>6. (\E d \in Receivers, B \in SUBSET Remote : B # {} /\ Receive(d, B))
         \/ SyncDelegated \/ Crash \/ UNCHANGED vars => view'[q] \in {view[q], {}}
  BY DEF Receive, SyncDelegated, Crash, vars, reading
<1> QED
  BY <1>3, <1>4, <1>5, <1>6 DEF Next

LEMMA CutInvMoves ==
    ASSUME "read" \notin BackendMayFail, SnapshotInv, [Next]_vars,
           NEW p \in Viewers \ AllowUnverified, CutInv(p)
    PROVE  CutInv(p)'
<1>0. LockInv /\ TypeOK /\ ReadsMove(p) /\ scan[p] \subseteq held
  BY StepReadsMove DEF SnapshotInv, LockInv, HeldInv
<1>1. With("Verified") \subseteq With("Verified")' /\ With("Verified") \subseteq held
  BY <1>0, StatusChange DEF With, held
<1>2. \A e \in held : parents'[e] = parents[e]
  BY <1>0, AncestryGrows
<1>3. InVerifiedCut({}) /\ InVerifiedCut(Frontier(p))
  BY DEF CutInv, InVerifiedCut, Frontier
<1>4. InVerifiedCut(view[p])'
  <2>1. InVerifiedCut(view[p]) /\ (view'[p] \in {view[p], {}, Frontier(p)})
    BY <1>0, ViewsMove DEF CutInv
  <2> DEFINE V == view'[p]
  <2>2. InVerifiedCut(V)
    BY <1>3, <2>1
  <2> HIDE DEF V
  <2>3. \E C \in SUBSET With("Verified")' :
          V \subseteq C /\ \A e \in C : parents'[e] \subseteq C
    <3>1. PICK C \in SUBSET With("Verified") :
            V \subseteq C /\ \A e \in C : parents[e] \subseteq C
      BY <2>2 DEF InVerifiedCut
    <3>2. C \in SUBSET With("Verified")' /\ \A e \in C : parents'[e] \subseteq C
      BY <1>1, <1>2, <3>1
    <3> QED BY <3>1, <3>2
  <2> QED BY <2>3 DEF InVerifiedCut, V
<1>5. \/ seen'[p] \in {seen[p], {}}
      \/ \E e \in scan[p] : Visible(p, e) /\ seen'[p] = seen[p] \cup {e}
  BY <1>0, Zenon DEF ReadsMove, SameReads
<1>6. /\ seen'[p] \subseteq With("Verified")
      /\ \A e \in seen'[p] : parents[e] \subseteq seen'[p]
  BY <1>0, <1>5 DEF CutInv, Visible, With, held
<1> QED
  BY <1>1, <1>2, <1>4, <1>6 DEF CutInv

(* A default snapshot (Database::snapshot), and so the parents of a         *)
(* transaction and the first cursor of a callback, names only entries       *)
(* inside an ancestor-closed set of Verified entries, however its status    *)
(* reads interleave with writers, and whatever allow_unverified handles do  *)
(* beside it.                                                               *)
THEOREM SnapshotsAreVerifiedCuts ==
    ASSUME "read" \notin BackendMayFail
    PROVE  Spec => []SnapshotIsVerifiedCut
<1> DEFINE Inv == SnapshotInv /\ \A p \in Viewers \ AllowUnverified : CutInv(p)
<1>1. Init => Inv
  <2>1. Init => \A p \in Viewers : seen[p] = {} /\ view[p] = {}
    BY DEF Init
  <2> QED BY <2>1, InitSnapshotInv DEF CutInv, InVerifiedCut
<1>2. Inv /\ [Next]_vars => Inv'
  BY NextKeepsSnapshotInv, CutInvMoves
<1>3. Inv => SnapshotIsVerifiedCut
  BY DEF CutInv, InVerifiedCut, SnapshotIsVerifiedCut
<1> HIDE DEF Inv
<1> QED
  BY <1>1, <1>2, <1>3, PTL DEF Spec
=============================================================================
