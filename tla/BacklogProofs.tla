--------------------------- MODULE BacklogProofs ----------------------------
(* Proofs about Backlog, for any collections, posts, caps and age.           *)
EXTENDS Backlog, FiniteSetTheorems, WellFoundedInduction, TLAPS

\* What the age of a cached id says: the collection that has the name lost it
\* no time ago, and the cached one had it when the id was looked up.
AgeInv ==
    /\ named # None => unnamed[named] = 0
    /\ cached # None => unnamed[cached] <= age

BacklogInv == TypeOK /\ AgeInv

\* A post that is in no feed can be put before one without a repetition.
LEMMA PutFirst ==
  ASSUME NEW s \in Seq(Posts), IsInjective(s), NEW p \in Posts, p \notin Range(s)
  PROVE  <<p>> \o s \in Seq(Posts) /\ IsInjective(<<p>> \o s)
<1> DEFINE t == <<p>> \o s
<1>1. t \in Seq(Posts) /\ Len(t) = Len(s) + 1
  OBVIOUS
<1>2. \A k \in 1..Len(t) : t[k] = IF k = 1 THEN p ELSE s[k - 1]
  OBVIOUS
<1>3. \A k \in 1..Len(s) : s[k] # p
  BY DEF Range
<1>4. ASSUME NEW i \in 1..Len(t), NEW j \in 1..Len(t), t[i] = t[j] PROVE i = j
  <2>1. i = 1 <=> j = 1
    BY <1>1, <1>2, <1>3, <1>4
  <2>2. CASE i # 1 /\ j # 1
    <3>1. i - 1 \in 1..Len(s) /\ j - 1 \in 1..Len(s) /\ s[i - 1] = s[j - 1]
      BY <1>1, <1>2, <1>4, <2>2
    <3> QED
      BY <3>1 DEF IsInjective
  <2> QED
    BY <2>1, <2>2
<1>5. IsInjective(t)
  BY <1>1, <1>4 DEF IsInjective
<1> QED
  BY <1>1, <1>5

\* The backlog starts in the invariant.
LEMMA BacklogInit == Init => BacklogInv
<1> SUFFICES ASSUME Init PROVE BacklogInv
  OBVIOUS
<1> USE BacklogAssumption DEF Init
<1>1. feed \in [Collections -> Seq(Posts)] /\ \A c \in Collections : IsInjective(feed[c])
  BY DEF IsInjective
<1>2. BacklogInv
  BY <1>1 DEF BacklogInv, TypeOK, AgeInv
<1> QED
  BY <1>2

\* The user's steps, and time, keep the invariant.
LEMMA OutsideKeeps ==
  ASSUME BacklogInv,
         \/ Tick
         \/ \E c \in Collections \cup {None} : Rename(c)
         \/ \E p \in Posts, c \in Collections : Save(p, c)
  PROVE  BacklogInv'
<1> USE BacklogAssumption DEF BacklogInv
<1>1. CASE Tick
  <2>1. unnamed' \in [Collections -> 0..MaxAge] /\ age' \in 0..MaxAge
    BY <1>1 DEF Tick, TypeOK, Older
  <2>2. TypeOK'
    BY <1>1, <2>1 DEF Tick, TypeOK, Older
  <2>3. AgeInv'
    BY <1>1 DEF Tick, TypeOK, AgeInv, Older
  <2> QED
    BY <2>2, <2>3
<1>2. ASSUME NEW c \in Collections \cup {None}, Rename(c) PROVE BacklogInv'
  <2>1. unnamed' \in [Collections -> 0..MaxAge]
    BY <1>2 DEF Rename, TypeOK
  <2>2. TypeOK'
    BY <1>2, <2>1 DEF Rename, TypeOK
  <2>3. AgeInv'
    BY <1>2 DEF Rename, TypeOK, AgeInv
  <2> QED
    BY <2>2, <2>3
<1>3. ASSUME NEW p \in Posts, NEW c \in Collections, Save(p, c) PROVE BacklogInv'
  <2>1. <<p>> \o feed[c] \in Seq(Posts) /\ IsInjective(<<p>> \o feed[c])
    BY <1>3, PutFirst DEF Save, TypeOK
  <2>2. feed' \in [Collections -> Seq(Posts)]
    BY <1>3, <2>1 DEF Save, TypeOK
  <2>3. \A d \in Collections : IsInjective(feed'[d])
    BY <1>3, <2>1 DEF Save, TypeOK
  <2>4. TypeOK' /\ AgeInv'
    BY <1>3, <2>2, <2>3 DEF Save, TypeOK, AgeInv
  <2> QED
    BY <2>4
<1> QED
  BY <1>1, <1>2, <1>3

\* A run keeps the invariant: an id is kept as it was, looked up, or dropped.
LEMMA ImportKeeps ==
  ASSUME BacklogInv, ImportRun
  PROVE  BacklogInv'
<1> USE BacklogAssumption DEF BacklogInv
<1>1. PICK good \in SUBSET Recipes : \E failure \in Failures : Import(good, failure)
  BY DEF ImportRun
<1>2. /\ Used \in Collections
      /\ stored' = stored \cup good
      /\ Forget \/ Keep
      /\ UNCHANGED <<feed, named, unnamed>>
  BY <1>1 DEF Import, Used, Fresh, TypeOK
<1>3. stored' \subseteq Posts
  BY <1>2 DEF TypeOK, Posts
<1>4. CASE Forget
  BY <1>2, <1>3, <1>4 DEF Forget, TypeOK, AgeInv
<1>5. CASE Keep
  <2>1. cached' = Used /\ age' \in 0..MaxAge
    BY <1>5 DEF Keep, TypeOK
  <2>2. unnamed[Used] <= age'
    BY <1>2, <1>5 DEF Keep, Fresh, Used, TypeOK, AgeInv
  <2>3. TypeOK'
    BY <1>2, <1>3, <2>1 DEF TypeOK
  <2> QED
    BY <1>2, <2>1, <2>2, <2>3 DEF AgeInv
<1> QED
  BY <1>2, <1>4, <1>5

\* The invariant holds throughout.
THEOREM BacklogCorrect == Spec => []BacklogInv
<1>1. BacklogInv /\ [Next]_vars => BacklogInv'
  <2> SUFFICES ASSUME BacklogInv, [Next]_vars PROVE BacklogInv'
    OBVIOUS
  <2>1. CASE UNCHANGED vars
    BY <2>1 DEF vars, BacklogInv, TypeOK, AgeInv
  <2>2. CASE Next
    BY <2>2, OutsideKeeps, ImportKeeps DEF Next
  <2> QED
    BY <2>1, <2>2
<1> QED
  BY BacklogInit, <1>1, PTL DEF Spec

\* Type correctness of the backlog: no post is in a feed twice.
THEOREM BacklogTypeCorrect == Spec => []TypeOK
BY BacklogCorrect, PTL DEF BacklogInv

\* collectionIDMaxAge's comment, "a day bounds that": a cached id is used for
\* less than MaxAge after its collection lost the name.
THEOREM StaleCorrect == Spec => []StaleBounded
<1>1. BacklogInv => StaleBounded
  BY DEF BacklogInv, AgeInv, StaleBounded, Fresh
<1> QED
  BY BacklogCorrect, <1>1, PTL

-----------------------------------------------------------------------------
(* Which recipes drain.  That they do (Drains) is a liveness property and    *)
(* left to TLC; when they can, and when they never will, is proved here.     *)

\* A set of numbers that is not empty has a least one.
LEMMA LeastNumber ==
    ASSUME NEW R \in SUBSET Nat, R # {}
    PROVE  \E j \in R : \A i \in R : j <= i
<1>1. PICK j \in R : \A i \in R : ~(<<i, j>> \in OpToRel(<, Nat))
  BY NatLessThanWellFounded, WFMin
<1>2. \A i \in R : ~(i < j)
  BY <1>1 DEF OpToRel
<1> QED
  BY <1>2

\* The posts with and without a recipe that are not stored, on the pages of a run.
NewRecipes(c) == {i \in New(c) : feed[c][i] \in Recipes}
NewNoise(c)   == {i \in New(c) : feed[c][i] \in Noise}

\* What keeps a backlog draining: a run over a collection with a new recipe on its
\* pages, and fewer new posts without one than it may take, finds a recipe.
ReachesARecipe ==
    \A c \in Collections :
        NewRecipes(c) # {} /\ Cardinality(NewNoise(c)) < MaxItems => Window(c) \cap Recipes # {}

\* The positions of a feed are numbers, and there are finitely many.
LEMMA Positions ==
    ASSUME TypeOK, NEW c \in Collections
    PROVE  /\ feed[c] \in Seq(Posts) /\ Len(feed[c]) \in Nat /\ DOMAIN feed[c] = 1..Len(feed[c])
           /\ DOMAIN feed[c] \subseteq Nat /\ IsFiniteSet(DOMAIN feed[c])
           /\ New(c) \subseteq DOMAIN feed[c] /\ IsFiniteSet(New(c))
<1>1. feed[c] \in Seq(Posts) /\ Len(feed[c]) \in Nat /\ DOMAIN feed[c] = 1..Len(feed[c])
  BY DEF TypeOK
<1>2. IsFiniteSet(1..Len(feed[c]))
  BY <1>1, FS_Interval
<1>3. New(c) \subseteq DOMAIN feed[c]
  BY DEF New
<1> QED
  BY <1>1, <1>2, <1>3, FS_Subset

\* README, "Importing a backlog": as long as posts without a recipe do not fill it,
\* the window moves past what is imported to the recipes behind it, for any feed,
\* any cap and any number of pages.
THEOREM RecipeReached == Spec => []ReachesARecipe
<1>1. ASSUME TypeOK PROVE ReachesARecipe
  <2> SUFFICES ASSUME NEW c \in Collections, NewRecipes(c) # {},
                      Cardinality(NewNoise(c)) < MaxItems
               PROVE  Window(c) \cap Recipes # {}
    BY DEF ReachesARecipe
  <2>1. /\ feed[c] \in Seq(Posts) /\ DOMAIN feed[c] \subseteq Nat
        /\ New(c) \subseteq DOMAIN feed[c] /\ IsFiniteSet(New(c))
    BY <1>1, Positions
  <2>2. PICK j \in NewRecipes(c) : \A i \in NewRecipes(c) : j <= i
    BY <2>1, LeastNumber DEF NewRecipes
  <2> DEFINE before == {k \in New(c) : k < j}
  <2>3. before \subseteq NewNoise(c)
    <3> SUFFICES ASSUME NEW k \in New(c), k < j PROVE feed[c][k] \in Noise
      BY DEF NewNoise
    <3>1. k \notin NewRecipes(c)
      BY <2>1, <2>2 DEF NewRecipes
    <3>2. feed[c][k] \in Posts
      BY <2>1
    <3> QED
      BY <3>1, <3>2 DEF NewRecipes, Posts
  <2>4. IsFiniteSet(NewNoise(c))
    BY <2>1, FS_Subset DEF NewNoise
  <2>5. Cardinality(before) <= Cardinality(NewNoise(c))
    BY <2>3, <2>4, FS_Subset
  <2>6. Cardinality(before) \in Nat /\ Cardinality(NewNoise(c)) \in Nat
    BY <2>3, <2>4, FS_Subset, FS_CardinalityType
  <2>7. Cardinality(before) < MaxItems
    BY <2>5, <2>6, BacklogAssumption
  <2>8. j \in New(c) /\ feed[c][j] \in Recipes
    BY DEF NewRecipes
  <2> QED
    BY <2>7, <2>8 DEF Window
<1> QED
  BY <1>1, BacklogTypeCorrect, PTL

\* A post is in one feed, and what is stored has a recipe.
Apart ==
    /\ \A c, d \in Collections : c # d => Range(feed[c]) \cap Range(feed[d]) = {}
    /\ stored \subseteq Recipes

\* A recipe that lies past the pages of a run, or behind as many posts without one
\* as a run takes.
Pinned(p, c) ==
    \E j \in DOMAIN feed[c] :
        /\ feed[c][j] = p
        /\ \/ j > MaxPages * PageSize
           \/ Cardinality({k \in 1..(j - 1) : feed[c][k] \in Noise}) >= MaxItems

LEMMA ApartStep ==
    ASSUME TypeOK, Apart, [Next]_vars
    PROVE  Apart'
<1>1. ASSUME NEW p \in Posts, NEW c \in Collections, Save(p, c) PROVE Apart'
  <2>1. /\ \A d \in Collections : p \notin Range(feed[d])
        /\ feed' = [feed EXCEPT ![c] = <<p>> \o @] /\ stored' = stored
    BY <1>1 DEF Save
  <2>2. feed \in [Collections -> Seq(Posts)] /\ feed[c] \in Seq(Posts)
    BY DEF TypeOK
  <2>3. Range(<<p>> \o feed[c]) \subseteq Range(feed[c]) \cup {p}
    <3> SUFFICES ASSUME NEW i \in DOMAIN (<<p>> \o feed[c])
                 PROVE  (<<p>> \o feed[c])[i] \in Range(feed[c]) \cup {p}
      BY DEF Range
    <3>1. i \in 1..(Len(feed[c]) + 1) /\ Len(feed[c]) \in Nat
      BY <2>2
    <3>2. (<<p>> \o feed[c])[i] = IF i = 1 THEN p ELSE feed[c][i - 1]
      BY <2>2, <3>1
    <3>3. i # 1 => i - 1 \in DOMAIN feed[c]
      BY <2>2, <3>1
    <3> QED
      BY <3>2, <3>3 DEF Range
  <2>4. \A d \in Collections : Range(feed'[d]) \subseteq Range(feed[d]) \cup (IF d = c THEN {p} ELSE {})
    BY <2>1, <2>2, <2>3
  <2>5. ASSUME NEW d \in Collections, NEW e \in Collections, d # e
        PROVE  Range(feed'[d]) \cap Range(feed'[e]) = {}
    <3>1. Range(feed[d]) \cap Range(feed[e]) = {} /\ p \notin Range(feed[d]) /\ p \notin Range(feed[e])
      BY <2>1, <2>5 DEF Apart
    <3> QED
      BY <2>4, <2>5, <3>1
  <2> QED
    BY <2>1, <2>5 DEF Apart
<1>2. CASE ImportRun
  <2>1. UNCHANGED feed /\ stored' \subseteq stored \cup Recipes
    BY <1>2 DEF ImportRun, Import
  <2> QED
    BY <2>1 DEF Apart
<1>3. CASE UNCHANGED <<feed, stored>>
  BY <1>3 DEF Apart
<1> QED
  BY <1>1, <1>2, <1>3 DEF Next, Tick, Rename, vars

\* No run stores a recipe that is pinned.
LEMMA PinnedUnstored ==
    ASSUME TypeOK, Apart, ImportRun, NEW p \in Recipes \ stored, NEW c \in Collections, Pinned(p, c)
    PROVE  p \notin stored'
<1> SUFFICES ASSUME p \in stored' PROVE FALSE
  OBVIOUS
<1>1. Used \in Collections /\ p \in Window(Used)
  BY DEF ImportRun, Import, Used, Fresh, TypeOK
<1> DEFINE d == Used
<1>2. PICK i \in New(d) : feed[d][i] = p /\ Cardinality({k \in New(d) : k < i}) < MaxItems
  BY <1>1 DEF Window
<1>3. PICK j \in DOMAIN feed[c] :
        /\ feed[c][j] = p
        /\ \/ j > MaxPages * PageSize
           \/ Cardinality({k \in 1..(j - 1) : feed[c][k] \in Noise}) >= MaxItems
  BY DEF Pinned
<1>4. d = c
  <2>1. p \in Range(feed[d]) /\ p \in Range(feed[c])
    BY <1>2, <1>3 DEF New, Range
  <2> QED
    BY <1>1, <2>1 DEF Apart
<1>5. i = j
  BY <1>2, <1>3, <1>4 DEF TypeOK, IsInjective, New
<1>6. /\ DOMAIN feed[c] = 1..Len(feed[c]) /\ Len(feed[c]) \in Nat /\ feed[c] \in Seq(Posts)
      /\ IsFiniteSet(New(c)) /\ j \in Nat
  BY Positions
<1> DEFINE noise == {k \in 1..(j - 1) : feed[c][k] \in Noise}
           before == {k \in New(c) : k < j}
           last == MaxPages * PageSize
<1>7. last \in Nat /\ j <= last
  BY <1>2, <1>4, <1>5, BacklogAssumption DEF New
<1>8. noise \subseteq before
  <2> SUFFICES ASSUME NEW k \in 1..(j - 1), feed[c][k] \in Noise PROVE k \in New(c) /\ k < j
    OBVIOUS
  <2>1. k \in DOMAIN feed[c] /\ k <= last /\ k < j
    BY <1>3, <1>6, <1>7
  <2>2. feed[c][k] \notin stored
    BY BacklogAssumption DEF Apart
  <2> QED
    BY <2>1, <2>2 DEF New
<1>9. /\ IsFiniteSet(before) /\ IsFiniteSet(noise) /\ Cardinality(noise) <= Cardinality(before)
  BY <1>6, <1>8, FS_Subset
<1>10. Cardinality(noise) \in Nat /\ Cardinality(before) \in Nat
  BY <1>9, FS_CardinalityType
<1>11. Cardinality(noise) >= MaxItems
  BY <1>3, <1>6, <1>7
<1> QED
  BY <1>2, <1>4, <1>5, <1>9, <1>10, <1>11, BacklogAssumption

\* No step takes a post before a recipe away.
LEMMA StaysPinned ==
    ASSUME TypeOK, [Next]_vars, NEW p \in Recipes, NEW c \in Collections, Pinned(p, c)
    PROVE  Pinned(p, c)'
<1>1. CASE feed'[c] = feed[c]
  BY <1>1 DEF Pinned
<1>2. ASSUME NEW q \in Posts, Save(q, c) PROVE Pinned(p, c)'
  <2>1. /\ feed[c] \in Seq(Posts) /\ feed'[c] = <<q>> \o feed[c]
        /\ DOMAIN feed[c] = 1..Len(feed[c]) /\ Len(feed[c]) \in Nat
    BY <1>2 DEF Save, TypeOK
  <2>2. /\ DOMAIN feed'[c] = 1..(Len(feed[c]) + 1)
        /\ \A k \in 1..Len(feed[c]) : feed'[c][k + 1] = feed[c][k]
    BY <2>1
  <2>3. PICK j \in DOMAIN feed[c] :
          /\ feed[c][j] = p
          /\ \/ j > MaxPages * PageSize
             \/ Cardinality({k \in 1..(j - 1) : feed[c][k] \in Noise}) >= MaxItems
    BY DEF Pinned
  <2>4. j + 1 \in DOMAIN feed'[c] /\ feed'[c][j + 1] = p /\ j \in Nat /\ (j + 1) - 1 = j
    BY <2>1, <2>2, <2>3
  <2>5. CASE j > MaxPages * PageSize
    <3>1. MaxPages * PageSize \in Nat
      BY BacklogAssumption
    <3>2. j + 1 > MaxPages * PageSize
      BY <2>4, <2>5, <3>1
    <3> QED
      BY <2>4, <3>2 DEF Pinned
  <2>6. CASE Cardinality({k \in 1..(j - 1) : feed[c][k] \in Noise}) >= MaxItems
    <3> DEFINE old == {k \in 1..(j - 1) : feed[c][k] \in Noise}
               new == {k \in 1..j : feed'[c][k] \in Noise}
               f == [k \in old |-> k + 1]
    <3>1. f \in [old -> new]
      <4> SUFFICES ASSUME NEW k \in old PROVE k + 1 \in new
        OBVIOUS
      <4>1. k \in 1..Len(feed[c]) /\ k + 1 \in 1..j
        BY <2>1, <2>4
      <4> QED
        BY <2>2, <4>1
    <3>2. f \in Injection(old, new)
      BY <3>1 DEF Injection, IsInjective
    <3>3. IsFiniteSet(new)
      <4>1. IsFiniteSet(1..j)
        BY <2>4, FS_Interval
      <4> QED
        BY <4>1, FS_Subset
    <3>4. /\ Cardinality(old) <= Cardinality(new) /\ IsFiniteSet(old)
      BY <3>2, <3>3, FS_Injection
    <3>5. Cardinality(old) \in Nat /\ Cardinality(new) \in Nat
      BY <3>3, <3>4, FS_CardinalityType
    <3>6. Cardinality(new) >= MaxItems
      BY <2>6, <3>4, <3>5, BacklogAssumption
    <3>7. new = {k \in 1..((j + 1) - 1) : feed'[c][k] \in Noise}
      BY <2>4
    <3> QED
      BY <2>4, <3>6, <3>7 DEF Pinned
  <2> QED
    BY <2>3, <2>5, <2>6
<1>3. ASSUME NEW q \in Posts, NEW d \in Collections \ {c}, Save(q, d) PROVE feed'[c] = feed[c]
  BY <1>3 DEF Save, TypeOK
<1> QED
  BY <1>1, <1>2, <1>3 DEF Next, ImportRun, Import, Tick, Rename, vars

\* The finding about posts without a recipe, for every cap and any number of them:
\* as many as MaxItems in front of a recipe, or more pages than MaxPages, keep it
\* out of every later run - whatever is saved, renamed, cached or imported since.
\* (Only an unsaved post would help, and the model has none.)
THEOREM PinnedForever ==
    Spec => [][\A p \in Recipes, c \in Collections :
                  Pinned(p, c) => Pinned(p, c)' /\ (p \notin stored => p \notin stored')]_vars
<1>1. Init => Apart
  <2> SUFFICES ASSUME Init PROVE Apart
    OBVIOUS
  <2>1. \A c \in Collections : Range(feed[c]) = {}
    BY DEF Init, Range
  <2> QED
    BY <2>1 DEF Init, Apart
<1>2. Spec => []Apart
  BY <1>1, ApartStep, BacklogTypeCorrect, PTL DEF Spec
<1>3. ASSUME TypeOK, Apart, [Next]_vars
      PROVE  [\A p \in Recipes, c \in Collections :
                 Pinned(p, c) => Pinned(p, c)' /\ (p \notin stored => p \notin stored')]_vars
  <2> SUFFICES ASSUME NEW p \in Recipes, NEW c \in Collections, Pinned(p, c)
               PROVE  Pinned(p, c)' /\ (p \notin stored => p \notin stored')
    OBVIOUS
  <2>1. Pinned(p, c)'
    BY <1>3, StaysPinned
  <2>2. CASE ImportRun
    BY <1>3, <2>1, <2>2, PinnedUnstored
  <2>3. CASE UNCHANGED stored
    BY <2>1, <2>3
  <2> QED
    BY <1>3, <2>2, <2>3 DEF Next, Tick, Rename, Save, vars
<1> QED
  BY <1>2, <1>3, BacklogTypeCorrect, PTL DEF Spec
=============================================================================
