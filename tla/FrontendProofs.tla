--------------------------- MODULE FrontendProofs ---------------------------
(* Proofs about the pages of the web frontend: ListPage, with the paging of   *)
(* RecipeSearch, for any recipes, searches, page size and width of integers;  *)
(* DetailPage, for any recipes and edits; and ImportPage, for any number of   *)
(* requests and triggered runs.                                               *)
EXTENDS ListPage, DetailPage, ImportPage, FiniteSetTheorems, TLAPS

-----------------------------------------------------------------------------
(* The pages of RecipeSearch.                                             *)

\* Whatever page a client asks for, of whatever size, a match is on it exactly if
\* it belongs there: the offset never goes round, and every match is on one page.
THEOREM PageIsExact ==
    ASSUME NEW rank \in 1..MaxInt, NEW size \in 1..MaxSize, NEW p \in Nat \ {0}
    PROVE  OnPage(rank, p, size) <=> p = ((rank - 1) \div size) + 1
<1> DEFINE k == p - 1
           q == (rank - 1) \div size
           m == MaxInt \div size
<1>1. MaxInt \in Nat /\ size \in Nat \ {0} /\ rank \in Nat \ {0} /\ rank <= MaxInt /\ k \in Nat
  BY SearchAssumption
<1>2. /\ q \in Nat /\ q * size <= rank - 1 /\ rank - 1 < q * size + size
  BY <1>1, Z3
<1>3. /\ m \in Nat /\ m * size <= MaxInt /\ MaxInt < m * size + size
  BY <1>1, Z3
<1> HIDE DEF q, m
<1>4. ASSUME NEW i \in Nat, NEW j \in Nat, i <= j
      PROVE  i * size \in Nat /\ j * size \in Nat /\ i * size <= j * size
  BY <1>1, <1>4, Z3
<1>5. q <= m
  <2>1. SUFFICES ASSUME m + 1 <= q PROVE FALSE
    BY <1>2, <1>3
  <2>2. (m + 1) * size <= q * size /\ (m + 1) * size = m * size + size
    BY <1>1, <1>2, <1>3, <1>4, <2>1, Z3
  <2>3. m * size \in Nat /\ q * size \in Nat
    BY <1>2, <1>3, <1>4
  <2> QED
    BY <1>1, <1>2, <1>3, <2>2, <2>3
<1>6. CASE Unaddressable(p, size)
  BY <1>1, <1>2, <1>3, <1>5, <1>6 DEF OnPage, Unaddressable, m, q
<1>7. CASE ~Unaddressable(p, size)
  <2>1. k <= m
    BY <1>1, <1>3, <1>7 DEF Unaddressable, m
  <2>2. k * size \in Nat /\ k * size <= MaxInt
    BY <1>1, <1>3, <1>4, <2>1
  <2>3. Offset(p, size) = k * size
    <3> DEFINE x == k * size
    <3>1. x \in Nat /\ x <= MaxInt
      BY <2>2
    <3>2. Offset(p, size) = ((x + MaxInt + 1) % (2 * (MaxInt + 1))) - (MaxInt + 1)
      BY DEF Offset, ToInt32
    <3> HIDE DEF x
    <3>3. (x + MaxInt + 1) % (2 * (MaxInt + 1)) = x + MaxInt + 1
      BY <1>1, <3>1
    <3>4. Offset(p, size) = x
      BY <1>1, <3>1, <3>2, <3>3
    <3> QED
      BY <3>4 DEF x
  <2>4. OnPage(rank, p, size) <=> k * size < rank /\ rank <= k * size + size
    BY <1>7, <2>3 DEF OnPage
  <2>5. k = q => k * size < rank /\ rank <= k * size + size
    BY <1>1, <1>2, <2>2
  <2>6. ASSUME k < q PROVE ~(rank <= k * size + size)
    <3>1. (k + 1) * size <= q * size /\ (k + 1) * size = k * size + size
      BY <1>1, <1>2, <1>4, <2>6, Z3
    <3>2. q * size \in Nat
      BY <1>2, <1>4
    <3> QED
      BY <1>1, <1>2, <2>2, <3>1, <3>2
  <2>7. ASSUME q < k PROVE ~(k * size < rank)
    <3>1. (q + 1) * size <= k * size /\ (q + 1) * size = q * size + size
      BY <1>1, <1>2, <1>4, <2>7, Z3
    <3>2. q * size \in Nat
      BY <1>2, <1>4
    <3> QED
      BY <1>1, <1>2, <2>2, <3>1, <3>2
  <2>8. p = q + 1 <=> k = q
    BY <1>1, <1>2
  <2> QED
    BY <1>1, <1>2, <2>4, <2>5, <2>6, <2>7, <2>8 DEF q
<1> QED
  BY <1>6, <1>7

-----------------------------------------------------------------------------
(* Requests in flight.                                                     *)

\* What is made of each element of a finite set is no more.
LEMMA ImageCount ==
  ASSUME NEW S, IsFiniteSet(S), NEW f, DOMAIN f = S, NEW T, T = {f[x] : x \in S}
  PROVE  IsFiniteSet(T) /\ Cardinality(T) <= Cardinality(S)
<1> DEFINE g == [x \in S |-> f[x]]
<1>1. g \in Surjection(S, T)
  BY DEF Surjection
<1> QED
  BY <1>1, FS_Surjection

-----------------------------------------------------------------------------
(* The order of the list.                                                  *)

\* The recipes a query matches come in a total order.
LEMMA MatchFacts ==
  ASSUME TypeOK, NEW q, NEW cat
  PROVE  /\ Matches(q, cat) \subseteq Ids /\ IsFiniteSet(Matches(q, cat))
         /\ Cardinality(Matches(q, cat)) \in 0..Cardinality(Ids) /\ Cardinality(Ids) <= MaxInt
         /\ \A i, j \in Matches(q, cat) : i # j => Precedes(i, j) \/ Precedes(j, i)
         /\ \A i, j, k \in Matches(q, cat) : Precedes(i, j) /\ Precedes(j, k) => Precedes(i, k)
         /\ \A i \in Matches(q, cat) : ~Precedes(i, i)
<1> USE ListAssumption
<1>1. Matches(q, cat) \subseteq Ids /\ \A i \in Matches(q, cat) : i \in Nat /\ stored[i].name \in Nat
  BY DEF Matches, TypeOK
<1>2. IsFiniteSet(Matches(q, cat)) /\ Cardinality(Matches(q, cat)) <= Cardinality(Ids)
  BY <1>1, FS_Subset
<1>3. Cardinality(Matches(q, cat)) \in Nat /\ Cardinality(Ids) \in Nat
  BY <1>2, FS_CardinalityType
<1> DEFINE M == Matches(q, cat)
<1> HIDE DEF M
<1>4. /\ \A i, j \in M : i # j => Precedes(i, j) \/ Precedes(j, i)
      /\ \A i, j, k \in M : Precedes(i, j) /\ Precedes(j, k) => Precedes(i, k)
      /\ \A i \in M : ~Precedes(i, i)
  BY <1>1 DEF Precedes, M
<1> QED
  BY <1>1, <1>2, <1>3, <1>4 DEF M

\* The ranks of n matches are 1, ..., n, each once.
LEMMA RankFacts ==
  ASSUME TypeOK, NEW q, NEW cat
  PROVE  /\ DOMAIN Ranks(q, cat) = Matches(q, cat)
         /\ Ranks(q, cat) \in Injection(Matches(q, cat), 1..Cardinality(Matches(q, cat)))
         /\ Ranks(q, cat) \in Surjection(Matches(q, cat), 1..Cardinality(Matches(q, cat)))
<1> DEFINE M == Matches(q, cat)
           n == Cardinality(M)
           Before(i) == {j \in M : Precedes(j, i)}
           r == Ranks(q, cat)
<1>1. r = [i \in M |-> Cardinality(Before(i)) + 1]
  BY DEF Ranks
<1>2. /\ IsFiniteSet(M) /\ n \in Nat
      /\ \A i, j \in M : i # j => Precedes(i, j) \/ Precedes(j, i)
      /\ \A i, j, k \in M : Precedes(i, j) /\ Precedes(j, k) => Precedes(i, k)
      /\ \A i \in M : ~Precedes(i, i)
  BY MatchFacts, FS_CardinalityType
<1> HIDE DEF M, r
<1>3. ASSUME NEW i \in M
      PROVE  /\ IsFiniteSet(Before(i)) /\ Cardinality(Before(i)) \in Nat
             /\ Cardinality(Before(i)) < n
  <2>1. Before(i) \in SUBSET M /\ Before(i) # M
    BY <1>2
  <2>2. IsFiniteSet(Before(i)) /\ Cardinality(Before(i)) <= n /\ Cardinality(Before(i)) # n
    BY <1>2, <2>1, FS_Subset
  <2> QED
    BY <1>2, <2>2, FS_CardinalityType
<1>4. r \in [M -> 1..n]
  <2>1. \A i \in M : Cardinality(Before(i)) + 1 \in 1..n
    <3> HIDE DEF Before, n
    <3> QED
      BY <1>2, <1>3
  <2> HIDE DEF Before, n
  <2> QED
    BY <1>1, <2>1
<1>5. ASSUME NEW i \in M, NEW j \in M, Precedes(i, j) PROVE r[i] < r[j]
  <2>1. Before(i) \in SUBSET Before(j) /\ Before(i) # Before(j)
    BY <1>2, <1>5
  <2>2. /\ IsFiniteSet(Before(j)) /\ Cardinality(Before(i)) \in Nat /\ Cardinality(Before(j)) \in Nat
    BY <1>3
  <2>3. Cardinality(Before(i)) < Cardinality(Before(j))
    <3> HIDE DEF Before
    <3>1. Cardinality(Before(i)) <= Cardinality(Before(j)) /\ Cardinality(Before(i)) # Cardinality(Before(j))
      BY <2>1, <2>2, FS_Subset
    <3> QED
      BY <2>2, <3>1
  <2> QED
    BY <1>1, <2>2, <2>3
<1>6. r \in Injection(M, 1..n)
  <2>1. \A i, j \in M : r[i] = r[j] => i = j
    <3> SUFFICES ASSUME NEW i \in M, NEW j \in M, i # j PROVE r[i] # r[j]
      OBVIOUS
    <3>1. r[i] \in Nat /\ r[j] \in Nat
      BY <1>4
    <3>2. r[i] < r[j] \/ r[j] < r[i]
      BY <1>2, <1>5
    <3> QED
      BY <3>1, <3>2
  <2> QED
    BY <1>4, <2>1 DEF Injection, IsInjective
<1>7. r \in Surjection(M, 1..n)
  <2>1. IsFiniteSet(1..n) /\ Cardinality(1..n) = n
    BY <1>2, FS_Interval
  <2> HIDE DEF n
  <2>2. Cardinality(M) = Cardinality(1..n)
    BY <2>1 DEF n
  <2> QED
    BY <1>6, <2>1, <2>2, FS_Injection
<1> QED
  BY <1>1, <1>6, <1>7 DEF M, r

\* Dividing, as paging does.
LEMMA DivFacts ==
  ASSUME NEW r \in Nat, NEW size \in Nat \ {0}
  PROVE  /\ r \div size \in Nat /\ (r \div size) * size \in Nat
         /\ (r \div size) * size <= r /\ r < (r \div size) * size + size
         /\ r \div size <= r
<1>1. /\ r \div size \in Nat /\ (r \div size) * size \in Nat
      /\ (r \div size) * size <= r /\ r < (r \div size) * size + size
  BY Z3
<1> DEFINE d == r \div size
<1> HIDE DEF d
<1>2. \A e \in Nat : e <= e * size
  BY Z3
<1>3. d <= d * size /\ d \in Nat /\ d * size \in Nat /\ d * size <= r
  BY <1>1, <1>2 DEF d
<1>4. d <= r
  BY <1>3
<1> QED
  BY <1>1, <1>4 DEF d

\* A page holds the matches whose rank belongs there.
LEMMA FoundFacts ==
  ASSUME TypeOK, NEW q, NEW cat, NEW p \in Nat \ {0}, NEW size \in Int
  PROVE  /\ PageSize(size) \in 1..MaxSize
         /\ Found(Ranks(q, cat), p, size) =
               {i \in Matches(q, cat) : p = ((Ranks(q, cat)[i] - 1) \div PageSize(size)) + 1}
<1>1. PageSize(size) \in 1..MaxSize /\ PageNumber(p) = p
  BY SearchAssumption DEF PageSize, PageNumber
<1>2. ASSUME NEW i \in Matches(q, cat) PROVE Ranks(q, cat)[i] \in 1..MaxInt
  <2>1. /\ Ranks(q, cat) \in [Matches(q, cat) -> 1..Cardinality(Matches(q, cat))]
        /\ Cardinality(Matches(q, cat)) \in 0..Cardinality(Ids)
        /\ Cardinality(Ids) <= MaxInt
    BY RankFacts, MatchFacts DEF Injection
  <2>2. Cardinality(Ids) \in Nat /\ MaxInt \in Nat
    BY FS_CardinalityType, ListAssumption, SearchAssumption
  <2> HIDE DEF Ranks, Matches
  <2> QED
    BY <2>1, <2>2
<1> QED
  BY <1>1, <1>2, RankFacts, PageIsExact DEF Found

\* No search finds a match twice, or never, or more on a page than asked for.
LEMMA PagesPartition == TypeOK => OnOnePage
<1> SUFFICES ASSUME TypeOK, NEW q \in Texts \cup {Any}, NEW cat \in Categories \cup {Any},
                    NEW size \in 0..MaxSize
             PROVE  LET ranks == Ranks(q, cat)
                        found == [p \in 1..MaxPage |-> Found(ranks, p, size)]
                    IN  /\ \A i \in DOMAIN ranks : Cardinality({p \in 1..MaxPage : i \in found[p]}) = 1
                        /\ \A p \in 1..MaxPage : Cardinality(found[p]) <= PageSize(size)
  BY DEF OnOnePage
<1> DEFINE M == Matches(q, cat)
           r == Ranks(q, cat)
           s == PageSize(size)
           n == Cardinality(M)
           On(i) == ((r[i] - 1) \div s) + 1
           F(p) == Found(r, p, size)
<1>1. /\ r \in Injection(M, 1..n) /\ DOMAIN r = M /\ n \in Nat /\ n <= MaxInt
      /\ IsFiniteSet(M)
  <2>1. n \in 0..Cardinality(Ids) /\ Cardinality(Ids) <= MaxInt /\ Cardinality(Ids) \in Nat /\ MaxInt \in Nat
    BY MatchFacts, FS_CardinalityType, ListAssumption, SearchAssumption
  <2> HIDE DEF n
  <2>2. n \in Nat /\ n <= MaxInt
    BY <2>1
  <2> QED
    BY <2>2, RankFacts, MatchFacts DEF n
<1>2. s \in Nat \ {0}
  BY FoundFacts, SearchAssumption
<1>3. \A p \in 1..MaxPage : F(p) = {i \in M : p = On(i)}
  <2> SUFFICES ASSUME NEW p \in 1..MaxPage PROVE F(p) = {i \in M : p = On(i)}
    OBVIOUS
  <2>1. size \in Int /\ p \in Nat \ {0}
    OBVIOUS
  <2> QED
    BY <2>1, FoundFacts
<1> HIDE DEF M, r, s, n
<1>4. ASSUME NEW i \in M PROVE r[i] \in 1..n /\ On(i) \in 1..MaxPage
  <2>1. r[i] \in 1..n
    BY <1>1 DEF Injection
  <2>2. r[i] - 1 \in Nat /\ r[i] <= MaxInt /\ MaxInt \in Nat
    BY <1>1, <2>1, SearchAssumption
  <2>3. (r[i] - 1) \div s \in Nat /\ (r[i] - 1) \div s <= r[i] - 1
    BY <1>2, <2>2, DivFacts
  <2> DEFINE d == (r[i] - 1) \div s
  <2> HIDE DEF d
  <2>4. d + 1 \in 1..MaxPage
    BY <2>1, <2>2, <2>3 DEF d, MaxPage
  <2> QED
    BY <2>1, <2>4 DEF d
<1>5. ASSUME NEW i \in M PROVE Cardinality({p \in 1..MaxPage : i \in F(p)}) = 1
  <2>1. {p \in 1..MaxPage : i \in F(p)} = {On(i)}
    <3> HIDE DEF F, On
    <3> QED
      BY <1>3, <1>4
  <2> QED
    BY <2>1, FS_Singleton
<1>6. ASSUME NEW p \in 1..MaxPage PROVE Cardinality(F(p)) <= s
  <2> DEFINE lo == (p - 1) * s
             g == [i \in F(p) |-> r[i]]
  <2>1. lo \in Nat /\ lo + 1 \in Int /\ lo + s \in Int
    <3>1. p - 1 \in Nat
      BY <1>6
    <3>2. (p - 1) * s \in Nat
      BY <1>2, <3>1, Z3
    <3> QED
      BY <1>2, <3>2
  <2>2. IsFiniteSet((lo + 1)..(lo + s)) /\ Cardinality((lo + 1)..(lo + s)) = s
    <3> HIDE DEF lo
    <3>1. lo + 1 <= lo + s /\ (lo + s) - (lo + 1) + 1 = s
      BY <1>2, <2>1
    <3>2. lo + 1 \in Int /\ lo + s \in Int /\ ~(lo + 1 > lo + s)
      BY <1>2, <2>1
    <3> QED
      BY <3>1, <3>2, FS_Interval
  <2>3. ASSUME NEW i \in F(p) PROVE i \in M /\ r[i] \in (lo + 1)..(lo + s)
    <3>1. i \in M /\ p = On(i)
      BY <1>3, <2>3
    <3>2. r[i] \in Nat \ {0} /\ r[i] - 1 \in Nat
      BY <1>1, <1>4, <3>1
    <3> DEFINE d == (r[i] - 1) \div s
    <3>3. d \in Nat /\ d * s \in Nat /\ d * s <= r[i] - 1 /\ r[i] - 1 < d * s + s
      BY <1>2, <3>2, DivFacts
    <3> HIDE DEF d
    <3>4. p - 1 = d
      BY <3>1, <3>3 DEF d
    <3> HIDE DEF lo
    <3>5. lo = d * s
      BY <3>4 DEF lo
    <3>6. r[i] \in (lo + 1)..(lo + s)
      BY <1>2, <3>2, <3>3, <3>5
    <3> QED
      BY <3>1, <3>6
  <2> HIDE DEF F, lo
  <2>4. g \in Injection(F(p), (lo + 1)..(lo + s))
    <3>1. g \in [F(p) -> (lo + 1)..(lo + s)]
      BY <2>3
    <3>2. \A i, j \in F(p) : g[i] = g[j] => i = j
      BY <1>1, <2>3 DEF Injection, IsInjective
    <3> QED
      BY <3>1, <3>2 DEF Injection, IsInjective
  <2> HIDE DEF g
  <2> QED
    BY <2>2, <2>4, FS_Injection
<1> QED
  <2>1. \A i \in DOMAIN r : Cardinality({p \in 1..MaxPage : i \in [x \in 1..MaxPage |-> F(x)][p]}) = 1
    <3> SUFFICES ASSUME NEW i \in DOMAIN r
                 PROVE  Cardinality({p \in 1..MaxPage : i \in [x \in 1..MaxPage |-> F(x)][p]}) = 1
      OBVIOUS
    <3> HIDE DEF F
    <3>1. {p \in 1..MaxPage : i \in [x \in 1..MaxPage |-> F(x)][p]} = {p \in 1..MaxPage : i \in F(p)}
      OBVIOUS
    <3> QED
      BY <1>1, <1>5, <3>1
  <2>2. \A p \in 1..MaxPage : Cardinality([x \in 1..MaxPage |-> F(x)][p]) <= s
    <3> HIDE DEF F
    <3> QED
      BY <1>6
  <2> QED
    BY <2>1, <2>2, Zenon DEF r, s

-----------------------------------------------------------------------------
(* The list page.                                                          *)

\* The pager offers the pages that hold a match and no others, as long as nothing
\* is written; with no match it offers the first.
PagerIsExact ==
    \A q \in Texts \cup {Any}, cat \in Categories \cup {Any}, p \in Nat \ {0} :
        LET total == Cardinality(Matches(q, cat))
        IN  Found(Ranks(q, cat), p, PAGE_SIZE) # {} <=> total > 0 /\ p <= TotalPages(total)

LEMMA PagerFacts == TypeOK => PagerIsExact
<1> SUFFICES ASSUME TypeOK, NEW q \in Texts \cup {Any}, NEW cat \in Categories \cup {Any}, NEW p \in Nat \ {0}
             PROVE  LET total == Cardinality(Matches(q, cat))
                    IN  Found(Ranks(q, cat), p, PAGE_SIZE) # {} <=> total > 0 /\ p <= TotalPages(total)
  BY DEF PagerIsExact
<1> DEFINE M == Matches(q, cat)
           r == Ranks(q, cat)
           n == Cardinality(M)
           s == PAGE_SIZE
<1>1. r \in [M -> 1..n] /\ (\A k \in 1..n : \E i \in M : r[i] = k) /\ n \in Nat
  BY RankFacts, MatchFacts, FS_CardinalityType DEF Injection, Surjection
<1>2. s \in Nat \ {0} /\ PageSize(s) = s /\ s \in Int
  BY ListAssumption, SearchAssumption DEF PageSize
<1>3. Found(r, p, s) = {i \in M : p = ((r[i] - 1) \div s) + 1}
  BY <1>2, FoundFacts
<1> HIDE DEF M, r, n, s
<1>4. ASSUME NEW i \in M, p = ((r[i] - 1) \div s) + 1 PROVE n > 0 /\ p <= TotalPages(n)
  <2>1. r[i] \in 1..n
    BY <1>1
  <2> DEFINE d == (r[i] - 1) \div s
             e == (n + s - 1) \div s
  <2>2. /\ r[i] - 1 \in Nat /\ n + s - 1 \in Nat /\ n > 0
    BY <1>1, <1>2, <2>1
  <2>3. /\ d \in Nat /\ d * s \in Nat /\ d * s <= r[i] - 1
        /\ e \in Nat /\ e * s \in Nat /\ n + s - 1 < e * s + s
    BY <1>2, <2>2, DivFacts
  <2>4. TotalPages(n) = e
    BY <2>2 DEF TotalPages, s
  <2>5. p = d + 1
    BY <1>4
  <2> HIDE DEF d, e
  <2>6. d + 1 <= e
    <3>1. SUFFICES ASSUME e <= d PROVE FALSE
      BY <2>3
    <3>2. e * s <= d * s
      BY <1>2, <2>3, <3>1, Z3
    <3>3. n - 1 < d * s /\ r[i] - 1 <= n - 1
      BY <1>1, <1>2, <2>1, <2>3, <3>2
    <3> QED
      BY <1>1, <2>1, <2>3, <3>3
  <2> QED
    BY <2>2, <2>4, <2>5, <2>6
<1>5. ASSUME n > 0, p <= TotalPages(n) PROVE \E i \in M : p = ((r[i] - 1) \div s) + 1
  <2> DEFINE e == (n + s - 1) \div s
             k == (p - 1) * s
  <2>1. n + s - 1 \in Nat /\ p - 1 \in Nat /\ TotalPages(n) = e
    BY <1>1, <1>2, <1>5 DEF TotalPages, s
  <2>2. e \in Nat /\ e * s \in Nat /\ e * s <= n + s - 1
    BY <1>2, <2>1, DivFacts
  <2>3. k \in Nat
    BY <1>2, <2>1, Z3
  <2>4. k + s <= e * s
    <3> HIDE DEF e
    <3>1. p <= e
      BY <1>5, <2>1
    <3>2. p * s <= e * s /\ p * s = (p - 1) * s + s
      BY <1>2, <2>2, <3>1, Z3
    <3> QED
      BY <3>2
  <2> HIDE DEF e
  <2>5. k + 1 \in 1..n
    <3> HIDE DEF k
    <3> QED
      BY <1>1, <1>2, <2>2, <2>3, <2>4
  <2>6. PICK i \in M : r[i] = k + 1
    BY <1>1, <2>5
  <2>7. k \div s = p - 1
    BY <1>2, <2>1, Z3
  <2>8. r[i] - 1 = k
    <3> HIDE DEF k
    <3> QED
      BY <2>3, <2>6
  <2> QED
    BY <2>7, <2>8
<1> QED
  BY <1>3, <1>4, <1>5, Zenon DEF M, r, n, s

\* What is asked last is what the page goes on from, and there are no more loads
\* than there may be.
ListInv == TypeOK /\ IsFiniteSet(loads) /\ ShownWasAsked

AllLoads == [asked : Filters, step : {"sent", "counted", "ok"}, total : 0..Cardinality(Ids), last : BOOLEAN]

\* The page opens in the invariant.
LEMMA ListInit == Init => ListInv
<1> SUFFICES ASSUME Init PROVE ListInv
  OBVIOUS
<1> DEFINE l == [asked |-> First, step |-> "sent", total |-> 0, last |-> TRUE]
<1>1. loads = {l} /\ Asked = First /\ shown = Fresh(First)
  BY DEF Init, Asked, First
<1>2. First \in Filters /\ l.last /\ l.asked = First
  BY DEF First, Filters
<1>3. 0 \in 0..Cardinality(Ids)
  BY FS_CardinalityType, ListAssumption
<1>4. l \in AllLoads
  BY <1>2, <1>3 DEF AllLoads
<1> HIDE DEF l
<1>5. IsFiniteSet(loads) /\ Cardinality(loads) = 1 /\ 1 <= MaxLoads
  BY <1>1, FS_Singleton, ListAssumption
<1>6. shown \in [kind : {"loading", "list", "error"}, pager : 0..Cardinality(Ids) \cup {None},
                 asked : Filters \cup {None}]
  BY <1>1, <1>2 DEF Fresh
<1>7. TypeOK
  BY <1>1, <1>2, <1>4, <1>5, <1>6 DEF Init, TypeOK, AllLoads
<1>8. ShownWasAsked
  BY <1>1, <1>2 DEF ShownWasAsked, Fresh
<1> QED
  BY <1>5, <1>7, <1>8 DEF ListInv

\* So does another filter, with the load that asks for it.
LEMMA LoadKeeps ==
  ASSUME ListInv, NEW q \in Texts \cup {Any}, NEW cat \in Categories \cup {Any}, NEW p \in Nat \ {0},
         Load(q, cat, p), typed' \in Texts \cup {Any}, debounce' \in BOOLEAN, stored' = stored
  PROVE  ListInv'
<1> DEFINE asked == [q |-> q, cat |-> cat, page |-> p]
           l == [asked |-> asked, step |-> "sent", total |-> 0, last |-> TRUE]
           f == [m \in loads |-> [m EXCEPT !.last = FALSE]]
           S == {f[m] : m \in loads}
<1>1. loads \subseteq AllLoads /\ IsFiniteSet(loads) /\ Cardinality(loads) \in Nat
  BY FS_CardinalityType DEF ListInv, TypeOK, AllLoads
<1>2. S \subseteq AllLoads /\ \A m \in S : ~m.last
  BY <1>1 DEF AllLoads
<1>3. IsFiniteSet(S) /\ Cardinality(S) <= Cardinality(loads) /\ Cardinality(S) \in Nat
  <2>1. IsFiniteSet(S) /\ Cardinality(S) <= Cardinality(loads)
    <3>1. DOMAIN f = loads
      OBVIOUS
    <3> HIDE DEF f
    <3> QED
      BY <1>1, <3>1, ImageCount
  <2> QED
    BY <2>1, FS_CardinalityType
<1>4. /\ loads' = S \cup {l} /\ shown' = Fresh(asked) /\ Cardinality(loads) < MaxLoads
      /\ Asked' = asked
  <2>1. {[m EXCEPT !.last = FALSE] : m \in loads} = S
    OBVIOUS
  <2> QED
    BY <2>1 DEF Load, Asked
<1>5. asked \in Filters
  BY DEF Filters
<1>6. 0 \in 0..Cardinality(Ids)
  BY FS_CardinalityType, ListAssumption
<1>7. l \in AllLoads /\ l.last /\ l.asked = asked
  BY <1>5, <1>6 DEF AllLoads
<1> HIDE DEF S, l, asked
<1>8. loads' \subseteq AllLoads /\ IsFiniteSet(loads') /\ Cardinality(loads') <= MaxLoads
  <2>1. /\ IsFiniteSet(S \cup {l})
        /\ Cardinality(S \cup {l}) = IF l \in S THEN Cardinality(S) ELSE Cardinality(S) + 1
    BY <1>3, FS_AddElement
  <2> QED
    BY <1>1, <1>2, <1>3, <1>4, <1>7, <2>1, ListAssumption
<1>9. shown' \in [kind : {"loading", "list", "error"}, pager : 0..Cardinality(Ids) \cup {None},
                  asked : Filters \cup {None}]
  BY <1>4, <1>5 DEF Fresh
<1>10. stored' \in [Ids -> Rows \cup {None}]
  BY DEF ListInv, TypeOK
<1>11. TypeOK'
  BY <1>4, <1>5, <1>8, <1>9, <1>10 DEF TypeOK, AllLoads, Filters
<1>12. ShownWasAsked'
  BY <1>2, <1>4, <1>7 DEF ShownWasAsked, Fresh
<1> QED
  BY <1>8, <1>11, <1>12 DEF ListInv

\* So does whatever asks for nothing.
LEMMA QuietKeeps ==
  ASSUME ListInv, NEW S \in SUBSET AllLoads, IsFiniteSet(S), Cardinality(S) <= Cardinality(loads), loads' = S,
         \A l \in S : l.last => l.asked = Asked, UNCHANGED closure,
         shown' \in [kind : {"loading", "list", "error"}, pager : 0..Cardinality(Ids) \cup {None},
                     asked : Filters \cup {None}],
         shown'.asked \in {Asked, None},
         typed' \in Texts \cup {Any}, debounce' \in BOOLEAN, stored' \in [Ids -> Rows \cup {None}]
  PROVE  ListInv'
<1>1. Asked' = Asked
  BY DEF closure, Asked
<1>2. Cardinality(loads) \in Nat /\ Cardinality(S) \in Nat /\ Cardinality(loads) <= MaxLoads
  BY FS_CardinalityType DEF ListInv, TypeOK
<1>3. Cardinality(S) <= MaxLoads
  BY <1>2, ListAssumption
<1>4. TypeOK'
  BY <1>1, <1>3 DEF ListInv, TypeOK, AllLoads, Filters
<1>5. ShownWasAsked'
  BY <1>1 DEF ShownWasAsked
<1> QED
  BY <1>4, <1>5 DEF ListInv

\* What a load becomes, as the server answers it, asks for the same.
LEMMA ServeKeeps ==
  ASSUME ListInv, NEW l \in loads, CountRecipes(l) \/ SearchRecipes(l)
  PROVE  ListInv'
<1>1. l \in AllLoads /\ loads \subseteq AllLoads
  BY DEF ListInv, TypeOK, AllLoads
<1>2. Cardinality(Matches(l.asked.q, l.asked.cat)) \in 0..Cardinality(Ids)
  BY MatchFacts DEF ListInv
<1>3. PICK m \in AllLoads : m.last = l.last /\ m.asked = l.asked /\ loads' = (loads \ {l}) \cup {m}
  <2>1. CASE CountRecipes(l)
    <3> DEFINE m == [l EXCEPT !.step = "counted", !.total = Cardinality(Matches(l.asked.q, l.asked.cat))]
    <3>1. m \in AllLoads /\ m.last = l.last /\ m.asked = l.asked
      BY <1>1, <1>2 DEF AllLoads
    <3>2. loads' = (loads \ {l}) \cup {m}
      BY <2>1 DEF CountRecipes, Becomes
    <3> QED
      BY <3>1, <3>2
  <2>2. CASE SearchRecipes(l)
    <3> DEFINE m == [l EXCEPT !.step = "ok"]
    <3>1. m \in AllLoads /\ m.last = l.last /\ m.asked = l.asked
      BY <1>1 DEF AllLoads
    <3>2. loads' = (loads \ {l}) \cup {m}
      BY <2>2 DEF SearchRecipes, Becomes
    <3> QED
      BY <3>1, <3>2
  <2> QED
    BY <2>1, <2>2
<1> DEFINE U == loads \ {l}
<1>4. /\ IsFiniteSet(U) /\ Cardinality(U) \in Nat /\ Cardinality(loads) \in Nat
      /\ Cardinality(U) = Cardinality(loads) - 1
  BY FS_RemoveElement, FS_CardinalityType DEF ListInv
<1> HIDE DEF U
<1>5. /\ IsFiniteSet(U \cup {m})
      /\ Cardinality(U \cup {m}) = IF m \in U THEN Cardinality(U) ELSE Cardinality(U) + 1
  BY <1>4, FS_AddElement
<1>6. U \cup {m} \in SUBSET AllLoads /\ \A k \in U \cup {m} : k.last => k.asked = Asked
  BY <1>1, <1>3 DEF U, ListInv, ShownWasAsked
<1>7. Cardinality(U \cup {m}) <= Cardinality(loads) /\ loads' = U \cup {m}
  BY <1>3, <1>4, <1>5 DEF U
<1>8. UNCHANGED <<stored, typed, debounce, closure, shown>>
  BY DEF CountRecipes, SearchRecipes
<1>9. typed' \in Texts \cup {Any} /\ debounce' \in BOOLEAN /\ stored' \in [Ids -> Rows \cup {None}]
  BY <1>8 DEF ListInv, TypeOK
<1>10. /\ shown' \in [kind : {"loading", "list", "error"}, pager : 0..Cardinality(Ids) \cup {None},
                      asked : Filters \cup {None}]
       /\ shown'.asked \in {Asked, None}
  BY <1>8 DEF ListInv, TypeOK, ShownWasAsked
<1> QED
  BY <1>5, <1>6, <1>7, <1>8, <1>9, <1>10, QuietKeeps

\* An answer, or word that there is none, answers what was asked last, or is known not to.
LEMMA AnswerKeeps ==
  ASSUME ListInv, NEW l \in loads, Receive(l) \/ Fail(l)
  PROVE  ListInv'
<1>1. PICK kind \in {"list", "error"} : Arrived(l, kind)
  BY DEF Receive, Fail
<1>2. l \in AllLoads /\ loads \ {l} \in SUBSET AllLoads
  BY DEF ListInv, TypeOK, AllLoads
<1>3. /\ IsFiniteSet(loads \ {l}) /\ Cardinality(loads) \in Nat
      /\ Cardinality(loads \ {l}) = Cardinality(loads) - 1
  BY FS_RemoveElement, FS_CardinalityType DEF ListInv
<1>4. loads' = loads \ {l} /\ UNCHANGED <<stored, typed, debounce, closure>>
  BY <1>1 DEF Arrived
<1>5. /\ shown' \in [kind : {"loading", "list", "error"}, pager : 0..Cardinality(Ids) \cup {None},
                     asked : Filters \cup {None}]
      /\ shown'.asked \in {Asked, None}
  <2>1. shown' = [kind |-> kind, pager |-> IF kind = "list" THEN l.total ELSE shown.pager,
                  asked |-> IF l.last THEN l.asked ELSE None]
    BY <1>1 DEF Arrived
  <2>2. l.last => l.asked = Asked
    BY DEF ListInv, ShownWasAsked
  <2>3. l.total \in 0..Cardinality(Ids) /\ l.asked \in Filters
    BY <1>2 DEF AllLoads
  <2>4. shown.pager \in 0..Cardinality(Ids) \cup {None}
    BY DEF ListInv, TypeOK
  <2> QED
    BY <2>1, <2>2, <2>3, <2>4
<1>6. typed' \in Texts \cup {Any} /\ debounce' \in BOOLEAN /\ stored' \in [Ids -> Rows \cup {None}]
  BY <1>4 DEF ListInv, TypeOK
<1>7. \A k \in loads \ {l} : k.last => k.asked = Asked
  BY DEF ListInv, ShownWasAsked
<1>8. Cardinality(loads \ {l}) <= Cardinality(loads)
  BY <1>3
<1> HIDE DEF ListInv
<1> QED
  BY <1>2, <1>3, <1>4, <1>5, <1>6, <1>7, <1>8, QuietKeeps

\* The invariant holds throughout.
THEOREM ListCorrect == Spec => []ListInv
<1>1. ListInv /\ [Next]_vars => ListInv'
  <2> SUFFICES ASSUME ListInv, [Next]_vars PROVE ListInv'
    OBVIOUS
  <2>1. /\ query \in Texts \cup {Any} /\ categoryId \in Categories \cup {Any} /\ page \in Nat \ {0}
        /\ typed \in Texts \cup {Any} /\ debounce \in BOOLEAN /\ stored \in [Ids -> Rows \cup {None}]
    BY DEF ListInv, TypeOK, Asked, Filters
  <2>2. CASE \E cat \in Categories \cup {Any} : Choose(cat)
    <3>1. PICK cat \in Categories \cup {Any} : Choose(cat)
      BY <2>2
    <3>2. /\ Load(query, cat, 1) /\ 1 \in Nat \ {0}
          /\ typed' \in Texts \cup {Any} /\ debounce' \in BOOLEAN /\ stored' = stored
      BY <2>1, <3>1 DEF Choose
    <3> QED
      BY <2>1, <3>2, LoadKeeps
  <2>3. CASE PrevPage
    <3>1. /\ Load(query, categoryId, page - 1) /\ UNCHANGED <<stored, typed, debounce>>
          /\ page - 1 \in Nat \ {0}
      BY <2>1, <2>3 DEF PrevPage
    <3> QED
      BY <2>1, <3>1, LoadKeeps
  <2>4. CASE NextPage
    <3>1. /\ Load(query, categoryId, page + 1) /\ UNCHANGED <<stored, typed, debounce>>
          /\ page + 1 \in Nat \ {0}
      BY <2>1, <2>4 DEF NextPage
    <3> QED
      BY <2>1, <3>1, LoadKeeps
  <2>5. CASE TimerFires
    <3>1. Load(typed, categoryId, 1) /\ debounce' = FALSE /\ typed' = typed /\ stored' = stored
      BY <2>5 DEF TimerFires
    <3>2. debounce' \in BOOLEAN
      BY <3>1, Zenon
    <3>3. typed' \in Texts \cup {Any} /\ 1 \in Nat \ {0}
      BY <2>1, <3>1
    <3> QED
      BY <2>1, <3>1, <3>2, <3>3, LoadKeeps
  <2>6. CASE (\E text \in Texts \cup {Any} : Type(text)) \/ Write \/ UNCHANGED vars
    <3>1. UNCHANGED <<closure, loads, shown>>
      BY <2>6 DEF Type, Write, vars
    <3>2. typed' \in Texts \cup {Any} /\ debounce' \in BOOLEAN
      BY <2>1, <2>6 DEF Type, Write, vars
    <3>3. stored' \in [Ids -> Rows \cup {None}]
      BY <2>1, <2>6 DEF Type, Write, vars
    <3>4. /\ loads \in SUBSET AllLoads /\ IsFiniteSet(loads)
          /\ Cardinality(loads) \in Nat
          /\ \A l \in loads : l.last => l.asked = Asked
          /\ shown \in [kind : {"loading", "list", "error"}, pager : 0..Cardinality(Ids) \cup {None},
                        asked : Filters \cup {None}]
          /\ shown.asked \in {Asked, None}
      BY FS_CardinalityType DEF ListInv, TypeOK, ShownWasAsked, AllLoads
    <3>5. Cardinality(loads) <= Cardinality(loads)
      BY <3>4
    <3> QED
      BY <3>1, <3>2, <3>3, <3>4, <3>5, QuietKeeps
  <2> QED
    BY <2>2, <2>3, <2>4, <2>5, <2>6, ServeKeeps, AnswerKeeps DEF Next, Serve, Answer
<1> QED
  BY ListInit, <1>1, PTL DEF Spec

\* Type correctness of the list, its filter and its requests.
THEOREM ListTypeCorrect == Spec => []TypeOK
BY ListCorrect, PTL DEF ListInv

\* As long as the last request is under way or on the screen, it was for the text,
\* category and page that the pager goes on from.
THEOREM ShownCorrect == Spec => []ShownWasAsked
BY ListCorrect, PTL DEF ListInv

\* Whoever asks for all pages of any size, however large the numbers, finds every match
\* on exactly one of them, and no more on a page than asked for.
THEOREM OnOnePageCorrect == Spec => []OnOnePage
BY ListCorrect, PagesPartition, PTL DEF ListInv

\* Math.ceil(total / PAGE_SIZE) pages are those with a recipe on them, if no write comes
\* between the answer and the click.
THEOREM PagerCorrect == Spec => []PagerIsExact
BY ListCorrect, PagerFacts, PTL DEF ListInv

-----------------------------------------------------------------------------
(* The detail page.                                                        *)

AllCalls == [op : {"get", "put", "delete"}, id : RecipeIds, step : {"sent", "ok"},
             body : Recipes \cup {NoRecipe}, mine : BOOLEAN]

\* What a request carries back and forth is of the recipe it names.
Carries(c) ==
    /\ c.body # NoRecipe => c.body.rest \in Rests(c.id)
    /\ c.op = "put" \/ (c.op = "get" /\ c.step = "ok") => c.body # NoRecipe

\* Requests in flight by the invariant.
Flight(S) == S \subseteq AllCalls /\ IsFiniteSet(S) /\ Cardinality(S) <= MaxCalls /\ \A c \in S : Carries(c)

\* So is what a form goes on from.
Formed(f) == f # NoRecipe => f \in Forms /\ f.current.rest \in Rests(f.id)

\* A reply that a form waits for finds that form.
Owned(S, f) == \A c \in S : c.mine => f # NoRecipe /\ f.id = c.id

DetailInv == DetailTypeOK /\ UntouchedKept /\ Flight(calls) /\ Formed(form) /\ Owned(calls, form)

\* A recipe with what belongs to recipe i is one.
LEMMA OwnRecipes ==
  ASSUME NEW i \in RecipeIds
  PROVE  [text : Edits, rest : Rests(i)] \subseteq Recipes
BY DEF Recipes

\* Requests without their form are as many at most, and otherwise the same.
LEMMA OrphanFacts ==
  ASSUME NEW S \in SUBSET AllCalls, IsFiniteSet(S)
  PROVE  /\ Orphans(S) \subseteq AllCalls
         /\ IsFiniteSet(Orphans(S)) /\ Cardinality(Orphans(S)) <= Cardinality(S)
         /\ \A c \in Orphans(S) : ~c.mine
         /\ (\A c \in S : Carries(c)) => \A c \in Orphans(S) : Carries(c)
<1> DEFINE o(c) == [c EXCEPT !.mine = FALSE]
           T == Orphans(S)
           f == [c \in S |-> o(c)]
<1>1. T = {o(c) : c \in S}
  BY DEF Orphans
<1>2. \A c \in S : /\ o(c) \in AllCalls /\ ~o(c).mine /\ o(c).op = c.op /\ o(c).step = c.step
                   /\ o(c).body = c.body /\ o(c).id = c.id
  BY DEF AllCalls
<1> HIDE DEF o
<1>3. T = {f[c] : c \in S} /\ DOMAIN f = S
  BY <1>1
<1>4. IsFiniteSet(T) /\ Cardinality(T) <= Cardinality(S)
  BY <1>3, ImageCount
<1>5. (\A c \in S : Carries(c)) => \A c \in T : Carries(c)
  BY <1>1, <1>2 DEF Carries
<1> QED
  BY <1>1, <1>2, <1>4, <1>5

\* What an action does to the requests leaves them such.
LEMMA FlightFacts ==
  ASSUME NEW S, Flight(S), MaxCalls \in Nat
  PROVE  /\ Flight(Orphans(S)) /\ \A c \in Orphans(S) : ~c.mine
         /\ \A c : Flight(S \ {c})
         /\ \A c \in AllCalls : Carries(c) /\ Cardinality(S) < MaxCalls =>
               Flight(S \cup {c}) /\ Flight(Orphans(S) \cup {c})
         /\ \A c \in S : \A d \in AllCalls : Carries(d) => Flight((S \ {c}) \cup {d})
<1> DEFINE T == Orphans(S)
<1>1. S \in SUBSET AllCalls /\ IsFiniteSet(S) /\ Cardinality(S) \in Nat /\ Cardinality(S) <= MaxCalls
  BY FS_CardinalityType DEF Flight
<1>2. /\ T \subseteq AllCalls /\ IsFiniteSet(T) /\ Cardinality(T) <= Cardinality(S)
      /\ \A c \in T : ~c.mine /\ Carries(c)
  BY <1>1, OrphanFacts DEF Flight
<1>3. Cardinality(T) \in Nat
  BY <1>2, FS_CardinalityType
<1> HIDE DEF T
<1>4. \A c : Flight(S \ {c})
  <2> SUFFICES ASSUME NEW c PROVE Flight(S \ {c})
    OBVIOUS
  <2>1. IsFiniteSet(S \ {c}) /\ Cardinality(S \ {c}) <= Cardinality(S)
    BY <1>1, FS_RemoveElement
  <2>2. Cardinality(S \ {c}) \in Nat
    BY <2>1, FS_CardinalityType
  <2> QED
    BY <1>1, <2>1, <2>2 DEF Flight
<1>5. ASSUME NEW c \in AllCalls, Carries(c), Cardinality(S) < MaxCalls
      PROVE  Flight(S \cup {c}) /\ Flight(T \cup {c})
  <2>1. IsFiniteSet(S \cup {c}) /\ Cardinality(S \cup {c}) <= Cardinality(S) + 1
    BY <1>1, FS_AddElement
  <2>2. IsFiniteSet(T \cup {c}) /\ Cardinality(T \cup {c}) <= Cardinality(T) + 1
    BY <1>2, <1>3, FS_AddElement
  <2>3. Cardinality(S \cup {c}) \in Nat /\ Cardinality(T \cup {c}) \in Nat
    BY <2>1, <2>2, FS_CardinalityType
  <2> QED
    BY <1>1, <1>2, <1>3, <1>5, <2>1, <2>2, <2>3 DEF Flight
<1>6. ASSUME NEW c \in S, NEW d \in AllCalls, Carries(d) PROVE Flight((S \ {c}) \cup {d})
  <2> DEFINE U == S \ {c}
  <2>1. IsFiniteSet(U) /\ Cardinality(U) = Cardinality(S) - 1
    BY <1>1, FS_RemoveElement
  <2>2. U \subseteq S
    OBVIOUS
  <2> HIDE DEF U
  <2>3. IsFiniteSet(U \cup {d}) /\ Cardinality(U \cup {d}) <= Cardinality(U) + 1
    <3>1. Cardinality(U) \in Nat
      BY <2>1, FS_CardinalityType
    <3>2. /\ IsFiniteSet(U \cup {d})
          /\ Cardinality(U \cup {d}) = IF d \in U THEN Cardinality(U) ELSE Cardinality(U) + 1
      BY <2>1, FS_AddElement, Zenon
    <3> QED
      BY <3>1, <3>2
  <2>4. Cardinality(U \cup {d}) \in Nat
    BY <2>3, FS_CardinalityType
  <2>5. Flight(U \cup {d})
    BY <1>1, <1>6, <2>1, <2>2, <2>3, <2>4 DEF Flight
  <2> QED
    BY <2>5 DEF U
<1>7. Flight(T)
  BY <1>1, <1>2, <1>3 DEF Flight
<1> QED
  BY <1>2, <1>4, <1>5, <1>6, <1>7 DEF T

\* What a step has to leave in place.
LEMMA DetailAfter ==
  ASSUME rows' \in [RecipeIds -> Recipes \cup {NoRecipe}],
         \A i \in RecipeIds : rows'[i] # NoRecipe => rows'[i].rest \in Rests(i),
         address' \in RecipeIds \cup {List}, view' \in {"page", "loading", "form", "error"},
         Formed(form'), view' = "form" <=> form' # NoRecipe,
         Flight(calls'), Owned(calls', form')
  PROVE  DetailInv'
<1>1. Flight(calls)'
  BY DEF Flight, Carries, AllCalls, Rests, Recipes
<1>2. Formed(form)'
  BY DEF Formed, Forms, Recipes, Rests
<1>3. Owned(calls, form)'
  BY DEF Owned
<1>4. UntouchedKept'
  BY DEF UntouchedKept, Rests
<1>5. DetailTypeOK'
  <2>1. (rows \in [RecipeIds -> Recipes \cup {NoRecipe}])'
    BY DEF Recipes, Rests
  <2>2. (form \in Forms \cup {NoRecipe})'
    BY DEF Formed, Forms, Recipes, Rests
  <2>3. (calls \subseteq AllCalls /\ Cardinality(calls) <= MaxCalls)'
    BY DEF Flight, AllCalls, Recipes, Rests
  <2> QED
    BY <2>1, <2>2, <2>3 DEF DetailTypeOK, AllCalls, Forms, Recipes, Rests
<1> QED
  BY <1>1, <1>2, <1>3, <1>4, <1>5 DEF DetailInv

\* What holds before it.
LEMMA DetailBefore ==
  ASSUME DetailInv
  PROVE  /\ rows \in [RecipeIds -> Recipes \cup {NoRecipe}]
         /\ \A i \in RecipeIds : rows[i] # NoRecipe => rows[i].rest \in Rests(i)
         /\ address \in RecipeIds \cup {List} /\ view \in {"page", "loading", "form", "error"}
         /\ Formed(form) /\ (view = "form" <=> form # NoRecipe)
         /\ Flight(calls) /\ Owned(calls, form)
BY DEF DetailInv, DetailTypeOK, UntouchedKept

\* The page opens in the invariant.
LEMMA DetailOpens == DetailInit => DetailInv
<1> SUFFICES ASSUME DetailInit PROVE DetailInv
  OBVIOUS
<1>1. calls = {} /\ IsFiniteSet(calls) /\ Cardinality(calls) = 0 /\ MaxCalls \in Nat
  BY FS_EmptySet, DetailAssumption DEF DetailInit
<1>2. Flight(calls) /\ Owned(calls, form)
  BY <1>1 DEF Flight, Owned
<1>3. Formed(form) /\ form = NoRecipe /\ view = "page" /\ address = List
  BY DEF DetailInit, Formed
<1>4. \A i \in RecipeIds : rows[i] # NoRecipe => rows[i].rest \in Rests(i)
  BY DEF DetailInit, Recipes, Rests
<1>5. DetailTypeOK
  BY <1>1, <1>2, <1>3 DEF DetailInit, DetailTypeOK, Flight, AllCalls
<1> QED
  BY <1>2, <1>3, <1>4, <1>5 DEF DetailInv, UntouchedKept

\* Opening a page, and typing, keep it.
LEMMA OpenKeeps ==
  ASSUME DetailInv, NEW a \in RecipeIds \cup {List}, Open(a)
  PROVE  DetailInv'
<1> USE DetailBefore
<1>1. form' = NoRecipe /\ view' \in {"page", "loading"} /\ rows' = rows /\ address' = a
  BY DEF Open, Draw
<1>2. Flight(calls') /\ \A c \in calls' : ~c.mine
  <2>1. CASE a = List
    BY <2>1, FlightFacts, DetailAssumption DEF Open
  <2>2. CASE a # List
    <3> DEFINE c == Request("get", a, NoRecipe, FALSE)
    <3>1. c \in AllCalls /\ Carries(c) /\ ~c.mine
      BY <2>2 DEF Request, AllCalls, Carries
    <3>2. calls' = Orphans(calls) \cup {c} /\ Cardinality(calls) < MaxCalls
      BY <2>2 DEF Open
    <3> HIDE DEF c
    <3> QED
      BY <3>1, <3>2, FlightFacts, DetailAssumption
  <2> QED
    BY <2>1, <2>2
<1>3. Formed(form') /\ Owned(calls', form')
  BY <1>1, <1>2 DEF Formed, Owned
<1> QED
  BY <1>1, <1>2, <1>3, DetailAfter

\* So do the form's own steps: it asks for its own recipe, with what it goes on from.
LEMMA FormKeeps ==
  ASSUME DetailInv,
         (\E text \in Edits : Edit(text)) \/ Save \/ Delete
  PROVE  DetailInv'
<1> USE DetailBefore
<1>1. form # NoRecipe /\ form \in Forms /\ form.current.rest \in Rests(form.id)
  BY DEF Edit, Save, Delete, Formed
<1>2. UNCHANGED <<rows, address, view>>
  BY DEF Edit, Save, Delete, Send
<1>3. /\ form' \in Forms /\ form' # NoRecipe
      /\ form'.id = form.id /\ form'.current = form.current
  <2>1. \/ \E text \in Edits : form' = [form EXCEPT !.typed = text]
        \/ \E status \in {"saving", "deleting"} : form' = [form EXCEPT !.status = status]
    BY DEF Edit, Save, Delete, Send
  <2>2. form' \in Forms /\ form'.id = form.id /\ form'.current = form.current
    BY <1>1, <2>1 DEF Forms
  <2> QED
    BY <2>2, DetailAssumption
<1>4. Flight(calls') /\ Owned(calls', form')
  <2>1. CASE calls' = calls
    BY <1>3, <2>1 DEF Owned
  <2>2. ASSUME NEW c \in AllCalls, Carries(c), c.id = form.id, Cardinality(calls) < MaxCalls,
               calls' = calls \cup {c}
        PROVE  Flight(calls') /\ Owned(calls', form')
    BY <1>3, <2>2, FlightFacts, DetailAssumption DEF Owned
  <2>3. CASE Save
    <3> DEFINE body == [form.current EXCEPT !.text = form.typed]
               c == Request("put", form.id, body, TRUE)
    <3>1. body \in Recipes /\ body.rest = form.current.rest
      BY <1>1 DEF Forms, Recipes
    <3>2. calls' = calls \cup {c} /\ Cardinality(calls) < MaxCalls
      BY <2>3 DEF Save, Send
    <3> HIDE DEF body
    <3>3. c = [op |-> "put", id |-> form.id, step |-> "sent", body |-> body, mine |-> TRUE]
      BY DEF Request
    <3>4. form.id \in RecipeIds /\ body # NoRecipe
      BY <1>1, <3>1, DetailAssumption DEF Forms
    <3> HIDE DEF c
    <3>5. c \in AllCalls
      BY <3>1, <3>3, <3>4 DEF AllCalls
    <3>6. Carries(c) /\ c.id = form.id
      BY <1>1, <3>1, <3>3, <3>4 DEF Carries
    <3> QED
      BY <2>2, <3>2, <3>5, <3>6
  <2>4. CASE Delete
    <3> DEFINE c == Request("delete", form.id, NoRecipe, TRUE)
    <3>1. calls' = calls \cup {c} /\ Cardinality(calls) < MaxCalls
      BY <2>4 DEF Delete, Send
    <3>2. c \in AllCalls /\ Carries(c) /\ c.id = form.id
      BY <1>1 DEF Request, AllCalls, Carries, Forms
    <3> QED
      BY <2>2, <3>1, <3>2
  <2> QED
    BY <2>1, <2>3, <2>4 DEF Edit
<1>5. Formed(form')
  BY <1>1, <1>3 DEF Formed
<1>6. /\ rows' = rows /\ address' = address /\ view' = view
      /\ view' = "form" <=> form' # NoRecipe
  BY <1>1, <1>2, <1>3
<1> QED
  BY <1>4, <1>5, <1>6, DetailAfter

\* What the server answers a call with is what is then stored, or was.
LEMMA ServerKeeps ==
  ASSUME DetailInv, NEW c \in calls,
         ServeGet(c) \/ ServePut(c) \/ ServeDelete(c),
         UNCHANGED <<address, view, form>>
  PROVE  DetailInv'
<1> USE DetailBefore
<1>1. c \in AllCalls /\ Carries(c)
  BY DEF Flight
<1>2. PICK body \in {rows[c.id], c.body, NoRecipe} :
        /\ calls' = (calls \ {c}) \cup {[c EXCEPT !.step = "ok", !.body = body]}
        /\ c.op # "delete" => body # NoRecipe /\ body \in Recipes
                              /\ body.rest \in Rests(c.id)
        /\ c.op = "delete" => body = NoRecipe
  <2>1. rows[c.id] \in Recipes \cup {NoRecipe} /\ c.body \in Recipes \cup {NoRecipe}
    BY <1>1 DEF AllCalls
  <2>2. CASE ServeGet(c)
    BY <1>1, <2>1, <2>2 DEF ServeGet, Replies, AllCalls
  <2>3. CASE ServePut(c)
    BY <1>1, <2>1, <2>3 DEF ServePut, Replies, Carries
  <2>4. CASE ServeDelete(c)
    BY <1>1, <2>4 DEF ServeDelete, Replies
  <2> QED
    BY <2>2, <2>3, <2>4
<1> DEFINE d == [c EXCEPT !.step = "ok", !.body = body]
<1>3. d \in AllCalls /\ d.op = c.op /\ d.id = c.id /\ d.mine = c.mine /\ d.body = body
  BY <1>1, <1>2 DEF AllCalls
<1>4. Carries(d)
  BY <1>1, <1>2, <1>3 DEF Carries, AllCalls
<1>5. calls' = (calls \ {c}) \cup {d}
  BY <1>2
<1> HIDE DEF d
<1>6. Flight(calls') /\ Owned(calls', form')
  <2>1. Flight(calls')
    BY <1>3, <1>4, <1>5, FlightFacts, DetailAssumption
  <2>2. Owned(calls', form')
    BY <1>3, <1>5 DEF Owned
  <2> QED
    BY <2>1, <2>2
<1>7. /\ rows' \in [RecipeIds -> Recipes \cup {NoRecipe}]
      /\ \A i \in RecipeIds : rows'[i] # NoRecipe => rows'[i].rest \in Rests(i)
  <2>1. CASE ServePut(c)
    BY <1>1, <2>1 DEF ServePut, Carries, AllCalls
  <2>2. CASE ServeDelete(c)
    BY <1>1, <2>2 DEF ServeDelete
  <2>3. CASE ServeGet(c)
    BY <2>3 DEF ServeGet
  <2> QED
    BY <2>1, <2>2, <2>3
<1> QED
  BY <1>6, <1>7, DetailAfter

\* So do the writes of others, which give a recipe what is its own.
LEMMA OthersKeep ==
  ASSUME DetailInv, OtherWrite
  PROVE  DetailInv'
<1> USE DetailBefore
<1>0. PICK i \in RecipeIds :
        \E row \in [text : Edits, rest : Rests(i)] \cup {NoRecipe} : rows' = [rows EXCEPT ![i] = row]
  BY Zenon DEF OtherWrite
<1>1. PICK row \in [text : Edits, rest : Rests(i)] \cup {NoRecipe} : rows' = [rows EXCEPT ![i] = row]
  BY <1>0
<1>2. /\ rows' \in [RecipeIds -> Recipes \cup {NoRecipe}]
      /\ \A j \in RecipeIds : rows'[j] # NoRecipe => rows'[j].rest \in Rests(j)
  BY <1>1, OwnRecipes
<1>3. UNCHANGED <<address, view, form, calls>>
  BY DEF OtherWrite
<1> QED
  BY <1>2, <1>3, DetailAfter

\* A reply that is received, or a request that fails, keeps it.
LEMMA ReplyKeeps ==
  ASSUME DetailInv, NEW c \in calls,
         ReceiveGet(c) \/ ReceivePut(c) \/ ReceiveDelete(c) \/ CallFails(c)
  PROVE  DetailInv'
<1> USE DetailBefore
<1>1. c \in AllCalls /\ Carries(c) /\ rows' = rows
  BY DEF Flight, ReceiveGet, ReceivePut, ReceiveDelete, CallFails
<1>2. Flight(calls \ {c}) /\ Flight(Orphans(calls \ {c}))
      /\ \A d \in Orphans(calls \ {c}) : ~d.mine
  BY FlightFacts, DetailAssumption
<1>3. ASSUME NEW what \in {"page", "error"}, Draw(what), calls' = Orphans(calls \ {c}),
             address' \in RecipeIds \cup {List}
      PROVE  DetailInv'
  <2>1. form' = NoRecipe /\ view' = what
    BY <1>3 DEF Draw
  <2>2. Formed(form') /\ Owned(calls', form')
    BY <1>2, <1>3, <2>1 DEF Formed, Owned
  <2> QED
    BY <1>1, <1>2, <1>3, <2>1, <2>2, DetailAfter
<1>4. ASSUME Formed(form'), form' # NoRecipe <=> form # NoRecipe, form # NoRecipe => form'.id = form.id,
             calls' = calls \ {c}, view' = view, address' \in RecipeIds \cup {List}
      PROVE  DetailInv'
  <2>1. Owned(calls', form')
    BY <1>4 DEF Owned
  <2> QED
    BY <1>1, <1>2, <1>4, <2>1, DetailAfter
<1>5. CASE ReceiveGet(c)
  <2>1. /\ view' = "form" /\ calls' = Orphans(calls \ {c}) /\ address' = address
        /\ form' = [id |-> c.id, current |-> c.body, typed |-> c.body.text, status |-> ""]
    BY <1>5 DEF ReceiveGet
  <2>2. c.body \in Recipes /\ c.body.rest \in Rests(c.id)
    BY <1>1, <1>5 DEF ReceiveGet, Carries, AllCalls
  <2>3. form' \in Forms /\ form'.current.rest \in Rests(form'.id)
    BY <1>1, <2>1, <2>2 DEF Forms, Recipes, AllCalls
  <2>4. form' # NoRecipe /\ Formed(form') /\ Owned(calls', form')
    BY <1>2, <2>1, <2>3, DetailAssumption DEF Formed, Owned
  <2> QED
    BY <1>1, <1>2, <2>1, <2>4, DetailAfter
<1>6. CASE ReceivePut(c)
  <2>1. calls' = calls \ {c} /\ view' = view /\ address' = address
    BY <1>6 DEF ReceivePut
  <2>2. CASE c.mine
    <3>1. /\ form # NoRecipe /\ form.id = c.id /\ form \in Forms
          /\ form' = [form EXCEPT !.current = c.body, !.typed = c.body.text, !.status = ""]
      BY <1>6, <2>2 DEF ReceivePut, Owned, Formed
    <3>2. c.body \in Recipes /\ c.body.rest \in Rests(c.id)
      BY <1>1, <1>6 DEF ReceivePut, Carries, AllCalls
    <3>3. form' \in Forms /\ form'.id = form.id /\ form'.current = c.body
      BY <3>1, <3>2 DEF Forms, Recipes
    <3>4. form' # NoRecipe /\ Formed(form')
      BY <3>1, <3>2, <3>3, DetailAssumption DEF Formed
    <3> QED
      BY <1>4, <2>1, <3>1, <3>3, <3>4
  <2>3. CASE ~c.mine
    BY <1>4, <1>6, <2>1, <2>3 DEF ReceivePut
  <2> QED
    BY <2>2, <2>3
<1>7. CASE ReceiveDelete(c)
  <2>1. CASE address # List
    BY <1>3, <1>7, <2>1 DEF ReceiveDelete
  <2>2. CASE address = List
    BY <1>4, <1>7, <2>2 DEF ReceiveDelete
  <2> QED
    BY <2>1, <2>2
<1>8. CASE CallFails(c) /\ c.op = "get"
  BY <1>3, <1>8 DEF CallFails
<1>9. CASE CallFails(c) /\ c.op # "get"
  <2>1. /\ calls' = calls \ {c} /\ view' = view /\ address' = address
        /\ form' = IF c.mine THEN [form EXCEPT !.status = ""] ELSE form
    BY <1>9 DEF CallFails
  <2>2. CASE c.mine
    <3>1. form # NoRecipe /\ form \in Forms /\ form.current.rest \in Rests(form.id)
      BY <2>2 DEF Owned, Formed
    <3>2. form' \in Forms /\ form'.id = form.id /\ form'.current = form.current
      BY <2>1, <2>2, <3>1 DEF Forms
    <3>3. form' # NoRecipe /\ Formed(form')
      BY <3>1, <3>2, DetailAssumption DEF Formed
    <3> QED
      BY <1>4, <2>1, <3>1, <3>2, <3>3
  <2>3. CASE ~c.mine
    BY <1>4, <2>1, <2>3
  <2> QED
    BY <2>2, <2>3
<1> QED
  BY <1>5, <1>6, <1>7, <1>8, <1>9

\* The invariant holds throughout.
THEOREM DetailCorrect == DetailSpec => []DetailInv
<1>1. DetailInv /\ [DetailNext]_detailVars => DetailInv'
  <2> SUFFICES ASSUME DetailInv, [DetailNext]_detailVars PROVE DetailInv'
    OBVIOUS
  <2>1. CASE UNCHANGED detailVars
    <3>1. UNCHANGED <<rows, address, view, form, calls>>
      BY <2>1 DEF detailVars
    <3> QED
      BY <3>1, DetailBefore, DetailAfter
  <2>2. CASE DetailNext
    BY <2>2, OpenKeeps, FormKeeps, ServerKeeps, OthersKeep, ReplyKeeps
    DEF DetailNext, ServeRecipe, CallReturns
  <2> QED
    BY <2>1, <2>2
<1> QED
  BY DetailOpens, <1>1, PTL DEF DetailSpec

\* Type correctness of the page of one recipe, its form and its requests.
THEOREM DetailTypeCorrect == DetailSpec => []DetailTypeOK
BY DetailCorrect, PTL DEF DetailInv

\* "Every field the form does not edit must still be sent back verbatim": whatever
\* saves overlap and whatever replies come late, what is stored of a recipe is its own.
THEOREM UntouchedCorrect == DetailSpec => []UntouchedKept
BY DetailCorrect, PTL DEF DetailInv

-----------------------------------------------------------------------------
(* The import page.                                                        *)

\* A cooldown is one that the last run was ended by, and no run is let in
\* while it lasts.
CoolingInv == cooling => ~running /\ "limited" \in err

ImportInv == ImportTypeOK /\ OneInterval /\ NeverStuck /\ CoolingInv

\* Whatever wraps it, a rate limit is reported as one: no case before its own
\* matches anything, and it is looked for before the wrappers.
LEMMA LimitedIsReported ==
  ASSUME NEW e, "limited" \in e
  PROVE  Classify(e) = "rate_limited"
<1> DEFINE Cases == << <<{}, "">>, <<{"limited"}, "rate_limited">>, <<{"reauth", "login"}, "instagram_auth">>,
                       <<{"drift"}, "instagram_schema_drift">>,
                       <<{"cancelled", "deadline"}, "cancelled">>, <<{"fetch"}, "fetch_failed">> >>
           Hit == {k \in DOMAIN Cases : Cases[k][1] \cap e # {}}
           Least == CHOOSE k \in Hit : \A j \in Hit : k <= j
<1>1. Classify(e) = IF e = {} THEN "" ELSE IF Hit = {} THEN "import_failed" ELSE Cases[Least][2]
  BY DEF Classify
<1>2. /\ DOMAIN Cases = 1..6
      /\ Cases[1][1] = {} /\ Cases[2][1] = {"limited"} /\ Cases[2][2] = "rate_limited"
  OBVIOUS
<1>3. Hit \subseteq 1..6 /\ 1 \notin Hit /\ 2 \in Hit
  <2> HIDE DEF Cases
  <2> QED
    BY <1>2
<1>4. \A j \in Hit : 2 <= j
  <2> HIDE DEF Hit
  <2> QED
    BY <1>3
<1>5. Least \in Hit /\ \A j \in Hit : Least <= j
  BY <1>3, <1>4
<1>6. Least = 2
  <2> HIDE DEF Hit, Least
  <2> QED
    BY <1>3, <1>4, <1>5
<1>7. Cases[Least][2] = "rate_limited"
  BY <1>2, <1>6
<1> QED
  BY <1>1, <1>3, <1>7

\* The page opens in the invariant.
LEMMA ImportOpens == ImportInit => ImportInv
<1> SUFFICES ASSUME ImportInit PROVE ImportInv
  OBVIOUS
<1> USE PendingAssumption DEF ImportInit
<1>1. PICK r \in Requests : req = [q \in Requests |-> IF q = r THEN Sent("poll") ELSE Free]
  OBVIOUS
<1>2. \A q \in Requests : req[q] \in [kind : Kinds, answer : Answers] \cup {Free}
  BY <1>1 DEF Sent, Kinds, Answers
<1>3. ImportTypeOK
  <2>1. req \in [Requests -> [kind : Kinds, answer : Answers] \cup {Free}]
    BY <1>1, <1>2
  <2>2. pending \in 0..MaxPending /\ live \in Nat /\ err \in StartupErrors
    OBVIOUS
  <2> QED
    BY <2>1, <2>2 DEF ImportTypeOK
<1>4. OneInterval /\ NeverStuck /\ CoolingInv
  BY DEF OneInterval, NeverStuck, CoolingInv
<1> QED
  BY <1>3, <1>4 DEF ImportInv

\* The server's own steps keep the invariant.
LEMMA RunKeeps ==
  ASSUME ImportInv, RunBegins \/ RunEnds \/ CooldownEnds \/ Stop
  PROVE  ImportInv'
<1> USE PendingAssumption DEF ImportInv
<1>1. UNCHANGED <<req, connected, timer, live, disabled>>
  BY DEF RunBegins, RunEnds, CooldownEnds, Stop, pageVars
<1>2. OneInterval' /\ NeverStuck'
  BY <1>1 DEF OneInterval, NeverStuck
<1>3. running' \in BOOLEAN /\ cooling' \in BOOLEAN /\ stopping' \in BOOLEAN
  BY DEF RunBegins, RunEnds, CooldownEnds, Stop, ImportTypeOK
<1>4. err' \in StartupErrors \cup RunErrors
  BY DEF RunBegins, RunEnds, CooldownEnds, Stop, ImportTypeOK
<1>5. pending' \in 0..MaxPending
  BY DEF RunBegins, RunEnds, CooldownEnds, Stop, ImportTypeOK
<1>6. ImportTypeOK'
  BY <1>1, <1>3, <1>4, <1>5 DEF ImportTypeOK
<1>7. CoolingInv'
  BY DEF RunBegins, RunEnds, CooldownEnds, Stop, ImportTypeOK, CoolingInv, Skips
<1> QED
  BY <1>2, <1>6, <1>7

\* An answer leaves every request what it is for.
LEMMA StatusKeeps ==
  ASSUME ImportInv, NEW r \in Requests, ServeRequest(r)
  PROVE  ImportInv'
<1> USE PendingAssumption DEF ImportInv
<1>1. UNCHANGED <<running, err, cooling, stopping, connected, timer, live, disabled>>
  BY DEF ServeRequest, ServeTrigger, ServeStatus, server, pageVars
<1>2. PICK answer \in Answers : req' = [req EXCEPT ![r].answer = answer]
  BY DEF ServeRequest, ServeTrigger, ServeStatus, Reply, Answers
<1>3. req[r].kind \in Kinds
  BY DEF ServeRequest, ServeTrigger, ServeStatus, IsAsked, Kinds
<1>4. req[r] \in [kind : Kinds, answer : Answers]
  BY <1>3 DEF ImportTypeOK, Free, Kinds
<1>5. pending' \in 0..MaxPending
  BY DEF ServeRequest, ServeTrigger, ServeStatus, server, ImportTypeOK
<1>6. req' \in [Requests -> [kind : Kinds, answer : Answers] \cup {Free}]
  BY <1>2, <1>4 DEF ImportTypeOK
<1>7. \A q \in Requests : req'[q].kind = req[q].kind
  BY <1>2, <1>4 DEF ImportTypeOK
<1>8. ImportTypeOK'
  BY <1>1, <1>5, <1>6 DEF ImportTypeOK
<1>9. OneInterval' /\ NeverStuck' /\ CoolingInv'
  BY <1>1, <1>7 DEF OneInterval, NeverStuck, CoolingInv
<1> QED
  BY <1>8, <1>9

\* What the page starts - a request, or its leaving - keeps the invariant.
LEMMA ImportStarts ==
  ASSUME ImportInv, Click \/ Leave \/ IntervalFires
  PROVE  ImportInv'
<1> USE PendingAssumption DEF ImportInv
<1>1. UNCHANGED <<running, err, cooling, pending, stopping>>
  BY DEF Click, Leave, IntervalFires, server
<1>2. CoolingInv'
  BY <1>1 DEF CoolingInv
<1>3. ASSUME NEW r \in Requests, NEW kind \in Kinds, SendRequest(r, kind)
      PROVE  /\ req' \in [Requests -> [kind : Kinds, answer : Answers] \cup {Free}]
             /\ req'[r].kind = kind
             /\ \A q \in Requests : req[q].kind \in {"trigger", "poll"} => req'[q].kind = req[q].kind
  <2>1. req[r].kind = "none"
    BY <1>3 DEF SendRequest, Free
  <2>2. Sent(kind) \in [kind : Kinds, answer : Answers] /\ Sent(kind).kind = kind
    BY DEF Sent, Answers
  <2> QED
    BY <1>3, <2>1, <2>2 DEF SendRequest, ImportTypeOK
<1>4. CASE Click
  <2>1. PICK r \in Requests : SendRequest(r, "trigger")
    BY <1>4 DEF Click
  <2>2. /\ req' \in [Requests -> [kind : Kinds, answer : Answers] \cup {Free}]
        /\ req'[r].kind = "trigger"
    BY <1>3, <2>1 DEF Kinds
  <2>3. ImportTypeOK'
    BY <1>1, <1>4, <2>2 DEF Click, ImportTypeOK
  <2>4. OneInterval' /\ NeverStuck'
    BY <1>4, <2>2 DEF Click, OneInterval, NeverStuck
  <2> QED
    BY <1>2, <2>3, <2>4
<1>5. CASE Leave
  BY <1>1, <1>2, <1>5 DEF Leave, ImportTypeOK, OneInterval, NeverStuck
<1>6. CASE IntervalFires /\ connected
  <2>1. PICK r \in Requests : SendRequest(r, "tick")
    BY <1>6 DEF IntervalFires
  <2>2. /\ req' \in [Requests -> [kind : Kinds, answer : Answers] \cup {Free}]
        /\ \A q \in Requests : req[q].kind \in {"trigger", "poll"} => req'[q].kind = req[q].kind
    BY <1>3, <2>1 DEF Kinds
  <2>3. ImportTypeOK'
    BY <1>1, <1>6, <2>2 DEF IntervalFires, ImportTypeOK
  <2>4. OneInterval' /\ NeverStuck'
    BY <1>6, <2>2 DEF IntervalFires, OneInterval, NeverStuck
  <2> QED
    BY <1>2, <2>3, <2>4
<1>7. CASE IntervalFires /\ ~connected
  <2>1. timer' = FALSE /\ live' = 0 /\ UNCHANGED <<req, connected, disabled>>
    BY <1>7 DEF IntervalFires, StopPolling, OneInterval
  <2>2. OneInterval' /\ NeverStuck'
    BY <1>7, <2>1 DEF OneInterval, NeverStuck
  <2>3. ImportTypeOK'
    BY <1>1, <2>1 DEF ImportTypeOK
  <2> QED
    BY <1>2, <2>2, <2>3
<1> QED
  BY <1>4, <1>5, <1>6, <1>7

\* A reply that is received keeps the invariant: one that ends a request either
\* gives the button back or leaves an interval running.
LEMMA PollKeeps ==
  ASSUME ImportInv, NEW r \in Requests, ReceiveReply(r)
  PROVE  ImportInv'
<1> USE PendingAssumption DEF ImportInv
<1>1. UNCHANGED <<running, err, cooling, pending, stopping, connected>>
  BY DEF ReceiveReply, ReceiveTrigger, ReceivePoll, ReceiveTick, server
<1>2. CoolingInv'
  BY <1>1 DEF CoolingInv
<1>3. req' = [req EXCEPT ![r] = Free] \/ req' = [req EXCEPT ![r] = Sent("poll")]
  BY DEF ReceiveReply, ReceiveTrigger, ReceivePoll, ReceiveTick, Done
<1>4. Sent("poll") \in [kind : Kinds, answer : Answers] /\ Sent("poll").kind = "poll"
  BY DEF Sent, Kinds, Answers
<1>5. req' \in [Requests -> [kind : Kinds, answer : Answers] \cup {Free}]
  BY <1>3, <1>4 DEF ImportTypeOK
<1>6. timer' \in BOOLEAN /\ live' = IF timer' THEN 1 ELSE 0
  <2>1. UNCHANGED <<timer, live>> \/ StartPolling \/ StopPolling
    BY DEF ReceiveReply, ReceiveTrigger, ReceivePoll, ReceiveTick
  <2>2. CASE UNCHANGED <<timer, live>>
    <3>1. timer' = timer /\ live' = live
      BY <2>2
    <3> QED
      BY <3>1 DEF ImportTypeOK, OneInterval
  <2>3. CASE StartPolling
    BY <2>3 DEF StartPolling, OneInterval
  <2>4. CASE StopPolling
    <3>1. timer' = FALSE /\ live' = 0
      BY <2>4 DEF StopPolling, OneInterval
    <3> QED
      BY <3>1
  <2> QED
    BY <2>1, <2>2, <2>3, <2>4
<1>7. disabled' \in BOOLEAN
  BY DEF ReceiveReply, ReceiveTrigger, ReceivePoll, ReceiveTick, Render, ImportTypeOK
<1>8. ImportTypeOK' /\ OneInterval'
  BY <1>1, <1>5, <1>6, <1>7 DEF ImportTypeOK, OneInterval
<1>9. NeverStuck'
  <2>1. CASE ReceiveTrigger(r)
    BY <1>1, <1>4, <2>1 DEF ReceiveTrigger, Render, NeverStuck, ImportTypeOK
  <2>2. CASE ReceivePoll(r)
    BY <1>1, <1>6, <2>2 DEF ReceivePoll, Render, StartPolling, NeverStuck, ImportTypeOK
  <2>3. CASE ReceiveTick(r) /\ req[r].answer # "running"
    BY <2>3 DEF ReceiveTick, Render, NeverStuck
  <2>4. CASE ReceiveTick(r) /\ req[r].answer = "running"
    <3>1. \A q \in Requests : req[q].kind \in {"trigger", "poll"} => req'[q].kind = req[q].kind
      BY <2>4 DEF ReceiveTick, Done, ImportTypeOK
    <3>2. live' = live
      BY <2>4 DEF ReceiveTick
    <3>3. disabled' => disabled
      BY <2>4, Zenon DEF ReceiveTick, Render
    <3> QED
      BY <1>1, <3>1, <3>2, <3>3 DEF NeverStuck
  <2> QED
    BY <2>1, <2>2, <2>3, <2>4 DEF ReceiveReply
<1> QED
  BY <1>2, <1>8, <1>9

\* The invariant holds throughout.
THEOREM ImportCorrect == ImportSpec => []ImportInv
<1>1. ImportInv /\ [ImportNext]_importVars => ImportInv'
  <2> SUFFICES ASSUME ImportInv, [ImportNext]_importVars PROVE ImportInv'
    OBVIOUS
  <2>1. CASE UNCHANGED importVars
    BY <2>1 DEF importVars, server, pageVars, ImportInv, ImportTypeOK, OneInterval, NeverStuck, CoolingInv
  <2>2. CASE ImportNext
    BY <2>2, RunKeeps, StatusKeeps, ImportStarts, PollKeeps DEF ImportNext
  <2> QED
    BY <2>1, <2>2
<1> QED
  BY ImportOpens, <1>1, PTL DEF ImportSpec

\* Type correctness of the page, its requests and the status they ask for.
THEOREM ImportTypeCorrect == ImportSpec => []ImportTypeOK
BY ImportCorrect, PTL DEF ImportInv

\* "A button stuck disabled": it never is on a page in view with nothing under
\* way that could give it back.
THEOREM ButtonCorrect == ImportSpec => []NeverStuck
BY ImportCorrect, PTL DEF ImportInv

\* The browser runs an interval for the page only if the page can stop it.
THEOREM IntervalCorrect == ImportSpec => []OneInterval
BY ImportCorrect, PTL DEF ImportInv

\* While the worker stands down, the status says that it was rate limited.
THEOREM CooldownExplained == ImportSpec => []CooldownIsExplained
<1>1. ImportInv => CooldownIsExplained
  BY LimitedIsReported DEF ImportInv, CoolingInv, CooldownIsExplained
<1> QED
  BY ImportCorrect, <1>1, PTL
=============================================================================
