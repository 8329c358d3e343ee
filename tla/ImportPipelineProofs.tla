------------------------ MODULE ImportPipelineProofs ------------------------
(* Proofs about ImportPipeline, for any posts, thresholds and mode. *)
EXTENDS ImportPipeline, FiniteSetTheorems, TLAPS

\* min(1, m/n) is a score, nothing of nothing, and all once m reaches n.
LEMMA ShareFacts ==
    ASSUME NEW m \in Nat, NEW n \in Nat \ {0}
    PROVE  /\ Share(m, n) \in 0..One
           /\ m = 0 => Share(m, n) = 0
           /\ m >= n => Share(m, n) = One
<1> DEFINE l == Least(m, n)
<1>1. l \in Nat /\ l <= n /\ (m = 0 => l = 0) /\ (m >= n => l = n)
  BY DEF Least
<1>2. One \in Nat \ {0}
  BY ExtractionAssumption
<1> HIDE DEF l
<1>3. (One * l) \div n \in 0..One
  BY <1>1, <1>2, Z3
<1>4. l = 0 => (One * l) \div n = 0
  BY <1>1, <1>2
<1>5. l = n => (One * l) \div n = One
  BY <1>1, <1>2, Z3
<1> QED
  BY <1>1, <1>3, <1>4, <1>5 DEF Share, l

\* The score of a list of ingredients.
LEMMA IngredientScoreFacts ==
    ASSUME NEW n \in Nat, NEW offered \in Nat, NEW measured \in Nat, n <= offered
    PROVE  /\ IngredientScore(n, offered, measured) \in 0..One
           /\ n = 0 => IngredientScore(n, offered, measured) = 0
           /\ n >= FullCount /\ offered = n /\ measured = n =>
                 IngredientScore(n, offered, measured) = One
<1>1. One \in Nat \ {0} /\ FullCount \in Nat \ {0}
  BY ExtractionAssumption
<1>2. CASE n = 0
  BY <1>1, <1>2 DEF IngredientScore
<1>3. CASE n # 0
  <2> DEFINE x == Share(n, FullCount)
             y == Share(n, offered)
             z == Share(measured, n)
  <2>1. offered \in Nat \ {0} /\ n \in Nat \ {0}
    BY <1>3
  <2>2. x \in 0..One /\ (n >= FullCount => x = One)
    BY <1>1, ShareFacts
  <2>3. y \in 0..One /\ (offered = n => y = One)
    BY <2>1, ShareFacts
  <2>4. z \in 0..One /\ (measured = n => z = One)
    BY <2>1, ShareFacts
  <2>5. IngredientScore(n, offered, measured) = (6 * x + 2 * y + 2 * z) \div 10
    BY <1>3 DEF IngredientScore
  <2> HIDE DEF x, y, z
  <2>6. (6 * x + 2 * y + 2 * z) \div 10 \in 0..One
    BY <1>1, <2>2, <2>3, <2>4
  <2>7. x = One /\ y = One /\ z = One => (6 * x + 2 * y + 2 * z) \div 10 = One
    BY <1>1
  <2> QED
    BY <1>3, <2>2, <2>3, <2>4, <2>5, <2>6, <2>7
<1> QED
  BY <1>2, <1>3

\* What the comment on confidenceFor promises, whatever was counted.
LEMMA ConfidenceFacts ==
    ASSUME NEW n \in Nat, NEW offered \in Nat, NEW measured \in Nat, n <= offered,
           NEW length \in Nat, NEW titled \in BOOLEAN
    PROVE  LET c == Confidence(n, offered, measured, length, titled) IN
           /\ c \in 0..One
           /\ n = 0 /\ length = 0 => c = 0
           /\ n = 0 \/ length = 0 => 2 * c <= One
           /\ /\ titled /\ n >= FullCount /\ offered = n /\ measured = n
              /\ length >= FullLength
              => c = One
<1> DEFINE x == IngredientScore(n, offered, measured)
           y == InstructionScore(length)
<1>1. One \in Nat \ {0} /\ FullLength \in Nat \ {0}
  BY ExtractionAssumption
<1>2. /\ x \in 0..One /\ (n = 0 => x = 0)
      /\ (n >= FullCount /\ offered = n /\ measured = n => x = One)
  BY IngredientScoreFacts
<1>3. y \in 0..One /\ (length = 0 => y = 0) /\ (length >= FullLength => y = One)
  BY <1>1, ShareFacts DEF InstructionScore
<1>4. Confidence(n, offered, measured, length, titled) =
        IF titled THEN (x + y) \div 2 ELSE (3 * ((x + y) \div 2)) \div 4
  BY DEF Confidence
<1> HIDE DEF x, y
<1> DEFINE h == (x + y) \div 2
<1>5. /\ h \in 0..One /\ (x = 0 /\ y = 0 => h = 0) /\ (x = 0 \/ y = 0 => 2 * h <= One)
      /\ (x = One /\ y = One => h = One)
  BY <1>1, <1>2, <1>3
<1> HIDE DEF h
<1>6. (3 * h) \div 4 \in 0..h
  BY <1>1, <1>5
<1>7. Confidence(n, offered, measured, length, titled) \in {h, (3 * h) \div 4}
  BY <1>4 DEF h
<1>8. titled => Confidence(n, offered, measured, length, titled) = h
  BY <1>4 DEF h
<1> QED
  BY <1>1, <1>2, <1>3, <1>5, <1>6, <1>7, <1>8

\* confidenceFor: neither section scores exactly zero, one of them at most one
\* half, and a caption with a title, a full list read completely and a full method
\* scores all there is - for any caption, and any size of list and method.
THEOREM ScoreBoundaries ==
    ASSUME NEW lines \in Captions
    PROVE  /\ RuleScore(lines) \in 0..One
           /\ Ingredients(lines) = {} /\ Instructions(lines) = {} => RuleScore(lines) = 0
           /\ Ingredients(lines) = {} \/ Instructions(lines) = {} => 2 * RuleScore(lines) <= One
           /\ /\ Titled(lines) /\ Cardinality(Ingredients(lines)) >= FullCount
              /\ Measured(lines) = Offered(lines, "ingredients")
              /\ Cardinality(Instructions(lines)) >= FullLength
              => RuleScore(lines) = One
<1> DEFINE list == Offered(lines, "ingredients")
<1>1. IsFiniteSet(DOMAIN lines)
  <2>1. lines \in Seq(LineKinds)
    BY ExtractionAssumption
  <2>2. DOMAIN lines = 1..Len(lines) /\ Len(lines) \in Nat
    BY <2>1
  <2> QED
    BY <2>2, FS_Interval
<1>2. /\ list \subseteq DOMAIN lines /\ Instructions(lines) \subseteq DOMAIN lines
      /\ Ingredients(lines) \subseteq list /\ Measured(lines) \subseteq Ingredients(lines)
  BY DEF Offered, Ingredients, Measured, Instructions
<1>3. /\ IsFiniteSet(list) /\ IsFiniteSet(Instructions(lines))
      /\ IsFiniteSet(Ingredients(lines)) /\ IsFiniteSet(Measured(lines))
  BY <1>1, <1>2, FS_Subset
<1> DEFINE n == Cardinality(Ingredients(lines))
           offered == Cardinality(list)
           measured == Cardinality(Measured(lines))
           length == Cardinality(Instructions(lines))
<1>4. n \in Nat /\ offered \in Nat /\ measured \in Nat /\ length \in Nat /\ n <= offered
  BY <1>2, <1>3, FS_CardinalityType, FS_Subset
<1>5. /\ Ingredients(lines) = {} => n = 0
      /\ Instructions(lines) = {} => length = 0
  BY FS_EmptySet
<1>6. Measured(lines) = list => offered = n /\ measured = n
  BY <1>2
<1>7. Titled(lines) \in BOOLEAN
  BY DEF Titled
<1>8. RuleScore(lines) = Confidence(n, offered, measured, length, Titled(lines))
  BY DEF RuleScore
<1> HIDE DEF n, offered, measured, length, list
<1>9. /\ RuleScore(lines) \in 0..One
      /\ n = 0 /\ length = 0 => RuleScore(lines) = 0
      /\ n = 0 \/ length = 0 => 2 * RuleScore(lines) <= One
      /\ Titled(lines) /\ n >= FullCount /\ offered = n /\ measured = n /\ length >= FullLength
         => RuleScore(lines) = One
  <2> DEFINE c == Confidence(n, offered, measured, length, Titled(lines))
  <2>1. /\ c \in 0..One
        /\ n = 0 /\ length = 0 => c = 0
        /\ n = 0 \/ length = 0 => 2 * c <= One
        /\ Titled(lines) /\ n >= FullCount /\ offered = n /\ measured = n /\ length >= FullLength
           => c = One
    BY <1>4, <1>7, ConfidenceFacts
  <2> QED
    BY <1>8, <2>1
<1> QED
  BY <1>5, <1>6, <1>9 DEF n, length, list

\* parseToolInput: a recipe an LLM found has both sections, and scores neither
\* nothing nor more than the model claims.
THEOREM AnswerBoundaries ==
    ASSUME NEW a \in Answers, ~SaysNoRecipe(a)
    PROVE  /\ AnswerScore(a) \in 1..One /\ AnswerScore(a) <= a.score
           /\ a.listed > 0 /\ a.length > 0
<1>1. /\ a.listed \in Nat /\ a.measured \in Nat /\ a.length \in Nat /\ a.score \in Int
      /\ One \in Nat \ {0} /\ FullCount \in Nat \ {0} /\ FullLength \in Nat \ {0}
  BY ExtractionAssumption DEF AllAnswers
<1> DEFINE s == StructuralConfidence(a.listed, a.measured, a.length)
<1>2. CASE a.listed = 0 \/ a.length = 0
  <2>1. s = 0
    BY <1>2 DEF StructuralConfidence
  <2>2. AnswerScore(a) <= 0
    BY <1>1, <2>1 DEF AnswerScore, Least
  <2> QED
    BY <2>2 DEF SaysNoRecipe
<1>3. CASE a.listed # 0 /\ a.length # 0
  <2> DEFINE x == Share(a.listed, FullCount)
             z == Share(a.measured, a.listed)
             y == IF a.length >= FullLength THEN One ELSE 0
  <2>1. x \in 0..One /\ z \in 0..One /\ y \in 0..One
    BY <1>1, <1>3, ShareFacts
  <2>2. s = (50 * One + 20 * x + 15 * y + 15 * z) \div 100
    BY <1>3 DEF StructuralConfidence
  <2> HIDE DEF x, y, z
  <2>3. s \in 0..One
    BY <1>1, <2>1, <2>2
  <2> HIDE DEF s
  <2>4. AnswerScore(a) = Least(Least(a.score, One), s) /\ a.score > 0 /\ AnswerScore(a) > 0
    <3>1. AnswerScore(a) = Least(Least(a.score, One), s)
      BY DEF AnswerScore, s
    <3>2. AnswerScore(a) \in Int
      BY <1>1, <2>3, <3>1 DEF Least
    <3> QED
      BY <1>1, <3>1, <3>2 DEF SaysNoRecipe
  <2> QED
    BY <1>1, <1>3, <2>3, <2>4 DEF Least
<1> QED
  BY <1>2, <1>3

Buckets == {"seen", "imported", "skipped", "noRecipe", "failed", "degraded"}

\* How far the loop is: every post fetched is behind it, in hand or ahead.
Reached ==
    /\ pc \in InPost => result.seen + Len(rest) = Len(fetched) + 1
    /\ pc = "top" => result.seen + Len(rest) = Len(fetched)
    /\ pc = "fetch" => result.seen = 0 /\ fetched = << >> /\ rest = << >>

\* The posts ahead are distinct, and nothing was stored for them yet.
Ahead ==
    /\ IsInjective(rest)
    /\ pc # "done" => \A w \in wrote : w.post \notin Range(rest)

\* What the extraction in hand can be at each point of the loop.
InHand ==
    /\ pc = "llm" /\ Mode = "hybrid" => ex.conf < Threshold
    /\ pc \in {"judge", "insert", "commit"} /\ ex.degraded => ex.conf < Threshold
    /\ pc \in {"insert", "commit"} => ex.conf > 0
    /\ 2 * ex.conf > One => ex.whole

\* The open transaction's row is not in the table yet.
Reserved == pc = "commit" => tx = post /\ rows[post] = "none"

\* The commits so far, and that only a run that ended was cut off.
Counted ==
    /\ IsFiniteSet(wrote)
    /\ CommitsCounted
    /\ pc # "done" => cut = None

PipeInv ==
    TypeOK /\ TallyPartitions /\ Reached /\ EveryPostReached /\ Ahead /\ InHand
    /\ Reserved /\ Counted /\ WeakIsReviewed /\ NothingHalfPublished

\* What Count does to each bucket.
LEMMA CountFacts ==
    ASSUME TypeOK, NEW B
    PROVE  /\ Count(B) \in [Buckets -> Nat]
           /\ \A b \in Buckets : Count(B)[b] = IF b \in B THEN result[b] + 1 ELSE result[b]
  BY DEF Count, TypeOK, Buckets

\* What the tail of a sequence without repetitions keeps and loses.
LEMMA TailFacts ==
    ASSUME NEW S, NEW s \in Seq(S), s # << >>, IsInjective(s)
    PROVE  /\ Tail(s) \in Seq(S) /\ Len(Tail(s)) = Len(s) - 1 /\ Len(s) \in Nat \ {0}
           /\ IsInjective(Tail(s))
           /\ Range(Tail(s)) \subseteq Range(s)
           /\ Head(s) \in S /\ Head(s) \in Range(s) /\ Head(s) \notin Range(Tail(s))
<1>1. DOMAIN s = 1..Len(s) /\ Len(s) \in Nat \ {0} /\ Head(s) = s[1]
  OBVIOUS
<1>2. /\ Tail(s) \in Seq(S) /\ Len(Tail(s)) = Len(s) - 1
      /\ DOMAIN Tail(s) = 1..(Len(s) - 1)
      /\ \A i \in 1..(Len(s) - 1) : Tail(s)[i] = s[i + 1]
  OBVIOUS
<1>3. \A i, j \in 1..Len(s) : s[i] = s[j] => i = j
  BY <1>1 DEF IsInjective
<1>4. IsInjective(Tail(s))
  BY <1>1, <1>2, <1>3 DEF IsInjective
<1>5. Range(Tail(s)) \subseteq Range(s)
  <2> SUFFICES ASSUME NEW x \in Range(Tail(s)) PROVE x \in Range(s)
    OBVIOUS
  <2>1. PICK i \in 1..(Len(s) - 1) : x = Tail(s)[i]
    BY <1>2 DEF Range
  <2>2. x = s[i + 1] /\ i + 1 \in 1..Len(s)
    BY <1>1, <1>2, <2>1
  <2> QED
    BY <1>1, <2>2 DEF Range
<1>6. Head(s) \in S /\ Head(s) \in Range(s)
  BY <1>1 DEF Range
<1>7. Head(s) \notin Range(Tail(s))
  <2> SUFFICES ASSUME Head(s) \in Range(Tail(s)) PROVE FALSE
    OBVIOUS
  <2>1. PICK i \in 1..(Len(s) - 1) : Head(s) = Tail(s)[i]
    BY <1>2 DEF Range
  <2>2. s[1] = s[i + 1] /\ i + 1 \in 1..Len(s) /\ 1 \in 1..Len(s) /\ i + 1 # 1
    BY <1>1, <1>2, <2>1
  <2> QED
    BY <1>3, <2>2
<1> QED
  BY <1>1, <1>2, <1>4, <1>5, <1>6, <1>7

Verdicts == {{"skipped"}, {"noRecipe"}, {"failed"}, {"imported"}, {"imported", "degraded"}}

\* What an end of the post in hand does to the tally, the rest and the loop,
\* whatever it stored.
Settled(B) ==
    /\ TallyPartitions' /\ Reached' /\ EveryPostReached' /\ InHand' /\ Reserved'
    /\ result' \in [Buckets -> Nat]
    /\ rest' \in Seq(Posts) /\ IsInjective(rest')
    /\ pc' = "top" /\ ex' = NoEx /\ err' = err /\ cut' = None
    /\ post \notin Range(rest') /\ Range(rest') \subseteq Range(rest)
    /\ result'.imported = result.imported + (IF "imported" \in B THEN 1 ELSE 0)
    /\ result'.failed = result.failed + (IF "failed" \in B THEN 1 ELSE 0)

\* `continue` settles the post in hand.
LEMMA ContinueSettles ==
    ASSUME PipeInv, pc \in InPost, UNCHANGED fetched, NEW B \in Verdicts, Continue(B)
    PROVE  Settled(B)
<1>1. /\ result' \in [Buckets -> Nat] /\ result \in [Buckets -> Nat]
      /\ \A b \in Buckets : result'[b] = IF b \in B THEN result[b] + 1 ELSE result[b]
  BY CountFacts DEF PipeInv, Continue, TypeOK, Buckets
<1>2. /\ rest' = Tail(rest) /\ rest \in Seq(Posts) /\ rest # << >> /\ IsInjective(rest)
      /\ pc' = "top" /\ ex' = NoEx /\ err' = err /\ cut' = None
  BY DEF PipeInv, Continue, TypeOK, Ahead, Counted, InPost
<1>3. /\ rest' \in Seq(Posts) /\ Len(rest') = Len(rest) - 1 /\ Len(rest) \in Nat \ {0}
      /\ IsInjective(rest') /\ Range(rest') \subseteq Range(rest) /\ post \notin Range(rest')
  BY <1>2, TailFacts DEF post
<1>4. /\ result'.seen = result.seen
      /\ result'.imported = result.imported + (IF "imported" \in B THEN 1 ELSE 0)
      /\ result'.skipped = result.skipped + (IF "skipped" \in B THEN 1 ELSE 0)
      /\ result'.noRecipe = result.noRecipe + (IF "noRecipe" \in B THEN 1 ELSE 0)
      /\ result'.failed = result.failed + (IF "failed" \in B THEN 1 ELSE 0)
      /\ result'.degraded = result.degraded + (IF "degraded" \in B THEN 1 ELSE 0)
  BY <1>1 DEF Buckets, Verdicts
<1>5. result.imported + result.skipped + result.noRecipe + result.failed = result.seen - 1
      /\ result.degraded <= result.imported
  BY DEF PipeInv, TallyPartitions
<1>6. TallyPartitions'
  <2>1. /\ result.seen \in Nat /\ result.imported \in Nat /\ result.skipped \in Nat
        /\ result.noRecipe \in Nat /\ result.failed \in Nat /\ result.degraded \in Nat
    BY <1>1 DEF Buckets
  <2> DEFINE one(b) == IF b \in B THEN 1 ELSE 0
  <2>2. /\ one("imported") + one("skipped") + one("noRecipe") + one("failed") = 1
        /\ one("degraded") <= one("imported")
        /\ one("imported") \in Nat /\ one("skipped") \in Nat /\ one("noRecipe") \in Nat
        /\ one("failed") \in Nat /\ one("degraded") \in Nat
    BY DEF Verdicts
  <2>3. /\ result'.imported = result.imported + one("imported")
        /\ result'.skipped = result.skipped + one("skipped")
        /\ result'.noRecipe = result.noRecipe + one("noRecipe")
        /\ result'.failed = result.failed + one("failed")
        /\ result'.degraded = result.degraded + one("degraded")
        /\ result'.seen = result.seen
    BY <1>4
  <2> HIDE DEF one
  <2>4. result'.imported + result'.skipped + result'.noRecipe + result'.failed = result'.seen
        /\ result'.degraded <= result'.imported
    BY <1>5, <2>1, <2>2, <2>3
  <2> QED
    BY <1>1, <1>2, <2>4 DEF TallyPartitions, InPost, Buckets
<1>7. Reached' /\ EveryPostReached'
  <2>1. result.seen + Len(rest) = Len(fetched) + 1 /\ fetched' = fetched
    BY DEF PipeInv, Reached
  <2>2. result.seen \in Nat /\ Len(fetched) \in Nat
    BY <1>1 DEF Buckets, PipeInv, TypeOK
  <2>3. result'.seen + Len(rest') = Len(fetched')
    BY <1>3, <1>4, <2>1, <2>2
  <2> QED
    BY <1>2, <2>3 DEF Reached, EveryPostReached, InPost
<1>8. InHand' /\ Reserved'
  <2>1. ~(2 * ex'.conf > One)
    BY <1>2, ExtractionAssumption DEF NoEx, NoRecipe
  <2> QED
    BY <1>2, <2>1 DEF InHand, Reserved
<1> QED
  BY <1>1, <1>2, <1>3, <1>4, <1>6, <1>7, <1>8 DEF Settled

\* What a cancellation at the post in hand does.
Stopped ==
    /\ TallyPartitions' /\ Reached' /\ EveryPostReached' /\ InHand' /\ Reserved'
    /\ result' \in [Buckets -> Nat]
    /\ pc' = "done" /\ err' = "ctx" /\ cut' \in Posts
    /\ rest' = rest /\ ex' = ex
    /\ result'.imported = result.imported /\ result'.failed = result.failed

\* interrupted ends the run with the post in hand out of the tally.
LEMMA InterruptStops ==
    ASSUME PipeInv, pc \in InPost, UNCHANGED fetched, Interrupted
    PROVE  Stopped
<1>1. result \in [Buckets -> Nat] /\ rest \in Seq(Posts) /\ rest # << >>
  BY DEF PipeInv, TypeOK, Buckets
<1>2. /\ result.seen \in Nat /\ result.imported \in Nat /\ result.skipped \in Nat
      /\ result.noRecipe \in Nat /\ result.failed \in Nat /\ result.degraded \in Nat
  BY <1>1 DEF Buckets
<1>3. result.imported + result.skipped + result.noRecipe + result.failed = result.seen - 1
      /\ result.degraded <= result.imported
  BY DEF PipeInv, TallyPartitions
<1>4. result.seen - 1 \in Nat
  BY <1>2, <1>3
<1>5. /\ result' = [result EXCEPT !.seen = result.seen - 1]
      /\ pc' = "done" /\ err' = "ctx" /\ cut' = post /\ rest' = rest /\ ex' = ex
  BY DEF Interrupted, Return
<1>6. /\ result' \in [Buckets -> Nat] /\ result'.seen = result.seen - 1
      /\ result'.imported = result.imported /\ result'.skipped = result.skipped
      /\ result'.noRecipe = result.noRecipe /\ result'.failed = result.failed
      /\ result'.degraded = result.degraded
  BY <1>1, <1>4, <1>5 DEF Buckets
<1>7. TallyPartitions'
  BY <1>2, <1>3, <1>5, <1>6 DEF TallyPartitions, InPost
<1>8. Reached' /\ EveryPostReached' /\ InHand' /\ Reserved'
  <2>1. 2 * ex'.conf > One => ex'.whole
    BY <1>5 DEF PipeInv, InHand
  <2> QED
    BY <1>5, <2>1 DEF Reached, EveryPostReached, InHand, Reserved, InPost
<1>9. post \in Posts
  BY <1>1 DEF post
<1> QED
  BY <1>5, <1>6, <1>7, <1>8, <1>9 DEF Stopped

\* The two ways an error on a post can go.
LEMMA ErrorHandled ==
    ASSUME PipeInv, pc \in InPost, UNCHANGED fetched, PostError
    PROVE  Settled({"failed"}) \/ Stopped
<1>1. CASE cancelled
  BY <1>1, InterruptStops DEF PostError
<1>2. CASE ~cancelled
  BY <1>2, ContinueSettles DEF PostError, Verdicts
<1> QED
  BY <1>1, <1>2

\* A post that ends without a row keeps the invariant.
LEMMA EndWithoutRow ==
    ASSUME PipeInv, pc \in InPost, UNCHANGED <<cancelled, rows, fetched, fetchErr, wrote>>,
           tx' \in {tx, None},
           Settled({"skipped"}) \/ Settled({"noRecipe"}) \/ Settled({"failed"}) \/ Stopped
    PROVE  PipeInv'
<1>0. /\ wrote' = wrote /\ fetched' = fetched /\ cut = None
      /\ TypeOK /\ Ahead /\ Counted /\ WeakIsReviewed /\ NothingHalfPublished
  BY DEF PipeInv, Counted, InPost
<1>1. TallyPartitions' /\ Reached' /\ EveryPostReached' /\ InHand' /\ Reserved'
  BY DEF Settled, Stopped
<1>2. TypeOK'
  <2>1. result' \in [Buckets -> Nat] /\ rest' \in Seq(Posts)
    BY <1>0 DEF Settled, Stopped, TypeOK
  <2>2. pc' \in {"top", "done"} /\ err' \in {err, "ctx"} /\ cut' \in Posts \cup {None}
    BY DEF Settled, Stopped
  <2>3. ex' \in Extractions
    <3>1. NoEx \in Extractions
      BY ExtractionAssumption DEF NoEx, NoRecipe, Extractions
    <3>2. ex' = NoEx \/ ex' = ex
      BY DEF Settled, Stopped
    <3> QED
      BY <1>0, <3>1, <3>2 DEF TypeOK
  <2>4. pc' \notin InPost
    BY <2>2 DEF InPost
  <2> QED
    BY <1>0, <2>1, <2>2, <2>3, <2>4 DEF TypeOK, Buckets
<1>3. Ahead'
  BY <1>0 DEF Ahead, Settled, Stopped, InPost
<1>4. Counted'
  <2>1. /\ Cardinality(wrote) \in Nat
        /\ result.imported \in Nat /\ result.failed \in Nat
    BY <1>0, FS_CardinalityType DEF Counted, TypeOK
  <2>2. result'.imported = result.imported /\ result'.failed \in {result.failed, result.failed + 1}
    BY <2>1 DEF Settled, Stopped
  <2>3. cut' = None \/ pc' = "done"
    BY DEF Settled, Stopped
  <2> QED
    BY <1>0, <2>1, <2>2, <2>3 DEF Counted, CommitsCounted
<1>5. WeakIsReviewed' /\ NothingHalfPublished'
  BY <1>0 DEF WeakIsReviewed, NothingHalfPublished, PublishAt
<1> QED
  BY <1>1, <1>2, <1>3, <1>4, <1>5 DEF PipeInv

\* A post that ends with a row keeps the invariant, whether or not the run
\* learns of the row.
LEMMA EndWithRow ==
    ASSUME PipeInv, pc = "commit", UNCHANGED <<cancelled, fetched, fetchErr>>, tx' = None, Store,
           \/ Settled({"imported"}) \/ Settled({"imported", "degraded"})
           \/ Settled({"failed"}) \/ Stopped
    PROVE  PipeInv'
<1> DEFINE w == [post |-> post, status |-> ReviewStatus, conf |-> ex.conf, whole |-> ex.whole,
                 degraded |-> ex.degraded]
<1>0. /\ TypeOK /\ Ahead /\ InHand /\ Counted /\ WeakIsReviewed /\ NothingHalfPublished
      /\ cut = None
      /\ rest \in Seq(Posts) /\ rest # << >> /\ fetched' = fetched
  BY DEF PipeInv, Counted, TypeOK, InPost
<1>1. TallyPartitions' /\ Reached' /\ EveryPostReached' /\ InHand' /\ Reserved'
  BY DEF Settled, Stopped
<1>2. /\ wrote' = wrote \cup {w} /\ rows' = [rows EXCEPT ![post] = ReviewStatus]
      /\ post \in Posts /\ post \in Range(rest)
  BY <1>0, TailFacts DEF Store, post, Ahead
<1>3. ex \in Extractions /\ ReviewStatus \in Status
  BY <1>0 DEF TypeOK, ReviewStatus, Status
<1>4. w \in Stored
  BY <1>2, <1>3 DEF Extractions, Stored
<1>5. w \notin wrote /\ w.post = post /\ w.conf = ex.conf /\ w.degraded = ex.degraded
      /\ w.status = ReviewStatus /\ w.whole = ex.whole
  BY <1>0, <1>2 DEF Ahead
<1> HIDE DEF w
<1>6. TypeOK'
  <2>1. result' \in [Buckets -> Nat] /\ rest' \in Seq(Posts)
    BY <1>0 DEF Settled, Stopped
  <2>2. pc' \in {"top", "done"} /\ err' \in {err, "ctx"} /\ cut' \in Posts \cup {None}
    BY DEF Settled, Stopped
  <2>3. ex' \in Extractions
    <3>1. NoEx \in Extractions
      BY ExtractionAssumption DEF NoEx, NoRecipe, Extractions
    <3>2. ex' = NoEx \/ ex' = ex
      BY DEF Settled, Stopped
    <3> QED
      BY <1>3, <3>1, <3>2
  <2>4. pc' \notin InPost
    BY <2>2 DEF InPost
  <2>5. wrote' \subseteq Stored
    BY <1>0, <1>2, <1>4 DEF TypeOK
  <2>6. rows' \in [Posts -> Status \cup {"none"}]
    BY <1>0, <1>2, <1>3 DEF TypeOK
  <2> QED
    BY <1>0, <2>1, <2>2, <2>3, <2>4, <2>5, <2>6 DEF TypeOK, Buckets
<1>7. Ahead'
  <2>1. CASE pc' = "done"
    BY <1>0, <2>1 DEF Ahead, Stopped, Settled
  <2>2. CASE pc' = "top"
    <3>1. IsInjective(rest') /\ post \notin Range(rest') /\ Range(rest') \subseteq Range(rest)
      BY <2>2 DEF Settled, Stopped
    <3>2. \A v \in wrote : v.post \notin Range(rest)
      BY <1>0 DEF Ahead
    <3> QED
      BY <1>2, <1>5, <3>1, <3>2 DEF Ahead
  <2> QED
    BY <2>1, <2>2 DEF Settled, Stopped
<1>8. Counted'
  <2>1. /\ IsFiniteSet(wrote') /\ Cardinality(wrote') = Cardinality(wrote) + 1
        /\ Cardinality(wrote) \in Nat
    BY <1>0, <1>2, <1>5, FS_AddElement, FS_CardinalityType DEF Counted
  <2>2. /\ result.imported \in Nat /\ result.failed \in Nat
        /\ result.imported <= Cardinality(wrote)
        /\ Cardinality(wrote) <= result.imported + result.failed
    BY <1>0 DEF Counted, CommitsCounted, TypeOK
  <2>3. \/ result'.imported = result.imported + 1 /\ result'.failed = result.failed /\ cut' = None
        \/ result'.imported = result.imported /\ result'.failed = result.failed + 1 /\ cut' = None
        \/ /\ result'.imported = result.imported /\ result'.failed = result.failed
           /\ cut' # None /\ pc' = "done"
    BY <2>2, PipelineAssumption DEF Settled, Stopped
  <2> QED
    BY <2>1, <2>2, <2>3 DEF Counted, CommitsCounted
<1>9. WeakIsReviewed'
  <2>1. ex.conf > 0 /\ (ex.degraded => ex.conf < Threshold)
    BY <1>0 DEF InHand
  <2>2. PublishAt \in 0..One /\ ex.conf \in 0..One /\ Threshold \in 0..One /\ One \in Nat
    BY <1>3, ThresholdAssumption, ExtractionAssumption DEF PublishAt, Extractions
  <2>3. w.degraded /\ Threshold <= PublishAt => w.status = "needs_review"
    BY <1>5, <2>1, <2>2 DEF ReviewStatus
  <2>4. PublishAt' = PublishAt
    BY DEF PublishAt
  <2> QED
    BY <1>0, <1>2, <1>5, <2>1, <2>3, <2>4 DEF WeakIsReviewed
<1>10. NothingHalfPublished'
  <2>1. PublishAt \in 0..One /\ ex.conf \in 0..One /\ One \in Nat
    BY <1>3, ThresholdAssumption, ExtractionAssumption DEF PublishAt, Extractions
  <2>2. 2 * PublishAt > One /\ w.status = "published" => 2 * ex.conf > One
    BY <1>5, <2>1 DEF ReviewStatus
  <2>3. 2 * PublishAt > One /\ w.status = "published" => w.whole
    BY <1>0, <1>5, <2>2 DEF InHand
  <2>4. PublishAt' = PublishAt
    BY DEF PublishAt
  <2> QED
    BY <1>0, <1>2, <2>3, <2>4 DEF NothingHalfPublished
<1> QED
  BY <1>1, <1>6, <1>7, <1>8, <1>9, <1>10 DEF PipeInv

\* The run starts in the invariant.
LEMMA PipeInit == Init => PipeInv
<1> SUFFICES ASSUME Init PROVE PipeInv
  OBVIOUS
<1>1. IsInjective(<< >>) /\ Range(<< >>) = {}
  BY DEF IsInjective, Range
<1>2. TypeOK
  <2>1. NoEx \in Extractions
    BY ExtractionAssumption DEF NoEx, NoRecipe, Extractions
  <2>2. Zero \in [Buckets -> Nat]
    BY DEF Zero, Buckets
  <2>3. fetched \in Seq(Posts) /\ rest \in Seq(Posts)
    BY DEF Init
  <2>4. pc = "fetch" /\ pc \notin InPost /\ cancelled \in BOOLEAN
    BY DEF Init, InPost
  <2> QED
    BY <2>1, <2>2, <2>3, <2>4 DEF Init, TypeOK, Buckets
<1>3. TallyPartitions /\ Reached /\ EveryPostReached
  BY DEF Init, TallyPartitions, Reached, EveryPostReached, InPost, Zero
<1>4. Ahead /\ InHand /\ Reserved /\ WeakIsReviewed /\ NothingHalfPublished
  <2>1. ~(2 * ex.conf > One)
    BY ExtractionAssumption DEF Init, NoEx, NoRecipe
  <2> QED
    BY <1>1, <2>1 DEF Init, Ahead, InHand, Reserved, WeakIsReviewed, NothingHalfPublished
<1>5. Counted
  BY FS_EmptySet DEF Init, Counted, CommitsCounted, Zero
<1> QED
  BY <1>2, <1>3, <1>4, <1>5 DEF PipeInv

\* The fetch, the head of the loop and the extraction.
LEMMA LoopStep ==
    ASSUME PipeInv, Fetch \/ Top \/ Rules \/ LLM
    PROVE  PipeInv'
<1> USE DEF PipeInv
<1>1. CASE Fetch
  <2>0. PICK n \in 0..MaxFetched :
          \E posts \in [1..n -> Posts], e \in {"none", "limited", "other"} :
            /\ IsInjective(posts) /\ fetched' = posts /\ rest' = posts /\ fetchErr' = e
            /\ IF e # "none" /\ posts = << >> THEN Return(e) ELSE pc' = "top" /\ UNCHANGED err
    BY <1>1 DEF Fetch, NothingFetched
  <2>1. PICK posts \in [1..n -> Posts], e \in {"none", "limited", "other"} :
          /\ IsInjective(posts) /\ fetched' = posts /\ rest' = posts /\ fetchErr' = e
          /\ IF e # "none" /\ posts = << >> THEN Return(e) ELSE pc' = "top" /\ UNCHANGED err
    BY <2>0
  <2>2. /\ posts \in Seq(Posts) /\ Len(posts) \in Nat
        /\ pc = "fetch" /\ UNCHANGED <<cancelled, db, ex, result, wrote, cut>>
    BY <1>1, <2>1, PipelineAssumption DEF Fetch
  <2>3. /\ pc' \in {"top", "done"} /\ pc' \notin InPost
        /\ err' \in {"none", "limited", "other", "ctx"}
        /\ pc' = "done" => posts = << >>
    BY <2>1 DEF Return, InPost, TypeOK
  <2>4. result.seen = 0 /\ result.imported = 0 /\ result.failed = 0 /\ wrote = {}
    <3>1. /\ result.seen = 0 /\ pc \notin InPost /\ cut = None
          /\ result.imported + result.skipped + result.noRecipe + result.failed = result.seen
      BY <2>2 DEF Reached, TallyPartitions, InPost, Counted, TypeOK
    <3>2. /\ result.imported \in Nat /\ result.skipped \in Nat
          /\ result.noRecipe \in Nat /\ result.failed \in Nat
      BY DEF TypeOK
    <3>3. result.imported = 0 /\ result.failed = 0
      BY <3>1, <3>2
    <3>4. Cardinality(wrote) <= 0 /\ IsFiniteSet(wrote) /\ Cardinality(wrote) \in Nat
      BY <3>1, <3>3, FS_CardinalityType DEF Counted, CommitsCounted
    <3> QED
      BY <3>1, <3>3, <3>4, FS_EmptySet
  <2>5. TypeOK'
    BY <2>1, <2>2, <2>3 DEF TypeOK, db
  <2>6. TallyPartitions' /\ Reached' /\ EveryPostReached'
    <3>1. pc \notin InPost
      BY <2>2 DEF InPost
    <3>2. posts = << >> => Len(posts) = 0
      OBVIOUS
    <3> QED
      BY <2>1, <2>2, <2>3, <2>4, <3>1, <3>2 DEF TallyPartitions, Reached, EveryPostReached
  <2>7. Ahead' /\ InHand' /\ Reserved' /\ WeakIsReviewed' /\ NothingHalfPublished'
    BY <2>1, <2>2, <2>3, <2>4 DEF Ahead, InHand, Reserved, WeakIsReviewed, NothingHalfPublished, PublishAt
  <2>8. Counted'
    BY <2>2, <2>3 DEF Counted, CommitsCounted
  <2> QED
    BY <2>5, <2>6, <2>7, <2>8
<1>2. CASE Top
  <2>1. CASE rest = << >> \/ cancelled
    <3>1. /\ pc = "top" /\ pc' = "done" /\ err' \in {fetchErr, "ctx"}
          /\ err' # "ctx" => rest = << >>
          /\ UNCHANGED <<cancelled, db, fetched, fetchErr, rest, ex, wrote, cut, result>>
      BY <1>2, <2>1 DEF Top, Return
    <3>2. /\ pc \notin InPost /\ pc' \notin InPost /\ Len(<< >>) = 0
          /\ result.seen \in Nat /\ Len(fetched) \in Nat
      BY <3>1 DEF InPost, TypeOK
    <3> QED
      BY <3>1, <3>2 DEF TypeOK, db, TallyPartitions, Reached, EveryPostReached, Ahead, InHand,
                        Reserved, Counted, CommitsCounted, WeakIsReviewed, NothingHalfPublished, PublishAt
  <2>2. CASE rest # << >> /\ ~cancelled
    <3>1. /\ pc = "top" /\ pc' = (IF Mode = "llm" THEN "llm" ELSE "rules")
          /\ result' = Count({"seen"})
          /\ UNCHANGED <<cancelled, db, fetched, fetchErr, rest, ex, wrote, cut, err>>
      BY <1>2, <2>2 DEF Top
    <3>2. /\ result' \in [Buckets -> Nat] /\ result \in [Buckets -> Nat]
          /\ \A b \in Buckets : result'[b] = IF b \in {"seen"} THEN result[b] + 1 ELSE result[b]
      BY <3>1, CountFacts DEF TypeOK, Buckets
    <3>3. /\ result'.seen = result.seen + 1 /\ result'.imported = result.imported
          /\ result'.skipped = result.skipped /\ result'.noRecipe = result.noRecipe
          /\ result'.failed = result.failed /\ result'.degraded = result.degraded
      BY <3>2 DEF Buckets
    <3>4. pc \notin InPost /\ pc' \in InPost /\ pc' \in {"llm", "rules"}
      BY <3>1 DEF InPost
    <3>5. /\ result.seen \in Nat /\ result.imported \in Nat /\ result.skipped \in Nat
          /\ result.noRecipe \in Nat /\ result.failed \in Nat
      BY <3>2 DEF Buckets
    <3>6. TypeOK'
      BY <2>2, <3>1, <3>2, <3>4 DEF TypeOK, db, Buckets
    <3>7. TallyPartitions' /\ EveryPostReached'
      BY <3>3, <3>4, <3>5 DEF TallyPartitions, EveryPostReached
    <3>8. Reached'
      <4>1. Len(rest) \in Nat /\ Len(fetched) \in Nat
        BY DEF TypeOK
      <4> QED
        BY <3>1, <3>3, <3>4, <3>5, <4>1 DEF Reached
    <3>9. Ahead' /\ InHand' /\ Reserved' /\ WeakIsReviewed' /\ NothingHalfPublished'
      BY <3>1, <3>4 DEF Ahead, InHand, Reserved, WeakIsReviewed, NothingHalfPublished, PublishAt
    <3>10. Counted'
      BY <3>1, <3>3 DEF Counted, CommitsCounted
    <3> QED
      BY <3>6, <3>7, <3>8, <3>9, <3>10
  <2> QED
    BY <2>1, <2>2
<1>3. CASE Rules \/ LLM
  <2>1. /\ pc \in InPost /\ pc' \in InPost /\ pc # "done" /\ pc' \in {"llm", "judge"}
        /\ UNCHANGED <<cancelled, db, fetched, fetchErr, rest, result, err, wrote, cut>>
    BY <1>3 DEF Rules, LLM, InPost
  <2>2. /\ ex' \in Extractions
        /\ pc' = "llm" => ex'.conf < Threshold
        /\ ex'.degraded => ex'.conf < Threshold
        /\ 2 * ex'.conf > One => ex'.whole
    <3>1. ASSUME NEW c \in 0..One, NEW w \in BOOLEAN, NEW d \in BOOLEAN,
                 NEW k \in {"recipe", "norecipe", "error"}
          PROVE  [kind |-> k, conf |-> c, whole |-> w, degraded |-> d] \in Extractions
      BY DEF Extractions
    <3>2. One \in Nat \ {0} /\ 0 \in 0..One /\ Threshold \in Nat /\ 0..One \subseteq Nat /\ 1..One \subseteq 0..One
      BY ThresholdAssumption, ExtractionAssumption
    <3>3. CASE Rules
      <4>0. PICK lines \in Captions :
              /\ ex' = Recipe(RuleScore(lines), Ingredients(lines) # {} /\ Instructions(lines) # {}, FALSE)
              /\ pc' = IF Mode = "rule" \/ RuleScore(lines) >= Threshold THEN "judge" ELSE "llm"
        BY <3>3 DEF Rules
      <4> DEFINE c == RuleScore(lines)
                 w == Ingredients(lines) # {} /\ Instructions(lines) # {}
      <4>1. c \in 0..One /\ w \in BOOLEAN /\ (2 * c <= One \/ w)
        BY ScoreBoundaries
      <4>2. /\ ex' = [kind |-> "recipe", conf |-> c, whole |-> w, degraded |-> FALSE]
            /\ pc' = IF Mode = "rule" \/ c >= Threshold THEN "judge" ELSE "llm"
        BY <4>0 DEF Recipe
      <4> HIDE DEF c, w
      <4>3. ex' \in Extractions
        BY <3>1, <4>1, <4>2
      <4>4. ex'.conf = c /\ ex'.degraded = FALSE /\ (ex'.whole <=> w)
        BY <4>2
      <4> QED
        BY <3>2, <4>1, <4>2, <4>3, <4>4
    <3>4. CASE LLM
      <4>0. pc' = "judge" /\ pc = "llm" /\ ex \in Extractions /\ ex.conf \in 0..One /\ ex.whole \in BOOLEAN
        BY <3>4 DEF LLM, TypeOK, Extractions
      <4>1. ASSUME NEW a \in Answers, ~SaysNoRecipe(a),
                   ex' = Recipe(AnswerScore(a), a.listed > 0 /\ a.length > 0, FALSE)
            PROVE  ex' \in Extractions /\ ex'.degraded = FALSE /\ ex'.whole
        <5>1. AnswerScore(a) \in 0..One /\ a.listed > 0 /\ a.length > 0
          BY <3>2, <4>1, AnswerBoundaries
        <5> DEFINE c == AnswerScore(a)
        <5>2. ex' = [kind |-> "recipe", conf |-> c, whole |-> TRUE, degraded |-> FALSE]
          BY <4>1, <5>1 DEF Recipe
        <5>3. c \in 0..One
          BY <5>1
        <5> HIDE DEF c
        <5>4. ex' \in Extractions
          BY <3>1, <5>2, <5>3
        <5> QED
          BY <5>2, <5>4
      <4>2. ASSUME NEW k \in {"norecipe", "error"},
                   ex' = [kind |-> k, conf |-> 0, whole |-> FALSE, degraded |-> FALSE]
            PROVE  ex' \in Extractions /\ ex'.degraded = FALSE /\ ex'.conf = 0
        BY <3>1, <3>2, <4>2
      <4>3. ASSUME Mode = "hybrid", ex' = [ex EXCEPT !.degraded = TRUE]
            PROVE  /\ ex' \in Extractions /\ ex'.conf < Threshold
                   /\ 2 * ex'.conf > One => ex'.whole
        <5>1. ex' \in Extractions /\ ex'.conf = ex.conf /\ ex'.whole = ex.whole
          BY <4>0, <4>3 DEF Extractions
        <5> QED
          BY <4>0, <4>3, <5>1 DEF InHand
      <4>4. \/ \E a \in Answers : ~SaysNoRecipe(a)
                  /\ ex' = Recipe(AnswerScore(a), a.listed > 0 /\ a.length > 0, FALSE)
            \/ \E k \in {"norecipe", "error"} :
                  ex' = [kind |-> k, conf |-> 0, whole |-> FALSE, degraded |-> FALSE]
            \/ Mode = "hybrid" /\ ex' = [ex EXCEPT !.degraded = TRUE]
        BY <3>4 DEF LLM, NoRecipe
      <4>5. ex'.conf = 0 => ~(2 * ex'.conf > One)
        BY <3>2
      <4> QED
        BY <4>0, <4>1, <4>2, <4>3, <4>4, <4>5
    <3> QED
      BY <1>3, <3>3, <3>4
  <2>3. TypeOK'
    BY <2>1, <2>2 DEF TypeOK, db
  <2>4. TallyPartitions' /\ Reached' /\ EveryPostReached'
    BY <2>1 DEF TallyPartitions, Reached, EveryPostReached
  <2>5. Ahead' /\ InHand' /\ Reserved' /\ WeakIsReviewed' /\ NothingHalfPublished'
    BY <2>1, <2>2 DEF Ahead, InHand, Reserved, WeakIsReviewed, NothingHalfPublished, PublishAt
  <2>6. Counted'
    BY <2>1 DEF Counted, CommitsCounted
  <2> QED
    BY <2>3, <2>4, <2>5, <2>6
<1> QED
  BY <1>1, <1>2, <1>3

\* What Run does with the extraction, the insert and the commit.
LEMMA PostStep ==
    ASSUME PipeInv, Judge \/ Insert \/ Commit
    PROVE  PipeInv'
<1>1. CASE Judge
  <2>1. pc = "judge" /\ pc \in InPost /\ UNCHANGED <<cancelled, db, fetched, fetchErr, wrote>>
    BY <1>1 DEF Judge, InPost
  <2>2. CASE Continue({"noRecipe"})
    BY <2>1, <2>2, ContinueSettles, EndWithoutRow DEF Verdicts, db
  <2>3. CASE PostError
    BY <2>1, <2>3, ErrorHandled, EndWithoutRow DEF db
  <2>5. ex.conf \in Nat
    BY ThresholdAssumption DEF PipeInv, TypeOK, Extractions
  <2>4. CASE ex.conf > 0 /\ pc' = "insert" /\ UNCHANGED <<rest, ex, result, err, cut>>
    <3>1. pc' \in InPost /\ pc # "done"
      BY <2>1, <2>4 DEF InPost
    <3> QED
      BY <2>1, <2>4, <3>1 DEF PipeInv, TypeOK, db, TallyPartitions, Reached, EveryPostReached, Ahead,
                              InHand, Reserved, Counted, CommitsCounted, WeakIsReviewed, NothingHalfPublished, PublishAt
  <2> QED
    BY <1>1, <2>2, <2>3, <2>4, <2>5 DEF Judge, Junk
<1>2. CASE Insert
  <2>1. pc = "insert" /\ pc \in InPost /\ UNCHANGED <<cancelled, rows, fetched, fetchErr, wrote>>
    BY <1>2 DEF Insert, InPost
  <2>2. CASE Continue({"skipped"}) /\ UNCHANGED tx
    BY <2>1, <2>2, ContinueSettles, EndWithoutRow DEF Verdicts
  <2>3. CASE PostError /\ UNCHANGED tx
    BY <2>1, <2>3, ErrorHandled, EndWithoutRow
  <2>4. CASE /\ rows[post] = "none" /\ tx' = post /\ pc' = "commit"
             /\ UNCHANGED <<rest, ex, result, err, cut>>
    <3>1. pc' \in InPost /\ pc # "done"
      BY <2>1, <2>4 DEF InPost
    <3>2. post \in Posts /\ post' = post
      BY <2>1, <2>4 DEF PipeInv, TypeOK, post
    <3> QED
      BY <2>1, <2>4, <3>1, <3>2 DEF PipeInv, TypeOK, TallyPartitions, Reached, EveryPostReached, Ahead,
                                    InHand, Reserved, Counted, CommitsCounted, WeakIsReviewed, NothingHalfPublished, PublishAt
  <2> QED
    BY <1>2, <2>2, <2>3, <2>4 DEF Insert, Duplicate
<1>3. CASE Commit
  <2>1. pc = "commit" /\ pc \in InPost /\ tx' = None /\ UNCHANGED <<cancelled, fetched, fetchErr>>
    BY <1>3 DEF Commit, InPost
  <2>2. CASE Store /\ \E B \in {{"imported"}, {"imported", "degraded"}} : Continue(B)
    BY <2>1, <2>2, ContinueSettles, EndWithRow DEF Verdicts
  <2>3. CASE UNCHANGED <<rows, wrote>> /\ PostError
    BY <2>1, <2>3, ErrorHandled, EndWithoutRow
  <2>4. CASE Store /\ PostError
    BY <2>1, <2>4, ErrorHandled, EndWithRow
  <2>5. ASSUME NEW S \in {{}, {"degraded"}}
        PROVE  {"imported"} \cup S \in {{"imported"}, {"imported", "degraded"}}
    OBVIOUS
  <2> QED
    BY <1>3, <2>2, <2>3, <2>4, <2>5 DEF Commit
<1> QED
  BY <1>1, <1>2, <1>3

\* Neither a cancellation nor the API disturbs the invariant.
LEMMA OtherStep ==
    ASSUME PipeInv, Cancel \/ OtherWriter \/ UNCHANGED vars
    PROVE  PipeInv'
<1> USE DEF PipeInv
<1>1. /\ UNCHANGED <<pc, tx, fetched, fetchErr, rest, ex, result, err, wrote, cut>>
      /\ cancelled' \in BOOLEAN
  BY DEF Cancel, OtherWriter, vars, db, TypeOK
<1>2. rows' \in [Posts -> Status \cup {"none"}]
  BY DEF Cancel, OtherWriter, vars, db, TypeOK
<1>3. Reserved'
  <2>1. SUFFICES ASSUME pc = "commit" PROVE tx = post /\ rows'[post] = "none"
    BY <1>1 DEF Reserved, post
  <2>2. tx = post /\ rows[post] = "none"
    BY <2>1 DEF Reserved
  <2>3. CASE rows' = rows
    BY <2>2, <2>3
  <2>4. CASE OtherWriter
    <3>1. PICK p \in Posts, st \in Status \cup {"none"} :
            (rows[p] = "none" => p # tx) /\ rows' = [rows EXCEPT ![p] = st]
      BY <2>4 DEF OtherWriter
    <3>2. p # post /\ post \in Posts /\ rows \in [Posts -> Status \cup {"none"}]
      BY <2>1, <2>2, <3>1 DEF TypeOK, post, InPost
    <3> QED
      BY <2>2, <3>1, <3>2
  <2> QED
    BY <2>3, <2>4 DEF Cancel, vars, db
<1>4. TypeOK'
  BY <1>1, <1>2 DEF TypeOK
<1>5. /\ TallyPartitions' /\ Reached' /\ EveryPostReached' /\ Ahead' /\ InHand' /\ Counted'
      /\ WeakIsReviewed' /\ NothingHalfPublished'
  BY <1>1 DEF TallyPartitions, Reached, EveryPostReached, Ahead, InHand, Counted, CommitsCounted,
              WeakIsReviewed, NothingHalfPublished, PublishAt
<1> QED
  BY <1>3, <1>4, <1>5

\* The inductive invariant holds throughout every run.
THEOREM PipeCorrect == Spec => []PipeInv
<1>1. ASSUME PipeInv, [Next]_vars PROVE PipeInv'
  BY <1>1, LoopStep, PostStep, OtherStep DEF Next, Run
<1> QED
  BY <1>1, PipeInit, PTL DEF Spec

\* The tally partitions the posts seen, for any number of posts.
THEOREM TallyCorrect == Spec => []TallyPartitions
<1>1. PipeInv => TallyPartitions
  BY DEF PipeInv
<1> QED
  BY <1>1, PipeCorrect, PTL

\* Only a cancellation keeps a fetched post from its turn.
THEOREM ReachedCorrect == Spec => []EveryPostReached
<1>1. PipeInv => EveryPostReached
  BY DEF PipeInv
<1> QED
  BY <1>1, PipeCorrect, PTL

\* The rows a run committed are those of its tally.
THEOREM CommitsCorrect == Spec => []CommitsCounted
<1>1. PipeInv => CommitsCounted
  BY DEF PipeInv, Counted
<1> QED
  BY <1>1, PipeCorrect, PTL

\* With the publish threshold the stricter one, no degraded result is published.
THEOREM ReviewCorrect == Spec => []WeakIsReviewed
<1>1. PipeInv => WeakIsReviewed
  BY DEF PipeInv
<1> QED
  BY <1>1, PipeCorrect, PTL

\* With a publish threshold above one half, no recipe is published that has only
\* ingredients or only instructions, for any captions and any answers of the LLM.
THEOREM HalfCorrect == Spec => []NothingHalfPublished
<1>1. PipeInv => NothingHalfPublished
  BY DEF PipeInv
<1> QED
  BY <1>1, PipeCorrect, PTL

\* A run never changes or revives a row that is there.
THEOREM InsertOnly == Spec => RunOnlyInserts
<1>1. ASSUME PipeInv, [Next]_vars
      PROVE  [pc' # pc => \A p \in Posts : rows[p] # "none" => rows'[p] = rows[p]]_vars
  <2>1. CASE Commit
    <3>1. rows[post] = "none" /\ post \in Posts /\ rows \in [Posts -> Status \cup {"none"}]
      BY <1>1, <2>1 DEF Commit, PipeInv, Reserved, TypeOK, post, InPost
    <3>2. rows' = rows \/ rows' = [rows EXCEPT ![post] = ReviewStatus]
      BY <2>1 DEF Commit, Store
    <3> QED
      BY <3>1, <3>2
  <2>2. CASE Fetch \/ Top \/ Rules \/ LLM \/ Judge \/ Insert
    BY <2>2 DEF Fetch, Top, Rules, LLM, Judge, Insert, db
  <2>3. CASE Cancel \/ OtherWriter \/ UNCHANGED vars
    BY <2>3 DEF Cancel, OtherWriter, vars
  <2> QED
    BY <1>1, <2>1, <2>2, <2>3 DEF Next, Run
<1> QED
  BY <1>1, PipeCorrect, PTL DEF Spec, RunOnlyInserts

-----------------------------------------------------------------------------
(* That a run ends is a liveness property and left to TLC; what it rests on  *)
(* is proved here: every step of a run uses up one of boundedly many.        *)

\* The steps a post may still take, the current one included.
StepsInPost ==
    CASE pc = "rules" -> 5 [] pc = "llm" -> 4 [] pc = "judge" -> 3
      [] pc = "insert" -> 2 [] pc = "commit" -> 1

\* The steps the run may still take, at most.
StepsLeft ==
    CASE pc = "fetch"   -> 6 * MaxFetched + 2
      [] pc = "top"     -> 6 * Len(rest) + 1
      [] pc \in InPost  -> 6 * (Len(rest) - 1) + 1 + StepsInPost
      [] pc = "done"    -> 0

StepsBounded == StepsLeft \in Nat /\ (StepsLeft = 0 => pc = "done")

LEMMA StepsType == PipeInv => StepsBounded
<1> SUFFICES ASSUME PipeInv PROVE StepsBounded
  OBVIOUS
<1>1. /\ pc \in InPost \cup {"fetch", "top", "done"} /\ Len(rest) \in Nat /\ MaxFetched \in Nat
      /\ pc \in InPost => Len(rest) > 0
  BY PipelineAssumption DEF PipeInv, TypeOK
<1> QED
  BY <1>1 DEF StepsBounded, StepsLeft, StepsInPost, InPost

\* A post, once it is left, is behind the run.
LEMMA PostLeft ==
    ASSUME PipeInv, pc \in InPost, NEW B, Continue(B) \/ PostError
    PROVE  StepsLeft' < StepsLeft
<1>1. rest \in Seq(Posts) /\ Len(rest) \in Nat \ {0} /\ rest # << >>
  BY DEF PipeInv, TypeOK
<1>2. StepsLeft = 6 * (Len(rest) - 1) + 1 + StepsInPost /\ StepsInPost \in 1..5
  BY DEF StepsLeft, StepsInPost, InPost
<1>3. (pc' = "top" /\ rest' = Tail(rest)) \/ pc' = "done"
  BY DEF Continue, PostError, Interrupted, Return
<1>4. CASE pc' = "top" /\ rest' = Tail(rest)
  <2>1. Len(rest') = Len(rest) - 1
    BY <1>1, <1>4
  <2>2. StepsLeft' = 6 * Len(rest') + 1
    BY <1>4 DEF StepsLeft, InPost
  <2> QED
    BY <1>1, <1>2, <2>1, <2>2
<1>5. CASE pc' = "done"
  <2>1. StepsLeft' = 0
    BY <1>5 DEF StepsLeft, InPost
  <2> QED
    BY <1>1, <1>2, <2>1
<1> QED
  BY <1>3, <1>4, <1>5

\* Each step of the run lowers what is left.
LEMMA RunLowers == ASSUME PipeInv, Run PROVE StepsLeft' < StepsLeft
<1>1. /\ rest \in Seq(Posts) /\ Len(rest) \in Nat /\ MaxFetched \in Nat
      /\ pc \in InPost => Len(rest) > 0
  BY PipelineAssumption DEF PipeInv, TypeOK
<1>2. CASE Fetch
  <2>1. PICK n \in 0..MaxFetched : rest' \in [1..n -> Posts]
    BY <1>2 DEF Fetch
  <2>2. Len(rest') = n
    BY <1>1, <2>1
  <2>3. pc = "fetch" /\ pc' \in {"done", "top"}
    BY <1>2 DEF Fetch, Return
  <2> QED
    BY <1>1, <2>1, <2>2, <2>3 DEF StepsLeft, InPost
<1>3. CASE Top
  <2>1. /\ pc = "top" /\ rest' = rest
        /\ pc' = "done" \/ (pc' \in {"rules", "llm"} /\ rest # << >>)
    BY <1>3 DEF Top, Return
  <2> QED
    BY <1>1, <2>1 DEF StepsLeft, StepsInPost, InPost
<1>4. CASE Rules \/ LLM
  <2>1. rest' = rest /\ ((pc = "rules" /\ pc' \in {"judge", "llm"}) \/ (pc = "llm" /\ pc' = "judge"))
    BY <1>4 DEF Rules, LLM
  <2> QED
    BY <1>1, <2>1 DEF StepsLeft, StepsInPost, InPost
<1>5. CASE Judge \/ Insert \/ Commit
  <2>1. pc \in {"judge", "insert", "commit"}
    BY <1>5 DEF Judge, Insert, Commit
  <2>2. CASE PostError \/ \E B : Continue(B)
    BY <2>1, <2>2, PostLeft DEF InPost
  <2>3. CASE rest' = rest /\ ((pc = "judge" /\ pc' = "insert") \/ (pc = "insert" /\ pc' = "commit"))
    BY <1>1, <2>3 DEF StepsLeft, StepsInPost, InPost
  <2> QED
    BY <1>5, <2>2, <2>3 DEF Judge, Insert, Commit
<1> QED
  BY <1>2, <1>3, <1>4, <1>5 DEF Run

\* Run has no loop but the one over the posts fetched, and retries nothing:
\* whatever the extraction and the database answer, each step of a run uses one of
\* six for every post and two more up, nothing the API or a cancellation does gives
\* one back, and they are not used up before the run is done.
THEOREM RunBounded ==
    Spec => /\ []StepsBounded
            /\ [][IF Run THEN StepsLeft' < StepsLeft ELSE StepsLeft' = StepsLeft]_vars
<1>1. PipeInv => StepsBounded
  BY StepsType
<1>2. ASSUME PipeInv, [Next]_vars
      PROVE  [IF Run THEN StepsLeft' < StepsLeft ELSE StepsLeft' = StepsLeft]_vars
  <2>1. CASE Run
    BY <1>2, <2>1, RunLowers
  <2>2. CASE ~Run /\ (Cancel \/ OtherWriter)
    BY <2>2 DEF Cancel, OtherWriter, StepsLeft, StepsInPost
  <2> QED
    BY <1>2, <2>1, <2>2 DEF Next
<1> QED
  BY <1>1, <1>2, PipeCorrect, PTL DEF Spec
=============================================================================
