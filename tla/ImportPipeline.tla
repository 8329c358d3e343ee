--------------------------- MODULE ImportPipeline ---------------------------
(***************************************************************************)
(* Pipeline.Run (internal/pipeline/pipeline.go) from the fetch to the end: *)
(* one run takes the posts the fetcher found through extraction            *)
(* (internal/extraction/hybrid.go) and RecipeRepository.Create, while the  *)
(* API changes the recipe table and the run's context may be cancelled.    *)
(* Captions and answers of the LLM are those of Extraction.                *)
(***************************************************************************)
EXTENDS Extraction, Functions

CONSTANTS
    Posts,             \* saved posts, by source
    None,              \* no post
    Mode,              \* EXTRACTION_MODE; "rule" also stands for hybrid without a key
    Threshold,         \* EXTRACTION_CONFIDENCE_THRESHOLD
    PublishThreshold,  \* EXTRACTION_PUBLISH_THRESHOLD
    MaxFetched         \* bound: posts one fetch hands over

ASSUME PipelineAssumption == None \notin Posts /\ MaxFetched \in Nat

\* Extraction.Validate: both thresholds are inside 0..1, in any order.
ASSUME ThresholdAssumption ==
    /\ Mode \in {"rule", "llm", "hybrid"}
    /\ Threshold \in 0..One /\ PublishThreshold \in 0..One

VARIABLES
    pc,         \* where Run is
    cancelled,  \* is the context done?
    rows,       \* rows[p]: status of the recipe with source p, or "none"
    tx,         \* the source an open transaction of Run has inserted
    fetched,    \* what FetchNewPosts returned
    fetchErr,   \* and its error
    rest,       \* posts the loop has not finished; Head(rest) is `post`
    ex,         \* `extracted`, or why there is none
    result,     \* the tally
    err,        \* the error Run returns
    wrote,      \* history: the recipes this run committed
    cut         \* history: the post a cancellation cut off

db   == <<rows, tx>>
vars == <<pc, cancelled, db, fetched, fetchErr, rest, ex, result, err, wrote, cut>>

Status  == {"published", "needs_review"}
InPost  == {"rules", "llm", "judge", "insert", "commit"}
NoRecipe(k) == [kind |-> k, conf |-> 0, whole |-> FALSE, degraded |-> FALSE]
NoEx    == NoRecipe("none")

\* A recipe found: its score, whether it has both ingredients and instructions,
\* and whether it is what the rules found because the LLM failed.
Recipe(c, w, d) == [kind |-> "recipe", conf |-> c, whole |-> w, degraded |-> d]
Extractions == [kind: {"none", "recipe", "norecipe", "error"}, conf: 0..One,
                whole: BOOLEAN, degraded: BOOLEAN]
Stored  == [post: Posts, status: Status, conf: 0..One, whole: BOOLEAN, degraded: BOOLEAN]
Zero == [seen |-> 0, imported |-> 0, skipped |-> 0, noRecipe |-> 0, failed |-> 0, degraded |-> 0]

TypeOK ==
    /\ pc \in InPost \cup {"fetch", "top", "done"}
    /\ cancelled \in BOOLEAN
    /\ rows \in [Posts -> Status \cup {"none"}]
    /\ tx \in Posts \cup {None}
    /\ fetched \in Seq(Posts)
    /\ fetchErr \in {"none", "limited", "other"}
    /\ rest \in Seq(Posts)
    /\ pc \in InPost => rest # << >>
    /\ ex \in Extractions
    /\ result \in [{"seen", "imported", "skipped", "noRecipe", "failed", "degraded"} -> Nat]
    /\ err \in {"none", "limited", "other", "ctx"}
    /\ wrote \subseteq Stored
    /\ cut \in Posts \cup {None}

Init ==
    /\ pc = "fetch"
    /\ cancelled = FALSE
    /\ rows \in [Posts -> Status \cup {"none"}]
    /\ tx = None
    /\ fetched = << >>
    /\ fetchErr = "none"
    /\ rest = << >>
    /\ ex = NoEx
    /\ result = Zero
    /\ err = "none"
    /\ wrote = {}
    /\ cut = None

-----------------------------------------------------------------------------
(* The environment. *)

Cancel ==
    /\ ~cancelled
    /\ cancelled' = TRUE
    /\ UNCHANGED <<pc, db, fetched, fetchErr, rest, ex, result, err, wrote, cut>>

\* The API creates, edits or deletes a recipe.  An insert of the source that an
\* open transaction has inserted waits for that transaction: the unique index.
OtherWriter ==
    /\ \E p \in Posts, st \in Status \cup {"none"} :
          /\ rows[p] # st
          /\ rows[p] = "none" => p # tx
          /\ rows' = [rows EXCEPT ![p] = st]
    /\ UNCHANGED <<pc, cancelled, tx, fetched, fetchErr, rest, ex, result, err, wrote, cut>>

-----------------------------------------------------------------------------
(* The run. *)

post == Head(rest)

\* One more in the named buckets of the tally.
Count(buckets) == [b \in DOMAIN result |-> IF b \in buckets THEN result[b] + 1 ELSE result[b]]

\* `continue`: the loop goes on with the next post.
Continue(buckets) ==
    /\ result' = Count(buckets)
    /\ pc' = "top"
    /\ rest' = Tail(rest)
    /\ ex' = NoEx
    /\ UNCHANGED <<err, cut>>

Return(e) == pc' = "done" /\ err' = e

\* Mutant: the post stays in Seen.
Interrupted_KeepsSeen == cut' = post /\ Return("ctx") /\ UNCHANGED <<rest, ex, result>>

\* interrupted: the post cut off leaves Seen again.
Interrupted ==
    /\ result' = [result EXCEPT !.seen = @ - 1]
    /\ cut' = post
    /\ Return("ctx")
    /\ UNCHANGED <<rest, ex>>

\* Mutant: the error is taken for a duplicate.
PostError_Skips == IF cancelled THEN Interrupted ELSE Continue({"skipped"})

\* An error on one post: the run ends when its context is done, and otherwise
\* counts the post as failed.
PostError == IF cancelled THEN Interrupted ELSE Continue({"failed"})

\* Mutant: an error ends the run, whatever came with it.
NothingFetched_OnError(posts, e) == e # "none"

\* The fetch failed and brought nothing.
NothingFetched(posts, e) == e # "none" /\ posts = << >>

\* FetchNewPosts: the posts of one walk, no post twice, with or without an
\* error.  An error and no posts is the run's end.
Fetch ==
    /\ pc = "fetch"
    /\ \E n \in 0..MaxFetched : \E posts \in [1..n -> Posts], e \in {"none", "limited", "other"} :
          /\ IsInjective(posts)
          /\ fetched' = posts
          /\ rest' = posts
          /\ fetchErr' = e
          /\ IF NothingFetched(posts, e) THEN Return(e) ELSE pc' = "top" /\ UNCHANGED err
    /\ UNCHANGED <<cancelled, db, ex, result, wrote, cut>>

\* The head of the loop and, when no post is left, the end of the run.
Top ==
    /\ pc = "top"
    /\ \/ /\ rest = << >>
          /\ Return(fetchErr)
          /\ UNCHANGED result
       \/ /\ rest # << >>
          /\ cancelled
          /\ Return("ctx")
          /\ UNCHANGED result
       \/ /\ rest # << >>
          /\ ~cancelled
          /\ result' = Count({"seen"})
          /\ pc' = IF Mode = "llm" THEN "llm" ELSE "rules"
          /\ UNCHANGED err
    /\ UNCHANGED <<cancelled, db, fetched, fetchErr, rest, ex, wrote, cut>>

\* HybridExtractor.Extract, first half: the rules, good enough or all there is.
Rules ==
    /\ pc = "rules"
    /\ \E lines \in Captions :
          LET c == RuleScore(lines) IN
          /\ ex' = Recipe(c, Ingredients(lines) # {} /\ Instructions(lines) # {}, FALSE)
          /\ pc' = IF Mode = "rule" \/ c >= Threshold THEN "judge" ELSE "llm"
    /\ UNCHANGED <<cancelled, db, fetched, fetchErr, rest, result, err, wrote, cut>>

\* The LLM call and what Extract makes of it: a recipe, no recipe, or an error;
\* hybrid then falls back to the rules' result unless the caller has gone.
LLM ==
    /\ pc = "llm"
    /\ pc' = "judge"
    /\ \/ \E a \in Answers :
             ex' = IF SaysNoRecipe(a) THEN NoRecipe("norecipe")
                   ELSE Recipe(AnswerScore(a), a.listed > 0 /\ a.length > 0, FALSE)
       \/ ex' = IF Mode = "hybrid" /\ ~cancelled
                THEN [ex EXCEPT !.degraded = TRUE]
                ELSE NoRecipe("error")
    /\ UNCHANGED <<cancelled, db, fetched, fetchErr, rest, result, err, wrote, cut>>

\* Mutant: whatever the rules scraped is a recipe.
Junk_Ignored == FALSE

\* An extraction that scored nothing.
Junk == ex.conf <= 0

\* What Run does with the extraction.
Judge ==
    /\ pc = "judge"
    /\ \/ /\ ex.kind = "norecipe"
          /\ Continue({"noRecipe"})
       \/ /\ ex.kind = "error"
          /\ PostError
       \/ /\ ex.kind = "recipe" /\ Junk
          /\ Continue({"noRecipe"})
       \/ /\ ex.kind = "recipe" /\ ~Junk
          /\ pc' = "insert"
          /\ UNCHANGED <<rest, ex, result, err, cut>>
    /\ UNCHANGED <<cancelled, db, fetched, fetchErr, wrote>>

\* The insert finds the source in the table.
Duplicate == rows[post] # "none"

\* Create up to its commit: the insert is the dedupe (ON CONFLICT DO NOTHING);
\* an error anywhere rolls back.
Insert ==
    /\ pc = "insert"
    /\ \/ /\ Duplicate
          /\ Continue({"skipped"})
          /\ UNCHANGED tx
       \/ /\ PostError
          /\ UNCHANGED tx
       \/ /\ ~Duplicate
          /\ tx' = post
          /\ pc' = "commit"
          /\ UNCHANGED <<rest, ex, result, err, cut>>
    /\ UNCHANGED <<cancelled, rows, fetched, fetchErr, wrote>>

\* publishThreshold: zero falls back to Threshold.
PublishAt == IF PublishThreshold > 0 THEN PublishThreshold ELSE Threshold

\* toRecipe's status.
ReviewStatus == IF ex.conf < PublishAt THEN "needs_review" ELSE "published"

\* Postgres makes the row durable.
Store ==
    /\ rows' = [rows EXCEPT ![post] = ReviewStatus]
    /\ wrote' = wrote \cup {[post |-> post, status |-> ReviewStatus,
                             conf |-> ex.conf, whole |-> ex.whole,
                             degraded |-> ex.degraded]}

\* Create's commit: done, failed, or done with the answer lost on the way back.
Commit ==
    /\ pc = "commit"
    /\ tx' = None
    /\ \/ /\ Store
          /\ Continue({"imported"} \cup (IF ex.degraded THEN {"degraded"} ELSE {}))
       \/ /\ UNCHANGED <<rows, wrote>>
          /\ PostError
       \/ /\ Store
          /\ PostError
    /\ UNCHANGED <<cancelled, fetched, fetchErr>>

Run == Fetch \/ Top \/ Rules \/ LLM \/ Judge \/ Insert \/ Commit

Next == Run \/ Cancel \/ OtherWriter

Spec == Init /\ [][Next]_vars

-----------------------------------------------------------------------------
(* What is to hold. *)

\* ImportResult: Imported, Skipped, NoRecipe and Failed partition Seen, also
\* after a cancellation took the post in hand out of it; Degraded is a part of
\* Imported.
TallyPartitions ==
    LET r == result IN
    /\ r.imported + r.skipped + r.noRecipe + r.failed = r.seen - (IF pc \in InPost THEN 1 ELSE 0)
    /\ r.degraded <= r.imported

\* Run: "those posts are imported before the error is returned".  Only a
\* cancellation leaves a fetched post without its turn, also on a rate limit.
EveryPostReached == pc = "done" /\ err # "ctx" => result.seen = Len(fetched)

\* The tally and the table: the run committed one recipe for every post it counts
\* as imported, and beyond those only for posts it counts as failed, or was cut
\* off at, because the commit was not acknowledged.
CommitsCounted ==
    /\ result.imported <= Cardinality(wrote)
    /\ Cardinality(wrote) <= result.imported + result.failed + (IF cut = None THEN 0 ELSE 1)

\* toRecipe and HybridExtractor.Extract, two components with a threshold each:
\* nothing is stored that scored zero, and as long as the publish threshold is
\* the stricter one, what the rules produced because the LLM failed is stored
\* for review, never published.
WeakIsReviewed ==
    \A w \in wrote :
        /\ w.conf > 0
        /\ w.degraded /\ Threshold <= PublishAt => w.status = "needs_review"

\* rules.go on its score: "one section alone still cannot exceed 0.5", and
\* llm.go on its own: "a rich result cannot talk an uncertain model up".  With a
\* publish threshold above one half nothing is published on the strength of
\* ingredients or instructions alone, whichever extractor found it and however
\* sure the model says it is.
NothingHalfPublished ==
    2 * PublishAt > One => \A w \in wrote : w.status = "published" => w.whole

\* "The insert is also the dedupe": no step of a run changes or revives a row
\* that is there, whatever the API did between the fetch, the insert and the commit.
RunOnlyInserts ==
    [][pc' # pc => \A p \in Posts : rows[p] # "none" => rows'[p] = rows[p]]_vars

-----------------------------------------------------------------------------
(* What the repository says and the code does not keep; the findings. *)

\* interrupted's comment: the next run sees the post again, "because nothing
\* was stored".
InterruptedNotStored == \A w \in wrote : w.post # cut

\* README on the publish threshold: 1 means "publish nothing unreviewed".
OnePublishesNothing ==
    PublishThreshold = One => \A w \in wrote : w.status = "needs_review"

\* HybridExtractor.Extract's comment: when the LLM call fails, "the pipeline
\* flags the weak result as needs_review".
DegradedIsReviewed == \A w \in wrote : w.degraded => w.status = "needs_review"
=============================================================================
