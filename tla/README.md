# A verification of recipe-reader

TLA+ models of [recipe-reader](../src/README.md), a Go server that imports the recipes among an
Instagram account's saved posts into Postgres and serves them. The models are translated from the
source; file and line references below and in `PROJECT.json` are to `src/`.

## The system

| Component | State | Operations | Talks to |
| --- | --- | --- | --- |
| `pipeline.Worker` (`internal/pipeline/worker.go`) | `running`, last run's result, time and error, `cooldownUntil`, a wait group | `Start` (ticker), `Trigger`, `RunOnce`, `Status`, `Cooldown`, `RecordFailure`, `Wait` | the pipeline; called by the HTTP handlers and `server.Run` |
| `pipeline.Pipeline` (`internal/pipeline/pipeline.go`) | one run's tally | `Run` | lock, fetcher, extractor, repository |
| `db.ImportLock` (`internal/db/lock.go`) | a Postgres session holding an advisory lock | `TryAcquire`, `close` | Postgres; shared by all processes |
| `server.Run`, `server.ImportOnce` (`internal/server`) | process life cycle: pool, worker, HTTP server | start, log in, serve, drain, stop | everything below them |
| `instagram.Client` (`internal/instagram/client.go`) | slot, session flag, time of the last login, credentials | `LoginOrRestore`, `do`, `run` | instago, an uninterruptible library |
| feed walk (`internal/instagram/saved.go`) | cursors followed, posts collected, items dropped | `pageMedia` | the client; the repository for `Known` |
| `PipelineFetcher` (`internal/instagram/fetcher_adapter.go`) | cached collection id and its age | `FetchNewPosts` | the walk |
| extraction (`internal/extraction`) | none | rules, LLM, hybrid | an LLM API |
| `RecipeRepository` (`internal/repository`) | the tables in Postgres | `Create`, `Update`, `Delete`, `GetByID`, `Search` | Postgres, one transaction per write |
| HTTP API (`internal/api`) | none | CRUD, lookups, import run and status; logging, recovery, CORS, token, JSON guard | repository, worker |
| database set-up (`internal/db`) | schema version, seed rows | `Open`, `Migrate`, `Seed` | Postgres |
| configuration (`internal/config`, `cmd`, `internal/cli`) | none | parse, validate | |
| frontend (`web/src`) | the page in view, a poll timer, the list's query | list, detail, import pages | the HTTP API |

What is hard in it: several goroutines and processes share one Instagram account and one database;
the remote answers anything, late or never; a call into instago cannot be interrupted; a commit's
answer can be lost; a run can be cancelled at every point; writes of recipes overlap in Postgres;
replies reach the page out of order; and the state that rations logins and waits out rate limits
lives in one process' memory. `PROJECT.json` lists these hazards with the line where each bites and
the properties that watch it.

What makes each part correct, in a sentence: runs of a worker never overlap and its status describes
the last of them; one import of all processes uses the account as long as lock sessions last; one walk of the feed collects no
post twice, loses none and always ends; the tally, the table and the review status of a run agree
whatever happens during it; a client never has two calls inside the library and rations its logins;
successive runs drain the backlog of the collection that has the configured name; recipes change one
at a time and as wholes, and a search shows each of them on one page; a recipe that lacks its list or
its method is not published unseen; a server closes its pool after the last user of it and does stop;
the import page's button comes back, the list asks for what its controls say, and a saved form leaves
what it does not show as it was.

## The modules

**`ImportWorker`** — who may use the Instagram account, and when. Any number of `serve` processes,
each with a worker, its schedule loop, goroutines of triggered runs and concurrent HTTP requests,
and any number of `import` commands, over one advisory lock. A goroutine's place in `RunOnce` and
`Pipeline.Run` is `pc[r]`; `Begin` is the first critical section of `RunOnce`, `Acquire` the lock,
`Work` the rest of the pipeline, `Record` and `Refused` the last critical section. `handleImportRun`
and `handleImportStatus` are two steps each, since each locks the worker twice. Processes die at any
step, and a lock session may be left behind (`Orphan`) until Postgres notices. It may also break under
its holder at any time, which nothing in the code notices: `lost` remembers whose did.

**`AccountGuard`** — what the lock promises, in three lines: at most one user of the account.
`ImportWorker` implements it, with `users` the actors that are between login and the end of their work
and whose lock session has not broken: a broken session is the one way a second import gets in.

**`SavedFeed`** — one walk of the feed (`pageMedia`). The remote is an adversary: each request may
fail, answer no feed page, or return any items with any cursor. The context may be cancelled and
other writers may store and delete recipes between any two steps.

**`ImportPipeline`** — one run: fetch, extract with rules and LLM, insert, commit, with a
cancellation at any point, other writers, and commits whose answer is lost. A post is a caption, and
what the extractors say of it is computed by `Extraction`.

**`Extraction`** — the two scores that decide whether a post is a recipe, is offered to the LLM, and is
published: `confidenceFor` over a caption, which is a sequence of kinds of lines put into sections by
the headers above them, and `structuralConfidence` with `parseToolInput` over the answer of a model.
Scores are integers `0..One`, each division rounded down; a method is as long as it has lines. (The
code measures it twice: `rules.go:228` says its 80 runes match "the LLM path's structural threshold",
which at `llm.go:193` is 80 bytes.) What comes after the score, `sanitizeName` and the category
vocabulary, is not in the model; it may still drop an ingredient whose name is empty once cleaned, so
`NothingHalfPublished` is about what was scored.

**`Backlog`** — successive runs over feeds that grow at their heads, with the configured name moving
between collections and the cached id of `PipelineFetcher` used, expired and forgotten. A run is
one step, put together from what `SavedFeed` collects and what `ImportPipeline` stores; between
the look-up of the id and its caching no time passes.

**`InstagramClient`** — the slot that admits one call into instago, the deadline after which a
caller gives up while its call goes on, the login floor and the single retry. Time is a countdown
and two ages that stop counting at the floor, so no clock has to be bounded. Of an answer to a
request there are three kinds: good, one that asks for a login, any other.

**`RecipeStore`** — `Create`, `Update` and `Delete` as Postgres transactions at READ COMMITTED. One
statement is one step and waits for the transactions that hold what it needs (`Blockers`): the row
lock of an update, the unique index for an insert of a source, uncommitted lookup rows, and rows
locked by `ON CONFLICT DO UPDATE` against the foreign keys of lines. What a transaction has written is
in `tx[c]` until `Commit`. Any statement may fail, a commit's answer may be lost, Postgres aborts a
member of a deadlock, and `Seed` runs beside the writes and stores names of its own (`Defaults`). A
reader's `GetByID` is three statements outside a transaction - the row, then in `assemble` the
ingredients and the categories - with any number of commits between them. A recipe's names are those of
its categories and of its ingredients, resolved in that order and attached in the other; a unit is
resolved like an ingredient's name and is not told apart from one. There is one recipe, `Old`, that calls
update and delete; the others are those that calls create.

**`RecipeShelf`** — what the repository promises: a set of recipes, each with the content of one
write; store, replace, remove; no two with one source. `RecipeStore` implements it, and a recipe
whose lines are not exactly those of the write its fields come from maps to no content at all.

**`RecipeSearch`** — the paging of `Search`, as operators: the clamps of page and size, the guard, and
the offset as an int32, so that a missing guard wraps round as it did in the code's past.

**`ListPage`** — the list page and `GET /api/recipes`: the search field with its delay, the category,
the pager, and requests that are counted, read, answered and received in any order while recipes are
written. `query`, `categoryId` and `page` are the closure variables of `list.ts`; `shown` is what the
page holds, with the filter it answers. Two requests for the same filter in one state are one.

**`DetailPage`** — the page of a recipe: the router with its one container, `renderForm`'s closure
(`form`), and GET, PUT and DELETE, served and received in any order beside other writers. A recipe is
what the form edits (`text`) and what it sends back verbatim (`rest`), which carries the recipe it
belongs to. The `hashchange` event is handled in the step that changes the address. The server reads a
recipe in one step here; what a `GET` may mix when a write commits in the middle of it is `RecipeStore`'s
`LinesNotOlder` and `ReadsOneWrite`.

**`ServerLifecycle`** — `server.Run` from its first step to its return: the steps of `db.Open`, the
worker's loop, the listener, handlers on connections, triggered runs, the signal, the shutdown
goroutine with its ten-second budget, `http.Server.Shutdown`, `Worker.Wait` and the closing of the
pool. `http.Server.Shutdown`'s closing of idle connections is one step. `call` is the goroutine that
`Client.run` starts for the startup login or for a request of an import: at its deadline, or when the
context is done, its caller goes on without it. That the slot admits one is `InstagramClient`'s. The
goroutine inside `Worker.Wait` lasts as long as those it counts and has no variable.

**`ImportPage`** — the import page: opened, left and clicked, its interval, and its requests, which are
served and received in any order; of the server the flag, the cooldown and the error with
`Classify` over the chains of sentinels that a run or a startup login leaves.

The `MC…` modules instantiate these for TLC (symmetry, lists of names); constants are assigned in the
`.cfg` files. Operators whose comment begins with "Mutant" are wrong versions of the definition
below them; they are not used by any specification and record which error each property detects.

## What TLC checks

| Run | What it asks | Bounds |
| --- | --- | --- |
| `import_worker` | `SingleFlight`, `NoContactWhileCooling`, `StatusIsLastRun`; `ImportWorker` implements `AccountGuard`; `RunEnds`, `LockComesFree` | one server with loop and one triggered run, one request at a time, two commands; lock sessions break |
| `feed_walk` | `NoPostTwice`, `NothingLost`, `EmptyMeansCaughtUp`, `WalkEnds` | three posts, pages of up to two items, three cursors, two posts or three pages a walk |
| `pipeline_hybrid` | `TallyPartitions`, `EveryPostReached`, `CommitsCounted`, `WeakIsReviewed`, `NothingHalfPublished` | two posts; six captions, from nothing through each section alone to a whole recipe without a name, and seven answers of the LLM; the publish threshold the stricter one |
| `backlog_drains` | `StaleBounded`, `Drains` | two recipes and a post without one, two collections, two posts a run, maximum age 2 |
| `client_calls` | `OneCallAtATime`, `BoundedEffort`, `LoginsRationed`, `DoEnds` | deadline 2, floor 5, the smallest with the code's proportions |
| `store_writes` | `AllOrNothing`, `DuplicateIsStored`, `KnownNamesNeverDeadlock`, `LinesNotOlder`, `EveryCallEnds`; `RecipeStore` implements `RecipeShelf` | two calls of any kind, two sources; lists of two ingredients, or of a category and the two the other way round; one of them also a default that a seeding server stores; a reader |
| `list_page` | `OnOnePage`, `ShownWasAsked`, `SearchEnds` | two recipes, pages of one, a text and a category that match some of them, two requests in flight; integers up to 2, so that an offset wraps within the pages asked for |
| `detail_page` | `UntouchedKept`, `WaitingEnds` | two recipes, two values each of what is edited and of what is not, two requests in flight |
| `server_stops` | `PoolOutlivesUse`, `ReturnMeansStopped`, `WaitIsFinal`, `StopsWhenTold` | two connections, two triggered runs and the schedule, one call into instago |
| `import_page` | `NeverStuck`, `CooldownIsExplained`, `PollerStops`, `ButtonComesBack` | two requests in flight, one triggered goroutine that has not begun |

The bounds are the smallest in which each hazard happens: two actors for every race, a third where a
refusal could disturb two others; more items than a walk may take and fewer; a cycle of two cursors;
a post before, at and after the one a cancellation cuts off; deadlines and floors that expire in
every order; two names for a deadlock, and a third party (`Seed`) that makes one of them appear. The
proofs below then remove the bounds for most safety properties. `MaxTime` and `CooldownTicks` of
`ImportWorker` bound its clock, `MaxPending` of `ImportPage` the goroutines that have not begun,
`MaxLoads` of `ListPage` and `MaxCalls` of `DetailPage` the requests in flight (two are enough for one
to overtake the other); `Captions` and `Answers` are the inputs enumerated, `MaxPage` the pages, past the
one where an unguarded offset would come round to the first; ages in
`Backlog` and `InstagramClient` stop counting where the code stops telling them apart.

`CHECK_DEADLOCK FALSE` is set where the system really stops: a walk, a run, a set of calls made
once, a server that has returned.

**Fairness.** `ImportWorker`: the steps of a goroutine or command that is running, and Postgres'
clean-up of dead sessions, are weakly fair — goroutines are scheduled, every Instagram and LLM call has
a deadline of its own, and Postgres is assumed to answer. The ticker, requests, starts and deaths are
not fair. `SavedFeed`: the walk's own steps. `InstagramClient`: time and timers only; nothing makes
instago answer. `Backlog`: time passes, the schedule keeps making runs, and a post tried again and
again does not fail every time (strong fairness of a run over the named collection that imports it).
`RecipeStore`: a statement that need not wait runs, and Postgres looks for deadlocks; nobody has to
start a call. `ServerLifecycle`: `Run`, whose wait for the startup login ends with the client's deadline,
the shutdown goroutine, its timer and single statements; handlers, clients, imports and abandoned calls
may take for ever. `ImportPage`: the interval fires, and requests are
served and received. `ListPage` and `DetailPage`: requests are answered, if only by the browser giving up;
the delay of the search is strongly fair, because the bound on requests holds it back while two are in
flight, which in the browser nothing does.

### Where the code and its documents part

Two runs check one sentence of the repository each and TLC finds a behaviour that breaks it;
`PROJECT.json` has the quotations.

| Run | What happens |
| --- | --- |
| `schema_drift` | one unreadable item among imported posts makes every run fail as schema drift |
| `backlog_noise` | as many posts without a recipe as `IMPORT_MAX_ITEMS` fill every run, and what is behind them is never reached |

Other sentences that do not hold are stated as properties at the end of their modules, so that the
question can be put to TLC with the run's configuration, but are not among the runs:
`AcceptedIsNotSkipped` (a run answered `202` can be skipped for a cooldown recorded in between),
`CooldownReplyNamesATime` (a status reply can name year 1 as the end of a cooldown),
`CooldownIsOfLastRun` (`CooldownUntil` outlives the run that was limited), `OneLoginAtATime` (a server
logs in at startup while an import command holds the lock and logs in), `NoSecondImport` (a run whose
lock session breaks goes on beside a second one),
`InterruptedNotStored` (a post cut off during its commit is counted nowhere and stored),
`OnePublishesNothing` (threshold 1 publishes what scores exactly 1), `DegradedIsReviewed` (with the
thresholds the other way round a failed LLM call publishes what the rules found), `SessionFlagTrue` (a
login abandoned, or not saved, leaves a session the client denies) and `FullFloor` (a login that had to
wait for the slot is followed by the next one too early), `CancelledMeansStopped` (a fetch that times out
is reported as `cancelled`, the code of a run that was stopped, because `Classify` looks for a deadline
before `ErrFetch`), `LastAnswerIsShown` (an older answer that arrives last stays on the list under the
newer query), `PageWasOffered` (a list may stand on a page past the last), `AddressIsShown` (a late reply
draws its form over the page the user has gone on to), `DeletingEnds` (a recipe deleted from such a form
under the list's own address leaves the page at "Lösche…"), `CurrentIsStored` (of two saves the reply
to the first may come last) and `EditsSurviveSave` (what is typed into the ingredients while a save is
under way is replaced by the reply), `ReadsOneWrite` (a recipe read while it is updated may have one
write's fields, another's ingredients and a third's categories: no sentence promises otherwise, but a reader
might expect it), and `NothingLeftRunning` (`server.go:30` says that nothing of `Run`'s is running once it
has returned but an import its budget abandoned; a call into instago that `Client.run` stopped waiting for
still is, with the budget unspent, even after a startup that failed, and an exhausted budget leaves handlers
as well).

## What is proved

TLAPS checks these for every value of the constants, from the `ASSUME`s in the modules (actors are
distinct; limits are positive as `config` validates them; thresholds are in `0..One`; the floor is
longer than two deadlines; ids, markers and records differ; the names by which a list is sorted are
numbers, and no more recipes are stored than an `int32` counts). Each component has an inductive
invariant, one lemma per action or group of like actions, and the properties as consequences.
The type correctness of every component and every safety property that a run checks are proved. The
other invariants proved here that no run lists (`OneImportAtATime`, `NoPageTwice`, `WithinLimits`,
`OneInterval`, `RunOnlyInserts`, `PagerIsExact`) are those the listed ones follow from or imply.

What is live is not proved, but what makes it so is, where it needs no fairness: a number that bounds
the steps left, which each step of the component lowers and nothing around it raises (`WalkBounded`,
`RunBounded`, `TimeBounded`, `WriteBounded`, `StopBounded`), that something is always left to do
(`WaitsEnd`, `StopBounded`), that nobody keeps what he has to give back (`LockReturned`), and that a
run gets on with the backlog (`RecipeReached`). Fairness then says that the steps are taken.

* `ImportWorkerProofs` — `TypeCorrect`, `SingleFlightCorrect`, `CooldownCorrect`, `StatusCorrect`,
  `ExclusionCorrect` and `GuardRefinement`. `SingleFlight` is not
  inductive by itself: that the flag is up exactly while one goroutine is in a run needs a witness
  for "some goroutine is", which every action has to keep; the cooldown follows from it, because
  only the run in flight can record a limit. Exclusion needs that an actor in the account, or past it
  and not yet released, holds the lock, whose holder is unique, unless its session has broken.
  `LockReturned` is the converse: a lock that is taken is that of an actor on its way from taking it to
  giving it back, or of a session left behind, so that no path out of a run forgets it.
* `SavedFeedProofs` — all of the walk's safety properties. `NoPageTwice` needs that every cursor
  asked for is the empty one or was followed; `NothingLost` that the items not yet looked at are in
  `rest`, also when the walk is cut short. `WalkBounded`: `PageSize` + 3 steps for each of `MaxPages`
  pages and two more, whatever cursors the remote invents.
* `ImportPipelineProofs` — the invariant ties `fetched`, `rest` and `seen` by length, says what an
  extraction at each stage can be (in particular that it is degraded only when the rules were below
  the threshold) and counts `wrote` against the tally. `ScoreBoundaries` and `AnswerBoundaries` are about
  the scores, for captions and answers of any size: the boundaries that the comment on `confidenceFor`
  promises its callers, and that an LLM's answer counts only with both sections. `HalfCorrect` puts
  them together with the path of a post through `Judge` and `Store`: with a publish threshold above a
  half, what is published had both. `RunBounded`: six steps for each post and two more.
* `InstagramClientProofs` — the slot is taken exactly while one call is inside; the stamp of the
  last login is at most one deadline older than the login; and a login made as the first step of a
  request is too young, at most two deadlines, for a second one. That is why the floor has to be
  longer than two deadlines. `TimeBounded`: the caller is back after three deadlines at most - the
  call, the login, the call again - however long an abandoned call keeps the slot.
* `RecipeStoreProofs` — `AtomicCorrect` and `ShelfCorrect`, the refinement of `RecipeShelf`. `StoreInv`
  says what each open transaction has written by its place in the code (`TxInv`: the lines it will
  delete are exactly those the recipe has, the lines it will add are its list up to where it is),
  that what is committed is whole and of writes that have ended (`Stored`), and what the locks keep
  apart (`Locks`): one transaction at most has `Old`, and no transaction inserts a source that is
  stored or that another one inserts. The lines a transaction means to delete stay the recipe's
  lines because nobody else can commit to a row it has locked: that is where the order "row first,
  then lines" of `Update` is needed. A commit is then `Store` or `Replace`, a delete that found the
  row is `Remove`, and every other step leaves the shelf alone.
  `DuplicateCorrect` adds that a committed recipe leaves the table only by a delete that landed, so that
  what a refused insert collided with is there or was deleted. `ReadCorrect` adds that every write of
  `Old` lands once and keeps its place in the order of landing, and that what is stored is what the last of
  them left: each statement of a `GetByID` then returns rows of one write, no older than what the statement
  before it returned. `DeadlockNeedsNewName`: a name that a call inserts, or has locked by `DO UPDATE`, was not there
  at first (`NewNames`). If no call of a circle names such a one, each of them waits at its first
  statement, for a recipe row or a source; but whoever holds that is past its first statement, so there
  is no circle.
  `WaitsEnd` and `WriteBounded` are the safety half of `EveryCallEnds`: a call waits only for one whose
  transaction is open, if all wait Postgres has a deadlock to end, and a write of n names is 3n + 3
  statements at most.
* `ServerLifecycleProofs` — `PoolCorrect`, `ReturnCorrect`, `WaitCorrect`. The invariant follows the
  path through `Run`: which of the pool, the listener and the shutdown goroutine exist at each of
  its steps, what the shutdown goroutine has already waited for at each of its own, and that a call which
  is waited for has somebody to wait for it - so that without `Run` and the runs only an abandoned one is
  left. `StopBounded`: these are fourteen steps at most, and in a process told to stop one of them, or the end of a statement,
  is always next.
* `BacklogProofs` — `StaleCorrect`: a cached id was that of the named collection when its age began.
  `RecipeReached` and `PinnedForever` are the two sides of the README's "Importing a backlog", for any
  feed and cap: with fewer than `MaxItems` new posts without a recipe on the pages walked, a run has a
  new recipe among the posts it collects if there is one; with that many in front of a recipe, or that many pages, no later run takes
  it, which is the finding of `backlog_noise` in general. The model has no unsaving of posts, which
  would bring it nearer. Both compare positions in a feed: a window is the new posts with fewer than
  `MaxItems` new ones before them, and the first of them is the least of a set of numbers.
* `FrontendProofs` — the three pages, which name their variables and constants apart so that one module
  can speak of all of them.
  `PageIsExact` is about `RecipeSearch`: a match is on the page of its rank and no other, for every page
  and size, whatever the width of the offset. `OnOnePageCorrect` and `PagerCorrect` add that the ranks
  of n matches are 1 to n, each once, since the order of the list is total: the pages the pager offers
  share the matches out, none left over. `ShownCorrect` is inductive
  as it stands, with the types of the requests; it says nothing of a reply to an older request, which
  the page draws as well (`LastAnswerIsShown` above).
  `UntouchedCorrect` needs the same statement of the form on the page and of every request body on its
  way - what they hold of the fields not shown is the recipe's whose id they carry - and that a reply
  which a form waits for finds that form.
  `ButtonCorrect`, `IntervalCorrect`, `CooldownExplained`: `NeverStuck` is inductive together with
  `OneInterval`, for a page that loses hold of no interval can always tell whether one is running. The
  cooldown needs that only the last run can have been limited, that no run begins while it lasts, and
  what `Classify` makes of every chain with the rate limit in it.

Only model-checked: liveness (`RunEnds`, `LockComesFree`, `WalkEnds`, `Drains`, `DoEnds`,
`EveryCallEnds`, `StopsWhenTold`, `PollerStops`, `ButtonComesBack`, `SearchEnds`, `WaitingEnds`): the
prover knows no `ENABLED`, so it cannot combine the bounds above with fairness. The recursion in the
models is over finite sets and sequences and is reasoned about by counting and least elements, since
the library's induction theorems cannot be used; what `Extraction` computes for every caption
is proved at its boundaries only.

## What is not modelled, and the plan

In this order:

1. `ImportWorker` composed with `InstagramClient`: an abandoned call outlives the lock of its run, so
   that a second process may log in beside it.
2. Cleaning — `sanitizeName`, the category vocabulary, units — as functions against reference
   definitions, and the words that make a line an ingredient.
3. The router over all three pages, with the prompt for the token that a 401 raises.
4. `Open`, migrations and seeding by several processes at once.

Left out for good: the CLI, logging, the health check, the embedded frontend's file server, sqlc's
generated code beyond the statements `RecipeStore` is made of, and the LLM transports, which keep no
state the properties could be about.
