----------------------------- MODULE RecipeStore -----------------------------
(***************************************************************************)
(* RecipeRepository (internal/repository/recipe_repository.go) over        *)
(* Postgres: calls of Create, Update and Delete from the API and from      *)
(* imports, each one transaction at READ COMMITTED, and GetByID, which is  *)
(* three statements without one.  A statement is one step, and waits while *)
(* another transaction holds what it needs.  Categories, ingredients and   *)
(* units are looked up and attached alike: a name stands for any of them,  *)
(* a unit counting as an ingredient.                                       *)
(***************************************************************************)
EXTENDS Naturals, Sequences, Functions

CONSTANTS
    Calls,     \* calls of Create, Update and Delete, each made once
    Old,       \* the recipe that may be there beforehand, and what wrote it
    Sources,   \* values of recipes.source
    OldSource, \* the one Old has
    Names,     \* names of categories, ingredients and units
    Defaults,  \* the ones db.Seed stores: some units and categories
    Seed,      \* db.Seed, run by a server that starts meanwhile
    Lists,     \* the lists of categories and of ingredients recipes are written with
    None       \* no row

Ids == Calls \cup {Old}  \* the id a Create draws is called after it

ASSUME ValueAssumption ==
    /\ Old \notin Calls
    /\ Seed \notin Ids
    /\ None \notin Ids \cup {Seed} \cup [source : Sources, by : Ids]
    /\ OldSource \in Sources

\* The order in which resolveLookups comes to a request's names, and the one in
\* which writeAssociations does.
Resolved(q) == q.names.categories \o q.names.ingredients
Attached(q) == q.names.ingredients \o q.names.categories

\* A name listed twice is found the second time, so lists without repetition do.
\* A category and an ingredient are rows of different tables.
ASSUME ListAssumption ==
    /\ Lists \subseteq [categories : Seq(Names), ingredients : Seq(Names)]
    /\ \A l \in Lists : IsInjective(l.categories) /\ IsInjective(l.ingredients)
    /\ \A l, m \in Lists : Range(l.categories) \cap Range(m.ingredients) = {}

Requests ==
    [op : {"create"}, source : Sources, names : Lists]
        \cup [op : {"update"}, names : Lists] \cup [op : {"delete"}]

VARIABLES
    recipes,  \* committed rows of recipes: source, and whose fields it has
    lines,    \* committed rows of recipe_ingredients and recipe_categories
    lookup,   \* committed lookup rows: lookup[n] is the write that made n's
    pc,       \* pc[c]: where call c is
    req,      \* req[c]: what it was called with
    next,     \* next[c]: the entry of its lists it has come to
    tx,       \* tx[c]: what its open transaction has written and locked
    result,   \* result[c]: what it answered
    landed,   \* history: the calls Postgres committed, in that order
    read      \* one GetByID: whose fields, and which lines of either kind

db   == <<recipes, lines, lookup>>
vars == <<db, pc, req, next, tx, result, landed, read>>

\* The k-th line write c gives recipe i, and the lines i has.
Line(i, c, k) == [recipe |-> i, by |-> c, pos |-> k - 1]
LinesOf(i) == {l \in lines : l.recipe = i}

\* What a transaction has done: the recipe row written, the lookup rows
\* inserted, locked by DO UPDATE and referenced, the lines deleted and added.
NoTx == [row |-> None, mine |-> {}, held |-> {}, shared |-> {}, gone |-> {}, added |-> {}]

\* How many lines a recipe has whose content write b is, and how many of them
\* are ingredients: Old has one ingredient and one category, named as nobody
\* else names one.
Length(b) == IF b = Old THEN 2 ELSE Len(Resolved(req[b]))
Ingredients(b) == IF b = Old THEN 1 ELSE Len(req[b].names.ingredients)

\* Of the lines S, those in recipe_ingredients, and those in recipe_categories.
IngredientsIn(S) == {l \in S : l.pos < Ingredients(l.by)}
CategoriesIn(S) == {l \in S : l.pos >= Ingredients(l.by)}

Results == {"none", "ok", "duplicate", "notfound", "failed"}
AllLines == [recipe : Ids, by : Ids, pos : Nat]

TypeOK ==
    /\ recipes \in [Ids -> [source : Sources, by : Ids] \cup {None}]
    /\ lines \subseteq AllLines /\ \A l \in lines : l.pos < Length(l.by)
    /\ lookup \in [Names -> Ids \cup {Seed, None}]
    /\ pc \in [Calls -> {"idle", "write", "find", "insert", "lines", "done"}]
    /\ req \in [Calls -> Requests \cup {None}]
    /\ \A c \in Calls : pc[c] # "idle" => req[c] \in Requests
    /\ next \in [Calls -> Nat \ {0}]
    /\ tx \in [Calls -> [row : Ids \cup {None}, mine : SUBSET Names, held : SUBSET Names,
                         shared : SUBSET Names, gone : SUBSET AllLines, added : SUBSET AllLines]]
    /\ result \in [Calls -> Results]
    /\ landed \in Seq(Calls)
    /\ read \in [step : {"row", "ingredients", "categories", "done"}, by : Ids,
                 ingredients : SUBSET AllLines, categories : SUBSET AllLines]

Init ==
    /\ \E there \in BOOLEAN :
          /\ recipes = [i \in Ids |-> IF there /\ i = Old THEN [source |-> OldSource, by |-> Old]
                                                        ELSE None]
          /\ lines = IF there THEN {Line(Old, Old, k) : k \in 1..2} ELSE {}
    /\ lookup \in [Names -> {Old, None}]
    /\ pc = [c \in Calls |-> "idle"]
    /\ req = [c \in Calls |-> None]
    /\ next = [c \in Calls |-> 1]
    /\ tx = [c \in Calls |-> NoTx]
    /\ result = [c \in Calls |-> "none"]
    /\ landed = << >>
    /\ read = [step |-> "row", by |-> Old, ingredients |-> {}, categories |-> {}]

-----------------------------------------------------------------------------
(* Who waits for whom.                                                     *)

\* The committed rows with a source: at most one, by the unique index.
StoredAs(s) == {i \in Ids : recipes[i] # None /\ recipes[i].source = s}

\* The name call c has come to.
Name(c) == IF pc[c] = "lines" THEN Attached(req[c])[next[c]] ELSE Resolved(req[c])[next[c]]
Listed(c) == next[c] > Len(Resolved(req[c]))

\* An insert of a source waits for an uncommitted one; a write of a row for the
\* transaction that wrote it.
RowBlockers(c) ==
    IF req[c].op = "create"
    THEN {d \in Calls : StoredAs(req[c].source) = {} /\ tx[d].row = d
                            /\ req[d].source = req[c].source}
    ELSE {d \in Calls : recipes[Old] # None /\ tx[d].row = Old}

\* The insert of a lookup row waits for an uncommitted one; DO UPDATE locks the
\* row against the foreign keys that reference it.
NameBlockers(c) ==
    {d \in Calls \ {c} : \/ Name(c) \in tx[d].mine
                         \/ lookup[Name(c)] # None /\ Name(c) \in tx[d].held \cup tx[d].shared}

Blockers(c) ==
    CASE pc[c] = "write" -> RowBlockers(c)
      [] pc[c] = "insert" -> NameBlockers(c)
      [] pc[c] = "lines" /\ ~Listed(c) -> {d \in Calls \ {c} : Name(c) \in tx[d].held}
      [] OTHER -> {}

Deadlocked(D) == D # {} /\ \A c \in D : Blockers(c) \cap D # {}

-----------------------------------------------------------------------------
(* The calls.                                                              *)

GoTo(c, step) == pc' = [pc EXCEPT ![c] = step]

\* Mutant: a call that fails leaves its transaction open.
Rollback_Forgotten(c) == UNCHANGED tx

\* `defer tx.Rollback`, or the end of a committed transaction.
Rollback(c) == tx' = [tx EXCEPT ![c] = NoTx]

Answer(c, answer) ==
    /\ GoTo(c, "done")
    /\ result' = [result EXCEPT ![c] = answer]
    /\ Rollback(c)

Start(c) ==
    /\ pc[c] = "idle"
    /\ \E q \in Requests : req' = [req EXCEPT ![c] = q]
    /\ GoTo(c, "write")
    /\ UNCHANGED <<db, next, tx, result, landed, read>>

\* Mutant: a source somebody is about to store counts as stored.
Conflict_InFlight(c) ==
    StoredAs(req[c].source) # {}
        \/ \E d \in Calls : tx[d].row = d /\ req[d].source = req[c].source

\* ON CONFLICT (source) DO NOTHING found a row.
Conflict(c) == StoredAs(req[c].source) # {}

\* Create's insert decides whether the source is a duplicate.
CreateRecipe(c) ==
    /\ pc[c] = "write" /\ req[c].op = "create"
    /\ \/ Conflict(c) /\ Answer(c, "duplicate")
       \/ /\ ~Conflict(c) /\ Blockers(c) = {}
          /\ tx' = [tx EXCEPT ![c].row = c]
          /\ GoTo(c, "find")
          /\ UNCHANGED result
    /\ UNCHANGED <<db, req, next, landed, read>>

\* Mutant: the row is written, and so locked, after its lines.
UpdateRecipe_Last(c) ==
    /\ pc[c] = "write" /\ req[c].op = "update"
    /\ recipes[Old] # None
    /\ tx' = [tx EXCEPT ![c].row = Old]
    /\ GoTo(c, "find")
    /\ UNCHANGED <<db, req, next, result, landed, read>>

\* Update's first statement locks the row, or finds none.
UpdateRecipe(c) ==
    /\ pc[c] = "write" /\ req[c].op = "update"
    /\ \/ recipes[Old] = None /\ Answer(c, "notfound")
       \/ /\ recipes[Old] # None /\ Blockers(c) = {}
          /\ tx' = [tx EXCEPT ![c].row = Old]
          /\ GoTo(c, "find")
          /\ UNCHANGED result
    /\ UNCHANGED <<db, req, next, landed, read>>

\* Delete is one statement, which takes the lines along; its answer may be lost.
DeleteRecipe(c) ==
    /\ pc[c] = "write" /\ req[c].op = "delete"
    /\ \/ recipes[Old] = None /\ Answer(c, "notfound") /\ UNCHANGED <<db, landed>>
       \/ /\ recipes[Old] # None /\ Blockers(c) = {}
          /\ recipes' = [recipes EXCEPT ![Old] = None]
          /\ lines' = lines \ LinesOf(Old)
          /\ landed' = Append(landed, c)
          /\ \E answer \in {"ok", "failed"} : Answer(c, answer)
          /\ UNCHANGED lookup
    /\ UNCHANGED <<req, next, read>>

Advance(c, step) ==
    /\ next' = [next EXCEPT ![c] = @ + 1]
    /\ GoTo(c, step)

\* Mutant: the upsert this replaced, which goes through the insert every time.
Seen_Never(c) == Name(c) \in tx[c].mine

\* Does the read half of FindOrCreate... see a row?
Seen(c) == lookup[Name(c)] # None \/ Name(c) \in tx[c].mine

\* resolveLookups, one name: the read, which takes no lock.
FindName(c) ==
    /\ pc[c] = "find" /\ ~Listed(c)
    /\ IF Seen(c) THEN Advance(c, "find") ELSE GoTo(c, "insert") /\ UNCHANGED next
    /\ UNCHANGED <<db, req, tx, result, landed, read>>

\* Mutant: names are resolved on the pool, outside the transaction.
InsertName_OnPool(c) ==
    /\ pc[c] = "insert" /\ Blockers(c) = {}
    /\ lookup' = [lookup EXCEPT ![Name(c)] = IF @ = None THEN c ELSE @]
    /\ Advance(c, "find")
    /\ UNCHANGED <<recipes, lines, req, tx, result, landed, read>>

\* The insert half, when the read saw nothing: a new row, or the one another
\* transaction has committed since.
InsertName(c) ==
    /\ pc[c] = "insert" /\ Blockers(c) = {}
    /\ tx' = IF lookup[Name(c)] = None
             THEN [tx EXCEPT ![c].mine = @ \cup {Name(c)}]
             ELSE [tx EXCEPT ![c].held = @ \cup {Name(c)}]
    /\ Advance(c, "find")
    /\ UNCHANGED <<db, req, result, landed, read>>

\* Seed finds or creates a default name, in a transaction of its own.
SeedName(n) ==
    /\ n \in Defaults /\ lookup[n] = None
    /\ \A c \in Calls : n \notin tx[c].mine
    /\ lookup' = [lookup EXCEPT ![n] = Seed]
    /\ UNCHANGED <<recipes, lines, pc, req, next, tx, result, landed, read>>

\* writeAssociations: delete the recipe's lines - those of one kind before the
\* new ones of that kind, which nobody can tell from outside - ...
ClearLines(c) ==
    /\ pc[c] = "find" /\ Listed(c)
    /\ tx' = [tx EXCEPT ![c].gone = LinesOf(tx[c].row)]
    /\ next' = [next EXCEPT ![c] = 1]
    /\ GoTo(c, "lines")
    /\ UNCHANGED <<db, req, result, landed, read>>

\* ... and insert the new ones, ingredients first, each locking the lookup row it
\* references.
AddLine(c) ==
    /\ pc[c] = "lines" /\ ~Listed(c) /\ Blockers(c) = {}
    /\ tx' = [tx EXCEPT ![c].added = @ \cup {Line(tx[c].row, c, next[c])},
                        ![c].shared = @ \cup {Name(c)}]
    /\ Advance(c, "lines")
    /\ UNCHANGED <<db, req, result, landed, read>>

\* tx.Commit.  Its answer may be lost.
Commit(c) ==
    /\ pc[c] = "lines" /\ Listed(c)
    /\ recipes' = [recipes EXCEPT ![tx[c].row] =
                      IF req[c].op = "create" THEN [source |-> req[c].source, by |-> c]
                                              ELSE [@ EXCEPT !.by = c]]
    /\ lines' = (lines \ tx[c].gone) \cup tx[c].added
    /\ lookup' = [n \in Names |-> IF n \in tx[c].mine THEN c ELSE lookup[n]]
    /\ landed' = Append(landed, c)
    /\ \E answer \in {"ok", "failed"} : Answer(c, answer)
    /\ UNCHANGED <<req, next, read>>

Open(c) == pc[c] \notin {"idle", "done"}

\* Any statement may fail: the context is done, or the connection is lost.
Fail(c) ==
    /\ Open(c)
    /\ Answer(c, "failed")
    /\ UNCHANGED <<db, req, next, landed, read>>

\* Postgres ends a deadlock by failing one of the statements in it.
DeadlockAborts(c) ==
    /\ \E D \in SUBSET Calls : c \in D /\ Deadlocked(D)
    /\ Answer(c, "failed")
    /\ UNCHANGED <<db, req, next, landed, read>>

\* assemble's two queries, each of what is committed by then.
ListRecipeIngredients == IngredientsIn(LinesOf(Old))
ListRecipeCategories == CategoriesIn(LinesOf(Old))

\* Mutant: the lines are read before the row.
GetByID_LinesFirst ==
    /\ \/ /\ read.step = "row" /\ recipes[Old] # None
          /\ read' = [read EXCEPT !.step = "ingredients", !.ingredients = ListRecipeIngredients]
       \/ /\ read.step = "ingredients"
          /\ read' = [read EXCEPT !.step = "categories", !.categories = ListRecipeCategories]
       \/ /\ read.step = "categories" /\ recipes[Old] # None
          /\ read' = [read EXCEPT !.step = "done", !.by = recipes[Old].by]
    /\ UNCHANGED <<db, pc, req, next, tx, result, landed>>

\* GetByID: the row - without one there is nothing to assemble - and then its
\* ingredients and its categories, three statements on the pool.
GetByID ==
    /\ \/ /\ read.step = "row" /\ recipes[Old] # None
          /\ read' = [read EXCEPT !.step = "ingredients", !.by = recipes[Old].by]
       \/ /\ read.step = "ingredients"
          /\ read' = [read EXCEPT !.step = "categories", !.ingredients = ListRecipeIngredients]
       \/ /\ read.step = "categories"
          /\ read' = [read EXCEPT !.step = "done", !.categories = ListRecipeCategories]
    /\ UNCHANGED <<db, pc, req, next, tx, result, landed>>

-----------------------------------------------------------------------------
Step(c) ==
    \/ CreateRecipe(c) \/ UpdateRecipe(c) \/ DeleteRecipe(c)
    \/ FindName(c) \/ InsertName(c) \/ ClearLines(c) \/ AddLine(c) \/ Commit(c)

Next ==
    \/ GetByID
    \/ \E n \in Names : SeedName(n)
    \/ \E c \in Calls : Start(c) \/ Step(c) \/ Fail(c) \/ DeadlockAborts(c)

Spec == Init /\ [][Next]_vars

\* A statement that need not wait runs, and Postgres looks for deadlocks.
FairSpec == Spec /\ \A c \in Calls : WF_vars(Step(c)) /\ WF_vars(DeadlockAborts(c))

-----------------------------------------------------------------------------
(* What is to hold.                                                        *)

\* The content of recipe i is that of one write, complete and with nothing else.
Whole(i) == LinesOf(i) = {Line(i, recipes[i].by, k) : k \in 1..Length(recipes[i].by)}

\* "No half-updated association bug to find later": recipes change one at a
\* time, as wholes - fields and lines of one write, however many writes of one
\* recipe overlap - and the same source is never stored twice.
OnShelf ==
    {[id |-> i, source |-> recipes[i].source, by |-> IF Whole(i) THEN recipes[i].by ELSE None]
        : i \in {j \in Ids : recipes[j] # None}}
Shelf == INSTANCE RecipeShelf WITH Writers <- Ids, shelf <- OnShelf
ShelfSpec == Shelf!Spec

\* resolveLookups' point: a write leaves lookup rows, fields or lines behind
\* only if it committed, and all that answered "ok" did.
AllOrNothing ==
    /\ \A n \in Names : lookup[n] \in Range(landed) \cup {Old, Seed, None}
    /\ \A i \in Ids : recipes[i] # None => recipes[i].by \in Range(landed) \cup {Old}
    /\ \A l \in lines : l.by \in Range(landed) \cup {Old}
    /\ \A c \in Calls : result[c] = "ok" => c \in Range(landed)

\* ErrDuplicateSource: a post counted as a duplicate is stored, unless somebody
\* deleted a recipe.
DuplicateIsStored ==
    \A c \in Calls : result[c] = "duplicate" =>
        StoredAs(req[c].source) # {} \/ \E d \in Range(landed) : req[d].op = "delete"

\* README on lookups: writes that only name what is there cannot deadlock - in
\* every deadlock somebody's list has a name that was new.
KnownNamesNeverDeadlock ==
    \A D \in SUBSET Calls : Deadlocked(D) =>
        \E c \in D : \E n \in Range(Resolved(req[c])) : lookup[n] # Old

\* The writes of Old so far, and the lines each of them left it with.
Wrote == {Old} \cup {b \in Range(landed) : req[b].op # "create"}
Content(b) == IF b # Old /\ req[b].op = "delete" THEN {} ELSE {Line(Old, b, k) : k \in 1..Length(b)}
Place(s, b) == IF b = Old THEN 0 ELSE CHOOSE k \in DOMAIN s : s[k] = b

\* GetByID reads three snapshots: fields, ingredients and categories may be
\* those of three writes, but the ingredients are all those of one write and the
\* categories all those of one, neither of them older than what was read before.
LinesNotOlder ==
    read.step = "done" =>
        \E i, c \in Wrote :
            /\ read.ingredients = IngredientsIn(Content(i))
            /\ read.categories = CategoriesIn(Content(c))
            /\ Place(landed, read.by) <= Place(landed, i)
            /\ Place(landed, i) <= Place(landed, c)

\* What GetByID does not promise, and no run checks: that a recipe it returns
\* was ever stored as it returns it.
ReadsOneWrite ==
    read.step = "done" => \A l \in read.ingredients \cup read.categories : l.by = read.by

\* Every call ends, whatever the others do.
EveryCallEnds == \A c \in Calls : pc[c] = "write" ~> pc[c] = "done"
=============================================================================
