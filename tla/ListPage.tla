------------------------------ MODULE ListPage ------------------------------
(***************************************************************************)
(* The list page (web/src/pages/list.ts): a search field with a delay, a   *)
(* category filter and a pager, over GET /api/recipes                      *)
(* (internal/api/handlers_recipes.go) and RecipeRepository.Search, which   *)
(* counts and reads in two statements while others write.  Requests are    *)
(* answered, and answers arrive, in any order.                             *)
(***************************************************************************)
EXTENDS RecipeSearch, FiniteSets

CONSTANTS
    Ids,          \* recipes.id, numbers
    Rows,         \* contents of a recipe: [name, category], numbers
    Texts,        \* names searched for
    Categories,   \* categories chosen
    Any,          \* no text, no category
    None,         \* no recipe
    PAGE_SIZE,    \* rows the list asks for
    MaxLoads      \* bound: requests in flight

ASSUME ListAssumption ==
    /\ Ids \subseteq Nat /\ IsFiniteSet(Ids) /\ Cardinality(Ids) <= MaxInt
    /\ \A row \in Rows : row.name \in Nat
    /\ None \notin Rows \cup Nat /\ Any \notin Texts \cup Categories
    /\ PAGE_SIZE \in 1..MaxSize /\ MaxLoads \in Nat \ {0}

VARIABLES
    stored,    \* stored[i]: the row of recipe i
    typed,     \* searchInput.value
    debounce,  \* is its timer running?
    query, categoryId, page,  \* what the next request asks
    loads,     \* requests in flight; two of one kind count as one
    shown      \* resultsEl, and paginationEl's total or None; asked is None once it
               \* answers an older request

closure == <<query, categoryId, page>>
vars    == <<stored, typed, debounce, closure, loads, shown>>

Asked == [q |-> query, cat |-> categoryId, page |-> page]

\* The recipes a query matches.
Matches(q, cat) == {i \in Ids : /\ stored[i] # None
                                /\ q \in {Any, stored[i].name}
                                /\ cat \in {Any, stored[i].category}}

\* ORDER BY name, id
Precedes(i, j) ==
    \/ stored[i].name < stored[j].name
    \/ stored[i].name = stored[j].name /\ i < j

\* Each match with its place in that order, counted from one.
Ranks(q, cat) ==
    LET matches == Matches(q, cat)
    IN  [i \in matches |-> Cardinality({j \in matches : Precedes(j, i)}) + 1]

\* The rows a request gets.
Found(ranks, p, size) == {i \in DOMAIN ranks : OnPage(ranks[i], PageNumber(p), PageSize(size))}

\* Math.max(1, Math.ceil(total / PAGE_SIZE))
TotalPages(total) == IF total = 0 THEN 1 ELSE (total + PAGE_SIZE - 1) \div PAGE_SIZE

Filters == [q : Texts \cup {Any}, cat : Categories \cup {Any}, page : Nat \ {0}]

TypeOK ==
    /\ stored \in [Ids -> Rows \cup {None}]
    /\ typed \in Texts \cup {Any} /\ debounce \in BOOLEAN
    /\ Asked \in Filters
    /\ loads \subseteq [asked : Filters, step : {"sent", "counted", "ok"},
                        total : 0..Cardinality(Ids), last : BOOLEAN]
    /\ Cardinality(loads) <= MaxLoads
    /\ shown \in [kind : {"loading", "list", "error"}, pager : 0..Cardinality(Ids) \cup {None},
                  asked : Filters \cup {None}]

Fresh(asked) == [kind |-> "loading", pager |-> None, asked |-> asked]

\* The filter changes to this, and loadResults up to its await asks for it.
Load(q, cat, p) ==
    /\ query' = q /\ categoryId' = cat /\ page' = p
    /\ Cardinality(loads) < MaxLoads
    /\ LET asked == [q |-> q, cat |-> cat, page |-> p] IN
          /\ loads' = {[l EXCEPT !.last = FALSE] : l \in loads}
                          \cup {[asked |-> asked, step |-> "sent", total |-> 0, last |-> TRUE]}
          /\ shown' = Fresh(asked)

First == [q |-> Any, cat |-> Any, page |-> 1]

Init ==
    /\ stored \in [Ids -> Rows \cup {None}]
    /\ typed = Any /\ debounce = FALSE
    /\ query = Any /\ categoryId = Any /\ page = 1
    /\ loads = {[asked |-> First, step |-> "sent", total |-> 0, last |-> TRUE]}
    /\ shown = Fresh(First)

-----------------------------------------------------------------------------
(* The user.                                                               *)

\* Mutant: the query follows every keystroke, only the request waits.
Type_SetsQuery(text) ==
    /\ typed # text /\ typed' = text /\ query' = text
    /\ debounce' = TRUE
    /\ UNCHANGED <<stored, categoryId, page, loads, shown>>

\* A keystroke: clearTimeout and setTimeout.
Type(text) ==
    /\ typed # text /\ typed' = text
    /\ debounce' = TRUE
    /\ UNCHANGED <<stored, closure, loads, shown>>

\* Another category: the first page of it, for the text asked for last.
Choose(cat) ==
    /\ categoryId # cat
    /\ Load(query, cat, 1)
    /\ UNCHANGED <<stored, typed, debounce>>

\* The pager is there once a list has come, and an error leaves it there.
PrevPage ==
    /\ shown.pager # None /\ page > 1
    /\ Load(query, categoryId, page - 1)
    /\ UNCHANGED <<stored, typed, debounce>>

NextPage ==
    /\ shown.pager # None /\ page < TotalPages(shown.pager)
    /\ Load(query, categoryId, page + 1)
    /\ UNCHANGED <<stored, typed, debounce>>

\* DEBOUNCE_MS without a keystroke.
TimerFires ==
    /\ debounce /\ debounce' = FALSE
    /\ Load(typed, categoryId, 1)
    /\ UNCHANGED <<stored, typed>>

-----------------------------------------------------------------------------
(* The server.                                                             *)

Becomes(l, m) == loads' = (loads \ {l}) \cup {m}

CountRecipes(l) ==
    /\ l.step = "sent"
    /\ Becomes(l, [l EXCEPT !.step = "counted",
                            !.total = Cardinality(Matches(l.asked.q, l.asked.cat))])
    /\ UNCHANGED <<stored, typed, debounce, closure, shown>>

\* The rows; the page does not depend on which they are.
SearchRecipes(l) ==
    /\ l.step = "counted"
    /\ Becomes(l, [l EXCEPT !.step = "ok"])
    /\ UNCHANGED <<stored, typed, debounce, closure, shown>>

\* Imports and other users store, change and delete recipes.
Write ==
    /\ \E i \in Ids, row \in Rows \cup {None} : stored' = [stored EXCEPT ![i] = row]
    /\ UNCHANGED <<typed, debounce, closure, loads, shown>>

\* An answer has come, or, as "error", word that there is none.
Arrived(l, kind) ==
    /\ l \in loads /\ loads' = loads \ {l}
    /\ shown' = [kind |-> kind, pager |-> IF kind = "list" THEN l.total ELSE shown.pager,
                 asked |-> IF l.last THEN l.asked ELSE None]
    /\ UNCHANGED <<stored, typed, debounce, closure>>

\* loadResults after its await: whatever arrives is shown.
Receive(l) == l.step = "ok" /\ Arrived(l, "list")

\* Mutant: an error is not shown.
Fail_Silent(l) == loads' = loads \ {l} /\ UNCHANGED <<stored, typed, debounce, closure, shown>>

\* A statement, or the request, has failed.
Fail(l) == Arrived(l, "error")

-----------------------------------------------------------------------------
Serve == \E l \in loads : CountRecipes(l) \/ SearchRecipes(l)
Answer == \E l \in loads : Receive(l) \/ Fail(l)

Next ==
    \/ \E text \in Texts \cup {Any} : Type(text)
    \/ \E cat \in Categories \cup {Any} : Choose(cat)
    \/ PrevPage \/ NextPage \/ TimerFires
    \/ Serve \/ Answer \/ Write

Spec == Init /\ [][Next]_vars

\* Requests are answered and answers arrive; a timer fires, if need be when a
\* request in flight has made room for its own.
FairSpec ==
    /\ Spec
    /\ WF_vars(Serve) /\ WF_vars(Answer)
    /\ SF_vars(TimerFires)

-----------------------------------------------------------------------------
(* What is to hold.                                                        *)

\* SearchRecipes' order and Search's guard: whoever asks for all pages of any
\* size, however large the numbers, finds every match on exactly one of them, and
\* no more on a page than asked for.
\* MaxPage is past the point where the offset has gone round.
MaxPage == 2 * (MaxInt + 1) + 2
OnOnePage ==
    \A q \in Texts \cup {Any}, cat \in Categories \cup {Any}, size \in 0..MaxSize :
        LET ranks == Ranks(q, cat)
            found == [p \in 1..MaxPage |-> Found(ranks, p, size)]
        IN  /\ \A i \in DOMAIN ranks : Cardinality({p \in 1..MaxPage : i \in found[p]}) = 1
            /\ \A p \in 1..MaxPage : Cardinality(found[p]) <= PageSize(size)

\* The handlers of list.ts change the filter and ask in one go: as long as the
\* last request is under way or on the screen, it was for the text, category and
\* page that the pager goes on from, whatever has been typed since.
ShownWasAsked ==
    /\ \A l \in loads : l.last => l.asked = Asked
    /\ shown.asked \in {Asked, None}

\* What is typed is searched for, unless something else is typed, and "Lade..."
\* gives way to an answer.
SearchEnds ==
    /\ \A text \in Texts \cup {Any} : typed = text ~> query = text \/ typed # text
    /\ shown.kind = "loading" ~> shown.kind # "loading"

-----------------------------------------------------------------------------
(* What the page does not keep.                                            *)

\* Once nothing is under way, the list answers the last search: answers that
\* overtake each other leave an older one under the newer filter.
LastAnswerIsShown == loads = {} => shown.asked # None

\* The page asked for exists: a stale answer offers pages the search does not have,
\* and recipes are deleted.
PageWasOffered == shown.asked # None /\ shown.kind = "list" => page <= TotalPages(shown.pager)
=============================================================================
