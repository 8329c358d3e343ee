------------------------------ MODULE Backlog -------------------------------
(***************************************************************************)
(* The backlog: what successive import runs make of saved posts.  The      *)
(* configured name is looked up among the account's collections and its id *)
(* cached (internal/instagram/fetcher_adapter.go); one run is one step,    *)
(* put together from that, from what pageMedia (saved.go, module SavedFeed) *)
(* collects of a remote that answers and what Pipeline.Run (module         *)
(* ImportPipeline) does with each post.                                    *)
(***************************************************************************)
EXTENDS Naturals, Sequences, FiniteSets, Functions

CONSTANTS
    Recipes,     \* saved posts whose caption holds a recipe
    Noise,       \* saved posts without one, NoRecipe in every run
    Collections, \* ids of collections on Instagram
    None,        \* no collection
    MaxAge,      \* collectionIDMaxAge, in clock units
    PageSize,    \* posts on a page of the feed
    MaxItems,    \* IMPORT_MAX_ITEMS
    MaxPages     \* IMPORT_MAX_PAGES

ASSUME BacklogAssumption ==
    /\ Recipes \cap Noise = {}
    /\ None \notin Collections
    /\ PageSize \in Nat \ {0} /\ MaxItems \in Nat \ {0} /\ MaxPages \in Nat \ {0}
    /\ MaxAge \in Nat \ {0}

Posts == Recipes \cup Noise

VARIABLES
    feed,     \* feed[c]: the posts saved in collection c, newest first
    stored,   \* the sources in the recipe table
    named,    \* the collection that has the configured name
    unnamed,  \* unnamed[c]: for how long c has not had it, MaxAge at most
    cached,   \* PipelineFetcher.collectionID
    age       \* the time since resolvedAt, MaxAge at most and for the zero time

vars == <<feed, stored, named, unnamed, cached, age>>

TypeOK ==
    /\ feed \in [Collections -> Seq(Posts)]
    /\ \A c \in Collections : IsInjective(feed[c])
    /\ stored \subseteq Posts
    /\ named \in Collections \cup {None} /\ cached \in Collections \cup {None}
    /\ unnamed \in [Collections -> 0..MaxAge]
    /\ age \in 0..MaxAge /\ (cached = None => age = MaxAge)

Init ==
    /\ feed = [c \in Collections |-> << >>]
    /\ stored = {}
    /\ named \in Collections \cup {None}
    /\ unnamed = [c \in Collections |-> IF c = named THEN 0 ELSE MaxAge]
    /\ cached = None
    /\ age = MaxAge

-----------------------------------------------------------------------------
(* Instagram and time.                                                     *)

\* The user saves a post in a collection; it comes first in its feed.
Save(p, c) ==
    /\ \A d \in Collections : p \notin Range(feed[d])
    /\ feed' = [feed EXCEPT ![c] = <<p>> \o @]
    /\ UNCHANGED <<stored, named, unnamed, cached, age>>

\* The name goes to another collection, or to none.
Rename(c) ==
    /\ c # named
    /\ named' = c
    /\ unnamed' = [d \in Collections |-> IF d = c THEN 0 ELSE unnamed[d]]
    /\ UNCHANGED <<feed, stored, cached, age>>

Older(n) == IF n < MaxAge THEN n + 1 ELSE MaxAge

Tick ==
    /\ age' = Older(age)
    /\ unnamed' = [c \in Collections |-> IF c = named THEN 0 ELSE Older(unnamed[c])]
    /\ UNCHANGED <<feed, stored, named, cached>>

-----------------------------------------------------------------------------
(* A run.                                                                  *)

\* Mutant: the cap counts every post, the window before the backlog fix.
Window_OfNewest(c) ==
    {feed[c][i] : i \in {j \in DOMAIN feed[c] : j <= MaxItems /\ feed[c][j] \notin stored}}

\* Where the pages a run walks have a post that is not stored.
New(c) == {i \in DOMAIN feed[c] : i <= MaxPages * PageSize /\ feed[c][i] \notin stored}

\* The posts pageMedia collects: the first MaxItems of those.
Window(c) ==
    {feed[c][i] : i \in {j \in New(c) : Cardinality({k \in New(c) : k < j}) < MaxItems}}

\* resolveCollectionID: is the cached id used, or the name looked up?
Fresh == cached # None /\ age < MaxAge
Used == IF Fresh THEN cached ELSE named

\* Mutant: an id is as good as new every time it is used.
Keep_Renews == cached' = Used /\ age' = 0

\* After the run: an id looked up is cached from now on, ...
Keep ==
    /\ cached' = Used
    /\ age' = IF Fresh THEN age ELSE 0

\* ... and dropped when the fetch failed loudly.
Forget == cached' = None /\ age' = MaxAge

\* saysNothingAboutTheCollection: a rate limit, the login, a timeout.
Failures == {"none", "quiet", "loud"}

\* A run that imports the posts in `good`.  Any other recipe of the window
\* failed this time, or came after the page the fetch ended with; a post
\* without a recipe is never stored.  A run whose lookup fails does nothing.
Import(good, failure) ==
    /\ Used # None
    /\ good \subseteq Window(Used) \cap Recipes
    /\ stored' = stored \cup good
    /\ IF failure = "loud" THEN Forget ELSE Keep
    /\ UNCHANGED <<feed, named, unnamed>>

ImportRun == \E good \in SUBSET Recipes, failure \in Failures : Import(good, failure)

\* A run over the collection that has the name, and that succeeds with p.
ImportOf(p) ==
    /\ Used = named
    /\ \E good \in SUBSET Recipes, failure \in Failures : p \in good /\ Import(good, failure)

Next ==
    \/ ImportRun \/ Tick
    \/ \E c \in Collections \cup {None} : Rename(c)
    \/ \E p \in Posts, c \in Collections : Save(p, c)

\* The schedule keeps making runs, and a post that is tried again and again
\* does not fail every time.
Spec == Init /\ [][Next]_vars
FairSpec == Spec /\ WF_vars(Tick) /\ \A p \in Recipes : SF_vars(ImportOf(p))

-----------------------------------------------------------------------------
\* README, "Importing a backlog": an account with more saved posts than the cap
\* drains across successive runs - once the name stays where it is, whatever
\* was cached before.
Drains ==
    \A c \in Collections : <>[](named = c) =>
        \A p \in Recipes : [](p \in Range(feed[c]) => <>(p \in stored))

\* collectionIDMaxAge's comment, "a day bounds that": a run never walks a
\* collection that lost the name before the id it uses was looked up, and so
\* for less than MaxAge after the name has moved.
StaleBounded == Fresh => unnamed[cached] <= age
=============================================================================
