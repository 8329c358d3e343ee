----------------------------- MODULE SavedFeed ------------------------------
(***************************************************************************)
(* pageMedia (internal/instagram/saved.go): one walk of the saved-posts    *)
(* feed.  The endpoint is unofficial, so the remote is an adversary: any   *)
(* request may fail, answer something that is no feed page, or return any  *)
(* items with any next cursor.  While the walk goes on its context may be  *)
(* cancelled and other writers may add or delete recipes.                  *)
(***************************************************************************)
EXTENDS Naturals, Sequences, Functions

CONSTANTS
    Posts,      \* saved posts, by source
    Bad,        \* an item decodeSavedPost cannot read
    Cursors,    \* non-empty next_max_id values
    NoCursor,   \* the empty next_max_id
    PageSize,   \* bound: items on one page
    MaxItems,   \* FetchOptions.MaxItems
    MaxPages    \* FetchOptions.MaxPages

ASSUME FeedAssumption == Bad \notin Posts /\ NoCursor \notin Cursors

\* ImportLimits.Validate: a bound below one never reaches the fetcher.
ASSUME LimitsAssumption ==
    PageSize \in Nat /\ MaxItems \in Nat \ {0} /\ MaxPages \in Nat \ {0}

VARIABLES
    pc,        \* where the walk is
    cancelled, \* is the context done?
    stored,    \* sources in the recipe table
    pages,     \* loop counter `page`
    maxID,     \* the cursor the next request sends
    cursors,   \* every cursor followed
    rest,      \* items of the current page still to be looked at
    next,      \* NextMaxID of the current page
    out,       \* posts collected
    dropped,   \* items that could not be read
    err,       \* the error returned
    asked,     \* history: the cursors requests were sent with
    offered,   \* history: every item on the pages received
    passed     \* history: posts passed over as already imported

env  == <<cancelled, stored>>
walk == <<pages, maxID, cursors>>
hist == <<asked, offered, passed>>
vars == <<pc, env, walk, rest, next, out, dropped, err, hist>>

Items == Posts \cup {Bad}

TypeOK ==
    /\ pc \in {"top", "request", "items", "finish", "done"}
    /\ cancelled \in BOOLEAN
    /\ stored \subseteq Posts
    /\ pages \in 0..MaxPages
    /\ maxID \in Cursors \cup {NoCursor}
    /\ cursors \subseteq Cursors
    /\ rest \in Seq(Items)
    /\ next \in Cursors \cup {NoCursor}
    /\ out \in Seq(Posts)
    /\ dropped \in Nat
    /\ err \in {"none", "ctx", "request", "drift"}
    /\ asked \subseteq Cursors \cup {NoCursor}
    /\ offered \subseteq Items
    /\ passed \subseteq Posts

Init ==
    /\ pc = "top"
    /\ cancelled = FALSE
    /\ stored \in SUBSET Posts
    /\ pages = 0
    /\ maxID = NoCursor
    /\ cursors = {}
    /\ rest = << >>
    /\ next = NoCursor
    /\ out = << >>
    /\ dropped = 0
    /\ err = "none"
    /\ asked = {}
    /\ offered = {}
    /\ passed = {}

-----------------------------------------------------------------------------
(* The environment. *)

Cancel ==
    /\ ~cancelled
    /\ cancelled' = TRUE
    /\ UNCHANGED <<pc, stored, walk, rest, next, out, dropped, err, hist>>

\* The API or another import stores or deletes a recipe.
OtherWriter ==
    /\ \E p \in Posts : stored' = IF p \in stored THEN stored \ {p} ELSE stored \cup {p}
    /\ UNCHANGED <<pc, cancelled, walk, rest, next, out, dropped, err, hist>>

-----------------------------------------------------------------------------
(* The walk. *)

Return(e) == pc' = "done" /\ err' = e

\* Mutant: one post too few.
Full_Early(n) == n + 1 >= MaxItems

\* Has a walk with n posts all it may take?
Full(n) == n >= MaxItems

\* The loop condition, then the check of the context between pages.
Top ==
    /\ pc = "top"
    /\ \/ /\ Full(Len(out)) \/ pages >= MaxPages
          /\ pc' = "finish"
          /\ UNCHANGED err
       \/ /\ ~Full(Len(out)) /\ pages < MaxPages
          /\ cancelled
          /\ Return("ctx")
       \/ /\ ~Full(Len(out)) /\ pages < MaxPages
          /\ ~cancelled
          /\ pc' = "request"
          /\ UNCHANGED err
    /\ UNCHANGED <<env, walk, rest, next, out, dropped, hist>>

\* One request and decodeFeedPage.  What was collected so far is returned with
\* an error; a page without items ends the walk.
Request ==
    /\ pc = "request"
    /\ asked' = asked \cup {maxID}
    /\ \/ \E e \in {"request", "drift"} : Return(e) /\ UNCHANGED <<rest, next, offered>>
       \/ \E n \in 0..PageSize : \E page \in [1..n -> Items], c \in Cursors \cup {NoCursor} :
             /\ pc' = IF page = << >> THEN "finish" ELSE "items"
             /\ rest' = page
             /\ next' = c
             /\ offered' = offered \cup Range(page)
             /\ UNCHANGED err
    /\ UNCHANGED <<env, walk, out, dropped, passed>>

\* alreadyImported: a lookup that fails answers "not known".
IsKnown(p) == {FALSE} \cup (IF p \in stored THEN {TRUE} ELSE {})

\* Mutant: the walk does not remember what it took.
Collected_Forgotten(p) == FALSE

\* The `collected` map.
Collected(p) == p \in Range(out)

\* One item: count it as dropped, skip it, or collect it; the page is left when
\* the walk has all it may take.
Item ==
    /\ pc = "items"
    /\ rest # << >>
    /\ LET item == Head(rest) IN
       \/ /\ item = Bad
          /\ dropped' = dropped + 1
          /\ rest' = Tail(rest)
          /\ UNCHANGED <<out, passed>>
       \/ /\ Collected(item)
          /\ rest' = Tail(rest)
          /\ UNCHANGED <<out, dropped, passed>>
       \/ /\ item \in Posts /\ ~Collected(item)
          /\ TRUE \in IsKnown(item)
          /\ rest' = Tail(rest)
          /\ passed' = passed \cup {item}
          /\ UNCHANGED <<out, dropped>>
       \/ /\ item \in Posts /\ ~Collected(item)
          /\ FALSE \in IsKnown(item)
          /\ out' = Append(out, item)
          /\ rest' = IF Full(Len(out) + 1) THEN << >> ELSE Tail(rest)
          /\ UNCHANGED <<dropped, passed>>
    /\ UNCHANGED <<pc, env, walk, next, err, asked, offered>>

\* No next page, or the progress guard.
LastPage == next = NoCursor \/ next \in cursors

\* Mutant: a repeated cursor is asked for again, without counting the page.
Advance_Retries ==
    /\ pc = "items"
    /\ rest = << >>
    /\ \/ next = NoCursor /\ pc' = "finish" /\ UNCHANGED walk
       \/ next \in cursors /\ pc' = "top" /\ maxID' = next /\ UNCHANGED <<pages, cursors>>
       \/ /\ next \in Cursors \ cursors /\ pc' = "top"
          /\ cursors' = cursors \cup {next} /\ maxID' = next /\ pages' = pages + 1
    /\ UNCHANGED <<env, rest, next, out, dropped, err, hist>>

\* The end of a page: an empty or a repeated cursor ends the walk.
Advance ==
    /\ pc = "items"
    /\ rest = << >>
    /\ IF LastPage
       THEN pc' = "finish" /\ UNCHANGED walk
       ELSE /\ pc' = "top"
            /\ cursors' = cursors \cup {next}
            /\ maxID' = next
            /\ pages' = pages + 1
    /\ UNCHANGED <<env, rest, next, out, dropped, err, hist>>

\* Mutant: dropped items are only logged.
Drifted_Logged == FALSE

\* Unreadable items and nothing collected.
Drifted == dropped > 0 /\ out = << >>

\* After the loop: unreadable items and nothing collected is schema drift.
Finish ==
    /\ pc = "finish"
    /\ Return(IF Drifted THEN "drift" ELSE "none")
    /\ UNCHANGED <<env, walk, rest, next, out, dropped, hist>>

Step == Top \/ Request \/ Item \/ Advance \/ Finish

Next == Step \/ Cancel \/ OtherWriter

Spec == Init /\ [][Next]_vars

\* The walk is one goroutine, and every request it waits on has a deadline.
FairSpec == Spec /\ WF_vars(Step)

-----------------------------------------------------------------------------
(* What is to hold. *)

\* The `collected` map: no post is handed to the pipeline twice in one run,
\* although the remote may repeat it and the database does not have it yet.
NoPostTwice == IsInjective(out)

\* MaxItems and MaxPages: the walk takes no more posts and sends no more
\* requests than a run may, whatever the remote answers.
WithinLimits == Len(out) <= MaxItems /\ (pc = "request" => pages < MaxPages)

\* The progress guard: no page is requested a second time, also when the
\* remote answers with a cycle of cursors.
NoPageTwice == pc = "request" => maxID \notin asked

\* pageMedia leaves nothing behind unless it has its fill, also when it ends
\* in an error: a post on any page received is collected or
\* was in the recipe table when it was looked at.
NothingLost ==
    pc = "done" => Len(out) = MaxItems \/ offered \subseteq Range(out) \cup passed \cup {Bad}

\* ErrSchemaDrift's purpose: an empty success means that every item the remote
\* offered could be read and was already imported.
EmptyMeansCaughtUp ==
    pc = "done" /\ err = "none" /\ out = << >> => offered \subseteq passed

\* The walk ends, whatever the remote does.
WalkEnds == <>(pc = "done")

\* ErrSchemaDrift's comment, "items none of which this code could read": the
\* error is not raised by a walk whose pages decoded when some item was readable.
DriftMeansUnreadable ==
    pc = "finish" /\ dropped > 0 /\ out = << >> => offered = {Bad}
=============================================================================
