-------------------------- MODULE SavedFeedProofs ---------------------------
(* Proofs about SavedFeed, for any remote, any limits and any page size. *)
EXTENDS SavedFeed, TLAPS

\* Room is left for the item being looked at, and a page for the request.
Room ==
    /\ Len(out) <= MaxItems
    /\ pc = "request" => pages < MaxPages /\ Len(out) < MaxItems
    /\ pc = "items" => pages < MaxPages
    /\ pc = "items" /\ rest # << >> => Len(out) < MaxItems

\* Only cursors that were followed have been sent, and the one to be sent next
\* has not.
FreshCursor ==
    /\ asked \subseteq cursors \cup {NoCursor}
    /\ maxID \in cursors \cup {NoCursor}
    /\ pc \in {"top", "request"} => maxID \notin asked

\* Every item received is accounted for, or there is no room for more.
Accounted ==
    /\ pc \in {"top", "request", "finish", "done"} => rest = << >>
    /\ \/ Len(out) >= MaxItems
       \/ offered \subseteq Range(out) \cup passed \cup {Bad} \cup Range(rest)
    /\ Bad \in offered => Bad \in Range(rest) \/ dropped > 0 \/ out # << >>

FeedInv == TypeOK /\ Room /\ FreshCursor /\ NoPostTwice /\ Accounted /\ EmptyMeansCaughtUp

\* Appending a post that is not there keeps a sequence free of repetitions.
LEMMA AppendFresh ==
    ASSUME NEW s \in Seq(Posts), NEW p \in Posts, IsInjective(s), p \notin Range(s)
    PROVE  IsInjective(Append(s, p))
  BY DEF IsInjective, Range

\* What a sequence holds after an Append, and what a Tail loses.
LEMMA RangeFacts ==
    ASSUME NEW S, NEW s \in Seq(S)
    PROVE  /\ Range(<< >>) = {}
           /\ \A e \in S : Range(Append(s, e)) = Range(s) \cup {e}
           /\ s # << >> => Range(s) = {Head(s)} \cup Range(Tail(s))
<1>1. Range(<< >>) = {}
  BY DEF Range
<1>2. ASSUME NEW e \in S PROVE Range(Append(s, e)) = Range(s) \cup {e}
  <2>1. DOMAIN Append(s, e) = 1..(Len(s) + 1) /\ DOMAIN s = 1..Len(s) /\ Len(s) \in Nat
    OBVIOUS
  <2>2. \A i \in 1..Len(s) : Append(s, e)[i] = s[i]
    OBVIOUS
  <2>3. Append(s, e)[Len(s) + 1] = e
    OBVIOUS
  <2> QED
    BY <2>1, <2>2, <2>3 DEF Range
<1>3. ASSUME s # << >> PROVE Range(s) = {Head(s)} \cup Range(Tail(s))
  <2>1. DOMAIN s = 1..Len(s) /\ Len(s) \in Nat \ {0} /\ Head(s) = s[1]
    BY <1>3
  <2>2. DOMAIN Tail(s) = 1..(Len(s) - 1) /\ \A i \in 1..(Len(s) - 1) : Tail(s)[i] = s[i + 1]
    BY <1>3
  <2>3. ASSUME NEW x \in Range(s) PROVE x \in {Head(s)} \cup Range(Tail(s))
    <3>1. PICK i \in 1..Len(s) : x = s[i]
      BY <2>1 DEF Range
    <3>2. CASE i = 1
      BY <2>1, <3>1, <3>2
    <3>3. CASE i # 1
      <4>1. i - 1 \in 1..(Len(s) - 1) /\ Tail(s)[i - 1] = x
        BY <2>1, <2>2, <3>1, <3>3
      <4> QED
        BY <2>2, <4>1 DEF Range
    <3> QED
      BY <3>2, <3>3
  <2>4. ASSUME NEW x \in {Head(s)} \cup Range(Tail(s)) PROVE x \in Range(s)
    BY <2>1, <2>2 DEF Range
  <2> QED
    BY <2>3, <2>4
<1> QED
  BY <1>1, <1>2, <1>3

\* The walk starts in the invariant.
LEMMA FeedInit == Init => FeedInv
<1> SUFFICES ASSUME Init PROVE FeedInv
  OBVIOUS
<1>1. IsInjective(<< >>)
  BY DEF IsInjective
<1>2. TypeOK
  <2>1. pages \in 0..MaxPages /\ dropped \in Nat
    BY LimitsAssumption DEF Init
  <2>2. rest \in Seq(Items) /\ out \in Seq(Posts)
    BY DEF Init
  <2> QED
    BY <2>1, <2>2, Zenon DEF Init, TypeOK
<1>3. Room /\ FreshCursor
  BY LimitsAssumption DEF Init, Room, FreshCursor
<1>4. NoPostTwice /\ Accounted /\ EmptyMeansCaughtUp
  BY <1>1 DEF Init, NoPostTwice, Accounted, EmptyMeansCaughtUp
<1> QED
  BY <1>2, <1>3, <1>4 DEF FeedInv

\* Every step of the walk and of its environment keeps the invariant.
LEMMA FeedStep == ASSUME FeedInv, [Next]_vars PROVE FeedInv'
<1> USE LimitsAssumption, FeedAssumption DEF FeedInv, TypeOK, Items
<1>1. CASE Top
  BY <1>1 DEF Top, Full, Return, env, walk, hist, Room, FreshCursor, NoPostTwice, Accounted, EmptyMeansCaughtUp
<1>2. CASE Request
  <2>1. rest' \in Seq(Items) /\ next' \in Cursors \cup {NoCursor}
    BY <1>2 DEF Request
  <2>2. /\ pc' \in {"items", "finish", "done"} /\ UNCHANGED <<env, walk, out, dropped, passed>>
        /\ asked' = asked \cup {maxID}
        /\ err' \in {"none", "ctx", "request", "drift"}
        /\ pc' = "done" => err' # "none" /\ UNCHANGED <<rest, offered>>
        /\ pc' = "finish" => rest' = << >>
    BY <1>2 DEF Request, Return
  <2>3. offered' \subseteq offered \cup Range(rest')
    BY <1>2 DEF Request
  <2>4. TypeOK'
    <3>1. Range(rest') \subseteq Items
      BY <2>1 DEF Range
    <3> QED
      BY <2>1, <2>2, <2>3, <3>1 DEF env, walk
  <2>5. Room' /\ FreshCursor'
    BY <1>2, <2>2 DEF Request, walk, Room, FreshCursor
  <2>6. NoPostTwice' /\ EmptyMeansCaughtUp'
    BY <2>2 DEF NoPostTwice, EmptyMeansCaughtUp
  <2>7. Accounted'
    <3>1. rest = << >> /\ Range(rest) = {}
      BY <1>2, RangeFacts DEF Request, Accounted
    <3> QED
      BY <2>2, <2>3, <3>1 DEF Accounted
  <2> QED
    BY <2>4, <2>5, <2>6, <2>7
<1>3. CASE Item
  <2> DEFINE item == Head(rest)
  <2>1. /\ item \in Items /\ Tail(rest) \in Seq(Items) /\ rest # << >> /\ pc = "items"
        /\ UNCHANGED <<pc, env, walk, next, err, asked, offered>>
    BY <1>3 DEF Item, Collected, Full
  <2>2. Range(rest) = {item} \cup Range(Tail(rest)) /\ Range(<< >>) = {}
    BY <2>1, RangeFacts
  <2> DEFINE Unread == item = Bad /\ dropped' = dropped + 1 /\ UNCHANGED passed
             Seen == item \in Range(out) /\ UNCHANGED <<dropped, passed>>
             Known == item \in Posts /\ passed' = passed \cup {item} /\ UNCHANGED dropped
  <2>3. CASE UNCHANGED out /\ rest' = Tail(rest) /\ (Unread \/ Seen \/ Known)
    <3>0. Range(out) \subseteq Posts
      BY DEF Range
    <3>1. dropped' \in Nat /\ passed' \subseteq Posts /\ passed \subseteq passed'
      BY <2>3
    <3>2. (item = Bad => dropped' > 0) /\ dropped' >= dropped
      BY <2>3, <3>0
    <3>3. item \in Range(out) \cup passed' \cup {Bad}
      BY <2>3
    <3>4. TypeOK' /\ Room'
      BY <2>1, <2>3, <3>1 DEF env, walk, Room
    <3>5. FreshCursor' /\ NoPostTwice' /\ EmptyMeansCaughtUp'
      BY <2>1, <2>3 DEF walk, FreshCursor, NoPostTwice, EmptyMeansCaughtUp
    <3>6. Accounted'
      BY <2>1, <2>2, <2>3, <3>1, <3>2, <3>3 DEF Accounted
    <3> QED
      BY <3>4, <3>5, <3>6
  <2>4. CASE /\ item \in Posts \ Range(out)
             /\ out' = Append(out, item)
             /\ rest' = IF Len(out) + 1 >= MaxItems THEN << >> ELSE Tail(rest)
             /\ UNCHANGED <<dropped, passed>>
    <3>1. out' \in Seq(Posts) /\ Len(out') = Len(out) + 1 /\ out' # << >>
      BY <2>4
    <3>2. NoPostTwice'
      BY <2>4, AppendFresh DEF NoPostTwice
    <3>3. TypeOK' /\ Room'
      BY <2>1, <2>4, <3>1 DEF env, walk, Room
    <3>4. FreshCursor' /\ EmptyMeansCaughtUp'
      BY <2>1, <3>1 DEF walk, FreshCursor, EmptyMeansCaughtUp
    <3>5. Range(out') = Range(out) \cup {item}
      BY <2>4, RangeFacts
    <3>6. Accounted'
      BY <2>1, <2>2, <2>4, <3>1, <3>5 DEF Accounted
    <3> QED
      BY <3>2, <3>3, <3>4, <3>6
  <2> QED
    BY <1>3, <2>3, <2>4 DEF Item, Collected, Full
<1>4. CASE Advance
  BY <1>4 DEF Advance, LastPage, env, walk, hist, Room, FreshCursor, NoPostTwice, Accounted, EmptyMeansCaughtUp
<1>5. CASE Finish
  <2>1. /\ pc = "finish" /\ pc' = "done" /\ rest = << >>
        /\ err' = IF dropped > 0 /\ out = << >> THEN "drift" ELSE "none"
        /\ UNCHANGED <<env, walk, rest, next, out, dropped, hist>>
    BY <1>5 DEF Finish, Drifted, Return, Accounted
  <2>2. Range(rest) = {} /\ Range(<< >>) = {}
    BY <2>1, RangeFacts
  <2>3. TypeOK' /\ Room' /\ FreshCursor' /\ NoPostTwice' /\ Accounted'
    BY <2>1 DEF env, walk, hist, Room, FreshCursor, NoPostTwice, Accounted
  <2>4. EmptyMeansCaughtUp'
    <3>1. SUFFICES ASSUME err' = "none", out = << >> PROVE offered \subseteq passed
      BY <2>1 DEF hist, EmptyMeansCaughtUp
    <3>2. ~(dropped > 0) /\ Len(out) = 0 /\ Range(out) = {}
      BY <2>1, <2>2, <3>1
    <3> QED
      BY <2>2, <3>1, <3>2 DEF Accounted
  <2> QED
    BY <2>3, <2>4
<1>6. CASE Cancel \/ OtherWriter
  BY <1>6 DEF Cancel, OtherWriter, walk, hist, Room, FreshCursor, NoPostTwice, Accounted, EmptyMeansCaughtUp
<1>7. CASE UNCHANGED vars
  BY <1>7 DEF vars, env, walk, hist, Room, FreshCursor, NoPostTwice, Accounted, EmptyMeansCaughtUp
<1> QED
  BY <1>1, <1>2, <1>3, <1>4, <1>5, <1>6, <1>7 DEF Next, Step

\* The invariant holds throughout every walk.
LEMMA FeedCorrect == Spec => []FeedInv
  BY FeedInit, FeedStep, PTL DEF Spec

\* Whatever the remote answers, no post is collected twice.
THEOREM NoPostTwiceCorrect == Spec => []NoPostTwice
<1>1. FeedInv => NoPostTwice
  BY DEF FeedInv
<1> QED
  BY <1>1, FeedCorrect, PTL

\* Whatever the remote answers, a run stays within MaxItems and MaxPages.
THEOREM LimitsCorrect == Spec => []WithinLimits
<1>1. FeedInv => WithinLimits
  BY DEF FeedInv, WithinLimits, Room
<1> QED
  BY <1>1, FeedCorrect, PTL

\* Whatever cursors the remote hands out, no page is requested twice.
THEOREM ProgressCorrect == Spec => []NoPageTwice
<1>1. FeedInv => NoPageTwice
  BY DEF FeedInv, NoPageTwice, FreshCursor
<1> QED
  BY <1>1, FeedCorrect, PTL

\* Whatever happens on the way, no post of a page received is left out of the
\* walk's result unless the result is full or the post was already imported.
THEOREM NothingLostCorrect == Spec => []NothingLost
<1>1. FeedInv => NothingLost
  <2> SUFFICES ASSUME FeedInv, pc = "done" PROVE NothingLost
    BY DEF NothingLost
  <2>1. rest = << >> /\ Len(out) <= MaxItems /\ Range(<< >>) = {}
    BY RangeFacts DEF FeedInv, TypeOK, Accounted, Room
  <2> QED
    BY <2>1, LimitsAssumption DEF FeedInv, TypeOK, Accounted, NothingLost
<1> QED
  BY <1>1, FeedCorrect, PTL

\* An empty success means that everything offered was readable and imported.
THEOREM CaughtUpCorrect == Spec => []EmptyMeansCaughtUp
<1>1. FeedInv => EmptyMeansCaughtUp
  BY DEF FeedInv
<1> QED
  BY <1>1, FeedCorrect, PTL

-----------------------------------------------------------------------------
(* That the walk ends (WalkEnds) is left to TLC; what it rests on is proved  *)
(* here: every step of the walk uses up one of boundedly many.               *)

PageSteps == PageSize + 3

\* The steps the walk may still take, at most.
StepsLeft ==
    CASE pc = "top"     -> (MaxPages - pages) * PageSteps + 2
      [] pc = "request" -> (MaxPages - pages) * PageSteps + 1
      [] pc = "items"   -> (MaxPages - pages) * PageSteps + Len(rest) - PageSize
      [] pc = "finish"  -> 1
      [] pc = "done"    -> 0

\* No page holds more than a page's items.
PageFits == Len(rest) <= PageSize

LEMMA PageFitsStep == ASSUME FeedInv, PageFits, [Next]_vars PROVE PageFits'
<1> USE LimitsAssumption DEF PageFits
<1>0. rest \in Seq(Items) /\ Len(rest) \in Nat
  BY DEF FeedInv, TypeOK
<1>1. CASE Request
  <2>1. rest' = rest \/ \E n \in 0..PageSize : rest' \in [1..n -> Items]
    BY <1>1 DEF Request
  <2> QED
    BY <2>1
<1>2. CASE Item
  <2>1. rest # << >> /\ rest' \in {Tail(rest), << >>}
    BY <1>2 DEF Item
  <2> QED
    BY <1>0, <2>1
<1>3. CASE UNCHANGED rest
  BY <1>3
<1> QED
  BY <1>1, <1>2, <1>3 DEF Next, Step, Top, Advance, Finish, Cancel, OtherWriter, vars

\* The pages left are worth at least one page's steps, and one page fewer is
\* worth one page's steps less.
LEMMA PagesLeft ==
    ASSUME NEW p \in 0..MaxPages
    PROVE  LET room(q) == (MaxPages - q) * PageSteps IN
           /\ room(p) \in 0..(MaxPages * PageSteps)
           /\ p < MaxPages => room(p + 1) = room(p) - PageSteps /\ room(p) >= PageSteps
<1> DEFINE k == PageSteps
           d == MaxPages - p
<1>1. k \in Nat \ {0} /\ MaxPages \in Nat /\ d \in 0..MaxPages
  BY LimitsAssumption DEF PageSteps
<1>2. MaxPages - (p + 1) = d - 1
  BY <1>1
<1> HIDE DEF k, d
<1>3. d * k \in 0..(MaxPages * k)
  BY <1>1, Z3
<1>4. (d - 1) * k = d * k - k
  BY <1>1, Z3
<1>5. d >= 1 => d * k >= k
  BY <1>1, Z3
<1>6. p < MaxPages => d >= 1
  BY <1>1 DEF d
<1> QED
  BY <1>2, <1>3, <1>4, <1>5, <1>6 DEF k, d

StepsBounded ==
    /\ StepsLeft \in 0..(MaxPages * PageSteps + 2)
    /\ StepsLeft = 0 => pc = "done"

LEMMA StepsType == FeedInv /\ PageFits => StepsBounded
<1> SUFFICES ASSUME FeedInv, PageFits PROVE StepsBounded
  OBVIOUS
<1> DEFINE room == (MaxPages - pages) * PageSteps
           all == MaxPages * PageSteps
<1>1. /\ pc \in {"top", "request", "items", "finish", "done"} /\ pages \in 0..MaxPages
      /\ Len(rest) \in 0..PageSize /\ (pc = "items" => pages < MaxPages)
      /\ PageSize \in Nat /\ PageSteps = PageSize + 3
  BY LimitsAssumption DEF FeedInv, TypeOK, Room, PageFits, PageSteps
<1>2. room \in 0..all /\ (pages < MaxPages => room >= PageSteps)
  BY <1>1, PagesLeft
<1>3. all \in Nat
  BY <1>1, LimitsAssumption
<1>4. StepsLeft = CASE pc = "top" -> room + 2
                    [] pc = "request" -> room + 1
                    [] pc = "items" -> room + Len(rest) - PageSize
                    [] pc = "finish" -> 1
                    [] pc = "done" -> 0
  BY DEF StepsLeft
<1> HIDE DEF room, all
<1>5. StepsLeft \in 0..(all + 2) /\ (StepsLeft = 0 => pc = "done")
  BY <1>1, <1>2, <1>3, <1>4
<1> QED
  BY <1>5 DEF StepsBounded, all

\* Each step of the walk lowers what is left.
LEMMA StepLowers ==
    ASSUME FeedInv, PageFits, StepsBounded, PageFits', StepsBounded', Step
    PROVE  StepsLeft' < StepsLeft
<1> DEFINE room == (MaxPages - pages) * PageSteps
           after == (MaxPages - pages') * PageSteps
<1>1. /\ pages \in 0..MaxPages /\ rest \in Seq(Items)
      /\ Len(rest) \in Nat /\ Len(rest) <= PageSize /\ (pc = "items" => pages < MaxPages)
      /\ PageSize \in Nat /\ PageSteps = PageSize + 3
  BY LimitsAssumption DEF FeedInv, TypeOK, Room, PageFits, PageSteps
<1>2. room \in Nat /\ (pages < MaxPages => room >= PageSteps)
  BY <1>1, PagesLeft
<1>3. StepsLeft = CASE pc = "top" -> room + 2
                    [] pc = "request" -> room + 1
                    [] pc = "items" -> room + Len(rest) - PageSize
                    [] pc = "finish" -> 1
                    [] pc = "done" -> 0
  BY DEF StepsLeft
<1>4. StepsLeft' = CASE pc' = "top" -> after + 2
                     [] pc' = "request" -> after + 1
                     [] pc' = "items" -> after + Len(rest') - PageSize
                     [] pc' = "finish" -> 1
                     [] pc' = "done" -> 0
  BY DEF StepsLeft
<1>5. CASE Top
  <2>1. pages' = pages /\ pc = "top" /\ pc' \in {"finish", "done", "request"}
    BY <1>5 DEF Top, Return, walk
  <2>2. after = room
    BY <2>1
  <2> HIDE DEF room, after
  <2> QED
    BY <1>1, <1>2, <1>3, <1>4, <2>1, <2>2
<1>6. CASE Request
  <2>1. /\ pages' = pages /\ pc = "request" /\ pc' \in {"finish", "done", "items"}
        /\ pages < MaxPages
    BY <1>6 DEF Request, Return, walk, FeedInv, Room
  <2>2. after = room
    BY <2>1
  <2>3. (Len(rest') \in Int /\ Len(rest') <= PageSize) \/ pc' # "items"
    <3>1. Len(rest') <= PageSize
      BY DEF PageFits
    <3>2. rest' = rest \/ \E n \in 0..PageSize : rest' \in [1..n -> Items]
      BY <1>6 DEF Request
    <3>3. Len(rest') \in Nat
      BY <1>1, <3>2
    <3> QED
      BY <3>1, <3>3
  <2> HIDE DEF room, after
  <2> QED
    BY <1>1, <1>2, <1>3, <1>4, <2>1, <2>2, <2>3
<1>7. CASE Item
  <2>1. /\ pages' = pages /\ pc = "items" /\ pc' = "items"
        /\ rest # << >> /\ rest' \in {Tail(rest), << >>}
    BY <1>7 DEF Item, walk
  <2>2. after = room
    BY <2>1
  <2>3. Len(rest') \in Nat /\ Len(rest') < Len(rest)
    BY <1>1, <2>1
  <2> HIDE DEF room, after
  <2> QED
    BY <1>1, <1>2, <1>3, <1>4, <2>1, <2>2, <2>3
<1>8. CASE Advance
  <2>1. pc = "items" /\ Len(rest) = 0 /\ pages < MaxPages
    BY <1>1, <1>8 DEF Advance
  <2>2. pc' = "finish" \/ (pc' = "top" /\ pages' = pages + 1)
    BY <1>8 DEF Advance
  <2>3. pages' = pages + 1 => after = room - PageSteps
    BY <1>1, <2>1, PagesLeft
  <2> HIDE DEF room, after
  <2> QED
    BY <1>1, <1>2, <1>3, <1>4, <2>1, <2>2, <2>3
<1>9. CASE Finish
  <2>1. pc = "finish" /\ pc' = "done"
    BY <1>9 DEF Finish, Return
  <2> QED
    BY <1>3, <1>4, <2>1
<1> QED
  BY <1>5, <1>6, <1>7, <1>8, <1>9 DEF Step

\* pageMedia's two bounds and its progress guard, together: whatever the remote
\* answers, a walk takes at most PageSize + 3 steps for each of MaxPages pages and
\* two at its end.  Every step uses one of them up, nothing the environment does
\* gives one back, and they are not used up before the walk is done.
THEOREM WalkBounded ==
    Spec => /\ []StepsBounded
            /\ [][IF Step THEN StepsLeft' < StepsLeft ELSE StepsLeft' = StepsLeft]_vars
<1>1. Init => PageFits
  BY LimitsAssumption DEF Init, PageFits
<1>2. Spec => []PageFits
  BY <1>1, PageFitsStep, FeedCorrect, PTL DEF Spec
<1>3. FeedInv /\ PageFits => StepsBounded
  BY StepsType
<1>4. ASSUME FeedInv, PageFits, StepsBounded, PageFits', StepsBounded', [Next]_vars
      PROVE  [IF Step THEN StepsLeft' < StepsLeft ELSE StepsLeft' = StepsLeft]_vars
  <2>1. CASE Step
    BY <1>4, <2>1, StepLowers
  <2>2. CASE ~Step /\ (Cancel \/ OtherWriter)
    BY <2>2 DEF Cancel, OtherWriter, walk, StepsLeft
  <2> QED
    BY <1>4, <2>1, <2>2 DEF Next
<1> QED
  BY <1>2, <1>3, <1>4, FeedCorrect, PTL DEF Spec
=============================================================================
