------------------------- MODULE RecipeStoreProofs --------------------------
(* Proofs about RecipeStore, for any calls, sources and lists of names.       *)
EXTENDS RecipeStore, SequenceTheorems, TLAPS

InTx == {"find", "insert", "lines"}

\* What an open transaction has written so far, by the step call c is at.
TxInv(c) ==
    /\ pc[c] \in {"idle", "write", "done"} => tx[c] = NoTx
    /\ pc[c] \in InTx =>
          \/ req[c].op = "create" /\ tx[c].row = c
          \/ req[c].op = "update" /\ tx[c].row = Old
    /\ pc[c] \in {"find", "insert"} => tx[c].gone = {} /\ tx[c].added = {}
    /\ pc[c] = "insert" => ~Listed(c)
    /\ pc[c] = "lines" =>
          /\ next[c] <= Len(Resolved(req[c])) + 1
          /\ tx[c].gone = LinesOf(tx[c].row)
          /\ tx[c].added = {Line(tx[c].row, c, k) : k \in 1..(next[c] - 1)}

\* What is committed: a recipe has the lines of the write that gave it its
\* fields, all of them and no other, and that write has ended.
Stored ==
    /\ \A i \in Ids : recipes[i] = None => LinesOf(i) = {}
    /\ \A i \in Ids : recipes[i] # None => Whole(i)
    /\ \A i \in Ids : recipes[i] # None => recipes[i].by = Old \/ pc[recipes[i].by] = "done"
    /\ \A c \in Calls : recipes[c] # None => pc[c] = "done"

\* What the row locks and the unique index keep apart.
Locks ==
    /\ \A c, d \in Calls : tx[c].row = Old /\ tx[d].row = Old => c = d
    /\ \A c \in Calls : tx[c].row = Old => recipes[Old] # None
    /\ \A c \in Calls : tx[c].row = c => \A i \in Ids : recipes[i] # None => recipes[i].source # req[c].source
    /\ \A c, d \in Calls : tx[c].row = c /\ tx[d].row = d /\ req[c].source = req[d].source => c = d

\* A write leaves traces only if it was committed; TxInv adds whose lines a
\* transaction holds.
StoreInv == TypeOK /\ (\A c \in Calls : TxInv(c)) /\ Stored /\ Locks /\ AllOrNothing

-----------------------------------------------------------------------------
(* Facts about requests and lines.                                         *)

\* What a request holds, by its kind: the same names, in two orders.
LEMMA RequestFacts ==
  ASSUME NEW q \in Requests
  PROVE  /\ q.op \in {"create", "update", "delete"}
         /\ q.op = "create" => q.source \in Sources
         /\ q.op # "delete" => /\ Resolved(q) \in Seq(Names) /\ Attached(q) \in Seq(Names)
                              /\ Len(Attached(q)) = Len(Resolved(q))
                              /\ \A k \in 1..Len(Attached(q)) : Attached(q)[k] \in Range(Resolved(q))
<1>1. /\ q.op \in {"create", "update", "delete"}
      /\ q.op = "create" => q.source \in Sources
      /\ q.op # "delete" => q.names \in Lists
  BY DEF Requests
<1>2. ASSUME q.op # "delete"
      PROVE  /\ Resolved(q) \in Seq(Names) /\ Attached(q) \in Seq(Names)
             /\ Len(Attached(q)) = Len(Resolved(q))
             /\ \A k \in 1..Len(Attached(q)) : Attached(q)[k] \in Range(Resolved(q))
  <2>1. PICK f \in Seq(Names), g \in Seq(Names) : f = q.names.categories /\ g = q.names.ingredients
    BY <1>1, <1>2, ListAssumption
  <2>2. Resolved(q) = f \o g /\ Attached(q) = g \o f
    BY <2>1 DEF Resolved, Attached
  <2>3. /\ f \o g \in Seq(Names) /\ g \o f \in Seq(Names)
        /\ Len(f) \in Nat /\ Len(g) \in Nat
        /\ Len(f \o g) = Len(f) + Len(g) /\ Len(g \o f) = Len(g) + Len(f)
    OBVIOUS
  <2>4. ASSUME NEW k \in 1..Len(g \o f) PROVE (g \o f)[k] \in Range(f \o g)
    <3>1. CASE k <= Len(g)
      <4>1. (g \o f)[k] = g[k] /\ (f \o g)[Len(f) + k] = g[k] /\ Len(f) + k \in 1..Len(f \o g)
        BY <2>3, <3>1
      <4>2. DOMAIN (f \o g) = 1..Len(f \o g)
        OBVIOUS
      <4> QED
        BY <4>1, <4>2 DEF Range
    <3>2. CASE k > Len(g)
      <4>1. /\ k - Len(g) \in 1..Len(f) /\ k - Len(g) \in 1..Len(f \o g)
            /\ (g \o f)[k] = f[k - Len(g)] /\ (f \o g)[k - Len(g)] = f[k - Len(g)]
        BY <2>3, <3>2
      <4>2. DOMAIN (f \o g) = 1..Len(f \o g)
        OBVIOUS
      <4> QED
        BY <4>1, <4>2 DEF Range
    <3> QED
      BY <2>3, <3>1, <3>2
  <2> QED
    BY <2>2, <2>3, <2>4
<1> QED
  BY <1>1, <1>2

\* The name a call has come to is one of its request's, in either order.
LEMMA NameType ==
  ASSUME StoreInv, NEW c \in Calls, pc[c] \in {"find", "insert", "lines"}, pc[c] = "insert" \/ ~Listed(c)
  PROVE  Name(c) \in Names /\ Name(c) \in Range(Resolved(req[c]))
<1>1. ~Listed(c) /\ req[c] \in Requests /\ next[c] \in Nat \ {0} /\ req[c].op # "delete"
  BY DEF StoreInv, TypeOK, TxInv, InTx
<1>2. /\ Resolved(req[c]) \in Seq(Names) /\ Attached(req[c]) \in Seq(Names)
      /\ Len(Attached(req[c])) = Len(Resolved(req[c]))
      /\ \A k \in 1..Len(Attached(req[c])) : Attached(req[c])[k] \in Range(Resolved(req[c]))
  BY <1>1, RequestFacts
<1>3. next[c] \in 1..Len(Resolved(req[c])) /\ DOMAIN Resolved(req[c]) = 1..Len(Resolved(req[c]))
  BY <1>1, <1>2 DEF Listed
<1>4. Resolved(req[c])[next[c]] \in Range(Resolved(req[c]))
  BY <1>3 DEF Range
<1>5. Name(c) \in Range(Resolved(req[c]))
  BY <1>2, <1>3, <1>4 DEF Name
<1>6. \A x \in Range(Resolved(req[c])) : x \in Names
  BY <1>2, <1>3 DEF Range
<1> QED
  BY <1>5, <1>6

\* The calls committed so far, after one more.
LEMMA Landed ==
  ASSUME NEW s \in Seq(Calls), NEW c \in Calls
  PROVE  Append(s, c) \in Seq(Calls) /\ Range(Append(s, c)) = Range(s) \cup {c}
<1>1. Append(s, c) \in Seq(Calls) /\ Len(Append(s, c)) = Len(s) + 1
  OBVIOUS
<1>2. \A k \in 1..(Len(s) + 1) : Append(s, c)[k] = IF k <= Len(s) THEN s[k] ELSE c
  OBVIOUS
<1>3. Range(Append(s, c)) \subseteq Range(s) \cup {c}
  BY <1>1, <1>2 DEF Range
<1>4. c \in Range(Append(s, c))
  <2>1. Len(s) + 1 \in DOMAIN Append(s, c) /\ Append(s, c)[Len(s) + 1] = c
    OBVIOUS
  <2> QED
    BY <2>1 DEF Range
<1>5. ASSUME NEW x \in Range(s) PROVE x \in Range(Append(s, c))
  <2>1. PICK k \in 1..Len(s) : x = s[k]
    BY <1>5 DEF Range
  <2>2. k \in 1..(Len(s) + 1) /\ Append(s, c)[k] = x
    BY <1>2, <2>1
  <2> QED
    BY <1>1, <2>2 DEF Range
<1> QED
  BY <1>1, <1>3, <1>4, <1>5

-----------------------------------------------------------------------------
(* The store starts in the invariant.                                      *)

\* Nobody writes at first, and Old, if it is there, is whole.
LEMMA StoreInit == Init => StoreInv
<1> SUFFICES ASSUME Init PROVE StoreInv
  OBVIOUS
<1> USE ValueAssumption
<1>1. PICK there \in BOOLEAN :
        /\ recipes = [i \in Ids |-> IF there /\ i = Old THEN [source |-> OldSource, by |-> Old] ELSE None]
        /\ lines = IF there THEN {Line(Old, Old, k) : k \in 1..2} ELSE {}
  BY DEF Init
<1>2. recipes \in [Ids -> [source : Sources, by : Ids] \cup {None}]
  BY <1>1 DEF Ids
<1>3. \A l \in lines : l.recipe = Old /\ l.by = Old
  BY <1>1 DEF Line
<1>4. lines \subseteq AllLines /\ \A l \in lines : l.pos < Length(l.by)
  <2>1. \A k \in 1..2 : Line(Old, Old, k) \in AllLines /\ Line(Old, Old, k).pos < 2 /\ Line(Old, Old, k).by = Old
    BY DEF Line, AllLines, Ids
  <2> QED
    BY <1>1, <2>1 DEF Length
<1>5. lookup \in [Names -> Ids \cup {Seed, None}]
  BY DEF Init, Ids
<1>6. /\ pc = [c \in Calls |-> "idle"] /\ tx = [c \in Calls |-> NoTx]
      /\ result = [c \in Calls |-> "none"] /\ landed = << >> /\ next = [c \in Calls |-> 1]
  BY DEF Init
<1>7. NoTx \in [row : Ids \cup {None}, mine : SUBSET Names, held : SUBSET Names,
                shared : SUBSET Names, gone : SUBSET AllLines, added : SUBSET AllLines]
  BY DEF NoTx
<1>8. req \in [Calls -> Requests \cup {None}]
  BY DEF Init
<1>9. read \in [step : {"row", "ingredients", "categories", "done"}, by : Ids,
                 ingredients : SUBSET AllLines, categories : SUBSET AllLines]
  BY DEF Init, Ids
<1>10. TypeOK
  BY <1>2, <1>4, <1>5, <1>6, <1>7, <1>8, <1>9 DEF TypeOK, Results
<1>11. \A c \in Calls : TxInv(c)
  BY <1>6 DEF TxInv, InTx
<1>12. Stored
  <2>1. ASSUME NEW i \in Ids, recipes[i] = None PROVE LinesOf(i) = {}
    BY <1>1, <2>1 DEF LinesOf, Line, Ids
  <2>2. ASSUME NEW i \in Ids, recipes[i] # None PROVE Whole(i) /\ i = Old /\ recipes[i].by = Old
    <3>1. there /\ i = Old /\ recipes[i].by = Old
      BY <1>1, <2>2
    <3>2. LinesOf(i) = {Line(Old, Old, k) : k \in 1..2}
      BY <1>1, <1>3, <3>1 DEF LinesOf
    <3> QED
      BY <3>1, <3>2 DEF Whole, Length
  <2> QED
    BY <2>1, <2>2 DEF Stored, Ids
<1>13. Locks
  BY <1>6 DEF Locks, NoTx, Ids
<1>14. AllOrNothing
  <2>1. \A n \in Names : lookup[n] \in {Old, None}
    BY DEF Init
  <2>2. \A i \in Ids : recipes[i] # None => recipes[i].by = Old
    BY <1>1
  <2>3. \A l \in lines : l.by = Old
    BY <1>1, <1>3
  <2> QED
    BY <1>6, <2>1, <2>2, <2>3 DEF AllOrNothing
<1> QED
  BY <1>10, <1>11, <1>12, <1>13, <1>14 DEF StoreInv
-----------------------------------------------------------------------------
(* Steps that change one call, and nothing that is committed.              *)

TxType == [row : Ids \cup {None}, mine : SUBSET Names, held : SUBSET Names,
           shared : SUBSET Names, gone : SUBSET AllLines, added : SUBSET AllLines]

\* One transaction changes.
LEMMA TxStep ==
  ASSUME StoreInv, NEW c \in Calls, NEW t \in TxType, tx' = [tx EXCEPT ![c] = t]
  PROVE  tx' \in [Calls -> TxType] /\ tx'[c] = t /\ \A d \in Calls \ {c} : tx'[d] = tx[d]
<1>1. tx \in [Calls -> TxType]
  BY DEF StoreInv, TypeOK, TxType
<1> QED
  BY <1>1

\* Every line is of a recipe that is there, and of the write that made it.
LEMMA LineOwner ==
  ASSUME StoreInv, NEW l \in lines
  PROVE  l.recipe \in Ids /\ recipes[l.recipe] # None /\ l.by = recipes[l.recipe].by
<1>1. l.recipe \in Ids /\ l \in LinesOf(l.recipe)
  BY DEF StoreInv, TypeOK, AllLines, LinesOf
<1>2. recipes[l.recipe] # None
  BY <1>1 DEF StoreInv, Stored
<1>3. l \in {Line(l.recipe, recipes[l.recipe].by, k) : k \in 1..Length(recipes[l.recipe].by)}
  BY <1>1, <1>2 DEF StoreInv, Stored, Whole
<1> QED
  BY <1>1, <1>2, <1>3 DEF Line

\* What is committed does not depend on a call that has not ended.
LEMMA Elsewhere ==
  ASSUME StoreInv, NEW c \in Calls, pc[c] # "done", UNCHANGED <<recipes, lines>>,
         \A d \in Calls \ {c} : /\ pc'[d] = pc[d] /\ next'[d] = next[d]
                               /\ tx'[d] = tx[d] /\ req'[d] = req[d],
         TxInv(c)'
  PROVE  (\A d \in Calls : TxInv(d)') /\ Stored' /\ \A l \in lines' : l.pos < Length(l.by)'
<1> USE ValueAssumption
<1>1. \A i : LinesOf(i)' = LinesOf(i)
  BY DEF LinesOf
<1>2. ASSUME NEW d \in Calls, d # c PROVE TxInv(d)'
  <2>1. TxInv(d)
    BY DEF StoreInv
  <2>2. pc'[d] = pc[d] /\ next'[d] = next[d] /\ tx'[d] = tx[d] /\ req'[d] = req[d]
    BY <1>2
  <2>3. Listed(d)' = Listed(d)
    BY <2>2 DEF Listed
  <2> QED
    BY <1>1, <2>1, <2>2, <2>3 DEF TxInv, InTx
<1>3. ASSUME NEW i \in Ids, recipes[i] # None
      PROVE  /\ recipes[i].by = Old \/ pc'[recipes[i].by] = "done"
             /\ Length(recipes[i].by)' = Length(recipes[i].by)
  <2>1. recipes[i].by \in Ids
    BY <1>3 DEF StoreInv, TypeOK
  <2>2. recipes[i].by = Old \/ (recipes[i].by \in Calls /\ recipes[i].by # c /\ pc[recipes[i].by] = "done")
    BY <1>3, <2>1 DEF StoreInv, Stored, Ids
  <2> QED
    BY <2>2 DEF Length
<1>4. ASSUME NEW i \in Ids, recipes[i] # None PROVE Whole(i)'
  <2>1. Whole(i)
    BY <1>4 DEF StoreInv, Stored
  <2> QED
    BY <1>1, <1>3, <1>4, <2>1 DEF Whole
<1>5. ASSUME NEW d \in Calls, recipes[d] # None PROVE pc'[d] = "done"
  BY <1>5 DEF StoreInv, Stored
<1>6. Stored'
  <2>1. \A i \in Ids : recipes[i] = None => LinesOf(i) = {}
    BY DEF StoreInv, Stored
  <2> QED
    BY <1>1, <1>3, <1>4, <1>5, <2>1 DEF Stored
<1>7. ASSUME NEW l \in lines PROVE l.pos < Length(l.by)'
  <2>1. l.pos < Length(l.by)
    BY DEF StoreInv, TypeOK
  <2>2. Length(l.by)' = Length(l.by)
    BY <1>3, LineOwner
  <2> QED
    BY <2>1, <2>2
<1> QED
  BY <1>2, <1>6, <1>7

\* A call that takes no row lock leaves the locks as they are.
LEMMA NoNewLock ==
  ASSUME StoreInv, NEW c \in Calls, UNCHANGED recipes,
         \A d \in Calls \ {c} : tx'[d] = tx[d] /\ req'[d] = req[d],
         tx'[c].row = None \/ (tx'[c].row = tx[c].row /\ req'[c] = req[c])
  PROVE  Locks'
<1> USE ValueAssumption
<1>1. \A d \in Calls : tx'[d].row \in {None, tx[d].row} /\ (tx'[d].row # None => req'[d] = req[d])
  OBVIOUS
<1>2. None # Old /\ \A d \in Calls : d # None
  BY DEF Ids
<1> QED
  BY <1>1, <1>2 DEF StoreInv, Locks

\* Putting the pieces of the invariant together.
LEMMA LocalStep ==
  ASSUME StoreInv, NEW c \in Calls, pc[c] # "done", UNCHANGED <<db, landed, read>>,
         \A d \in Calls \ {c} : /\ pc'[d] = pc[d] /\ next'[d] = next[d]
                               /\ tx'[d] = tx[d] /\ req'[d] = req[d],
         pc' \in [Calls -> {"idle", "write", "find", "insert", "lines", "done"}],
         req' \in [Calls -> Requests \cup {None}],
         req'[c] \in Requests,
         next' \in [Calls -> Nat \ {0}],
         tx' \in [Calls -> TxType],
         result' \in [Calls -> Results],
         \A d \in Calls : result'[d] = "ok" => result[d] = "ok",
         TxInv(c)', Locks'
  PROVE  StoreInv'
<1>1. UNCHANGED <<recipes, lines, lookup>>
  BY DEF db
<1>2. (\A d \in Calls : TxInv(d)') /\ Stored' /\ \A l \in lines' : l.pos < Length(l.by)'
  BY <1>1, Elsewhere
<1>3. \A d \in Calls : pc'[d] # "idle" => req'[d] \in Requests
  BY DEF StoreInv, TypeOK
<1>4. TypeOK'
  BY <1>1, <1>2, <1>3 DEF StoreInv, TypeOK, TxType
<1>5. AllOrNothing'
  BY <1>1 DEF StoreInv, AllOrNothing
<1> QED
  BY <1>2, <1>4, <1>5 DEF StoreInv

-----------------------------------------------------------------------------
(* One lemma per action.                                                   *)

\* An answer without a commit: the transaction, if there was one, is undone.
LEMMA AnswerKeeps ==
  ASSUME StoreInv, NEW c \in Calls, NEW a \in Results \ {"ok"},
         pc[c] \notin {"idle", "done"}, Answer(c, a), UNCHANGED <<db, req, next, landed, read>>
  PROVE  StoreInv'
<1> USE ValueAssumption
<1>1. /\ pc' = [pc EXCEPT ![c] = "done"]
      /\ tx' = [tx EXCEPT ![c] = NoTx]
      /\ result' = [result EXCEPT ![c] = a]
  BY DEF Answer, GoTo, Rollback
<1>2. NoTx \in TxType /\ NoTx.row = None
  BY DEF NoTx, TxType
<1>3. req[c] \in Requests
  BY DEF StoreInv, TypeOK
<1>4. pc'[c] = "done" /\ tx'[c] = NoTx
  BY <1>1 DEF StoreInv, TypeOK
<1>5. TxInv(c)'
  BY <1>4 DEF TxInv, InTx, NoTx
<1>6. Locks'
  BY <1>1, <1>2, <1>4, NoNewLock DEF StoreInv, TypeOK, db
<1>7. tx' \in [Calls -> TxType]
  BY <1>1, <1>2 DEF StoreInv, TypeOK, TxType
<1>8. /\ pc' \in [Calls -> {"idle", "write", "find", "insert", "lines", "done"}]
      /\ req' \in [Calls -> Requests \cup {None}]
      /\ next' \in [Calls -> Nat \ {0}]
      /\ result' \in [Calls -> Results]
  BY <1>1 DEF StoreInv, TypeOK
<1>9. \A d \in Calls : result'[d] = "ok" => result[d] = "ok"
  BY <1>1 DEF StoreInv, TypeOK
<1>10. \A d \in Calls \ {c} : /\ pc'[d] = pc[d] /\ next'[d] = next[d]
                              /\ tx'[d] = tx[d] /\ req'[d] = req[d]
  BY <1>1 DEF StoreInv, TypeOK
<1> QED
  BY <1>3, <1>5, <1>6, <1>7, <1>8, <1>9, <1>10, LocalStep

\* A call starts.
LEMMA StartKeeps ==
  ASSUME StoreInv, NEW c \in Calls, Start(c)
  PROVE  StoreInv'
<1> USE ValueAssumption
<1>1. PICK q \in Requests : req' = [req EXCEPT ![c] = q]
  BY DEF Start
<1>2. /\ pc[c] = "idle" /\ pc' = [pc EXCEPT ![c] = "write"]
      /\ UNCHANGED <<db, next, tx, result, landed, read>>
  BY DEF Start, GoTo
<1>3. tx[c] = NoTx
  BY <1>2 DEF StoreInv, TxInv
<1>4. pc'[c] = "write" /\ tx'[c] = NoTx /\ req'[c] = q
  BY <1>1, <1>2, <1>3 DEF StoreInv, TypeOK
<1>5. TxInv(c)'
  BY <1>4 DEF TxInv, InTx
<1>6. \A d \in Calls \ {c} : /\ pc'[d] = pc[d] /\ next'[d] = next[d]
                              /\ tx'[d] = tx[d] /\ req'[d] = req[d]
  BY <1>1, <1>2 DEF StoreInv, TypeOK
<1>7. Locks'
  BY <1>2, <1>4, <1>6, NoNewLock DEF NoTx, db
<1>8. /\ pc' \in [Calls -> {"idle", "write", "find", "insert", "lines", "done"}]
      /\ req' \in [Calls -> Requests \cup {None}]
      /\ next' \in [Calls -> Nat \ {0}]
      /\ tx' \in [Calls -> TxType]
      /\ result' \in [Calls -> Results]
  BY <1>1, <1>2 DEF StoreInv, TypeOK, TxType
<1> QED
  BY <1>2, <1>4, <1>5, <1>6, <1>7, <1>8, LocalStep

\* A step inside a call's transaction that keeps its row.
LEMMA InsideKeeps ==
  ASSUME StoreInv, NEW c \in Calls, NEW to \in InTx, pc[c] \in InTx,
         pc' = [pc EXCEPT ![c] = to], next' \in [Calls -> Nat \ {0}], tx' \in [Calls -> TxType],
         \A d \in Calls \ {c} : next'[d] = next[d] /\ tx'[d] = tx[d],
         tx'[c].row = tx[c].row, TxInv(c)',
         UNCHANGED <<db, req, result, landed, read>>
  PROVE  StoreInv'
<1>1. pc[c] # "done" /\ req[c] \in Requests
  BY DEF StoreInv, TypeOK, InTx
<1>2. Locks'
  BY NoNewLock DEF db
<1>3. pc' \in [Calls -> {"idle", "write", "find", "insert", "lines", "done"}]
  BY DEF StoreInv, TypeOK, InTx
<1>4. \A d \in Calls \ {c} : pc'[d] = pc[d] /\ req'[d] = req[d]
  BY DEF StoreInv, TypeOK
<1>5. req' \in [Calls -> Requests \cup {None}] /\ result' \in [Calls -> Results]
  BY DEF StoreInv, TypeOK
<1> QED
  BY <1>1, <1>2, <1>3, <1>4, <1>5, LocalStep

\* An insert or update that finds no obstacle locks its row.
LEMMA LockKeeps ==
  ASSUME StoreInv, NEW c \in Calls, NEW i \in {c, Old},
         pc[c] = "write", pc' = [pc EXCEPT ![c] = "find"], tx' = [tx EXCEPT ![c].row = i],
         req[c].op = IF i = c THEN "create" ELSE "update",
         UNCHANGED <<db, req, next, result, landed, read>>,
         Locks'
  PROVE  StoreInv'
<1> USE ValueAssumption
<1>1. req[c] \in Requests /\ tx[c] = NoTx
  BY DEF StoreInv, TypeOK, TxInv
<1>2. c # Old /\ i \in Ids
  BY DEF Ids
<1>3. tx[c] \in TxType
  BY DEF StoreInv, TypeOK, TxType
<1>4. tx' \in [Calls -> TxType]
  <2>1. [tx[c] EXCEPT !.row = i] \in TxType
    BY <1>2, <1>3 DEF TxType
  <2>2. tx' = [tx EXCEPT ![c] = [tx[c] EXCEPT !.row = i]]
    OBVIOUS
  <2> QED
    BY <2>1, <2>2, TxStep
<1>5. pc'[c] = "find" /\ tx'[c].row = i /\ tx'[c].gone = {} /\ tx'[c].added = {}
  BY <1>1 DEF StoreInv, TypeOK, NoTx
<1>6. TxInv(c)'
  BY <1>2, <1>5 DEF TxInv, InTx
<1>7. /\ pc' \in [Calls -> {"idle", "write", "find", "insert", "lines", "done"}]
      /\ req' \in [Calls -> Requests \cup {None}]
      /\ next' \in [Calls -> Nat \ {0}]
      /\ result' \in [Calls -> Results]
  BY DEF StoreInv, TypeOK
<1>8. \A d \in Calls \ {c} : /\ pc'[d] = pc[d] /\ next'[d] = next[d]
                              /\ tx'[d] = tx[d] /\ req'[d] = req[d]
  BY DEF StoreInv, TypeOK
<1> QED
  BY <1>1, <1>4, <1>6, <1>7, <1>8, LocalStep

\* Create's insert.
LEMMA CreateKeeps ==
  ASSUME StoreInv, NEW c \in Calls, CreateRecipe(c)
  PROVE  StoreInv'
<1> USE ValueAssumption
<1>1. pc[c] = "write" /\ req[c].op = "create" /\ UNCHANGED <<db, req, next, landed, read>>
  BY DEF CreateRecipe
<1>2. CASE Conflict(c) /\ Answer(c, "duplicate")
  BY <1>1, <1>2, AnswerKeeps DEF Results
<1>3. CASE /\ ~Conflict(c) /\ Blockers(c) = {}
           /\ tx' = [tx EXCEPT ![c].row = c] /\ GoTo(c, "find") /\ UNCHANGED result
  <2>1. \A i \in Ids : recipes[i] # None => recipes[i].source # req[c].source
    BY <1>3 DEF Conflict, StoredAs
  <2>2. RowBlockers(c) = {}
    BY <1>1, <1>3 DEF Blockers
  <2>3. \A d \in Calls : tx[d].row = d => req[d].source # req[c].source
    BY <1>1, <1>3, <2>2 DEF RowBlockers, Conflict
  <2>4. \A d \in Calls : d # Old
    OBVIOUS
  <2>5. \A d \in Calls : tx'[d].row = IF d = c THEN c ELSE tx[d].row
    BY <1>3 DEF StoreInv, TypeOK
  <2>6. Locks'
    BY <1>1, <2>1, <2>3, <2>4, <2>5 DEF StoreInv, Locks, db
  <2> QED
    BY <1>1, <1>3, <2>6, LockKeeps DEF GoTo
<1> QED
  BY <1>2, <1>3 DEF CreateRecipe

\* Update's first statement.
LEMMA UpdateKeeps ==
  ASSUME StoreInv, NEW c \in Calls, UpdateRecipe(c)
  PROVE  StoreInv'
<1> USE ValueAssumption
<1>1. pc[c] = "write" /\ req[c].op = "update" /\ UNCHANGED <<db, req, next, landed, read>>
  BY DEF UpdateRecipe
<1>2. CASE recipes[Old] = None /\ Answer(c, "notfound")
  BY <1>1, <1>2, AnswerKeeps DEF Results
<1>3. CASE /\ recipes[Old] # None /\ Blockers(c) = {}
           /\ tx' = [tx EXCEPT ![c].row = Old] /\ GoTo(c, "find") /\ UNCHANGED result
  <2>1. RowBlockers(c) = {}
    BY <1>1, <1>3 DEF Blockers
  <2>2. \A d \in Calls : tx[d].row # Old /\ d # Old
    BY <1>1, <1>3, <2>1 DEF RowBlockers
  <2>3. \A d \in Calls : tx'[d].row = IF d = c THEN Old ELSE tx[d].row
    BY <1>3 DEF StoreInv, TypeOK
  <2>4. Locks'
    BY <1>1, <1>3, <2>2, <2>3 DEF StoreInv, Locks, db
  <2> QED
    BY <1>1, <1>3, <2>2, <2>4, LockKeeps DEF GoTo
<1> QED
  BY <1>2, <1>3 DEF UpdateRecipe

\* Resolving one name, by a read or an insert.
LEMMA ResolveKeeps ==
  ASSUME StoreInv, NEW c \in Calls, FindName(c) \/ InsertName(c)
  PROVE  StoreInv'
<1> USE ValueAssumption
<1>1. pc[c] \in {"find", "insert"} /\ ~Listed(c) /\ UNCHANGED <<db, req, result, landed, read>>
  BY DEF FindName, InsertName, StoreInv, TxInv
<1>2. PICK to \in {"find", "insert"} : pc' = [pc EXCEPT ![c] = to]
  BY DEF FindName, InsertName, Advance, GoTo
<1>3. next' = [next EXCEPT ![c] = @ + 1] \/ (next' = next /\ to = "insert")
  <2>1. CASE FindName(c) /\ Seen(c)
    BY <2>1 DEF FindName, Advance
  <2>2. CASE FindName(c) /\ ~Seen(c)
    BY <1>1, <1>2, <2>2 DEF FindName, GoTo, StoreInv, TypeOK
  <2>3. CASE InsertName(c)
    BY <2>3 DEF InsertName, Advance
  <2> QED
    BY <2>1, <2>2, <2>3
<1>4. to = "insert" => next' = next
  <2>1. CASE FindName(c) /\ Seen(c)
    BY <1>1, <1>2, <2>1 DEF FindName, Advance, GoTo, StoreInv, TypeOK
  <2>2. CASE FindName(c) /\ ~Seen(c)
    BY <2>2 DEF FindName
  <2>3. CASE InsertName(c)
    BY <1>1, <1>2, <2>3 DEF InsertName, Advance, GoTo, StoreInv, TypeOK
  <2> QED
    BY <2>1, <2>2, <2>3
<1>5. next' \in [Calls -> Nat \ {0}] /\ \A d \in Calls \ {c} : next'[d] = next[d]
  BY <1>3 DEF StoreInv, TypeOK
<1>6. req[c] \in Requests /\ req[c].op # "delete"
  BY <1>1 DEF StoreInv, TypeOK, TxInv, InTx
<1>7. Name(c) \in Names
  BY <1>1, NameType
<1>8. \/ tx' = tx
      \/ tx' = [tx EXCEPT ![c].mine = @ \cup {Name(c)}]
      \/ tx' = [tx EXCEPT ![c].held = @ \cup {Name(c)}]
  BY DEF FindName, InsertName
<1>9. tx[c] \in TxType
  BY DEF StoreInv, TypeOK, TxType
<1>10. tx' \in [Calls -> TxType]
  <2>1. /\ [tx[c] EXCEPT !.mine = tx[c].mine \cup {Name(c)}] \in TxType
        /\ [tx[c] EXCEPT !.held = tx[c].held \cup {Name(c)}] \in TxType
    <3>1. /\ tx[c].mine \cup {Name(c)} \in SUBSET Names
          /\ tx[c].held \cup {Name(c)} \in SUBSET Names
      BY <1>7, <1>9 DEF TxType
    <3> QED
      BY <1>9, <3>1 DEF TxType
  <2>2. \/ tx' = tx
        \/ tx' = [tx EXCEPT ![c] = [tx[c] EXCEPT !.mine = tx[c].mine \cup {Name(c)}]]
        \/ tx' = [tx EXCEPT ![c] = [tx[c] EXCEPT !.held = tx[c].held \cup {Name(c)}]]
    BY <1>8
  <2>3. tx \in [Calls -> TxType]
    BY DEF StoreInv, TypeOK, TxType
  <2> QED
    BY <2>1, <2>2, <2>3, TxStep
<1>11. /\ tx'[c].row = tx[c].row /\ tx'[c].gone = tx[c].gone /\ tx'[c].added = tx[c].added
       /\ \A d \in Calls \ {c} : tx'[d] = tx[d]
  BY <1>8, <1>9 DEF StoreInv, TypeOK, TxType
<1>12. pc'[c] = to
  BY <1>2 DEF StoreInv, TypeOK
<1>13. to = "insert" => ~Listed(c)'
  BY <1>1, <1>4 DEF Listed
<1>14. TxInv(c)'
  BY <1>1, <1>2, <1>11, <1>12, <1>13 DEF StoreInv, TxInv, InTx
<1> QED
  BY <1>1, <1>2, <1>5, <1>10, <1>11, <1>14, InsideKeeps DEF InTx

\* The old lines are deleted.
LEMMA ClearKeeps ==
  ASSUME StoreInv, NEW c \in Calls, ClearLines(c)
  PROVE  StoreInv'
<1> USE ValueAssumption
<1>1. /\ pc[c] = "find" /\ pc' = [pc EXCEPT ![c] = "lines"]
      /\ tx' = [tx EXCEPT ![c].gone = LinesOf(tx[c].row)] /\ next' = [next EXCEPT ![c] = 1]
      /\ UNCHANGED <<db, req, result, landed, read>>
  BY DEF ClearLines, GoTo
<1>2. tx[c] \in TxType /\ LinesOf(tx[c].row) \subseteq AllLines
  BY DEF StoreInv, TypeOK, TxType, LinesOf
<1>3. tx' \in [Calls -> TxType]
  BY <1>1, <1>2 DEF StoreInv, TypeOK, TxType
<1>4. /\ pc'[c] = "lines" /\ next'[c] = 1
      /\ tx'[c].row = tx[c].row /\ tx'[c].gone = LinesOf(tx[c].row) /\ tx'[c].added = {}
  BY <1>1, <1>2 DEF StoreInv, TypeOK, TxType, TxInv
<1>5. req[c] \in Requests /\ req[c].op # "delete"
  BY <1>1 DEF StoreInv, TypeOK, TxInv, InTx
<1>6. 1 <= Len(Resolved(req[c])) + 1
  BY <1>5, RequestFacts
<1>7. \A i : LinesOf(i)' = LinesOf(i)
  BY <1>1 DEF LinesOf, db
<1>8. {Line(tx'[c].row, c, k) : k \in 1..(next'[c] - 1)} = {}
  BY <1>4
<1>9. TxInv(c)'
  BY <1>1, <1>4, <1>6, <1>7, <1>8 DEF StoreInv, TxInv, InTx
<1>10. /\ next' \in [Calls -> Nat \ {0}]
       /\ \A d \in Calls \ {c} : next'[d] = next[d] /\ tx'[d] = tx[d]
  BY <1>1 DEF StoreInv, TypeOK
<1> QED
  BY <1>1, <1>3, <1>4, <1>9, <1>10, InsideKeeps DEF InTx

\* One new line.
LEMMA AddKeeps ==
  ASSUME StoreInv, NEW c \in Calls, AddLine(c)
  PROVE  StoreInv'
<1> USE ValueAssumption
<1> DEFINE new == Line(tx[c].row, c, next[c])
<1>1. /\ pc[c] = "lines" /\ ~Listed(c) /\ pc' = [pc EXCEPT ![c] = "lines"]
      /\ next' = [next EXCEPT ![c] = @ + 1]
      /\ tx' = [tx EXCEPT ![c].added = @ \cup {new}, ![c].shared = @ \cup {Name(c)}]
      /\ UNCHANGED <<db, req, result, landed, read>>
  BY DEF AddLine, Advance, GoTo
<1>2. req[c] \in Requests /\ req[c].op # "delete" /\ tx[c].row \in Ids
  BY <1>1 DEF StoreInv, TypeOK, TxInv, InTx, Ids
<1>3. Resolved(req[c]) \in Seq(Names) /\ next[c] \in 1..Len(Resolved(req[c]))
  BY <1>1, <1>2, RequestFacts DEF Listed, StoreInv, TypeOK
<1>4. Name(c) \in Names
  BY <1>1, NameType
<1>5. new \in AllLines
  BY <1>2, <1>3 DEF Line, AllLines, Ids
<1>6. tx[c] \in TxType
  BY DEF StoreInv, TypeOK, TxType
<1>7. tx'[c] = [tx[c] EXCEPT !.added = @ \cup {new}, !.shared = @ \cup {Name(c)}]
  BY <1>1 DEF StoreInv, TypeOK
<1>8. /\ tx'[c] \in TxType
      /\ tx'[c].row = tx[c].row /\ tx'[c].gone = tx[c].gone /\ tx'[c].added = tx[c].added \cup {new}
  <2>1. tx[c].added \cup {new} \in SUBSET AllLines /\ tx[c].shared \cup {Name(c)} \in SUBSET Names
    BY <1>4, <1>5, <1>6 DEF TxType
  <2>2. tx'[c] = [tx[c] EXCEPT !.added = tx[c].added \cup {new}, !.shared = tx[c].shared \cup {Name(c)}]
    BY <1>7
  <2> HIDE DEF new
  <2> QED
    BY <1>6, <2>1, <2>2 DEF TxType
<1>9. \A d \in Calls \ {c} : tx'[d] = tx[d]
  BY <1>1 DEF StoreInv, TypeOK
<1>10. tx' \in [Calls -> TxType]
  <2>1. tx' = [d \in Calls |-> tx'[d]]
    BY <1>1 DEF StoreInv, TypeOK
  <2>2. \A d \in Calls : tx[d] \in TxType
    BY DEF StoreInv, TypeOK, TxType
  <2>3. \A d \in Calls : tx'[d] \in TxType
    BY <1>8, <1>9, <2>2
  <2> QED
    BY <2>1, <2>3
<1>11. pc'[c] = "lines" /\ next'[c] = next[c] + 1 /\ next[c] \in Nat
  BY <1>1 DEF StoreInv, TypeOK
<1>12. {Line(tx[c].row, c, k) : k \in 1..next[c]} = {Line(tx[c].row, c, k) : k \in 1..(next[c] - 1)} \cup {new}
  BY <1>3
<1>13. next'[c] - 1 = next[c] /\ next'[c] <= Len(Resolved(req[c])) + 1
  BY <1>3, <1>11
<1>14. tx'[c].added = {Line(tx'[c].row, c, k) : k \in 1..(next'[c] - 1)}
  <2>1. tx[c].added = {Line(tx[c].row, c, k) : k \in 1..(next[c] - 1)}
    BY <1>1 DEF StoreInv, TxInv
  <2> HIDE DEF new
  <2> QED
    BY <1>8, <1>12, <1>13, <2>1
<1>15. \A i : LinesOf(i)' = LinesOf(i)
  BY <1>1 DEF LinesOf, db
<1>16. TxInv(c)'
  BY <1>1, <1>8, <1>11, <1>13, <1>14, <1>15 DEF StoreInv, TxInv, InTx
<1>17. next' \in [Calls -> Nat \ {0}] /\ \A d \in Calls \ {c} : next'[d] = next[d]
  BY <1>1 DEF StoreInv, TypeOK
<1> QED
  BY <1>1, <1>8, <1>9, <1>10, <1>16, <1>17, InsideKeeps DEF InTx

-----------------------------------------------------------------------------
(* Steps that commit.                                                      *)

\* The transactions, and the recipes other than i, after a step.
Others(i) ==
    /\ \A d \in Calls : TxInv(d)'
    /\ \A j \in Ids \ {i} :
          /\ recipes'[j] = None => LinesOf(j)' = {}
          /\ recipes'[j] # None => Whole(j)' /\ (recipes'[j].by = Old \/ pc'[recipes'[j].by] = "done")

\* A call that ends and changes recipe i, which no other has locked, leaves the
\* other recipes and transactions as they are.
LEMMA Aside ==
  ASSUME StoreInv, NEW c \in Calls, NEW i \in Ids, pc[c] \notin {"idle", "done"},
         pc' = [pc EXCEPT ![c] = "done"], tx' = [tx EXCEPT ![c] = NoTx], UNCHANGED <<req, next>>,
         \A d \in Calls \ {c} : tx[d].row # i,
         \A j \in Ids \ {i} : recipes'[j] = recipes[j] /\ LinesOf(j)' = LinesOf(j)
  PROVE  Others(i)
<1> USE ValueAssumption
<1>1. pc'[c] = "done" /\ tx'[c] = NoTx /\ \A d \in Calls \ {c} : pc'[d] = pc[d] /\ tx'[d] = tx[d]
  BY DEF StoreInv, TypeOK
<1>2. TxInv(c)'
  BY <1>1 DEF TxInv, InTx
<1>3. ASSUME NEW d \in Calls, d # c PROVE TxInv(d)'
  <2>1. TxInv(d) /\ pc'[d] = pc[d] /\ tx'[d] = tx[d]
    BY <1>1, <1>3 DEF StoreInv
  <2>2. Listed(d)' = Listed(d)
    BY DEF Listed
  <2>3. pc[d] = "lines" => tx[d].row \in Ids \ {i}
    BY <1>3, <2>1 DEF TxInv, InTx, Ids
  <2>4. CASE pc[d] = "lines"
    <3>1. PICK r \in Ids \ {i} : r = tx[d].row
      BY <2>3, <2>4
    <3>2. tx[d].gone = LinesOf(r) /\ LinesOf(r)' = LinesOf(r)
      BY <2>1, <2>4, <3>1 DEF TxInv
    <3>3. tx'[d].gone = {l \in lines' : l.recipe = tx'[d].row}
      BY <2>1, <3>1, <3>2 DEF LinesOf
    <3> QED
      BY <2>1, <2>4, <3>3 DEF TxInv, InTx, LinesOf
  <2>5. CASE pc[d] # "lines"
    BY <2>1, <2>2, <2>5 DEF TxInv, InTx
  <2> QED
    BY <2>4, <2>5
<1>4. ASSUME NEW j \in Ids, j # i, recipes'[j] = None PROVE LinesOf(j)' = {}
  BY <1>4 DEF StoreInv, Stored
<1>5. ASSUME NEW j \in Ids, j # i, recipes'[j] # None
      PROVE  Whole(j)' /\ (recipes'[j].by = Old \/ pc'[recipes'[j].by] = "done")
  <2>1. recipes'[j] = recipes[j] /\ LinesOf(j)' = LinesOf(j) /\ recipes[j].by \in Ids /\ Whole(j)
    BY <1>5 DEF StoreInv, Stored, TypeOK
  <2>2. recipes[j].by = Old \/ (recipes[j].by \in Calls \ {c} /\ pc[recipes[j].by] = "done")
    BY <1>5, <2>1 DEF StoreInv, Stored, Ids
  <2>3. recipes'[j].by = Old \/ pc'[recipes'[j].by] = "done"
    BY <1>1, <2>1, <2>2
  <2>4. PICK b \in Ids : b = recipes[j].by
    BY <2>1
  <2>5. Length(b)' = Length(b)
    BY DEF Length
  <2>6. LinesOf(j)' = {Line(j, b, k) : k \in 1..Length(b)'}
    BY <2>1, <2>4, <2>5 DEF Whole
  <2>7. Length(recipes[j].by)' = Length(b)'
    BY <2>1, <2>4 DEF Length
  <2> QED
    BY <2>1, <2>3, <2>4, <2>6, <2>7 DEF Whole
<1> QED
  BY <1>2, <1>3, <1>4, <1>5 DEF Others

\* What a transaction that has reached its end has made of its recipe.
Lands(c, i) ==
    /\ i \in Ids /\ req[c] \in Requests /\ Resolved(req[c]) \in Seq(Names)
    /\ \/ /\ req[c].op = "create" /\ i = c /\ recipes[c] = None
          /\ recipes'[c] = [source |-> req[c].source, by |-> c]
       \/ /\ req[c].op = "update" /\ i = Old /\ recipes[Old] # None
          /\ recipes'[Old] = [source |-> recipes[Old].source, by |-> c]
    /\ recipes'[i] \in [source : Sources, by : Ids]
    /\ \A j \in Ids \ {i} : recipes'[j] = recipes[j] /\ LinesOf(j)' = LinesOf(j)
    /\ LinesOf(i)' = {Line(i, c, k) : k \in 1..Len(Resolved(req[c]))}
    /\ \A d \in Calls \ {c} : tx[d].row # i

LEMMA AtCommit ==
  ASSUME StoreInv, NEW c \in Calls, Commit(c), NEW i, i = tx[c].row
  PROVE  Lands(c, i)
<1> USE ValueAssumption
<1>1. pc[c] = "lines" /\ Listed(c)
  BY DEF Commit
<1>2. req[c] \in Requests
  BY <1>1 DEF StoreInv, TypeOK
<1>3. \/ req[c].op = "create" /\ i = c
      \/ req[c].op = "update" /\ i = Old
  BY <1>1 DEF StoreInv, TxInv, InTx
<1>4. i \in Ids /\ Resolved(req[c]) \in Seq(Names) /\ c # Old /\ c \in Ids
  BY <1>2, <1>3, RequestFacts DEF Ids
<1>5. next[c] - 1 = Len(Resolved(req[c]))
  BY <1>1, <1>4 DEF StoreInv, TypeOK, TxInv, Listed
<1>6. lines' = (lines \ LinesOf(i)) \cup {Line(i, c, k) : k \in 1..Len(Resolved(req[c]))}
  <2>1. tx[c].gone = LinesOf(i) /\ tx[c].added = {Line(i, c, k) : k \in 1..(next[c] - 1)}
    BY <1>1 DEF StoreInv, TxInv
  <2>2. lines' = (lines \ tx[c].gone) \cup tx[c].added
    BY DEF Commit
  <2> QED
    BY <1>5, <2>1, <2>2
<1>7. \A l \in {Line(i, c, k) : k \in 1..Len(Resolved(req[c]))} : l.recipe = i
  BY DEF Line
<1>8. \A j \in Ids \ {i} : LinesOf(j)' = LinesOf(j)
  BY <1>6, <1>7 DEF LinesOf
<1>9. LinesOf(i)' = {Line(i, c, k) : k \in 1..Len(Resolved(req[c]))}
  BY <1>6, <1>7 DEF LinesOf
<1>10. recipes' = [recipes EXCEPT ![i] = IF req[c].op = "create" THEN [source |-> req[c].source, by |-> c]
                                                               ELSE [@ EXCEPT !.by = c]]
  BY DEF Commit
<1>11. \A j \in Ids \ {i} : recipes'[j] = recipes[j]
  BY <1>10 DEF StoreInv, TypeOK
<1>12. ASSUME req[c].op = "create", i = c
       PROVE  /\ recipes[c] = None /\ recipes'[c] = [source |-> req[c].source, by |-> c]
              /\ recipes'[i] \in [source : Sources, by : Ids]
  <2>1. recipes[c] = None
    BY <1>1 DEF StoreInv, Stored
  <2>2. recipes'[c] = [source |-> req[c].source, by |-> c]
    BY <1>4, <1>10, <1>12 DEF StoreInv, TypeOK
  <2>3. req[c].source \in Sources
    BY <1>2, <1>12, RequestFacts
  <2> QED
    BY <1>4, <1>12, <2>1, <2>2, <2>3
<1>13. ASSUME req[c].op = "update", i = Old
       PROVE  /\ recipes[Old] # None /\ recipes'[Old] = [source |-> recipes[Old].source, by |-> c]
              /\ recipes'[i] \in [source : Sources, by : Ids]
  <2>1. recipes[Old] # None /\ recipes[Old] \in [source : Sources, by : Ids]
    <3>1. recipes[Old] # None
      BY <1>13 DEF StoreInv, Locks
    <3>2. recipes \in [Ids -> [source : Sources, by : Ids] \cup {None}] /\ Old \in Ids
      BY DEF StoreInv, TypeOK, Ids
    <3> QED
      BY <3>1, <3>2
  <2>2. recipes'[Old] = [recipes[Old] EXCEPT !.by = c]
    BY <1>4, <1>10, <1>13 DEF StoreInv, TypeOK
  <2>3. recipes'[Old] = [source |-> recipes[Old].source, by |-> c]
    BY <2>1, <2>2
  <2> QED
    BY <1>4, <1>13, <2>1, <2>3
<1>14. \A d \in Calls \ {c} : tx[d].row # i
  <2>1. ASSUME NEW d \in Calls, d # c, tx[d].row = i PROVE FALSE
    <3>1. i # None
      BY <1>4
    <3>2. pc[d] \in InTx
      BY <2>1, <3>1 DEF StoreInv, TypeOK, TxInv, NoTx, InTx
    <3>3. tx[d].row \in {d, Old}
      BY <3>2 DEF StoreInv, TxInv
    <3>4. i = Old
      BY <1>3, <2>1, <3>3
    <3> QED
      BY <2>1, <3>4 DEF StoreInv, Locks
  <2> QED
    BY <2>1
<1>15. \/ req[c].op = "create" /\ i = c /\ recipes[c] = None
             /\ recipes'[c] = [source |-> req[c].source, by |-> c]
       \/ req[c].op = "update" /\ i = Old /\ recipes[Old] # None
             /\ recipes'[Old] = [source |-> recipes[Old].source, by |-> c]
  BY <1>3, <1>12, <1>13
<1>16. recipes'[i] \in [source : Sources, by : Ids]
  BY <1>3, <1>12, <1>13
<1>17. \A j \in Ids \ {i} : recipes'[j] = recipes[j] /\ LinesOf(j)' = LinesOf(j)
  BY <1>8, <1>11
<1> QED
  BY <1>2, <1>4, <1>9, <1>14, <1>15, <1>16, <1>17, Zenon DEF Lands

\* Commit.
LEMMA CommitKeeps ==
  ASSUME StoreInv, NEW c \in Calls, Commit(c)
  PROVE  StoreInv'
<1> USE ValueAssumption
<1>1. PICK i : i = tx[c].row
  OBVIOUS
<1>2. Lands(c, i)
  BY <1>1, AtCommit
<1>3. /\ i \in Ids /\ req[c] \in Requests /\ Resolved(req[c]) \in Seq(Names)
      /\ recipes'[i] \in [source : Sources, by : Ids]
      /\ \A j \in Ids \ {i} : recipes'[j] = recipes[j] /\ LinesOf(j)' = LinesOf(j)
      /\ LinesOf(i)' = {Line(i, c, k) : k \in 1..Len(Resolved(req[c]))}
      /\ \A d \in Calls \ {c} : tx[d].row # i
  BY <1>2, Zenon DEF Lands
<1>4. recipes'[i].by = c
  <2>1. \/ i = c /\ recipes'[c] = [source |-> req[c].source, by |-> c]
        \/ i = Old /\ recipes'[Old] = [source |-> recipes[Old].source, by |-> c]
    BY <1>2, Zenon DEF Lands
  <2> QED
    BY <2>1
<1>5. PICK answer \in {"ok", "failed"} : Answer(c, answer)
  BY DEF Commit
<1>6. /\ pc[c] = "lines" /\ UNCHANGED <<req, next, read>>
      /\ landed' = Append(landed, c)
      /\ lookup' = [n \in Names |-> IF n \in tx[c].mine THEN c ELSE lookup[n]]
      /\ pc' = [pc EXCEPT ![c] = "done"] /\ tx' = [tx EXCEPT ![c] = NoTx]
      /\ result' = [result EXCEPT ![c] = answer]
  BY <1>5 DEF Commit, Answer, GoTo, Rollback
<1>7. Others(i)
  <2>1. i \in Ids /\ pc[c] \notin {"idle", "done"} /\ UNCHANGED <<req, next>>
    BY <1>3, <1>6
  <2> QED
    BY <1>3, <1>6, <2>1, Aside
<1>8. /\ \A d \in Calls : TxInv(d)'
      /\ \A j \in Ids \ {i} :
            /\ recipes'[j] = None => LinesOf(j)' = {}
            /\ recipes'[j] # None => Whole(j)' /\ (recipes'[j].by = Old \/ pc'[recipes'[j].by] = "done")
  BY <1>7, Zenon DEF Others
<1>9. pc'[c] = "done" /\ tx'[c] = NoTx /\ \A d \in Calls \ {c} : pc'[d] = pc[d] /\ tx'[d] = tx[d]
  BY <1>6 DEF StoreInv, TypeOK
<1>10. recipes'[i] # None /\ Whole(i)'
  <2>1. recipes'[i] # None
    BY <1>3
  <2>2. Length(c)' = Len(Resolved(req[c]))
    BY <1>6 DEF Length, Ids
  <2>3. LinesOf(i)' = {Line(i, c, k) : k \in 1..Length(c)'}
    BY <1>3, <2>2
  <2>4. Length(recipes[i].by)' = Length(c)'
    BY <1>4 DEF Length
  <2> QED
    BY <1>4, <2>1, <2>3, <2>4 DEF Whole
<1>11. Stored'
  <2>1. \A j \in Ids : recipes'[j] = None => LinesOf(j)' = {}
    BY <1>8, <1>10
  <2>2. \A j \in Ids : recipes'[j] # None => Whole(j)'
    BY <1>8, <1>10
  <2>3. \A j \in Ids : recipes'[j] # None => recipes'[j].by = Old \/ pc'[recipes'[j].by] = "done"
    BY <1>8, <1>9, <1>4
  <2>4. ASSUME NEW d \in Calls, recipes'[d] # None PROVE pc'[d] = "done"
    <3>1. CASE d = c
      BY <1>9, <3>1
    <3>2. CASE d # c
      <4>1. d # i
        BY <1>1, <1>6, <3>2 DEF StoreInv, TxInv, InTx
      <4> QED
        BY <1>3, <1>9, <2>4, <3>2, <4>1 DEF StoreInv, Stored, Ids
    <3> QED
      BY <3>1, <3>2
  <2> QED
    BY <2>1, <2>2, <2>3, <2>4 DEF Stored
<1>12. Locks'
  <2>1. \A d \in Calls : tx'[d].row # None => d # c /\ tx'[d] = tx[d]
    BY <1>9 DEF NoTx
  <2>2. None # Old /\ \A d \in Calls : d # None /\ d \in Ids
    BY DEF Ids
  <2>3. \A d, e \in Calls : tx'[d].row = Old /\ tx'[e].row = Old => d = e
    BY <2>1, <2>2 DEF StoreInv, Locks
  <2>4. ASSUME NEW d \in Calls, tx'[d].row = Old PROVE recipes'[Old] # None
    <3>1. tx[d].row = Old /\ d # c
      BY <2>1, <2>2, <2>4
    <3>2. Old \in Ids \ {i}
      BY <1>3, <3>1 DEF Ids
    <3> QED
      BY <1>3, <3>1, <3>2 DEF StoreInv, Locks
  <2>5. ASSUME NEW d \in Calls, tx'[d].row = d, NEW j \in Ids, recipes'[j] # None
        PROVE  recipes'[j].source # req'[d].source
    <3>1. d # c /\ tx[d].row = d
      BY <2>1, <2>2, <2>5
    <3>2. CASE j # i
      BY <1>3, <1>6, <2>5, <3>1, <3>2 DEF StoreInv, Locks
    <3>3. CASE j = i /\ i = c /\ recipes'[c] = [source |-> req[c].source, by |-> c]
      <4>1. req[d].source # req[c].source
        BY <1>1, <3>1, <3>3 DEF StoreInv, Locks
      <4> QED
        BY <1>6, <3>3, <4>1
    <3>4. CASE j = i /\ i = Old /\ recipes[Old] # None /\ recipes'[Old] = [source |-> recipes[Old].source, by |-> c]
      <4>1. recipes[Old].source # req[d].source
        BY <1>3, <3>1, <3>4 DEF StoreInv, Locks
      <4> QED
        BY <1>6, <3>4, <4>1
    <3>5. \/ i = c /\ recipes'[c] = [source |-> req[c].source, by |-> c]
          \/ i = Old /\ recipes[Old] # None /\ recipes'[Old] = [source |-> recipes[Old].source, by |-> c]
      BY <1>2, Zenon DEF Lands
    <3> QED
      BY <3>2, <3>3, <3>4, <3>5
  <2>6. \A d, e \in Calls : tx'[d].row = d /\ tx'[e].row = e /\ req'[d].source = req'[e].source => d = e
    BY <1>6, <2>1, <2>2 DEF StoreInv, Locks
  <2> QED
    BY <2>3, <2>4, <2>5, <2>6 DEF Locks
<1>13. landed' \in Seq(Calls) /\ Range(landed') = Range(landed) \cup {c}
  BY <1>6, Landed DEF StoreInv, TypeOK
<1>14. lookup' \in [Names -> Ids \cup {Seed, None}] /\ \A n \in Names : lookup'[n] \in {c, lookup[n]}
  BY <1>6 DEF StoreInv, TypeOK, Ids
<1>15. recipes' \in [Ids -> [source : Sources, by : Ids] \cup {None}]
  <2>1. recipes' = [j \in Ids |-> recipes'[j]]
    BY DEF Commit, StoreInv, TypeOK
  <2>2. \A j \in Ids : recipes'[j] \in [source : Sources, by : Ids] \cup {None}
    BY <1>3 DEF StoreInv, TypeOK
  <2> QED
    BY <2>1, <2>2
<1>16. ASSUME NEW l \in lines' PROVE l \in AllLines /\ l.pos < Length(l.by)' /\ l.by \in {c} \cup {m.by : m \in lines}
  <2>1. l \in (lines \ tx[c].gone) \cup tx[c].added
    BY DEF Commit
  <2>2. CASE l \in lines
    <3>1. l \in AllLines /\ l.pos < Length(l.by)
      BY <2>2 DEF StoreInv, TypeOK
    <3>2. Length(l.by)' = Length(l.by)
      BY <1>6 DEF Length
    <3> QED
      BY <2>2, <3>1, <3>2
  <2>3. CASE l \in tx[c].added
    <3>1. l \in AllLines
      BY <2>3 DEF StoreInv, TypeOK
    <3>2. PICK k \in 1..(next[c] - 1) : l = Line(tx[c].row, c, k)
      BY <1>6, <2>3 DEF StoreInv, TxInv
    <3>3. next[c] - 1 <= Len(Resolved(req[c])) /\ next[c] \in Nat /\ Len(Resolved(req[c])) \in Nat
      BY <1>3, <1>6 DEF StoreInv, TypeOK, TxInv
    <3>4. l.by = c /\ l.pos = k - 1
      BY <3>2 DEF Line
    <3>5. Length(c)' = Len(Resolved(req[c]))
      BY <1>6 DEF Length, Ids
    <3>6. k - 1 < Len(Resolved(req[c]))
      BY <3>2, <3>3
    <3>7. Length(l.by)' = Length(c)'
      BY <3>4 DEF Length
    <3> QED
      BY <3>1, <3>4, <3>5, <3>6, <3>7
  <2> QED
    BY <2>1, <2>2, <2>3
<1>17. TypeOK'
  <2>1. tx' \in [Calls -> TxType]
    <3>1. NoTx \in TxType
      BY DEF NoTx, TxType
    <3> QED
      BY <1>6, <3>1, TxStep
  <2>2. result' \in [Calls -> Results] /\ pc' \in [Calls -> {"idle", "write", "find", "insert", "lines", "done"}]
    BY <1>6 DEF StoreInv, TypeOK, Results
  <2>3. req' \in [Calls -> Requests \cup {None}] /\ \A d \in Calls : pc'[d] # "idle" => req'[d] \in Requests
    BY <1>3, <1>6, <1>9 DEF StoreInv, TypeOK
  <2>4. next' \in [Calls -> Nat \ {0}] /\ read' \in [step : {"row", "ingredients", "categories", "done"}, by : Ids,
                 ingredients : SUBSET AllLines, categories : SUBSET AllLines]
    BY <1>6 DEF StoreInv, TypeOK
  <2>5. lines' \subseteq AllLines /\ \A l \in lines' : l.pos < Length(l.by)'
    BY <1>16
  <2> QED
    BY <1>13, <1>14, <1>15, <2>1, <2>2, <2>3, <2>4, <2>5 DEF TypeOK, TxType
<1>18. AllOrNothing'
  <2>1. \A n \in Names : lookup'[n] \in Range(landed') \cup {Old, Seed, None}
    BY <1>13, <1>14 DEF StoreInv, AllOrNothing
  <2>2. \A j \in Ids : recipes'[j] # None => recipes'[j].by \in Range(landed') \cup {Old}
    BY <1>3, <1>13, <1>4 DEF StoreInv, AllOrNothing
  <2>3. \A l \in lines' : l.by \in Range(landed') \cup {Old}
    BY <1>13, <1>16 DEF StoreInv, AllOrNothing
  <2>4. \A d \in Calls : result'[d] = "ok" => d \in Range(landed')
    BY <1>6, <1>13 DEF StoreInv, TypeOK, AllOrNothing
  <2> QED
    BY <2>1, <2>2, <2>3, <2>4 DEF AllOrNothing
<1> QED
  BY <1>8, <1>11, <1>12, <1>17, <1>18 DEF StoreInv

\* Delete.
LEMMA DeleteKeeps ==
  ASSUME StoreInv, NEW c \in Calls, DeleteRecipe(c)
  PROVE  StoreInv'
<1> USE ValueAssumption
<1>1. pc[c] = "write" /\ req[c].op = "delete" /\ UNCHANGED <<req, next, read>>
  BY DEF DeleteRecipe
<1>2. CASE recipes[Old] = None /\ Answer(c, "notfound") /\ UNCHANGED <<db, landed>>
  BY <1>1, <1>2, AnswerKeeps DEF Results
<1>3. CASE /\ recipes[Old] # None /\ Blockers(c) = {}
           /\ recipes' = [recipes EXCEPT ![Old] = None]
           /\ lines' = lines \ LinesOf(Old)
           /\ landed' = Append(landed, c)
           /\ \E answer \in {"ok", "failed"} : Answer(c, answer)
           /\ UNCHANGED lookup
  <2>1. PICK answer \in {"ok", "failed"} : Answer(c, answer)
    BY <1>3
  <2>2. /\ pc' = [pc EXCEPT ![c] = "done"] /\ tx' = [tx EXCEPT ![c] = NoTx]
        /\ result' = [result EXCEPT ![c] = answer]
    BY <2>1 DEF Answer, GoTo, Rollback
  <2>3. \A d \in Calls : tx[d].row # Old /\ d # Old
    <3>1. RowBlockers(c) = {}
      BY <1>1, <1>3 DEF Blockers
    <3> QED
      BY <1>1, <1>3, <3>1 DEF RowBlockers
  <2>4. \A j \in Ids \ {Old} : recipes'[j] = recipes[j] /\ LinesOf(j)' = LinesOf(j)
    BY <1>3 DEF StoreInv, TypeOK, LinesOf
  <2>5. Old \in Ids /\ recipes'[Old] = None /\ LinesOf(Old)' = {}
    BY <1>3 DEF StoreInv, TypeOK, LinesOf, Ids
  <2>6. Others(Old)
    <3>1. pc[c] \notin {"idle", "done"} /\ UNCHANGED <<req, next>>
      BY <1>1
    <3> QED
      BY <2>2, <2>3, <2>4, <2>5, <3>1, Aside
  <2>7. /\ \A d \in Calls : TxInv(d)'
        /\ \A j \in Ids \ {Old} :
              /\ recipes'[j] = None => LinesOf(j)' = {}
              /\ recipes'[j] # None => Whole(j)' /\ (recipes'[j].by = Old \/ pc'[recipes'[j].by] = "done")
    BY <2>6, Zenon DEF Others
  <2>8. pc'[c] = "done" /\ tx'[c] = NoTx /\ \A d \in Calls \ {c} : pc'[d] = pc[d] /\ tx'[d] = tx[d]
    BY <2>2 DEF StoreInv, TypeOK
  <2>9. Stored'
    <3>1. \A j \in Ids : recipes'[j] = None => LinesOf(j)' = {}
      BY <2>5, <2>7
    <3>2. \A j \in Ids : recipes'[j] # None => Whole(j)'
      BY <2>5, <2>7
    <3>3. \A j \in Ids : recipes'[j] # None => recipes'[j].by = Old \/ pc'[recipes'[j].by] = "done"
      BY <2>5, <2>7
    <3>4. \A d \in Calls : recipes'[d] # None => pc'[d] = "done"
      BY <2>3, <2>4, <2>8 DEF StoreInv, Stored, Ids
    <3> QED
      BY <3>1, <3>2, <3>3, <3>4 DEF Stored
  <2>10. Locks'
    <3>1. \A d \in Calls : tx'[d].row # None => d # c /\ tx'[d] = tx[d]
      BY <2>8 DEF NoTx
    <3>2. None # Old /\ \A d \in Calls : d # None /\ d \in Ids
      BY DEF Ids
    <3>3. \A d \in Calls : tx'[d].row # Old
      BY <2>3, <3>1, <3>2
    <3>4. \A d \in Calls : tx'[d].row = d =>
             \A j \in Ids : recipes'[j] # None => recipes'[j].source # req'[d].source
      BY <1>1, <2>4, <2>5, <3>1, <3>2 DEF StoreInv, Locks
    <3>5. \A d, e \in Calls : tx'[d].row = d /\ tx'[e].row = e /\ req'[d].source = req'[e].source => d = e
      BY <1>1, <3>1, <3>2 DEF StoreInv, Locks
    <3> QED
      BY <3>3, <3>4, <3>5 DEF Locks
  <2>11. landed' \in Seq(Calls) /\ Range(landed') = Range(landed) \cup {c}
    BY <1>3, Landed DEF StoreInv, TypeOK
  <2>12. TypeOK'
    <3>1. tx' \in [Calls -> TxType]
      <4>1. NoTx \in TxType
        BY DEF NoTx, TxType
      <4> QED
        BY <2>2, <4>1, TxStep
    <3>2. result' \in [Calls -> Results] /\ pc' \in [Calls -> {"idle", "write", "find", "insert", "lines", "done"}]
      BY <2>2 DEF StoreInv, TypeOK, Results
    <3>3. req' \in [Calls -> Requests \cup {None}] /\ \A d \in Calls : pc'[d] # "idle" => req'[d] \in Requests
      BY <1>1, <2>8 DEF StoreInv, TypeOK
    <3>4. next' \in [Calls -> Nat \ {0}] /\ read' \in [step : {"row", "ingredients", "categories", "done"}, by : Ids,
                 ingredients : SUBSET AllLines, categories : SUBSET AllLines]
      BY <1>1 DEF StoreInv, TypeOK
    <3>5. lines' \subseteq AllLines /\ \A l \in lines' : l.pos < Length(l.by)'
      <4>1. \A b : Length(b)' = Length(b)
        BY <1>1 DEF Length
      <4> QED
        BY <1>3, <4>1 DEF StoreInv, TypeOK
    <3>6. recipes' \in [Ids -> [source : Sources, by : Ids] \cup {None}] /\ lookup' \in [Names -> Ids \cup {Seed, None}]
      BY <1>3 DEF StoreInv, TypeOK
    <3> QED
      BY <2>11, <3>1, <3>2, <3>3, <3>4, <3>5, <3>6 DEF TypeOK, TxType
  <2>13. AllOrNothing'
    <3>1. \A n \in Names : lookup'[n] \in Range(landed') \cup {Old, Seed, None}
      BY <1>3, <2>11 DEF StoreInv, AllOrNothing
    <3>2. \A j \in Ids : recipes'[j] # None => recipes'[j].by \in Range(landed') \cup {Old}
      BY <2>4, <2>5, <2>11 DEF StoreInv, AllOrNothing
    <3>3. \A l \in lines' : l.by \in Range(landed') \cup {Old}
      BY <1>3, <2>11 DEF StoreInv, AllOrNothing
    <3>4. \A d \in Calls : result'[d] = "ok" => d \in Range(landed')
      BY <2>2, <2>11 DEF StoreInv, TypeOK, AllOrNothing
    <3> QED
      BY <3>1, <3>2, <3>3, <3>4 DEF AllOrNothing
  <2> QED
    BY <2>7, <2>9, <2>10, <2>12, <2>13 DEF StoreInv
<1> QED
  BY <1>2, <1>3 DEF DeleteRecipe

\* A statement fails, of itself or to end a deadlock.
LEMMA FailKeeps ==
  ASSUME StoreInv, NEW c \in Calls, Fail(c) \/ DeadlockAborts(c)
  PROVE  StoreInv'
<1>1. Answer(c, "failed") /\ UNCHANGED <<db, req, next, landed, read>>
  BY DEF Fail, DeadlockAborts
<1>2. pc[c] \notin {"idle", "done"}
  <2>1. CASE Fail(c)
    BY <2>1 DEF Fail, Open
  <2>2. CASE DeadlockAborts(c)
    <3>1. Blockers(c) # {}
      BY <2>2 DEF DeadlockAborts, Deadlocked
    <3> QED
      BY <3>1 DEF Blockers
  <2> QED
    BY <2>1, <2>2
<1> QED
  BY <1>1, <1>2, AnswerKeeps DEF Results

\* A step of no call changes lookup rows, or what GetByID has seen.
LEMMA OutsideKeeps ==
  ASSUME StoreInv, UNCHANGED <<recipes, lines, pc, req, next, tx, result, landed>>,
         lookup' \in [Names -> Ids \cup {Seed, None}],
         \A n \in Names : lookup'[n] \in {lookup[n], Seed},
         read' \in [step : {"row", "ingredients", "categories", "done"}, by : Ids,
                 ingredients : SUBSET AllLines, categories : SUBSET AllLines]
  PROVE  StoreInv'
<1>1. (\A i : LinesOf(i)' = LinesOf(i)) /\ (\A b : Length(b)' = Length(b)) /\ (\A c : Listed(c)' = Listed(c))
  BY DEF LinesOf, Length, Listed
<1>2. TypeOK'
  BY <1>1 DEF StoreInv, TypeOK
<1>3. ASSUME NEW c \in Calls PROVE TxInv(c)'
  <2>1. TxInv(c)
    BY DEF StoreInv
  <2> QED
    BY <1>1, <2>1 DEF TxInv, InTx
<1>4. Stored'
  <2>1. ASSUME NEW i \in Ids PROVE Whole(i)' = Whole(i)
    BY <1>1 DEF Whole
  <2> QED
    BY <1>1, <2>1 DEF StoreInv, Stored
<1>5. Locks' /\ AllOrNothing'
  BY DEF StoreInv, Locks, AllOrNothing
<1> QED
  BY <1>2, <1>3, <1>4, <1>5 DEF StoreInv

\* Seed, and GetByID.
LEMMA AloneKeeps ==
  ASSUME StoreInv, GetByID \/ \E n \in Names : SeedName(n)
  PROVE  StoreInv'
<1>1. CASE GetByID
  <2>1. read \in [step : {"row", "ingredients", "categories", "done"}, by : Ids,
                    ingredients : SUBSET AllLines, categories : SUBSET AllLines]
    BY DEF StoreInv, TypeOK
  <2>2. read' \in [step : {"row", "ingredients", "categories", "done"}, by : Ids,
                    ingredients : SUBSET AllLines, categories : SUBSET AllLines]
    <3>1. CASE /\ read.step = "row" /\ recipes[Old] # None
               /\ read' = [read EXCEPT !.step = "ingredients", !.by = recipes[Old].by]
      <4>1. recipes[Old].by \in Ids
        BY <3>1 DEF StoreInv, TypeOK, Ids
      <4> QED
        BY <2>1, <3>1, <4>1
    <3>2. CASE /\ read.step = "ingredients"
               /\ read' = [read EXCEPT !.step = "categories", !.ingredients = ListRecipeIngredients]
      <4>1. ListRecipeIngredients \subseteq AllLines
        BY DEF StoreInv, TypeOK, LinesOf, IngredientsIn, ListRecipeIngredients
      <4> QED
        BY <2>1, <3>2, <4>1
    <3>3. CASE /\ read.step = "categories"
               /\ read' = [read EXCEPT !.step = "done", !.categories = ListRecipeCategories]
      <4>1. ListRecipeCategories \subseteq AllLines
        BY DEF StoreInv, TypeOK, LinesOf, CategoriesIn, ListRecipeCategories
      <4> QED
        BY <2>1, <3>3, <4>1
    <3> QED
      BY <1>1, <3>1, <3>2, <3>3 DEF GetByID
  <2>3. UNCHANGED <<recipes, lines, lookup, pc, req, next, tx, result, landed>>
    BY <1>1 DEF GetByID, db
  <2>4. lookup' \in [Names -> Ids \cup {Seed, None}]
    BY <2>3 DEF StoreInv, TypeOK
  <2> QED
    BY <2>2, <2>3, <2>4, OutsideKeeps
<1>2. ASSUME NEW n \in Names, SeedName(n) PROVE StoreInv'
  <2>1. UNCHANGED <<recipes, lines, pc, req, next, tx, result, landed, read>>
    BY <1>2 DEF SeedName
  <2>2. lookup' \in [Names -> Ids \cup {Seed, None}] /\ \A m \in Names : lookup'[m] \in {lookup[m], Seed}
    BY <1>2 DEF SeedName, StoreInv, TypeOK
  <2>3. read' \in [step : {"row", "ingredients", "categories", "done"}, by : Ids,
                 ingredients : SUBSET AllLines, categories : SUBSET AllLines]
    BY <2>1 DEF StoreInv, TypeOK
  <2> QED
    BY <2>1, <2>2, <2>3, OutsideKeeps
<1> QED
  BY <1>1, <1>2

\* StoreInv holds in every state.
THEOREM StoreCorrect == Spec => []StoreInv
<1>1. Init => StoreInv
  BY StoreInit
<1>2. StoreInv /\ [Next]_vars => StoreInv'
  <2> SUFFICES ASSUME StoreInv, [Next]_vars PROVE StoreInv'
    OBVIOUS
  <2>1. CASE GetByID \/ \E n \in Names : SeedName(n)
    BY <2>1, AloneKeeps
  <2>2. ASSUME NEW c \in Calls, Start(c) PROVE StoreInv'
    BY <2>2, StartKeeps
  <2>3. ASSUME NEW c \in Calls, Step(c) PROVE StoreInv'
    BY <2>3, CreateKeeps, UpdateKeeps, DeleteKeeps, ResolveKeeps, ClearKeeps, AddKeeps, CommitKeeps DEF Step
  <2>4. ASSUME NEW c \in Calls, Fail(c) \/ DeadlockAborts(c) PROVE StoreInv'
    BY <2>4, FailKeeps
  <2>5. CASE UNCHANGED vars
    <3>1. UNCHANGED <<recipes, lines, lookup, pc, req, next, tx, result, landed, read>>
      BY <2>5 DEF vars, db
    <3>2. /\ lookup' \in [Names -> Ids \cup {Seed, None}]
          /\ read' \in [step : {"row", "ingredients", "categories", "done"}, by : Ids,
                 ingredients : SUBSET AllLines, categories : SUBSET AllLines]
      BY <3>1 DEF StoreInv, TypeOK
    <3> QED
      BY <3>1, <3>2, OutsideKeeps
  <2> QED
    BY <2>1, <2>2, <2>3, <2>4, <2>5 DEF Next
<1> QED
  BY <1>1, <1>2, PTL DEF Spec

\* Rows, transactions and answers are of their types: a line never has a
\* position its write's list does not reach.
THEOREM StoreTypeCorrect == Spec => []TypeOK
<1>1. StoreInv => TypeOK
  BY DEF StoreInv
<1> QED
  BY <1>1, StoreCorrect, PTL

\* resolveLookups' point: a write that did not commit leaves nothing, and one
\* that answered "ok" committed.
THEOREM AtomicCorrect == Spec => []AllOrNothing
<1>1. StoreInv => AllOrNothing
  BY DEF StoreInv
<1> QED
  BY <1>1, StoreCorrect, PTL
-----------------------------------------------------------------------------
(* The store implements RecipeShelf.                                       *)

\* The recipes stored, taken to be whole.
Entry(i) == [id |-> i, source |-> recipes[i].source, by |-> recipes[i].by]
There == {j \in Ids : recipes[j] # None}

\* They are what the shelf holds.
LEMMA ShelfIsThere == StoreInv => OnShelf = {Entry(i) : i \in There}
<1> SUFFICES ASSUME StoreInv PROVE OnShelf = {Entry(i) : i \in There}
  OBVIOUS
<1>1. \A i \in There : Whole(i)
  BY DEF There, StoreInv, Stored
<1> QED
  BY <1>1 DEF OnShelf, Entry, There

\* Old is alone on the shelf at first.
LEMMA ShelfInit == Init => Shelf!Init
<1> SUFFICES ASSUME Init PROVE Shelf!Init
  OBVIOUS
<1> USE ValueAssumption
<1>1. StoreInv
  BY StoreInit
<1>2. OnShelf = {Entry(i) : i \in There}
  BY <1>1, ShelfIsThere
<1>3. ASSUME NEW i \in There PROVE i = Old /\ Entry(i) = [id |-> Old, source |-> OldSource, by |-> Old]
  <2>1. recipes[i] # None /\ i \in Ids
    BY DEF There
  <2>2. PICK there \in BOOLEAN :
          recipes = [j \in Ids |-> IF there /\ j = Old THEN [source |-> OldSource, by |-> Old] ELSE None]
    BY DEF Init
  <2>3. i = Old /\ recipes[i] = [source |-> OldSource, by |-> Old]
    BY <2>1, <2>2
  <2> QED
    BY <2>3 DEF Entry
<1>4. OnShelf \subseteq {[id |-> Old, source |-> OldSource, by |-> Old]}
  BY <1>2, <1>3
<1>5. [id |-> Old, source |-> OldSource, by |-> Old] \in Shelf!Recipes
  BY DEF Shelf!Recipes, Ids
<1> QED
  BY <1>4, <1>5 DEF Shelf!Init, Shelf!Unique

\* A commit puts a new recipe on the shelf, or exchanges one.
LEMMA CommitShelves ==
  ASSUME StoreInv, NEW c \in Calls, Commit(c),
         OnShelf = {Entry(i) : i \in There}, OnShelf' = {Entry(i)' : i \in There'}
  PROVE  Shelf!Next
<1> USE ValueAssumption
<1>1. PICK i : i = tx[c].row
  OBVIOUS
<1>2. Lands(c, i)
  BY <1>1, AtCommit
<1>3. /\ i \in Ids /\ req[c] \in Requests
      /\ \A j \in Ids \ {i} : recipes'[j] = recipes[j]
      /\ \/ /\ req[c].op = "create" /\ i = c /\ recipes[c] = None
            /\ recipes'[c] = [source |-> req[c].source, by |-> c]
         \/ /\ req[c].op = "update" /\ i = Old /\ recipes[Old] # None
            /\ recipes'[Old] = [source |-> recipes[Old].source, by |-> c]
      /\ recipes'[i] \in [source : Sources, by : Ids]
  BY <1>2, Zenon DEF Lands
<1>4. \A j \in Ids \ {i} : Entry(j)' = Entry(j) /\ (j \in There' <=> j \in There)
  BY <1>3 DEF Entry, There
<1>5. i \in There' /\ There' \subseteq Ids /\ There \subseteq Ids
  BY <1>3 DEF There
<1>6. CASE req[c].op = "create" /\ i = c /\ recipes[c] = None /\ recipes'[c] = [source |-> req[c].source, by |-> c]
  <2>1. Entry(c)' = [id |-> c, source |-> req[c].source, by |-> c]
    BY <1>6 DEF Entry
  <2>2. OnShelf' = OnShelf \cup {[id |-> c, source |-> req[c].source, by |-> c]}
    <3>1. There' = There \cup {c} /\ c \notin There
      BY <1>4, <1>5, <1>6 DEF There
    <3>2. \A j \in There : Entry(j)' = Entry(j)
      BY <1>4, <1>5, <1>6, <3>1
    <3> QED
      BY <2>1, <3>1, <3>2
  <2>3. ASSUME NEW q \in OnShelf PROVE q.id # c /\ q.source # req[c].source
    <3>1. PICK j \in There : q = Entry(j)
      BY <2>3
    <3>2. j \in Ids /\ recipes[j] # None /\ j # c
      BY <1>6 DEF There
    <3>3. recipes[j].source # req[c].source
      BY <1>1, <1>6, <3>2 DEF StoreInv, Locks
    <3> QED
      BY <3>1, <3>2, <3>3 DEF Entry
  <2>4. PICK r \in Shelf!Recipes : r = [id |-> c, source |-> req[c].source, by |-> c]
    BY <1>3, <1>6, RequestFacts DEF Shelf!Recipes, Ids
  <2>5. Shelf!Store(r)
    BY <2>2, <2>3, <2>4 DEF Shelf!Store
  <2> QED
    BY <2>5 DEF Shelf!Next
<1>7. CASE req[c].op = "update" /\ i = Old /\ recipes[Old] # None
             /\ recipes'[Old] = [source |-> recipes[Old].source, by |-> c]
  <2>1. Entry(Old)' = [id |-> Old, source |-> recipes[Old].source, by |-> c]
    BY <1>7 DEF Entry
  <2>2. PICK r \in OnShelf : r = [id |-> Old, source |-> recipes[Old].source, by |-> recipes[Old].by]
    BY <1>3, <1>7 DEF There, Entry
  <2>3. There' = There /\ Old \in There
    BY <1>3, <1>4, <1>5, <1>7 DEF There
  <2>4. \A j \in There \ {Old} : Entry(j)' = Entry(j) /\ Entry(j) # r
    BY <1>4, <1>5, <1>7, <2>2 DEF Entry
  <2>5. Entry(Old) = r /\ Entry(Old)' = [r EXCEPT !.by = c]
    BY <2>1, <2>2 DEF Entry
  <2>6. OnShelf' = (OnShelf \ {r}) \cup {[r EXCEPT !.by = c]}
    BY <2>3, <2>4, <2>5
  <2> QED
    BY <2>2, <2>6 DEF Shelf!Next, Shelf!Replace, Ids
<1> QED
  BY <1>3, <1>6, <1>7

\* A delete that finds the recipe takes it off the shelf.
LEMMA DeleteUnshelves ==
  ASSUME StoreInv, NEW c \in Calls, recipes[Old] # None, recipes' = [recipes EXCEPT ![Old] = None],
         OnShelf = {Entry(i) : i \in There}, OnShelf' = {Entry(i)' : i \in There'}
  PROVE  Shelf!Next
<1> USE ValueAssumption
<1>1. \A j \in Ids \ {Old} : recipes'[j] = recipes[j]
  BY DEF StoreInv, TypeOK
<1>2. Old \in There /\ There' = There \ {Old}
  BY <1>1 DEF There, StoreInv, TypeOK, Ids
<1>3. \A j \in There \ {Old} : Entry(j)' = Entry(j) /\ Entry(j) # Entry(Old)
  BY <1>1 DEF Entry, There
<1>4. PICK r \in OnShelf : r = Entry(Old)
  BY <1>2
<1>5. OnShelf' = OnShelf \ {r}
  BY <1>2, <1>3, <1>4
<1> QED
  BY <1>4, <1>5 DEF Shelf!Next, Shelf!Remove

\* "No half-updated association bug to find later": whatever writes of the same
\* recipes overlap, wait, fail or deadlock, what is stored changes by one whole
\* recipe at a time, and never holds a source twice.
THEOREM ShelfCorrect == Spec => ShelfSpec
<1>1. StoreInv => OnShelf = {Entry(i) : i \in There}
  BY ShelfIsThere
<1>2. StoreInv' => OnShelf' = {Entry(i)' : i \in There'}
  <2>1. (StoreInv => OnShelf = {Entry(i) : i \in There})'
    BY <1>1, PTL
  <2> QED
    BY <2>1
<1>3. StoreInv /\ StoreInv' /\ [Next]_vars => [Shelf!Next]_OnShelf
  <2> SUFFICES ASSUME StoreInv, StoreInv', [Next]_vars PROVE Shelf!Next \/ OnShelf' = OnShelf
    OBVIOUS
  <2>1. ASSUME UNCHANGED recipes PROVE OnShelf' = OnShelf
    <3>1. There' = There /\ \A i : Entry(i)' = Entry(i)
      BY <2>1 DEF There, Entry
    <3> QED
      BY <1>1, <1>2, <3>1
  <2>2. ASSUME NEW c \in Calls, Commit(c) PROVE Shelf!Next
    BY <1>1, <1>2, <2>2, CommitShelves
  <2>3. ASSUME NEW c \in Calls, DeleteRecipe(c) PROVE Shelf!Next \/ OnShelf' = OnShelf
    <3>1. CASE recipes[Old] = None /\ UNCHANGED <<db, landed>>
      BY <2>1, <3>1 DEF db
    <3>2. CASE recipes[Old] # None /\ recipes' = [recipes EXCEPT ![Old] = None]
      BY <1>1, <1>2, <3>2, DeleteUnshelves
    <3> QED
      BY <2>3, <3>1, <3>2 DEF DeleteRecipe
  <2>4. ASSUME NEW c \in Calls, Start(c) \/ Fail(c) \/ DeadlockAborts(c) PROVE UNCHANGED recipes
    BY <2>4 DEF Start, Fail, DeadlockAborts, db
  <2>5. ASSUME NEW c \in Calls, \/ CreateRecipe(c) \/ UpdateRecipe(c) \/ FindName(c)
                               \/ InsertName(c) \/ ClearLines(c) \/ AddLine(c)
        PROVE  UNCHANGED recipes
    BY <2>5 DEF CreateRecipe, UpdateRecipe, FindName, InsertName, ClearLines, AddLine, db
  <2>6. GetByID \/ (\E n \in Names : SeedName(n)) \/ UNCHANGED vars => UNCHANGED recipes
    BY DEF GetByID, SeedName, vars, db
  <2> QED
    BY <2>1, <2>2, <2>3, <2>4, <2>5, <2>6 DEF Next, Step
<1> QED
  BY <1>3, ShelfInit, StoreCorrect, PTL DEF Spec, ShelfSpec, Shelf!Spec
-----------------------------------------------------------------------------
(* What is known of the calls that ended.                                  *)

\* A call that has ended is left alone.
LEMMA EndedStays ==
  ASSUME StoreInv, [Next]_vars, NEW d \in Calls, pc[d] = "done"
  PROVE  pc'[d] = "done" /\ req'[d] = req[d] /\ result'[d] = result[d]
<1> DEFINE Same == pc'[d] = "done" /\ req'[d] = req[d] /\ result'[d] = result[d]
<1> USE DEF GoTo, Answer, Advance, StoreInv, TypeOK
<1>1. ASSUME NEW c \in Calls, Start(c) PROVE Same
  BY <1>1 DEF Start
<1>2. ASSUME NEW c \in Calls, CreateRecipe(c) \/ UpdateRecipe(c) \/ DeleteRecipe(c) PROVE Same
  BY <1>2 DEF CreateRecipe, UpdateRecipe, DeleteRecipe
<1>3. ASSUME NEW c \in Calls, FindName(c) \/ InsertName(c) \/ ClearLines(c) \/ AddLine(c) PROVE Same
  BY <1>3 DEF FindName, InsertName, ClearLines, AddLine
<1>4. ASSUME NEW c \in Calls, Commit(c) PROVE Same
  BY <1>4 DEF Commit
<1>5. ASSUME NEW c \in Calls, Fail(c) PROVE Same
  BY <1>5 DEF Fail, Open
<1>6. ASSUME NEW c \in Calls, DeadlockAborts(c) PROVE Same
  <2>1. Blockers(c) # {} /\ Answer(c, "failed") /\ UNCHANGED req
    BY <1>6 DEF DeadlockAborts, Deadlocked
  <2>2. pc[c] # "done"
    BY <2>1 DEF Blockers
  <2> QED
    BY <2>1, <2>2
<1>7. GetByID \/ (\E n \in Names : SeedName(n)) \/ UNCHANGED vars => Same
  BY DEF GetByID, SeedName, vars
<1> QED
  BY <1>1, <1>2, <1>3, <1>4, <1>5, <1>6, <1>7 DEF Next, Step

\* A call commits: its last step.  A recipe it touches is gone by a delete, or
\* has its content, and the source it had.
CallLands(c) ==
    /\ pc[c] # "done" /\ pc'[c] = "done" /\ landed' = Append(landed, c) /\ UNCHANGED <<req, read>>
    /\ result'[c] # "duplicate" /\ \A d \in Calls \ {c} : result'[d] = result[d]
    /\ \A i \in Ids : \/ recipes'[i] = recipes[i]
                      \/ recipes'[i] = None /\ req[c].op = "delete"
                      \/ /\ recipes'[i] # None /\ recipes'[i].by = c
                         /\ recipes[i] # None => recipes'[i].source = recipes[i].source
    /\ \/ req[c].op = "create" /\ recipes'[Old] = recipes[Old]
       \/ req[c].op = "update" /\ recipes'[Old] # None /\ recipes'[Old].by = c
       \/ req[c].op = "delete" /\ recipes'[Old] = None

LEMMA WhatLands ==
  ASSUME StoreInv, [Next]_vars
  PROVE  UNCHANGED <<recipes, landed>> \/ \E c \in Calls : CallLands(c)
<1> USE ValueAssumption
<1> USE DEF GoTo, Answer
<1>1. ASSUME NEW c \in Calls, Commit(c) PROVE CallLands(c)
  <2>1. PICK i : i = tx[c].row
    OBVIOUS
  <2>2. Lands(c, i)
    BY <1>1, <2>1, AtCommit
  <2>3. /\ pc[c] = "lines" /\ landed' = Append(landed, c) /\ UNCHANGED <<req, read>>
        /\ \E answer \in {"ok", "failed"} : Answer(c, answer)
    BY <1>1 DEF Commit
  <2>4. /\ pc'[c] = "done" /\ result'[c] # "duplicate"
        /\ \A d \in Calls \ {c} : result'[d] = result[d]
    BY <2>3 DEF StoreInv, TypeOK
  <2>5. \A j \in Ids \ {i} : recipes'[j] = recipes[j]
    BY <2>2 DEF Lands
  <2>6. /\ recipes'[i] # None /\ recipes'[i].by = c
        /\ recipes[i] # None => recipes'[i].source = recipes[i].source
    <3>1. recipes'[i] \in [source : Sources, by : Ids]
      BY <2>2 DEF Lands
    <3>2. recipes'[i] # None
      BY <3>1
    <3> QED
      BY <2>2, <3>2 DEF Lands
  <2>7. i \in Ids
    BY <2>2 DEF Lands
  <2>8. \/ req[c].op = "create" /\ recipes'[Old] = recipes[Old]
        \/ req[c].op = "update" /\ recipes'[Old] # None /\ recipes'[Old].by = c
    <3>1. Old \in Ids /\ c # Old
      BY DEF Ids
    <3> QED
      BY <2>2, <2>5, <2>6, <3>1 DEF Lands
  <2> QED
    BY <2>3, <2>4, <2>5, <2>6, <2>7, <2>8 DEF CallLands
<1>2. ASSUME NEW c \in Calls, DeleteRecipe(c) PROVE UNCHANGED <<recipes, landed>> \/ CallLands(c)
  <2>1. CASE UNCHANGED <<db, landed>>
    BY <2>1 DEF db
  <2>2. CASE /\ recipes' = [recipes EXCEPT ![Old] = None] /\ landed' = Append(landed, c)
             /\ \E answer \in {"ok", "failed"} : Answer(c, answer)
    <3>1. pc[c] = "write" /\ req[c].op = "delete" /\ UNCHANGED <<req, read>>
      BY <1>2 DEF DeleteRecipe
    <3>2. /\ pc'[c] = "done" /\ result'[c] # "duplicate"
          /\ \A d \in Calls \ {c} : result'[d] = result[d]
      BY <2>2 DEF StoreInv, TypeOK
    <3>3. recipes'[Old] = None /\ \A i \in Ids : recipes'[i] = recipes[i] \/ recipes'[i] = None
      BY <2>2 DEF StoreInv, TypeOK, Ids
    <3> QED
      BY <2>2, <3>1, <3>2, <3>3 DEF CallLands
  <2> QED
    BY <1>2, <2>1, <2>2 DEF DeleteRecipe
<1>3. ASSUME NEW c \in Calls, Start(c) \/ Fail(c) \/ DeadlockAborts(c) PROVE UNCHANGED <<recipes, landed>>
  BY <1>3 DEF Start, Fail, DeadlockAborts, db
<1>4. ASSUME NEW c \in Calls, \/ CreateRecipe(c) \/ UpdateRecipe(c) \/ FindName(c)
                             \/ InsertName(c) \/ ClearLines(c) \/ AddLine(c)
      PROVE  UNCHANGED <<recipes, landed>>
  BY <1>4 DEF CreateRecipe, UpdateRecipe, FindName, InsertName, ClearLines, AddLine, db
<1>5. GetByID \/ (\E n \in Names : SeedName(n)) \/ UNCHANGED vars => UNCHANGED <<recipes, landed>>
  BY DEF GetByID, SeedName, vars, db
<1> QED
  BY <1>1, <1>2, <1>3, <1>4, <1>5 DEF Next, Step

\* Only Create's insert answers "duplicate", and only for a source it found.
LEMMA WhoIsDuplicate ==
  ASSUME StoreInv, [Next]_vars, NEW d \in Calls, result'[d] = "duplicate", result[d] # "duplicate"
  PROVE  pc'[d] = "done" /\ StoredAs(req[d].source) # {} /\ UNCHANGED <<recipes, req, landed>>
<1> DEFINE Found == pc'[d] = "done" /\ StoredAs(req[d].source) # {} /\ UNCHANGED <<recipes, req, landed>>
<1> USE DEF GoTo, Answer, Advance, StoreInv, TypeOK
<1>1. ASSUME NEW c \in Calls, CreateRecipe(c) PROVE Found
  <2>1. CASE Conflict(c) /\ Answer(c, "duplicate")
    <3>1. c = d
      BY <2>1
    <3> QED
      BY <1>1, <2>1, <3>1 DEF CreateRecipe, Conflict, db
  <2>2. CASE UNCHANGED result
    BY <2>2
  <2> QED
    BY <1>1, <2>1, <2>2 DEF CreateRecipe
<1>2. ASSUME NEW c \in Calls, Start(c) PROVE FALSE
  BY <1>2 DEF Start
<1>3. ASSUME NEW c \in Calls, UpdateRecipe(c) \/ DeleteRecipe(c) PROVE FALSE
  BY <1>3 DEF UpdateRecipe, DeleteRecipe
<1>4. ASSUME NEW c \in Calls, FindName(c) \/ InsertName(c) \/ ClearLines(c) \/ AddLine(c) PROVE FALSE
  BY <1>4 DEF FindName, InsertName, ClearLines, AddLine
<1>5. ASSUME NEW c \in Calls, Commit(c) \/ Fail(c) \/ DeadlockAborts(c) PROVE FALSE
  BY <1>5 DEF Commit, Fail, DeadlockAborts
<1>6. ASSUME GetByID \/ (\E n \in Names : SeedName(n)) \/ UNCHANGED vars PROVE FALSE
  BY <1>6 DEF GetByID, SeedName, vars
<1> QED
  BY <1>1, <1>2, <1>3, <1>4, <1>5, <1>6 DEF Next, Step

\* Each call lands once, and has ended by then.
LandedOnce ==
    /\ \A k \in 1..Len(landed) : pc[landed[k]] = "done"
    /\ \A j, k \in 1..Len(landed) : landed[j] = landed[k] => j = k

\* The place of a call that has landed, and of one that just did.
LEMMA LandingFacts ==
  ASSUME StoreInv, LandedOnce, NEW c \in Calls, pc[c] # "done", landed' = Append(landed, c)
  PROVE  /\ Range(landed') = Range(landed) \cup {c} /\ c \notin Range(landed)
         /\ Place(landed', c) = Len(landed) + 1
         /\ \A b \in Range(landed) \cup {Old} : Place(landed', b) = Place(landed, b) /\ Place(landed, b) \in 0..Len(landed)
<1> USE ValueAssumption
<1>1. landed \in Seq(Calls) /\ DOMAIN landed = 1..Len(landed) /\ Len(landed) \in Nat
  BY DEF StoreInv, TypeOK
<1>2. Range(landed') = Range(landed) \cup {c}
  BY <1>1, Landed
<1>3. c \notin Range(landed)
  BY <1>1 DEF Range, LandedOnce
<1>4. /\ DOMAIN landed' = 1..(Len(landed) + 1) /\ landed'[Len(landed) + 1] = c
      /\ \A k \in 1..Len(landed) : landed'[k] = landed[k] /\ landed[k] # c
  BY <1>1, <1>3 DEF Range
<1>5. Place(landed', c) = Len(landed) + 1
  <2>1. Place(landed', c) = CHOOSE k \in DOMAIN landed' : landed'[k] = c
    BY DEF Place
  <2>2. \A k \in 1..(Len(landed) + 1) : landed'[k] = c <=> k = Len(landed) + 1
    BY <1>1, <1>4
  <2> QED
    BY <1>1, <1>4, <2>1, <2>2
<1>6. ASSUME NEW b \in Range(landed) PROVE Place(landed', b) = Place(landed, b) /\ Place(landed, b) \in 0..Len(landed)
  <2>1. PICK p \in 1..Len(landed) : landed[p] = b
    BY <1>1 DEF Range
  <2>2. b \in Calls /\ b # Old
    BY <1>1, <2>1
  <2>3. \A k \in 1..Len(landed) : landed[k] = b <=> k = p
    BY <2>1 DEF LandedOnce
  <2>4. Place(landed, b) = p
    BY <1>1, <2>1, <2>2, <2>3 DEF Place
  <2>5. \A k \in DOMAIN landed' : landed'[k] = b <=> k = p
    BY <1>1, <1>3, <1>4, <2>1, <2>3
  <2>6. Place(landed', b) = CHOOSE k \in DOMAIN landed' : landed'[k] = b
    BY <2>2 DEF Place
  <2>7. Place(landed', b) = p
    BY <1>1, <1>4, <2>1, <2>5, <2>6
  <2> QED
    BY <1>1, <2>1, <2>4, <2>7
<1>7. Place(landed', Old) = Place(landed, Old) /\ Place(landed, Old) \in 0..Len(landed)
  BY <1>1 DEF Place
<1> QED
  BY <1>2, <1>3, <1>5, <1>6, <1>7

\* A source that was stored stays stored until a delete lands.
DuplicateInv ==
    /\ LandedOnce
    /\ \A c \in Calls : result[c] = "duplicate" => pc[c] = "done"
    /\ DuplicateIsStored

LEMMA DuplicateKeeps == StoreInv /\ DuplicateInv /\ [Next]_vars => DuplicateInv'
<1> SUFFICES ASSUME StoreInv, DuplicateInv, [Next]_vars PROVE DuplicateInv'
  OBVIOUS
<1> USE ValueAssumption
<1>1. landed \in Seq(Calls) /\ DOMAIN landed = 1..Len(landed) /\ Len(landed) \in Nat
  BY DEF StoreInv, TypeOK
<1>2. \A d \in Calls : pc[d] = "done" => pc'[d] = "done" /\ req'[d] = req[d] /\ result'[d] = result[d]
  BY EndedStays
<1>3. LandedOnce'
  <2>1. CASE UNCHANGED <<recipes, landed>>
    BY <1>1, <1>2, <2>1 DEF DuplicateInv, LandedOnce
  <2>2. ASSUME NEW c \in Calls, CallLands(c) PROVE LandedOnce'
    <3>1. pc[c] # "done" /\ pc'[c] = "done" /\ landed' = Append(landed, c)
      BY <2>2 DEF CallLands
    <3>2. /\ Len(landed') = Len(landed) + 1 /\ landed'[Len(landed) + 1] = c
          /\ \A k \in 1..Len(landed) : landed'[k] = landed[k] /\ landed[k] \in Calls
      BY <1>1, <3>1
    <3>3. \A k \in 1..Len(landed) : pc[landed[k]] = "done" /\ landed[k] # c
      BY <3>1 DEF DuplicateInv, LandedOnce
    <3>4. \A k \in 1..Len(landed') : pc'[landed'[k]] = "done"
      BY <1>1, <1>2, <3>1, <3>2, <3>3
    <3>5. \A j, k \in 1..Len(landed') : landed'[j] = landed'[k] => j = k
      BY <1>1, <3>2, <3>3 DEF DuplicateInv, LandedOnce
    <3> QED
      BY <3>4, <3>5 DEF LandedOnce
  <2> QED
    BY <2>1, <2>2, WhatLands
<1>4. ASSUME NEW d \in Calls, result'[d] = "duplicate"
      PROVE  /\ pc'[d] = "done"
             /\ StoredAs(req[d].source)' # {} \/ \E e \in Range(landed') : req'[e].op = "delete"
             /\ req'[d] = req[d]
  <2>1. CASE result[d] # "duplicate"
    <3>1. pc'[d] = "done" /\ StoredAs(req[d].source) # {} /\ UNCHANGED <<recipes, req, landed>>
      BY <1>4, <2>1, WhoIsDuplicate
    <3> QED
      BY <3>1 DEF StoredAs
  <2>2. CASE result[d] = "duplicate"
    <3>1. pc[d] = "done" /\ pc'[d] = "done" /\ req'[d] = req[d]
      BY <1>2, <2>2 DEF DuplicateInv
    <3>2. StoredAs(req[d].source) # {} \/ \E e \in Range(landed) : req[e].op = "delete"
      BY <2>2 DEF DuplicateInv, DuplicateIsStored
    <3>3. \A e \in Range(landed) : e \in Calls /\ req'[e] = req[e]
      BY <1>1, <1>2 DEF Range, DuplicateInv, LandedOnce
    <3>4. CASE UNCHANGED <<recipes, landed>>
      BY <3>1, <3>2, <3>3, <3>4 DEF StoredAs
    <3>5. ASSUME NEW c \in Calls, CallLands(c)
          PROVE  StoredAs(req[d].source)' # {} \/ \E e \in Range(landed') : req'[e].op = "delete"
      <4>1. Range(landed') = Range(landed) \cup {c} /\ req' = req
        BY <1>1, <3>5, Landed DEF CallLands
      <4>2. CASE req[c].op = "delete"
        BY <4>1, <4>2
      <4>3. CASE \E e \in Range(landed) : req[e].op = "delete"
        BY <4>1, <4>3
      <4>4. CASE req[c].op # "delete" /\ StoredAs(req[d].source) # {}
        <5>1. PICK i \in Ids : recipes[i] # None /\ recipes[i].source = req[d].source
          BY <4>4 DEF StoredAs
        <5>2. recipes'[i] # None /\ recipes'[i].source = recipes[i].source
          BY <3>5, <4>4, <5>1 DEF CallLands
        <5>3. i \in StoredAs(req[d].source)'
          BY <4>1, <5>1, <5>2 DEF StoredAs
        <5> QED
          BY <5>3
      <4> QED
        BY <3>2, <4>2, <4>3, <4>4
    <3> QED
      BY <3>1, <3>4, <3>5, WhatLands
  <2> QED
    BY <2>1, <2>2
<1>5. DuplicateIsStored'
  BY <1>4 DEF DuplicateIsStored, StoredAs
<1> QED
  BY <1>3, <1>4, <1>5 DEF DuplicateInv

\* ErrDuplicateSource is never premature: a post counted as a duplicate is
\* stored, by a transaction that has committed, unless somebody deleted a recipe.
THEOREM DuplicateCorrect == Spec => []DuplicateIsStored
<1>1. Init => DuplicateInv
  <2> SUFFICES ASSUME Init PROVE DuplicateInv
    OBVIOUS
  <2>1. landed = << >> /\ \A c \in Calls : result[c] = "none"
    BY DEF Init
  <2> QED
    BY <2>1 DEF DuplicateInv, LandedOnce, DuplicateIsStored
<1>2. DuplicateInv => DuplicateIsStored
  BY DEF DuplicateInv
<1> QED
  BY <1>1, <1>2, DuplicateKeeps, StoreCorrect, PTL DEF Spec

-----------------------------------------------------------------------------
(* What a reader sees.                                                     *)

\* The write of Old no other came after.
LastWrote(b) == b \in Wrote /\ \A d \in Wrote : Place(landed, d) <= Place(landed, b)

\* What is stored is what the last write left.
StoredIsLast ==
    /\ \A b \in Ids : recipes[Old] # None /\ recipes[Old].by = b =>
          LastWrote(b) /\ (b = Old \/ req[b].op = "update")
    /\ recipes[Old] = None /\ read.step # "row" => \E b \in Calls : LastWrote(b) /\ req[b].op = "delete"

\* What has been read so far is of writes in the order in which it was read.
ReadInv ==
    /\ DuplicateInv
    /\ StoredIsLast
    /\ read.step # "row" => read.by \in Wrote
    /\ read.step = "categories" =>
          \E i \in Wrote : read.ingredients = IngredientsIn(Content(i)) /\ Place(landed, read.by) <= Place(landed, i)
    /\ LinesNotOlder

\* Where a write that landed, or Old's own, has its place.
LEMMA PlaceType ==
  ASSUME StoreInv, NEW b \in Wrote
  PROVE  b \in Range(landed) \cup {Old} /\ b \in Ids /\ Place(landed, b) \in 0..Len(landed)
<1>1. landed \in Seq(Calls) /\ DOMAIN landed = 1..Len(landed) /\ Len(landed) \in Nat
  BY DEF StoreInv, TypeOK
<1>2. CASE b = Old
  BY <1>1, <1>2 DEF Place, Ids
<1>3. CASE b # Old /\ b \in Range(landed)
  <2>1. \E k \in DOMAIN landed : landed[k] = b
    BY <1>3 DEF Range
  <2>2. b \in Calls
    BY <1>1, <2>1
  <2>3. Place(landed, b) \in DOMAIN landed
    BY <1>3, <2>1 DEF Place
  <2> QED
    BY <1>1, <1>3, <2>2, <2>3 DEF Ids
<1> QED
  BY <1>2, <1>3 DEF Wrote

\* A write of Old stays one, with its place and its content.
LEMMA WroteStays ==
  ASSUME StoreInv, DuplicateInv, [Next]_vars, NEW b \in Wrote
  PROVE  /\ b \in Wrote' /\ Place(landed', b) = Place(landed, b)
         /\ b # Old => b \in Calls /\ req'[b] = req[b]
         /\ IngredientsIn(Content(b))' = IngredientsIn(Content(b))
         /\ CategoriesIn(Content(b))' = CategoriesIn(Content(b))
<1>1. landed \in Seq(Calls) /\ DOMAIN landed = 1..Len(landed) /\ Len(landed) \in Nat
  BY DEF StoreInv, TypeOK
<1>2. b # Old => b \in Calls /\ pc[b] = "done" /\ b \in Range(landed) /\ req[b].op # "create"
  BY <1>1 DEF Wrote, Range, DuplicateInv, LandedOnce
<1>3. b # Old => b \in Calls /\ req'[b] = req[b]
  BY <1>2, EndedStays
<1>4. b \in Wrote' /\ Place(landed', b) = Place(landed, b)
  <2>1. CASE UNCHANGED landed
    BY <1>2, <1>3, <2>1 DEF Wrote, Place
  <2>2. ASSUME NEW c \in Calls, CallLands(c) PROVE b \in Wrote' /\ Place(landed', b) = Place(landed, b)
    <3>1. /\ Range(landed') = Range(landed) \cup {c}
          /\ \A d \in Range(landed) \cup {Old} : Place(landed', d) = Place(landed, d)
      BY <2>2, LandingFacts DEF DuplicateInv, CallLands
    <3> QED
      BY <1>2, <1>3, <3>1 DEF Wrote
  <2> QED
    BY <2>1, <2>2, WhatLands
<1>5. Length(b)' = Length(b) /\ Ingredients(b)' = Ingredients(b)
  BY <1>3 DEF Length, Ingredients
<1>6. Content(b)' = Content(b)
  BY <1>3, <1>5 DEF Content
<1>7. \A l \in Content(b) : l.by = b
  BY DEF Content, Line
<1>8. IngredientsIn(Content(b))' = IngredientsIn(Content(b))
  BY <1>5, <1>6, <1>7 DEF IngredientsIn
<1>9. CategoriesIn(Content(b))' = CategoriesIn(Content(b))
  BY <1>5, <1>6, <1>7 DEF CategoriesIn
<1> QED
  BY <1>3, <1>4, <1>8, <1>9

\* The last write stays the last one, until a call lands on Old: then it is that.
LEMMA LastStays ==
  ASSUME StoreInv, DuplicateInv, [Next]_vars,
         UNCHANGED landed \/ \E c \in Calls : CallLands(c) /\ req[c].op = "create"
  PROVE  \A b : LastWrote(b) => LastWrote(b)'
<1>1. landed \in Seq(Calls) /\ DOMAIN landed = 1..Len(landed)
  BY DEF StoreInv, TypeOK
<1>2. ASSUME NEW d \in Wrote' PROVE d \in Wrote
  <2>1. CASE UNCHANGED landed /\ d # Old
    <3>1. d \in Range(landed) /\ req'[d].op # "create"
      BY <1>2, <2>1 DEF Wrote
    <3>2. d \in Calls /\ pc[d] = "done"
      BY <1>1, <3>1 DEF Range, DuplicateInv, LandedOnce
    <3>3. req'[d] = req[d]
      BY <3>2, EndedStays
    <3> QED
      BY <3>1, <3>3 DEF Wrote
  <2>2. ASSUME NEW c \in Calls, CallLands(c), req[c].op = "create" PROVE d \in Wrote
    <3>1. Range(landed') = Range(landed) \cup {c} /\ req' = req
      BY <1>1, <2>2, Landed DEF CallLands
    <3> QED
      BY <1>2, <2>2, <3>1 DEF Wrote
  <2> QED
    BY <2>1, <2>2 DEF Wrote
<1>3. ASSUME NEW b, LastWrote(b) PROVE LastWrote(b)'
  <2>1. b \in Wrote'
    BY <1>3, WroteStays DEF LastWrote
  <2>2. \A d \in Wrote' : Place(landed', d) <= Place(landed', b)
    BY <1>2, <1>3, WroteStays DEF LastWrote
  <2> QED
    BY <2>1, <2>2 DEF LastWrote, Place
<1> QED
  BY <1>3

\* An update or a delete that lands is the last write of Old.
LEMMA LandsLast ==
  ASSUME StoreInv, DuplicateInv, [Next]_vars, NEW c \in Calls, CallLands(c), req[c].op # "create"
  PROVE  LastWrote(c)'
<1>1. landed \in Seq(Calls) /\ Len(landed) \in Nat /\ c # Old
  BY ValueAssumption DEF StoreInv, TypeOK
<1>2. Range(landed') = Range(landed) \cup {c} /\ Place(landed', c) = Len(landed) + 1 /\ req' = req
  BY LandingFacts DEF DuplicateInv, CallLands
<1>3. Wrote' = Wrote \cup {c}
  BY <1>2 DEF Wrote
<1>4. \A d \in Wrote : Place(landed', d) \in 0..Len(landed)
  BY PlaceType, WroteStays
<1>5. \A d \in Wrote' : Place(landed', d) <= Place(landed', c)
  BY <1>1, <1>2, <1>3, <1>4
<1> QED
  BY <1>3, <1>5 DEF LastWrote, Place

\* What has been read stays as it was while others write.
LEMMA SeenStays ==
  ASSUME StoreInv, ReadInv, [Next]_vars, UNCHANGED read
  PROVE  /\ read'.step # "row" => read'.by \in Wrote'
         /\ read'.step = "categories" =>
               \E i \in Wrote' : /\ read'.ingredients = IngredientsIn(Content(i))'
                                 /\ Place(landed', read'.by) <= Place(landed', i)
         /\ LinesNotOlder'
<1>1. DuplicateInv
  BY DEF ReadInv
<1>2. ASSUME read.step # "row" PROVE read.by \in Wrote /\ read.by \in Wrote' /\ Place(landed', read.by) = Place(landed, read.by)
  BY <1>1, <1>2, WroteStays DEF ReadInv
<1>3. ASSUME read.step = "categories"
      PROVE  \E i \in Wrote' : /\ read.ingredients = IngredientsIn(Content(i))'
                               /\ Place(landed', read.by) <= Place(landed', i)
  <2>1. PICK i \in Wrote : read.ingredients = IngredientsIn(Content(i)) /\ Place(landed, read.by) <= Place(landed, i)
    BY <1>3 DEF ReadInv
  <2> QED
    BY <1>1, <1>2, <1>3, <2>1, WroteStays
<1>4. ASSUME read.step = "done"
      PROVE  \E i, c \in Wrote' : /\ read'.ingredients = IngredientsIn(Content(i))'
                                  /\ read'.categories = CategoriesIn(Content(c))'
                                  /\ Place(landed, read.by)' <= Place(landed, i)'
                                  /\ Place(landed, i)' <= Place(landed, c)'
  <2>1. PICK i \in Wrote, c \in Wrote :
           /\ read.ingredients = IngredientsIn(Content(i)) /\ read.categories = CategoriesIn(Content(c))
           /\ Place(landed, read.by) <= Place(landed, i) /\ Place(landed, i) <= Place(landed, c)
    BY <1>4 DEF ReadInv, LinesNotOlder
  <2>2. /\ i \in Wrote' /\ Place(landed', i) = Place(landed, i)
        /\ IngredientsIn(Content(i))' = IngredientsIn(Content(i))
    BY <1>1, WroteStays
  <2>3. /\ c \in Wrote' /\ Place(landed', c) = Place(landed, c)
        /\ CategoriesIn(Content(c))' = CategoriesIn(Content(c))
    BY <1>1, WroteStays
  <2>4. /\ Place(landed', read.by) <= Place(landed', i) /\ Place(landed', i) <= Place(landed', c)
        /\ read.ingredients = IngredientsIn(Content(i))' /\ read.categories = CategoriesIn(Content(c))'
    BY <1>2, <1>4, <2>1, <2>2, <2>3
  <2>5. /\ Place(landed, read.by)' = Place(landed', read.by)
        /\ Place(landed, i)' = Place(landed', i) /\ Place(landed, c)' = Place(landed', c)
    BY DEF Place
  <2> QED
    BY <2>2, <2>3, <2>4, <2>5
<1>5. LinesNotOlder'
  <2>1. read'.step = read.step
    OBVIOUS
  <2> QED
    BY <1>4, <2>1 DEF LinesNotOlder
<1> QED
  BY <1>2, <1>3, <1>5

\* While others write, the invariant is kept.
LEMMA ReadLands ==
  ASSUME StoreInv, ReadInv, DuplicateInv', [Next]_vars, UNCHANGED read
  PROVE  ReadInv'
<1> USE ValueAssumption
<1>1. DuplicateInv /\ Old \in Ids
  BY DEF ReadInv, Ids
<1>2. ASSUME recipes'[Old] = recipes[Old],
             UNCHANGED landed \/ \E c \in Calls : CallLands(c) /\ req[c].op = "create"
      PROVE  StoredIsLast'
  <2>1. \A b : LastWrote(b) => LastWrote(b)'
    BY <1>1, <1>2, LastStays
  <2>2. \A b \in Calls : LastWrote(b) => req'[b] = req[b]
    BY <1>1, WroteStays DEF LastWrote
  <2>3. ASSUME NEW b \in Ids, recipes[Old] # None, recipes[Old].by = b
        PROVE  LastWrote(b)' /\ (b = Old \/ req'[b].op = "update")
    <3>1. LastWrote(b) /\ (b = Old \/ req[b].op = "update")
      BY <2>3 DEF ReadInv, StoredIsLast
    <3> QED
      BY <2>1, <2>2, <3>1 DEF Ids
  <2>4. ASSUME recipes[Old] = None, read.step # "row"
        PROVE  \E b \in Calls : LastWrote(b)' /\ req'[b].op = "delete"
    <3>1. PICK b \in Calls : LastWrote(b) /\ req[b].op = "delete"
      BY <2>4 DEF ReadInv, StoredIsLast
    <3> QED
      BY <2>1, <2>2, <3>1
  <2>5. recipes'[Old] = recipes[Old] /\ read' = read
    BY <1>2
  <2> QED
    BY <2>3, <2>4, <2>5 DEF StoredIsLast
<1>3. ASSUME NEW c \in Calls, CallLands(c), req[c].op = "update" PROVE StoredIsLast'
  <2>1. recipes'[Old] # None /\ recipes'[Old].by = c /\ req' = req
    BY <1>3 DEF CallLands
  <2>2. LastWrote(c)'
    BY <1>1, <1>3, LandsLast
  <2> QED
    BY <1>3, <2>1, <2>2 DEF StoredIsLast
<1>4. ASSUME NEW c \in Calls, CallLands(c), req[c].op = "delete" PROVE StoredIsLast'
  <2>1. recipes'[Old] = None /\ req' = req
    BY <1>4 DEF CallLands
  <2>2. LastWrote(c)'
    BY <1>1, <1>4, LandsLast
  <2> QED
    BY <1>4, <2>1, <2>2 DEF StoredIsLast
<1>5. ASSUME NEW c \in Calls, CallLands(c) PROVE StoredIsLast'
  <2>1. \/ req[c].op \in {"update", "delete"}
        \/ req[c].op = "create" /\ recipes'[Old] = recipes[Old]
    BY <1>5 DEF CallLands
  <2> QED
    BY <1>2, <1>3, <1>4, <1>5, <2>1
<1>6. StoredIsLast'
  <2>1. ASSUME UNCHANGED <<recipes, landed>> PROVE StoredIsLast'
    BY <1>2, <2>1
  <2> QED
    BY <1>5, <2>1, WhatLands
<1> QED
  BY <1>6, SeenStays DEF ReadInv, Place

\* The lines there are, once there is something to read, are what the last write left.
LEMMA NowStored ==
  ASSUME StoreInv, ReadInv, recipes[Old] # None \/ read.step # "row"
  PROVE  \E b \in Wrote : LinesOf(Old) = Content(b) /\ \A d \in Wrote : Place(landed, d) <= Place(landed, b)
<1> USE ValueAssumption
<1>1. Old \in Ids
  BY DEF Ids
<1>2. CASE recipes[Old] # None
  <2>1. PICK b \in Ids : recipes[Old].by = b
    BY <1>1, <1>2 DEF StoreInv, TypeOK
  <2>2. LastWrote(b) /\ (b = Old \/ req[b].op = "update")
    BY <1>2, <2>1 DEF ReadInv, StoredIsLast
  <2>3. LinesOf(Old) = {Line(Old, b, k) : k \in 1..Length(b)}
    BY <1>1, <1>2, <2>1 DEF StoreInv, Stored, Whole
  <2> QED
    BY <2>2, <2>3 DEF LastWrote, Content
<1>3. CASE recipes[Old] = None /\ read.step # "row"
  <2>1. PICK b \in Calls : LastWrote(b) /\ req[b].op = "delete"
    BY <1>3 DEF ReadInv, StoredIsLast
  <2>2. LinesOf(Old) = {} /\ Content(b) = {}
    BY <1>1, <1>3, <2>1 DEF StoreInv, Stored, Content
  <2> QED
    BY <2>1, <2>2 DEF LastWrote
<1> QED
  BY <1>2, <1>3

\* The three statements of GetByID.
LEMMA ReadSteps ==
  ASSUME StoreInv, ReadInv, DuplicateInv', GetByID
  PROVE  ReadInv'
<1> USE ValueAssumption
<1>1. UNCHANGED <<recipes, lines, req, landed>> /\ Old \in Ids
  BY DEF GetByID, db, Ids
<1>2. /\ Wrote' = Wrote /\ \A b : Place(landed, b)' = Place(landed, b)
      /\ \A b : LastWrote(b)' <=> LastWrote(b)
      /\ \A b : IngredientsIn(Content(b))' = IngredientsIn(Content(b))
      /\ \A b : CategoriesIn(Content(b))' = CategoriesIn(Content(b))
  BY <1>1 DEF Wrote, Place, LastWrote, IngredientsIn, CategoriesIn, Content, Ingredients, Length
<1>3. read \in [step : {"row", "ingredients", "categories", "done"}, by : Ids,
                ingredients : SUBSET AllLines, categories : SUBSET AllLines]
  BY DEF StoreInv, TypeOK
<1>4. PICK b \in Wrote : LinesOf(Old) = Content(b) /\ \A d \in Wrote : Place(landed, d) <= Place(landed, b)
  BY NowStored DEF GetByID
<1>5. ASSUME read'.step # "row", read.step # "row" \/ recipes[Old] # None PROVE StoredIsLast'
  BY <1>1, <1>2, <1>5 DEF ReadInv, StoredIsLast
<1>6. CASE /\ read.step = "row" /\ recipes[Old] # None
           /\ read' = [read EXCEPT !.step = "ingredients", !.by = recipes[Old].by]
  <2>1. read'.step = "ingredients" /\ read'.by = recipes[Old].by
    BY <1>3, <1>6
  <2>2. PICK d \in Ids : recipes[Old].by = d
    BY <1>1, <1>6 DEF StoreInv, TypeOK
  <2>3. LastWrote(d)
    BY <1>6, <2>2 DEF ReadInv, StoredIsLast
  <2>4. read'.by \in Wrote'
    BY <1>2, <2>1, <2>2, <2>3 DEF LastWrote
  <2>5. LinesNotOlder'
    BY <2>1 DEF LinesNotOlder
  <2> QED
    BY <1>5, <1>6, <2>1, <2>4, <2>5 DEF ReadInv
<1>7. CASE /\ read.step = "ingredients"
           /\ read' = [read EXCEPT !.step = "categories", !.ingredients = ListRecipeIngredients]
  <2>1. read'.step = "categories" /\ read'.by = read.by /\ read'.ingredients = IngredientsIn(Content(b))
    BY <1>3, <1>4, <1>7 DEF ListRecipeIngredients
  <2>2. read.by \in Wrote
    BY <1>7 DEF ReadInv
  <2>3. \E i \in Wrote' : /\ read'.ingredients = IngredientsIn(Content(i))'
                          /\ Place(landed, read.by)' <= Place(landed, i)'
    BY <1>2, <1>4, <2>1, <2>2
  <2>4. LinesNotOlder'
    BY <2>1 DEF LinesNotOlder
  <2>5. read'.step # "row" => read'.by \in Wrote'
    BY <1>2, <2>1, <2>2
  <2>6. StoredIsLast'
    BY <1>5, <1>7, <2>1
  <2> QED
    BY <2>1, <2>3, <2>4, <2>5, <2>6 DEF ReadInv, Place
<1>8. CASE /\ read.step = "categories"
           /\ read' = [read EXCEPT !.step = "done", !.categories = ListRecipeCategories]
  <2>1. /\ read'.step = "done" /\ read'.by = read.by /\ read'.ingredients = read.ingredients
        /\ read'.categories = CategoriesIn(Content(b))
    BY <1>3, <1>4, <1>8 DEF ListRecipeCategories
  <2>2. read.by \in Wrote
    BY <1>8 DEF ReadInv
  <2>3. PICK i \in Wrote : read.ingredients = IngredientsIn(Content(i)) /\ Place(landed, read.by) <= Place(landed, i)
    BY <1>8 DEF ReadInv
  <2>4. Place(landed, i) <= Place(landed, b)
    BY <1>4, <2>3
  <2>5. \E j, c \in Wrote' : /\ read'.ingredients = IngredientsIn(Content(j))'
                             /\ read'.categories = CategoriesIn(Content(c))'
                             /\ Place(landed, read.by)' <= Place(landed, j)'
                             /\ Place(landed, j)' <= Place(landed, c)'
    BY <1>2, <1>4, <2>1, <2>3, <2>4
  <2>6. LinesNotOlder'
    BY <2>1, <2>5 DEF LinesNotOlder, Place
  <2> QED
    BY <1>2, <1>5, <1>8, <2>1, <2>2, <2>6 DEF ReadInv
<1> QED
  BY <1>6, <1>7, <1>8 DEF GetByID

\* GetByID may mix three writes, but its ingredients are those of one and its
\* categories those of one, and none of it is older than what was read before.
THEOREM ReadCorrect == Spec => []LinesNotOlder
<1>1. Init => ReadInv
  <2> SUFFICES ASSUME Init PROVE ReadInv
    OBVIOUS
  <2>1. landed = << >> /\ read.step = "row" /\ \A c \in Calls : result[c] = "none"
    BY DEF Init
  <2>2. Range(landed) = {}
    BY <2>1 DEF Range
  <2>3. Wrote = {Old} /\ Place(landed, Old) = 0
    BY <2>2 DEF Wrote, Place
  <2>4. LastWrote(Old)
    BY <2>3 DEF LastWrote
  <2>5. recipes[Old] # None => recipes[Old].by = Old
    BY DEF Init, Ids
  <2>6. StoredIsLast
    BY <2>1, <2>4, <2>5 DEF StoredIsLast
  <2> QED
    BY <2>1, <2>6 DEF ReadInv, DuplicateInv, LandedOnce, DuplicateIsStored, LinesNotOlder
<1>2. StoreInv /\ ReadInv /\ [Next]_vars => ReadInv'
  <2> SUFFICES ASSUME StoreInv, ReadInv, [Next]_vars PROVE ReadInv'
    OBVIOUS
  <2>1. DuplicateInv'
    BY DuplicateKeeps DEF ReadInv
  <2>2. CASE GetByID
    BY <2>1, <2>2, ReadSteps
  <2>3. ASSUME ~GetByID PROVE read' = read
    BY <2>3 DEF Next, vars, SeedName, Start, Step, CreateRecipe, UpdateRecipe, DeleteRecipe, FindName,
                InsertName, ClearLines, AddLine, Commit, Fail, DeadlockAborts
  <2> QED
    BY <2>1, <2>2, <2>3, ReadLands
<1>3. ReadInv => LinesNotOlder
  BY DEF ReadInv
<1> QED
  BY <1>1, <1>2, <1>3, StoreCorrect, PTL DEF Spec

-----------------------------------------------------------------------------
(* Deadlocks need a new name.                                              *)

\* A name a call inserts, or has locked by DO UPDATE, was not there at first.
NewNames ==
    /\ \A c \in Calls : pc[c] = "insert" => lookup[Name(c)] # Old
    /\ \A c \in Calls : \A n \in tx[c].held : lookup[n] # Old

\* Putting the two parts together: no lookup row becomes one of the first.
LEMMA NewNamesStep ==
  ASSUME StoreInv, NewNames,
         \A n \in Names : lookup[n] # Old => lookup'[n] # Old,
         \A c \in Calls : pc'[c] = "insert" =>
            \/ pc[c] = "insert" /\ req'[c] = req[c] /\ next'[c] = next[c]
            \/ lookup'[Name(c)'] # Old,
         \A c \in Calls : \A n \in tx'[c].held : n \in tx[c].held \/ lookup'[n] # Old
  PROVE  NewNames'
<1>1. ASSUME NEW c \in Calls, pc'[c] = "insert" PROVE lookup'[Name(c)'] # Old
  <2>1. CASE pc[c] = "insert" /\ req'[c] = req[c] /\ next'[c] = next[c]
    <3>1. Name(c) \in Names
      BY <2>1, NameType
    <3>2. Name(c)' = Name(c)
      BY <1>1, <2>1 DEF Name
    <3>3. lookup[Name(c)] # Old
      BY <2>1 DEF NewNames
    <3> QED
      BY <3>1, <3>2, <3>3
  <2> QED
    BY <1>1, <2>1
<1>2. ASSUME NEW c \in Calls, NEW n \in tx'[c].held PROVE lookup'[n] # Old
  <2>1. CASE n \in tx[c].held
    <3>1. n \in Names /\ lookup[n] # Old
      BY <2>1 DEF NewNames, StoreInv, TypeOK
    <3> QED
      BY <3>1
  <2> QED
    BY <1>2, <2>1
<1> QED
  BY <1>1, <1>2 DEF NewNames

LEMMA NewNamesKeep == StoreInv /\ NewNames /\ [Next]_vars => NewNames'
<1> SUFFICES ASSUME StoreInv, NewNames, [Next]_vars PROVE NewNames'
  OBVIOUS
<1> USE ValueAssumption
<1> USE DEF GoTo, Advance
<1>1. Old \notin Calls /\ Seed # Old /\ None # Old
  BY DEF Ids
<1>2. ASSUME NEW c \in Calls, NEW a, Answer(c, a), UNCHANGED <<req, next>>,
             \A n \in Names : lookup'[n] \in {lookup[n], c}
      PROVE  NewNames'
  <2>1. pc' = [pc EXCEPT ![c] = "done"] /\ tx' = [tx EXCEPT ![c] = NoTx]
    BY <1>2 DEF Answer, Rollback
  <2>2. \A d \in Calls : pc'[d] = "insert" => pc[d] = "insert"
    BY <2>1 DEF StoreInv, TypeOK
  <2>3. \A d \in Calls : \A n \in tx'[d].held : n \in tx[d].held
    BY <2>1 DEF StoreInv, TypeOK, NoTx
  <2> QED
    BY <1>1, <1>2, <2>2, <2>3, NewNamesStep
<1>3. ASSUME NEW c \in Calls, NEW to, to # "insert", pc' = [pc EXCEPT ![c] = to],
             \A d \in Calls \ {c} : req'[d] = req[d] /\ next'[d] = next[d],
             \A d \in Calls : tx'[d].held = tx[d].held, lookup' = lookup
      PROVE  NewNames'
  <2>1. \A d \in Calls : pc'[d] = "insert" => d # c /\ pc[d] = "insert"
    BY <1>3 DEF StoreInv, TypeOK
  <2> QED
    BY <1>3, <2>1, NewNamesStep
<1>4. ASSUME NEW c \in Calls, Start(c) PROVE NewNames'
  <2>1. \A d \in Calls \ {c} : req'[d] = req[d] /\ next'[d] = next[d]
    BY <1>4 DEF Start, StoreInv, TypeOK
  <2> QED
    BY <1>3, <1>4, <2>1 DEF Start, db
<1>5. ASSUME NEW c \in Calls, CreateRecipe(c) \/ UpdateRecipe(c) PROVE NewNames'
  <2>1. UNCHANGED <<req, next, lookup>>
    BY <1>5 DEF CreateRecipe, UpdateRecipe, db
  <2>2. CASE Answer(c, "duplicate") \/ Answer(c, "notfound")
    BY <1>2, <2>1, <2>2
  <2>3. ASSUME NEW i \in Ids, tx' = [tx EXCEPT ![c].row = i], pc' = [pc EXCEPT ![c] = "find"]
        PROVE  NewNames'
    <3>1. \A d \in Calls : tx'[d].held = tx[d].held
      BY <2>3 DEF StoreInv, TypeOK
    <3> QED
      BY <1>3, <2>1, <2>3, <3>1
  <2> QED
    BY <1>5, <2>2, <2>3 DEF CreateRecipe, UpdateRecipe, Ids
<1>6. ASSUME NEW c \in Calls, FindName(c) PROVE NewNames'
  <2>1. UNCHANGED <<req, tx, lookup>> /\ pc[c] = "find" /\ ~Listed(c)
    BY <1>6 DEF FindName, db
  <2>2. CASE Advance(c, "find")
    BY <1>3, <2>1, <2>2 DEF StoreInv, TypeOK
  <2>3. CASE ~Seen(c) /\ GoTo(c, "insert") /\ UNCHANGED next
    <3>1. lookup[Name(c)] = None /\ Name(c)' = Name(c)
      BY <2>1, <2>3 DEF Seen, Name
    <3>2. \A d \in Calls : pc'[d] = "insert" => d = c \/ pc[d] = "insert"
      BY <2>3 DEF StoreInv, TypeOK
    <3> QED
      BY <1>1, <2>1, <2>3, <3>1, <3>2, NewNamesStep
  <2> QED
    BY <1>6, <2>2, <2>3 DEF FindName
<1>7. ASSUME NEW c \in Calls, InsertName(c) PROVE NewNames'
  <2>1. /\ UNCHANGED <<req, lookup>> /\ pc[c] = "insert"
        /\ next' = [next EXCEPT ![c] = @ + 1] /\ pc' = [pc EXCEPT ![c] = "find"]
    BY <1>7 DEF InsertName, db
  <2>2. \A d \in Calls : pc'[d] = "insert" => d # c /\ pc[d] = "insert"
    BY <2>1 DEF StoreInv, TypeOK
  <2>3. lookup[Name(c)] # Old
    BY <2>1 DEF NewNames
  <2>4. \A d \in Calls : \A n \in tx'[d].held : n \in tx[d].held \/ n = Name(c)
    BY <1>7 DEF InsertName, StoreInv, TypeOK
  <2>5. \A d \in Calls \ {c} : next'[d] = next[d]
    BY <2>1 DEF StoreInv, TypeOK
  <2> QED
    BY <2>1, <2>2, <2>3, <2>4, <2>5, NewNamesStep
<1>8. ASSUME NEW c \in Calls, ClearLines(c) \/ AddLine(c) PROVE NewNames'
  <2>1. UNCHANGED <<req, lookup>> /\ \A d \in Calls \ {c} : next'[d] = next[d]
    BY <1>8 DEF ClearLines, AddLine, db, StoreInv, TypeOK
  <2>2. \A d \in Calls : tx'[d].held = tx[d].held
    <3>1. tx \in [Calls -> TxType]
      BY DEF StoreInv, TypeOK, TxType
    <3>2. CASE ClearLines(c)
      BY <3>1, <3>2 DEF ClearLines, TxType
    <3>3. CASE AddLine(c)
      <4>1. tx' = [tx EXCEPT ![c] = [tx[c] EXCEPT !.added = @ \cup {Line(tx[c].row, c, next[c])},
                                                 !.shared = @ \cup {Name(c)}]]
        BY <3>3 DEF AddLine
      <4> QED
        BY <3>1, <4>1 DEF TxType
    <3> QED
      BY <1>8, <3>2, <3>3
  <2>3. pc' = [pc EXCEPT ![c] = "lines"]
    BY <1>8 DEF ClearLines, AddLine
  <2> QED
    BY <1>3, <2>1, <2>2, <2>3
<1>9. ASSUME NEW c \in Calls, Commit(c) PROVE NewNames'
  <2>1. \A n \in Names : lookup'[n] \in {lookup[n], c}
    BY <1>9 DEF Commit
  <2> QED
    BY <1>2, <1>9, <2>1 DEF Commit
<1>10. ASSUME NEW c \in Calls, DeleteRecipe(c) \/ Fail(c) \/ DeadlockAborts(c) PROVE NewNames'
  <2>1. UNCHANGED <<req, next, lookup>>
    BY <1>10 DEF DeleteRecipe, Fail, DeadlockAborts, db
  <2>2. \E a \in Results : Answer(c, a)
    BY <1>10 DEF DeleteRecipe, Fail, DeadlockAborts, Results
  <2> QED
    BY <1>2, <2>1, <2>2
<1>11. ASSUME NEW n \in Names, SeedName(n) PROVE NewNames'
  <2>1. \A m \in Names : lookup'[m] \in {lookup[m], Seed}
    BY <1>11 DEF SeedName, StoreInv, TypeOK
  <2>2. UNCHANGED <<pc, req, next, tx>>
    BY <1>11 DEF SeedName
  <2> QED
    BY <1>1, <2>1, <2>2, NewNamesStep
<1>12. CASE GetByID \/ UNCHANGED vars
  <2>1. UNCHANGED <<lookup, pc, req, next, tx>>
    BY <1>12 DEF GetByID, vars, db
  <2> QED
    BY <2>1, NewNamesStep
<1> QED
  BY <1>4, <1>5, <1>6, <1>7, <1>8, <1>9, <1>10, <1>11, <1>12 DEF Next, Step

\* README on lookups: writes that only name what is there cannot deadlock.  A
\* member that inserts a name, or waits for one locked by DO UPDATE, has a new
\* one; if there were none, all would wait to write a row, and who holds a row
\* does not.
THEOREM DeadlockNeedsNewName == Spec => []KnownNamesNeverDeadlock
<1>1. Init => NewNames
  <2> SUFFICES ASSUME Init PROVE NewNames
    OBVIOUS
  <2>1. \A c \in Calls : pc[c] = "idle" /\ tx[c] = NoTx
    BY DEF Init
  <2> QED
    BY <2>1 DEF NewNames, NoTx
<1>2. StoreInv /\ NewNames => KnownNamesNeverDeadlock
  <2> SUFFICES ASSUME StoreInv, NewNames, NEW D \in SUBSET Calls, Deadlocked(D),
                      \A c \in D : \A n \in Range(Resolved(req[c])) : lookup[n] = Old
               PROVE  FALSE
    BY DEF KnownNamesNeverDeadlock
  <2> USE ValueAssumption
  <2>1. ASSUME NEW c \in D, pc[c] \in {"insert", "lines"}, ~Listed(c)
        PROVE  Name(c) \in Names /\ lookup[Name(c)] = Old
    BY <2>1, NameType
  <2>2. ASSUME NEW c \in D PROVE pc[c] = "write"
    <3>1. Blockers(c) # {}
      BY <2>2 DEF Deadlocked
    <3>2. CASE pc[c] = "insert"
      <4>1. ~Listed(c) /\ lookup[Name(c)] # Old
        BY <3>2 DEF StoreInv, TxInv, NewNames
      <4> QED
        BY <2>1, <3>2, <4>1
    <3>3. CASE pc[c] = "lines" /\ ~Listed(c)
      <4>1. PICK d \in Calls : Name(c) \in tx[d].held
        BY <3>1, <3>3 DEF Blockers
      <4> QED
        BY <2>1, <3>3, <4>1 DEF NewNames
    <3> QED
      BY <3>1, <3>2, <3>3 DEF Blockers
  <2>3. PICK c \in D : TRUE
    BY DEF Deadlocked
  <2>4. PICK d \in D : d \in Blockers(c)
    BY DEF Deadlocked
  <2>5. d \in RowBlockers(c)
    BY <2>2, <2>4 DEF Blockers
  <2>6. tx[d].row # None
    BY <2>5 DEF RowBlockers, Ids
  <2>7. pc[d] = "write"
    BY <2>2
  <2> QED
    BY <2>6, <2>7 DEF StoreInv, TxInv, NoTx
<1> QED
  BY <1>1, <1>2, NewNamesKeep, StoreCorrect, PTL DEF Spec

-----------------------------------------------------------------------------
(* That every call ends (EveryCallEnds) is left to TLC; that somebody can    *)
(* always go on, and how many statements a call can make, is proved here.    *)

\* The places in its list a call has come to on its way.
Places ==
    /\ \A c \in Calls : pc[c] \in {"idle", "write"} => next[c] = 1
    /\ \A c \in Calls : pc[c] = "find" => next[c] <= Len(Resolved(req[c])) + 1

\* A call that is no step's own stays where it is.
Stays(c) == pc'[c] = pc[c] /\ req'[c] = req[c] /\ next'[c] = next[c]

\* The moves of a call after its start: it ends, passes a place of its list in the
\* lookup, comes back to the first one for its lines, and passes them again.
Moves(c) ==
    /\ Open(c) /\ req'[c] = req[c]
    /\ \/ pc'[c] = "done"
       \/ pc[c] = "write" /\ req[c].op # "delete" /\ pc'[c] = "find" /\ next'[c] = next[c]
       \/ pc[c] = "find" /\ ~Listed(c) /\ pc'[c] = "find" /\ next'[c] = next[c] + 1
       \/ pc[c] = "find" /\ ~Listed(c) /\ pc'[c] = "insert" /\ next'[c] = next[c]
       \/ pc[c] = "insert" /\ pc'[c] = "find" /\ next'[c] = next[c] + 1
       \/ pc[c] = "find" /\ Listed(c) /\ pc'[c] = "lines" /\ next'[c] = 1
       \/ pc[c] = "lines" /\ ~Listed(c) /\ pc'[c] = "lines" /\ next'[c] = next[c] + 1

CallStep(c) == Step(c) \/ Fail(c) \/ DeadlockAborts(c)

\* Who takes a step moves, and moves alone.
LEMMA StepMoves ==
  ASSUME StoreInv, NEW c \in Calls, CallStep(c)
  PROVE  Moves(c) /\ \A d \in Calls \ {c} : Stays(d)
<1> USE DEF GoTo, Answer, Advance, StoreInv, TypeOK, Stays, Moves, Open
<1>1. CASE CreateRecipe(c) \/ UpdateRecipe(c) \/ DeleteRecipe(c)
  BY <1>1 DEF CreateRecipe, UpdateRecipe, DeleteRecipe
<1>2. CASE FindName(c) \/ InsertName(c)
  BY <1>2 DEF FindName, InsertName
<1>3. CASE ClearLines(c) \/ AddLine(c)
  BY <1>3 DEF ClearLines, AddLine
<1>4. CASE Commit(c) \/ Fail(c)
  BY <1>4 DEF Commit, Fail
<1>5. CASE DeadlockAborts(c)
  <2>1. Blockers(c) # {} /\ Answer(c, "failed") /\ UNCHANGED <<req, next>>
    BY <1>5 DEF DeadlockAborts, Deadlocked
  <2>2. pc[c] \in {"write", "insert", "lines"}
    BY <2>1 DEF Blockers
  <2> QED
    BY <2>1, <2>2
<1> QED
  BY <1>1, <1>2, <1>3, <1>4, <1>5 DEF CallStep, Step

\* A call that starts is idle; it comes to its first statement.
LEMMA StartMoves ==
  ASSUME StoreInv, NEW c \in Calls, Start(c)
  PROVE  /\ pc[c] = "idle" /\ pc'[c] = "write" /\ next'[c] = next[c]
         /\ \A d \in Calls \ {c} : Stays(d)
BY DEF Start, GoTo, StoreInv, TypeOK, Stays

LEMMA OthersStay ==
  ASSUME StoreInv, GetByID \/ (\E n \in Names : SeedName(n)) \/ UNCHANGED vars
  PROVE  \A c \in Calls : Stays(c)
BY DEF GetByID, SeedName, vars, Stays

\* What a call's list and place are, once it has started.
LEMMA ListFacts ==
  ASSUME StoreInv, NEW c \in Calls
  PROVE  /\ next[c] \in Nat \ {0}
         /\ Open(c) /\ req[c].op # "delete" => Resolved(req[c]) \in Seq(Names) /\ Len(Resolved(req[c])) \in Nat
         /\ pc[c] \in InTx => Open(c) /\ req[c].op # "delete"
         /\ pc[c] = "insert" => next[c] <= Len(Resolved(req[c]))
         /\ pc[c] = "lines" => next[c] <= Len(Resolved(req[c])) + 1
<1>1. next[c] \in Nat \ {0} /\ (Open(c) => req[c] \in Requests)
  BY DEF StoreInv, TypeOK, Open
<1>2. Open(c) /\ req[c].op # "delete" => Resolved(req[c]) \in Seq(Names) /\ Len(Resolved(req[c])) \in Nat
  BY <1>1, RequestFacts
<1>3. pc[c] \in InTx => Open(c) /\ req[c].op # "delete"
  BY DEF StoreInv, TxInv, InTx, Open
<1>4. pc[c] = "insert" => next[c] <= Len(Resolved(req[c]))
  BY <1>1, <1>2, <1>3 DEF StoreInv, TxInv, InTx, Listed
<1>5. pc[c] = "lines" => next[c] <= Len(Resolved(req[c])) + 1
  BY DEF StoreInv, TxInv
<1> QED
  BY <1>1, <1>2, <1>3, <1>4, <1>5

LEMMA PlacesKeep == StoreInv /\ Places /\ [Next]_vars => Places'
<1> SUFFICES ASSUME StoreInv, Places, [Next]_vars PROVE Places'
  OBVIOUS
<1>1. ASSUME NEW c \in Calls, Stays(c)
      PROVE  /\ pc'[c] \in {"idle", "write"} => next'[c] = 1
             /\ pc'[c] = "find" => next'[c] <= Len(Resolved(req'[c])) + 1
  BY <1>1 DEF Stays, Places
<1>2. ASSUME NEW c \in Calls, Moves(c)
      PROVE  /\ pc'[c] \in {"idle", "write"} => next'[c] = 1
             /\ pc'[c] = "find" => next'[c] <= Len(Resolved(req'[c])) + 1
  <2>1. pc'[c] \in {"done", "find", "insert", "lines"} /\ req'[c] = req[c] /\ Open(c)
    BY <1>2 DEF Moves
  <2>2. ASSUME pc'[c] = "find" PROVE next'[c] <= Len(Resolved(req[c])) + 1
    <3>1. CASE pc[c] = "write" /\ req[c].op # "delete" /\ next'[c] = next[c]
      BY <2>1, <3>1, ListFacts DEF Places
    <3>2. CASE pc[c] = "find" /\ ~Listed(c) /\ next'[c] = next[c] + 1
      BY <3>2, ListFacts DEF Listed, InTx
    <3>3. CASE pc[c] = "insert" /\ next'[c] = next[c] + 1
      BY <3>3, ListFacts DEF InTx
    <3> QED
      BY <1>2, <2>2, <3>1, <3>2, <3>3 DEF Moves
  <2> QED
    BY <2>1, <2>2
<1>3. ASSUME NEW c \in Calls, Start(c) PROVE Places'
  <2>1. pc'[c] = "write" /\ next'[c] = 1
    BY <1>3, StartMoves DEF Places
  <2> QED
    BY <1>1, <1>3, <2>1, StartMoves DEF Places
<1>4. ASSUME NEW c \in Calls, CallStep(c) PROVE Places'
  BY <1>1, <1>2, <1>4, StepMoves DEF Places
<1>5. CASE GetByID \/ (\E n \in Names : SeedName(n)) \/ UNCHANGED vars
  BY <1>1, <1>5, OthersStay DEF Places
<1> QED
  BY <1>3, <1>4, <1>5 DEF Next, CallStep

\* Every wait can end: a call waits only for others that have a transaction open,
\* never for one that has failed or returned, and if all that have begun wait,
\* then they are a deadlock, which Postgres ends.
SomebodyGoesOn ==
    /\ \A c \in Calls : \A d \in Blockers(c) : d \in Calls \ {c} /\ pc[d] \in InTx
    /\ LET Begun == {c \in Calls : Open(c)} IN
       Begun # {} => Deadlocked(Begun) \/ \E c \in Begun : Blockers(c) = {}

THEOREM WaitsEnd == Spec => []SomebodyGoesOn
<1>1. ASSUME StoreInv PROVE SomebodyGoesOn
  <2> USE <1>1, ValueAssumption
  <2>1. ASSUME NEW c \in Calls, NEW d \in Blockers(c) PROVE d \in Calls /\ tx[d] # NoTx
    <3>1. CASE d \in RowBlockers(c) /\ pc[c] = "write"
      <4>1. d \in Calls /\ tx[d].row \in {d, Old}
        BY <3>1 DEF RowBlockers
      <4> QED
        BY <4>1 DEF NoTx, Ids
    <3>2. CASE d \in NameBlockers(c)
      <4>1. d \in Calls /\ (tx[d].mine # {} \/ tx[d].held # {} \/ tx[d].shared # {})
        BY <3>2 DEF NameBlockers
      <4> QED
        BY <4>1 DEF NoTx
    <3>3. CASE d \in {e \in Calls \ {c} : Name(c) \in tx[e].held}
      <4>1. d \in Calls /\ tx[d].held # {}
        BY <3>3
      <4> QED
        BY <4>1 DEF NoTx
    <3> QED
      BY <2>1, <3>1, <3>2, <3>3 DEF Blockers
  <2>2. ASSUME NEW c \in Calls, NEW d \in Blockers(c) PROVE pc[d] \in InTx
    <3>1. d \in Calls /\ tx[d] # NoTx
      BY <2>1, <2>2
    <3>2. pc[d] \in {"idle", "write", "find", "insert", "lines", "done"}
      BY <3>1 DEF StoreInv, TypeOK
    <3> QED
      BY <3>1, <3>2 DEF StoreInv, TxInv, InTx
  <2>3. ASSUME NEW c \in Calls PROVE c \notin Blockers(c)
    <3>1. CASE pc[c] = "write"
      BY <2>2, <3>1 DEF InTx
    <3>2. CASE pc[c] # "write"
      BY <3>2 DEF Blockers, NameBlockers
    <3> QED
      BY <3>1, <3>2
  <2>4. LET Begun == {c \in Calls : Open(c)} IN
        Begun # {} => Deadlocked(Begun) \/ \E c \in Begun : Blockers(c) = {}
    <3> SUFFICES ASSUME \A c \in Calls : Open(c) => Blockers(c) # {}, \E c \in Calls : Open(c)
                 PROVE  Deadlocked({c \in Calls : Open(c)})
      OBVIOUS
    <3>1. ASSUME NEW c \in Calls, Open(c) PROVE \E d \in Blockers(c) : d \in Calls /\ Open(d)
      <4>1. PICK d : d \in Blockers(c)
        BY <3>1
      <4>2. d \in Calls /\ pc[d] \in InTx
        BY <2>1, <2>2, <4>1
      <4> QED
        BY <4>1, <4>2 DEF InTx, Open
    <3> QED
      BY <3>1 DEF Deadlocked
  <2> QED
    BY <2>1, <2>2, <2>3, <2>4 DEF SomebodyGoesOn
<1> QED
  BY <1>1, StoreCorrect, PTL

-----------------------------------------------------------------------------
ListLength(c) == IF req[c].op = "delete" THEN 0 ELSE Len(Resolved(req[c]))

\* The statements call c may still make: each of its names may cost a read and an
\* insert in the lookup, and costs a line.
CallLeft(c) ==
    CASE pc[c] = "write" -> 3 * ListLength(c) + 3
      [] pc[c] = "find" -> 2 * (ListLength(c) + 1 - next[c]) + ListLength(c) + 2
      [] pc[c] = "insert" -> 2 * (ListLength(c) + 1 - next[c]) + ListLength(c) + 1
      [] pc[c] = "lines" -> ListLength(c) + 2 - next[c]
      [] OTHER -> 0

LEMMA CallLeftType ==
  ASSUME StoreInv, Places, NEW c \in Calls, Open(c)
  PROVE  ListLength(c) \in Nat /\ CallLeft(c) \in 1..(3 * ListLength(c) + 3)
<1>1. ListLength(c) \in Nat
  BY ListFacts DEF ListLength
<1>2. next[c] \in Nat \ {0} /\ (pc[c] \in InTx => ListLength(c) = Len(Resolved(req[c])))
  BY ListFacts DEF ListLength
<1>3. pc[c] \in {"write", "find", "insert", "lines"}
  BY DEF StoreInv, TypeOK, Open
<1>4. CASE pc[c] = "write"
  BY <1>1, <1>4 DEF CallLeft
<1>5. CASE pc[c] = "find"
  <2>1. next[c] <= ListLength(c) + 1
    BY <1>2, <1>5 DEF Places, InTx
  <2>2. CallLeft(c) = 2 * (ListLength(c) + 1 - next[c]) + ListLength(c) + 2
    BY <1>5 DEF CallLeft
  <2> QED
    BY <1>1, <1>2, <2>1, <2>2
<1>6. CASE pc[c] = "insert"
  <2>1. next[c] <= ListLength(c)
    BY <1>2, <1>6, ListFacts DEF InTx
  <2>2. CallLeft(c) = 2 * (ListLength(c) + 1 - next[c]) + ListLength(c) + 1
    BY <1>6 DEF CallLeft
  <2> QED
    BY <1>1, <1>2, <2>1, <2>2
<1>7. CASE pc[c] = "lines"
  <2>1. next[c] <= ListLength(c) + 1
    BY <1>2, <1>7, ListFacts DEF InTx
  <2>2. CallLeft(c) = ListLength(c) + 2 - next[c]
    BY <1>7 DEF CallLeft
  <2> QED
    BY <1>1, <1>2, <2>1, <2>2
<1> QED
  BY <1>1, <1>3, <1>4, <1>5, <1>6, <1>7

\* Every move of a call makes one of them.
LEMMA MovesLower ==
  ASSUME StoreInv, Places, NEW c \in Calls, Moves(c)
  PROVE  CallLeft(c)' < CallLeft(c)
<1> DEFINE L == ListLength(c)
<1>1. Open(c) /\ req'[c] = req[c] /\ L' = L
  BY DEF Moves, ListLength
<1>2. /\ L \in Nat /\ CallLeft(c) \in 1..(3 * L + 3) /\ next[c] \in Nat \ {0}
      /\ pc[c] \in InTx => L = Len(Resolved(req[c]))
  BY <1>1, CallLeftType, ListFacts DEF ListLength
<1>3. CASE pc'[c] = "done"
  BY <1>2, <1>3 DEF CallLeft
<1>4. CASE pc[c] = "write" /\ pc'[c] = "find" /\ next'[c] = next[c]
  <2>1. next[c] = 1
    BY <1>4 DEF Places
  <2>2. CallLeft(c) = 3 * L + 3 /\ CallLeft(c)' = 2 * (L + 1 - 1) + L + 2
    BY <1>1, <1>4, <2>1 DEF CallLeft
  <2> QED
    BY <1>2, <2>2
<1>5. CASE pc[c] = "find" /\ pc'[c] = "find" /\ next'[c] = next[c] + 1
  <2>1. /\ CallLeft(c) = 2 * (L + 1 - next[c]) + L + 2
        /\ CallLeft(c)' = 2 * (L + 1 - (next[c] + 1)) + L + 2
    BY <1>1, <1>5 DEF CallLeft
  <2>2. L \in Int /\ next[c] \in Int
    BY <1>2
  <2> HIDE DEF L
  <2> QED
    BY <2>1, <2>2
<1>6. CASE pc[c] = "find" /\ pc'[c] = "insert" /\ next'[c] = next[c]
  <2>1. /\ CallLeft(c) = 2 * (L + 1 - next[c]) + L + 2
        /\ CallLeft(c)' = 2 * (L + 1 - next[c]) + L + 1
    BY <1>1, <1>6 DEF CallLeft
  <2> QED
    BY <1>2, <2>1
<1>7. CASE pc[c] = "insert" /\ pc'[c] = "find" /\ next'[c] = next[c] + 1
  <2>1. /\ CallLeft(c) = 2 * (L + 1 - next[c]) + L + 1
        /\ CallLeft(c)' = 2 * (L + 1 - (next[c] + 1)) + L + 2
    BY <1>1, <1>7 DEF CallLeft
  <2>2. L \in Int /\ next[c] \in Int
    BY <1>2
  <2> HIDE DEF L
  <2> QED
    BY <2>1, <2>2
<1>8. CASE pc[c] = "find" /\ pc'[c] = "lines" /\ next'[c] = 1
  <2>1. next[c] <= L + 1
    BY <1>2, <1>8 DEF Places, InTx
  <2>2. /\ CallLeft(c) = 2 * (L + 1 - next[c]) + L + 2
        /\ CallLeft(c)' = L + 2 - 1
    BY <1>1, <1>8 DEF CallLeft
  <2> QED
    BY <1>2, <2>1, <2>2
<1>9. CASE pc[c] = "lines" /\ pc'[c] = "lines" /\ next'[c] = next[c] + 1
  <2>1. CallLeft(c) = L + 2 - next[c] /\ CallLeft(c)' = L + 2 - (next[c] + 1)
    BY <1>1, <1>9 DEF CallLeft
  <2> QED
    BY <1>2, <2>1
<1> QED
  BY <1>3, <1>4, <1>5, <1>6, <1>7, <1>8, <1>9 DEF Moves

\* A write of n names makes at most 3n + 3 statements, whatever the other calls,
\* db.Seed and the readers do meanwhile: none of them sends it back.
CallsBounded == \A c \in Calls : Open(c) => CallLeft(c) \in 1..(3 * ListLength(c) + 3)

THEOREM WriteBounded ==
    Spec => /\ []CallsBounded
            /\ [][\A c \in Calls : IF CallStep(c) THEN CallLeft(c)' < CallLeft(c)
                                   ELSE Start(c) \/ CallLeft(c)' = CallLeft(c)]_vars
<1>1. Init => Places
  BY DEF Init, Places
<1>2. StoreInv /\ Places => CallsBounded
  BY CallLeftType DEF CallsBounded
<1>3. ASSUME StoreInv, Places, [Next]_vars
      PROVE  [\A c \in Calls : IF CallStep(c) THEN CallLeft(c)' < CallLeft(c)
                               ELSE Start(c) \/ CallLeft(c)' = CallLeft(c)]_vars
  <2>1. ASSUME NEW c \in Calls, Stays(c) PROVE CallLeft(c)' = CallLeft(c)
    BY <2>1 DEF Stays, CallLeft, ListLength
  <2>2. ASSUME NEW c \in Calls, ~CallStep(c), ~Start(c) PROVE Stays(c)
    <3>1. ASSUME NEW d \in Calls, Start(d) \/ CallStep(d) PROVE Stays(c)
      <4>1. d # c
        BY <2>2, <3>1
      <4> QED
        BY <1>3, <3>1, <4>1, StartMoves, StepMoves
    <3>2. CASE GetByID \/ (\E n \in Names : SeedName(n)) \/ UNCHANGED vars
      BY <1>3, <3>2, OthersStay
    <3> QED
      BY <1>3, <3>1, <3>2 DEF Next, CallStep
  <2>3. ASSUME NEW c \in Calls, CallStep(c) PROVE CallLeft(c)' < CallLeft(c)
    BY <1>3, <2>3, StepMoves, MovesLower
  <2> QED
    BY <2>1, <2>2, <2>3
<1> QED
  BY <1>1, <1>2, <1>3, PlacesKeep, StoreCorrect, PTL DEF Spec
=============================================================================
