----------------------------- MODULE DetailPage -----------------------------
(***************************************************************************)
(* The page of one recipe (web/src/pages/detail.ts), reached through the   *)
(* router (web/src/main.ts): a form whose save replaces the recipe and     *)
(* sends back verbatim what it does not edit, over the GET, PUT and DELETE *)
(* handlers of internal/api/handlers_recipes.go.  Every page is drawn into *)
(* one container, by whichever reply comes.  Requests are answered, and    *)
(* answers arrive, in any order; other clients and imports write too.      *)
(***************************************************************************)
EXTENDS Naturals, FiniteSets

CONSTANTS
    RecipeIds, \* recipes.id
    List,      \* the address of the list, or of any page but a recipe's
    Edits,     \* what the form edits: name, instructions, ingredients
    Versions,  \* of what it does not edit
    NoRecipe,  \* no row, no form, no body
    MaxCalls   \* bound: requests in flight

\* Categories, status and picture: what others give recipe i.  (No update writes the
\* source.)
Rests(i) == [of : {i}, version : Versions]
Recipes  == [text : Edits, rest : UNION {Rests(i) : i \in RecipeIds}]

\* Of a renderForm: the recipe it is for, what its fields hold, its status line.
Forms == [id : RecipeIds, current : Recipes, typed : Edits, status : {"", "saving", "deleting"}]

ASSUME DetailAssumption == List \notin RecipeIds /\ NoRecipe \notin Recipes \cup Forms /\ MaxCalls \in Nat

VARIABLES
    rows,     \* rows[i]: what is stored of recipe i
    address,  \* window.location.hash
    view,     \* what the container holds
    form,     \* the closure of the last renderForm: id, current, typed, statusEl
    calls     \* requests in flight; mine if sent by that form; two of a kind count as one

detailVars == <<rows, address, view, form, calls>>

DetailTypeOK ==
    /\ rows \in [RecipeIds -> Recipes \cup {NoRecipe}]
    /\ address \in RecipeIds \cup {List}
    /\ view \in {"page", "loading", "form", "error"}
    /\ form \in Forms \cup {NoRecipe}
    /\ view = "form" <=> form # NoRecipe
    /\ calls \subseteq [op : {"get", "put", "delete"}, id : RecipeIds, step : {"sent", "ok"},
                        body : Recipes \cup {NoRecipe}, mine : BOOLEAN]
    /\ Cardinality(calls) <= MaxCalls

\* clear(container): a form that was there is not seen again.
Orphans(S) == {[c EXCEPT !.mine = FALSE] : c \in S}
Draw(what) == view' = what /\ form' = NoRecipe

Request(op, i, body, mine) == [op |-> op, id |-> i, step |-> "sent", body |-> body, mine |-> mine]

DetailInit ==
    /\ rows \in {s \in [RecipeIds -> Recipes \cup {NoRecipe}] :
                    \A i \in RecipeIds : s[i] # NoRecipe => s[i].rest.of = i}
    /\ address = List /\ view = "page" /\ form = NoRecipe
    /\ calls = {}

-----------------------------------------------------------------------------
(* The user.                                                               *)

\* route, up to its first await: only another address is a hashchange.
Open(a) ==
    /\ address # a /\ address' = a
    /\ \/ /\ a = List
          /\ Draw("page")
          /\ calls' = Orphans(calls)
       \/ /\ a # List /\ Cardinality(calls) < MaxCalls
          /\ Draw("loading")
          /\ calls' = Orphans(calls) \cup {Request("get", a, NoRecipe, FALSE)}
    /\ UNCHANGED rows

Edit(text) ==
    /\ form # NoRecipe /\ form.typed # text
    /\ form' = [form EXCEPT !.typed = text]
    /\ UNCHANGED <<rows, address, view, calls>>

Send(status, call) ==
    /\ Cardinality(calls) < MaxCalls
    /\ calls' = calls \cup {call}
    /\ form' = [form EXCEPT !.status = status]
    /\ UNCHANGED <<rows, address, view>>

\* Mutant: the recipe to save is the one the address names.
Save_ByAddress ==
    /\ form # NoRecipe
    /\ Send("saving", Request("put", IF address = List THEN form.id ELSE address,
                              [form.current EXCEPT !.text = form.typed], TRUE))

\* The button stays enabled: saves may overlap.
Save ==
    /\ form # NoRecipe
    /\ Send("saving", Request("put", form.id, [form.current EXCEPT !.text = form.typed], TRUE))

Delete == form # NoRecipe /\ Send("deleting", Request("delete", form.id, NoRecipe, TRUE))

-----------------------------------------------------------------------------
(* The server.  What is missing is answered with 404: see Fail.            *)

Replies(c, body) == calls' = (calls \ {c}) \cup {[c EXCEPT !.step = "ok", !.body = body]}

\* handleGetRecipe
ServeGet(c) ==
    /\ c.op = "get" /\ c.step = "sent" /\ rows[c.id] # NoRecipe
    /\ Replies(c, rows[c.id])
    /\ UNCHANGED rows

\* handleUpdateRecipe answers with what it was sent.
ServePut(c) ==
    /\ c.op = "put" /\ c.step = "sent" /\ rows[c.id] # NoRecipe
    /\ rows' = [rows EXCEPT ![c.id] = c.body]
    /\ Replies(c, c.body)

\* handleDeleteRecipe
ServeDelete(c) ==
    /\ c.op = "delete" /\ c.step = "sent" /\ rows[c.id] # NoRecipe
    /\ rows' = [rows EXCEPT ![c.id] = NoRecipe]
    /\ Replies(c, NoRecipe)

ServeRecipe ==
    /\ \E c \in calls : ServeGet(c) \/ ServePut(c) \/ ServeDelete(c)
    /\ UNCHANGED <<address, view, form>>

\* Other clients and imports change and delete recipes.  Ids are not used again.
OtherWrite ==
    /\ \E i \in RecipeIds :
          /\ rows[i] # NoRecipe
          /\ \E row \in [text : Edits, rest : Rests(i)] \cup {NoRecipe} : rows' = [rows EXCEPT ![i] = row]
    /\ UNCHANGED <<address, view, form, calls>>

-----------------------------------------------------------------------------
(* The answers.                                                            *)

\* renderForm, whatever the container holds by now.
ReceiveGet(c) ==
    /\ c.op = "get" /\ c.step = "ok"
    /\ view' = "form"
    /\ form' = [id |-> c.id, current |-> c.body, typed |-> c.body.text, status |-> ""]
    /\ calls' = Orphans(calls \ {c})
    /\ UNCHANGED <<rows, address>>

\* The form adopts what was stored; one that is gone does so unseen.
ReceivePut(c) ==
    /\ c.op = "put" /\ c.step = "ok"
    /\ form' = IF c.mine THEN [form EXCEPT !.current = c.body, !.typed = c.body.text, !.status = ""]
                         ELSE form
    /\ calls' = calls \ {c}
    /\ UNCHANGED <<rows, address, view>>

\* The address becomes the list's, from wherever; if it is already, no page is drawn.
ReceiveDelete(c) ==
    /\ c.op = "delete" /\ c.step = "ok"
    /\ address' = List
    /\ IF address # List THEN Draw("page") /\ calls' = Orphans(calls \ {c})
                         ELSE UNCHANGED <<view, form>> /\ calls' = calls \ {c}
    /\ UNCHANGED rows

\* Mutant: an error is caught nowhere.
CallFails_Uncaught(c) == calls' = calls \ {c} /\ UNCHANGED <<rows, address, view, form>>

\* An error, a 404 or no answer at all, before or after the server did its part.
CallFails(c) ==
    /\ \/ c.op = "get" /\ Draw("error") /\ calls' = Orphans(calls \ {c})
       \/ /\ c.op # "get"
          /\ form' = IF c.mine THEN [form EXCEPT !.status = ""] ELSE form
          /\ calls' = calls \ {c}
          /\ UNCHANGED view
    /\ UNCHANGED <<rows, address>>

CallReturns == \E c \in calls : ReceiveGet(c) \/ ReceivePut(c) \/ ReceiveDelete(c) \/ CallFails(c)

-----------------------------------------------------------------------------
DetailNext ==
    \/ \E a \in RecipeIds \cup {List} : Open(a)
    \/ \E text \in Edits : Edit(text)
    \/ Save \/ Delete \/ ServeRecipe \/ OtherWrite \/ CallReturns

DetailSpec == DetailInit /\ [][DetailNext]_detailVars

\* Requests are answered, or given up by the browser.
DetailFairSpec == DetailSpec /\ WF_detailVars(CallReturns)

-----------------------------------------------------------------------------
(* What is to hold.                                                        *)

\* "Every field the form does not edit must still be sent back verbatim": whatever
\* reply drew the form, however late, and however saves overlap, a recipe's
\* categories, status and picture are always ones it was given: never blank and
\* never another recipe's.
UntouchedKept == \A i \in RecipeIds : rows[i] # NoRecipe => rows[i].rest \in Rests(i)

\* "Lade Rezept..." and "Speichere..." give way to an answer.
WaitingEnds ==
    /\ view = "loading" ~> view # "loading"
    /\ form # NoRecipe /\ form.status = "saving" ~> form = NoRecipe \/ form.status # "saving"

-----------------------------------------------------------------------------
(* What the page does not keep.                                            *)

\* The router's page is the one in view: a late reply draws over another page.
AddressIsShown == form # NoRecipe => address = form.id

\* A delete under way gives way to an answer: under the list's own address, which
\* such a late reply leaves in place, "#/" is no change, and the page just sits there.
DeletingEnds ==
    form # NoRecipe /\ form.status = "deleting" ~> form = NoRecipe \/ form.status # "deleting"

\* `current` tracks what is stored: another client may have written, and of two
\* saves the reply to the first may come last.
CurrentIsStored ==
    [][\A c \in calls : c.mine /\ ReceivePut(c) /\ rows[c.id] # NoRecipe =>
          form'.current = rows[c.id]]_detailVars

\* What is typed while a save is under way survives it: ingredients do not.
EditsSurviveSave ==
    [][\A c \in calls : ReceivePut(c) /\ form # NoRecipe => form'.typed = form.typed]_detailVars
=============================================================================
