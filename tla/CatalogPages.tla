----------------------------- MODULE CatalogPages -----------------------------
(***************************************************************************)
(* The pages with which an administrator keeps the catalogue: nodes,       *)
(* clients, properties, areas, crop types, crop cycles and thresholds      *)
(* (frontend, pages/admin).  A page shows the list that its last load      *)
(* brought; a save or a deletion is one call, and loads the list again     *)
(* when it succeeds.                                                       *)
(*                                                                         *)
(* Calls are asynchronous: each is served and answered whenever the        *)
(* network pleases, in any order, and an answer may be lost after its      *)
(* effect.  A handler is the state of the page when it begins, when the    *)
(* call succeeded and when it failed.                                      *)
(***************************************************************************)
EXTENDS Naturals, FiniteSets

CONSTANTS
  CatRows,     \* rows that the table may hold
  CatCalls,    \* calls that may be in flight at once
  CatMaxSaves  \* bound: saves and deletions begun in a behaviour

ASSUME CatalogConstants == CatMaxSaves \in Nat

CatalogNames == {"nodes", "clients", "properties", "areas",
                 "cropTypes", "cropCycles", "thresholds"}

\* How the user acts.  "waits": one operation after another.  "repeats": the
\* same, but presses a submit button as often as it is enabled.  "any".
CatalogUsers == {"waits", "repeats", "any"}

VARIABLES
  catPage,     \* the page that is open, and how its user acts
  catTable,    \* the rows of the table, with their contents (two suffice)
  catList,     \* the list that the page shows
  catUi,       \* the page's flags and its dialog
  catCall,     \* per slot: a call in flight
  catSaves     \* bound: saves and deletions begun

catVars == <<catPage, catTable, catList, catUi, catCall, catSaves>>

Absent == 2
CatTables == [CatRows -> {0, 1, Absent}]
Here(table) == {r \in CatRows : table[r] # Absent}

NoDialog == [kind |-> "none", row |-> {}]
Dialogs == {NoDialog, [kind |-> "create", row |-> {}]}
           \cup {[kind |-> k, row |-> {r}] : k \in {"update", "delete"}, r \in CatRows}

\* told, logged: since the list that is shown arrived, the user was told of a failure; a
\* load failed with no more than a line on the console.
\* areas: a load brought the areas that the form of a cycle needs.
CatalogUi == [loading : BOOLEAN, saving : BOOLEAN, told : BOOLEAN, logged : BOOLEAN,
              areas : BOOLEAN, dialog : Dialogs]

Saves == {"create", "update", "delete"}
\* row: what it is about; list: what a load brings; saved: the load follows a save.
Calls == [kind : Saves \cup {"load"}, row : SUBSET CatRows, saved : BOOLEAN,
          state : {"sent", "done", "failed"}, list : {<<>>} \cup CatTables]
NoCatCall == [kind |-> "none", row |-> {}, saved |-> FALSE, state |-> "sent", list |-> <<>>]
Sent(k, row) == [NoCatCall EXCEPT !.kind = k, !.row = row]

CatalogTypeOK ==
  /\ catPage \in [name : CatalogNames \cup {"none"}, user : CatalogUsers]
  /\ catTable \in CatTables /\ catList \in CatTables
  /\ catUi \in CatalogUi
  /\ catCall \in [CatCalls -> Calls \cup {NoCatCall}]
  /\ catSaves \in 0..CatMaxSaves

CatalogInit ==
  /\ catPage = [name |-> "none", user |-> "waits"]
  /\ catTable = [r \in CatRows |-> Absent] /\ catList = catTable
  /\ catUi = [loading |-> TRUE, saving |-> FALSE, told |-> FALSE, logged |-> FALSE,
              areas |-> FALSE, dialog |-> NoDialog]
  /\ catCall = [c \in CatCalls |-> NoCatCall]
  /\ catSaves = 0

-----------------------------------------------------------------------------
(* What the handlers do to the page *)

Loading(u, b) == [u EXCEPT !.loading = b]
Saving(u, b) == [u EXCEPT !.saving = b]
Told(u, b) == [u EXCEPT !.told = b]
Logged(u, b) == [u EXCEPT !.logged = b]

\* Mutant: the row is let go and the form left open.
ClosedHalf(u, k) == IF u.dialog.kind = k THEN [u EXCEPT !.dialog.row = {}] ELSE u

\* An answer closes the dialog of its kind that is open by then.
Closed(u, k) == IF u.dialog.kind = k THEN [u EXCEPT !.dialog = NoDialog] ELSE u

\* Three pages clear the error when a load begins, the others when it succeeds.
NodesLoad(u) == [begin |-> Told(Loading(u, TRUE), FALSE), done |-> Loading(u, FALSE),
                 fail |-> Told(Loading(u, FALSE), TRUE)]
\* Mutant: a load that fails is only logged.
ClientsLoadQuiet(u) == [begin |-> Loading(u, TRUE), done |-> Told(Loading(u, FALSE), FALSE),
                        fail |-> Logged(Loading(u, FALSE), TRUE)]
ClientsLoad(u) == [begin |-> Loading(u, TRUE), done |-> Told(Loading(u, FALSE), FALSE),
                   fail |-> Told(Loading(u, FALSE), TRUE)]

\* These two show nothing of a load that fails, and keep the list that they had.
LogsItsLoads == {"properties", "areas"}
PropertiesLoad(u) == [begin |-> Loading(u, TRUE),
                      done |-> Logged(Told(Loading(u, FALSE), FALSE), FALSE),
                      fail |-> Logged(Loading(u, FALSE), TRUE)]
AreasLoad(u) == [begin |-> Loading(u, TRUE),
                 done |-> Logged(Told(Loading(u, FALSE), FALSE), FALSE),
                 fail |-> Logged(Loading(u, FALSE), TRUE)]

CropTypesLoad(u) == [begin |-> Told(Loading(u, TRUE), FALSE), done |-> Loading(u, FALSE),
                     fail |-> Told(Loading(u, FALSE), TRUE)]
CropCyclesLoad(u) == [begin |-> Told(Loading(u, TRUE), FALSE),
                      done |-> [Loading(u, FALSE) EXCEPT !.areas = TRUE],
                      fail |-> Told(Loading(u, FALSE), TRUE)]
ThresholdsLoad(u) == [begin |-> Told(Loading(u, TRUE), FALSE), done |-> Loading(u, FALSE),
                      fail |-> Told(Loading(u, FALSE), TRUE)]

NodeCreate(u) == [begin |-> Told(Loading(u, TRUE), FALSE), done |-> Closed(u, "create"),
                  fail |-> Told(Loading(u, FALSE), TRUE)]
NodeUpdate(u) == [begin |-> Told(Loading(u, TRUE), FALSE), done |-> Closed(u, "update"),
                  fail |-> Told(Loading(u, FALSE), TRUE)]
NodeDelete(u) == [begin |-> Told(Loading(u, TRUE), FALSE), done |-> u,
                  fail |-> Told(Loading(u, FALSE), TRUE)]

\* Clients, properties and areas have no busy state, and tell by a toast.
ClientCreate(u) == [begin |-> u, done |-> Closed(u, "create"), fail |-> Told(u, TRUE)]
ClientUpdate(u) == [begin |-> u, done |-> Closed(u, "update"), fail |-> Told(u, TRUE)]
ClientDelete(u) == [begin |-> u, done |-> u, fail |-> Told(u, TRUE)]
PropertyCreate(u) == [begin |-> u, done |-> Closed(u, "create"), fail |-> Told(u, TRUE)]
PropertyUpdate(u) == [begin |-> u, done |-> Closed(u, "update"), fail |-> Told(u, TRUE)]
PropertyDelete(u) == [begin |-> u, done |-> u, fail |-> Told(u, TRUE)]
AreaCreate(u) == [begin |-> u, done |-> Closed(u, "create"), fail |-> Told(u, TRUE)]
AreaUpdate(u) == [begin |-> u, done |-> Closed(u, "update"), fail |-> Told(u, TRUE)]
AreaDelete(u) == [begin |-> u, done |-> u, fail |-> Told(u, TRUE)]

CropTypeCreate(u) == [begin |-> Loading(u, TRUE), done |-> Closed(u, "create"),
                      fail |-> Told(Loading(u, FALSE), TRUE)]
CropTypeUpdate(u) == [begin |-> Loading(u, TRUE), done |-> Closed(u, "update"),
                      fail |-> Told(Loading(u, FALSE), TRUE)]
CropTypeDelete(u) == [begin |-> Loading(u, TRUE), done |-> u,
                      fail |-> Told(Loading(u, FALSE), TRUE)]
CropCycleCreate(u) == [begin |-> Loading(u, TRUE), done |-> Closed(u, "create"),
                       fail |-> Told(Loading(u, FALSE), TRUE)]
CropCycleDelete(u) == [begin |-> Loading(u, TRUE), done |-> u,
                       fail |-> Told(Loading(u, FALSE), TRUE)]

\* A threshold's form has its own flag, which stays up until the list is back.
ThresholdSubmit(u) == [begin |-> Saving(u, TRUE),
                       done |-> Closed(Closed(u, "create"), "update"),
                       fail |-> Told(Saving(u, FALSE), TRUE)]
ThresholdDelete(u) == [begin |-> Loading(u, TRUE), done |-> u,
                       fail |-> Told(Loading(u, FALSE), TRUE)]

LoadOf(u) ==
  [nodes |-> NodesLoad(u), clients |-> ClientsLoad(u), properties |-> PropertiesLoad(u),
   areas |-> AreasLoad(u), cropTypes |-> CropTypesLoad(u),
   cropCycles |-> CropCyclesLoad(u), thresholds |-> ThresholdsLoad(u)][catPage.name]

SaveOf(u, k) ==
  CASE k = "create" ->
         [nodes |-> NodeCreate(u), clients |-> ClientCreate(u),
          properties |-> PropertyCreate(u), areas |-> AreaCreate(u),
          cropTypes |-> CropTypeCreate(u), cropCycles |-> CropCycleCreate(u),
          thresholds |-> ThresholdSubmit(u)][catPage.name]
    [] k = "update" ->
         [nodes |-> NodeUpdate(u), clients |-> ClientUpdate(u),
          properties |-> PropertyUpdate(u), areas |-> AreaUpdate(u),
          cropTypes |-> CropTypeUpdate(u), thresholds |-> ThresholdSubmit(u)][catPage.name]
    [] k = "delete" ->
         [nodes |-> NodeDelete(u), clients |-> ClientDelete(u),
          properties |-> PropertyDelete(u), areas |-> AreaDelete(u),
          cropTypes |-> CropTypeDelete(u), cropCycles |-> CropCycleDelete(u),
          thresholds |-> ThresholdDelete(u)][catPage.name]

-----------------------------------------------------------------------------
(* What the page offers *)

\* The first load of these pages shows nothing but a skeleton.
NodesOffer == ~ (catUi.loading /\ Here(catList) = {})
CropTypesOffer == ~ (catUi.loading /\ Here(catList) = {})
CropCyclesOffer == ~ (catUi.loading /\ ~ catUi.areas)

\* These hide the list, with its buttons, during every load.
ClientsOffer == ~ catUi.loading
PropertiesOffer == ~ catUi.loading
AreasOffer == ~ catUi.loading
ThresholdsOffer == ~ catUi.loading

RowsOffered ==
  [nodes |-> NodesOffer, clients |-> ClientsOffer, properties |-> PropertiesOffer,
   areas |-> AreasOffer, cropTypes |-> CropTypesOffer, cropCycles |-> CropCyclesOffer,
   thresholds |-> ThresholdsOffer][catPage.name]

\* Mutant: the list's flag instead of the form's.
ThresholdFormByLoading == ~ catUi.loading
NodeForm == ~ catUi.loading
CropTypeForm == ~ catUi.loading
CropCycleForm == ~ catUi.loading
ThresholdForm == ~ catUi.saving
ClientForm == TRUE
PropertyForm == TRUE
AreaForm == TRUE

SubmitEnabled ==
  [nodes |-> NodeForm, clients |-> ClientForm, properties |-> PropertyForm,
   areas |-> AreaForm, cropTypes |-> CropTypeForm, cropCycles |-> CropCycleForm,
   thresholds |-> ThresholdForm][catPage.name]

Quiet == \A c \in CatCalls : catCall[c] = NoCatCall
MayBegin == catPage.name # "none" /\ (catPage.user = "any" \/ Quiet)

-----------------------------------------------------------------------------
(* Actions *)

OpenPage(page, user, table, c) ==
  /\ catPage.name = "none"
  /\ catPage' = [name |-> page, user |-> user]
  /\ catTable' = table
  /\ catCall' = [catCall EXCEPT ![c] = Sent("load", {})]
  /\ UNCHANGED <<catList, catUi, catSaves>>

\* A dialog covers the page: one at a time.
OpenDialog(dialog) ==
  /\ MayBegin
  /\ catUi.dialog = NoDialog
  /\ IF dialog.kind = "create"
     THEN \/ catPage.name \in {"clients", "properties", "areas", "thresholds"}
          \/ RowsOffered
     ELSE dialog.row \subseteq Here(catList) /\ RowsOffered
  /\ catPage.name = "cropCycles" => dialog.kind # "update"
  /\ catUi' = [catUi EXCEPT !.dialog = dialog]
  /\ UNCHANGED <<catPage, catTable, catList, catCall, catSaves>>

CloseDialog ==
  /\ catUi.dialog # NoDialog
  /\ catUi' = [catUi EXCEPT !.dialog = NoDialog]
  /\ UNCHANGED <<catPage, catTable, catList, catCall, catSaves>>

BeginCall(c, k, ui) ==
  /\ catCall[c] = NoCatCall
  /\ catSaves < CatMaxSaves
  /\ catSaves' = catSaves + 1
  /\ catUi' = SaveOf(ui, k).begin
  /\ catCall' = [catCall EXCEPT ![c] = Sent(k, catUi.dialog.row)]
  /\ UNCHANGED <<catPage, catTable, catList>>

\* The form stays open until the answer.
Submit(c) ==
  /\ catUi.dialog.kind \in {"create", "update"}
  /\ SubmitEnabled
  /\ MayBegin \/ catPage.user = "repeats"
  /\ BeginCall(c, catUi.dialog.kind, catUi)

ConfirmDelete(c) ==
  /\ catUi.dialog.kind = "delete"
  /\ MayBegin
  /\ BeginCall(c, "delete", [catUi EXCEPT !.dialog = NoDialog])

\* The server serves a call, or refuses it.  An answer that is lost looks like
\* a failure, whatever was done.
ServeLoad(c) ==
  /\ catCall[c].kind = "load" /\ catCall[c].state = "sent"
  /\ catCall' = [catCall EXCEPT ![c].state = "done", ![c].list = catTable]
  /\ UNCHANGED <<catPage, catTable, catList, catUi, catSaves>>

\* A save writes one row and commits, in each of the seven services.
ServeSave(c) ==
  /\ catCall[c].kind \in Saves /\ catCall[c].state = "sent"
  /\ \E r \in CatRows, answer \in {"done", "failed"} :
       /\ IF catCall[c].kind = "create"
          THEN catTable[r] = Absent /\ catTable' = [catTable EXCEPT ![r] = 0]
          ELSE /\ r \in catCall[c].row \cap Here(catTable)
               /\ catTable' = [catTable EXCEPT ![r] =
                                 IF catCall[c].kind = "delete" THEN Absent ELSE 1 - @]
       /\ catCall' = [catCall EXCEPT ![c].state = answer]
  /\ UNCHANGED <<catPage, catList, catUi, catSaves>>

FailCall(c) ==
  /\ catCall[c] # NoCatCall /\ catCall[c].state = "sent"
  /\ catCall' = [catCall EXCEPT ![c].state = "failed"]
  /\ UNCHANGED <<catPage, catTable, catList, catUi, catSaves>>

\* handleCreate, handleUpdate and handleDelete go on: after a success the list is
\* loaded again.
FinishSave(c) ==
  /\ catCall[c].kind \in Saves /\ catCall[c].state # "sent"
  /\ LET k == catCall[c].kind
     IN IF catCall[c].state = "done"
        THEN /\ catUi' = LoadOf(SaveOf(catUi, k).done).begin
             /\ catCall' = [catCall EXCEPT ![c] = [Sent("load", {}) EXCEPT
                                               !.saved = k # "delete"]]
        ELSE /\ catUi' = SaveOf(catUi, k).fail
             /\ catCall' = [catCall EXCEPT ![c] = NoCatCall]
  /\ UNCHANGED <<catPage, catTable, catList, catSaves>>

\* The load that follows a save ends the saving too.
FinishLoad(c) ==
  /\ catCall[c].kind = "load" /\ catCall[c].state # "sent"
  /\ LET ui == IF catCall[c].saved THEN Saving(catUi, FALSE) ELSE catUi
     IN IF catCall[c].state = "done"
        THEN catUi' = LoadOf(ui).done /\ catList' = catCall[c].list
        ELSE catUi' = LoadOf(ui).fail /\ UNCHANGED catList
  /\ catCall' = [catCall EXCEPT ![c] = NoCatCall]
  /\ UNCHANGED <<catPage, catTable, catSaves>>

CatalogNext ==
  \/ \E page \in CatalogNames, user \in CatalogUsers, table \in CatTables, c \in CatCalls :
       OpenPage(page, user, table, c)
  \/ \E dialog \in Dialogs \ {NoDialog} : OpenDialog(dialog)
  \/ CloseDialog
  \/ \E c \in CatCalls : \/ Submit(c) \/ ConfirmDelete(c)
                         \/ ServeLoad(c) \/ ServeSave(c) \/ FailCall(c)
                         \/ FinishSave(c) \/ FinishLoad(c)

CatalogSpec == CatalogInit /\ [][CatalogNext]_catVars

-----------------------------------------------------------------------------
(* Properties *)

Submissions == {c \in CatCalls : catCall[c].kind \in {"create", "update"}}

\* A form that locks its button sends one request, however often the button is
\* pressed: a second one would create a second row.  A threshold's form keeps this
\* whatever else the page does, because its flag is its own; the forms of nodes,
\* crop types and cycles share the list's flag, and keep it while the user does
\* not begin other operations.
OneSubmissionAtATime ==
  \/ catPage.name = "thresholds"
  \/ catPage.name \in {"nodes", "cropTypes", "cropCycles"} /\ catPage.user # "any"
  => Cardinality(Submissions) <= 1

LocksItsForm == {"nodes", "cropTypes", "cropCycles", "thresholds"}

\* When nothing is under way, whatever overlapped or failed, a page is neither loading
\* nor saving: no spinner stays and no button remains locked.  And with operations that
\* do not overlap, whichever of them fails or loses its answer after its effect, the
\* list is what the server has, or the user was told of a failure since it arrived; the
\* pages of properties and areas tell of a save that failed but not of a load, so that
\* there a load that failed is the one way to an old list without a word.
QuietPageIsSettled ==
  Quiet /\ catPage.name # "none" =>
    /\ ~ catUi.loading /\ ~ catUi.saving
    /\ \/ catPage.user = "waits"
       \/ catPage.user = "repeats" /\ catPage.name \in LocksItsForm
       => \/ catList = catTable \/ catUi.told
          \/ catPage.name \in LogsItsLoads /\ catUi.logged

=============================================================================
