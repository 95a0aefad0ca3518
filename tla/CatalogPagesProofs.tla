------------------------- MODULE CatalogPagesProofs -------------------------
(***************************************************************************)
(* Theorems about CatalogPages, for any rows and number of calls.          *)
(***************************************************************************)
EXTENDS CatalogPages, FiniteSetTheorems, TLAPS

\* Which flag a save raises when it begins and lowers when it fails.
ListBusy(k) ==
  \/ catPage.name \in {"nodes", "cropTypes", "cropCycles"}
  \/ catPage.name = "thresholds" /\ k = "delete"
FormBusy(k) == catPage.name = "thresholds" /\ k # "delete"

-----------------------------------------------------------------------------
(* What the handlers do *)

\* v is u with other flags; and it tells of a failure, too.
FlagsAre(v, u, loading, saving) ==
  v \in CatalogUi /\ v.loading = loading /\ v.saving = saving /\ v.dialog = u.dialog
Tells(v) == v.told = TRUE

\* A page that does not tell of a load that failed has logged it.
Notes(v) == Tells(v) \/ (catPage.name \in LogsItsLoads /\ v.logged = TRUE)

\* The flags change one at a time.
LEMMA FlagsSet ==
  ASSUME NEW u \in CatalogUi
  PROVE  /\ FlagsAre(u, u, u.loading, u.saving)
         /\ FlagsAre(Loading(u, TRUE), u, TRUE, u.saving)
         /\ FlagsAre(Loading(u, FALSE), u, FALSE, u.saving)
         /\ FlagsAre(Saving(u, TRUE), u, u.loading, TRUE)
         /\ FlagsAre(Saving(u, FALSE), u, u.loading, FALSE)
         /\ FlagsAre([Loading(u, FALSE) EXCEPT !.areas = TRUE], u, FALSE, u.saving)
         /\ FlagsAre(Told(u, TRUE), u, u.loading, u.saving) /\ Tells(Told(u, TRUE))
         /\ FlagsAre(Told(u, FALSE), u, u.loading, u.saving)
         /\ FlagsAre(Logged(u, TRUE), u, u.loading, u.saving) /\ Logged(u, TRUE).logged = TRUE
         /\ FlagsAre(Logged(u, FALSE), u, u.loading, u.saving)
<1>1. FlagsAre(Loading(u, TRUE), u, TRUE, u.saving) /\ FlagsAre(Loading(u, FALSE), u, FALSE, u.saving)
  BY DEF FlagsAre, Loading, CatalogUi
<1>2. FlagsAre(Saving(u, TRUE), u, u.loading, TRUE) /\ FlagsAre(Saving(u, FALSE), u, u.loading, FALSE)
  BY DEF FlagsAre, Saving, CatalogUi
<1>3. FlagsAre([Loading(u, FALSE) EXCEPT !.areas = TRUE], u, FALSE, u.saving)
  BY DEF FlagsAre, Loading, CatalogUi
<1>4. /\ FlagsAre(Told(u, TRUE), u, u.loading, u.saving)
      /\ FlagsAre(Told(u, FALSE), u, u.loading, u.saving)
  BY DEF FlagsAre, Told, CatalogUi
<1>5. Tells(Told(u, TRUE)) /\ FlagsAre(u, u, u.loading, u.saving)
  BY DEF FlagsAre, Told, Tells, CatalogUi
<1>6. /\ FlagsAre(Logged(u, TRUE), u, u.loading, u.saving) /\ Logged(u, TRUE).logged = TRUE
      /\ FlagsAre(Logged(u, FALSE), u, u.loading, u.saving)
  BY DEF FlagsAre, Logged, CatalogUi
<1>7. QED
  BY <1>1, <1>2, <1>3, <1>4, <1>5, <1>6

\* What is told or logged changes no flag.
LEMMA ToldToo ==
  ASSUME NEW u, NEW v, NEW loading, NEW saving, FlagsAre(v, u, loading, saving)
  PROVE  /\ FlagsAre(Told(v, TRUE), u, loading, saving) /\ Tells(Told(v, TRUE))
         /\ FlagsAre(Told(v, FALSE), u, loading, saving)
         /\ FlagsAre(Logged(v, TRUE), u, loading, saving) /\ Logged(v, TRUE).logged = TRUE
         /\ FlagsAre(Logged(v, FALSE), u, loading, saving)
<1>1. v \in CatalogUi
  BY DEF FlagsAre
<1>2. FlagsAre(Told(v, TRUE), v, v.loading, v.saving) /\ Tells(Told(v, TRUE))
      /\ FlagsAre(Told(v, FALSE), v, v.loading, v.saving)
      /\ FlagsAre(Logged(v, TRUE), v, v.loading, v.saving) /\ Logged(v, TRUE).logged = TRUE
      /\ FlagsAre(Logged(v, FALSE), v, v.loading, v.saving)
  BY <1>1, FlagsSet
<1>3. QED
  BY <1>2 DEF FlagsAre

\* Another dialog replaces the one that was open.
LEMMA DialogSet ==
  ASSUME NEW u \in CatalogUi, NEW d \in Dialogs
  PROVE  /\ [u EXCEPT !.dialog = d] \in CatalogUi /\ [u EXCEPT !.dialog = d].dialog = d
         /\ [u EXCEPT !.dialog = d].loading = u.loading
         /\ [u EXCEPT !.dialog = d].saving = u.saving
         /\ [u EXCEPT !.dialog = d].told = u.told /\ [u EXCEPT !.dialog = d].logged = u.logged
  BY DEF CatalogUi

\* What a dialog is about are rows.
LEMMA DialogTyped ==
  /\ NoDialog \in Dialogs /\ NoDialog.kind = "none"
  /\ \A d \in Dialogs : d.row \in SUBSET CatRows /\ d.kind \in Saves \cup {"none"}
<1>1. NoDialog \in Dialogs /\ NoDialog.kind = "none"
  BY DEF Dialogs, NoDialog
<1>2. ASSUME NEW d \in Dialogs PROVE d.row \in SUBSET CatRows /\ d.kind \in Saves \cup {"none"}
  <2>1. CASE d \in {NoDialog, [kind |-> "create", row |-> {}]}
    BY <2>1 DEF NoDialog, Saves
  <2>2. CASE d \in {[kind |-> k, row |-> {r}] : k \in {"update", "delete"}, r \in CatRows}
    BY <2>2 DEF Saves
  <2>3. QED
    BY <2>1, <2>2 DEF Dialogs
<1>3. QED
  BY <1>1, <1>2

\* An answer closes a dialog, or leaves the one that is open.
LEMMA ClosedDoes ==
  ASSUME NEW u \in CatalogUi, NEW k
  PROVE  /\ Closed(u, k) \in CatalogUi /\ Closed(u, k).loading = u.loading
         /\ Closed(u, k).saving = u.saving /\ Closed(u, k).told = u.told
         /\ Closed(u, k).dialog.kind \in {u.dialog.kind, "none"}
         /\ Closed(u, k).dialog.kind # k \/ k = "none"
<1>1. CASE u.dialog.kind = k
  <2>1. Closed(u, k) = [u EXCEPT !.dialog = NoDialog]
    BY <1>1 DEF Closed
  <2>2. QED
    BY <2>1, DialogSet, DialogTyped
<1>2. CASE u.dialog.kind # k
  BY <1>2 DEF Closed
<1>3. QED
  BY <1>1, <1>2

\* A load raises the list's flag while it is under way, and tells or logs that it fails.
LoadsList(h, u) ==
  /\ FlagsAre(h.begin, u, TRUE, u.saving) /\ FlagsAre(h.done, u, FALSE, u.saving)
  /\ FlagsAre(h.fail, u, FALSE, u.saving) /\ Notes(h.fail)

\* The load of every page raises its flag, lowers it at either end, and tells of a failure
\* or, on two pages, logs it.
LEMMA LoadHandlers ==
  ASSUME NEW u \in CatalogUi, catPage.name \in CatalogNames PROVE LoadsList(LoadOf(u), u)
<1> DEFINE up == Loading(u, TRUE)  down == Loading(u, FALSE)
<1>a. /\ FlagsAre(up, u, TRUE, u.saving) /\ FlagsAre(down, u, FALSE, u.saving)
      /\ FlagsAre([down EXCEPT !.areas = TRUE], u, FALSE, u.saving)
  BY FlagsSet
<1>b. /\ FlagsAre(Told(up, FALSE), u, TRUE, u.saving) /\ FlagsAre(Told(down, FALSE), u, FALSE, u.saving)
      /\ FlagsAre(Told(down, TRUE), u, FALSE, u.saving) /\ Tells(Told(down, TRUE))
  BY <1>a, ToldToo
<1>d. Notes(Told(down, TRUE))
  BY <1>b DEF Notes
<1>c. /\ FlagsAre(Logged(down, TRUE), u, FALSE, u.saving) /\ Logged(down, TRUE).logged = TRUE
      /\ FlagsAre(Logged(Told(down, FALSE), FALSE), u, FALSE, u.saving)
  BY <1>a, <1>b, ToldToo
<1>1. CASE catPage.name = "nodes"
  <2>1. LoadOf(u) = NodesLoad(u)
    BY <1>1 DEF LoadOf
  <2>2. LoadsList(NodesLoad(u), u)
    BY <1>a, <1>b, <1>d DEF NodesLoad, LoadsList
  <2>3. QED
    BY <2>1, <2>2
<1>2. CASE catPage.name = "clients"
  <2>1. LoadOf(u) = ClientsLoad(u)
    BY <1>2 DEF LoadOf
  <2>2. LoadsList(ClientsLoad(u), u)
    BY <1>a, <1>b, <1>d DEF ClientsLoad, LoadsList
  <2>3. QED
    BY <2>1, <2>2
<1>3. CASE catPage.name = "properties"
  <2>1. LoadOf(u) = PropertiesLoad(u)
    BY <1>3 DEF LoadOf
  <2>2. LoadsList(PropertiesLoad(u), u)
    BY <1>3, <1>a, <1>c DEF PropertiesLoad, LoadsList, Notes, LogsItsLoads
  <2>3. QED
    BY <2>1, <2>2
<1>4. CASE catPage.name = "areas"
  <2>1. LoadOf(u) = AreasLoad(u)
    BY <1>4 DEF LoadOf
  <2>2. LoadsList(AreasLoad(u), u)
    BY <1>4, <1>a, <1>c DEF AreasLoad, LoadsList, Notes, LogsItsLoads
  <2>3. QED
    BY <2>1, <2>2
<1>5. CASE catPage.name = "cropTypes"
  <2>1. LoadOf(u) = CropTypesLoad(u)
    BY <1>5 DEF LoadOf
  <2>2. LoadsList(CropTypesLoad(u), u)
    BY <1>a, <1>b, <1>d DEF CropTypesLoad, LoadsList
  <2>3. QED
    BY <2>1, <2>2
<1>6. CASE catPage.name = "cropCycles"
  <2>1. LoadOf(u) = CropCyclesLoad(u)
    BY <1>6 DEF LoadOf
  <2>2. LoadsList(CropCyclesLoad(u), u)
    BY <1>a, <1>b, <1>d DEF CropCyclesLoad, LoadsList
  <2>3. QED
    BY <2>1, <2>2
<1>7. CASE catPage.name = "thresholds"
  <2>1. LoadOf(u) = ThresholdsLoad(u)
    BY <1>7 DEF LoadOf
  <2>2. LoadsList(ThresholdsLoad(u), u)
    BY <1>a, <1>b, <1>d DEF ThresholdsLoad, LoadsList
  <2>3. QED
    BY <2>1, <2>2
<1>8. QED
  BY <1>1, <1>2, <1>3, <1>4, <1>5, <1>6, <1>7 DEF CatalogNames

\* A save raises the flag of its page, closes its dialog and tells when it fails.
AnswersOf(v, u) ==
  /\ v \in CatalogUi /\ v.loading = u.loading /\ v.saving = u.saving
  /\ v.dialog.kind \in {u.dialog.kind, "none"}
PlainSave(h, u) ==
  /\ FlagsAre(h.begin, u, u.loading, u.saving) /\ AnswersOf(h.done, u)
  /\ FlagsAre(h.fail, u, u.loading, u.saving) /\ Tells(h.fail)
ListSave(h, u) ==
  /\ FlagsAre(h.begin, u, TRUE, u.saving) /\ AnswersOf(h.done, u)
  /\ FlagsAre(h.fail, u, FALSE, u.saving) /\ Tells(h.fail)
FormSave(h, u) ==
  /\ FlagsAre(h.begin, u, u.loading, TRUE) /\ AnswersOf(h.done, u)
  /\ h.done.dialog.kind \notin {"create", "update"}
  /\ FlagsAre(h.fail, u, u.loading, FALSE) /\ Tells(h.fail)

\* Crop cycles are not edited.
LEMMA SaveHandlers ==
  ASSUME NEW u \in CatalogUi, catPage.name \in CatalogNames, NEW k \in Saves,
         catPage.name = "cropCycles" => k # "update"
  PROVE  /\ ListBusy(k) => ListSave(SaveOf(u, k), u)
         /\ FormBusy(k) => FormSave(SaveOf(u, k), u)
         /\ ~ ListBusy(k) /\ ~ FormBusy(k) => PlainSave(SaveOf(u, k), u)
<1>a. /\ AnswersOf(u, u) /\ AnswersOf(Closed(u, "create"), u) /\ AnswersOf(Closed(u, "update"), u)
      /\ AnswersOf(Closed(Closed(u, "create"), "update"), u)
      /\ Closed(Closed(u, "create"), "update").dialog.kind \notin {"create", "update"}
  BY ClosedDoes DEF AnswersOf
<1>b. /\ FlagsAre(u, u, u.loading, u.saving)
      /\ FlagsAre(Loading(u, TRUE), u, TRUE, u.saving)
      /\ FlagsAre(Loading(u, FALSE), u, FALSE, u.saving)
      /\ FlagsAre(Saving(u, TRUE), u, u.loading, TRUE)
      /\ FlagsAre(Saving(u, FALSE), u, u.loading, FALSE)
  BY FlagsSet
<1>c. /\ FlagsAre(Told(u, TRUE), u, u.loading, u.saving) /\ Tells(Told(u, TRUE))
      /\ FlagsAre(Told(Loading(u, TRUE), FALSE), u, TRUE, u.saving)
      /\ FlagsAre(Told(Loading(u, FALSE), TRUE), u, FALSE, u.saving)
      /\ Tells(Told(Loading(u, FALSE), TRUE))
      /\ FlagsAre(Told(Saving(u, FALSE), TRUE), u, u.loading, FALSE)
      /\ Tells(Told(Saving(u, FALSE), TRUE))
  BY <1>b, ToldToo
<1>1. CASE catPage.name = "nodes"
  <2>1. ListBusy(k) /\ ~ FormBusy(k)
    BY <1>1 DEF ListBusy, FormBusy
  <2>2. SaveOf(u, k) \in {NodeCreate(u), NodeUpdate(u), NodeDelete(u)}
    BY <1>1 DEF SaveOf, Saves
  <2>3. ListSave(NodeCreate(u), u)
    BY <1>a, <1>b, <1>c DEF NodeCreate, ListSave
  <2>4. ListSave(NodeUpdate(u), u)
    BY <1>a, <1>b, <1>c DEF NodeUpdate, ListSave
  <2>5. ListSave(NodeDelete(u), u)
    BY <1>a, <1>b, <1>c DEF NodeDelete, ListSave
  <2>6. QED
    BY <2>1, <2>2, <2>3, <2>4, <2>5
<1>2. CASE catPage.name = "clients"
  <2>1. ~ ListBusy(k) /\ ~ FormBusy(k)
    BY <1>2 DEF ListBusy, FormBusy
  <2>2. SaveOf(u, k) \in {ClientCreate(u), ClientUpdate(u), ClientDelete(u)}
    BY <1>2 DEF SaveOf, Saves
  <2>3. PlainSave(ClientCreate(u), u)
    BY <1>a, <1>b, <1>c DEF ClientCreate, PlainSave
  <2>4. PlainSave(ClientUpdate(u), u)
    BY <1>a, <1>b, <1>c DEF ClientUpdate, PlainSave
  <2>5. PlainSave(ClientDelete(u), u)
    BY <1>a, <1>b, <1>c DEF ClientDelete, PlainSave
  <2>6. QED
    BY <2>1, <2>2, <2>3, <2>4, <2>5
<1>3. CASE catPage.name = "properties"
  <2>1. ~ ListBusy(k) /\ ~ FormBusy(k)
    BY <1>3 DEF ListBusy, FormBusy
  <2>2. SaveOf(u, k) \in {PropertyCreate(u), PropertyUpdate(u), PropertyDelete(u)}
    BY <1>3 DEF SaveOf, Saves
  <2>3. PlainSave(PropertyCreate(u), u)
    BY <1>a, <1>b, <1>c DEF PropertyCreate, PlainSave
  <2>4. PlainSave(PropertyUpdate(u), u)
    BY <1>a, <1>b, <1>c DEF PropertyUpdate, PlainSave
  <2>5. PlainSave(PropertyDelete(u), u)
    BY <1>a, <1>b, <1>c DEF PropertyDelete, PlainSave
  <2>6. QED
    BY <2>1, <2>2, <2>3, <2>4, <2>5
<1>4. CASE catPage.name = "areas"
  <2>1. ~ ListBusy(k) /\ ~ FormBusy(k)
    BY <1>4 DEF ListBusy, FormBusy
  <2>2. SaveOf(u, k) \in {AreaCreate(u), AreaUpdate(u), AreaDelete(u)}
    BY <1>4 DEF SaveOf, Saves
  <2>3. PlainSave(AreaCreate(u), u)
    BY <1>a, <1>b, <1>c DEF AreaCreate, PlainSave
  <2>4. PlainSave(AreaUpdate(u), u)
    BY <1>a, <1>b, <1>c DEF AreaUpdate, PlainSave
  <2>5. PlainSave(AreaDelete(u), u)
    BY <1>a, <1>b, <1>c DEF AreaDelete, PlainSave
  <2>6. QED
    BY <2>1, <2>2, <2>3, <2>4, <2>5
<1>5. CASE catPage.name = "cropTypes"
  <2>1. ListBusy(k) /\ ~ FormBusy(k)
    BY <1>5 DEF ListBusy, FormBusy
  <2>2. SaveOf(u, k) \in {CropTypeCreate(u), CropTypeUpdate(u), CropTypeDelete(u)}
    BY <1>5 DEF SaveOf, Saves
  <2>3. ListSave(CropTypeCreate(u), u)
    BY <1>a, <1>b, <1>c DEF CropTypeCreate, ListSave
  <2>4. ListSave(CropTypeUpdate(u), u)
    BY <1>a, <1>b, <1>c DEF CropTypeUpdate, ListSave
  <2>5. ListSave(CropTypeDelete(u), u)
    BY <1>a, <1>b, <1>c DEF CropTypeDelete, ListSave
  <2>6. QED
    BY <2>1, <2>2, <2>3, <2>4, <2>5
<1>6. CASE catPage.name = "cropCycles"
  <2>1. ListBusy(k) /\ ~ FormBusy(k)
    BY <1>6 DEF ListBusy, FormBusy
  <2>2. SaveOf(u, k) \in {CropCycleCreate(u), CropCycleDelete(u)}
    BY <1>6 DEF SaveOf, Saves
  <2>3. ListSave(CropCycleCreate(u), u)
    BY <1>a, <1>b, <1>c DEF CropCycleCreate, ListSave
  <2>4. ListSave(CropCycleDelete(u), u)
    BY <1>a, <1>b, <1>c DEF CropCycleDelete, ListSave
  <2>5. QED
    BY <2>1, <2>2, <2>3, <2>4
<1>7. CASE catPage.name = "thresholds"
  <2>1. FormBusy(k) <=> k # "delete"
    BY <1>7 DEF FormBusy
  <2>2. ListBusy(k) <=> k = "delete"
    BY <1>7 DEF ListBusy
  <2>3. SaveOf(u, k) = IF k = "delete" THEN ThresholdDelete(u) ELSE ThresholdSubmit(u)
    BY <1>7 DEF SaveOf, Saves
  <2>4. ListSave(ThresholdDelete(u), u)
    BY <1>a, <1>b, <1>c DEF ThresholdDelete, ListSave
  <2>5. FormSave(ThresholdSubmit(u), u)
    BY <1>a, <1>b, <1>c DEF ThresholdSubmit, FormSave
  <2>6. QED
    BY <2>1, <2>2, <2>3, <2>4, <2>5
<1>8. QED
  BY <1>1, <1>2, <1>3, <1>4, <1>5, <1>6, <1>7 DEF CatalogNames

-----------------------------------------------------------------------------
(* Calls *)

Slots == Calls \cup {NoCatCall}
States == {"sent", "done", "failed"}
Lists == {<<>>} \cup CatTables

\* A slot holds a call, or none.
LEMMA SlotTyped ==
  ASSUME NEW r \in Slots
  PROVE  /\ r.kind \in Saves \cup {"load", "none"}
         /\ r.kind = "none" <=> r = NoCatCall
         /\ r.kind # "none" => r \in Calls
         /\ r.row \in SUBSET CatRows /\ r.saved \in BOOLEAN
<1>1. CASE r \in Calls
  BY <1>1 DEF Calls, NoCatCall, Saves
<1>2. CASE r = NoCatCall
  BY <1>2 DEF NoCatCall
<1>3. QED
  BY <1>1, <1>2 DEF Slots

\* What is sent is about the dialog's row.
LEMMA SentTyped ==
  ASSUME NEW k \in Saves \cup {"load"}, NEW row \in SUBSET CatRows
  PROVE  /\ Sent(k, row) \in Calls /\ Sent(k, row).kind = k /\ Sent(k, row).saved = FALSE
         /\ Sent(k, row).state = "sent"
<1> DEFINE Record == [kind : Saves \cup {"load", "none"}, row : SUBSET CatRows, saved : BOOLEAN,
                      state : States, list : Lists]
<1>1. NoCatCall \in Record /\ NoCatCall.saved = FALSE /\ NoCatCall.state = "sent"
  BY DEF NoCatCall, States, Lists
<1>2. ASSUME NEW r \in Record
      PROVE  LET t == [r EXCEPT !.kind = k, !.row = row]
             IN t \in Calls /\ t.kind = k /\ t.saved = r.saved /\ t.state = r.state
  BY DEF Calls, States, Lists, Saves
<1> HIDE DEF Record
<1>3. QED
  BY <1>1, <1>2 DEF Sent

\* A load is about no row; it may follow a save.
LEMMA LoadTyped ==
  ASSUME NEW saved \in BOOLEAN
  PROVE  LET r == [Sent("load", {}) EXCEPT !.saved = saved]
         IN r \in Slots /\ r.kind = "load" /\ r.saved = saved /\ r.state = "sent"
<1>1. "load" \in Saves \cup {"load"} /\ {} \in SUBSET CatRows
  OBVIOUS
<1>2. Sent("load", {}) \in Calls /\ Sent("load", {}).kind = "load" /\ Sent("load", {}).state = "sent"
  BY <1>1, SentTyped
<1>3. ASSUME NEW t \in Calls
      PROVE  LET v == [t EXCEPT !.saved = saved]
             IN v \in Calls /\ v.kind = t.kind /\ v.saved = saved /\ v.state = t.state
  BY DEF Calls
<1>4. QED
  BY <1>2, <1>3 DEF Slots

\* A call that is served or fails is the call.
LEMMA StateSet ==
  ASSUME NEW r \in Calls, NEW state \in States
  PROVE  /\ [r EXCEPT !.state = state] \in Calls
         /\ [r EXCEPT !.state = state].kind = r.kind /\ [r EXCEPT !.state = state].saved = r.saved
         /\ [r EXCEPT !.state = state].state = state
  BY DEF Calls, States

\* A load that is served brings a list.
LEMMA ListSet ==
  ASSUME NEW r \in Calls, NEW list \in Lists
  PROVE  LET t == [r EXCEPT !.state = "done", !.list = list]
         IN t \in Slots /\ t.kind = r.kind /\ t.saved = r.saved /\ t.list = list
<1>1. [r EXCEPT !.state = "done", !.list = list] \in Calls
  BY DEF Calls, Lists
<1>2. QED
  BY <1>1 DEF Calls, Slots

-----------------------------------------------------------------------------
(* The invariant *)

\* Nothing happens before a page is opened, and crop cycles are not edited.
BeforeOpening ==
  /\ catPage.name = "none" =>
       /\ catUi.loading = TRUE /\ catUi.saving = FALSE /\ catUi.dialog.kind = "none"
       /\ \A c \in CatCalls : catCall[c].kind = "none"
  /\ catPage.name = "cropCycles" =>
       catUi.dialog.kind # "update" /\ \A c \in CatCalls : catCall[c].kind # "update"

\* Calls that keep the list's flag up, and calls of a form until its list is back.
LoadsFor(c) ==
  catCall[c].kind = "load" \/ (catCall[c].kind \in Saves /\ ListBusy(catCall[c].kind))
FormCall(c) ==
  catCall[c].kind \in {"create", "update"} \/ (catCall[c].kind = "load" /\ catCall[c].saved = TRUE)

\* A flag is up only while a call that will lower it is in flight.
BusyIsUnderWay ==
  catPage.name # "none" =>
    /\ catUi.loading = TRUE => \E c \in CatCalls : LoadsFor(c)
    /\ catUi.saving = TRUE => catPage.name = "thresholds" /\ \E c \in CatCalls : FormCall(c)

\* The flag of a threshold's form is up for its only call.
OneForm ==
  catPage.name = "thresholds" =>
    \A c \in CatCalls : FormCall(c) =>
      catUi.saving = TRUE /\ \A d \in CatCalls : FormCall(d) => d = c

\* Operations do not overlap when the user waits, or the form locks its button: then the
\* flags lock it while the one call is in flight, and its load brings what the table has.
Orderly ==
  \/ catPage.user = "waits"
  \/ catPage.user = "repeats" /\ catPage.name \in LocksItsForm
InFlight(c) == catCall[c].kind # "none"
OneOperation ==
  Orderly =>
    /\ \A c, d \in CatCalls : InFlight(c) /\ InFlight(d) => c = d
    /\ \A c \in CatCalls : InFlight(c) =>
         /\ catPage.name \in {"nodes", "cropTypes", "cropCycles"} => catUi.loading = TRUE
         /\ catPage.name = "thresholds" =>
              catUi.saving = TRUE \/ catUi.dialog.kind \notin {"create", "update"}
         /\ catCall[c].kind = "load" /\ catCall[c].state = "done" => catCall[c].list = catTable
    /\ catPage.name # "none" /\ (\A c \in CatCalls : ~ InFlight(c)) =>
         catList = catTable \/ Notes(catUi)

\* What a load brings is a table.
LoadsBringTables ==
  \A c \in CatCalls :
    catCall[c].kind = "load" /\ catCall[c].state = "done" => catCall[c].list \in CatTables

CatSafe == BeforeOpening /\ BusyIsUnderWay /\ OneForm /\ OneOperation /\ LoadsBringTables
CatInv == CatalogTypeOK /\ CatSafe

\* What the types say of each part.
LEMMA Parts ==
  ASSUME CatalogTypeOK
  PROVE  /\ catPage.name \in CatalogNames \cup {"none"} /\ catPage.user \in CatalogUsers
         /\ catTable \in CatTables /\ catList \in CatTables
         /\ catUi \in CatalogUi /\ catUi.dialog \in Dialogs
         /\ catUi.loading \in BOOLEAN /\ catUi.saving \in BOOLEAN /\ catUi.told \in BOOLEAN
         /\ catCall \in [CatCalls -> Slots] /\ catSaves \in 0..CatMaxSaves
         /\ \A c \in CatCalls :
              /\ catCall[c] \in Slots
              /\ catCall[c].kind \in Saves \cup {"load", "none"}
              /\ catCall[c].kind = "none" <=> catCall[c] = NoCatCall
              /\ catCall[c].saved \in BOOLEAN /\ catCall[c].row \in SUBSET CatRows
         /\ Quiet <=> \A c \in CatCalls : ~ InFlight(c)
<1>1. /\ catPage.name \in CatalogNames \cup {"none"} /\ catPage.user \in CatalogUsers
      /\ catTable \in CatTables /\ catList \in CatTables
      /\ catUi \in CatalogUi /\ catCall \in [CatCalls -> Slots] /\ catSaves \in 0..CatMaxSaves
  BY DEF CatalogTypeOK, Slots
<1>2. /\ catUi.dialog \in Dialogs
      /\ catUi.loading \in BOOLEAN /\ catUi.saving \in BOOLEAN /\ catUi.told \in BOOLEAN
  BY <1>1 DEF CatalogUi
<1>3. \A c \in CatCalls :
        /\ catCall[c] \in Slots
        /\ catCall[c].kind \in Saves \cup {"load", "none"}
        /\ catCall[c].kind = "none" <=> catCall[c] = NoCatCall
        /\ catCall[c].saved \in BOOLEAN /\ catCall[c].row \in SUBSET CatRows
  <2>1. SUFFICES ASSUME NEW c \in CatCalls
                 PROVE  /\ catCall[c] \in Slots
                        /\ catCall[c].kind \in Saves \cup {"load", "none"}
                        /\ catCall[c].kind = "none" <=> catCall[c] = NoCatCall
                        /\ catCall[c].saved \in BOOLEAN /\ catCall[c].row \in SUBSET CatRows
    OBVIOUS
  <2>2. catCall[c] \in Slots
    BY <1>1
  <2>3. QED
    BY <2>2, SlotTyped
<1>4. QED
  BY <1>1, <1>2, <1>3 DEF Quiet, InFlight

\* The types, from their parts.
LEMMA FromParts ==
  ASSUME catPage' \in [name : CatalogNames \cup {"none"}, user : CatalogUsers],
         catTable' \in CatTables, catList' \in CatTables, catUi' \in CatalogUi,
         catCall' \in [CatCalls -> Slots], catSaves' \in 0..CatMaxSaves
  PROVE  CatalogTypeOK'
  BY DEF CatalogTypeOK, Slots

\* One slot changes.
LEMMA OneSlot ==
  ASSUME CatalogTypeOK, NEW c \in CatCalls, NEW r \in Slots,
         catCall' = [catCall EXCEPT ![c] = r]
  PROVE  /\ catCall' \in [CatCalls -> Slots] /\ catCall'[c] = r
         /\ \A d \in CatCalls : d # c => catCall'[d] = catCall[d]
  BY Parts

\* The page begins with nothing in flight.
LEMMA CatalogInitInv == CatalogInit => CatInv
<1> SUFFICES ASSUME CatalogInit PROVE CatInv
  OBVIOUS
<1>1. NoDialog \in Dialogs /\ NoDialog.kind = "none" /\ NoCatCall.kind = "none"
  BY DialogTyped DEF NoCatCall
<1>2. catUi \in CatalogUi
  BY <1>1 DEF CatalogInit, CatalogUi
<1>3. catTable \in CatTables
  BY DEF CatalogInit, CatTables
<1>4. catPage \in [name : CatalogNames \cup {"none"}, user : CatalogUsers]
      /\ catCall \in [CatCalls -> Calls \cup {NoCatCall}] /\ catSaves \in 0..CatMaxSaves
  BY CatalogConstants DEF CatalogInit, CatalogUsers
<1>5. CatalogTypeOK
  BY <1>2, <1>3, <1>4 DEF CatalogInit, CatalogTypeOK
<1>6. CatSafe
  <2>1. catPage.name = "none" /\ \A c \in CatCalls : catCall[c].kind = "none"
    BY <1>1 DEF CatalogInit
  <2>2. catUi.loading = TRUE /\ catUi.saving = FALSE /\ catUi.dialog.kind = "none"
    BY <1>1 DEF CatalogInit
  <2>3. QED
    BY <2>1, <2>2 DEF CatSafe, BeforeOpening, BusyIsUnderWay, OneForm, OneOperation, InFlight,
                           LoadsBringTables
<1>7. QED
  BY <1>5, <1>6 DEF CatInv

-----------------------------------------------------------------------------
(* Pages and dialogs *)

\* A page is opened with its load under way.
LEMMA OpenPageInv ==
  ASSUME CatInv, NEW page \in CatalogNames, NEW user \in CatalogUsers, NEW table \in CatTables,
         NEW c \in CatCalls, OpenPage(page, user, table, c)
  PROVE  CatInv'
<1> DEFINE r == Sent("load", {})
<1>1. r \in Slots /\ r.kind = "load" /\ r.saved = FALSE /\ r.state = "sent"
  <2>1. "load" \in Saves \cup {"load"} /\ {} \in SUBSET CatRows
    OBVIOUS
  <2>2. QED
    BY <2>1, SentTyped DEF Slots
<1> HIDE DEF r
<1>2. /\ catPage.name = "none" /\ catPage'.name = page /\ catPage'.user = user
      /\ catPage' \in [name : CatalogNames \cup {"none"}, user : CatalogUsers]
      /\ catTable' = table /\ catCall' = [catCall EXCEPT ![c] = r]
      /\ UNCHANGED <<catList, catUi, catSaves>>
  BY DEF OpenPage, r
<1>3. CatalogTypeOK /\ CatSafe
  BY DEF CatInv
<1>4. /\ catCall' \in [CatCalls -> Slots] /\ catCall'[c] = r
      /\ \A d \in CatCalls : d # c => catCall'[d] = catCall[d]
  BY <1>1, <1>2, <1>3, OneSlot
<1>5. /\ catUi.loading = TRUE /\ catUi.saving = FALSE /\ catUi.dialog.kind = "none"
      /\ \A d \in CatCalls : catCall[d].kind = "none"
  BY <1>2, <1>3 DEF CatSafe, BeforeOpening
<1>6. CatalogTypeOK'
  BY <1>2, <1>3, <1>4, Parts, FromParts
<1>7. page # "none"
  BY DEF CatalogNames
<1>8. BeforeOpening'
  BY <1>1, <1>2, <1>4, <1>5, <1>7 DEF BeforeOpening
<1>9. BusyIsUnderWay'
  BY <1>1, <1>2, <1>4, <1>5 DEF BusyIsUnderWay, LoadsFor
<1>10. OneForm'
  BY <1>1, <1>4, <1>5 DEF OneForm, FormCall
<1>11. OneOperation'
  BY <1>1, <1>2, <1>4, <1>5 DEF OneOperation, InFlight
<1>12. LoadsBringTables'
  BY <1>1, <1>4, <1>5 DEF LoadsBringTables
<1>13. QED
  BY <1>6, <1>8, <1>9, <1>10, <1>11, <1>12 DEF CatInv, CatSafe

\* A dialog that is opened, or closed, leaves the calls alone; it is opened while nothing
\* is in flight, unless the user does as he pleases.
LEMMA DialogInv ==
  ASSUME CatInv, NEW dialog \in Dialogs, catUi' = [catUi EXCEPT !.dialog = dialog],
         UNCHANGED <<catPage, catTable, catList, catCall, catSaves>>, catPage.name # "none",
         catPage.name = "cropCycles" => dialog.kind # "update",
         dialog.kind = "none" \/ catPage.user = "any" \/ Quiet
  PROVE  CatInv'
<1>1. CatalogTypeOK /\ CatSafe
  BY DEF CatInv
<1>2. /\ catUi' \in CatalogUi /\ catUi'.dialog = dialog /\ catUi'.loading = catUi.loading
      /\ catUi'.saving = catUi.saving /\ catUi'.told = catUi.told
      /\ catUi'.logged = catUi.logged
  BY <1>1, Parts, DialogSet
<1>3. CatalogTypeOK'
  BY <1>1, <1>2, FromParts, Parts DEF CatalogTypeOK
<1>4. BeforeOpening'
  BY <1>1, <1>2 DEF CatSafe, BeforeOpening
<1>5. BusyIsUnderWay'
  BY <1>1, <1>2 DEF CatSafe, BusyIsUnderWay, LoadsFor, ListBusy, FormCall
<1>6. OneForm'
  BY <1>1, <1>2 DEF CatSafe, OneForm, FormCall
<1>7. Orderly => dialog.kind = "none" \/ \A c \in CatCalls : ~ InFlight(c)
  BY <1>1, Parts DEF Orderly
<1>8. OneOperation'
  BY <1>1, <1>2, <1>7 DEF CatSafe, OneOperation, InFlight, Orderly, Notes, Tells
<1>9. LoadsBringTables'
  BY <1>1 DEF CatSafe, LoadsBringTables
<1>10. QED
  BY <1>3, <1>4, <1>5, <1>6, <1>8, <1>9 DEF CatInv, CatSafe

-----------------------------------------------------------------------------
(* The server *)

\* A call that is served or fails keeps its place; its load brings the table of then.
LEMMA ServedInv ==
  ASSUME CatInv, NEW c \in CatCalls, NEW r \in Slots, catCall' = [catCall EXCEPT ![c] = r],
         InFlight(c), r.kind = catCall[c].kind, r.saved = catCall[c].saved,
         r.kind = "load" /\ r.state = "done" => r.list = catTable',
         catTable' \in CatTables, UNCHANGED <<catPage, catList, catUi, catSaves>>
  PROVE  CatInv'
<1>1. CatalogTypeOK /\ CatSafe
  BY DEF CatInv
<1>2. /\ catCall' \in [CatCalls -> Slots] /\ catCall'[c] = r
      /\ \A d \in CatCalls : d # c => catCall'[d] = catCall[d]
  BY <1>1, OneSlot
<1>3. \A d \in CatCalls : catCall'[d].kind = catCall[d].kind /\ catCall'[d].saved = catCall[d].saved
  BY <1>2
<1>4. CatalogTypeOK'
  BY <1>1, <1>2, FromParts, Parts DEF CatalogTypeOK
<1>5. BeforeOpening'
  BY <1>1, <1>3 DEF CatSafe, BeforeOpening
<1>6. BusyIsUnderWay'
  BY <1>1, <1>3 DEF CatSafe, BusyIsUnderWay, LoadsFor, ListBusy, FormCall
<1>7. OneForm'
  BY <1>1, <1>3 DEF CatSafe, OneForm, FormCall
<1>8. OneOperation'
  <2>1. SUFFICES ASSUME Orderly' PROVE OneOperation'
    BY DEF OneOperation
  <2>2. Orderly /\ OneOperation
    BY <1>1, <2>1 DEF CatSafe, Orderly
  <2>3. \A d \in CatCalls : d # c => ~ InFlight(d)
    BY <2>2 DEF OneOperation
  <2>4. QED
    BY <1>2, <1>3, <2>2, <2>3 DEF OneOperation, InFlight
<1>9. LoadsBringTables'
  BY <1>1, <1>2 DEF CatSafe, LoadsBringTables
<1>10. QED
  BY <1>4, <1>5, <1>6, <1>7, <1>8, <1>9 DEF CatInv, CatSafe

\* The server's answer to a call, or the call's failure, keeps the invariant.
LEMMA ServerInv ==
  ASSUME CatInv, NEW c \in CatCalls, ServeLoad(c) \/ ServeSave(c) \/ FailCall(c)
  PROVE  CatInv'
<1>1. CatalogTypeOK /\ catCall \in [CatCalls -> Slots] /\ catTable \in CatTables
  BY Parts DEF CatInv
<1>2. ASSUME catCall[c] # NoCatCall PROVE catCall[c] \in Calls /\ InFlight(c)
  BY <1>1, <1>2, SlotTyped DEF InFlight
<1>3. CASE ServeLoad(c)
  <2> DEFINE r == [catCall[c] EXCEPT !.state = "done", !.list = catTable]
  <2>1. catCall[c] \in Calls /\ InFlight(c) /\ catCall[c].kind = "load"
    BY <1>2, <1>3 DEF ServeLoad, NoCatCall
  <2>2. r \in Slots /\ r.kind = catCall[c].kind /\ r.saved = catCall[c].saved /\ r.list = catTable
    <3>1. catTable \in Lists
      BY <1>1 DEF Lists
    <3>2. QED
      BY <2>1, <3>1, ListSet
  <2>3. catCall' = [catCall EXCEPT ![c] = r]
    BY <1>1, <1>3 DEF ServeLoad
  <2> HIDE DEF r
  <2>4. UNCHANGED <<catPage, catTable, catList, catUi, catSaves>>
    BY <1>3 DEF ServeLoad
  <2>5. QED
    BY <1>1, <2>1, <2>2, <2>3, <2>4, ServedInv
<1>4. ASSUME NEW state \in {"done", "failed"}, catCall[c] # NoCatCall,
             state = "done" => catCall[c].kind \in Saves,
             catCall' = [catCall EXCEPT ![c].state = state], catTable' \in CatTables,
             UNCHANGED <<catPage, catList, catUi, catSaves>>
      PROVE  CatInv'
  <2> DEFINE r == [catCall[c] EXCEPT !.state = state]
  <2>1. catCall[c] \in Calls /\ InFlight(c)
    BY <1>2, <1>4
  <2>2. r \in Slots /\ r.kind = catCall[c].kind /\ r.saved = catCall[c].saved /\ r.state = state
    <3>1. state \in States /\ <<>> \in Lists
      BY DEF States, Lists
    <3>2. QED
      BY <2>1, <3>1, StateSet DEF Slots
  <2>3. catCall' = [catCall EXCEPT ![c] = r]
    BY <1>1, <1>4
  <2>4. r.kind = "load" => r.state # "done"
    BY <1>4, <2>2 DEF Saves
  <2> HIDE DEF r
  <2>5. QED
    BY <1>4, <2>1, <2>2, <2>3, <2>4, ServedInv
<1>5. CASE ServeSave(c)
  <2>1. catCall[c].kind \in Saves /\ catCall[c] # NoCatCall
    BY <1>5 DEF ServeSave, NoCatCall, Saves
  <2>2. PICK r \in CatRows, answer \in {"done", "failed"} :
          /\ IF catCall[c].kind = "create"
             THEN catTable[r] = Absent /\ catTable' = [catTable EXCEPT ![r] = 0]
             ELSE /\ r \in catCall[c].row \cap Here(catTable)
                  /\ catTable' = [catTable EXCEPT ![r] =
                                    IF catCall[c].kind = "delete" THEN Absent ELSE 1 - @]
          /\ catCall' = [catCall EXCEPT ![c].state = answer]
    BY <1>5 DEF ServeSave
  <2>3. catTable' \in CatTables
    BY <1>1, <2>2 DEF CatTables, Here, Absent
  <2>4. QED
    BY <1>4, <1>5, <2>1, <2>2, <2>3 DEF ServeSave
<1>6. CASE FailCall(c)
  BY <1>1, <1>4, <1>6 DEF FailCall
<1>7. QED
  BY <1>3, <1>5, <1>6

-----------------------------------------------------------------------------
(* Saves *)

\* Which forms lock their button, and with which flag.
LEMMA ButtonLocked ==
  /\ catPage.name \in {"nodes", "cropTypes", "cropCycles"} /\ SubmitEnabled => ~ catUi.loading
  /\ catPage.name = "thresholds" /\ SubmitEnabled => ~ catUi.saving
<1>1. CASE catPage.name = "nodes"
  <2>1. SubmitEnabled = NodeForm
    BY <1>1 DEF SubmitEnabled
  <2>2. QED
    BY <1>1, <2>1 DEF NodeForm
<1>2. CASE catPage.name = "cropTypes"
  <2>1. SubmitEnabled = CropTypeForm
    BY <1>2 DEF SubmitEnabled
  <2>2. QED
    BY <1>2, <2>1 DEF CropTypeForm
<1>3. CASE catPage.name = "cropCycles"
  <2>1. SubmitEnabled = CropCycleForm
    BY <1>3 DEF SubmitEnabled
  <2>2. QED
    BY <1>3, <2>1 DEF CropCycleForm
<1>4. CASE catPage.name = "thresholds"
  <2>1. SubmitEnabled = ThresholdForm
    BY <1>4 DEF SubmitEnabled
  <2>2. QED
    BY <1>4, <2>1 DEF ThresholdForm
<1>5. QED
  BY <1>1, <1>2, <1>3, <1>4

\* A save begins: nothing else is in flight of an orderly user, and the form is not busy.
LEMMA BeginInv ==
  ASSUME CatInv, NEW c \in CatCalls, NEW k \in Saves, NEW ui \in CatalogUi,
         ui.loading = catUi.loading, ui.saving = catUi.saving,
         ui.dialog.kind \in {catUi.dialog.kind, "none"},
         BeginCall(c, k, ui), catPage.name \in CatalogNames,
         catPage.name = "cropCycles" => k # "update",
         Orderly => \A d \in CatCalls : ~ InFlight(d),
         FormBusy(k) => ~ catUi.saving, k = "delete" => ui.dialog.kind = "none"
  PROVE  CatInv'
<1> DEFINE r == Sent(k, catUi.dialog.row)
<1>1. CatalogTypeOK /\ CatSafe
  BY DEF CatInv
<1>2. r \in Slots /\ r.kind = k /\ r.saved = FALSE
  <2>1. catUi.dialog.row \in SUBSET CatRows /\ k \in Saves \cup {"load"}
    BY <1>1, Parts, DialogTyped
  <2>2. QED
    BY <2>1, SentTyped DEF Slots
<1> HIDE DEF r
<1>3. /\ catCall[c].kind = "none" /\ catSaves < CatMaxSaves /\ catSaves' = catSaves + 1
      /\ catUi' = SaveOf(ui, k).begin /\ catCall' = [catCall EXCEPT ![c] = r]
      /\ UNCHANGED <<catPage, catTable, catList>>
  BY DEF BeginCall, r, NoCatCall
<1>4. /\ catCall' \in [CatCalls -> Slots] /\ catCall'[c] = r
      /\ \A d \in CatCalls : d # c => catCall'[d] = catCall[d]
  BY <1>1, <1>2, <1>3, OneSlot
<1>5. /\ catUi' \in CatalogUi /\ catUi'.dialog = ui.dialog
      /\ ListBusy(k) => catUi'.loading = TRUE /\ catUi'.saving = catUi.saving
      /\ FormBusy(k) => catUi'.loading = catUi.loading /\ catUi'.saving = TRUE
      /\ ~ ListBusy(k) /\ ~ FormBusy(k) =>
           catUi'.loading = catUi.loading /\ catUi'.saving = catUi.saving
  <2> DEFINE h == SaveOf(ui, k)
  <2>1. /\ ListBusy(k) => ListSave(h, ui)
        /\ FormBusy(k) => FormSave(h, ui)
        /\ ~ ListBusy(k) /\ ~ FormBusy(k) => PlainSave(h, ui)
    BY SaveHandlers
  <2> HIDE DEF h
  <2>2. catUi' = h.begin
    BY <1>3 DEF h
  <2>3. /\ ListBusy(k) => FlagsAre(catUi', ui, TRUE, ui.saving)
        /\ FormBusy(k) => FlagsAre(catUi', ui, ui.loading, TRUE)
        /\ ~ ListBusy(k) /\ ~ FormBusy(k) => FlagsAre(catUi', ui, ui.loading, ui.saving)
    BY <2>1, <2>2 DEF ListSave, FormSave, PlainSave
  <2>4. QED
    BY <2>3 DEF FlagsAre
<1>6. CatalogTypeOK'
  <2>1. catSaves' \in 0..CatMaxSaves
    BY <1>1, <1>3, Parts, CatalogConstants
  <2>2. QED
    BY <1>1, <1>3, <1>4, <1>5, <2>1, FromParts DEF CatalogTypeOK
<1>7. k \in {"create", "update", "delete"} /\ k # "none" /\ k # "load"
  BY DEF Saves
<1>8. BeforeOpening'
  BY <1>1, <1>2, <1>3, <1>4, <1>5 DEF CatSafe, BeforeOpening, CatalogNames
<1>9. \A d \in CatCalls : d # c =>
        (LoadsFor(d) => LoadsFor(d)') /\ (FormCall(d)' <=> FormCall(d))
  BY <1>3, <1>4 DEF LoadsFor, FormCall, ListBusy
<1>10. (ListBusy(k) => LoadsFor(c)') /\ (FormCall(c)' <=> k # "delete")
       /\ ~ LoadsFor(c) /\ ~ FormCall(c)
  BY <1>2, <1>3, <1>4, <1>7 DEF LoadsFor, FormCall, ListBusy, Saves
<1>11. BusyIsUnderWay'
  <2>1. SUFFICES ASSUME catPage.name # "none" PROVE BusyIsUnderWay'
    BY <1>3 DEF BusyIsUnderWay
  <2>2. catUi'.loading = TRUE => \E d \in CatCalls : LoadsFor(d)'
    BY <1>1, <1>5, <1>9, <1>10, <2>1 DEF CatSafe, BusyIsUnderWay
  <2>3. catUi'.saving = TRUE => catPage.name = "thresholds" /\ \E d \in CatCalls : FormCall(d)'
    BY <1>1, <1>5, <1>9, <1>10, <2>1 DEF CatSafe, BusyIsUnderWay, FormBusy
  <2>4. QED
    BY <1>3, <2>2, <2>3 DEF BusyIsUnderWay
<1>12. OneForm'
  <2>1. SUFFICES ASSUME catPage.name = "thresholds" PROVE OneForm'
    BY <1>3 DEF OneForm
  <2>2. CASE k = "delete"
    <3>1. catUi'.saving = catUi.saving
      BY <1>5, <2>1, <2>2 DEF ListBusy
    <3>2. \A d \in CatCalls : FormCall(d)' <=> FormCall(d)
      BY <1>9, <1>10, <2>2
    <3>3. QED
      BY <1>1, <2>1, <3>1, <3>2 DEF CatSafe, OneForm
  <2>3. CASE k # "delete"
    <3>1. FormBusy(k) /\ catUi'.saving = TRUE
      BY <1>5, <2>1, <2>3 DEF FormBusy
    <3>2. \A d \in CatCalls : ~ FormCall(d)
      BY <1>1, <2>1, <3>1, Parts DEF CatSafe, OneForm
    <3>3. QED
      BY <1>9, <3>1, <3>2 DEF OneForm
  <2>4. QED
    BY <2>2, <2>3
<1>13. OneOperation'
  <2>1. SUFFICES ASSUME Orderly' PROVE OneOperation'
    BY DEF OneOperation
  <2>2. \A d \in CatCalls : d # c => catCall'[d].kind = "none"
    BY <1>3, <1>4, <2>1 DEF Orderly, InFlight
  <2>3. catCall'[c].kind = k
    BY <1>2, <1>4
  <2>4. catPage.name \in {"nodes", "cropTypes", "cropCycles"} => catUi'.loading = TRUE
    BY <1>5 DEF ListBusy
  <2>5. catPage.name = "thresholds" =>
          catUi'.saving = TRUE \/ catUi'.dialog.kind \notin {"create", "update"}
    BY <1>5 DEF FormBusy
  <2>6. QED
    BY <1>3, <1>7, <2>2, <2>3, <2>4, <2>5 DEF OneOperation, InFlight
<1>14. LoadsBringTables'
  BY <1>1, <1>2, <1>4, <1>7 DEF CatSafe, LoadsBringTables
<1>15. QED
  BY <1>6, <1>8, <1>11, <1>12, <1>13, <1>14 DEF CatInv, CatSafe

\* Submitting a form or confirming a deletion keeps the invariant.
LEMMA SaveInv ==
  ASSUME CatInv, NEW c \in CatCalls, Submit(c) \/ ConfirmDelete(c)
  PROVE  CatInv'
<1>1. CatalogTypeOK /\ CatSafe
  BY DEF CatInv
<1>2. catPage.name \in CatalogNames
  <2>1. catPage.name = "none" => catUi.dialog.kind = "none"
    BY <1>1 DEF CatSafe, BeforeOpening
  <2>2. QED
    BY <1>1, <2>1, Parts DEF Submit, ConfirmDelete
<1>3. MayBegin /\ Orderly => \A d \in CatCalls : ~ InFlight(d)
  BY <1>1, Parts DEF MayBegin, Orderly
<1>4. CASE Submit(c)
  <2>1. catUi.dialog.kind \in {"create", "update"} /\ SubmitEnabled
    BY <1>4 DEF Submit
  <2>2. BeginCall(c, catUi.dialog.kind, catUi) /\ (MayBegin \/ catPage.user = "repeats")
    BY <1>4 DEF Submit
  <2>3. Orderly => \A d \in CatCalls : ~ InFlight(d)
    <3>1. SUFFICES ASSUME Orderly, ~ MayBegin, NEW d \in CatCalls, InFlight(d) PROVE FALSE
      BY <1>3
    <3>2. catPage.name \in LocksItsForm
      BY <2>2, <3>1 DEF Orderly
    <3>3. catPage.name \in {"nodes", "cropTypes", "cropCycles"} => catUi.loading = TRUE
      BY <1>1, <3>1 DEF CatSafe, OneOperation
    <3>4. catPage.name = "thresholds" => catUi.saving = TRUE
      BY <1>1, <2>1, <3>1 DEF CatSafe, OneOperation
    <3>5. QED
      BY <2>1, <3>2, <3>3, <3>4, ButtonLocked DEF LocksItsForm
  <2>4. FormBusy(catUi.dialog.kind) => ~ catUi.saving
    BY <2>1, ButtonLocked DEF FormBusy
  <2>5. catPage.name = "cropCycles" => catUi.dialog.kind # "update"
    BY <1>1 DEF CatSafe, BeforeOpening
  <2>6. catUi \in CatalogUi /\ catUi.dialog.kind \in Saves /\ catUi.dialog.kind # "delete"
    BY <1>1, <2>1, Parts DEF Saves
  <2>7. QED
    BY <1>2, <2>2, <2>3, <2>4, <2>5, <2>6, BeginInv
<1>5. CASE ConfirmDelete(c)
  <2> DEFINE ui == [catUi EXCEPT !.dialog = NoDialog]
  <2>1. /\ ui \in CatalogUi /\ ui.dialog = NoDialog /\ ui.loading = catUi.loading
        /\ ui.saving = catUi.saving
    BY <1>1, Parts, DialogSet, DialogTyped
  <2>2. MayBegin /\ BeginCall(c, "delete", ui)
    BY <1>5 DEF ConfirmDelete
  <2> HIDE DEF ui
  <2>3. ui.dialog.kind = "none" /\ ~ FormBusy("delete") /\ "delete" \in Saves
    BY <2>1, DialogTyped DEF FormBusy, Saves
  <2>4. QED
    BY <1>2, <1>3, <2>1, <2>2, <2>3, BeginInv
<1>6. QED
  BY <1>4, <1>5

-----------------------------------------------------------------------------
(* Answers *)

\* A call that ends leaves its slot; whatever it lowered, the flags that stay are kept up
\* by other calls, and its user has the table's rows or was told.
LEMMA EndInv ==
  ASSUME CatInv, NEW c \in CatCalls, InFlight(c), catPage.name \in CatalogNames,
         catCall' = [catCall EXCEPT ![c] = NoCatCall], catUi' \in CatalogUi,
         catUi'.dialog = catUi.dialog, catList' \in CatTables,
         UNCHANGED <<catPage, catTable, catSaves>>,
         catUi'.loading = TRUE => catUi.loading = TRUE /\ ~ LoadsFor(c),
         catUi'.saving = TRUE => catUi.saving = TRUE,
         catPage.name = "thresholds" =>
           catUi'.saving = (IF FormCall(c) THEN FALSE ELSE catUi.saving),
         Orderly => catList' = catTable \/ Notes(catUi')
  PROVE  CatInv'
<1>1. CatalogTypeOK /\ CatSafe
  BY DEF CatInv
<1>2. NoCatCall \in Slots /\ NoCatCall.kind = "none"
  BY DEF Slots, NoCatCall
<1>3. /\ catCall' \in [CatCalls -> Slots] /\ catCall'[c].kind = "none"
      /\ \A d \in CatCalls : d # c => catCall'[d] = catCall[d]
  BY <1>1, <1>2, OneSlot
<1>4. CatalogTypeOK'
  BY <1>1, <1>3, FromParts DEF CatalogTypeOK
<1>5. BeforeOpening'
  BY <1>1, <1>3 DEF CatSafe, BeforeOpening, CatalogNames
<1>6. /\ \A d \in CatCalls : d # c => (LoadsFor(d) => LoadsFor(d)') /\ (FormCall(d)' <=> FormCall(d))
      /\ ~ FormCall(c)'
  BY <1>3 DEF LoadsFor, FormCall, ListBusy
<1>7. BusyIsUnderWay'
  <2>1. catPage.name # "none" /\ BusyIsUnderWay
    BY <1>1 DEF CatSafe, CatalogNames
  <2>2. catUi'.loading = TRUE => \E d \in CatCalls : LoadsFor(d)'
    BY <1>6, <2>1 DEF BusyIsUnderWay
  <2>3. catUi'.saving = TRUE => catPage.name = "thresholds" /\ \E d \in CatCalls : FormCall(d)'
    <3>1. SUFFICES ASSUME catUi'.saving = TRUE
                   PROVE  catPage.name = "thresholds" /\ \E d \in CatCalls : FormCall(d)'
      OBVIOUS
    <3>2. catPage.name = "thresholds" /\ \E d \in CatCalls : FormCall(d)
      BY <2>1, <3>1 DEF BusyIsUnderWay
    <3>3. ~ FormCall(c)
      BY <3>1, <3>2
    <3>4. QED
      BY <1>6, <3>2, <3>3
  <2>4. QED
    BY <2>1, <2>2, <2>3 DEF BusyIsUnderWay
<1>8. OneForm'
  <2>1. SUFFICES ASSUME catPage.name = "thresholds", NEW d \in CatCalls, FormCall(d)'
                 PROVE  catUi'.saving = TRUE /\ \A e \in CatCalls : FormCall(e)' => e = d
    BY DEF OneForm
  <2>2. d # c /\ FormCall(d)
    BY <1>6, <2>1
  <2>3. catUi.saving = TRUE /\ \A e \in CatCalls : FormCall(e) => e = d
    BY <1>1, <2>1, <2>2 DEF CatSafe, OneForm
  <2>4. ~ FormCall(c)
    BY <2>2, <2>3
  <2>5. QED
    BY <1>6, <2>1, <2>2, <2>3, <2>4
<1>9. OneOperation'
  <2>1. SUFFICES ASSUME Orderly PROVE OneOperation'
    BY DEF OneOperation, Orderly
  <2>2. \A d \in CatCalls : ~ InFlight(d)'
    BY <1>1, <1>3, <2>1 DEF CatSafe, OneOperation, InFlight
  <2>3. QED
    BY <2>1, <2>2 DEF OneOperation, Notes, Tells
<1>10. LoadsBringTables'
  BY <1>1, <1>3 DEF CatSafe, LoadsBringTables
<1>11. QED
  BY <1>4, <1>5, <1>7, <1>8, <1>9, <1>10 DEF CatInv, CatSafe

\* A page with a call in flight is open.
LEMMA PageIsOpen ==
  ASSUME CatInv, NEW c \in CatCalls, InFlight(c)
  PROVE  catPage.name \in CatalogNames
<1>1. CatalogTypeOK /\ CatSafe
  BY DEF CatInv
<1>2. QED
  BY <1>1, Parts DEF CatSafe, BeforeOpening, InFlight

\* A save that failed is told, and lowers what it raised.
LEMMA SaveFailsInv ==
  ASSUME CatInv, NEW c \in CatCalls, FinishSave(c), catCall[c].state # "done"
  PROVE  CatInv'
<1> DEFINE k == catCall[c].kind
           h == SaveOf(catUi, k)
<1>1. CatalogTypeOK /\ CatSafe /\ catUi \in CatalogUi /\ catList \in CatTables
  BY Parts DEF CatInv
<1>2. k \in Saves /\ InFlight(c)
  BY DEF FinishSave, Saves, InFlight
<1>3. catPage.name \in CatalogNames
  BY <1>2, PageIsOpen
<1>4. catPage.name = "cropCycles" => k # "update"
  BY <1>1 DEF CatSafe, BeforeOpening
<1>5. /\ ListBusy(k) => ListSave(h, catUi)
      /\ FormBusy(k) => FormSave(h, catUi)
      /\ ~ ListBusy(k) /\ ~ FormBusy(k) => PlainSave(h, catUi)
  BY <1>1, <1>2, <1>3, <1>4, SaveHandlers
<1> HIDE DEF h
<1>6. /\ catUi' = h.fail /\ catCall' = [catCall EXCEPT ![c] = NoCatCall]
      /\ UNCHANGED <<catPage, catTable, catList, catSaves>>
  BY DEF FinishSave, h
<1>7. LoadsFor(c) <=> ListBusy(k)
  BY <1>2 DEF LoadsFor, Saves
<1>8. catPage.name = "thresholds" => (FormCall(c) <=> FormBusy(k)) /\ (ListBusy(k) <=> ~ FormBusy(k))
  BY <1>2 DEF FormCall, FormBusy, ListBusy, Saves
<1> HIDE DEF k
<1>9. /\ ListBusy(k) => FlagsAre(catUi', catUi, FALSE, catUi.saving)
      /\ FormBusy(k) => FlagsAre(catUi', catUi, catUi.loading, FALSE)
      /\ ~ ListBusy(k) /\ ~ FormBusy(k) => FlagsAre(catUi', catUi, catUi.loading, catUi.saving)
      /\ Tells(catUi')
  BY <1>5, <1>6 DEF ListSave, FormSave, PlainSave
<1>10. /\ catUi' \in CatalogUi /\ catUi'.dialog = catUi.dialog /\ Tells(catUi')
       /\ catUi'.loading = TRUE => catUi.loading = TRUE /\ ~ ListBusy(k)
       /\ catUi'.saving = TRUE => catUi.saving = TRUE
       /\ FormBusy(k) => catUi'.saving = FALSE
       /\ ~ FormBusy(k) => catUi'.saving = catUi.saving
  BY <1>9 DEF FlagsAre
<1>11. Notes(catUi')
  BY <1>10 DEF Notes
<1>12. QED
  BY <1>1, <1>2, <1>3, <1>6, <1>7, <1>8, <1>10, <1>11, EndInv

\* A load that ends lowers the list's flag, and the form's after a save.
LEMMA LoadEndsInv ==
  ASSUME CatInv, NEW c \in CatCalls, FinishLoad(c)
  PROVE  CatInv'
<1> DEFINE ui == IF catCall[c].saved THEN Saving(catUi, FALSE) ELSE catUi
           h == LoadOf(ui)
<1>1. /\ CatalogTypeOK /\ CatSafe /\ catUi \in CatalogUi /\ catList \in CatTables
      /\ catTable \in CatTables /\ catCall[c].saved \in BOOLEAN /\ catCall[c] \in Slots
  BY Parts DEF CatInv
<1>2. catCall[c].kind = "load" /\ InFlight(c)
  BY DEF FinishLoad, InFlight
<1>3. catPage.name \in CatalogNames
  BY <1>2, PageIsOpen
<1>4. /\ ui \in CatalogUi /\ ui.dialog = catUi.dialog
      /\ catCall[c].saved = TRUE => ui.saving = FALSE
      /\ catCall[c].saved = FALSE => ui.saving = catUi.saving
  BY <1>1, FlagsSet DEF FlagsAre
<1>5. /\ catCall' = [catCall EXCEPT ![c] = NoCatCall] /\ UNCHANGED <<catPage, catTable, catSaves>>
      /\ catCall[c].state = "done" => catUi' = h.done /\ catList' = catCall[c].list
      /\ catCall[c].state # "done" => catUi' = h.fail /\ catList' = catList
  BY DEF FinishLoad
<1> HIDE DEF ui
<1>6. LoadsList(h, ui)
  BY <1>3, <1>4, LoadHandlers
<1> HIDE DEF h
<1>7. FlagsAre(catUi', ui, FALSE, ui.saving) /\ (catCall[c].state # "done" => Notes(catUi'))
  BY <1>5, <1>6 DEF LoadsList
<1>8. catUi' \in CatalogUi /\ catUi'.dialog = catUi.dialog /\ catUi'.loading = FALSE
      /\ catUi'.saving = ui.saving /\ (catCall[c].state # "done" => Notes(catUi'))
  BY <1>4, <1>7 DEF FlagsAre
<1>9. Orderly /\ catCall[c].state = "done" => catCall[c].list = catTable
  BY <1>1, <1>2 DEF CatSafe, OneOperation
<1>10. catList' \in CatTables
  <2>1. catCall[c].state = "done" => catCall[c].list \in CatTables
    BY <1>1, <1>2 DEF CatSafe, LoadsBringTables
  <2>2. QED
    BY <1>1, <1>5, <2>1
<1>11. FormCall(c) <=> catCall[c].saved = TRUE
  BY <1>2 DEF FormCall
<1>12. QED
  BY <1>1, <1>2, <1>3, <1>4, <1>5, <1>8, <1>9, <1>10, <1>11, EndInv

\* A save that succeeded closes its dialog and loads the list: its slot is the load's.
LEMMA SaveDoneInv ==
  ASSUME CatInv, NEW c \in CatCalls, FinishSave(c), catCall[c].state = "done"
  PROVE  CatInv'
<1> DEFINE k == catCall[c].kind
           u == SaveOf(catUi, k).done
           saved == k # "delete"
           r == [Sent("load", {}) EXCEPT !.saved = saved]
<1>1. CatalogTypeOK /\ CatSafe /\ catUi \in CatalogUi
  BY Parts DEF CatInv
<1>2. k \in Saves /\ InFlight(c)
  BY DEF FinishSave, Saves, InFlight
<1>3. catPage.name \in CatalogNames
  BY <1>2, PageIsOpen
<1>4. catPage.name = "cropCycles" => k # "update"
  BY <1>1 DEF CatSafe, BeforeOpening
<1>5. /\ ListBusy(k) => ListSave(SaveOf(catUi, k), catUi)
      /\ FormBusy(k) => FormSave(SaveOf(catUi, k), catUi)
      /\ ~ ListBusy(k) /\ ~ FormBusy(k) => PlainSave(SaveOf(catUi, k), catUi)
  BY <1>1, <1>2, <1>3, <1>4, SaveHandlers
<1>6. AnswersOf(u, catUi)
  BY <1>5 DEF ListSave, FormSave, PlainSave
<1>7. r \in Slots /\ r.kind = "load" /\ r.saved = saved /\ r.state = "sent"
  BY LoadTyped
<1>8. /\ catUi' = LoadOf(u).begin /\ catCall' = [catCall EXCEPT ![c] = r]
      /\ UNCHANGED <<catPage, catTable, catList, catSaves>>
  BY DEF FinishSave
<1> HIDE DEF u, r
<1>9. LoadsList(LoadOf(u), u)
  BY <1>3, <1>6, LoadHandlers DEF AnswersOf
<1>10. /\ catUi' \in CatalogUi /\ catUi'.loading = TRUE /\ catUi'.saving = catUi.saving
       /\ catUi'.dialog.kind \in {catUi.dialog.kind, "none"}
  BY <1>6, <1>8, <1>9 DEF LoadsList, FlagsAre, AnswersOf
<1>11. /\ catCall' \in [CatCalls -> Slots] /\ catCall'[c] = r
       /\ \A d \in CatCalls : d # c => catCall'[d] = catCall[d]
  BY <1>1, <1>7, <1>8, OneSlot
<1>12. CatalogTypeOK'
  BY <1>1, <1>8, <1>10, <1>11, FromParts DEF CatalogTypeOK
<1>13. BeforeOpening'
  BY <1>1, <1>3, <1>7, <1>8, <1>10, <1>11 DEF CatSafe, BeforeOpening, CatalogNames
<1>14. \A d \in CatCalls : FormCall(d)' <=> FormCall(d)
  <2>1. FormCall(c)' <=> k # "delete"
    BY <1>7, <1>11 DEF FormCall
  <2>2. FormCall(c) <=> k # "delete"
    BY <1>2 DEF FormCall, Saves
  <2>3. QED
    BY <1>11, <2>1, <2>2 DEF FormCall
<1>15. BusyIsUnderWay'
  <2>1. LoadsFor(c)'
    BY <1>7, <1>11 DEF LoadsFor
  <2>2. catUi'.saving = TRUE => catPage.name = "thresholds" /\ \E d \in CatCalls : FormCall(d)'
    BY <1>1, <1>3, <1>10, <1>14 DEF CatSafe, BusyIsUnderWay, CatalogNames
  <2>3. QED
    BY <1>8, <2>1, <2>2 DEF BusyIsUnderWay
<1>16. OneForm'
  BY <1>1, <1>8, <1>10, <1>14 DEF CatSafe, OneForm
<1>17. OneOperation'
  <2>1. SUFFICES ASSUME Orderly PROVE OneOperation'
    BY <1>8 DEF OneOperation, Orderly
  <2>2. OneOperation /\ \A d \in CatCalls : InFlight(d) => d = c
    BY <1>1, <1>2, <2>1 DEF CatSafe, OneOperation
  <2>3. \A d \in CatCalls : InFlight(d)' => d = c
    BY <1>11, <2>2 DEF InFlight
  <2>4. InFlight(c)'
    BY <1>7, <1>11 DEF InFlight
  <2>5. catPage.name = "thresholds" =>
          catUi'.saving = TRUE \/ catUi'.dialog.kind \notin {"create", "update"}
    BY <1>2, <1>10, <2>1, <2>2 DEF OneOperation
  <2>6. QED
    BY <1>7, <1>8, <1>10, <1>11, <2>3, <2>4, <2>5 DEF OneOperation
<1>18. LoadsBringTables'
  BY <1>1, <1>7, <1>11 DEF CatSafe, LoadsBringTables
<1>19. QED
  BY <1>12, <1>13, <1>15, <1>16, <1>17, <1>18 DEF CatInv, CatSafe

-----------------------------------------------------------------------------
(* Theorems *)

\* Every step keeps the invariant.
LEMMA CatalogStepInv == CatInv /\ [CatalogNext]_catVars => CatInv'
<1> SUFFICES ASSUME CatInv, [CatalogNext]_catVars PROVE CatInv'
  OBVIOUS
<1>1. ASSUME NEW page \in CatalogNames, NEW user \in CatalogUsers, NEW table \in CatTables,
             NEW c \in CatCalls, OpenPage(page, user, table, c)
      PROVE  CatInv'
  BY <1>1, OpenPageInv
<1>2. ASSUME NEW dialog \in Dialogs, OpenDialog(dialog) PROVE CatInv'
  <2>1. /\ catUi' = [catUi EXCEPT !.dialog = dialog]
        /\ UNCHANGED <<catPage, catTable, catList, catCall, catSaves>>
    BY <1>2 DEF OpenDialog
  <2>2. catPage.user = "any" \/ Quiet
    BY <1>2 DEF OpenDialog, MayBegin
  <2>3. catPage.name # "none" /\ (catPage.name = "cropCycles" => dialog.kind # "update")
    BY <1>2 DEF OpenDialog, MayBegin
  <2>4. QED
    BY <2>1, <2>2, <2>3, DialogInv
<1>3. CASE CloseDialog
  <2>1. NoDialog \in Dialogs /\ NoDialog.kind = "none"
    BY DialogTyped
  <2>2. catPage.name # "none"
    <3>1. SUFFICES ASSUME catPage.name = "none" PROVE catUi.dialog = NoDialog
      BY <1>3 DEF CloseDialog
    <3>2. catUi.dialog.kind = "none" /\ catUi.dialog \in Dialogs
      BY <3>1, Parts DEF CatInv, CatSafe, BeforeOpening
    <3>3. QED
      BY <3>2 DEF Dialogs
  <2>3. QED
    BY <1>3, <2>1, <2>2, DialogInv DEF CloseDialog
<1>4. ASSUME NEW c \in CatCalls, Submit(c) \/ ConfirmDelete(c) PROVE CatInv'
  BY <1>4, SaveInv
<1>5. ASSUME NEW c \in CatCalls, ServeLoad(c) \/ ServeSave(c) \/ FailCall(c) PROVE CatInv'
  BY <1>5, ServerInv
<1>6. ASSUME NEW c \in CatCalls, FinishSave(c) PROVE CatInv'
  BY <1>6, SaveDoneInv, SaveFailsInv
<1>7. ASSUME NEW c \in CatCalls, FinishLoad(c) PROVE CatInv'
  BY <1>7, LoadEndsInv
<1>8. CASE UNCHANGED catVars
  <2>1. CatalogTypeOK' <=> CatalogTypeOK
    BY <1>8 DEF catVars, CatalogTypeOK
  <2>2. CatSafe' <=> CatSafe
    BY <1>8 DEF catVars, CatSafe, BeforeOpening, BusyIsUnderWay, OneForm, OneOperation,
                LoadsBringTables, LoadsFor, FormCall, ListBusy, InFlight, Orderly, Notes, Tells
  <2>3. QED
    BY <2>1, <2>2 DEF CatInv
<1>9. QED
  BY <1>1, <1>2, <1>3, <1>4, <1>5, <1>6, <1>7, <1>8 DEF CatalogNext

\* The inductive invariant of the catalogue's pages: a flag is up for a call in flight.
THEOREM CatalogInductive == CatalogSpec => []CatInv
<1>1. QED
  BY CatalogInitInv, CatalogStepInv, PTL DEF CatalogSpec

\* At most one of a set whose members are equal.
LEMMA AtMostOne ==
  ASSUME NEW S, \A x, y \in S : x = y PROVE Cardinality(S) <= 1
<1>1. CASE S = {}
  BY <1>1, FS_EmptySet
<1>2. CASE S # {}
  <2>1. PICK x \in S : TRUE
    BY <1>2
  <2>2. S = {x}
    BY <2>1
  <2>3. QED
    BY <2>2, FS_Singleton
<1>3. QED
  BY <1>1, <1>2

\* A form that locks its button never has two requests in flight, however often the button
\* is pressed and whatever else overlaps (the busy flags of the pages of pages/admin).
THEOREM FormsSubmitOnce == CatalogSpec => []OneSubmissionAtATime
<1>1. CatInv => OneSubmissionAtATime
  <2>1. SUFFICES ASSUME CatInv,
                        \/ catPage.name = "thresholds"
                        \/ /\ catPage.name \in {"nodes", "cropTypes", "cropCycles"}
                           /\ catPage.user # "any"
                 PROVE  Cardinality(Submissions) <= 1
    BY DEF OneSubmissionAtATime
  <2>2. CASE catPage.name = "thresholds"
    <3>1. \A c, d \in Submissions : c = d
      BY <2>1, <2>2 DEF CatInv, CatSafe, OneForm, FormCall, Submissions
    <3>2. QED
      BY <3>1, AtMostOne
  <2>3. CASE catPage.name # "thresholds"
    <3>1. Orderly
      BY <2>1, <2>3, Parts DEF CatInv, Orderly, CatalogUsers, LocksItsForm
    <3>2. \A c, d \in Submissions : c = d
      BY <2>1, <3>1 DEF CatInv, CatSafe, OneOperation, InFlight, Submissions
    <3>3. QED
      BY <3>2, AtMostOne
  <2>4. QED
    BY <2>2, <2>3
<1>2. QED
  BY <1>1, CatalogInductive, PTL

\* A page at rest has no flag up, and after operations that did not overlap it has the
\* server's rows or told why not, where it tells of loads (the loads after each save of
\* pages/admin).
THEOREM PagesSettle == CatalogSpec => []QuietPageIsSettled
<1>1. CatInv => QuietPageIsSettled
  <2>1. SUFFICES ASSUME CatInv, Quiet, catPage.name # "none"
                 PROVE  /\ ~ catUi.loading /\ ~ catUi.saving
                        /\ Orderly => \/ catList = catTable \/ catUi.told
                                      \/ catPage.name \in LogsItsLoads /\ catUi.logged
    BY DEF QuietPageIsSettled, Orderly
  <2>2. CatalogTypeOK /\ CatSafe /\ \A c \in CatCalls : ~ InFlight(c)
    BY <2>1, Parts DEF CatInv
  <2>3. \A c \in CatCalls : ~ LoadsFor(c) /\ ~ FormCall(c)
    BY <2>2 DEF InFlight, LoadsFor, FormCall, Saves
  <2>4. catUi.loading # TRUE /\ catUi.saving # TRUE
    BY <2>1, <2>2, <2>3 DEF CatSafe, BusyIsUnderWay
  <2>5. catUi.loading \in BOOLEAN /\ catUi.saving \in BOOLEAN
    BY <2>2, Parts
  <2>6. Orderly => catList = catTable \/ Notes(catUi)
    BY <2>1, <2>2 DEF CatSafe, OneOperation
  <2>7. QED
    BY <2>4, <2>5, <2>6 DEF Notes, Tells
<1>2. QED
  BY <1>1, CatalogInductive, PTL

=============================================================================
