--------------------------- MODULE TelemetryIngest ---------------------------
(***************************************************************************)
(* The readings that a gateway delivers for one logical node, and the      *)
(* threshold alerts they raise (services/reading.py), beside the           *)
(* thresholds of one parameter in the node's area (services/threshold.py). *)
(*                                                                         *)
(* Delivery is at least once: any request may repeat, overlap or overtake  *)
(* another, carry another body, or be lost at any point.  A request reads  *)
(* one snapshot, fixed when its credential or user is read, and commits    *)
(* once; unique indexes see every commit.                                  *)
(***************************************************************************)
EXTENDS Naturals

CONSTANTS
  Events,        \* X-Event-ID values
  Thresholds,    \* ids of umbrales
  Severities,
  Requests,      \* requests that may run at once
  NoOne,         \* NULL
  MaxTime,       \* bound: timestamps of readings
  Window,        \* ALERT_THRESHOLD_DUPLICATE_WINDOW_MINUTES; 0 turns it off
  Regime         \* how the gateway and the administrators send their requests

\* "ordered": one reading after another, by timestamp, and one edit after another.
\* "late": the same, the readings in any order.  "any": requests overlap.
ASSUME RegimeIsKnown == Regime \in {"ordered", "late", "any"}

ASSUME IngestBounds ==
  /\ MaxTime \in Nat
  /\ Window \in Nat
  /\ NoOne \notin Events \cup Severities \cup (0..MaxTime)

VARIABLES
  umbral,    \* the rows of umbrales that are of this area and parameter, not deleted
  lectura,   \* lecturas by event: the body, which its timestamp stands for
  alerta,    \* alertas of type threshold
  request,   \* per request: what it carries and what its snapshot shows
  acked,     \* history: the bodies answered 201 or 200, by event
  judged     \* history: the readings found out of range, and how severe

vars == <<umbral, lectura, alerta, request, acked, judged>>

Times == 0..MaxTime

UmbralRow == [activo : BOOLEAN, severidad : Severities]

\* NoOne: the row does not exist, is deleted, or is of another area or parameter.
Umbrales == [Thresholds -> UmbralRow \cup {NoOne}]

Alerta == [evento : Events, umbral : Thresholds, severidad : Severities, hora : Times]

ReadingRequest == [kind : {"reading"}, evento : Events, hora : Times,
                   seen : SUBSET Events, umbrales : Umbrales]
EditRequest == [kind : {"threshold"}, evento : {NoOne}, hora : {0},
                seen : {{}}, umbrales : Umbrales]
NoRequest == [kind |-> "none", evento |-> NoOne, hora |-> 0, seen |-> {}, umbrales |-> NoOne]

Stored == {e \in Events : lectura[e] # NoOne}

TypeOK ==
  /\ umbral \in Umbrales
  /\ lectura \in [Events -> Times \cup {NoOne}]
  /\ alerta \subseteq Alerta
  /\ request \in [Requests -> ReadingRequest \cup EditRequest \cup {NoRequest}]
  /\ acked \in [Events -> SUBSET Times]
  /\ judged \subseteq Events \X Severities

Init ==
  /\ umbral = [h \in Thresholds |-> NoOne]
  /\ lectura = [e \in Events |-> NoOne]
  /\ alerta = {} /\ judged = {}
  /\ request = [p \in Requests |-> NoRequest]
  /\ acked = [e \in Events |-> {}]

-----------------------------------------------------------------------------
(* Readings *)

Readings == {p \in Requests : request[p].kind = "reading"}
Edits == {p \in Requests : request[p].kind = "threshold"}

\* The gateway sends event e with a body of time t, for the first time or again.
ReceiveReading(p, e, t) ==
  /\ request[p].kind = "none"
  /\ Regime = "any" \/ Readings = {}
  /\ Regime # "ordered" \/ e \in Stored \/ \A f \in Stored : lectura[f] <= t
  /\ request' = [request EXCEPT ![p] = [kind |-> "reading", evento |-> e, hora |-> t,
                                         seen |-> Stored, umbrales |-> umbral]]
  /\ UNCHANGED <<umbral, lectura, alerta, acked, judged>>

\* A request ends and has changed nothing: refused, failed, or stopped.
EndRequest(p) ==
  /\ request[p].kind # "none"
  /\ request' = [request EXCEPT ![p] = NoRequest]
  /\ UNCHANGED <<umbral, lectura, alerta, acked, judged>>

\* Mutant: a stored event is acknowledged whatever the body.
AnyBody(p) == TRUE

\* payload_hash of the row and of the request agree.
SameBody(p) == lectura[request[p].evento] = request[p].hora

\* The event is stored: the snapshot shows it, or the unique index does and the
\* request reads again after its rollback.
AnswerReplay(p) ==
  /\ p \in Readings
  /\ request[p].evento \in Stored
  /\ SameBody(p)
  /\ acked' = [acked EXCEPT ![request[p].evento] = @ \cup {request[p].hora}]
  /\ request' = [request EXCEPT ![p] = NoRequest]
  /\ UNCHANGED <<umbral, lectura, alerta, judged>>

\* Mutants: an alert at the edge of the window no longer counts; one beyond it
\* does; any severity counts.
RecentEdge(p, a, s) == a.severidad = s /\ a.hora + Window > request[p].hora
RecentLong(p, a, s) == a.severidad = s /\ a.hora + Window + 1 >= request[p].hora
RecentAny(p, a, s) == a.hora + Window >= request[p].hora

\* The alerts of the search for duplicates: there is no upper bound in time.
Recent(p, a, s) == a.severidad = s /\ a.hora + Window >= request[p].hora

\* The alerts that the snapshot shows, of readings committed before it.
Matches(p, s) == {a \in alerta : a.evento \in request[p].seen /\ Recent(p, a, s) /\ Window > 0}

\* scalar_one_or_none raises an exception on two rows.
AtMostOne(S) == \A a, b \in S : a = b

\* The active thresholds of the snapshot.
ActiveSeen(p) ==
  {h \in Thresholds : request[p].umbrales[h] # NoOne /\ request[p].umbrales[h].activo}

\* Mutant: the severity is not copied.
SeverityUnset(p, h) == NoOne
SeverityOf(p, h) == request[p].umbrales[h].severidad

\* Mutant: no search for duplicates.
NotYetAlertedEver(p, H) == H

\* The thresholds of H for which there is no recent alert; a request does not
\* see the alerts it adds itself (autoflush is off).
NotYetAlerted(p, H) == {h \in H : Matches(p, SeverityOf(p, h)) = {}}

\* create_reading: the reading is out of the range of the thresholds H.
StoreReading(p, H) ==
  LET e == request[p].evento
      t == request[p].hora
  IN
  /\ p \in Readings
  /\ e \notin Stored
  /\ H \subseteq ActiveSeen(p)
  /\ \A h \in H : AtMostOne(Matches(p, SeverityOf(p, h)))
  /\ lectura' = [lectura EXCEPT ![e] = t]
  /\ alerta' = alerta \cup {[evento |-> e, umbral |-> h, severidad |-> SeverityOf(p, h), hora |-> t]
                              : h \in NotYetAlerted(p, H)}
  /\ judged' = judged \cup {<<e, SeverityOf(p, h)>> : h \in H}
  /\ acked' = [acked EXCEPT ![e] = @ \cup {t}]
  /\ request' = [request EXCEPT ![p] = NoRequest]
  /\ UNCHANGED umbral

-----------------------------------------------------------------------------
(* Thresholds *)

BeginEdit(p) ==
  /\ request[p].kind = "none"
  /\ Regime = "any" \/ Edits = {}
  /\ request' = [request EXCEPT ![p] = [kind |-> "threshold", evento |-> NoOne, hora |-> 0,
                                         seen |-> {}, umbrales |-> umbral]]
  /\ UNCHANGED <<umbral, lectura, alerta, acked, judged>>

\* Mutant: nothing is looked for.
NoDuplicateSeen(p, h) == FALSE

\* _exists_duplicate_threshold, on the snapshot; no constraint backs it.
DuplicateSeen(p, h) == \E k \in Thresholds \ {h} : request[p].umbrales[k] # NoOne

Edit(p, h, row) ==
  /\ umbral' = [umbral EXCEPT ![h] = row]
  /\ request' = [request EXCEPT ![p] = NoRequest]
  /\ UNCHANGED <<lectura, alerta, acked, judged>>

\* create_threshold, or update_threshold that moves a row to this parameter.
CreateThreshold(p, h, row) ==
  /\ p \in Edits
  /\ umbral[h] = NoOne /\ request[p].umbrales[h] = NoOne
  /\ ~ DuplicateSeen(p, h)
  /\ Edit(p, h, row)

\* update_threshold of a row of this parameter; it may move it away.  The
\* UPDATE names the columns it changes: a row deleted meanwhile stays deleted.
UpdateThreshold(p, h, row) ==
  /\ p \in Edits
  /\ request[p].umbrales[h] # NoOne
  /\ row = NoOne \/ ~ DuplicateSeen(p, h)
  /\ Edit(p, h, IF umbral[h] = NoOne THEN NoOne ELSE row)

\* soft_delete_threshold.
DeleteThreshold(p, h) ==
  /\ p \in Edits
  /\ request[p].umbrales[h] # NoOne
  /\ Edit(p, h, NoOne)

Next ==
  \E p \in Requests :
    \/ \E e \in Events, t \in Times : ReceiveReading(p, e, t)
    \/ EndRequest(p)
    \/ AnswerReplay(p)
    \/ \E H \in SUBSET Thresholds : StoreReading(p, H)
    \/ BeginEdit(p)
    \/ \E h \in Thresholds :
         \/ \E row \in UmbralRow : CreateThreshold(p, h, row)
         \/ \E row \in UmbralRow \cup {NoOne} : UpdateThreshold(p, h, row)
         \/ DeleteThreshold(p, h)

Spec == Init /\ [][Next]_vars

-----------------------------------------------------------------------------
(* Safety, however requests overlap *)

\* What the gateway was told is stored, is stored, with that body and for ever:
\* the loser of a race for an event never acknowledges a body of its own.
AcknowledgedIsStored ==
  \A e \in Events : \A t \in acked[e] : lectura[e] = t

\* A reading out of range is never silent: an alert of its severity exists,
\* its own or one that is not older than the window.
BreachAnnounced ==
  \A j \in judged : \E a \in alerta : a.severidad = j[2] /\ a.hora + Window >= lectura[j[1]]

-----------------------------------------------------------------------------
(* What holds when readings come one by one *)

\* The readings being handled, and not refused as a replay.
Fresh == {p \in Readings : request[p].evento \notin Stored}

Accepted == \A p \in Fresh : \A h \in ActiveSeen(p) : AtMostOne(Matches(p, SeverityOf(p, h)))

\* A gateway that waits for its answers has every reading accepted, in
\* whatever order they were taken.
LateReadingsAccepted == Regime # "any" => Accepted

\* ... and has, if it sends them in the order of their timestamps.
OrderedReadingsAccepted == Regime = "ordered" => Accepted

\* With readings in order, alerts of one severity are further apart than the
\* window, and no alert of the future stands for a reading of the past.
OrderedAlertsSpaced ==
  Regime = "ordered" =>
    /\ \A a, b \in alerta :
         a.severidad = b.severidad /\ a # b /\ Window > 0
           => a.hora + Window < b.hora \/ b.hora + Window < a.hora
    /\ \A j \in judged : \E a \in alerta :
         a.severidad = j[2] /\ a.hora <= lectura[j[1]] /\ lectura[j[1]] <= a.hora + Window

=============================================================================
