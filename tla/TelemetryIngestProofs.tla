------------------------ MODULE TelemetryIngestProofs ------------------------
(***************************************************************************)
(* Theorems about TelemetryIngest, for every number of events, thresholds, *)
(* severities and requests, and every window.                              *)
(***************************************************************************)
EXTENDS TelemetryIngest, TLAPS

-----------------------------------------------------------------------------
(* Typing *)

\* What a reading request and a threshold request carry.
LEMMA RequestsTyped ==
  ASSUME TypeOK
  PROVE  /\ \A p \in Readings : p \in Requests /\ request[p] \in ReadingRequest
         /\ \A p \in Edits : p \in Requests /\ request[p] \in EditRequest
<1>1. \A p \in Requests : request[p] \in ReadingRequest \cup EditRequest \cup {NoRequest}
  BY DEF TypeOK
<1>2. QED
  BY <1>1 DEF Readings, Edits, NoRequest, ReadingRequest, EditRequest

\* The thresholds a reading is judged by have a severity.
LEMMA SeverityTyped ==
  ASSUME TypeOK, NEW p \in Readings, NEW h \in ActiveSeen(p)
  PROVE  h \in Thresholds /\ SeverityOf(p, h) \in Severities
<1>1. request[p].umbrales \in Umbrales
  BY RequestsTyped DEF ReadingRequest
<1>2. h \in Thresholds /\ request[p].umbrales[h] \in UmbralRow
  BY <1>1 DEF ActiveSeen, Umbrales
<1>3. QED
  BY <1>2 DEF SeverityOf, UmbralRow

\* The initial state is well typed.
LEMMA InitTyped == Init => TypeOK
  BY IngestBounds DEF Init, TypeOK, Umbrales

\* Every step keeps the state well typed.
LEMMA NextTyped ==
  ASSUME TypeOK, [Next]_vars
  PROVE  TypeOK'
<1> USE IngestBounds
<1>1. ASSUME NEW p \in Requests, NEW e \in Events, NEW t \in Times, ReceiveReading(p, e, t)
      PROVE  TypeOK'
  <2>1. [kind |-> "reading", evento |-> e, hora |-> t, seen |-> Stored, umbrales |-> umbral]
           \in ReadingRequest
    BY DEF TypeOK, ReadingRequest, Stored
  <2>2. QED
    BY <1>1, <2>1 DEF ReceiveReading, TypeOK
<1>2. ASSUME NEW p \in Requests, EndRequest(p)
      PROVE  TypeOK'
  BY <1>2 DEF EndRequest, TypeOK
<1>3. ASSUME NEW p \in Requests, AnswerReplay(p)
      PROVE  TypeOK'
  <2>1. request[p].evento \in Events /\ request[p].hora \in Times
    BY <1>3, RequestsTyped DEF AnswerReplay, ReadingRequest
  <2>2. QED
    BY <1>3, <2>1 DEF AnswerReplay, TypeOK
<1>4. ASSUME NEW p \in Requests, NEW H \in SUBSET Thresholds, StoreReading(p, H)
      PROVE  TypeOK'
  <2>1. p \in Readings /\ request[p].evento \in Events /\ request[p].hora \in Times
    BY <1>4, RequestsTyped DEF StoreReading, ReadingRequest
  <2>2. \A h \in H : h \in Thresholds /\ SeverityOf(p, h) \in Severities
    BY <1>4, <2>1, SeverityTyped DEF StoreReading
  <2>3. alerta' \subseteq Alerta
    BY <1>4, <2>1, <2>2 DEF StoreReading, NotYetAlerted, Alerta, TypeOK
  <2>4. judged' \subseteq Events \X Severities
    BY <1>4, <2>1, <2>2 DEF StoreReading, TypeOK
  <2>5. QED
    BY <1>4, <2>1, <2>3, <2>4 DEF StoreReading, TypeOK
<1>5. ASSUME NEW p \in Requests, BeginEdit(p)
      PROVE  TypeOK'
  <2>1. [kind |-> "threshold", evento |-> NoOne, hora |-> 0, seen |-> {}, umbrales |-> umbral]
           \in EditRequest
    BY DEF TypeOK, EditRequest
  <2>2. QED
    BY <1>5, <2>1 DEF BeginEdit, TypeOK
<1>6. ASSUME NEW p \in Requests, NEW h \in Thresholds, NEW row \in UmbralRow \cup {NoOne},
             Edit(p, h, row)
      PROVE  TypeOK'
  BY <1>6 DEF Edit, TypeOK, Umbrales
<1>7. ASSUME UNCHANGED vars
      PROVE  TypeOK'
  BY <1>7 DEF vars, TypeOK
<1>8. QED
  BY <1>1, <1>2, <1>3, <1>4, <1>5, <1>6, <1>7
     DEF Next, CreateThreshold, UpdateThreshold, DeleteThreshold

\* Every reachable state is well typed.
THEOREM TypeCorrect == Spec => []TypeOK
<1>1. Init => TypeOK
  BY InitTyped
<1>2. TypeOK /\ [Next]_vars => TypeOK'
  BY NextTyped
<1>3. QED
  BY <1>1, <1>2, PTL DEF Spec

-----------------------------------------------------------------------------
(* However requests overlap *)

\* What is judged is stored; without it a verdict could outlive its reading.
JudgedStored == \A j \in judged : j[1] \in Stored

SafetyInv == TypeOK /\ AcknowledgedIsStored /\ JudgedStored /\ BreachAnnounced

\* A reading that is stored is announced: by its own alert, or by the recent one
\* that its search found.
LEMMA StoreAnnounces ==
  ASSUME SafetyInv, NEW p \in Requests, NEW H \in SUBSET Thresholds, StoreReading(p, H),
         NEW h \in H
  PROVE  \E a \in alerta' : /\ a.severidad = SeverityOf(p, h)
                            /\ a.hora + Window >= request[p].hora
<1> DEFINE e == request[p].evento
           t == request[p].hora
<1>1. t \in Times
  BY RequestsTyped DEF SafetyInv, StoreReading, ReadingRequest
<1>2. CASE h \in NotYetAlerted(p, H)
  <2> DEFINE a == [evento |-> e, umbral |-> h, severidad |-> SeverityOf(p, h), hora |-> t]
  <2>1. a \in alerta'
    BY <1>2 DEF StoreReading
  <2>2. a.hora + Window >= t
    BY <1>1, IngestBounds DEF Times
  <2>3. QED
    BY <2>1, <2>2
<1>3. CASE h \notin NotYetAlerted(p, H)
  <2>1. PICK a \in Matches(p, SeverityOf(p, h)) : TRUE
    BY <1>3 DEF NotYetAlerted
  <2>2. a \in alerta' /\ Recent(p, a, SeverityOf(p, h))
    BY <2>1 DEF Matches, StoreReading
  <2>3. QED
    BY <2>2 DEF Recent
<1>4. QED
  BY <1>2, <1>3

\* Every step keeps the invariant; only StoreReading disturbs it.
LEMMA NextSafe ==
  ASSUME SafetyInv, [Next]_vars
  PROVE  SafetyInv'
<1>1. TypeOK'
  BY NextTyped DEF SafetyInv
<1>2. ASSUME UNCHANGED <<lectura, alerta, acked, judged>>
      PROVE  SafetyInv'
  BY <1>1, <1>2 DEF SafetyInv, AcknowledgedIsStored, JudgedStored, BreachAnnounced, Stored
<1>3. ASSUME NEW p \in Requests, AnswerReplay(p)
      PROVE  SafetyInv'
  <2>1. request[p].evento \in Events
    BY <1>3, RequestsTyped DEF SafetyInv, AnswerReplay, ReadingRequest
  <2>2. AcknowledgedIsStored'
    BY <1>3, <2>1 DEF AnswerReplay, SameBody, AcknowledgedIsStored, SafetyInv, TypeOK
  <2>3. JudgedStored' /\ BreachAnnounced'
    BY <1>3 DEF AnswerReplay, JudgedStored, BreachAnnounced, SafetyInv, Stored
  <2>4. QED
    BY <1>1, <2>2, <2>3 DEF SafetyInv
<1>4. ASSUME NEW p \in Requests, NEW H \in SUBSET Thresholds, StoreReading(p, H)
      PROVE  SafetyInv'
  <2> DEFINE e == request[p].evento
             t == request[p].hora
  <2>1. /\ e \in Events /\ t \in Times /\ e \notin Stored
        /\ lectura' = [lectura EXCEPT ![e] = t]
    BY <1>4, RequestsTyped DEF SafetyInv, StoreReading, ReadingRequest
  <2>2. lectura[e] = NoOne /\ t # NoOne
    BY <2>1, IngestBounds DEF Stored, Times
  <2>3. /\ lectura'[e] = t
        /\ \A f \in Stored : lectura'[f] = lectura[f]
    BY <2>1, <2>2 DEF SafetyInv, TypeOK, Stored
  <2>4. acked[e] = {}
    BY <2>1, <2>2, IngestBounds DEF SafetyInv, AcknowledgedIsStored, TypeOK, Times
  <2>5. AcknowledgedIsStored'
    BY <1>4, <2>1, <2>2, <2>4 DEF StoreReading, SafetyInv, AcknowledgedIsStored, TypeOK
  <2>6. JudgedStored'
    BY <1>4, <2>1, <2>2 DEF StoreReading, SafetyInv, JudgedStored, Stored, TypeOK
  <2>7. ASSUME NEW j \in judged'
        PROVE  \E a \in alerta' : a.severidad = j[2] /\ a.hora + Window >= lectura'[j[1]]
    <3>1. CASE j \in judged
      BY <1>4, <3>1, <2>3 DEF StoreReading, SafetyInv, JudgedStored, BreachAnnounced
    <3>2. CASE j \notin judged
      <4>1. PICK h \in H : j = <<e, SeverityOf(p, h)>>
        BY <1>4, <3>2 DEF StoreReading
      <4>2. QED
        BY <1>4, <4>1, <2>3, StoreAnnounces
    <3>3. QED
      BY <3>1, <3>2
  <2>8. QED
    BY <1>1, <2>5, <2>6, <2>7 DEF SafetyInv, BreachAnnounced
<1>5. QED
  BY <1>2, <1>3, <1>4 DEF Next, vars, ReceiveReading, EndRequest, BeginEdit,
     CreateThreshold, UpdateThreshold, DeleteThreshold, Edit

\* The invariant holds in every reachable state.
THEOREM SafetyInductive == Spec => []SafetyInv
<1>1. Init => SafetyInv
  BY InitTyped DEF Init, SafetyInv, AcknowledgedIsStored, JudgedStored, BreachAnnounced
<1>2. SafetyInv /\ [Next]_vars => SafetyInv'
  BY NextSafe
<1>3. QED
  BY <1>1, <1>2, PTL DEF Spec

\* Whatever repeats, overlaps or carries another body, a body that was answered
\* 201 or 200 is the stored one.
THEOREM AcknowledgedAreStored == Spec => []AcknowledgedIsStored
<1>1. SafetyInv => AcknowledgedIsStored
  BY DEF SafetyInv
<1>2. QED
  BY <1>1, SafetyInductive, PTL

\* No reading out of range is silent.
THEOREM BreachesAreAnnounced == Spec => []BreachAnnounced
<1>1. SafetyInv => BreachAnnounced
  BY DEF SafetyInv
<1>2. QED
  BY <1>1, SafetyInductive, PTL

-----------------------------------------------------------------------------
(* Readings that come one by one, in the order of their timestamps *)

AlertsOfStored == \A a \in alerta : a.evento \in Stored /\ lectura[a.evento] = a.hora

\* One reading at a time, which knows every stored one and is not older.
ReadingUpToDate ==
  /\ \A p, q \in Readings : p = q
  /\ \A p \in Readings : /\ request[p].seen = Stored
                         /\ \/ request[p].evento \in Stored
                            \/ \A f \in Stored : lectura[f] <= request[p].hora

AtMostOneRow(rows) == \A h, k \in Thresholds : rows[h] # NoOne /\ rows[k] # NoOne => h = k

\* One edit at a time, which knows the rows, of which at most one lives.
OneThreshold ==
  /\ \A p, q \in Edits : p = q
  /\ AtMostOneRow(umbral)
  /\ \A p \in Edits : request[p].umbrales = umbral
  /\ \A p \in Readings : AtMostOneRow(request[p].umbrales)

AlertsSpaced ==
  \A a, b \in alerta :
    a.severidad = b.severidad /\ a # b /\ Window > 0
      => a.hora + Window < b.hora \/ b.hora + Window < a.hora

PastAlertStandsFor ==
  \A j \in judged : \E a \in alerta :
    a.severidad = j[2] /\ a.hora <= lectura[j[1]] /\ lectura[j[1]] <= a.hora + Window

OrderedInv ==
  /\ SafetyInv
  /\ AlertsOfStored
  /\ ReadingUpToDate
  /\ OneThreshold
  /\ AlertsSpaced
  /\ PastAlertStandsFor

\* A fresh reading finds every alert, none of them later than itself.
LEMMA AlertsArePast ==
  ASSUME OrderedInv, NEW p \in Readings, request[p].evento \notin Stored
  PROVE  \A a \in alerta : a.evento \in request[p].seen /\ a.hora <= request[p].hora
  BY DEF OrderedInv, AlertsOfStored, ReadingUpToDate

\* ... and so at most the last alert of a severity is recent.
LEMMA OneRecentAlert ==
  ASSUME OrderedInv, NEW p \in Readings, request[p].evento \notin Stored, NEW s
  PROVE  AtMostOne(Matches(p, s))
<1> SUFFICES ASSUME NEW a \in Matches(p, s), NEW b \in Matches(p, s), a # b
             PROVE  FALSE
  BY DEF AtMostOne
<1>1. /\ a \in alerta /\ b \in alerta /\ Window > 0
      /\ Recent(p, a, s) /\ Recent(p, b, s)
  BY DEF Matches
<1>2. a.hora <= request[p].hora /\ b.hora <= request[p].hora
  BY <1>1, AlertsArePast
<1>3. a.hora \in Nat /\ b.hora \in Nat /\ request[p].hora \in Nat /\ Window \in Nat
  BY <1>1, RequestsTyped, IngestBounds
     DEF OrderedInv, SafetyInv, TypeOK, Alerta, ReadingRequest, Times
<1>4. a.hora + Window < b.hora \/ b.hora + Window < a.hora
  BY <1>1 DEF OrderedInv, AlertsSpaced, Recent
<1>5. QED
  BY <1>1, <1>2, <1>3, <1>4 DEF Recent

\* The alerts a reading adds: at most one, and further than the window from all
\* of its severity.
LEMMA AddedAlerts ==
  ASSUME OrderedInv, NEW p \in Requests, NEW H \in SUBSET Thresholds, StoreReading(p, H),
         NEW b \in alerta', b \notin alerta
  PROVE  /\ b.hora = request[p].hora /\ b.evento = request[p].evento
         /\ \A a \in alerta : a.severidad = b.severidad /\ Window > 0 => a.hora + Window < b.hora
         /\ \A a \in alerta' : a \notin alerta => a = b
<1>1. p \in Readings /\ request[p].evento \notin Stored /\ H \subseteq ActiveSeen(p)
  BY DEF StoreReading
<1>2. PICK h \in NotYetAlerted(p, H) :
        b = [evento |-> request[p].evento, umbral |-> h, severidad |-> SeverityOf(p, h),
             hora |-> request[p].hora]
  BY DEF StoreReading
<1>3. Matches(p, SeverityOf(p, h)) = {}
  BY <1>2 DEF NotYetAlerted
<1>4. ASSUME NEW a \in alerta, a.severidad = b.severidad, Window > 0
      PROVE  a.hora + Window < b.hora
  <2>1. ~ Recent(p, a, SeverityOf(p, h))
    BY <1>1, <1>3, <1>4, AlertsArePast DEF Matches
  <2>2. a.hora \in Nat /\ request[p].hora \in Nat /\ Window \in Nat
    BY <1>1, RequestsTyped, IngestBounds
       DEF OrderedInv, SafetyInv, TypeOK, Alerta, ReadingRequest, Times
  <2>3. QED
    BY <1>2, <1>4, <2>1, <2>2 DEF Recent
<1>5. ASSUME NEW a \in alerta', a \notin alerta
      PROVE  a = b
  <2>1. PICK k \in NotYetAlerted(p, H) :
          a = [evento |-> request[p].evento, umbral |-> k, severidad |-> SeverityOf(p, k),
               hora |-> request[p].hora]
    BY <1>5 DEF StoreReading
  <2>2. h \in Thresholds /\ k \in Thresholds
        /\ request[p].umbrales[h] # NoOne /\ request[p].umbrales[k] # NoOne
    BY <1>1, <1>2, <2>1 DEF NotYetAlerted, ActiveSeen
  <2>3. h = k
    BY <1>1, <2>2 DEF OrderedInv, OneThreshold, AtMostOneRow
  <2>4. QED
    BY <1>2, <2>1, <2>3
<1>6. QED
  BY <1>2, <1>4, <1>5

\* The requests that a step leaves, when it replaces that of p.
LEMMA RequestsAfter ==
  ASSUME TypeOK, NEW p \in Requests,
         \A q \in Requests : q # p => request'[q] = request[q]
  PROVE  /\ request'[p].kind # "reading" => Readings' = Readings \ {p}
         /\ request'[p].kind = "reading" => Readings' = Readings \cup {p}
         /\ request'[p].kind # "threshold" => Edits' = Edits \ {p}
         /\ request'[p].kind = "threshold" => Edits' = Edits \cup {p}
  BY DEF Readings, Edits

\* What each request knows stays up to date.
LEMMA NextUpToDate ==
  ASSUME OrderedInv, [Next]_vars, Regime = "ordered"
  PROVE  ReadingUpToDate' /\ OneThreshold'
<1>0. TypeOK /\ ReadingUpToDate /\ OneThreshold
  BY DEF OrderedInv, SafetyInv
<1>1. ASSUME NEW p \in Requests, NEW e \in Events, NEW t \in Times, ReceiveReading(p, e, t)
      PROVE  ReadingUpToDate' /\ OneThreshold'
  <2> DEFINE r == [kind |-> "reading", evento |-> e, hora |-> t, seen |-> Stored, umbrales |-> umbral]
  <2>1. request' = [request EXCEPT ![p] = r] /\ UNCHANGED <<umbral, lectura>> /\ Readings = {}
    BY <1>1 DEF ReceiveReading
  <2>2. p \notin Edits
    BY <1>1 DEF ReceiveReading, Edits
  <2>requests. request'[p] = r /\ \A q \in Requests : q # p => request'[q] = request[q]
    BY <1>0, <2>1 DEF TypeOK
  <2>3. Readings' = {p} /\ Edits' = Edits /\ request'[p] = r
        /\ \A q \in Edits : request'[q] = request[q]
    BY <1>0, <2>1, <2>2, <2>requests, RequestsAfter DEF Edits
  <2>4. Stored' = Stored
    BY <2>1 DEF Stored
  <2>5. ReadingUpToDate'
    BY <1>1, <2>1, <2>3, <2>4 DEF ReceiveReading, ReadingUpToDate
  <2>6. OneThreshold'
    BY <1>0, <2>1, <2>3 DEF OneThreshold, AtMostOneRow
  <2>7. QED
    BY <2>5, <2>6
<1>2. ASSUME NEW p \in Requests, EndRequest(p) \/ AnswerReplay(p)
      PROVE  ReadingUpToDate' /\ OneThreshold'
  <2>1. request' = [request EXCEPT ![p] = NoRequest] /\ UNCHANGED <<umbral, lectura>>
    BY <1>2 DEF EndRequest, AnswerReplay
  <2>requests. request'[p] = NoRequest /\ \A q \in Requests : q # p => request'[q] = request[q]
    BY <1>0, <2>1 DEF TypeOK
  <2>2. Readings' = Readings \ {p} /\ Edits' = Edits \ {p}
        /\ \A q \in Requests : q # p => request'[q] = request[q]
    BY <1>0, <2>requests, RequestsAfter DEF NoRequest
  <2>3. Stored' = Stored
    BY <2>1 DEF Stored
  <2>4. QED
    BY <1>0, <2>1, <2>2, <2>3 DEF ReadingUpToDate, OneThreshold, AtMostOneRow, Readings, Edits
<1>3. ASSUME NEW p \in Requests, NEW H \in SUBSET Thresholds, StoreReading(p, H)
      PROVE  ReadingUpToDate' /\ OneThreshold'
  <2>1. request' = [request EXCEPT ![p] = NoRequest] /\ UNCHANGED umbral /\ p \in Readings
    BY <1>3 DEF StoreReading
  <2>requests. request'[p] = NoRequest /\ \A q \in Requests : q # p => request'[q] = request[q]
    BY <1>0, <2>1 DEF TypeOK
  <2>2. Readings' = {} /\ Edits' = Edits \ {p}
        /\ \A q \in Requests : q # p => request'[q] = request[q]
    BY <1>0, <2>1, <2>requests, RequestsAfter DEF NoRequest, ReadingUpToDate
  <2>3. QED
    BY <1>0, <2>1, <2>2 DEF ReadingUpToDate, OneThreshold, AtMostOneRow, Edits
<1>4. ASSUME NEW p \in Requests, BeginEdit(p)
      PROVE  ReadingUpToDate' /\ OneThreshold'
  <2> DEFINE r == [kind |-> "threshold", evento |-> NoOne, hora |-> 0, seen |-> {}, umbrales |-> umbral]
  <2>1. request' = [request EXCEPT ![p] = r] /\ UNCHANGED <<umbral, lectura>> /\ Edits = {}
    BY <1>4 DEF BeginEdit
  <2>2. p \notin Readings
    BY <1>4 DEF BeginEdit, Readings
  <2>requests. request'[p] = r /\ \A q \in Requests : q # p => request'[q] = request[q]
    BY <1>0, <2>1 DEF TypeOK
  <2>3. Edits' = {p} /\ Readings' = Readings /\ request'[p] = r
        /\ \A q \in Readings : request'[q] = request[q]
    BY <1>0, <2>1, <2>2, <2>requests, RequestsAfter DEF Readings
  <2>4. Stored' = Stored
    BY <2>1 DEF Stored
  <2>5. QED
    BY <1>0, <2>1, <2>3, <2>4 DEF ReadingUpToDate, OneThreshold, AtMostOneRow
<1>5. ASSUME NEW p \in Requests, NEW h \in Thresholds, NEW row, p \in Edits, Edit(p, h, row),
             row = NoOne \/ \A k \in Thresholds \ {h} : request[p].umbrales[k] = NoOne
      PROVE  ReadingUpToDate' /\ OneThreshold'
  <2>1. /\ request' = [request EXCEPT ![p] = NoRequest] /\ UNCHANGED lectura
        /\ umbral' = [umbral EXCEPT ![h] = row]
    BY <1>5 DEF Edit
  <2>2. p \notin Readings
    BY <1>5 DEF Edits, Readings
  <2>requests. request'[p] = NoRequest /\ \A q \in Requests : q # p => request'[q] = request[q]
    BY <1>0, <2>1 DEF TypeOK
  <2>3. Edits' = {} /\ Readings' = Readings /\ \A q \in Readings : request'[q] = request[q]
    BY <1>0, <1>5, <2>2, <2>requests, RequestsAfter DEF NoRequest, OneThreshold, Readings
  <2>4. Stored' = Stored
    BY <2>1 DEF Stored
  <2>5. ReadingUpToDate'
    BY <1>0, <2>1, <2>3, <2>4 DEF ReadingUpToDate
  <2>6. \A k \in Thresholds : umbral'[k] = IF k = h THEN row ELSE umbral[k]
    BY <1>0, <2>1 DEF TypeOK, Umbrales
  <2>7. AtMostOneRow(umbral')
    BY <1>0, <1>5, <2>6 DEF AtMostOneRow, OneThreshold
  <2>8. QED
    BY <1>0, <2>3, <2>5, <2>7 DEF OneThreshold, AtMostOneRow
<1>6. ASSUME NEW p \in Requests, NEW h \in Thresholds, NEW row,
             \/ CreateThreshold(p, h, row)
             \/ UpdateThreshold(p, h, row)
             \/ DeleteThreshold(p, h)
      PROVE  ReadingUpToDate' /\ OneThreshold'
  BY <1>5, <1>6 DEF CreateThreshold, UpdateThreshold, DeleteThreshold, DuplicateSeen
<1>7. ASSUME UNCHANGED vars
      PROVE  ReadingUpToDate' /\ OneThreshold'
  BY <1>0, <1>7 DEF vars, ReadingUpToDate, OneThreshold, AtMostOneRow, Readings, Edits, Stored
<1>8. QED
  BY <1>1, <1>2, <1>3, <1>4, <1>6, <1>7 DEF Next

\* The alerts stay tied to stored readings, apart, and not of the future.
LEMMA NextSpaced ==
  ASSUME OrderedInv, [Next]_vars, Regime = "ordered"
  PROVE  AlertsOfStored' /\ AlertsSpaced' /\ PastAlertStandsFor'
<1>1. ASSUME UNCHANGED <<lectura, alerta, judged>>
      PROVE  AlertsOfStored' /\ AlertsSpaced' /\ PastAlertStandsFor'
  BY <1>1 DEF OrderedInv, AlertsOfStored, AlertsSpaced, PastAlertStandsFor, Stored
<1>2. ASSUME NEW p \in Requests, NEW H \in SUBSET Thresholds, StoreReading(p, H)
      PROVE  AlertsOfStored' /\ AlertsSpaced' /\ PastAlertStandsFor'
  <2> DEFINE e == request[p].evento
             t == request[p].hora
  <2>1. /\ p \in Readings /\ e \in Events /\ t \in Times /\ e \notin Stored
        /\ lectura' = [lectura EXCEPT ![e] = t]
        /\ alerta \subseteq alerta'
    BY <1>2, RequestsTyped DEF OrderedInv, SafetyInv, StoreReading, ReadingRequest
  <2>2. t # NoOne
    BY <2>1, IngestBounds DEF Times
  <2>3. /\ lectura'[e] = t /\ e \in Stored'
        /\ \A f \in Stored : f \in Stored' /\ lectura'[f] = lectura[f]
    BY <2>1, <2>2 DEF OrderedInv, SafetyInv, TypeOK, Stored
  <2>4. AlertsOfStored'
    BY <1>2, <2>3, AddedAlerts DEF OrderedInv, AlertsOfStored
  <2>5. AlertsSpaced'
    BY <1>2, <2>1, AddedAlerts DEF OrderedInv, AlertsSpaced
  <2>6. ASSUME NEW j \in judged'
        PROVE  \E a \in alerta' : /\ a.severidad = j[2] /\ a.hora <= lectura'[j[1]]
                                  /\ lectura'[j[1]] <= a.hora + Window
    <3>1. CASE j \in judged
      BY <3>1, <2>1, <2>3 DEF OrderedInv, SafetyInv, JudgedStored, PastAlertStandsFor
    <3>2. CASE j \notin judged
      <4>1. PICK h \in H : j = <<e, SeverityOf(p, h)>>
        BY <1>2, <3>2 DEF StoreReading
      <4>2. PICK a \in alerta' : a.severidad = SeverityOf(p, h) /\ a.hora + Window >= t
        BY <1>2, StoreAnnounces DEF OrderedInv
      <4>3. a.hora <= t /\ a.hora \in Nat /\ t \in Nat
        BY <1>2, <2>1, AlertsArePast, AddedAlerts
           DEF OrderedInv, SafetyInv, TypeOK, Alerta, Times
      <4>4. QED
        BY <4>1, <4>2, <4>3, <2>3, IngestBounds
    <3>3. QED
      BY <3>1, <3>2
  <2>7. QED
    BY <2>4, <2>5, <2>6 DEF PastAlertStandsFor
<1>3. QED
  BY <1>1, <1>2 DEF Next, vars, ReceiveReading, EndRequest, AnswerReplay, BeginEdit,
     CreateThreshold, UpdateThreshold, DeleteThreshold, Edit

\* The invariant of ordered readings holds in every reachable state.
THEOREM OrderedInductive == Spec => [](Regime = "ordered" => OrderedInv)
<1> DEFINE Inv == Regime = "ordered" => OrderedInv
<1>1. Init => Inv
  BY InitTyped DEF Init, OrderedInv, SafetyInv, AcknowledgedIsStored, JudgedStored, BreachAnnounced,
     AlertsOfStored, ReadingUpToDate, OneThreshold, AtMostOneRow, AlertsSpaced, PastAlertStandsFor,
     Readings, Edits, NoRequest
<1>2. Inv /\ [Next]_vars => Inv'
  BY NextSafe, NextUpToDate, NextSpaced DEF OrderedInv
<1>3. QED
  BY <1>1, <1>2, PTL DEF Spec

\* A gateway that sends its readings one by one and in order has every one
\* accepted, whatever the thresholds become meanwhile.
THEOREM OrderedReadingsAreAccepted == Spec => []OrderedReadingsAccepted
<1>1. (Regime = "ordered" => OrderedInv) => OrderedReadingsAccepted
  BY OneRecentAlert DEF OrderedReadingsAccepted, Accepted, Fresh
<1>2. QED
  BY <1>1, OrderedInductive, PTL

\* ... and its alerts of one severity are further apart than the window.
THEOREM OrderedAlertsAreSpaced == Spec => []OrderedAlertsSpaced
<1>1. (Regime = "ordered" => OrderedInv) => OrderedAlertsSpaced
  BY DEF OrderedAlertsSpaced, OrderedInv, AlertsSpaced, PastAlertStandsFor
<1>2. QED
  BY <1>1, OrderedInductive, PTL

=============================================================================
