------------------------ MODULE PhysicalBindingProofs ------------------------
(***************************************************************************)
(* Theorems about PhysicalBinding, for every number of slots, devices,     *)
(* events and requests; the last is that it implements BoundDevices.       *)
(***************************************************************************)
EXTENDS PhysicalBinding, TLAPS

-----------------------------------------------------------------------------
(* Typing *)

\* The initial state is well typed.
LEMMA InitTyped == Init => TypeOK
<1> SUFFICES ASSUME Init PROVE TypeOK
  OBVIOUS
<1>1. NoRow \in BindingRow
  BY DEF NoRow, BindingRow
<1>2. NoRequest \in [kind : {"none", "machine", "admin"}, rows : [Rows -> BindingRow],
                     revision : Nat, version : 0..MaxVersion]
  BY <1>1, BindingBounds DEF NoRequest
<1>3. QED
  BY <1>1, <1>2, BindingBounds DEF Init, TypeOK

\* What a poll returns is an overlay of the agent's cache.
LEMMA OverlayTyped ==
  ASSUME TypeOK
  PROVE  Overlay \in [Slots -> [current : SUBSET Rows, pending : SUBSET Rows]]
  BY DEF Overlay, Confirmed, Pending

\* The rows a confirmation leaves are rows.
LEMMA RowsConfirmedTyped ==
  ASSUME TypeOK, NEW b \in Rows, NEW e \in Events
  PROVE  RowsConfirmed(b, e) \in [Rows -> BindingRow]
<1> SUFFICES ASSUME NEW c \in Rows
             PROVE  RowsConfirmed(b, e)[c] \in BindingRow
  BY DEF RowsConfirmed
<1>1. binding[c] \in BindingRow
  BY DEF TypeOK
<1>2. QED
  BY <1>1 DEF RowsConfirmed, BindingRow

\* Every step keeps the state well typed, and the versions contiguous: the type
\* of the counter of configurations rests on the version's.
LEMMA NextTyped ==
  ASSUME TypeOK, VersionsNeverReused, [Next]_vars
  PROVE  TypeOK' /\ VersionsNeverReused'
<1> USE BindingBounds DEF VersionsNeverReused
<1> DEFINE RequestRecord == [kind : {"none", "machine", "admin"}, rows : [Rows -> BindingRow],
                             revision : Nat, version : 0..MaxVersion]
<1>0. NoRow \in BindingRow
  BY DEF NoRow, BindingRow
<1>1. NoRequest \in RequestRecord
  BY <1>0 DEF NoRequest
<1>2. ASSUME NEW p \in Requests, request' = [request EXCEPT ![p] = NoRequest]
      PROVE  request' \in [Requests -> RequestRecord]
  BY <1>1, <1>2 DEF TypeOK
<1>3. CASE Revoke \/ Activate
  BY <1>3 DEF Revoke, Activate, TypeOK
<1>4. CASE Poll
  <2>1. known' \in [version : 0..MaxVersion, revision : Nat,
                    overlay : [Slots -> [current : SUBSET Rows, pending : SUBSET Rows]]]
    BY <1>4, OverlayTyped DEF Poll, TypeOK
  <2>2. QED
    BY <1>4, <2>1 DEF Poll, TypeOK
<1>5. ASSUME NEW p \in Requests, BeginMachine(p) \/ BeginAdmin(p)
      PROVE  TypeOK' /\ VersionsNeverReused'
  BY <1>5 DEF BeginMachine, BeginAdmin, Begin, TypeOK
<1>6. ASSUME NEW p \in Requests, EndRequest(p)
      PROVE  TypeOK' /\ VersionsNeverReused'
  BY <1>2, <1>6 DEF EndRequest, TypeOK
<1>7. ASSUME NEW p \in Requests, NEW s \in Slots, NEW u \in Uids, NEW e \in Events,
             SubmitCandidate(p, s, u, e)
      PROVE  TypeOK' /\ VersionsNeverReused'
  <2>1. [NoRow EXCEPT !.estado = "pending", !.slot = s, !.uid = u, !.propuesta = e] \in BindingRow
    BY DEF NoRow, BindingRow
  <2>2. binding' \in [Rows -> BindingRow]
    BY <1>7, <2>1 DEF SubmitCandidate, TypeOK
  <2>3. NextRevision(p) \in Nat
    BY DEF NextRevision, TypeOK
  <2>4. request' \in [Requests -> RequestRecord]
    BY <1>2, <1>7 DEF SubmitCandidate
  <2>5. QED
    BY <1>7, <2>2, <2>3, <2>4 DEF SubmitCandidate, TypeOK
<1>8. ASSUME NEW p \in Requests, NEW b \in Rows, NEW e \in Events, ConfirmCandidate(p, b, e)
      PROVE  TypeOK' /\ VersionsNeverReused'
  <2>1. binding' \in [Rows -> BindingRow]
    BY <1>8, RowsConfirmedTyped DEF ConfirmCandidate
  <2>2. NextRevision(p) \in Nat
    BY DEF NextRevision, TypeOK
  <2>3. request' \in [Requests -> RequestRecord]
    BY <1>2, <1>8 DEF ConfirmCandidate
  <2>4. QED
    BY <1>8, <2>1, <2>2, <2>3 DEF ConfirmCandidate, TypeOK
<1>9. ASSUME NEW p \in Requests, Publish(p)
      PROVE  TypeOK' /\ VersionsNeverReused'
  <2>1. request' \in [Requests -> RequestRecord]
    BY <1>2, <1>9 DEF Publish
  <2>2. QED
    BY <1>9, <2>1 DEF Publish, NextVersionFree, TypeOK
<1>10. ASSUME NEW p \in Requests, Provision(p)
       PROVE  TypeOK' /\ VersionsNeverReused'
  <2>1. request' \in [Requests -> RequestRecord]
    BY <1>2, <1>10 DEF Provision
  <2>2. \A b \in Rows : [binding[b] EXCEPT !.estado = "closed"] \in BindingRow
    <3> TAKE b \in Rows
    <3>1. binding[b] \in BindingRow
      BY DEF TypeOK
    <3>2. QED
      BY <3>1 DEF BindingRow
  <2>3. binding' \in [Rows -> BindingRow]
    BY <1>10, <2>2 DEF Provision, TypeOK
  <2>4. gateway' \in [estado : {"pending_activation", "active", "revoked"},
                      version : 1..MaxVersion, revision : Nat]
        /\ configs' = gateway'.version
    BY <1>10 DEF Provision, NextVersionFree, TypeOK
  <2>5. QED
    BY <1>10, <2>1, <2>3, <2>4 DEF Provision, TypeOK
<1>11. CASE UNCHANGED vars
  BY <1>11 DEF vars, TypeOK
<1>12. QED
  BY <1>3, <1>4, <1>5, <1>6, <1>7, <1>8, <1>9, <1>10, <1>11 DEF Next

\* No row, request, revision or configuration ever leaves its type.
THEOREM TypeCorrect == Spec => []TypeOK
<1>1. Init => TypeOK /\ VersionsNeverReused
  BY InitTyped DEF Init, VersionsNeverReused
<1>2. TypeOK /\ VersionsNeverReused /\ [Next]_vars => (TypeOK /\ VersionsNeverReused)'
  BY NextTyped
<1>3. QED
  BY <1>1, <1>2, PTL DEF Spec

\* VersionsNeverReused: a publication that waited for the lock never takes the
\* version another one took meanwhile.
THEOREM VersionsAreNeverReused == Spec => []VersionsNeverReused
<1>1. Init => TypeOK /\ VersionsNeverReused
  BY InitTyped DEF Init, VersionsNeverReused
<1>2. TypeOK /\ VersionsNeverReused /\ [Next]_vars => (TypeOK /\ VersionsNeverReused)'
  BY NextTyped
<1>3. QED
  BY <1>1, <1>2, PTL DEF Spec

-----------------------------------------------------------------------------
(* Rows, however requests overlap *)

\* A proposal inserts the next row, which is not there yet, and changes no other.
LEMMA SubmitInserts ==
  ASSUME TypeOK, NEW p \in Requests, NEW s \in Slots, NEW u \in Uids, NEW e \in Events,
         SubmitCandidate(p, s, u, e)
  PROVE  \E b \in Rows :
           /\ binding[b].estado = "none"
           /\ binding'[b].estado = "pending" /\ binding'[b].slot = s /\ binding'[b].uid = u
           /\ binding'[b].propuesta = e /\ binding'[b].confirmacion = NoOne
           /\ \A c \in Rows \ {b} : binding'[c] = binding[c]
<1>1. PICK b \in Rows :
        /\ Inserted = 1..(b - 1)
        /\ binding' = [binding EXCEPT ![b] = [NoRow EXCEPT !.estado = "pending", !.slot = s,
                                                           !.uid = u, !.propuesta = e]]
  BY DEF SubmitCandidate
<1>2. b \notin Inserted
  BY <1>1, BindingBounds DEF Rows
<1>3. binding[b].estado = "none"
  BY <1>2 DEF Inserted
<1>4. QED
  BY <1>1, <1>3 DEF TypeOK, NoRow

\* A confirmation moves its candidate to confirmed, closes what was confirmed
\* in the slot, and changes no other row.
LEMMA ConfirmMoves ==
  ASSUME TypeOK, NEW p \in Requests, NEW b \in Rows, NEW e \in Events, ConfirmCandidate(p, b, e)
  PROVE  /\ binding[b].estado = "pending"
         /\ binding'[b].estado = "confirmed" /\ binding'[b].confirmacion = e
         /\ \A c \in Rows :
              /\ binding'[c].slot = binding[c].slot /\ binding'[c].uid = binding[c].uid
              /\ binding'[c].propuesta = binding[c].propuesta
         /\ \A c \in Rows \ {b} :
              /\ binding'[c].confirmacion = binding[c].confirmacion
              /\ binding'[c].estado = IF c \in Confirmed(binding, binding[b].slot)
                                      THEN "closed" ELSE binding[c].estado
<1>1. binding' = RowsConfirmed(b, e) /\ binding[b].estado = "pending"
  BY DEF ConfirmCandidate, StillPending
<1>2. \A c \in Rows : binding[c] \in BindingRow
  BY DEF TypeOK
<1>3. QED
  BY <1>1, <1>2 DEF RowsConfirmed, BindingRow

\* A re-provision closes some rows and changes nothing else in any.
LEMMA ProvisionCloses ==
  ASSUME TypeOK, NEW p \in Requests, Provision(p)
  PROVE  \A c \in Rows :
           /\ binding'[c].slot = binding[c].slot /\ binding'[c].uid = binding[c].uid
           /\ binding'[c].propuesta = binding[c].propuesta
           /\ binding'[c].confirmacion = binding[c].confirmacion
           /\ binding'[c].estado = IF c \in StaleRows(p) THEN "closed" ELSE binding[c].estado
<1>1. \A c \in Rows : binding[c] \in BindingRow
  BY DEF TypeOK
<1>2. QED
  BY <1>1 DEF Provision, BindingRow

\* Nothing else touches a row.
LEMMA OtherStepsKeepRows ==
  ASSUME [Next]_vars,
         ~ \E p \in Requests :
             \/ \E s \in Slots, u \in Uids, e \in Events : SubmitCandidate(p, s, u, e)
             \/ \E b \in Rows, e \in Events : ConfirmCandidate(p, b, e)
             \/ Provision(p)
  PROVE  UNCHANGED binding
  BY DEF Next, vars, Revoke, Activate, Poll, BeginMachine, BeginAdmin, Begin, EndRequest, Publish

\* What a request saw inserted is inserted: a snapshot lies in the past.
SnapshotsPast ==
  \A p \in Requests, b \in Rows :
    request[p].rows[b].estado # "none" => binding[b].estado # "none"

\* A row once inserted is never deleted.
LEMMA InsertedStay ==
  ASSUME TypeOK, [Next]_vars
  PROVE  \A b \in Rows : binding[b].estado # "none" => binding'[b].estado # "none"
<1>1. ASSUME NEW p \in Requests, NEW s \in Slots, NEW u \in Uids, NEW e \in Events,
             SubmitCandidate(p, s, u, e)
      PROVE  \A b \in Rows : binding[b].estado # "none" => binding'[b].estado # "none"
  BY <1>1, SubmitInserts
<1>2. ASSUME NEW p \in Requests, NEW b \in Rows, NEW e \in Events, ConfirmCandidate(p, b, e)
      PROVE  \A c \in Rows : binding[c].estado # "none" => binding'[c].estado # "none"
  BY <1>2, ConfirmMoves
<1>3. ASSUME NEW p \in Requests, Provision(p)
      PROVE  \A b \in Rows : binding[b].estado # "none" => binding'[b].estado # "none"
  BY <1>3, ProvisionCloses
<1>4. QED
  BY <1>1, <1>2, <1>3, OtherStepsKeepRows

\* A step leaves a request as it is, ends it, or begins it with the state of now.
LEMMA RequestSteps ==
  ASSUME TypeOK, [Next]_vars, NEW p \in Requests
  PROVE  \/ request'[p] = request[p]
         \/ request'[p] = NoRequest
         \/ /\ UNCHANGED <<binding, gateway, known>>
            /\ request[p].kind = "none"
            /\ request'[p].rows = binding
            /\ request'[p].revision = gateway.revision
            /\ request'[p].version = gateway.version
            /\ request'[p].kind = "machine" => overlap.edge \/ InFlight = {}
<1>1. ASSUME NEW q \in Requests, BeginMachine(q) \/ BeginAdmin(q)
      PROVE  \/ request'[p] = request[p]
             \/ /\ UNCHANGED <<binding, gateway, known>>
                /\ request[p].kind = "none"
                /\ request'[p].rows = binding
                /\ request'[p].revision = gateway.revision
                /\ request'[p].version = gateway.version
                /\ request'[p].kind = "machine" => overlap.edge \/ InFlight = {}
  BY <1>1 DEF BeginMachine, BeginAdmin, Begin, TypeOK
<1>2. ASSUME NEW q \in Requests, request' = [request EXCEPT ![q] = NoRequest]
      PROVE  request'[p] = request[p] \/ request'[p] = NoRequest
  BY <1>2 DEF TypeOK
<1>3. CASE UNCHANGED request
  BY <1>3
<1>4. QED
  BY <1>1, <1>2, <1>3
  DEF Next, vars, Revoke, Activate, Poll, EndRequest, SubmitCandidate, ConfirmCandidate,
      Publish, Provision

\* Snapshots stay in the past.
LEMMA PastPreserved ==
  ASSUME TypeOK, SnapshotsPast, [Next]_vars
  PROVE  SnapshotsPast'
<1> SUFFICES ASSUME NEW p \in Requests, NEW b \in Rows, request'[p].rows[b].estado # "none"
             PROVE  binding'[b].estado # "none"
  BY DEF SnapshotsPast
<1>1. request'[p] # NoRequest
  BY DEF NoRequest, NoRow
<1>2. CASE request'[p] = request[p]
  BY <1>2, InsertedStay DEF SnapshotsPast
<1>3. CASE request'[p].rows = binding /\ UNCHANGED binding
  BY <1>3
<1>4. QED
  BY <1>1, <1>2, <1>3, RequestSteps

\* A slot has one confirmed device and a device one slot.
LEMMA UniquePreserved ==
  ASSUME TypeOK, CurrentBindingsUnique, [Next]_vars
  PROVE  CurrentBindingsUnique'
<1>1. ASSUME NEW p \in Requests, NEW s \in Slots, NEW u \in Uids, NEW e \in Events,
             SubmitCandidate(p, s, u, e)
      PROVE  CurrentBindingsUnique'
  BY <1>1, SubmitInserts DEF CurrentBindingsUnique
<1>2. ASSUME NEW p \in Requests, NEW b \in Rows, NEW e \in Events, ConfirmCandidate(p, b, e)
      PROVE  CurrentBindingsUnique'
  <2>1. Confirmable(b)
    BY <1>2 DEF ConfirmCandidate
  <2>2. QED
    BY <1>2, <2>1, ConfirmMoves DEF CurrentBindingsUnique, Confirmable, Confirmed
<1>3. ASSUME NEW p \in Requests, Provision(p)
      PROVE  CurrentBindingsUnique'
  BY <1>3, ProvisionCloses DEF CurrentBindingsUnique
<1>4. CASE UNCHANGED binding
  BY <1>4 DEF CurrentBindingsUnique
<1>5. QED
  BY <1>1, <1>2, <1>3, <1>4, OtherStepsKeepRows

\* An event proposes one row and confirms one row.
LEMMA OncePreserved ==
  ASSUME TypeOK, SnapshotsPast, EventRecordedOnce, [Next]_vars
  PROVE  EventRecordedOnce'
<1>1. ASSUME NEW p \in Requests, NEW s \in Slots, NEW u \in Uids, NEW e \in Events,
             SubmitCandidate(p, s, u, e)
      PROVE  EventRecordedOnce'
  <2>1. UnusedProposal(p, e)
    BY <1>1 DEF SubmitCandidate
  <2>2. QED
    BY <1>1, <2>1, SubmitInserts DEF EventRecordedOnce, UnusedProposal, Inserted
<1>2. ASSUME NEW p \in Requests, NEW b \in Rows, NEW e \in Events, ConfirmCandidate(p, b, e)
      PROVE  EventRecordedOnce'
  <2>1. UnusedConfirmation(e)
    BY <1>2 DEF ConfirmCandidate
  <2>2. \A c \in Inserted' : c \in Inserted
    BY <1>2, ConfirmMoves DEF Inserted, Confirmed
  <2>3. QED
    BY <1>2, <2>1, <2>2, ConfirmMoves DEF EventRecordedOnce, UnusedConfirmation, Inserted
<1>3. ASSUME NEW p \in Requests, Provision(p)
      PROVE  EventRecordedOnce'
  <2>1. \A c \in Inserted' : c \in Inserted
    BY <1>3, ProvisionCloses DEF Inserted, StaleRows, SnapshotsPast
  <2>2. QED
    BY <1>3, <2>1, ProvisionCloses DEF EventRecordedOnce, Inserted
<1>4. CASE UNCHANGED binding
  BY <1>4 DEF EventRecordedOnce, Inserted
<1>5. QED
  BY <1>1, <1>2, <1>3, <1>4, OtherStepsKeepRows

\* A closed row stays closed.
LEMMA ClosedKept ==
  ASSUME TypeOK, [Next]_vars
  PROVE  \A b \in Rows : binding[b].estado = "closed" => binding'[b].estado = "closed"
<1>1. ASSUME NEW p \in Requests, NEW s \in Slots, NEW u \in Uids, NEW e \in Events,
             SubmitCandidate(p, s, u, e)
      PROVE  \A b \in Rows : binding[b].estado = "closed" => binding'[b].estado = "closed"
  BY <1>1, SubmitInserts
<1>2. ASSUME NEW p \in Requests, NEW b \in Rows, NEW e \in Events, ConfirmCandidate(p, b, e)
      PROVE  \A c \in Rows : binding[c].estado = "closed" => binding'[c].estado = "closed"
  BY <1>2, ConfirmMoves
<1>3. ASSUME NEW p \in Requests, Provision(p)
      PROVE  \A b \in Rows : binding[b].estado = "closed" => binding'[b].estado = "closed"
  BY <1>3, ProvisionCloses
<1>4. QED
  BY <1>1, <1>2, <1>3, OtherStepsKeepRows

\* The inductive invariant of the rows: the last part needs to know that no
\* re-provision closes a row it could not have seen.
RowsInv ==
  /\ TypeOK
  /\ VersionsNeverReused
  /\ SnapshotsPast
  /\ CurrentBindingsUnique
  /\ EventRecordedOnce

\* RowsInv holds of every reachable state, however requests overlap.
THEOREM RowsInductive == Spec => []RowsInv
<1>1. Init => RowsInv
  <2> SUFFICES ASSUME Init PROVE RowsInv
    OBVIOUS
  <2>1. TypeOK /\ VersionsNeverReused
    BY InitTyped DEF Init, VersionsNeverReused
  <2>2. SnapshotsPast /\ CurrentBindingsUnique /\ EventRecordedOnce
    BY DEF Init, SnapshotsPast, CurrentBindingsUnique, EventRecordedOnce, Inserted, NoRow, NoRequest
  <2>3. QED
    BY <2>1, <2>2 DEF RowsInv
<1>2. RowsInv /\ [Next]_vars => RowsInv'
  BY NextTyped, PastPreserved, UniquePreserved, OncePreserved DEF RowsInv
<1>3. QED
  BY <1>1, <1>2, PTL DEF Spec

\* CurrentBindingsUnique: overlapping proposals never lead to two confirmed
\* devices in a slot, nor to a device confirmed for two slots.
THEOREM BindingsAreUnique == Spec => []CurrentBindingsUnique
<1>1. RowsInv => CurrentBindingsUnique
  BY DEF RowsInv
<1>2. QED
  BY <1>1, RowsInductive, PTL

\* EventRecordedOnce: a retry never takes effect twice.
THEOREM EventsAreRecordedOnce == Spec => []EventRecordedOnce
<1>1. RowsInv => EventRecordedOnce
  BY DEF RowsInv
<1>2. QED
  BY <1>1, RowsInductive, PTL

\* ClosedRowsStay: no confirmation revives a row that a re-provision closed.
THEOREM ClosedRowsNeverReturn == Spec => ClosedRowsStay
<1>1. TypeOK /\ [Next]_vars
        => [\A b \in Rows : binding[b].estado = "closed" => binding'[b].estado = "closed"]_vars
  BY ClosedKept
<1>2. QED
  BY <1>1, TypeCorrect, PTL DEF Spec, ClosedRowsStay

-----------------------------------------------------------------------------
(* An edge agent that sends one request at a time *)

\* Such an agent has one request in flight at most.
OneInFlight == ~overlap.edge => \A p, q \in InFlight : p = q

\* Its request saw every row that is still live, and no slot freed since.
LiveRowsSeen ==
  ~overlap.edge =>
    \A p \in InFlight : \A b \in Alive(binding) :
      /\ b \in Alive(request[p].rows)
      /\ request[p].rows[b].slot = binding[b].slot
      /\ request[p].rows[b].uid = binding[b].uid
      /\ binding[b].estado = "pending" => request[p].rows[b].estado = "pending"

\* What the agent knows is not newer than the gateway.
KnownOfPast ==
  ~overlap.edge =>
    /\ known.version <= gateway.version
    /\ known.version = gateway.version => known.revision <= gateway.revision

\* What it knows is not newer than what its request saw: it does not poll meanwhile.
KnownBeforeRequest ==
  ~overlap.edge =>
    \A p \in InFlight :
      /\ known.version <= request[p].version
      /\ request[p].version <= gateway.version
      /\ known.version = request[p].version => known.revision <= request[p].revision

\* The inductive invariant for such an agent: its request acts on a snapshot
\* that administrators alone may have made old, and they change the version.
SequentialInv ==
  /\ TypeOK
  /\ VersionsNeverReused
  /\ OneInFlight
  /\ LiveRowsSeen
  /\ KnownOfPast
  /\ KnownBeforeRequest
  /\ SequentialCandidatesDistinct
  /\ SequentialAgentSeesChanges

\* A request that is in flight after a step was before, or has just begun alone.
LEMMA FlightSteps ==
  ASSUME TypeOK, [Next]_vars, NEW p \in InFlight'
  PROVE  \/ p \in InFlight /\ request'[p] = request[p]
         \/ /\ UNCHANGED <<binding, gateway, known>>
            /\ overlap.edge \/ InFlight = {}
            /\ request'[p].rows = binding
            /\ request'[p].revision = gateway.revision
            /\ request'[p].version = gateway.version
  BY RequestSteps DEF InFlight, NoRequest

\* One action changes one request only.
LEMMA OneRequestChanges ==
  ASSUME TypeOK, [Next]_vars, NEW p \in Requests, NEW q \in Requests,
         request'[p] # request[p], request'[q] # request[q]
  PROVE  p = q
<1>1. ASSUME NEW r \in Requests, NEW f, request' = [request EXCEPT ![r] = f]
      PROVE  p = q
  BY <1>1 DEF TypeOK
<1>2. CASE UNCHANGED request
  BY <1>2
<1>3. ASSUME NEW r \in Requests, BeginMachine(r) \/ BeginAdmin(r)
      PROVE  p = q
  BY <1>1, <1>3 DEF BeginMachine, BeginAdmin, Begin
<1>4. QED
  BY <1>1, <1>2, <1>3
  DEF Next, vars, Revoke, Activate, Poll, EndRequest, SubmitCandidate, ConfirmCandidate,
      Publish, Provision

\* A sequential agent stays so.
LEMMA OneInFlightPreserved ==
  ASSUME TypeOK, OneInFlight, [Next]_vars
  PROVE  OneInFlight'
<1>1. UNCHANGED overlap
  BY DEF Next, vars, Revoke, Activate, Poll, BeginMachine, BeginAdmin, Begin, EndRequest,
         SubmitCandidate, ConfirmCandidate, Publish, Provision
<1>2. SUFFICES ASSUME ~overlap.edge, NEW p \in InFlight', NEW q \in InFlight'
               PROVE  p = q
  BY <1>1 DEF OneInFlight
<1>3. p \in Requests /\ q \in Requests
  BY DEF InFlight
<1>4. CASE p \in InFlight /\ q \in InFlight
  BY <1>2, <1>4 DEF OneInFlight
<1>5. CASE p \notin InFlight /\ q \notin InFlight
  BY <1>3, <1>5, OneRequestChanges DEF InFlight
<1>6. CASE p \in InFlight /\ q \notin InFlight
  BY <1>2, <1>6, FlightSteps
<1>7. CASE p \notin InFlight /\ q \in InFlight
  BY <1>2, <1>7, FlightSteps
<1>8. QED
  BY <1>4, <1>5, <1>6, <1>7

\* What an action other than a request's own does to the rows: it closes some.
LEMMA OthersOnlyClose ==
  ASSUME TypeOK, OneInFlight, [Next]_vars, ~overlap.edge,
         NEW p \in InFlight, request'[p] = request[p]
  PROVE  \A c \in Rows :
           /\ binding'[c].slot = binding[c].slot /\ binding'[c].uid = binding[c].uid
           /\ binding'[c].estado = binding[c].estado \/ binding'[c].estado = "closed"
<1>1. ASSUME NEW q \in InFlight, request' = [request EXCEPT ![q] = NoRequest]
      PROVE  FALSE
  <2>1. p = q
    BY DEF OneInFlight
  <2>2. QED
    BY <1>1, <2>1 DEF InFlight, NoRequest, TypeOK
<1>2. ASSUME NEW q \in Requests, NEW s \in Slots, NEW u \in Uids, NEW e \in Events,
             SubmitCandidate(q, s, u, e)
      PROVE  FALSE
  BY <1>1, <1>2 DEF SubmitCandidate, InFlight
<1>3. ASSUME NEW q \in Requests, NEW b \in Rows, NEW e \in Events, ConfirmCandidate(q, b, e)
      PROVE  FALSE
  BY <1>1, <1>3 DEF ConfirmCandidate, InFlight
<1>4. ASSUME NEW q \in Requests, Provision(q)
      PROVE  \A c \in Rows :
               /\ binding'[c].slot = binding[c].slot /\ binding'[c].uid = binding[c].uid
               /\ binding'[c].estado = binding[c].estado \/ binding'[c].estado = "closed"
  BY <1>4, ProvisionCloses
<1>5. QED
  BY <1>2, <1>3, <1>4, OtherStepsKeepRows

\* The snapshot of such an agent's request keeps covering what is live.
LEMMA LiveRowsSeenPreserved ==
  ASSUME TypeOK, OneInFlight, LiveRowsSeen, [Next]_vars
  PROVE  LiveRowsSeen'
<1>1. UNCHANGED overlap
  BY DEF Next, vars, Revoke, Activate, Poll, BeginMachine, BeginAdmin, Begin, EndRequest,
         SubmitCandidate, ConfirmCandidate, Publish, Provision
<1>2. SUFFICES ASSUME ~overlap.edge, NEW p \in InFlight', NEW b \in Alive(binding)'
               PROVE  /\ b \in Alive(request'[p].rows)
                      /\ request'[p].rows[b].slot = binding'[b].slot
                      /\ request'[p].rows[b].uid = binding'[b].uid
                      /\ binding'[b].estado = "pending" => request'[p].rows[b].estado = "pending"
  BY <1>1 DEF LiveRowsSeen
<1>3. CASE p \in InFlight /\ request'[p] = request[p]
  BY <1>2, <1>3, OthersOnlyClose DEF LiveRowsSeen, Alive
<1>4. CASE request'[p].rows = binding /\ UNCHANGED binding
  BY <1>4 DEF Alive
<1>5. QED
  BY <1>3, <1>4, FlightSteps

\* The kinds of steps, by what they do to the counters: a change of bindings
\* writes the revision that follows the request's, or advances the version.
LEMMA CounterSteps ==
  ASSUME TypeOK, [Next]_vars
  PROVE  \/ UNCHANGED <<binding, known>> /\ gateway'.version = gateway.version
            /\ gateway'.revision = gateway.revision
         \/ UNCHANGED known /\ gateway'.version = gateway.version + 1
         \/ /\ UNCHANGED known
            /\ gateway'.version = gateway.version
            /\ \E p \in InFlight : /\ gateway'.revision = request[p].revision + 1
                                   /\ request' = [request EXCEPT ![p] = NoRequest]
         \/ Poll
<1> USE DEF TypeOK
<1>1. CASE Revoke \/ Activate
  BY <1>1 DEF Revoke, Activate
<1>2. ASSUME NEW p \in Requests, BeginMachine(p) \/ BeginAdmin(p) \/ EndRequest(p)
      PROVE  UNCHANGED <<binding, known, gateway>>
  BY <1>2 DEF BeginMachine, BeginAdmin, Begin, EndRequest
<1>3. ASSUME NEW p \in Requests, Publish(p) \/ Provision(p)
      PROVE  UNCHANGED known /\ gateway'.version = gateway.version + 1
  BY <1>3 DEF Publish, Provision, NextVersionFree
<1>4. ASSUME NEW p \in Requests, NEW s \in Slots, NEW u \in Uids, NEW e \in Events,
             SubmitCandidate(p, s, u, e)
      PROVE  /\ UNCHANGED known /\ gateway'.version = gateway.version
             /\ p \in InFlight /\ gateway'.revision = request[p].revision + 1
             /\ request' = [request EXCEPT ![p] = NoRequest]
  BY <1>4 DEF SubmitCandidate, NextRevision, InFlight
<1>5. ASSUME NEW p \in Requests, NEW b \in Rows, NEW e \in Events, ConfirmCandidate(p, b, e)
      PROVE  /\ UNCHANGED known /\ gateway'.version = gateway.version
             /\ p \in InFlight /\ gateway'.revision = request[p].revision + 1
             /\ request' = [request EXCEPT ![p] = NoRequest]
  BY <1>5 DEF ConfirmCandidate, NextRevision, InFlight
<1>6. CASE UNCHANGED vars
  BY <1>6 DEF vars
<1>7. QED
  BY <1>1, <1>2, <1>3, <1>4, <1>5, <1>6 DEF Next

\* The agent's numbers stay in the past, and equal numbers mean equal overlays.
LEMMA KnownPreserved ==
  ASSUME SequentialInv, [Next]_vars
  PROVE  KnownOfPast' /\ SequentialAgentSeesChanges'
<1>1. UNCHANGED overlap
  BY DEF Next, vars, Revoke, Activate, Poll, BeginMachine, BeginAdmin, Begin, EndRequest,
         SubmitCandidate, ConfirmCandidate, Publish, Provision
<1>2. SUFFICES ASSUME ~overlap.edge
               PROVE  /\ known'.version <= gateway'.version
                      /\ known'.version = gateway'.version => known'.revision <= gateway'.revision
                      /\ NotModified' => known'.overlay = Overlay'
  BY <1>1 DEF KnownOfPast, SequentialAgentSeesChanges, NoChangeHidden
<1>3. /\ known.version \in Nat /\ known.revision \in Nat
      /\ gateway.version \in Nat /\ gateway.revision \in Nat
      /\ \A p \in InFlight : request[p].version \in Nat /\ request[p].revision \in Nat
  BY BindingBounds DEF SequentialInv, TypeOK, InFlight
<1>4. known.version <= gateway.version
      /\ (known.version = gateway.version => known.revision <= gateway.revision)
      /\ (NotModified => known.overlay = Overlay)
  BY <1>2 DEF SequentialInv, KnownOfPast, SequentialAgentSeesChanges, NoChangeHidden
<1>5. CASE UNCHANGED <<binding, known>> /\ gateway'.version = gateway.version
           /\ gateway'.revision = gateway.revision
  <2>1. Overlay' = Overlay
    BY <1>5 DEF Overlay, Confirmed, Pending
  <2>2. QED
    BY <1>4, <1>5, <2>1 DEF NotModified
<1>6. CASE UNCHANGED known /\ gateway'.version = gateway.version + 1
  BY <1>3, <1>4, <1>6 DEF NotModified
<1>7. ASSUME UNCHANGED known, gateway'.version = gateway.version,
             NEW p \in InFlight, gateway'.revision = request[p].revision + 1
      PROVE  /\ known'.version <= gateway'.version
             /\ known'.version = gateway'.version => known'.revision < gateway'.revision
  <2>1. /\ known.version <= request[p].version
        /\ request[p].version <= gateway.version
        /\ known.version = request[p].version => known.revision <= request[p].revision
    BY <1>2 DEF SequentialInv, KnownBeforeRequest
  <2>2. QED
    BY <1>3, <1>7, <2>1
<1>8. CASE Poll
  <2>1. Overlay' = Overlay /\ gateway' = gateway
    BY <1>8 DEF Poll, Overlay, Confirmed, Pending
  <2>2. CASE NotModified
    BY <1>4, <1>8, <2>1, <2>2 DEF Poll, NotModified
  <2>3. CASE ~NotModified
    <3>1. known'.version = gateway.version /\ known'.revision = gateway.revision
          /\ known'.overlay = Overlay
      BY <1>8, <2>3 DEF Poll
    <3>2. QED
      BY <1>3, <2>1, <3>1
  <2>4. QED
    BY <2>2, <2>3
<1>9. ASSUME UNCHANGED known, gateway'.version = gateway.version,
             NEW p \in InFlight, gateway'.revision = request[p].revision + 1
      PROVE  /\ known'.version <= gateway'.version
             /\ known'.version = gateway'.version => known'.revision <= gateway'.revision
             /\ ~NotModified'
  <2>1. gateway'.revision \in Nat /\ known'.revision \in Nat
    BY <1>3, <1>9
  <2>2. QED
    BY <1>7, <1>9, <2>1 DEF NotModified
<1>10. TypeOK
  BY DEF SequentialInv
<1>11. QED
  BY <1>5, <1>6, <1>8, <1>9, <1>10, CounterSteps

\* The agent's numbers stay behind what its request saw.
LEMMA KnownBeforePreserved ==
  ASSUME SequentialInv, [Next]_vars
  PROVE  KnownBeforeRequest'
<1>1. UNCHANGED overlap
  BY DEF Next, vars, Revoke, Activate, Poll, BeginMachine, BeginAdmin, Begin, EndRequest,
         SubmitCandidate, ConfirmCandidate, Publish, Provision
<1>2. SUFFICES ASSUME ~overlap.edge, NEW p \in InFlight'
               PROVE  /\ known'.version <= request'[p].version
                      /\ request'[p].version <= gateway'.version
                      /\ known'.version = request'[p].version
                           => known'.revision <= request'[p].revision
  BY <1>1 DEF KnownBeforeRequest
<1>3. TypeOK
  BY DEF SequentialInv
<1>4. CASE /\ UNCHANGED <<binding, gateway, known>>
           /\ request'[p].revision = gateway.revision
           /\ request'[p].version = gateway.version
  <2>1. gateway.version <= gateway.version
    BY <1>3, BindingBounds DEF TypeOK
  <2>2. QED
    BY <1>2, <1>4, <2>1 DEF SequentialInv, KnownOfPast
<1>5. CASE p \in InFlight /\ request'[p] = request[p]
  <2>1. UNCHANGED known
    BY <1>2, <1>5, <1>3, CounterSteps DEF Poll
  <2>2. gateway'.version = gateway.version \/ gateway'.version = gateway.version + 1
    BY <1>2, <1>5, <1>3, CounterSteps DEF Poll
  <2>3. gateway.version \in Nat /\ request[p].version \in Nat
    BY <1>3, <1>5, BindingBounds DEF TypeOK, InFlight
  <2>4. /\ known.version <= request[p].version
        /\ request[p].version <= gateway.version
        /\ known.version = request[p].version => known.revision <= request[p].revision
    BY <1>2, <1>5 DEF SequentialInv, KnownBeforeRequest
  <2>5. request[p].version <= gateway'.version
    BY <2>2, <2>3, <2>4
  <2>6. QED
    BY <1>5, <2>1, <2>4, <2>5
<1>6. QED
  BY <1>2, <1>3, <1>4, <1>5, FlightSteps

\* A sequential agent never has two candidates in a slot or of a device.
LEMMA CandidatesPreserved ==
  ASSUME SequentialInv, [Next]_vars
  PROVE  SequentialCandidatesDistinct'
<1>1. UNCHANGED overlap
  BY DEF Next, vars, Revoke, Activate, Poll, BeginMachine, BeginAdmin, Begin, EndRequest,
         SubmitCandidate, ConfirmCandidate, Publish, Provision
<1>2. TypeOK
  BY DEF SequentialInv
<1>3. SUFFICES ASSUME ~overlap.edge, NEW b \in Alive(binding)', NEW c \in Alive(binding)',
                      \/ binding'[b].uid = binding'[c].uid
                      \/ /\ binding'[b].estado = "pending"
                         /\ binding'[c].estado = "pending"
                         /\ binding'[b].slot = binding'[c].slot
               PROVE  b = c
  BY <1>1 DEF SequentialCandidatesDistinct
<1>4. b \in Rows /\ c \in Rows
  BY DEF Alive
<1>5. \A i, j \in Alive(binding) :
        \/ binding[i].uid = binding[j].uid
        \/ /\ binding[i].estado = "pending"
           /\ binding[j].estado = "pending"
           /\ binding[i].slot = binding[j].slot
        => i = j
  BY <1>3 DEF SequentialInv, SequentialCandidatesDistinct
<1>6. ASSUME NEW p \in Requests, NEW s \in Slots, NEW u \in Uids, NEW e \in Events,
             SubmitCandidate(p, s, u, e)
      PROVE  b = c
  <2>1. p \in InFlight /\ Proposable(p, s, u)
    BY <1>6 DEF SubmitCandidate, InFlight
  <2>2. \A i \in Alive(binding) : /\ binding[i].uid # u
                                  /\ ~ (binding[i].estado = "pending" /\ binding[i].slot = s)
    BY <1>3, <2>1 DEF SequentialInv, LiveRowsSeen, Proposable, Pending, Alive
  <2>3. PICK r \in Rows :
          /\ binding'[r].estado = "pending" /\ binding'[r].slot = s /\ binding'[r].uid = u
          /\ \A i \in Rows \ {r} : binding'[i] = binding[i]
    BY <1>2, <1>6, SubmitInserts
  <2>4. \A i \in Alive(binding)' : i = r \/ i \in Alive(binding)
    BY <2>3 DEF Alive
  <2>5. QED
    BY <1>3, <1>4, <1>5, <2>2, <2>3, <2>4
<1>7. ASSUME NEW p \in Requests, NEW i \in Rows, NEW e \in Events, ConfirmCandidate(p, i, e)
      PROVE  b = c
  BY <1>2, <1>3, <1>4, <1>5, <1>7, ConfirmMoves DEF Alive
<1>8. ASSUME NEW p \in Requests, Provision(p)
      PROVE  b = c
  BY <1>2, <1>3, <1>4, <1>5, <1>8, ProvisionCloses DEF Alive
<1>9. CASE UNCHANGED binding
  BY <1>3, <1>5, <1>9 DEF Alive
<1>10. QED
  BY <1>6, <1>7, <1>8, <1>9, OtherStepsKeepRows

\* SequentialInv holds of every reachable state.
THEOREM SequentialInductive == Spec => []SequentialInv
<1>1. Init => SequentialInv
  <2> SUFFICES ASSUME Init PROVE SequentialInv
    OBVIOUS
  <2>1. TypeOK /\ VersionsNeverReused
    BY InitTyped DEF Init, VersionsNeverReused
  <2>2. InFlight = {} /\ Alive(binding) = {}
    BY DEF Init, InFlight, NoRequest, Alive, NoRow
  <2>3. KnownOfPast /\ SequentialAgentSeesChanges
    BY DEF Init, KnownOfPast, SequentialAgentSeesChanges, NoChangeHidden, NotModified
  <2>4. QED
    BY <2>1, <2>2, <2>3
    DEF SequentialInv, OneInFlight, LiveRowsSeen, KnownBeforeRequest, SequentialCandidatesDistinct
<1>2. SequentialInv /\ [Next]_vars => SequentialInv'
  BY NextTyped, OneInFlightPreserved, LiveRowsSeenPreserved, KnownPreserved,
     KnownBeforePreserved, CandidatesPreserved
  DEF SequentialInv
<1>3. QED
  BY <1>1, <1>2, PTL DEF Spec

\* SequentialAgentSeesChanges: for an agent that waits for its answers, a poll
\* answered 304 hides no change, whatever administrators do.
THEOREM SequentialAgentsSeeChanges == Spec => []SequentialAgentSeesChanges
<1>1. SequentialInv => SequentialAgentSeesChanges
  BY DEF SequentialInv
<1>2. QED
  BY <1>1, SequentialInductive, PTL

\* SequentialCandidatesDistinct: no proposal of such an agent is stuck behind
\* another of its own.
THEOREM SequentialCandidatesAreDistinct == Spec => []SequentialCandidatesDistinct
<1>1. SequentialInv => SequentialCandidatesDistinct
  BY DEF SequentialInv
<1>2. QED
  BY <1>1, SequentialInductive, PTL

-----------------------------------------------------------------------------
(* The canonical states of a slot *)

\* What of a slot its state depends on: whether it has a candidate, and a device.
Awaited(s) == \E b \in Rows : binding[b].estado = "pending" /\ binding[b].slot = s
Held(s) == \E b \in Rows : binding[b].estado = "confirmed" /\ binding[b].slot = s

\* A slot has one candidate at most and one device at most, so that the rows
\* that the overlay picks are all there are.
SlotStatesPlain ==
  ~overlap.edge =>
    \A s \in Slots :
      SlotState(s) = IF Awaited(s) THEN IF Held(s) THEN "pending_reassignment" ELSE "pending_initial"
                                   ELSE IF Held(s) THEN "confirmed" ELSE "unbound"

\* For an agent that waits for its answers, the overlay leaves out no live row.
LEMMA SlotStatesArePlain ==
  ASSUME SequentialCandidatesDistinct, CurrentBindingsUnique
  PROVE  SlotStatesPlain
<1> SUFFICES ASSUME ~overlap.edge, NEW s \in Slots
             PROVE  SlotState(s) = IF Awaited(s)
                                   THEN IF Held(s) THEN "pending_reassignment" ELSE "pending_initial"
                                   ELSE IF Held(s) THEN "confirmed" ELSE "unbound"
  BY DEF SlotStatesPlain
<1>1. \A b, c \in Pending(binding, s) : b = c
  BY DEF SequentialCandidatesDistinct, Pending, Alive
<1>2. \A b, c \in Confirmed(binding, s) : b = c
  BY DEF CurrentBindingsUnique, Confirmed
<1>3. \A b \in Rows : b <= b
  BY BindingBounds DEF Rows
<1>4. Overlay[s].pending = Pending(binding, s)
  BY <1>1, <1>3 DEF Overlay, Pending
<1>5. Overlay[s].current = Confirmed(binding, s)
  BY <1>2, <1>3 DEF Overlay, Confirmed
<1>6. Pending(binding, s) # {} <=> Awaited(s)
  BY DEF Pending, Awaited
<1>7. Confirmed(binding, s) # {} <=> Held(s)
  BY DEF Confirmed, Held
<1>8. QED
  BY <1>4, <1>5, <1>6, <1>7 DEF SlotState

\* What a step does to a slot: nothing, or one of three things.
SlotMoves(s) ==
  \/ Awaited(s)' = Awaited(s) /\ Held(s)' = Held(s)
  \/ ~Awaited(s) /\ Awaited(s)' /\ Held(s)' = Held(s)
  \/ Awaited(s) /\ ~Awaited(s)' /\ Held(s)'
  \/ Awaited(s) /\ ~Awaited(s)' /\ Held(s)' = Held(s)

\* A proposal gives its slot a candidate, a confirmation makes the slot's only
\* candidate its device, and a re-provision that nothing overlaps takes every
\* candidate away.
LEMMA SlotsMove ==
  ASSUME SequentialInv, [Next]_vars, ~overlap.edge, ~overlap.admin, NEW s \in Slots
  PROVE  SlotMoves(s)
<1>1. TypeOK
  BY DEF SequentialInv
<1>2. ASSUME NEW p \in Requests, NEW t \in Slots, NEW u \in Uids, NEW e \in Events,
             SubmitCandidate(p, t, u, e)
      PROVE  SlotMoves(s)
  <2>1. PICK r \in Rows :
          /\ binding[r].estado = "none"
          /\ binding'[r].estado = "pending" /\ binding'[r].slot = t
          /\ \A c \in Rows \ {r} : binding'[c] = binding[c]
    BY <1>1, <1>2, SubmitInserts
  <2>2. p \in InFlight /\ Proposable(p, t, u)
    BY <1>2 DEF SubmitCandidate, InFlight
  <2>3. ~Awaited(t)
    BY <2>2 DEF SequentialInv, LiveRowsSeen, Proposable, Pending, Alive, Awaited
  <2>4. Held(s)' <=> Held(s)
    BY <2>1 DEF Held
  <2>5. CASE s = t
    <3>1. Awaited(s)'
      BY <2>1, <2>5 DEF Awaited
    <3>2. QED
      BY <2>3, <2>4, <2>5, <3>1 DEF SlotMoves, Held
  <2>6. CASE s # t
    <3>1. Awaited(s)' <=> Awaited(s)
      BY <2>1, <2>6 DEF Awaited
    <3>2. QED
      BY <2>4, <3>1 DEF SlotMoves, Held, Awaited
  <2>7. QED
    BY <2>5, <2>6
<1>3. ASSUME NEW p \in Requests, NEW i \in Rows, NEW e \in Events, ConfirmCandidate(p, i, e)
      PROVE  SlotMoves(s)
  <2>1. /\ binding[i].estado = "pending" /\ binding'[i].estado = "confirmed"
        /\ \A c \in Rows : binding'[c].slot = binding[c].slot
        /\ \A c \in Rows \ {i} :
             binding'[c].estado = IF c \in Confirmed(binding, binding[i].slot)
                                  THEN "closed" ELSE binding[c].estado
    BY <1>1, <1>3, ConfirmMoves
  <2>2. CASE s = binding[i].slot
    <3>1. \A c \in Rows : binding[c].estado = "pending" /\ binding[c].slot = s => c = i
      BY <2>1, <2>2 DEF SequentialInv, SequentialCandidatesDistinct, Alive
    <3>2. Awaited(s)
      BY <2>1, <2>2 DEF Awaited
    <3>3. Held(s)'
      BY <2>1, <2>2 DEF Held
    <3>4. ~Awaited(s)'
      BY <2>1, <3>1 DEF Awaited, Confirmed
    <3>5. QED
      BY <3>2, <3>3, <3>4 DEF SlotMoves
  <2>3. CASE s # binding[i].slot
    <3>1. Awaited(s)' <=> Awaited(s)
      BY <2>1, <2>3 DEF Awaited, Confirmed
    <3>2. Held(s)' <=> Held(s)
      BY <2>1, <2>3 DEF Held, Confirmed
    <3>3. QED
      BY <3>1, <3>2 DEF SlotMoves, Held, Awaited
  <2>4. QED
    BY <2>2, <2>3
<1>4. ASSUME NEW p \in Requests, Provision(p)
      PROVE  SlotMoves(s)
  <2>1. request[p].rows = binding
    BY <1>4 DEF Provision
  <2>2. \A c \in Rows :
          /\ binding'[c].slot = binding[c].slot
          /\ binding'[c].estado = IF binding[c].estado = "pending" THEN "closed" ELSE binding[c].estado
    BY <1>1, <1>4, <2>1, ProvisionCloses DEF StaleRows
  <2>3. ~Awaited(s)'
    BY <2>2 DEF Awaited
  <2>4. Held(s)' <=> Held(s)
    BY <2>2 DEF Held
  <2>5. QED
    BY <2>3, <2>4 DEF SlotMoves, Held, Awaited
<1>5. CASE UNCHANGED binding
  BY <1>5 DEF SlotMoves, Awaited, Held
<1>6. QED
  BY <1>2, <1>3, <1>4, <1>5, OtherStepsKeepRows

\* SlotsFollowCanonicalStates: what a sequential agent and administrators who
\* wait for each other do moves each slot along the documented states only
\* (submit_candidate, confirm_candidate, _reprovision_revoked_gateway).
THEOREM SlotsMoveCanonically == Spec => SlotsFollowCanonicalStates
<1>1. RowsInv /\ SequentialInv => SlotStatesPlain
  BY SlotStatesArePlain DEF RowsInv, SequentialInv
<1>2. SequentialInv /\ SlotStatesPlain /\ SlotStatesPlain' /\ [Next]_vars
        => [~overlap.edge /\ ~overlap.admin =>
              \A s \in Slots : SlotState(s) # SlotState(s)'
                                 => <<SlotState(s), SlotState(s)'>> \in CanonicalMoves]_vars
  <2> SUFFICES ASSUME SequentialInv, SlotStatesPlain, SlotStatesPlain', [Next]_vars,
                      ~overlap.edge, ~overlap.admin, NEW s \in Slots,
                      SlotState(s) # SlotState(s)'
               PROVE  <<SlotState(s), SlotState(s)'>> \in CanonicalMoves
    OBVIOUS
  <2>1. UNCHANGED overlap
    BY DEF Next, vars, Revoke, Activate, Poll, BeginMachine, BeginAdmin, Begin, EndRequest,
           SubmitCandidate, ConfirmCandidate, Publish, Provision
  <2> DEFINE Plain(a, h) == IF a THEN IF h THEN "pending_reassignment" ELSE "pending_initial"
                                 ELSE IF h THEN "confirmed" ELSE "unbound"
  <2>2. SlotState(s) = Plain(Awaited(s), Held(s))
    BY DEF SlotStatesPlain
  <2>3. SlotState(s)' = Plain(Awaited(s)', Held(s)')
    BY <2>1 DEF SlotStatesPlain
  <2>4. SlotMoves(s)
    BY SlotsMove
  <2>5. Awaited(s) \in BOOLEAN /\ Held(s) \in BOOLEAN /\ Awaited(s)' \in BOOLEAN /\ Held(s)' \in BOOLEAN
    BY DEF Awaited, Held
  <2>6. QED
    BY <2>2, <2>3, <2>4, <2>5 DEF SlotMoves, CanonicalMoves
<1>3. QED
  BY <1>1, <1>2, RowsInductive, SequentialInductive, PTL DEF Spec, SlotsFollowCanonicalStates

-----------------------------------------------------------------------------
(* The promise of BoundDevices *)

\* A row is filled in by the request that inserts it, and confirmed by an event.
RowsFilled ==
  \A b \in Rows :
    /\ binding[b].estado = "none" =>
         binding[b].propuesta = NoOne /\ binding[b].confirmacion = NoOne
    /\ binding[b].estado # "none" =>
         binding[b].slot \in Slots /\ binding[b].uid \in Uids /\ binding[b].propuesta \in Events
    /\ binding[b].estado = "pending" => binding[b].confirmacion = NoOne
    /\ binding[b].estado = "confirmed" => binding[b].confirmacion \in Events

\* The invariant that the refinement rests on.
PromiseInv == RowsInv /\ RowsFilled

\* Every step leaves rows filled in: a re-provision closes no row that is not there.
LEMMA FilledPreserved ==
  ASSUME PromiseInv, [Next]_vars
  PROVE  RowsFilled'
<1>1. TypeOK /\ SnapshotsPast
  BY DEF PromiseInv, RowsInv
<1>2. ASSUME NEW p \in Requests, NEW s \in Slots, NEW u \in Uids, NEW e \in Events,
             SubmitCandidate(p, s, u, e)
      PROVE  RowsFilled'
  BY <1>1, <1>2, SubmitInserts DEF PromiseInv, RowsFilled
<1>3. ASSUME NEW p \in Requests, NEW b \in Rows, NEW e \in Events, ConfirmCandidate(p, b, e)
      PROVE  RowsFilled'
  BY <1>1, <1>3, ConfirmMoves DEF PromiseInv, RowsFilled, Confirmed
<1>4. ASSUME NEW p \in Requests, Provision(p)
      PROVE  RowsFilled'
  <2>1. \A c \in StaleRows(p) : binding[c].estado # "none"
    BY <1>1 DEF StaleRows, SnapshotsPast
  <2>2. QED
    BY <1>1, <1>4, <2>1, ProvisionCloses DEF PromiseInv, RowsFilled
<1>5. CASE UNCHANGED binding
  BY <1>5 DEF PromiseInv, RowsFilled
<1>6. QED
  BY <1>2, <1>3, <1>4, <1>5, OtherStepsKeepRows

\* PromiseInv holds of every reachable state.
LEMMA PromiseInductive == Spec => []PromiseInv
<1>1. Init => RowsFilled
  BY DEF Init, RowsFilled, NoRow
<1>2. RowsInv /\ RowsFilled /\ [Next]_vars => RowsFilled'
  BY FilledPreserved DEF PromiseInv
<1>3. QED
  BY <1>1, <1>2, RowsInductive, PTL DEF Spec, PromiseInv

\* A slot whose confirmed rows and their devices do not change keeps its device.
LEMMA SameDevice ==
  ASSUME NEW rows, NEW after, NEW s,
         Confirmed(after, s) = Confirmed(rows, s),
         \A b \in Confirmed(rows, s) : after[b].uid = rows[b].uid
  PROVE  DeviceOf(after, s) = DeviceOf(rows, s)
<1>1. CASE Confirmed(rows, s) = {}
  BY <1>1 DEF DeviceOf
<1>2. CASE Confirmed(rows, s) # {}
  <2> DEFINE b == CHOOSE b \in Confirmed(rows, s) : TRUE
  <2>1. b \in Confirmed(rows, s)
    BY <1>2
  <2>2. QED
    BY <1>2, <2>1 DEF DeviceOf
<1>3. QED
  BY <1>1, <1>2

\* The device of a slot with one confirmed row.
LEMMA DeviceOfRow ==
  ASSUME NEW rows, NEW s, NEW b, Confirmed(rows, s) = {b}
  PROVE  DeviceOf(rows, s) = rows[b].uid
BY DEF DeviceOf

\* An event whose rows, and what they stand for, do not change keeps its offer.
LEMMA SameOffer ==
  ASSUME NEW rows, NEW after, NEW e,
         ProposedBy(after, e) = ProposedBy(rows, e),
         \A b \in ProposedBy(rows, e) : OfferOf(after[b]) = OfferOf(rows[b])
  PROVE  OfferBy(after, e) = OfferBy(rows, e)
<1>1. CASE ProposedBy(rows, e) = {}
  BY <1>1 DEF OfferBy
<1>2. CASE ProposedBy(rows, e) # {}
  <2> DEFINE b == CHOOSE b \in ProposedBy(rows, e) : TRUE
  <2>1. b \in ProposedBy(rows, e)
    BY <1>2
  <2>2. QED
    BY <1>2, <2>1 DEF OfferBy
<1>3. QED
  BY <1>1, <1>2

\* The offer of an event that proposed one row.
LEMMA OfferOfRow ==
  ASSUME NEW rows, NEW e, NEW b, ProposedBy(rows, e) = {b}
  PROVE  OfferBy(rows, e) = OfferOf(rows[b])
BY DEF OfferBy

\* What proposed an inserted row proposed no other.
LEMMA ProposedOnce ==
  ASSUME PromiseInv, NEW b \in Rows, binding[b].estado # "none"
  PROVE  /\ binding[b].propuesta \in Events
         /\ ProposedBy(binding, binding[b].propuesta) = {b}
<1>1. binding[b].propuesta \in Events /\ NoOne \notin Events
  BY BindingBounds DEF PromiseInv, RowsFilled
<1>2. \A c \in Rows : binding[c].propuesta = binding[b].propuesta => binding[c].estado # "none"
  BY <1>1 DEF PromiseInv, RowsFilled
<1>3. QED
  BY <1>1, <1>2 DEF PromiseInv, RowsInv, EventRecordedOnce, Inserted, ProposedBy

\* What the overlap of requests is, never changes.
LEMMA OverlapFixed == [Next]_vars => UNCHANGED overlap
BY DEF Next, vars, Revoke, Activate, Poll, BeginMachine, BeginAdmin, Begin, EndRequest,
       SubmitCandidate, ConfirmCandidate, Publish, Provision

\* A proposal is an offer, of an event that made none.
LEMMA SubmitOffers ==
  ASSUME PromiseInv, NEW p \in Requests, NEW s \in Slots, NEW u \in Uids, NEW e \in Events,
         SubmitCandidate(p, s, u, e)
  PROVE  e \in Promise!Blank /\ Promise!Offer(e, s, u)
<1>1. TypeOK /\ NoOne \notin Events
  BY BindingBounds DEF PromiseInv, RowsInv
<1>2. PICK b \in Rows :
        /\ binding[b].estado = "none"
        /\ binding'[b].estado = "pending" /\ binding'[b].slot = s /\ binding'[b].uid = u
        /\ binding'[b].propuesta = e /\ binding'[b].confirmacion = NoOne
        /\ \A c \in Rows \ {b} : binding'[c] = binding[c]
  BY <1>1, SubmitInserts
<1>3. binding[b].propuesta = NoOne /\ binding[b].confirmacion = NoOne
  BY <1>2 DEF PromiseInv, RowsFilled
<1>4. lifeBar = "open" /\ UNCHANGED <<keepsBar, lifeBar>>
  BY <1>1 DEF SubmitCandidate, lifeBar, keepsBar, TypeOK
<1>5. UNCHANGED boundBar
  <2>1. \A t \in Slots : DeviceOf(binding', t) = DeviceOf(binding, t)
    <3> TAKE t \in Slots
    <3>1. Confirmed(binding', t) = Confirmed(binding, t)
      BY <1>2 DEF Confirmed
    <3>2. \A c \in Confirmed(binding, t) : binding'[c].uid = binding[c].uid
      BY <1>2 DEF Confirmed
    <3>3. QED
      BY <3>1, <3>2, SameDevice
  <2>2. QED
    BY <2>1 DEF boundBar
<1>6. UNCHANGED usedBar
  BY <1>1, <1>2, <1>3 DEF usedBar
<1>7. ProposedBy(binding, e) = {}
  BY DEF SubmitCandidate, UnusedProposal, ProposedBy
<1>8. OfferBy(binding, e) = [status |-> "blank", slot |-> NoOne, device |-> NoOne]
  BY <1>7 DEF OfferBy
<1>9. OfferBy(binding', e) = [status |-> "offered", slot |-> s, device |-> u]
  <2>1. ProposedBy(binding', e) = {b}
    BY <1>2, <1>7 DEF ProposedBy
  <2>2. QED
    BY <1>2, <2>1, OfferOfRow DEF OfferOf
<1>10. \A x \in Events \ {e} : OfferBy(binding', x) = OfferBy(binding, x)
  <2> TAKE x \in Events \ {e}
  <2>1. ProposedBy(binding', x) = ProposedBy(binding, x)
    BY <1>1, <1>2, <1>3 DEF ProposedBy
  <2>2. \A c \in ProposedBy(binding, x) : binding'[c] = binding[c]
    BY <1>1, <1>2, <1>3 DEF ProposedBy
  <2>3. QED
    BY <2>1, <2>2, SameOffer
<1>11. /\ offerBar[e].status = "blank"
       /\ offerBar' = [offerBar EXCEPT ![e] = [status |-> "offered", slot |-> s, device |-> u]]
  <2> DEFINE made == [status |-> "offered", slot |-> s, device |-> u]
  <2>1. offerBar[e].status = "blank"
    BY <1>8 DEF offerBar
  <2>2. OfferBy(binding', e) = made
    BY <1>9
  <2> HIDE DEF made
  <2>3. offerBar' = [offerBar EXCEPT ![e] = made]
    BY <1>10, <2>2 DEF offerBar
  <2>4. QED
    BY <2>1, <2>3 DEF made
<1>12. QED
  BY <1>4, <1>5, <1>6, <1>11 DEF Promise!Offer, Promise!Blank

\* A confirmation takes the offer of its candidate.
LEMMA ConfirmTakes ==
  ASSUME PromiseInv, NEW p \in Requests, NEW b \in Rows, NEW e \in Events,
         ConfirmCandidate(p, b, e)
  PROVE  binding[b].propuesta \in Promise!Offered /\ Promise!Take(binding[b].propuesta, e)
<1> DEFINE row == binding[b]
           x == row.propuesta
<1>1. TypeOK /\ NoOne \notin Slots \cup Uids \cup Events
  BY BindingBounds DEF PromiseInv, RowsInv
<1>2. /\ row.estado = "pending"
      /\ binding'[b].estado = "confirmed" /\ binding'[b].confirmacion = e
      /\ \A c \in Rows :
           /\ binding'[c].slot = binding[c].slot /\ binding'[c].uid = binding[c].uid
           /\ binding'[c].propuesta = binding[c].propuesta
      /\ \A c \in Rows \ {b} :
           /\ binding'[c].confirmacion = binding[c].confirmacion
           /\ binding'[c].estado = IF c \in Confirmed(binding, row.slot)
                                   THEN "closed" ELSE binding[c].estado
  BY <1>1, ConfirmMoves
<1>3. row.slot \in Slots /\ row.uid \in Uids /\ x \in Events /\ row.confirmacion = NoOne
  BY <1>2 DEF PromiseInv, RowsFilled
<1>4. lifeBar = "open" /\ UNCHANGED <<keepsBar, lifeBar>>
  BY <1>1 DEF ConfirmCandidate, lifeBar, keepsBar, TypeOK
<1>5. ProposedBy(binding, x) = {b} /\ ProposedBy(binding', x) = {b}
  BY <1>2, ProposedOnce DEF ProposedBy
<1>6. offerBar[x] = [status |-> "offered", slot |-> row.slot, device |-> row.uid]
  BY <1>2, <1>3, <1>5, OfferOfRow DEF offerBar, OfferOf
<1>7. e \notin usedBar /\ usedBar' = usedBar \cup {e}
  <2>1. \A c \in Rows : binding[c].confirmacion # e
    BY DEF ConfirmCandidate, UnusedConfirmation
  <2>2. \A c \in Rows : binding'[c].confirmacion
                         = IF c = b THEN e ELSE binding[c].confirmacion
    BY <1>2
  <2>3. QED
    BY <1>1, <1>3, <2>1, <2>2 DEF usedBar
<1>8. ASSUME NEW t \in Slots \ {row.slot} PROVE boundBar[t] # row.uid
  <2>1. CASE Confirmed(binding, t) = {}
    BY <1>1, <1>3, <2>1 DEF boundBar, DeviceOf
  <2>2. CASE Confirmed(binding, t) # {}
    <3> DEFINE c == CHOOSE c \in Confirmed(binding, t) : TRUE
    <3>1. c \in Confirmed(binding, t) /\ boundBar[t] = binding[c].uid
      BY <2>2 DEF boundBar, DeviceOf
    <3>2. binding[c].uid # row.uid
      BY <3>1 DEF Confirmed, ConfirmCandidate, Confirmable
    <3>3. QED
      BY <3>1, <3>2
  <2>3. QED
    BY <2>1, <2>2
<1>9. DeviceOf(binding', row.slot) = row.uid
  <2>1. Confirmed(binding', row.slot) = {b}
    BY <1>2 DEF Confirmed
  <2>2. QED
    BY <1>2, <2>1, DeviceOfRow
<1>10. ASSUME NEW t \in Slots \ {row.slot}
       PROVE  DeviceOf(binding', t) = DeviceOf(binding, t)
  <2>1. Confirmed(binding', t) = Confirmed(binding, t)
    BY <1>2 DEF Confirmed
  <2>2. \A c \in Confirmed(binding, t) : binding'[c].uid = binding[c].uid
    BY <1>2 DEF Confirmed
  <2>3. QED
    BY <2>1, <2>2, SameDevice
<1>11. boundBar' = [boundBar EXCEPT ![row.slot] = row.uid]
  BY <1>9, <1>10 DEF boundBar
<1>12. OfferBy(binding', x) = [offerBar[x] EXCEPT !.status = "taken"]
  BY <1>1, <1>2, <1>5, <1>6, OfferOfRow DEF OfferOf
<1>13. ASSUME NEW y \in Events \ {x} PROVE OfferBy(binding', y) = OfferBy(binding, y)
  <2>1. ProposedBy(binding', y) = ProposedBy(binding, y)
    BY <1>2 DEF ProposedBy
  <2>2. ASSUME NEW c \in ProposedBy(binding, y) PROVE OfferOf(binding'[c]) = OfferOf(binding[c])
    <3>1. c \in Rows \ {b}
      BY <2>2 DEF ProposedBy
    <3>2. c \in Confirmed(binding, row.slot) =>
            binding[c].estado = "confirmed" /\ binding[c].confirmacion # NoOne
      BY <1>1, <3>1 DEF Confirmed, PromiseInv, RowsFilled
    <3>3. QED
      BY <1>2, <3>1, <3>2 DEF OfferOf
  <2>3. QED
    BY <2>1, <2>2, SameOffer
<1>14. offerBar' = [offerBar EXCEPT ![x].status = "taken"]
  BY <1>12, <1>13 DEF offerBar
<1>15. QED
  BY <1>3, <1>4, <1>6, <1>7, <1>8, <1>11, <1>14 DEF Promise!Take, Promise!Offered

\* A re-provision begins a new life: the candidates that it saw are void, and a slot loses
\* its device only if that was confirmed since.
LEMMA ProvisionBegins ==
  ASSUME PromiseInv, NEW p \in Requests, Provision(p)
  PROVE  /\ lifeBar = "closed" /\ lifeBar' = "waiting"
         /\ \E V \in SUBSET Promise!Offered, S \in SUBSET Slots : Promise!Begin(V, S)
<1> DEFINE stale == StaleRows(p)
           V == {e \in Events : \E b \in stale : binding[b].estado = "pending"
                                                  /\ binding[b].propuesta = e}
           S == {s \in Slots : \E b \in stale : b \in Confirmed(binding, s)}
<1>1. TypeOK /\ NoOne \notin Slots \cup Uids \cup Events
  BY BindingBounds DEF PromiseInv, RowsInv
<1>2. stale \subseteq Rows /\ \A b \in stale : binding[b].estado # "none"
  BY DEF StaleRows, PromiseInv, RowsInv, SnapshotsPast
<1>3. \A c \in Rows :
        /\ binding'[c].slot = binding[c].slot /\ binding'[c].uid = binding[c].uid
        /\ binding'[c].propuesta = binding[c].propuesta
        /\ binding'[c].confirmacion = binding[c].confirmacion
        /\ binding'[c].estado = IF c \in stale THEN "closed" ELSE binding[c].estado
  BY <1>1, ProvisionCloses
<1>4. lifeBar = "closed" /\ lifeBar' = "waiting" /\ UNCHANGED keepsBar
  BY <1>1 DEF Provision, lifeBar, keepsBar, TypeOK
<1>5. UNCHANGED usedBar
  BY <1>3 DEF usedBar
<1>6. keepsBar => S = {}
  <2>1. ASSUME keepsBar, NEW b \in stale PROVE binding[b].estado = "pending"
    BY <2>1 DEF keepsBar, Provision, StaleRows
  <2>2. QED
    BY <2>1 DEF Confirmed
<1>7. ASSUME NEW s \in Slots
      PROVE  DeviceOf(binding', s) = IF s \in S THEN NoOne ELSE DeviceOf(binding, s)
  <2>1. CASE s \in S
    <3>1. PICK b \in stale : b \in Confirmed(binding, s)
      BY <2>1
    <3>2. \A c \in Confirmed(binding, s) : c = b
      BY <3>1 DEF Confirmed, PromiseInv, RowsInv, CurrentBindingsUnique
    <3>3. Confirmed(binding', s) = {}
      BY <1>3, <3>1, <3>2 DEF Confirmed
    <3>4. QED
      BY <2>1, <3>3 DEF DeviceOf
  <2>2. CASE s \notin S
    <3>1. Confirmed(binding', s) = Confirmed(binding, s)
      BY <1>3, <2>2 DEF Confirmed
    <3>2. \A c \in Confirmed(binding, s) : binding'[c].uid = binding[c].uid
      BY <1>3 DEF Confirmed
    <3>3. QED
      BY <2>2, <3>1, <3>2, SameDevice
  <2>3. QED
    BY <2>1, <2>2
<1>8. boundBar' = [s \in Slots |-> IF s \in S THEN NoOne ELSE boundBar[s]]
  <2> HIDE DEF S
  <2>1. QED
    BY <1>7 DEF boundBar
<1>9. ASSUME NEW e \in V
      PROVE  /\ offerBar[e].status = "offered"
             /\ OfferBy(binding', e) = [offerBar[e] EXCEPT !.status = "void"]
  <2>1. PICK b \in stale : binding[b].estado = "pending" /\ binding[b].propuesta = e
    BY <1>9
  <2>2. b \in Rows /\ binding[b].confirmacion = NoOne
    BY <1>2, <2>1 DEF PromiseInv, RowsFilled
  <2>3. ProposedBy(binding, e) = {b} /\ ProposedBy(binding', e) = {b}
    BY <1>3, <2>1, <2>2, ProposedOnce DEF ProposedBy
  <2>4. offerBar[e] = OfferOf(binding[b]) /\ OfferBy(binding', e) = OfferOf(binding'[b])
    BY <2>3, OfferOfRow DEF offerBar
  <2>5. QED
    BY <1>3, <2>1, <2>2, <2>4 DEF OfferOf
<1>10. ASSUME NEW e \in Events \ V PROVE OfferBy(binding', e) = OfferBy(binding, e)
  <2>1. ProposedBy(binding', e) = ProposedBy(binding, e)
    BY <1>3 DEF ProposedBy
  <2>2. ASSUME NEW c \in ProposedBy(binding, e) PROVE OfferOf(binding'[c]) = OfferOf(binding[c])
    <3>1. c \in Rows /\ (c \in stale => binding[c].estado # "pending")
      BY <1>10, <2>2 DEF ProposedBy
    <3>2. QED
      BY <1>3, <3>1 DEF OfferOf
  <2>3. QED
    BY <2>1, <2>2, SameOffer
<1>11. offerBar' = [e \in Events |-> IF e \in V THEN [offerBar[e] EXCEPT !.status = "void"]
                                     ELSE offerBar[e]]
  <2>1. V \subseteq Events
    OBVIOUS
  <2> HIDE DEF V
  <2>2. QED
    BY <1>9, <1>10, <2>1 DEF offerBar
<1>12. V \in SUBSET Promise!Offered /\ S \in SUBSET Slots
  BY <1>9 DEF Promise!Offered
<1>13. Promise!Begin(V, S)
  <2> HIDE DEF V, S
  <2>1. QED
    BY <1>4, <1>5, <1>6, <1>8, <1>11 DEF Promise!Begin
<1>14. QED
  BY <1>4, <1>12, <1>13

\* Every step does what the promise allows, or nothing that it speaks of.
LEMMA StepKeepsPromise ==
  ASSUME PromiseInv, [Next]_vars
  PROVE  [Promise!Next]_(Promise!deviceVars)
<1>1. TypeOK /\ UNCHANGED overlap
  BY OverlapFixed DEF PromiseInv, RowsInv
<1>2. ASSUME NEW p \in Requests, NEW s \in Slots, NEW u \in Uids, NEW e \in Events,
             SubmitCandidate(p, s, u, e)
      PROVE  Promise!Next
  BY <1>2, SubmitOffers DEF Promise!Next
<1>3. ASSUME NEW p \in Requests, NEW b \in Rows, NEW e \in Events, ConfirmCandidate(p, b, e)
      PROVE  Promise!Next
  <2>1. binding[b].propuesta \in Events
    BY <1>3, ProposedOnce DEF ConfirmCandidate, StillPending
  <2>2. QED
    BY <1>3, <2>1, ConfirmTakes DEF Promise!Next
<1>4. ASSUME NEW p \in Requests, Provision(p)
      PROVE  Promise!Next
  BY <1>4, ProvisionBegins DEF Promise!Next
<1>5. CASE UNCHANGED binding
  <2>1. UNCHANGED <<keepsBar, boundBar, offerBar, usedBar>>
    BY <1>1, <1>5 DEF keepsBar, boundBar, offerBar, usedBar
  <2>2. CASE Revoke
    BY <1>1, <2>1, <2>2 DEF Revoke, lifeBar, TypeOK, Promise!Next, Promise!Close
  <2>3. CASE Activate
    BY <1>1, <2>1, <2>3 DEF Activate, lifeBar, TypeOK, Promise!Next, Promise!Open
  <2>4. CASE UNCHANGED lifeBar
    BY <2>1, <2>4 DEF Promise!deviceVars
  <2>5. gateway'.estado = gateway.estado => UNCHANGED lifeBar
    BY DEF lifeBar
  <2>6. QED
    BY <1>1, <1>2, <1>3, <1>4, <2>2, <2>3, <2>4, <2>5
    DEF Next, vars, Poll, BeginMachine, BeginAdmin, Begin, EndRequest, Publish, TypeOK
<1>6. QED
  BY <1>2, <1>3, <1>4, <1>5, OtherStepsKeepRows

\* ImplementsBoundDevices: whatever overlaps, nothing but a proposal and a confirmation,
\* each once, binds a device, and no device is bound twice (services/binding.py).
THEOREM BindingsKeepTheirPromise == Spec => ImplementsBoundDevices
<1>1. Init => Promise!Init
  <2> SUFFICES ASSUME Init PROVE Promise!Init
    OBVIOUS
  <2>1. NoOne \notin Events /\ \A b \in Rows : binding[b] = NoRow
    BY BindingBounds DEF Init
  <2>2. \A s \in Slots : DeviceOf(binding, s) = NoOne
    BY <2>1 DEF DeviceOf, Confirmed, NoRow
  <2>3. \A e \in Events :
          OfferBy(binding, e) = [status |-> "blank", slot |-> NoOne, device |-> NoOne]
    BY <2>1 DEF OfferBy, ProposedBy, NoRow
  <2>4. usedBar = {}
    BY <2>1 DEF usedBar, NoRow
  <2>5. keepsBar \in BOOLEAN /\ lifeBar = "open"
    BY DEF Init, keepsBar, lifeBar
  <2>6. QED
    BY <2>2, <2>3, <2>4, <2>5 DEF Promise!Init, boundBar, offerBar
<1>2. PromiseInv /\ [Next]_vars => [Promise!Next]_(Promise!deviceVars)
  BY StepKeepsPromise
<1>3. QED
  BY <1>1, <1>2, PromiseInductive, PTL DEF Spec, ImplementsBoundDevices, Promise!Spec

=============================================================================
