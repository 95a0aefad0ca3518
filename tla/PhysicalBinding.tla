--------------------------- MODULE PhysicalBinding ---------------------------
(***************************************************************************)
(* The devices bound to one gateway's slots (services/binding.py), the     *)
(* configuration versions of its property (services/gateway_config.py,     *)
(* services/gateway.py), and the edge agent's conditional poll of both.    *)
(*                                                                         *)
(* Every request that writes here first reads (its credential, or its      *)
(* administrator), which fixes the snapshot its later plain SELECTs see    *)
(* (REPEATABLE READ), and then locks the gateway row.  A request is        *)
(* therefore two actions: its first read, and all it does under the lock   *)
(* up to its one commit.  What it reads under the lock is the snapshot     *)
(* except for rows it locks too; unique constraints see every commit.      *)
(***************************************************************************)
EXTENDS Naturals

CONSTANTS
  Slots,          \* ranuras_logicas of the gateway; each is one logical node
  Uids,           \* devices
  Events,         \* X-Event-ID values of the edge agent
  Requests,       \* requests that may run at once
  NoOne,          \* a NULL column
  MaxRows,        \* bound: rows of vinculos_fisicos
  MaxVersion      \* bound: configurations published

ASSUME BindingBounds ==
  /\ MaxRows \in Nat
  /\ MaxVersion \in Nat \ {0}
  /\ NoOne \notin Slots \cup Uids \cup Events

VARIABLES
  overlap,   \* fixed: whether the edge agent sends a request while another runs, and
             \* whether other requests may commit while an administrator's runs
  gateway,   \* pasarelas: estado, config_version_activa, bindings_revision
  configs,   \* how many rows configuraciones_pasarela has
  binding,   \* vinculos_fisicos, by id
  request,   \* per request: its kind and what its first read saw
  known      \* the edge agent's cached version, revision and overlay

vars == <<overlap, gateway, configs, binding, request, known>>

Rows == 1..MaxRows

BindingRow == [estado : {"none", "pending", "confirmed", "closed"},
               slot : Slots \cup {NoOne}, uid : Uids \cup {NoOne},
               propuesta : Events \cup {NoOne}, confirmacion : Events \cup {NoOne}]

NoRow == [estado |-> "none", slot |-> NoOne, uid |-> NoOne,
          propuesta |-> NoOne, confirmacion |-> NoOne]

NoRequest == [kind |-> "none", rows |-> [b \in Rows |-> NoRow], revision |-> 0, version |-> 0]

-----------------------------------------------------------------------------
(* Helpers *)

Inserted == {b \in Rows : binding[b].estado # "none"}
Pending(rows, s) == {b \in Rows : rows[b].estado = "pending" /\ rows[b].slot = s}
Confirmed(rows, s) == {b \in Rows : rows[b].estado = "confirmed" /\ rows[b].slot = s}
Alive(rows) == {b \in Rows : rows[b].estado \in {"pending", "confirmed"}}

\* Requests of the gateway that have begun and not ended.
InFlight == {p \in Requests : request[p].kind = "machine"}

\* _overlay: the first confirmed row of each slot and its last pending one (or none).
Overlay == [s \in Slots |->
  [current |-> {b \in Confirmed(binding, s) : \A c \in Confirmed(binding, s) : b <= c},
   pending |-> {b \in Pending(binding, s) : \A c \in Pending(binding, s) : c <= b}]]

\* The slot-visible state that _overlay computes.
SlotState(s) ==
  IF Overlay[s].pending # {}
  THEN IF Overlay[s].current # {} THEN "pending_reassignment" ELSE "pending_initial"
  ELSE IF Overlay[s].current # {} THEN "confirmed" ELSE "unbound"

\* The edge agent's next poll is answered 304.
NotModified == known.version = gateway.version /\ known.revision = gateway.revision

TypeOK ==
  /\ overlap \in [edge : BOOLEAN, admin : BOOLEAN]
  /\ gateway \in [estado : {"pending_activation", "active", "revoked"},
                  version : 1..MaxVersion, revision : Nat]
  /\ configs \in 1..MaxVersion
  /\ binding \in [Rows -> BindingRow]
  /\ request \in [Requests -> [kind : {"none", "machine", "admin"}, rows : [Rows -> BindingRow],
                               revision : Nat, version : 0..MaxVersion]]
  /\ known \in [version : 0..MaxVersion, revision : Nat,
                overlay : [Slots -> [current : SUBSET Rows, pending : SUBSET Rows]]]

\* An activated gateway whose configuration was published and is not yet polled.
Init ==
  /\ overlap \in [edge : BOOLEAN, admin : BOOLEAN]
  /\ gateway = [estado |-> "active", version |-> 1, revision |-> 0]
  /\ configs = 1
  /\ binding = [b \in Rows |-> NoRow]
  /\ request = [p \in Requests |-> NoRequest]
  /\ known = [version |-> 0, revision |-> 0,
              overlay |-> [s \in Slots |-> [current |-> {}, pending |-> {}]]]

-----------------------------------------------------------------------------
(* Requests *)

Begin(p, kind) ==
  /\ request[p].kind = "none"
  /\ request' = [request EXCEPT ![p] = [kind |-> kind, rows |-> binding,
                                         revision |-> gateway.revision,
                                         version |-> gateway.version]]
  /\ UNCHANGED <<overlap, gateway, configs, binding, known>>

\* validate_gateway_credential: the first read of every machine request.
BeginMachine(p) ==
  /\ gateway.estado = "active"
  /\ overlap.edge \/ InFlight = {}
  /\ Begin(p, "machine")

\* require_admin: the first read of an administrator's request.
BeginAdmin(p) == Begin(p, "admin")

\* A request ends and has changed nothing: refused, out of time, or stopped.
EndRequest(p) ==
  /\ request[p].kind # "none"
  /\ request' = [request EXCEPT ![p] = NoRequest]
  /\ UNCHANGED <<overlap, gateway, configs, binding, known>>

\* Mutant: a replay is only looked for, and no constraint backs the search.
UnusedProposalSeen(p, e) == \A b \in Rows : request[p].rows[b].propuesta # e

\* uq_binding_gateway_proposal_event (a replay that the snapshot shows is
\* answered with the row it made, and one it does not show is refused).
UnusedProposal(p, e) == \A b \in Rows : binding[b].propuesta # e

UnusedConfirmation(e) == \A b \in Rows : binding[b].confirmacion # e

\* Mutant: only confirmed rows make a device taken.
FreeUnlessConfirmed(p, s, u) ==
  \A b \in Rows : request[p].rows[b].estado = "confirmed" => request[p].rows[b].uid # u

\* submit_candidate's checks, on the rows of its snapshot: the device is not
\* in use, and the slot has no candidate.
Proposable(p, s, u) ==
  /\ \A b \in Alive(request[p].rows) : request[p].rows[b].uid # u
  /\ Pending(request[p].rows, s) = {}

\* Mutant: the revision is left as it was.
RevisionKept(p) == request[p].revision

\* bindings_revision += 1, on the gateway as validate_gateway_credential loaded
\* it: locking the row again does not refresh the object.
NextRevision(p) == request[p].revision + 1

SubmitCandidate(p, s, u, e) ==
  /\ request[p].kind = "machine" /\ gateway.estado = "active"
  /\ Proposable(p, s, u) /\ UnusedProposal(p, e)
  /\ \E b \in Rows :
       /\ Inserted = 1..(b - 1)
       /\ binding' = [binding EXCEPT ![b] = [NoRow EXCEPT !.estado = "pending", !.slot = s,
                                                          !.uid = u, !.propuesta = e]]
  /\ gateway' = [gateway EXCEPT !.revision = NextRevision(p)]
  /\ request' = [request EXCEPT ![p] = NoRequest]
  /\ UNCHANGED <<overlap, configs, known>>

\* Mutant: no constraint on the device of confirmed rows.
ConfirmableAnyUid(b) == \A c \in Confirmed(binding, binding[b].slot) : c < b

\* uq_binding_current_node and uq_binding_current_uid, tested row by row in the
\* order of the flush, which is by id: the row replaced must be closed first.
Confirmable(b) ==
  /\ \A c \in Confirmed(binding, binding[b].slot) : c < b
  /\ \A c \in Rows : binding[c].estado = "confirmed" /\ binding[c].uid = binding[b].uid
                       => binding[c].slot = binding[b].slot

\* The rows once candidate b is confirmed by event e.
RowsConfirmed(b, e) ==
  [c \in Rows |->
     IF c = b THEN [binding[b] EXCEPT !.estado = "confirmed", !.confirmacion = e]
     ELSE IF c \in Confirmed(binding, binding[b].slot) THEN [binding[c] EXCEPT !.estado = "closed"]
     ELSE binding[c]]

\* Mutant: the candidate's state is read from the snapshot.
SeenPending(p, b) == request[p].rows[b].estado = "pending"

\* confirm_candidate locks and re-reads the candidate and the rows it replaces.
StillPending(p, b) == binding[b].estado = "pending"

ConfirmCandidate(p, b, e) ==
  /\ request[p].kind = "machine" /\ gateway.estado = "active"
  /\ StillPending(p, b) /\ Confirmable(b) /\ UnusedConfirmation(e)
  /\ binding' = RowsConfirmed(b, e)
  /\ gateway' = [gateway EXCEPT !.revision = NextRevision(p)]
  /\ request' = [request EXCEPT ![p] = NoRequest]
  /\ UNCHANGED <<overlap, configs, known>>

\* Mutant: no constraint keeps two configurations from one version.
NextVersionUnchecked(p) == request[p].version < MaxVersion

\* stage_configuration: the version after the snapshot's last one, unless the
\* unique constraint finds it taken.
NextVersionFree(p) == request[p].version = gateway.version /\ gateway.version < MaxVersion

\* publish_configuration.
Publish(p) ==
  /\ request[p].kind = "admin"
  /\ NextVersionFree(p)
  /\ gateway' = [gateway EXCEPT !.version = request[p].version + 1]
  /\ configs' = configs + 1
  /\ request' = [request EXCEPT ![p] = NoRequest]
  /\ UNCHANGED <<overlap, binding, known>>

\* Mutant: whatever is bound is closed.
LiveRows(p) == Alive(request[p].rows)

\* The candidates that _reprovision_revoked_gateway closes: its SELECT takes no
\* lock, so they are those of the snapshot.
StaleRows(p) == {b \in Rows : request[p].rows[b].estado = "pending"}

\* provision_gateway on a revoked row.
Provision(p) ==
  LET stale == StaleRows(p) IN
  /\ request[p].kind = "admin" /\ gateway.estado = "revoked"
  /\ overlap.admin \/ request[p].rows = binding
  /\ NextVersionFree(p)
  /\ binding' = [b \in Rows |-> IF b \in stale THEN [binding[b] EXCEPT !.estado = "closed"]
                                               ELSE binding[b]]
  /\ gateway' = [estado |-> "pending_activation", version |-> request[p].version + 1,
                 revision |-> gateway.revision + IF stale = {} THEN 0 ELSE 1]
  /\ configs' = configs + 1
  /\ request' = [request EXCEPT ![p] = NoRequest]
  /\ UNCHANGED <<overlap, known>>

-----------------------------------------------------------------------------
(* Single-step operations *)

Revoke ==
  /\ gateway.estado \in {"pending_activation", "active"}
  /\ gateway' = [gateway EXCEPT !.estado = "revoked"]
  /\ UNCHANGED <<overlap, configs, binding, request, known>>

Activate ==
  /\ gateway.estado = "pending_activation"
  /\ gateway' = [gateway EXCEPT !.estado = "active"]
  /\ UNCHANGED <<overlap, configs, binding, request, known>>

\* GET /gateways/me/configuration reads one snapshot; the agent keeps what it
\* has on a 304 and replaces it on a 200.
Poll ==
  /\ gateway.estado = "active"
  /\ overlap.edge \/ InFlight = {}
  /\ known' = IF NotModified THEN known
              ELSE [version |-> gateway.version, revision |-> gateway.revision,
                    overlay |-> Overlay]
  /\ UNCHANGED <<overlap, gateway, configs, binding, request>>

Next ==
  \/ Revoke
  \/ Activate
  \/ Poll
  \/ \E p \in Requests :
       \/ BeginMachine(p)
       \/ BeginAdmin(p)
       \/ EndRequest(p)
       \/ \E s \in Slots, u \in Uids, e \in Events : SubmitCandidate(p, s, u, e)
       \/ \E b \in Rows, e \in Events : ConfirmCandidate(p, b, e)
       \/ Publish(p)
       \/ Provision(p)

Spec == Init /\ [][Next]_vars

-----------------------------------------------------------------------------
(* Safety, however requests overlap *)

\* A slot has one confirmed device and a device is confirmed for one slot, even
\* when overlapping proposals slipped past the checks on their snapshots.
CurrentBindingsUnique ==
  \A b, c \in Rows :
    /\ binding[b].estado = "confirmed"
    /\ binding[c].estado = "confirmed"
    /\ \/ binding[b].slot = binding[c].slot
       \/ binding[b].uid = binding[c].uid
    => b = c

\* A retry, even one that overlaps the request it repeats, neither proposes
\* nor confirms a second time.
EventRecordedOnce ==
  \A b, c \in Inserted :
    \/ binding[b].propuesta = binding[c].propuesta
    \/ /\ binding[b].confirmacion = binding[c].confirmacion
       /\ binding[b].confirmacion # NoOne
    => b = c

\* Each published configuration has a version of its own and none is skipped,
\* although the next version is computed from a snapshot.
VersionsNeverReused == gateway.version = configs

\* What ended stays history: a confirmation that was on its way when its
\* candidate was closed, by a re-provision or by a replacement, does not revive it.
ClosedRowsStay ==
  [][\A b \in Rows : binding[b].estado = "closed" => binding'[b].estado = "closed"]_vars

-----------------------------------------------------------------------------
(* What holds when requests do not overlap in these ways *)

\* A poll that would be answered 304 hides no change of bindings.
NoChangeHidden == NotModified => known.overlay = Overlay

\* ... for an edge agent that waits for each answer, whatever administrators
\* do meanwhile: the version tells apart what the revision alone would not.
SequentialAgentSeesChanges == ~overlap.edge => NoChangeHidden

\* For such an agent a slot has one candidate at most, and no device has two
\* live rows: no proposal is ever stuck behind another.
SequentialCandidatesDistinct ==
  ~overlap.edge =>
    \A b, c \in Alive(binding) :
      \/ binding[b].uid = binding[c].uid
      \/ /\ binding[b].estado = "pending"
         /\ binding[c].estado = "pending"
         /\ binding[b].slot = binding[c].slot
      => b = c

\* The canonical slot states and the moves between them: a candidate turns
\* unbound into pending_initial and confirmed into pending_reassignment; it is
\* confirmed, or closed by a re-provision; a confirmed device is never lost.
CanonicalMoves == {<<"unbound", "pending_initial">>, <<"pending_initial", "confirmed">>,
                   <<"confirmed", "pending_reassignment">>,
                   <<"pending_reassignment", "confirmed">>, <<"pending_initial", "unbound">>}

SlotsFollowCanonicalStates ==
  [][~overlap.edge /\ ~overlap.admin =>
       \A s \in Slots : SlotState(s) # SlotState(s)'
                          => <<SlotState(s), SlotState(s)'>> \in CanonicalMoves]_vars

-----------------------------------------------------------------------------
(* The promise that the rows keep: BoundDevices *)

keepsBar == ~overlap.admin

lifeBar == CASE gateway.estado = "active" -> "open"
             [] gateway.estado = "pending_activation" -> "waiting"
             [] gateway.estado = "revoked" -> "closed"

\* The device of a slot: that of its confirmed row.
DeviceOf(rows, s) ==
  LET on == Confirmed(rows, s)
  IN IF on = {} THEN NoOne ELSE rows[CHOOSE b \in on : TRUE].uid

boundBar == [s \in Slots |-> DeviceOf(binding, s)]

\* An offer is a row: a closed one was taken if an event confirmed it.
OfferOf(row) ==
  [status |-> IF row.estado = "pending" THEN "offered"
              ELSE IF row.confirmacion # NoOne THEN "taken" ELSE "void",
   slot |-> row.slot, device |-> row.uid]

ProposedBy(rows, e) == {b \in Rows : rows[b].propuesta = e}

OfferBy(rows, e) ==
  LET by == ProposedBy(rows, e)
  IN IF by = {} THEN [status |-> "blank", slot |-> NoOne, device |-> NoOne]
     ELSE OfferOf(rows[CHOOSE b \in by : TRUE])

offerBar == [e \in Events |-> OfferBy(binding, e)]

usedBar == {binding[b].confirmacion : b \in Rows} \ {NoOne}

Promise == INSTANCE BoundDevices WITH Devices <- Uids, keeps <- keepsBar, life <- lifeBar,
                                      bound <- boundBar, offer <- offerBar, used <- usedBar

\* However requests overlap on their snapshots, the rows do what BoundDevices promises: a
\* device is bound by a candidate that one event proposed and one confirmed, each once and
\* while the gateway was active; only a new life of a revoked gateway releases one,
\* and not even that if no confirmation overlapped the administrator's request.
ImplementsBoundDevices == Promise!Spec

=============================================================================
