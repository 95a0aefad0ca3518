# Formal models of Sensores IoT

The repository is an irrigation telemetry platform. Edge gateways in the field
collect readings of soil, irrigation and weather sensors and send them to a
FastAPI backend (`src/backend/app`) over a MySQL database; a React frontend
(`src/frontend`) and three scheduler processes (`src/backend/app/jobs`) are
clients of the same API. The modules here model two halves: the parts of the
backend in which several requests act on the same rows, and the parts of the
frontend in which several requests, effects and timers act on the same screen.

## 1. Inventory

Requests run in a thread pool of one or more server processes, each with a
database session of its own (`db/session.py`, `autoflush=False`). Under MySQL's
REPEATABLE READ a plain SELECT sees the snapshot taken by the request's first
read; `SELECT ... FOR UPDATE` and `UPDATE ... WHERE` see the latest commit, but
an object SQLAlchemy already holds is not refreshed by a locking read. Most of
what is hard in the backend comes from these three facts.

The frontend is one thread, but each handler that awaits a request goes on with
the values of the render in which it began, requests are answered in any order or
not at all, and effects run after the commit that caused them. A page seldom
cancels what it asked for. Most of what is hard there comes from that.

| Component | State | Operations | Hard because |
|---|---|---|---|
| Credential lifecycle (`services/gateway_lifecycle.py`) | `pasarelas.estado`, `credencial_hash`; `referencias_activacion` | issue a reference, activate, rotate, revoke; provisioning and re-provisioning of the row | a row has several lives; references, sessions, rotations and revocations race for it |
| Device pairing (`services/gateway_pairing.py`, its routes) | `sesiones_emparejamiento`; attempt windows in memory | start, poll, lookup, approve, deny | lazy expiry, two handlers that commit twice or act on a count, lost answers |
| Physical bindings (`services/binding.py`) | `vinculos_fisicos`, `pasarelas.bindings_revision` | propose a device for a slot, confirm it | checks on a snapshot older than the lock; a revision counter read before it |
| Provisioning and configuration (`services/gateway.py`, `gateway_config.py`) | slots, nodes, configuration versions | provision, publish, conditional poll | version computed from a snapshot; one commit over many tables |
| Heartbeat and status (`gateway_heartbeat.py`) | `ultimo_heartbeat_en` | heartbeat, status | none of note |
| Gateway updates (`gateway_update.py`) | authorizations, confirmations | authorize, confirm | consumption is read, then written, without a lock |
| Telemetry and threshold alerts (`reading.py`) | readings, alerts | ingest with event identity | duplicate, late and reordered deliveries |
| Inactivity alerts, notification dispatch (`services/alerts`, `jobs`) | alerts and their marks | scan, dispatch | overlapping scans, crash before the commit, batches that never drain |
| AI reports (`ai_report.py`, its scheduler) | report rows by range and state; the day done, in the scheduler | generate | a crash between two commits blocks the range; two processes read the day from two clocks |
| Weather cache (`weather.py`) | one entry per place, in memory | get | an `await` between the read and the write of the entry |
| Gateway templates | templates and versions | create, copy, activate, retire | locks and copies in several orders |
| Password recovery, crop cycles | tokens; cycles | request, reset; open, close | check-then-act |
| Authentication, catalogue CRUD, AI chat | rows, or none | one request each | no state shared between steps |
| Web session (`services/api.ts`, `AuthContext`, `services/modules.ts`, `ProtectedRoute`, the public forms) | tokens in localStorage, the context's user, the route, the modules cache, requests in flight | sign in and out, renew, retry, route | a late answer to a renewal or a form, several 401s at once, a new user in the same tab |
| Area selection (`SelectionContext`, `AreaLayout`) | lists, selected property and area, what localStorage remembers, the address | load, select, visit | two effects of one commit select, from the values of the former |
| Catalogue pages (seven pages of `pages/admin`) | list, flags, dialog, calls in flight | load, create, update, delete | double submission, shared flags, an answer lost after its effect |
| Equipment wizard (`GatewayManagement`, `RevokeLinkButton`) | rows and status of links, the page's step, requests | create, publish, approve, issue a reference, revoke, refresh every few seconds | an optimistic status, refreshes that overtake each other |
| Pairing panel (`PairingApprovalPanel`) | the card of a session, ticks, one lookup and one answer in flight | look up, choose, confirm, approve, deny | a lookup replaces the card under the user's hands |
| Keyed read pages (twenty pages and hooks) | data, flags and error for a key; questions in flight | ask, poll, refresh, change the key, mark or store | the answer for the former key arrives last |

How they interact: provisioning creates the gateway row that lifecycle and
pairing then move; a credential they issue authenticates every machine request
(`core/deps.py:109`); bindings and configuration give a gateway its slots, and
ingestion accepts readings for the slots of the active configuration; ingestion
and scans create alerts that dispatch delivers; the schedulers call scan,
dispatch and report generation over HTTP and may overlap a manual call. The
frontend's pages meet the backend only as requests and answers; the session's
interceptor stands between every page and the network, the selection gives the
client's pages their key, and the wizard contains the pairing panel.

What makes each component correct:

- lifecycle and pairing: one credential per grant, a credential exactly while
  active, no grant of a former life, no replacement without consent, and
  every polled session ends;
- bindings: one confirmed device per slot, no two pending candidates, and a
  conditional poll never hides a change of bindings;
- configuration: versions increase by one and the active one exists;
- ingestion: one reading per event, what is acknowledged is stored, no reading
  out of range is silent, no alert twice in its window;
- alert jobs: one inactivity alert per outage, every deliverable alert
  eventually delivered, duplicates only after a crash;
- reports: one report of a day for an area, written or failed, whatever stops; no day done
  without its reports, unless a call crosses midnight;
- session: the user on the screen is the owner of the token, requests settle;
- selection: an area's page shows its area, the browser remembers what is selected;
- catalogue: one submission at a time, no page locked, none stale without a word (or, on two
  pages, without a line in the console);
- wizard: it catches up with the server; panel: what is approved is what the user
  confirmed; read pages: in the end the data of the key, or a notice.

## 2. Modules

| Module | Models | Role |
|---|---|---|
| `CredentialGrants` | the promise of lifecycle and pairing together | abstract specification: grants are offered, spent, void |
| `GatewayLifecycle` | `gateway_lifecycle.py` and the row of `gateway.py`'s provisioning | component |
| `GatewayPairing` | `gateway_pairing.py`, its routes' capacity check | composes pairing with the lifecycle (EXTENDS); properties and the refinement mapping |
| `PairingHistory` | the same, with two history variables | for what the documents say of polls |
| `MCGatewayPairing` | instance for TLC | symmetry |
| `PhysicalBinding` | `binding.py`, `gateway_config.py`, re-provisioning in `gateway.py`, with snapshot and lock as separate steps | component |
| `BoundDevices` | the promise of the bindings of a gateway | abstract specification: offers are made, taken, void; slots have devices |
| `MCPhysicalBinding` | instance for TLC | symmetry |
| `TelemetryIngest` | `reading.py` (ingestion), `threshold.py` | component |
| `MCTelemetryIngest` | instance for TLC | symmetry |
| `InactivityScan` | `alerts/inactivity.py`, its endpoint and scheduler | component |
| `NotificationDispatch` | `alerts/dispatch.py` and its endpoint | component |
| `ReportJobs` | the runs of `ai_report.py`, endpoint and scheduler | component |
| `WebSession` | `services/api.ts`, `AuthContext.tsx`, `modules.ts`, routes and public forms | component |
| `AreaSelection` | `SelectionContext.tsx`, `AreaLayout.tsx` | component |
| `CatalogPages` | nodes, clients, properties, areas, crop types, crop cycles, thresholds | one component with a table of handlers per page |
| `EquipmentWizard` | `GatewayManagement.tsx`, `RevokeLinkButton.tsx` | component |
| `PairingPanel` | `PairingApprovalPanel.tsx` | component |
| `PageQueries` | the pages and hooks that read for a key | one component with a table of moments per page |
| `MCPages` | pairing service at its limits, panel, selection, catalogue | instance for TLC |
| `MCPlatform` | session, wizard, read pages, and the three jobs | instance for TLC |
| `GatewayPairingProofs`, `GatewayPairingRefinement`, `PhysicalBindingProofs`, `TelemetryIngestProofs` | theorems about the module of that name | TLAPS |
| `CatalogPagesProofs`, `PagesProofs` | theorems about the catalogue; about the panel and the selection, and of `MCPages` as a whole | TLAPS |
| `JobsProofs`, `PlatformProofs` | theorems about the three jobs; about the session, the wizard and the read pages, and of `MCPlatform` as a whole | TLAPS |

### Correspondence

`gateway[g]` is the `pasarelas` row of a property: `estado`, and
`credencial_hash` as the number of the credential (0 for NULL). `reference[r]`
and `session[s]` are rows of `referencias_activacion` and
`sesiones_emparejamiento`, indexed by id; a row not inserted yet is `unissued`
or `none`. `minted` numbers the credentials issued and `issuedBy` remembers
what for: these two are history, no code reads them.

Every handler of the lifecycle is one action, because each first locks the
gateway row and commits once. `approve_session`, `deny_session` and `redeem`
lock the session and then the gateway and re-read both under the lock, so each
is one action too. Three things are not atomic and are modelled apart:

- the clock: a handler reads `now` when it starts and may then wait, so an action
  takes any `t` of `RequestTimes`, at most `Latency` behind `clock`;
- a wrong code is counted in one commit (`BumpWrongCode`) and the limit is
  enforced in the next (`CheckWrongCodes`); between them any other request may
  run, and a process may stop (`LoseCheck`);
- a start counts the live sessions (`AdmitStart`) and inserts its row in a later
  statement (`CreateSession`), or fails (`StartFails`).

The unique index on the user codes of live sessions, pending or approved, is part of `TypeOK`
(`LiveCodesDistinct`): `start_session` draws another code when the first is in use, and a lookup
or an approval finds its session by the code.

An answer that changes nothing (404, 409, 401) is not an action: the guard of
the action that would have changed something is false. Polls are the exception:
`PollAnswer` names the answer, because properties are about it.

In `PhysicalBinding` one gateway has a fixed set of slots. `binding` holds the
rows of `vinculos_fisicos` by id (`none` for an id not given yet), `gateway` the
row's state, version and revision, `configs` counts the published
configurations, `known` is what the edge agent caches from its last 200. A
request is two actions. `BeginMachine` and `BeginAdmin` are its first read: the
credential's, or the administrator's. It fixes the snapshot that later plain
SELECTs see, and for a machine request it loads the `Gateway` object whose
`bindings_revision` is incremented later. The second action is everything under
the gateway's lock up to the commit: `SubmitCandidate`, `ConfirmCandidate`,
`Publish`, `Provision`. What it tests on the snapshot (`Proposable`,
`StaleRows`, the last version) reads `request[p]`; what it locks
(`StillPending`, the rows that a confirmation replaces) and what the unique
constraints test (`UnusedProposal`, `Confirmable`, `NextVersionFree`) reads the
latest commit. `EndRequest` is every way to end without effect: a refusal, a
replay, a constraint, a crash. `Revoke` and `Activate` are the row's moves of
`GatewayLifecycle`. The constraints are tested row by row as the flush writes them,
in the order of the id, hence the `c < b` of `Confirmable`.

`overlap` is chosen once, in `Init`, and never changes: whether the edge agent
sends a request while another runs, and whether others may commit while an
administrator's runs. The properties that need neither hold for every value;
those that need one say so (`~overlap.edge`, `~overlap.admin`).

Under the mapping `boundBar`, `offerBar`, `usedBar` and `lifeBar` these rows implement
`BoundDevices`: a slot's device is that of its confirmed row, an event's offer is the row it proposed
(a closed one was taken if an event confirmed it, void if not), and the gateway is open,
closed or waiting as its `estado` is active, revoked or pending activation. The promise knows no
snapshot and no overlap but one: `keeps`, that a slot keeps its device when a new life begins, is
`~overlap.admin`, because a re-provision may close a row that was confirmed after its snapshot.

Left out of bindings: the body's hash (a reused event with another body is a
refusal), times (a confirmation older than its candidate is a refusal), the
creation and removal of slots, which a re-provision only removes when they have
no history.

`TelemetryIngest` is one logical node and one parameter. `lectura[e]` is the
timestamp of the reading stored for event `e`, which also stands for its body;
`alerta` are the rows of `alertas` of type threshold; `umbral[h]` is a threshold of
the area and parameter, or `NoOne` when the row is deleted, moved away or not
there. A request is again two steps: `ReceiveReading` or `BeginEdit` fixes its
snapshot, and `StoreReading`, `AnswerReplay` or the edit is the rest up to the one commit.
The search for duplicate alerts and the active thresholds read the snapshot, the event is
tested against the latest commit by the unique index. Whether a reading is out
of a threshold's range is chosen freely (`H` of `StoreReading`). A search that
finds two alerts raises an exception: `StoreReading` is not enabled, and
`EndRequest` ends the request, as it does for every other failure. `acked` and
`judged` are history. `Regime` says how requests are sent: "ordered" is a
gateway that waits for each answer and sends by timestamp, "late" one that waits but
catches up in any order (its queue after an outage), "any" is at-least-once
delivery with nothing assumed.

Left out of ingestion: the check that the node is in the gateway's active
configuration (a refusal), the mark of suspicious timestamps (nothing else
reads it here), other parameters (their alerts do not meet), and a node that
changes area.

`InactivityScan`: `inaLast` is each node's last reading, `inaAlerts` the alerts of
type inactivity, `inaScan` the scans in flight with their snapshot. A reading may
arrive late. A scan is `BeginScan` (its snapshot) and `scan_inactivity_alerts` (its
searches on that snapshot and its one commit) or `ScanLost`. A search that finds
two alerts fails the whole scan (`ScanFails`). `inaOverlap` is history.

`NotificationDispatch`: a run takes the oldest `DisLimit` pending alerts and tries them one by
one; marks are committed once at the end. `sent` is what the run will mark: a
crash before `CommitMarks` loses it, and the messages go out again.

`ReportJobs`: a run looks for a report of each area, inserts a row as processing in
one commit and writes its content in a later one. `repRows` counts the live (not failed)
rows of a day and an area. The day is read twice. The scheduler notes `today_key` when it finds
that it should run (`ScheduledRun` sets `key`), signs in or renews its token, and calls; the server
takes the range from its own clock when the call arrives (`RunArrives` sets the run's `day`); the
answer marks the day that was noted (`RunAnswered` sets `last` to `key`). `RunGivenUp` is the
client's timeout or an error, while the run goes on in the server; `SchedulerRestarts` forgets
`last`. `repRaced`, `repCrossed` and `repStopped` are history: two runs looked at the same moment,
a call was under way at midnight, a call was lost or a run cut off.

`WebSession`: a user stands for their tokens. `from` is who made a request, `as` whose token
it carries. A 401 on a page of a role is `Unauthorized`, the answers to the renewal are
`Refreshed` and `RefreshFailed`; `clearSessionAndRedirect` loads the page anew, which drops
everything in flight. The public forms carry no user unless they sign one in.

`AreaSelection`: the effects of one commit are one operator, `SettleSelection`, which
applies the page's effect and then the context's, both on the values before, and then the
context's once more on the result, as React does.

`CatalogPages` and `PageQueries` give each page a record of operators: what begins, succeeds
and fails (`NodeCreate`, `AlertsCenterQuery`, ...), what is offered, what is shown. The
actions are common: `Submit`, `ServeSave`, `FinishSave`, `FinishLoad`; `ChangeKey`, `Poll`,
`Refresh`, `BeginWrite`, `AnsweredCall`. In `CatalogPages`, `told` is that the page shows or has
shown a failure since its list arrived, and `logged` that it only wrote one to the console, as
properties and areas do when they cannot load (`LogsItsLoads`). In `PageQueries` the data of a key are the key
itself, and `drops` says that the page ignores the answers to former questions (a
`cancelled` flag, a request number, a tag).

`EquipmentWizard`: `wizShown` is what the page has of `wizServer`. A refresh is two requests, row
and status, that the server serves in either order. `Commit` holds the effects of a render.

`PairingPanel`: `panUi` is the panel's state, `panCall` its requests. `panAsked` is history: which
session was on the screen when the user ticked, or pressed "Rechazar".

How users act is a constant of the behaviour, chosen at the start: "waits" begins nothing while
something is in flight, "any" does. What holds only for one who waits says so in its property.

Left out of lifecycle and pairing: formatting and hashing of codes, the device's description, the
attempt windows of the routes, and soft deletion of gateways
(`eliminado_en`), which no operation of the API sets.

## 3. Runs

| Run | Question | Bounds |
|---|---|---|
| `pairing` | which grant may change which credential; refinement of `CredentialGrants` | 2 gateways, 2 references, 2 sessions, 2 codes, 2 credentials, clock 0..1, requests one tick late |
| `pairing_limits` | wrong codes and capacity; beside them the panel, the selection and the catalogue | 1 gateway, 2 sessions, limit of 2 wrong codes with 3 tried, capacity 1 with 2 starts at once; 2 codes and 1 link; 2 properties, 2 areas; 1 row, 2 calls, 2 saves |
| `platform` | session, wizard and read pages against late, lost and reordered answers; jobs against overlaps and crashes | 2 users (one an administrator), 2 requests; 1 link, 2 requests, 1 move elsewhere; 2 keys, 2 questions; 1 node, 2 scans, time to 5; 3 alerts, 2 channels, batches of 2, 1 upset; 2 areas, 2 runs, 2 days, 1 upset |
| `pairing_time` | boundaries of time, and liveness | 1 gateway, 1 session, clock 0..2 with one tick of latency, crashes |
| `binding` | what holds of bindings and versions whatever overlaps, and what for a sequential agent; refinement of `BoundDevices` | 2 slots, 2 devices, 2 events, 2 requests at once, 2 rows, 3 versions |
| `binding_revision` | finding: a revision is given twice | 1 slot, 2 devices, 2 rows, 2 requests |
| `telemetry` | what holds of readings sent in order while thresholds change | 3 events, 2 thresholds, 2 severities, 2 requests, timestamps 0..2, window 1 |
| `overlapping_readings` | what holds whatever repeats or overlaps | 2 events, 2 thresholds, 1 severity, 2 requests, timestamps 0..2, window 1 |
| `late_readings` | finding: a late reading is refused for ever | 3 events, 1 threshold, 1 severity, 1 request |
| `early_polls` | finding: `slow_down` is unreachable | 1 of each |
| `superseded` | finding: a session survives the activation that overtook it | 1 of each, 2 credentials |
| `capacity` | finding: expired sessions fill the capacity | 1 of each |

Why the bounds are enough: the interesting conflicts are between two grants for
one gateway and between one grant and two gateways; two of each, and two
credentials (one activation and one replacement, or two activations), show
them, and the theorems below hold for any number. Two ticks of the clock past
a start give a request that starts before, at and after an expiry. `Latency`
is 1 so that a request may commit one tick after the time it read.

For bindings, two rows are a current device and its replacement, two candidates
of one slot, or one device proposed for two slots; two requests are the least
that overlap; three versions leave room for a publication before or after a
re-provision. A third row would show one more life of the same slot.

For telemetry, alerts at 0 and 2 with window 1 are the closest that are both
raised, and the third event may fall between or after them; two thresholds are
the least that can duplicate one another. The overlapping run keeps one
severity to stay small, the ordered one has two and edits that change them.

For the pages, two of each (codes, areas, calls, keys, users) are a former and a present
one, which is what a late answer confuses; a catalogue of one row still lets two
operations meet on it, and two saves are the least that overlap. For the jobs, three alerts
with batches of two leave one alert behind the batch, two scans and two runs are the
least that overlap; two areas let a retry find one written and the other missing, and two days let
a run of yesterday end today and a call cross midnight. One upset is one report that fails, one
call that is lost or one run that is cut off, at any point.

`MCPages` and `MCPlatform` each put several components side by side in one instance. They
share no variable; `focus`, chosen in the initial state, is the one that moves. So the
instance checks each of them alone, and not what they would do to each other: the pages
are composed with the server through the answers their modules leave open.

Named bounds: `CatMaxSaves`, `WizMaxMoves`, `QryMaxCalls`, `DisMaxUpsets`, `InaMaxTime`,
`RepMaxDay`, `RepMaxUpsets`, `MaxTime`, `MaxRows`, `MaxVersion`, `MaxClock`, `MaxCredentials`, `MaxStarts`, `MaxFailures` and
`LastStart` (no session starts so late that it could not expire before the
clock stops: it keeps liveness from being an artefact of the bound).

Deadlock is checked in every run but `pairing_limits` and `platform`: a finished behaviour
still polls, and a poll of an ended session is a step that changes nothing. In the two others
a component really stops: a panel that the server locked with nothing in flight, a page
whose saves are used up, the last day's reports once they are written.

### Fairness

`FairSpec` of `GatewayPairing` assumes that the clock advances, that a device
polls its session until it gets a final answer (the contract's retry rule:
"stops on `expired_token`, `access_denied` or `401`"), and that a handler that
runs gets to its second commit. Nothing is assumed of administrators.
`PolledSessionResolves` holds even when the second commit is lost.

`PhysicalBinding`, `TelemetryIngest`, `PairingPanel`, `AreaSelection` and `CatalogPages` have no
liveness property and assume no fairness. The others:

- `WebSession`: a request in flight is answered, renewed or fails (a client's timeout or the
  network does it at the latest);
- `EquipmentWizard`: requests are answered; the interval of the page fires again and again
  (strong, since it is disabled while both slots of the model are taken); and a refresh is not
  overtaken or refused for ever (strong);
- `PageQueries`: questions are answered, the former key's too; timers fire, and of the
  questions for the present key some are served, not all refused (both strong);
- `InactivityScan`: time passes, the scheduler begins its scans, and not all of them fail;
- `NotificationDispatch`: dispatches begin, try and commit; and an alert that is tried for
  ever by every channel left to it is delivered at some time (strong);
- `ReportJobs`: the scheduler calls when it should, its call arrives (or is lost, which is bounded)
  and a run in progress moves.

`MCPlatform` states this fairness as three weak and two strong formulas: each is a disjunction
of actions of different components, and since `focus` never changes only one of its
disjuncts can ever be enabled; the fairness of the disjunction is that of the disjunct. The
turns keep two requests of one component in different formulas.

### Findings

- `binding_revision`: the revision is incremented on the object loaded before the
  lock, so two overlapping proposals get one number; an agent that polls
  between their commits is then told 304 and does not learn of the second until
  something else changes. `SequentialAgentSeesChanges` shows that this needs an
  agent (or two: the old and the new device of a gateway) that overlaps its own
  requests.

- `late_readings`: the search for a duplicate alert has no upper bound in time
  and expects at most one row. A reading that arrives late behind two alerts of
  its severity ends in an exception; the gateway keeps the event and sends it
  again, with the same result. The contract says that events may arrive late or
  out of order (`contracts/edge-cloud/v1/README.md:47`).
  `OrderedReadingsAccepted` shows that only lateness or overlap leads there.

- `early_polls`: `redeem` answers a pending session before it looks at the
  interval and does not record the poll, so a device that polls too fast is
  never slowed down; the specification's scenario "Polling too fast" does not
  happen through the API.
- `superseded`: the specification says an approved session is denied at its next
  poll once a reference has activated the gateway. The code compares states,
  not lives: after activation, revocation and a new provisioning the session is
  redeemed. It is a divergence about a three-step sequence within the ten
  minutes of a session.
- `capacity`: sessions past their end count as live until somebody reads them;
  abandoned ones are never read.

The conditions of the pages' properties are where the code is weaker than one would hope.
No document of the repository promises more, so these are notes and not findings:

- Selection: when a property in the list has no areas, or an area's property is not in the
  list, the context's effect overwrites the area that an area's page chose, and the page
  stays blank (`AreaLayout.tsx:24-33`, `SelectionContext.tsx:190-201`).
- Denial: the dialog "Rechazar" names no code. If a lookup that was in flight replaces the
  card while it is open, it denies the new session (`PairingApprovalPanel.tsx:258`).
- Session: after a sign-out with a renewal in flight, its answer signs the former user in
  again, with no refresh token or the next user's (`api.ts:76`).
- Alert detail: marking an alert clears the error of a failed load of another
  (`AlertDetailPage.tsx:139-153`), and a recommendation that arrives late is shown
  under another alert.
- Node detail: the answer to saving node A, late, shows A at the address of B; the area
  shown of a former node stays if the next one has none.
- Audit logs and AI usage: nothing orders two answers; with a network that reorders, the
  rows of former filters stay. The properties speak of these two pages only while answers come in
  the order of their questions. AI reports ignore a change of page number while a question is in flight.
- Dashboard preferences: saving is enabled after a load that failed, and stores what the form has (nothing).
- Catalogue: pages of clients, properties and areas do not lock their buttons; the shared
  flag of nodes, crop types and cycles is reset by any load. Properties and areas tell nobody of
  a load that fails (`PropertyManagement.tsx:59-61`, `IrrigationAreaManagement.tsx:108-110`): after
  a save that succeeded, the former list stays under the notice of success.
- Dispatch: an alert with one channel that can never reach its client stays pending at the head
  of each batch; with as many of them as the limit nothing else is sent.
- Inactivity: two scans that overlap leave two alerts, and every later scan that meets them fails.
- Reports: a report cut off by a crash stays "processing" and counts as that day's; a failed
  one is not tried again by the scheduler on that day. A call that the scheduler makes before
  midnight and that arrives after it marks the day it noted as done with the reports of the next
  (`ai_report_scheduler.py:70-71` and `86`, `ai_report.py:50-53`): those of the day noted are
  never written. It needs a run that is late by hours or an hour of the schedule close to midnight.

The documents quoted for pairing are the archived change
`openspec/changes/archive/2026-10-08-gateway-device-pairing`.

## 4. Proofs

`GatewayPairingProofs` proves, for every value of the constants that satisfies
`GrantsDistinct`, `LifecycleBounds` and `PairingBounds` (grants of different
kinds are different, limits are positive):

- `TypeCorrect`, in which `StepCodes` is that live user codes stay distinct; then `Inductive`: `IInv` is inductive. The properties are not
  inductive alone. `GrantUsedOnce` needs that everything a credential was
  issued for is used up (`IssuedGrantsUsedUp`), or a step could spend a grant
  again; `CredentialMatchesGrant` needs that an approved session is bound to a
  gateway and a purpose (`ApprovedSessionBound`); `CredentialIffActive` is what
  makes a step that activates find an empty credential column.
- from `IInv`, the invariants `CredentialIffActive`,
  `OutstandingReferencePending`, `GrantUsedOnce`, `CredentialMatchesGrant` and
  the action properties `ActivationUsesOneGrant`, `RotationNeedsConsent`,
  `GrantsUsedInTime`;
- `TerminalSessionsStay`, `CapacityOvershootBounded` and
  `LockedOutSessionIsOver` from invariants of their own.

The argument runs through a few lemmas about steps: `GatewaySteps` says how a
gateway row can change at all, `IssuesUsesUp` that whatever issues a
credential uses up its grant, `OtherStepsKeepLifecycle` that the rest of
pairing touches no lifecycle row.

`GatewayPairingRefinement` proves `PairingImplementsGrants`: under the mapping
`phaseBar`, `holderBar`, `ticketBar` initial states map to initial states, and
each step maps to an Open, Offer, Spend, Void, Renew or Close, or to a stutter.

`PhysicalBindingProofs` proves, from `BindingBounds`:

- `RowsInductive`: `RowsInv` is inductive. Beside the typing it needs
  `SnapshotsPast` (what a request saw inserted is inserted), or a re-provision
  could close a row that does not exist. From it come `CurrentBindingsUnique`
  and `EventRecordedOnce`; `ClosedRowsStay` needs the typing alone. Typing goes
  together with `VersionsNeverReused`: the number of configurations is bounded
  because the version is.
- `SequentialInductive`: `SequentialInv` is inductive. `OneInFlight` is the
  agent's discipline; `LiveRowsSeen` says that its snapshot covers every row still
  live, since others only close rows; `KnownBeforeRequest` says that its cache is
  not newer than its snapshot, so the revision it writes is new to it unless the
  version is. From it come `SequentialAgentSeesChanges` and
  `SequentialCandidatesDistinct`.

- `BindingsKeepTheirPromise`: the rows implement `BoundDevices`. `PromiseInv` adds to
  `RowsInv` that rows are filled in by the request that inserts them and that a confirmed one has
  its event (`RowsFilled`). `CurrentBindingsUnique` makes the device of a slot, and
  `EventRecordedOnce` the row of an event, a function of the rows; `SubmitOffers`, `ConfirmTakes` and
  `ProvisionBegins` are the three steps, all others move the gateway or nothing. It implies
  `ClosedRowsStay`, which has a theorem of its own and no run.

The lemmas `SubmitInserts`, `ConfirmMoves`, `ProvisionCloses` and
`OtherStepsKeepRows` say how a step can change the rows at all; `RequestSteps`
and `CounterSteps` do the same for requests and counters. Both invariants together
give `SlotsMoveCanonically`: since a slot has one candidate and one device at most,
the overlay leaves out no live row (`SlotStatesArePlain`), and a step does one of
three things to a slot (`SlotsMove`).

`TelemetryIngestProofs` proves, from `IngestBounds`, every property of the two
passing telemetry runs (`BreachAnnounced` is checked by the overlapping one, which contains the
ordered deliveries):

- `SafetyInductive`: `SafetyInv` adds to `AcknowledgedIsStored` and
  `BreachAnnounced` that what was judged is stored (`JudgedStored`), or a later
  commit could move a reading away from the alert that announced it;
- `OrderedInductive`: in the ordered regime `OrderedInv` holds. `ReadingUpToDate`
  (the reading in flight saw every stored one and is not older) makes the missing
  upper bound harmless, `OneThreshold` (one live row, known to the edit in
  flight) keeps a reading from raising two alerts at once. `AddedAlerts` and
  `OneRecentAlert` are the heart: a new alert is further than the window from
  all of its severity, hence at most one alert is recent, hence the search
  never finds two.

Three modules prove the safety of the frontend's components, whatever requests overlap. In
`CatalogPagesProofs` and `PagesProofs`:

- the catalogue (`CatalogInductive`), from `CatalogConstants` (the bound on saves is a
  number): a flag is up only while a call that lowers it is in flight (`BusyIsUnderWay`), a form
  that locks has one request (`OneForm`), operations that waited for each other have one call
  (`OneOperation`, whose load brings what the server has), and any load brings a table
  (`LoadsBringTables`). `Notes` is what a failed load leaves behind: a failure told,
  or the mark `logged` on properties and areas. So `PagesSettle` promises a user of these two pages less. The lemmas `LoadHandlers` and `SaveHandlers` say what the handlers of the
  seven pages do to the flags; the rest of the proof does not look at any page by itself.
- the panel (`PanelInductive`): a tick belongs to the session on the card
  (`TickedCardIsAsked`), a closed panel has no dialog and no answer in flight, and a dialog keeps
  its card while the user waits for lookups (`DialogKeepsCard`).
- the selection (`SelectionInductive`), from `SelectionConstants` (no property or area is
  the null one): `LoadUnderWay` says what the context has while its two answers are awaited,
  `SettledSelection` that a loaded selection leaves the context's effect nothing to do, is
  remembered, and is the address's when every property in the list has areas.

In `PlatformProofs`:

- the session (`SessionInductive`): `WebInv` adds to the types that the user on the
  screen owns the stored token and is on a page of their role (`OwnerOnScreen`), that a sign-in and
  a renewal are somebody's (`SomebodySignsIn`), and that a patient user's requests in flight belong to the page shown
  (`PatientSession`). The last is what keeps a late answer from signing in a former user.
- the wizard (`WizardInductive`), from `WizardConstants`: `WizardHasLink` with the types and
  `AboutGateways` (every request but the list's is about a gateway). Every handler ends in a
  commit, and `CommitKeepsLink` says that the commit's effect leaves the address that has lost its
  link; `QuietKeepsLink` covers the steps without a commit.
- the read pages (`QueriesInductive`), from `QueryConstants` (there is a key, and neither the
  absence of data nor a notice is one): first that each of the twenty pages describes views
  (`QueryTyped`, in three groups of pages), and that at most one write is in flight (`OneWrite`:
  without it the bound on the sequence of questions is not kept when an answer asks again); then
  `FormerDataIsAwaited`, which needs `FormerCalls`: what a page that drops former answers has in
  flight is about the key it has now.

`JobsProofs` proves the safety of the three jobs, for any number of nodes, alerts, channels,
areas, requests and days:

- the scans (`ScanInductive`): `OneAlertAtMost` holds until two scans overlap. Its strengthening
  `LoneScan` says that the scan in flight saw every alert there is and no reading later than
  the last one, so that what it takes for an announced outage is one; a reading that arrives
  meanwhile only shortens the outage (`ReadingKeepsOnce`). Late readings are included.
- dispatch (`DispatchInductive`), from `DispatchConstants`: the oldest alerts of a batch are no
  more than the limit (`OldestWithinLimit`, by the ranks of the alerts among the pending ones),
  and the only dispatcher has seen the marks as they are (`LoneDispatcherKnows`), hence sends
  nothing that is marked (`SendsOnceWithinLimit`).
- reports (`ReportsInductive`), from `ReportConstants` (areas are numbers, the runs finitely
  many): `RowsOfWriters` counts the runs that write an area against its live rows,
  `OneInserts` says that unless two runs looked at once one of them inserts at a time,
  `CallsInOrder` that the day noted is not later than the day of the run it led to,
  `PassedIsHandled` that an area behind a run is written, failed or being written, and
  `DoneIsHandled` that a day done is one that a run has passed in full: the very day noted, or,
  if a call crossed midnight, one from it to today. Hence `OneReportEachWhenDone`, which makes
  that exception in its statement.

Two lemmas there need a least element of a set of numbers, the oldest alert and the first
area. It comes from the well-foundedness of `<` as the library states it (`LeastNatural`), which
needs no induction over a predicate.

The two instances as wholes: a step of `MCPages` or of `MCPlatform` is a step of one component
that leaves the others' variables (`PagesStep`, `PlatformStep`), so the conjunction of the components'
invariants (`PagesInv`, `PlatformInv`) is inductive. From it come `PagesTypeOK`, `PlatformTypeOK` and
`PlatformSafe`.

Only model-checked: the liveness properties (`PolledSessionResolves`, `RequestsSettle`,
`WizardCatchesUp`, `SettledViewMatchesKey`, `OneAlertPerOutage`, `AlertsReachClients`,
`OneReportPerDay`), which are out of the prover's reach, and the findings, which are single
behaviours. Every invariant and action property that a passing run checks is a theorem.

## 5. Plan

Done, in the order of their weight: lifecycle and pairing, physical bindings, ingestion, the
jobs, and the frontend's session, selection, forms, wizard, panel and read pages. What a next
step would be:

1. An abstract specification of the jobs (the ledger of alerts, deliveries and reports that they
   keep), with the refinement proved as for `CredentialGrants` and `BoundDevices`.
2. The check of the active configuration at ingestion, composed with `PhysicalBinding`.
3. The lock-level refinement of `GatewayPairing`, with the absence of deadlock as its property: it
   would justify that its handlers are single actions.
4. `GatewayPairing` as the server of `PairingPanel` and `EquipmentWizard`, in place of the answers
   that these leave open.

## 6. Not modelled

- Gateway heartbeat, updates, templates, weather cache, password recovery, crop cycles,
  catalogue CRUD: one request acts on rows that no other step holds on to, or the overlap is
  the search-then-insert already modelled elsewhere; their hazards are listed in
  `PROJECT.json` with the reason.
- The attempt windows of the pairing routes: dictionaries of one process that refuse a request
  before it does anything modelled here.
- Authentication: stateless checks, taken as answers by `WebSession`.
- AI chat, recommendations, NDVI, WhatsApp, the text of reports: text and external services.
- Frontend: profile, notification preferences, client directory, AI chat page, external data
  cards: one form or call each; charts, maps' drawing, layout, `components/ui`, translations of
  states to words: display; `SelectionScopeBar` and the selectors of a dashboard that is not
  embedded: no route renders them; the choice of areas in the wizard's first step and the
  fields of forms: data that no property tells apart.
