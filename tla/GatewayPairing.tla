--------------------------- MODULE GatewayPairing ---------------------------
(***************************************************************************)
(* Device pairing (services/gateway_pairing.py and its routes) composed    *)
(* with the credential lifecycle it shares the gateway rows with.          *)
(*                                                                         *)
(* A device starts a session and polls it; an administrator who reads the  *)
(* code on the device approves it for a gateway; the next poll consumes it *)
(* and issues the gateway's credential.  approve_session, deny_session and *)
(* redeem lock the session row first and the gateway row second, re-read   *)
(* both under the lock and commit once: each is one action.  The two       *)
(* handlers that commit twice or act on a count read earlier are split:    *)
(* a wrong code (counted, then checked), and a start (admitted, inserted). *)
(***************************************************************************)
EXTENDS GatewayLifecycle, Integers

CONSTANTS
  Codes,                \* user codes a device may show
  PairingTtl,           \* PAIRING_TTL_SECONDS, in ticks
  PollInterval,         \* PAIRING_INTERVAL_SECONDS
  SlowDownStep,         \* PAIRING_SLOW_DOWN_SECONDS
  MaxInterval,          \* PAIRING_MAX_INTERVAL_SECONDS
  MaxWrongCodes,        \* PAIRING_MAX_WRONG_CODE_ATTEMPTS
  MaxPendingSessions,   \* MAX_PENDING_SESSIONS
  MaxStarts,            \* bound: start requests running at once
  MaxFailures,          \* bound: wrong codes tried on one session
  LastStart,            \* bound: no session starts after this tick
  ProcessCrashes        \* whether a server process may stop between two commits

ASSUME PairingBounds ==
  /\ PairingTtl \in Nat \ {0}
  /\ PollInterval \in Nat \ {0} /\ SlowDownStep \in Nat /\ MaxInterval \in Nat \ {0}
  /\ MaxWrongCodes \in Nat \ {0} /\ MaxPendingSessions \in Nat \ {0}
  /\ MaxStarts \in Nat /\ MaxFailures \in Nat /\ LastStart \in Nat
  /\ ProcessCrashes \in BOOLEAN
  /\ NoOne \notin Codes

VARIABLES
  session,     \* sesiones_emparejamiento
  starting,    \* start requests past the capacity check, their row not yet inserted
  checking     \* per session: wrong codes counted, their limit check still to come

pairingVars == <<session, starting, checking>>
vars == <<lifecycleVars, pairingVars>>

LiveStates == {"pending", "approved"}
TerminalStates == {"denied", "consumed", "expired"}

\* A nullable column (sondeo, ultimo_sondeo_en) is the set of its value.
SessionRow == [estado : {"none"} \cup LiveStates \cup TerminalStates,
               codigo : Codes \cup {NoOne},
               expira : Nat,
               proposito : {"none", "activation", "rotation"},
               pasarela : Gateways \cup {NoOne},
               intervalo : Nat,
               sondeo : SUBSET Nat,
               fallidos : Nat]

NoSession == [estado |-> "none", codigo |-> NoOne, expira |-> 0, proposito |-> "none",
              pasarela |-> NoOne, intervalo |-> PollInterval, sondeo |-> {}, fallidos |-> 0]

Live(s) == session[s].estado \in LiveStates
LiveSessions == {s \in Sessions : Live(s)}

\* The unique constraint of the table: no two live sessions show one user code.
LiveCodesDistinct ==
  \A s, z \in LiveSessions : session[s].codigo = session[z].codigo => s = z

\* Type invariant of the composed system: the columns of the tables and the
\* unique constraint on live user codes, by which an approval finds its session.
TypeOK ==
  /\ LifecycleTypeOK
  /\ session \in [Sessions -> SessionRow]
  /\ starting \in 0..MaxStarts
  /\ checking \in [Sessions -> Nat]
  /\ LiveCodesDistinct

Init ==
  /\ LifecycleInit
  /\ session = [s \in Sessions |-> NoSession]
  /\ starting = 0
  /\ checking = [s \in Sessions |-> 0]

-----------------------------------------------------------------------------
(* Helpers *)

\* The capacity test of a start.
AtCapacity == Cardinality(LiveSessions) >= MaxPendingSessions

\* Mutant: the last instant of a session still counts as live.
OverdueLate(s, t) == Live(s) /\ session[s].expira < t

\* Mutant: sessions that wait for an approval are never expired.
OverdueApprovedOnly(s, t) == session[s].estado = "approved" /\ session[s].expira <= t

\* The test of _expire_if_needed: a live session past its end.
Overdue(s, t) == Live(s) /\ session[s].expira <= t

\* _expire_if_needed found the session overdue: it is expired and committed.
ExpireIfNeeded(s, t) ==
  /\ Overdue(s, t)
  /\ session' = [session EXCEPT ![s].estado = "expired"]
  /\ UNCHANGED <<lifecycleVars, starting, checking>>

\* _bump_wrong_code up to its first commit.
BumpWrongCode(s) ==
  /\ session[s].fallidos < MaxFailures
  /\ session' = [session EXCEPT ![s].fallidos = @ + 1]
  /\ checking' = [checking EXCEPT ![s] = @ + 1]
  /\ UNCHANGED <<lifecycleVars, starting>>

\* What an approval is for, by the gateway's state and the request's flag.
ApprovalPurpose(g, replace) ==
  CASE gateway[g].estado = "pending_activation" /\ ~replace -> "activation"
    [] gateway[g].estado = "active" /\ replace -> "rotation"
    [] OTHER -> "none"

ExpectedState(s) ==
  IF session[s].proposito = "activation" THEN "pending_activation" ELSE "active"

\* The test of redeem's slow_down branch.
TooSoon(s, t) == \E last \in session[s].sondeo : t - last < session[s].intervalo

\* redeem's answer to a poll, in the order of its tests.
PollAnswer(s, t) ==
  CASE session[s].estado = "consumed" -> "invalid_device_code"
    [] Overdue(s, t) \/ session[s].estado = "expired" -> "expired_token"
    [] session[s].estado = "denied" -> "access_denied"
    [] ~Overdue(s, t) /\ session[s].estado = "pending" -> "authorization_pending"
    [] ~Overdue(s, t) /\ session[s].estado = "approved" ->
         IF TooSoon(s, t) THEN "slow_down"
         ELSE IF gateway[session[s].pasarela].estado = ExpectedState(s)
              THEN "credential" ELSE "access_denied"

\* Mutant: the poll that issues the credential leaves the session approved.
RowAfterPollUnconsumed(s, t) ==
  IF Overdue(s, t) THEN [session[s] EXCEPT !.estado = "expired"]
  ELSE IF Live(s) /\ PollAnswer(s, t) = "access_denied"
       THEN [session[s] EXCEPT !.sondeo = {t}, !.estado = "denied"]
       ELSE session[s]

\* The session's row once that poll is committed.
RowAfterPoll(s, t) ==
  LET row == session[s]
      answer == PollAnswer(s, t)
  IN  IF ~Live(s) \/ answer = "authorization_pending" THEN row
      ELSE IF answer = "expired_token" THEN [row EXCEPT !.estado = "expired"]
      ELSE IF answer = "slow_down" THEN
        [row EXCEPT !.sondeo = {t},
                    !.intervalo = IF @ + SlowDownStep <= MaxInterval
                                  THEN @ + SlowDownStep ELSE MaxInterval]
      ELSE [row EXCEPT !.sondeo = {t},
                       !.estado = IF answer = "credential" THEN "consumed" ELSE "denied"]

-----------------------------------------------------------------------------
(* Operations *)

\* Mutant: an off-by-one in the capacity test.
AdmitOneMore ==
  /\ Cardinality(LiveSessions) <= MaxPendingSessions
  /\ starting < MaxStarts
  /\ starting' = starting + 1
  /\ UNCHANGED <<lifecycleVars, session, checking>>

\* POST /pairing-sessions passes the capacity check ...
AdmitStart ==
  /\ ~AtCapacity
  /\ starting < MaxStarts
  /\ starting' = starting + 1
  /\ UNCHANGED <<lifecycleVars, session, checking>>

\* Mutant: the unique constraint covers pending sessions only, not approved ones.
CreateSessionPendingUnique(s, c, t) ==
  /\ starting > 0
  /\ clock <= LastStart
  /\ session[s].estado = "none"
  /\ \A other \in Sessions : session[other].estado = "pending" => session[other].codigo # c
  /\ starting' = starting - 1
  /\ session' = [session EXCEPT ![s] = [NoSession EXCEPT !.estado = "pending",
                                          !.codigo = c, !.expira = t + PairingTtl]]
  /\ UNCHANGED <<lifecycleVars, checking>>

\* ... and create_session inserts the row, under the unique live user code.
CreateSession(s, c, t) ==
  /\ starting > 0
  /\ clock <= LastStart
  /\ session[s].estado = "none"
  /\ \A other \in LiveSessions : session[other].codigo # c
  /\ starting' = starting - 1
  /\ session' = [session EXCEPT ![s] = [NoSession EXCEPT !.estado = "pending",
                                          !.codigo = c, !.expira = t + PairingTtl]]
  /\ UNCHANGED <<lifecycleVars, checking>>

\* The insert fails: a code that became live meanwhile, or a lost request.
StartFails ==
  /\ starting > 0
  /\ starting' = starting - 1
  /\ UNCHANGED <<lifecycleVars, session, checking>>

\* The lookup reads a live session by its code; it writes only when it expires it.
FindByUserCode(c, t) ==
  \E s \in LiveSessions : session[s].codigo = c /\ ExpireIfNeeded(s, t)

ApproveSession(s, c, g, replace, t) ==
  \/ ExpireIfNeeded(s, t)
  \/ /\ session[s].estado = "pending" /\ ~Overdue(s, t)
     /\ session[s].codigo # c
     /\ BumpWrongCode(s)
  \/ /\ session[s].estado = "pending" /\ ~Overdue(s, t)
     /\ session[s].codigo = c
     /\ ApprovalPurpose(g, replace) # "none"
     /\ session' = [session EXCEPT ![s].estado = "approved",
                                   ![s].pasarela = g,
                                   ![s].proposito = ApprovalPurpose(g, replace)]
     /\ UNCHANGED <<lifecycleVars, starting, checking>>

\* Mutant: the update does not test that the session is still live.
DenyAnySession(s, c, t) ==
  \/ ExpireIfNeeded(s, t)
  \/ /\ session[s].codigo = c
     /\ session' = [session EXCEPT ![s].estado = "denied"]
     /\ UNCHANGED <<lifecycleVars, starting, checking>>

DenySession(s, c, t) ==
  \/ ExpireIfNeeded(s, t)
  \/ /\ Live(s) /\ ~Overdue(s, t)
     /\ session[s].codigo # c
     /\ BumpWrongCode(s)
  \/ /\ Live(s) /\ ~Overdue(s, t)
     /\ session[s].codigo = c
     /\ session' = [session EXCEPT ![s].estado = "denied"]
     /\ UNCHANGED <<lifecycleVars, starting, checking>>

\* Mutant: an off-by-one in the limit of wrong codes.
CheckWrongCodesLate(s) ==
  /\ checking[s] > 0
  /\ checking' = [checking EXCEPT ![s] = @ - 1]
  /\ session' = IF session[s].fallidos > MaxWrongCodes /\ Live(s)
                THEN [session EXCEPT ![s].estado = "denied"] ELSE session
  /\ UNCHANGED <<lifecycleVars, starting>>

\* _bump_wrong_code after its first commit: too many wrong codes deny the session.
CheckWrongCodes(s) ==
  /\ checking[s] > 0
  /\ checking' = [checking EXCEPT ![s] = @ - 1]
  /\ session' = IF session[s].fallidos >= MaxWrongCodes /\ Live(s)
                THEN [session EXCEPT ![s].estado = "denied"] ELSE session
  /\ UNCHANGED <<lifecycleVars, starting>>

\* The process stops between the two commits: the check never comes.
LoseCheck(s) ==
  /\ ProcessCrashes
  /\ checking[s] > 0
  /\ checking' = [checking EXCEPT ![s] = @ - 1]
  /\ UNCHANGED <<lifecycleVars, session, starting>>

\* POST /pairing-sessions/token.
Redeem(s, t) ==
  /\ session[s].estado # "none"
  /\ session' = [session EXCEPT ![s] = RowAfterPoll(s, t)]
  /\ IF PollAnswer(s, t) = "credential"
     THEN LET g == session[s].pasarela
              replace == session[s].proposito = "rotation"
          IN  /\ ActivateGateway(g, replace, s)
              /\ reference' = IF replace THEN reference ELSE RevokeOutstanding(g)
     ELSE UNCHANGED <<gateway, reference, minted, issuedBy>>
  /\ UNCHANGED <<clock, starting, checking>>

OtherNext ==
  \/ LifecycleNext /\ UNCHANGED pairingVars
  \/ AdmitStart
  \/ StartFails
  \/ \E s \in Sessions : CheckWrongCodes(s) \/ LoseCheck(s)
  \/ \E t \in RequestTimes :
       \/ \E c \in Codes : FindByUserCode(c, t)
       \/ \E s \in Sessions, c \in Codes : CreateSession(s, c, t) \/ DenySession(s, c, t)
       \/ \E s \in Sessions, c \in Codes, g \in Gateways, replace \in BOOLEAN :
            ApproveSession(s, c, g, replace, t)

Next == OtherNext \/ \E s \in Sessions, t \in RequestTimes : Redeem(s, t)

Spec == Init /\ [][Next]_vars

-----------------------------------------------------------------------------
(* Safety *)

\* A reference and a pairing session each yield one credential in their life:
\* no interleaving of polls, activations, revocations and re-provisionings
\* makes redeem or activate issue a second one for the same grant.
GrantUsedOnce ==
  \A m, n \in 1..minted :
    issuedBy[m] = issuedBy[n] => m = n \/ issuedBy[m] = Administrator

\* The credential a gateway holds was issued for that very gateway: by its own
\* consumed reference or session, or by an administrator's rotation, even when
\* sessions for several gateways are approved and polled at once.
CredentialMatchesGrant ==
  \A g \in Gateways : gateway[g].credencial # NoCredential =>
    LET grant == issuedBy[gateway[g].credencial] IN
      \/ grant = Administrator
      \/ /\ grant \in References
         /\ reference[grant].resultado = "consumed" /\ reference[grant].pasarela = g
      \/ /\ grant \in Sessions
         /\ session[grant].estado = "consumed" /\ session[grant].pasarela = g

\* Once the wrong codes of a session reach the limit and every counted attempt
\* has been checked, the session can no longer be approved or redeemed.
\* (The check follows the count in a second commit: a process that stops in
\* between leaves the session live until the next wrong code.)
LockedOutSessionIsOver ==
  ~ProcessCrashes =>
    \A s \in Sessions :
      session[s].fallidos >= MaxWrongCodes /\ checking[s] = 0 => ~Live(s)

\* The capacity check and the insert are two statements of concurrent requests:
\* live sessions may exceed the limit, but by less than the requests in flight.
CapacityOvershootBounded ==
  Cardinality(LiveSessions) + starting < MaxPendingSessions + MaxStarts

-----------------------------------------------------------------------------
(* The inductive invariant the theorems rest on *)

\* A session is bound to a gateway and a purpose by its approval, not before.
ApprovedSessionBound ==
  \A s \in Sessions :
    /\ session[s].estado \in {"approved", "consumed"} =>
         session[s].pasarela \in Gateways /\ session[s].proposito \in {"activation", "rotation"}
    /\ session[s].estado \in {"none", "pending"} =>
         session[s].pasarela = NoOne /\ session[s].proposito = "none"

UsedUp(grant) ==
  \/ grant = Administrator
  \/ grant \in References /\ reference[grant].resultado = "consumed"
  \/ grant \in Sessions /\ session[grant].estado = "consumed"

\* What a credential was issued for is used up, and no gateway holds a
\* credential that was not issued.
IssuedGrantsUsedUp ==
  /\ \A m \in 1..minted : UsedUp(issuedBy[m])
  /\ \A g \in Gateways : gateway[g].credencial <= minted

IInv ==
  /\ TypeOK
  /\ CredentialIffActive
  /\ OutstandingReferencePending
  /\ ApprovedSessionBound
  /\ IssuedGrantsUsedUp
  /\ GrantUsedOnce
  /\ CredentialMatchesGrant

-----------------------------------------------------------------------------
(* Action properties *)

\* The reference or session that the newest credential was issued for was
\* valid just before this step, and this step used it up.
UsedNow(g, purpose) ==
  LET grant == issuedBy'[minted'] IN
    \/ /\ purpose = "activation" /\ grant \in Outstanding(g)
       /\ reference'[grant].resultado = "consumed"
    \/ /\ grant \in Sessions
       /\ session[grant].estado = "approved" /\ session'[grant].estado = "consumed"
       /\ session[grant].pasarela = g /\ session[grant].proposito = purpose

\* A gateway is activated only by a step that uses up one reference or one
\* activation session of its own and leaves no other reference outstanding.
ActivationUsesOneGrant ==
  [][\A g \in Gateways :
       gateway[g].estado # "active" /\ gateway'[g].estado = "active" =>
         /\ gateway[g].estado = "pending_activation"
         /\ UsedNow(g, "activation")
         /\ \A r \in Outstanding(g) : reference'[r].resultado # "issued"]_vars

\* The credential of an active gateway is replaced only by an administrator's
\* rotation or by a session approved for the rotation of that gateway; no
\* activation path can take a working gateway's credential away.
RotationNeedsConsent ==
  [][\A g \in Gateways :
       /\ gateway[g].estado = "active" /\ gateway'[g].estado = "active"
       /\ gateway'[g].credencial # gateway[g].credencial
       => issuedBy'[minted'] = Administrator \/ UsedNow(g, "rotation")]_vars

\* No grant is used later than its end by more than the time a running request
\* may wait for a lock after it has read the clock.
GrantsUsedInTime ==
  [][/\ \A r \in References :
          reference[r].resultado = "issued" /\ reference'[r].resultado = "consumed"
            => clock < reference[r].expira + Latency
     /\ \A s \in Sessions :
          Live(s) /\ session'[s].estado \in {"approved", "consumed"}
            /\ session'[s].estado # session[s].estado
            => clock < session[s].expira + Latency]_vars

\* A denied, consumed or expired session stays so: no late approval, denial,
\* wrong-code check or lookup that read the session before moves it again.
TerminalSessionsStay ==
  [][\A s \in Sessions : session[s].estado \in TerminalStates =>
       /\ session'[s].estado = session[s].estado
       /\ session'[s].pasarela = session[s].pasarela]_vars

-----------------------------------------------------------------------------
(* Liveness *)

\* The clock runs, a device polls until it gets a final answer (the contract's
\* retry rule), and the server finishes the handlers it runs.
Fairness ==
  /\ WF_vars(Tick /\ UNCHANGED pairingVars)
  /\ \A s \in Sessions :
       /\ WF_vars(\E t \in RequestTimes : Redeem(s, t))
       /\ WF_vars(CheckWrongCodes(s))

FairSpec == Spec /\ Fairness

\* A session that is polled comes to an end, whatever administrators do and
\* even if processes crash: no session is left live for ever.
PolledSessionResolves == \A s \in Sessions : Live(s) ~> ~Live(s)

-----------------------------------------------------------------------------
(* Refinement of CredentialGrants *)

PhaseOf(estado) ==
  CASE estado = "pending_activation" -> "open" [] estado = "active" -> "live" [] OTHER -> "closed"

ReferenceStatus(resultado) ==
  CASE resultado = "unissued" -> "blank" [] resultado = "issued" -> "offered"
    [] resultado = "consumed" -> "spent" [] OTHER -> "void"

SessionStatus(estado) ==
  CASE estado \in {"none", "pending"} -> "blank" [] estado = "approved" -> "offered"
    [] estado = "consumed" -> "spent" [] OTHER -> "void"

TicketOf(x) ==
  IF x \in References
  THEN [status |-> ReferenceStatus(reference[x].resultado),
        target |-> reference[x].pasarela, use |-> "activate"]
  ELSE [status |-> SessionStatus(session[x].estado), target |-> session[x].pasarela,
        use |-> IF session[x].proposito = "rotation" THEN "renew" ELSE "activate"]

HolderOf(g) ==
  IF gateway[g].credencial = NoCredential THEN NoOne ELSE issuedBy[gateway[g].credencial]

Tickets == References \cup Sessions

phaseBar == [g \in Gateways |-> PhaseOf(gateway[g].estado)]
holderBar == [g \in Gateways |-> HolderOf(g)]
ticketBar == [x \in Tickets |-> TicketOf(x)]

Promise ==
  INSTANCE CredentialGrants WITH phase <- phaseBar, holder <- holderBar, ticket <- ticketBar

\* The detailed operations, with their clock, codes and two-commit handlers,
\* implement the abstract rules about which grant may change which credential.
ImplementsCredentialGrants == Promise!Spec

=============================================================================
