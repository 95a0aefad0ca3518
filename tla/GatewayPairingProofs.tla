------------------------ MODULE GatewayPairingProofs ------------------------
(***************************************************************************)
(* Theorems about GatewayPairing, for every number of gateways,            *)
(* references, sessions and codes and every value of the bounds.           *)
(***************************************************************************)
EXTENDS GatewayPairing, FiniteSetTheorems, TLAPS

-----------------------------------------------------------------------------
(* Typing *)

\* Whatever a poll does to a session's row, it stays a row.
LEMMA RowAfterPollTyped ==
  ASSUME TypeOK, NEW s \in Sessions, NEW t \in RequestTimes
  PROVE  RowAfterPoll(s, t) \in SessionRow
<1>1. session[s] \in SessionRow /\ t \in Nat
  BY LifecycleBounds DEF TypeOK, LifecycleTypeOK, RequestTimes
<1>2. session[s].intervalo + SlowDownStep \in Nat /\ MaxInterval \in Nat
  BY <1>1, PairingBounds DEF SessionRow
<1>3. QED
  BY <1>1, <1>2 DEF RowAfterPoll, SessionRow, LiveStates, TerminalStates

\* The columns of the tables, without the unique constraint on live codes.
TablesTyped ==
  /\ LifecycleTypeOK
  /\ session \in [Sessions -> SessionRow]
  /\ starting \in 0..MaxStarts
  /\ checking \in [Sessions -> Nat]

\* The initial state is well typed: no session exists, so no code is live.
LEMMA InitTyped ==
  ASSUME Init
  PROVE  TypeOK
<1>1. TablesTyped
  BY LifecycleBounds, PairingBounds, GrantsDistinct
  DEF Init, LifecycleInit, TablesTyped, LifecycleTypeOK, NoSession, SessionRow, GatewayRow,
      ReferenceRow, NoCredential, Credentials, LiveStates, TerminalStates
<1>2. LiveCodesDistinct
  BY DEF Init, LiveCodesDistinct, LiveSessions, Live, LiveStates, NoSession
<1>3. QED
  BY <1>1, <1>2 DEF TablesTyped, TypeOK

\* Installing a credential keeps the gateway rows and the history well typed.
LEMMA ActivateGatewayTyped ==
  ASSUME LifecycleTypeOK, NEW g, NEW replace \in BOOLEAN, NEW grant \in Grants,
         ActivateGateway(g, replace, grant)
  PROVE  /\ minted' \in 0..MaxCredentials
         /\ gateway' \in [Gateways -> GatewayRow]
         /\ issuedBy' \in [Credentials -> Grants \cup {NoOne}]
<1>1. [estado |-> "active", credencial |-> minted + 1] \in GatewayRow /\ minted + 1 \in Credentials
  BY LifecycleBounds DEF ActivateGateway, LifecycleTypeOK, GatewayRow, Credentials
<1>2. minted' \in 0..MaxCredentials
  BY LifecycleBounds DEF ActivateGateway, LifecycleTypeOK
<1>3. gateway' \in [Gateways -> GatewayRow]
  BY <1>1 DEF ActivateGateway, LifecycleTypeOK
<1>4. issuedBy' \in [Credentials -> Grants \cup {NoOne}]
  BY <1>1 DEF ActivateGateway, LifecycleTypeOK
<1>5. QED
  BY <1>2, <1>3, <1>4

\* Revoking outstanding references keeps the reference rows well typed.
LEMMA RevokeOutstandingTyped ==
  ASSUME LifecycleTypeOK, NEW g
  PROVE  RevokeOutstanding(g) \in [References -> ReferenceRow]
  BY DEF RevokeOutstanding, Outstanding, LifecycleTypeOK, ReferenceRow

\* The steps of the lifecycle keep it well typed.
LEMMA LifecycleTyped ==
  ASSUME LifecycleTypeOK, LifecycleNext
  PROVE  LifecycleTypeOK'
<1> USE LifecycleBounds
<1>1. CASE Tick
  BY <1>1 DEF Tick, LifecycleTypeOK
<1>2. ASSUME NEW g \in Gateways, ProvisionGateway(g)
      PROVE  LifecycleTypeOK'
  BY <1>2 DEF ProvisionGateway, LifecycleTypeOK, GatewayRow, NoCredential
<1>3. ASSUME NEW g \in Gateways, RotateCredential(g)
      PROVE  LifecycleTypeOK'
  BY <1>3, ActivateGatewayTyped DEF RotateCredential, LifecycleTypeOK, Grants
<1>4. ASSUME NEW g \in Gateways, RevokeGateway(g)
      PROVE  LifecycleTypeOK'
  <2>1. reference' \in [References -> ReferenceRow]
    BY <1>4, RevokeOutstandingTyped DEF RevokeGateway
  <2>2. gateway' \in [Gateways -> GatewayRow]
    BY <1>4 DEF RevokeGateway, LifecycleTypeOK, GatewayRow, NoCredential
  <2>3. QED
    BY <1>4, <2>1, <2>2 DEF RevokeGateway, LifecycleTypeOK
<1>5. ASSUME NEW g \in Gateways, NEW r \in References, IssueReference(g, r)
      PROVE  LifecycleTypeOK'
  <2>1. [resultado |-> "issued", pasarela |-> g, expira |-> clock + ReferenceTtl] \in ReferenceRow
    BY DEF LifecycleTypeOK, ReferenceRow
  <2>2. reference' \in [References -> ReferenceRow]
    BY <1>5, <2>1, RevokeOutstandingTyped DEF IssueReference
  <2>3. QED
    BY <1>5, <2>2 DEF IssueReference, LifecycleTypeOK
<1>6. ASSUME NEW r \in References, NEW t \in RequestTimes, Activate(r, t)
      PROVE  LifecycleTypeOK'
  <2>1. reference' \in [References -> ReferenceRow]
    BY <1>6 DEF Activate, LifecycleTypeOK, ReferenceRow
  <2>2. QED
    BY <1>6, <2>1, ActivateGatewayTyped DEF Activate, LifecycleTypeOK, Grants
<1>7. QED
  BY <1>1, <1>2, <1>3, <1>4, <1>5, <1>6 DEF LifecycleNext

\* Every step of the composed system keeps its tables well typed.
LEMMA StepTables ==
  ASSUME TypeOK, [Next]_vars
  PROVE  TablesTyped'
<1> USE DEF TypeOK, TablesTyped
<1>1. CASE LifecycleNext /\ UNCHANGED pairingVars
  BY <1>1, LifecycleTyped DEF pairingVars
<1>2. CASE AdmitStart
  BY <1>2, PairingBounds DEF AdmitStart, lifecycleVars, LifecycleTypeOK
<1>3. CASE StartFails
  BY <1>3, PairingBounds DEF StartFails, lifecycleVars, LifecycleTypeOK
<1>4. ASSUME NEW s \in Sessions, CheckWrongCodes(s) \/ LoseCheck(s)
      PROVE  TablesTyped'
  <2>1. session' \in [Sessions -> SessionRow]
    BY <1>4 DEF CheckWrongCodes, LoseCheck, SessionRow, LiveStates, TerminalStates
  <2>2. checking' \in [Sessions -> Nat]
    BY <1>4 DEF CheckWrongCodes, LoseCheck
  <2>3. QED
    BY <1>4, <2>1, <2>2 DEF CheckWrongCodes, LoseCheck, lifecycleVars, LifecycleTypeOK
<1>5. ASSUME NEW s \in Sessions, NEW t \in RequestTimes, ExpireIfNeeded(s, t)
      PROVE  TablesTyped'
  BY <1>5 DEF ExpireIfNeeded, lifecycleVars, LifecycleTypeOK, SessionRow, LiveStates,
              TerminalStates
<1>6. ASSUME NEW s \in Sessions, BumpWrongCode(s)
      PROVE  TablesTyped'
  <2>1. session' \in [Sessions -> SessionRow]
    BY <1>6 DEF BumpWrongCode, SessionRow
  <2>2. checking' \in [Sessions -> Nat]
    BY <1>6 DEF BumpWrongCode
  <2>3. QED
    BY <1>6, <2>1, <2>2 DEF BumpWrongCode, lifecycleVars, LifecycleTypeOK
<1>7. ASSUME NEW t \in RequestTimes, NEW c \in Codes, FindByUserCode(c, t)
      PROVE  TablesTyped'
  <2>1. PICK s \in Sessions : ExpireIfNeeded(s, t)
    BY <1>7 DEF FindByUserCode, LiveSessions
  <2>2. QED
    BY <2>1, <1>5
<1>8. ASSUME NEW t \in RequestTimes, NEW s \in Sessions, NEW c \in Codes, CreateSession(s, c, t)
      PROVE  TablesTyped'
  <2>1. [NoSession EXCEPT !.estado = "pending", !.codigo = c, !.expira = t + PairingTtl]
          \in SessionRow
    <3>1. NoSession \in SessionRow
      BY PairingBounds DEF NoSession, SessionRow
    <3>2. t + PairingTtl \in Nat
      BY PairingBounds, LifecycleBounds DEF RequestTimes, LifecycleTypeOK
    <3>3. QED
      BY <3>1, <3>2 DEF SessionRow, LiveStates
  <2>2. QED
    BY <1>8, <2>1, PairingBounds DEF CreateSession, lifecycleVars, LifecycleTypeOK
<1>9. ASSUME NEW t \in RequestTimes, NEW s \in Sessions, NEW c \in Codes, DenySession(s, c, t)
      PROVE  TablesTyped'
  BY <1>9, <1>5, <1>6
  DEF DenySession, lifecycleVars, LifecycleTypeOK, SessionRow, LiveStates, TerminalStates
<1>10. ASSUME NEW t \in RequestTimes, NEW s \in Sessions, NEW c \in Codes,
              NEW g \in Gateways, NEW replace \in BOOLEAN, ApproveSession(s, c, g, replace, t)
       PROVE  TablesTyped'
  <2>1. ApprovalPurpose(g, replace) \in {"none", "activation", "rotation"}
    BY DEF ApprovalPurpose
  <2>2. QED
    BY <1>10, <2>1, <1>5, <1>6
    DEF ApproveSession, lifecycleVars, LifecycleTypeOK, SessionRow, LiveStates, TerminalStates
<1>11. ASSUME NEW t \in RequestTimes, NEW s \in Sessions, Redeem(s, t)
       PROVE  TablesTyped'
  <2>1. session' \in [Sessions -> SessionRow]
    BY <1>11, RowAfterPollTyped DEF Redeem
  <2>2. LifecycleTypeOK'
    <3>1. CASE PollAnswer(s, t) = "credential"
      <4>1. reference' \in [References -> ReferenceRow]
        BY <1>11, <3>1, RevokeOutstandingTyped DEF Redeem, LifecycleTypeOK
      <4>2. ActivateGateway(session[s].pasarela, session[s].proposito = "rotation", s)
        BY <1>11, <3>1 DEF Redeem
      <4>3. QED
        BY <1>11, <4>1, <4>2, ActivateGatewayTyped DEF Redeem, LifecycleTypeOK, Grants
    <3>2. CASE PollAnswer(s, t) # "credential"
      BY <1>11, <3>2 DEF Redeem, LifecycleTypeOK
    <3>3. QED
      BY <3>1, <3>2
  <2>3. QED
    BY <1>11, <2>1, <2>2 DEF Redeem
<1>12. CASE UNCHANGED vars
  BY <1>12 DEF vars, lifecycleVars, pairingVars, LifecycleTypeOK
<1>13. QED
  BY <1>1, <1>2, <1>3, <1>4, <1>7, <1>8, <1>9, <1>10, <1>11, <1>12 DEF Next, OtherNext

\* Only the insert of a start gives a session a code or makes one live, and the
\* code it inserts is no live session's: live codes stay distinct.
LEMMA StepCodes ==
  ASSUME TypeOK, [Next]_vars
  PROVE  LiveCodesDistinct'
<1> USE DEF TypeOK, LiveCodesDistinct, LiveSessions, Live, LiveStates
<1>1. CASE UNCHANGED session
  BY <1>1
<1>2. ASSUME NEW s \in Sessions,
             \A x \in Sessions : x # s => session'[x] = session[x],
             session'[s].codigo = session[s].codigo,
             session'[s].estado \in LiveStates => session[s].estado \in LiveStates
      PROVE  LiveCodesDistinct'
  BY <1>2
<1>3. ASSUME NEW s \in Sessions, NEW t, ExpireIfNeeded(s, t)
      PROVE  LiveCodesDistinct'
  BY <1>3, <1>2 DEF ExpireIfNeeded, Overdue, SessionRow
<1>4. ASSUME NEW s \in Sessions, BumpWrongCode(s)
      PROVE  LiveCodesDistinct'
  BY <1>4, <1>2 DEF BumpWrongCode, SessionRow
<1>5. ASSUME NEW s \in Sessions, CheckWrongCodes(s)
      PROVE  LiveCodesDistinct'
  BY <1>5, <1>1, <1>2 DEF CheckWrongCodes, SessionRow
<1>6. ASSUME NEW t, NEW c, FindByUserCode(c, t)
      PROVE  LiveCodesDistinct'
  BY <1>6, <1>3 DEF FindByUserCode
<1>7. ASSUME NEW s \in Sessions, NEW t, NEW c, DenySession(s, c, t)
      PROVE  LiveCodesDistinct'
  BY <1>7, <1>2, <1>3, <1>4 DEF DenySession, SessionRow
<1>8. ASSUME NEW s \in Sessions, NEW t, NEW c, NEW g, NEW replace,
             ApproveSession(s, c, g, replace, t)
      PROVE  LiveCodesDistinct'
  BY <1>8, <1>2, <1>3, <1>4 DEF ApproveSession, SessionRow
<1>9. ASSUME NEW s \in Sessions, NEW t, Redeem(s, t)
      PROVE  LiveCodesDistinct'
  <2>1. RowAfterPoll(s, t).codigo = session[s].codigo
    BY DEF RowAfterPoll, SessionRow
  <2>2. ~Live(s) => RowAfterPoll(s, t) = session[s]
    BY DEF RowAfterPoll
  <2>3. QED
    BY <1>9, <1>2, <2>1, <2>2 DEF Redeem
<1>10. ASSUME NEW s \in Sessions, NEW t, NEW c, CreateSession(s, c, t)
       PROVE  LiveCodesDistinct'
  <2>1. /\ session'[s].codigo = c
        /\ \A x \in Sessions : x # s => session'[x] = session[x]
        /\ \A x \in LiveSessions : session[x].codigo # c
    BY <1>10 DEF CreateSession, NoSession
  <2>2. QED
    BY <2>1
<1>11. QED
  BY <1>1, <1>5, <1>6, <1>7, <1>8, <1>9, <1>10
  DEF Next, OtherNext, AdmitStart, StartFails, LoseCheck, vars, pairingVars

\* Every step of the composed system keeps it well typed.
LEMMA StepTyped ==
  ASSUME TypeOK, [Next]_vars
  PROVE  TypeOK'
  BY StepTables, StepCodes DEF TypeOK, TablesTyped

\* Type correctness of the composed system: its columns hold their types and no
\* two live sessions ever show one user code.
THEOREM TypeCorrect == Spec => []TypeOK
  BY InitTyped, StepTyped, PTL DEF Spec

-----------------------------------------------------------------------------
(* What a step can do *)

\* A used-up reference and a session at its end are never written again, but
\* for the counter of wrong codes and the time of the last poll.
LEMMA EndedStays ==
  ASSUME TypeOK, [Next]_vars
  PROVE  /\ \A r \in References :
              reference[r].resultado = "consumed" =>
                /\ reference'[r].resultado = "consumed"
                /\ reference'[r].pasarela = reference[r].pasarela
         /\ \A s \in Sessions :
              session[s].estado \in TerminalStates =>
                /\ session'[s].estado = session[s].estado
                /\ session'[s].pasarela = session[s].pasarela
<1> DEFINE R == \A r \in References :
                  reference[r].resultado = "consumed" =>
                    /\ reference'[r].resultado = "consumed"
                    /\ reference'[r].pasarela = reference[r].pasarela
           S == \A s \in Sessions :
                  session[s].estado \in TerminalStates =>
                    /\ session'[s].estado = session[s].estado
                    /\ session'[s].pasarela = session[s].pasarela
<1>1. \A g : \A r \in References : reference[r].resultado = "consumed" =>
                RevokeOutstanding(g)[r] = reference[r]
  BY DEF RevokeOutstanding, Outstanding
<1>2. CASE LifecycleNext /\ UNCHANGED pairingVars
  <2>1. S
    BY <1>2 DEF pairingVars
  <2>2. ASSUME NEW r \in References, NEW t \in RequestTimes, Activate(r, t)
        PROVE  R
    BY <2>2 DEF Activate, TypeOK, LifecycleTypeOK, ReferenceRow
  <2>3. ASSUME NEW g \in Gateways, NEW r \in References, IssueReference(g, r)
        PROVE  R
    BY <2>3, <1>1 DEF IssueReference, RevokeOutstanding
  <2>4. ASSUME NEW g \in Gateways, RevokeGateway(g)
        PROVE  R
    BY <2>4, <1>1 DEF RevokeGateway
  <2>5. ASSUME UNCHANGED reference
        PROVE  R
    BY <2>5
  <2>6. R
    BY <1>2, <2>2, <2>3, <2>4, <2>5
    DEF LifecycleNext, Tick, ProvisionGateway, RotateCredential
  <2>7. QED
    BY <2>1, <2>6
<1>3. ASSUME NEW t \in RequestTimes, NEW s \in Sessions, ExpireIfNeeded(s, t)
      PROVE  R /\ S
  BY <1>3 DEF ExpireIfNeeded, Overdue, Live, lifecycleVars, TypeOK, LiveStates, TerminalStates
<1>4. ASSUME NEW s \in Sessions, BumpWrongCode(s)
      PROVE  R /\ S
  BY <1>4 DEF BumpWrongCode, lifecycleVars, TypeOK, SessionRow
<1>5. CASE AdmitStart \/ StartFails
  BY <1>5 DEF AdmitStart, StartFails, lifecycleVars
<1>6. ASSUME NEW s \in Sessions, CheckWrongCodes(s) \/ LoseCheck(s)
      PROVE  R /\ S
  BY <1>6 DEF CheckWrongCodes, LoseCheck, Live, lifecycleVars, TypeOK, LiveStates, TerminalStates
<1>7. ASSUME NEW t \in RequestTimes, NEW c \in Codes, FindByUserCode(c, t)
      PROVE  R /\ S
  <2>1. PICK s \in Sessions : ExpireIfNeeded(s, t)
    BY <1>7 DEF FindByUserCode, LiveSessions
  <2>2. QED
    BY <2>1, <1>3
<1>8. ASSUME NEW t \in RequestTimes, NEW s \in Sessions, NEW c \in Codes, CreateSession(s, c, t)
      PROVE  R /\ S
  BY <1>8 DEF CreateSession, lifecycleVars, TypeOK, TerminalStates
<1>9. ASSUME NEW t \in RequestTimes, NEW s \in Sessions, NEW c \in Codes, DenySession(s, c, t)
      PROVE  R /\ S
  BY <1>9, <1>3, <1>4
  DEF DenySession, Live, lifecycleVars, TypeOK, LiveStates, TerminalStates
<1>10. ASSUME NEW t \in RequestTimes, NEW s \in Sessions, NEW c \in Codes,
              NEW g \in Gateways, NEW replace \in BOOLEAN, ApproveSession(s, c, g, replace, t)
       PROVE  R /\ S
  BY <1>10, <1>3, <1>4 DEF ApproveSession, lifecycleVars, TypeOK, TerminalStates
<1>11. ASSUME NEW t \in RequestTimes, NEW s \in Sessions, Redeem(s, t)
       PROVE  R /\ S
  <2>1. R
    BY <1>11, <1>1 DEF Redeem
  <2>2. session[s].estado \in TerminalStates => RowAfterPoll(s, t) = session[s]
    BY DEF RowAfterPoll, Live, LiveStates, TerminalStates
  <2>3. S
    BY <1>11, <2>2 DEF Redeem, TypeOK
  <2>4. QED
    BY <2>1, <2>3
<1>12. CASE UNCHANGED vars
  BY <1>12 DEF vars, lifecycleVars, pairingVars
<1>13. QED
  BY <1>2, <1>5, <1>6, <1>7, <1>8, <1>9, <1>10, <1>11, <1>12 DEF Next, OtherNext

\* TerminalSessionsStay for every instance.
THEOREM EndedSessionsStay == Spec => TerminalSessionsStay
<1>1. TypeOK /\ [Next]_vars =>
        [\A s \in Sessions : session[s].estado \in TerminalStates =>
           /\ session'[s].estado = session[s].estado
           /\ session'[s].pasarela = session[s].pasarela]_vars
  BY EndedStays
<1>2. QED
  BY <1>1, TypeCorrect, PTL DEF Spec, TerminalSessionsStay

-----------------------------------------------------------------------------
(* Where credentials come from *)

\* A poll answered with a credential found its session approved and the gateway
\* in the state it was approved for, and consumes the session.
LEMMA PollGivesCredential ==
  ASSUME TypeOK, NEW s \in Sessions, NEW t, session[s].estado # "none",
         PollAnswer(s, t) = "credential"
  PROVE  /\ session[s].estado = "approved"
         /\ gateway[session[s].pasarela].estado = ExpectedState(s)
         /\ RowAfterPoll(s, t).estado = "consumed"
         /\ RowAfterPoll(s, t).pasarela = session[s].pasarela
<1>1. session[s] \in SessionRow
  BY DEF TypeOK
<1>2. session[s].estado = "approved" /\ ~Overdue(s, t)
  BY <1>1 DEF PollAnswer, SessionRow, LiveStates, TerminalStates
<1>3. gateway[session[s].pasarela].estado = ExpectedState(s)
  BY <1>2 DEF PollAnswer
<1>4. Live(s)
  BY <1>2 DEF Live, LiveStates
<1>5. QED
  BY <1>1, <1>2, <1>3, <1>4 DEF RowAfterPoll, SessionRow

\* A step that issues a credential for g: who asked for it, what it uses up, and
\* what becomes of the references.
Issues(g, replace, grant) ==
  /\ ActivateGateway(g, replace, grant)
  /\ \/ grant = Administrator /\ replace /\ UNCHANGED <<reference, session>>
     \/ /\ grant \in Outstanding(g) /\ ~replace
        /\ reference' = [reference EXCEPT ![grant].resultado = "consumed"]
        /\ UNCHANGED session
     \/ /\ grant \in Sessions
        /\ session[grant].estado = "approved" /\ session'[grant].estado = "consumed"
        /\ session[grant].pasarela = g /\ session'[grant].pasarela = g
        /\ session[grant].proposito = IF replace THEN "rotation" ELSE "activation"
        /\ reference' = IF replace THEN reference ELSE RevokeOutstanding(g)

\* The three operations that issue a credential are such steps.
LEMMA ActivateIssues ==
  ASSUME IInv, UNCHANGED session, NEW r \in References, NEW t \in RequestTimes, Activate(r, t)
  PROVE  reference[r].pasarela \in Gateways /\ Issues(reference[r].pasarela, FALSE, r)
<1>1. reference[r].pasarela \in Gateways
  BY DEF IInv, OutstandingReferencePending, Activate
<1>2. r \in Outstanding(reference[r].pasarela)
  BY DEF Activate, Outstanding
<1>3. QED
  BY <1>1, <1>2 DEF Activate, Issues

\* A rotation replaces the credential on the administrator's own word.
LEMMA RotateIssues ==
  ASSUME UNCHANGED session, NEW g \in Gateways, RotateCredential(g)
  PROVE  Issues(g, TRUE, Administrator)
  BY DEF RotateCredential, Issues

\* A redemption issues a credential and uses up its session.
LEMMA RedeemIssues ==
  ASSUME IInv, NEW s \in Sessions, NEW t \in RequestTimes, Redeem(s, t),
         PollAnswer(s, t) = "credential"
  PROVE  /\ session[s].pasarela \in Gateways
         /\ Issues(session[s].pasarela, session[s].proposito = "rotation", s)
<1> DEFINE g == session[s].pasarela
           replace == session[s].proposito = "rotation"
<1>1. /\ session[s].estado = "approved"
      /\ RowAfterPoll(s, t).estado = "consumed"
      /\ RowAfterPoll(s, t).pasarela = g
  BY PollGivesCredential DEF Redeem, IInv
<1>2. g \in Gateways /\ session[s].proposito \in {"activation", "rotation"}
  BY <1>1 DEF IInv, ApprovedSessionBound
<1>3. session'[s].estado = "consumed" /\ session'[s].pasarela = g
  BY <1>1 DEF Redeem, IInv, TypeOK
<1>4. /\ ActivateGateway(g, replace, s)
      /\ reference' = IF replace THEN reference ELSE RevokeOutstanding(g)
  BY DEF Redeem
<1>5. Issues(g, replace, s)
  BY <1>1, <1>2, <1>3, <1>4 DEF Issues
<1>6. QED
  BY <1>2, <1>5

\* Only five kinds of steps touch gateways, references and credentials.
LEMMA GatewaySteps ==
  ASSUME IInv, [Next]_vars
  PROVE  \/ UNCHANGED <<gateway, reference, minted, issuedBy>>
         \/ \E g \in Gateways, r \in References : IssueReference(g, r)
         \/ \E g \in Gateways : ProvisionGateway(g) \/ RevokeGateway(g)
         \/ \E g \in Gateways, replace \in BOOLEAN, grant \in Grants : Issues(g, replace, grant)
<1>1. CASE LifecycleNext /\ UNCHANGED pairingVars
  <2>1. ASSUME NEW r \in References, NEW t \in RequestTimes, Activate(r, t)
        PROVE  \E g \in Gateways : Issues(g, FALSE, r)
    BY <1>1, <2>1, ActivateIssues DEF pairingVars
  <2>2. ASSUME NEW g \in Gateways, RotateCredential(g)
        PROVE  Issues(g, TRUE, Administrator)
    BY <1>1, <2>2, RotateIssues DEF pairingVars
  <2>3. QED
    BY <1>1, <2>1, <2>2 DEF LifecycleNext, Tick, Grants
<1>2. ASSUME NEW t \in RequestTimes, NEW s \in Sessions, Redeem(s, t),
             PollAnswer(s, t) = "credential"
      PROVE  \E g \in Gateways, replace \in BOOLEAN : Issues(g, replace, s)
  <2>1. (session[s].proposito = "rotation") \in BOOLEAN
    OBVIOUS
  <2>2. QED
    BY <1>2, <2>1, RedeemIssues
<1>3. ASSUME NEW t \in RequestTimes, NEW s \in Sessions, Redeem(s, t),
             PollAnswer(s, t) # "credential"
      PROVE  UNCHANGED <<gateway, reference, minted, issuedBy>>
  BY <1>3 DEF Redeem
<1>4. ASSUME UNCHANGED lifecycleVars
      PROVE  UNCHANGED <<gateway, reference, minted, issuedBy>>
  BY <1>4 DEF lifecycleVars
<1>5. CASE \/ AdmitStart \/ StartFails
           \/ \E s \in Sessions : CheckWrongCodes(s) \/ LoseCheck(s)
           \/ \E t \in RequestTimes :
                \/ \E c \in Codes : FindByUserCode(c, t)
                \/ \E s \in Sessions, c \in Codes : CreateSession(s, c, t) \/ DenySession(s, c, t)
                \/ \E s \in Sessions, c \in Codes, g \in Gateways, replace \in BOOLEAN :
                     ApproveSession(s, c, g, replace, t)
           \/ UNCHANGED vars
  <2>1. ASSUME NEW s \in Sessions, CheckWrongCodes(s) \/ LoseCheck(s)
        PROVE  UNCHANGED lifecycleVars
    BY <2>1 DEF CheckWrongCodes, LoseCheck
  <2>2. ASSUME NEW s, NEW t, ExpireIfNeeded(s, t) \/ BumpWrongCode(s)
        PROVE  UNCHANGED lifecycleVars
    BY <2>2 DEF ExpireIfNeeded, BumpWrongCode
  <2>3. ASSUME NEW t, NEW c, FindByUserCode(c, t)
        PROVE  UNCHANGED lifecycleVars
    BY <2>3, <2>2 DEF FindByUserCode
  <2>4. ASSUME NEW t, NEW c, NEW s, CreateSession(s, c, t) \/ DenySession(s, c, t)
        PROVE  UNCHANGED lifecycleVars
    BY <2>4, <2>2 DEF CreateSession, DenySession
  <2>5. ASSUME NEW t, NEW c, NEW s, NEW g, NEW replace, ApproveSession(s, c, g, replace, t)
        PROVE  UNCHANGED lifecycleVars
    BY <2>5, <2>2 DEF ApproveSession
  <2>6. UNCHANGED lifecycleVars
    BY <1>5, <2>1, <2>3, <2>4, <2>5 DEF AdmitStart, StartFails, vars
  <2>7. QED
    BY <2>6, <1>4
<1>6. ASSUME NEW t \in RequestTimes, NEW s \in Sessions, Redeem(s, t)
      PROVE  \/ UNCHANGED <<gateway, reference, minted, issuedBy>>
             \/ \E g \in Gateways, replace \in BOOLEAN, grant \in Grants : Issues(g, replace, grant)
  <2>1. s \in Grants
    BY DEF Grants
  <2>2. CASE PollAnswer(s, t) = "credential"
    BY <1>2, <1>6, <2>1, <2>2
  <2>3. CASE PollAnswer(s, t) # "credential"
    BY <1>3, <1>6, <2>3
  <2>4. QED
    BY <2>2, <2>3
<1>7. CASE \E s \in Sessions, t \in RequestTimes : Redeem(s, t)
  BY <1>6, <1>7
<1>8. QED
  BY <1>1, <1>5, <1>7 DEF Next, OtherNext

-----------------------------------------------------------------------------
(* The inductive invariant *)

\* The initial state satisfies it.
LEMMA InitIInv == Init => IInv
  BY InitTyped, LifecycleBounds
  DEF Init, LifecycleInit, IInv, CredentialIffActive, OutstandingReferencePending,
      ApprovedSessionBound, IssuedGrantsUsedUp, GrantUsedOnce, CredentialMatchesGrant,
      NoCredential, NoSession

\* An issued credential was not issued before, and its grant is used up.
LEMMA IssuesUsesUp ==
  ASSUME IInv, NEW g \in Gateways, NEW replace \in BOOLEAN, NEW grant \in Grants,
         Issues(g, replace, grant)
  PROVE  /\ UsedUp(grant)'
         /\ grant = Administrator \/ ~UsedUp(grant)
         /\ grant \in References => reference[grant].pasarela = g /\ reference'[grant].pasarela = g
         /\ grant \in Sessions => session'[grant].pasarela = g
<1>1. CASE grant = Administrator
  BY <1>1, GrantsDistinct DEF UsedUp
<1>2. CASE grant \in Outstanding(g) /\ reference' = [reference EXCEPT ![grant].resultado = "consumed"]
  BY <1>2, GrantsDistinct
  DEF UsedUp, Outstanding, IInv, TypeOK, LifecycleTypeOK, ReferenceRow
<1>3. CASE /\ grant \in Sessions
           /\ session[grant].estado = "approved" /\ session'[grant].estado = "consumed"
           /\ session[grant].pasarela = g /\ session'[grant].pasarela = g
  BY <1>3, GrantsDistinct DEF UsedUp
<1>4. QED
  BY <1>1, <1>2, <1>3 DEF Issues

\* CredentialIffActive is preserved.
LEMMA CredentialIffActiveStep ==
  ASSUME IInv, [Next]_vars
  PROVE  CredentialIffActive'
<1> USE DEF IInv, TypeOK, LifecycleTypeOK, CredentialIffActive, NoCredential
<1>1. CASE UNCHANGED gateway
  BY <1>1
<1>2. ASSUME NEW g \in Gateways, ProvisionGateway(g) \/ RevokeGateway(g)
      PROVE  CredentialIffActive'
  BY <1>2 DEF ProvisionGateway, RevokeGateway
<1>3. ASSUME NEW g \in Gateways, NEW replace, NEW grant, Issues(g, replace, grant)
      PROVE  CredentialIffActive'
  BY <1>3 DEF Issues, ActivateGateway
<1>4. QED
  BY <1>1, <1>2, <1>3, GatewaySteps DEF IssueReference

\* OutstandingReferencePending is preserved.
LEMMA OutstandingReferencePendingStep ==
  ASSUME IInv, [Next]_vars
  PROVE  OutstandingReferencePending'
<1> USE DEF IInv, TypeOK, LifecycleTypeOK, OutstandingReferencePending
<1>1. CASE UNCHANGED <<gateway, reference>>
  BY <1>1
<1>2. ASSUME NEW g \in Gateways, ProvisionGateway(g)
      PROVE  OutstandingReferencePending'
  BY <1>2 DEF ProvisionGateway
<1>3. ASSUME NEW g \in Gateways, RevokeGateway(g)
      PROVE  OutstandingReferencePending'
  BY <1>3 DEF RevokeGateway, RevokeOutstanding, Outstanding
<1>4. ASSUME NEW g \in Gateways, NEW r \in References, IssueReference(g, r)
      PROVE  OutstandingReferencePending'
  <2>1. \A q \in References : reference'[q].resultado = "issued" =>
          q = r \/ (reference'[q] = reference[q] /\ reference[q].pasarela # g)
    <3>1. \A q \in References : q # r => reference'[q] = RevokeOutstanding(g)[q]
      BY <1>4 DEF IssueReference, RevokeOutstanding
    <3>2. ASSUME NEW q \in References, q # r, reference'[q].resultado = "issued"
          PROVE  reference'[q] = reference[q] /\ reference[q].pasarela # g
      BY <3>1, <3>2 DEF RevokeOutstanding, Outstanding, ReferenceRow
    <3>3. QED
      BY <3>2
  <2>2. reference'[r].pasarela = g /\ gateway' = gateway /\ gateway[g].estado = "pending_activation"
    BY <1>4 DEF IssueReference, RevokeOutstanding
  <2>3. QED
    BY <2>1, <2>2
<1>5. ASSUME NEW g \in Gateways, NEW replace \in BOOLEAN, NEW grant \in Grants,
             Issues(g, replace, grant)
      PROVE  OutstandingReferencePending'
  <2>1. CASE reference' = reference /\ replace
    BY <1>5, <2>1 DEF Issues, ActivateGateway, MayInstall
  <2>2. CASE reference' = RevokeOutstanding(g)
    BY <1>5, <2>2 DEF Issues, ActivateGateway, RevokeOutstanding, Outstanding
  <2>3. CASE grant \in Outstanding(g) /\ reference' = [reference EXCEPT ![grant].resultado = "consumed"]
    BY <1>5, <2>3 DEF Issues, ActivateGateway, Outstanding
  <2>4. QED
    BY <1>5, <2>1, <2>2, <2>3 DEF Issues
<1>6. QED
  BY <1>1, <1>2, <1>3, <1>4, <1>5, GatewaySteps

\* Approvals bind a gateway and a purpose, and nothing unbinds them.
LEMMA ApprovedSessionBoundStep ==
  ASSUME IInv, [Next]_vars
  PROVE  ApprovedSessionBound'
<1> USE DEF IInv, TypeOK, ApprovedSessionBound
<1>1. CASE UNCHANGED session
  BY <1>1
<1>2. ASSUME NEW s \in Sessions, NEW t, ExpireIfNeeded(s, t)
      PROVE  ApprovedSessionBound'
  BY <1>2 DEF ExpireIfNeeded
<1>3. ASSUME NEW s \in Sessions, BumpWrongCode(s)
      PROVE  ApprovedSessionBound'
  BY <1>3 DEF BumpWrongCode, SessionRow
<1>4. ASSUME NEW s \in Sessions, CheckWrongCodes(s)
      PROVE  ApprovedSessionBound'
  BY <1>4 DEF CheckWrongCodes
<1>5. ASSUME NEW t, NEW c, FindByUserCode(c, t)
      PROVE  ApprovedSessionBound'
  BY <1>5, <1>2 DEF FindByUserCode, LiveSessions
<1>6. ASSUME NEW s \in Sessions, NEW t, NEW c, CreateSession(s, c, t)
      PROVE  ApprovedSessionBound'
  BY <1>6 DEF CreateSession, NoSession
<1>7. ASSUME NEW s \in Sessions, NEW t, NEW c, DenySession(s, c, t)
      PROVE  ApprovedSessionBound'
  <2>1. CASE session' = [session EXCEPT ![s].estado = "denied"]
    BY <2>1
  <2>2. QED
    BY <1>7, <2>1, <1>2, <1>3 DEF DenySession
<1>8. ASSUME NEW s \in Sessions, NEW t, NEW c, NEW g \in Gateways, NEW replace,
             ApproveSession(s, c, g, replace, t)
      PROVE  ApprovedSessionBound'
  BY <1>8, <1>2, <1>3 DEF ApproveSession, ApprovalPurpose, SessionRow
<1>9. ASSUME NEW s \in Sessions, NEW t, Redeem(s, t)
      PROVE  ApprovedSessionBound'
  <2>1. session[s] \in SessionRow /\ session[s].estado # "none"
    BY <1>9 DEF Redeem
  <2>2. session[s].estado = "pending" => PollAnswer(s, t) \in {"authorization_pending", "expired_token"}
    BY DEF PollAnswer
  <2>3. \/ RowAfterPoll(s, t).estado \notin {"none", "pending", "approved", "consumed"}
        \/ RowAfterPoll(s, t) = session[s]
        \/ /\ session[s].estado = "approved"
           /\ RowAfterPoll(s, t).estado \in {"approved", "consumed"}
           /\ RowAfterPoll(s, t).pasarela = session[s].pasarela
           /\ RowAfterPoll(s, t).proposito = session[s].proposito
    BY <2>1, <2>2 DEF RowAfterPoll, Live, LiveStates, SessionRow
  <2>4. QED
    BY <1>9, <2>3 DEF Redeem
<1>10. QED
  BY <1>1, <1>4, <1>5, <1>6, <1>7, <1>8, <1>9
  DEF Next, OtherNext, AdmitStart, StartFails, LoseCheck, vars, pairingVars

\* The history of credentials stays sound: IssuedGrantsUsedUp, GrantUsedOnce and
\* CredentialMatchesGrant are preserved together.
LEMMA HistoryStep ==
  ASSUME IInv, [Next]_vars
  PROVE  /\ IssuedGrantsUsedUp'
         /\ GrantUsedOnce'
         /\ CredentialMatchesGrant'
<1> DEFINE StillUsedUp(x) == \/ x = Administrator
                             \/ x \in References /\ reference'[x].resultado = "consumed"
                             \/ x \in Sessions /\ session'[x].estado = "consumed"
<1>1. /\ minted \in Nat /\ 1..minted \subseteq Credentials
      /\ \A g \in Gateways : gateway[g].credencial \in Nat
      /\ \A g \in Gateways : gateway[g].credencial # NoCredential => gateway[g].credencial \in 1..minted
  BY LifecycleBounds
  DEF IInv, TypeOK, LifecycleTypeOK, GatewayRow, Credentials, NoCredential, IssuedGrantsUsedUp
<1>2. \A m \in 1..minted : StillUsedUp(issuedBy[m])
  <2>1. \A x : UsedUp(x) => StillUsedUp(x)
    BY EndedStays DEF IInv, UsedUp, TerminalStates
  <2>2. QED
    BY <2>1 DEF IInv, IssuedGrantsUsedUp
<1>3. CASE UNCHANGED <<gateway, minted, issuedBy>>
  BY <1>3, <1>2, EndedStays
  DEF IInv, IssuedGrantsUsedUp, UsedUp, GrantUsedOnce, CredentialMatchesGrant, TerminalStates
<1>4. ASSUME NEW g \in Gateways, ProvisionGateway(g) \/ RevokeGateway(g)
      PROVE  IssuedGrantsUsedUp' /\ GrantUsedOnce' /\ CredentialMatchesGrant'
  <2>1. /\ UNCHANGED <<minted, issuedBy>>
        /\ \A h \in Gateways : gateway'[h].credencial \in {NoCredential, gateway[h].credencial}
    BY <1>4 DEF ProvisionGateway, RevokeGateway, IInv, TypeOK, LifecycleTypeOK
  <2>2. QED
    BY <1>1, <1>2, <2>1, EndedStays
    DEF IInv, IssuedGrantsUsedUp, UsedUp, GrantUsedOnce, CredentialMatchesGrant, TerminalStates,
        NoCredential
<1>5. ASSUME NEW g \in Gateways, NEW replace \in BOOLEAN, NEW grant \in Grants,
             Issues(g, replace, grant)
      PROVE  IssuedGrantsUsedUp' /\ GrantUsedOnce' /\ CredentialMatchesGrant'
  <2>1. /\ minted' = minted + 1 /\ minted + 1 \in Credentials
        /\ issuedBy'[minted + 1] = grant
        /\ \A m \in 1..minted : issuedBy'[m] = issuedBy[m]
    BY <1>1, <1>5, LifecycleBounds
    DEF Issues, ActivateGateway, IInv, TypeOK, LifecycleTypeOK, Credentials
  <2>2. /\ gateway'[g].credencial = minted + 1
        /\ \A h \in Gateways : h # g => gateway'[h] = gateway[h]
    BY <1>5 DEF Issues, ActivateGateway, IInv, TypeOK, LifecycleTypeOK
  <2>3. /\ StillUsedUp(grant)
        /\ grant = Administrator \/ ~UsedUp(grant)
        /\ grant \in References => reference'[grant].pasarela = g
        /\ grant \in Sessions => session'[grant].pasarela = g
    BY <1>5, IssuesUsesUp DEF UsedUp
  <2>4. IssuedGrantsUsedUp'
    BY <1>1, <1>2, <2>1, <2>2, <2>3 DEF IInv, IssuedGrantsUsedUp, UsedUp
  <2>5. GrantUsedOnce'
    <3>1. \A m \in 1..minted : issuedBy[m] = grant => grant = Administrator
      BY <2>3 DEF IInv, IssuedGrantsUsedUp
    <3>2. QED
      BY <1>1, <2>1, <3>1 DEF IInv, GrantUsedOnce
  <2>6. CredentialMatchesGrant'
    <3>1. ASSUME NEW h \in Gateways, h # g, gateway'[h].credencial # NoCredential
          PROVE  LET was == issuedBy'[gateway'[h].credencial] IN
                   \/ was = Administrator
                   \/ was \in References /\ reference'[was].resultado = "consumed"
                      /\ reference'[was].pasarela = h
                   \/ was \in Sessions /\ session'[was].estado = "consumed"
                      /\ session'[was].pasarela = h
      <4>1. gateway'[h].credencial = gateway[h].credencial /\ gateway[h].credencial \in 1..minted
        BY <1>1, <2>2, <3>1
      <4>2. issuedBy'[gateway'[h].credencial] = issuedBy[gateway[h].credencial]
        BY <2>1, <4>1
      <4>3. QED
        BY <3>1, <4>1, <4>2, EndedStays DEF IInv, CredentialMatchesGrant, TerminalStates
    <3>2. \/ grant = Administrator
          \/ grant \in References /\ reference'[grant].resultado = "consumed"
             /\ reference'[grant].pasarela = g
          \/ grant \in Sessions /\ session'[grant].estado = "consumed"
             /\ session'[grant].pasarela = g
      BY <2>3
    <3>3. QED
      BY <2>1, <2>2, <3>1, <3>2 DEF CredentialMatchesGrant
  <2>7. QED
    BY <2>4, <2>5, <2>6
<1>6. QED
  BY <1>3, <1>4, <1>5, GatewaySteps DEF IssueReference

\* IInv is inductive.
THEOREM Inductive == Spec => []IInv
<1>1. IInv /\ [Next]_vars => IInv'
  BY StepTyped, CredentialIffActiveStep, OutstandingReferencePendingStep,
     ApprovedSessionBoundStep, HistoryStep DEF IInv
<1>2. QED
  BY <1>1, InitIInv, PTL DEF Spec

\* A gateway holds a credential exactly while it is active.
THEOREM HoldsCredentialIffActive == Spec => []CredentialIffActive
  BY Inductive, PTL DEF IInv

\* At most one outstanding reference per gateway, and only while it is pending.
THEOREM ReferencesNeverOutlivePending == Spec => []OutstandingReferencePending
  BY Inductive, PTL DEF IInv

\* No reference and no pairing session ever yields two credentials.
THEOREM GrantsAreSingleUse == Spec => []GrantUsedOnce
  BY Inductive, PTL DEF IInv

\* The credential a gateway holds was issued for that gateway.
THEOREM CredentialsMatchGrants == Spec => []CredentialMatchesGrant
  BY Inductive, PTL DEF IInv

-----------------------------------------------------------------------------
(* Action properties of credentials *)

\* An issued credential uses up its grant in the same step, unless an
\* administrator asked for it.
LEMMA IssuesUsedNow ==
  ASSUME IInv, NEW g \in Gateways, NEW replace \in BOOLEAN, NEW grant \in Grants,
         Issues(g, replace, grant)
  PROVE  \/ replace /\ issuedBy'[minted'] = Administrator
         \/ UsedNow(g, IF replace THEN "rotation" ELSE "activation")
<1>1. issuedBy'[minted'] = grant
  BY LifecycleBounds
  DEF Issues, ActivateGateway, IInv, TypeOK, LifecycleTypeOK, Credentials
<1>2. CASE grant = Administrator /\ replace
  BY <1>1, <1>2
<1>3. CASE /\ grant \in Outstanding(g) /\ ~replace
           /\ reference' = [reference EXCEPT ![grant].resultado = "consumed"]
  BY <1>1, <1>3 DEF UsedNow, Outstanding, IInv, TypeOK, LifecycleTypeOK, ReferenceRow
<1>4. CASE /\ grant \in Sessions
           /\ session[grant].estado = "approved" /\ session'[grant].estado = "consumed"
           /\ session[grant].pasarela = g
           /\ session[grant].proposito = IF replace THEN "rotation" ELSE "activation"
  BY <1>1, <1>4 DEF UsedNow
<1>5. QED
  BY <1>2, <1>3, <1>4 DEF Issues

\* A gateway is activated only with one valid grant of its own, and no other
\* reference is left to activate it again.
THEOREM ActivationsUseOneGrant == Spec => ActivationUsesOneGrant
<1> DEFINE Lawful == \A g \in Gateways :
                       gateway[g].estado # "active" /\ gateway'[g].estado = "active" =>
                         /\ gateway[g].estado = "pending_activation"
                         /\ UsedNow(g, "activation")
                         /\ \A r \in Outstanding(g) : reference'[r].resultado # "issued"
<1>1. ASSUME IInv, [Next]_vars
      PROVE  Lawful
  <2>1. CASE UNCHANGED gateway
    BY <2>1
  <2>2. ASSUME NEW g \in Gateways, ProvisionGateway(g) \/ RevokeGateway(g)
        PROVE  Lawful
    <3>1. \A h \in Gateways : gateway'[h].estado = "active" => gateway'[h] = gateway[h]
      BY <1>1, <2>2 DEF ProvisionGateway, RevokeGateway, IInv, TypeOK, LifecycleTypeOK
    <3>2. QED
      BY <3>1
  <2>3. ASSUME NEW g \in Gateways, NEW replace \in BOOLEAN, NEW grant \in Grants,
               Issues(g, replace, grant)
        PROVE  Lawful
    <3>1. \A h \in Gateways : h # g => gateway'[h] = gateway[h]
      BY <1>1, <2>3 DEF Issues, ActivateGateway, IInv, TypeOK, LifecycleTypeOK
    <3>2. CASE replace
      BY <2>3, <3>1, <3>2 DEF Issues, ActivateGateway, MayInstall
    <3>3. CASE ~replace
      <4>1. gateway[g].estado = "pending_activation"
        BY <2>3, <3>3 DEF Issues, ActivateGateway, MayInstall
      <4>2. UsedNow(g, "activation")
        BY <1>1, <2>3, <3>3, IssuesUsedNow
      <4>3. \A r \in Outstanding(g) : reference'[r].resultado # "issued"
        <5>1. CASE reference' = RevokeOutstanding(g)
          BY <1>1, <5>1
          DEF RevokeOutstanding, Outstanding, ReferenceRow, IInv, TypeOK, LifecycleTypeOK
        <5>2. CASE /\ grant \in Outstanding(g)
                   /\ reference' = [reference EXCEPT ![grant].resultado = "consumed"]
          <6>1. Outstanding(g) = {grant}
            BY <1>1, <5>2 DEF Outstanding, IInv, OutstandingReferencePending
          <6>2. grant \in References /\ reference'[grant].resultado = "consumed"
            BY <1>1, <5>2 DEF Outstanding, IInv, TypeOK, LifecycleTypeOK, ReferenceRow
          <6>3. QED
            BY <6>1, <6>2
        <5>3. QED
          BY <2>3, <3>3, <5>1, <5>2 DEF Issues
      <4>4. QED
        BY <3>1, <4>1, <4>2, <4>3
    <3>4. QED
      BY <3>2, <3>3
  <2>4. QED
    BY <1>1, <2>1, <2>2, <2>3, GatewaySteps DEF IssueReference
<1>2. IInv /\ [Next]_vars => [Lawful]_vars
  BY <1>1
<1>3. QED
  BY <1>2, Inductive, PTL DEF Spec, ActivationUsesOneGrant

\* A working gateway's credential is replaced only by an administrator or by a
\* session approved for exactly that.
THEOREM RotationsNeedConsent == Spec => RotationNeedsConsent
<1> DEFINE Lawful == \A g \in Gateways :
                       /\ gateway[g].estado = "active" /\ gateway'[g].estado = "active"
                       /\ gateway'[g].credencial # gateway[g].credencial
                       => issuedBy'[minted'] = Administrator \/ UsedNow(g, "rotation")
<1>1. ASSUME IInv, [Next]_vars
      PROVE  Lawful
  <2>1. CASE UNCHANGED gateway
    BY <2>1
  <2>2. ASSUME NEW g \in Gateways, ProvisionGateway(g) \/ RevokeGateway(g)
        PROVE  Lawful
    <3>1. \A h \in Gateways : gateway'[h].estado = "active" => gateway'[h] = gateway[h]
      BY <1>1, <2>2 DEF ProvisionGateway, RevokeGateway, IInv, TypeOK, LifecycleTypeOK
    <3>2. QED
      BY <3>1
  <2>3. ASSUME NEW g \in Gateways, NEW replace \in BOOLEAN, NEW grant \in Grants,
               Issues(g, replace, grant)
        PROVE  Lawful
    <3>1. \A h \in Gateways : h # g => gateway'[h] = gateway[h]
      BY <1>1, <2>3 DEF Issues, ActivateGateway, IInv, TypeOK, LifecycleTypeOK
    <3>2. CASE replace
      BY <1>1, <2>3, <3>1, <3>2, IssuesUsedNow
    <3>3. CASE ~replace
      BY <2>3, <3>1, <3>3 DEF Issues, ActivateGateway, MayInstall
    <3>4. QED
      BY <3>2, <3>3
  <2>4. QED
    BY <1>1, <2>1, <2>2, <2>3, GatewaySteps DEF IssueReference
<1>2. IInv /\ [Next]_vars => [Lawful]_vars
  BY <1>1
<1>3. QED
  BY <1>2, Inductive, PTL DEF Spec, RotationNeedsConsent

-----------------------------------------------------------------------------
(* Expiry *)

\* The operations on sessions other than a poll leave the lifecycle alone.
LEMMA OtherStepsKeepLifecycle ==
  ASSUME [Next]_vars, ~LifecycleNext, ~\E s \in Sessions, t \in RequestTimes : Redeem(s, t)
  PROVE  UNCHANGED lifecycleVars
<1>1. ASSUME NEW s \in Sessions, CheckWrongCodes(s) \/ LoseCheck(s)
      PROVE  UNCHANGED lifecycleVars
  BY <1>1 DEF CheckWrongCodes, LoseCheck
<1>2. ASSUME NEW s, NEW t, ExpireIfNeeded(s, t) \/ BumpWrongCode(s)
      PROVE  UNCHANGED lifecycleVars
  BY <1>2 DEF ExpireIfNeeded, BumpWrongCode
<1>3. ASSUME NEW t, NEW c, FindByUserCode(c, t)
      PROVE  UNCHANGED lifecycleVars
  BY <1>3, <1>2 DEF FindByUserCode
<1>4. ASSUME NEW t, NEW c, NEW s, CreateSession(s, c, t) \/ DenySession(s, c, t)
      PROVE  UNCHANGED lifecycleVars
  BY <1>4, <1>2 DEF CreateSession, DenySession
<1>5. ASSUME NEW t, NEW c, NEW s, NEW g, NEW replace, ApproveSession(s, c, g, replace, t)
      PROVE  UNCHANGED lifecycleVars
  BY <1>5, <1>2 DEF ApproveSession
<1>6. QED
  BY <1>1, <1>3, <1>4, <1>5 DEF Next, OtherNext, AdmitStart, StartFails, vars

\* A session becomes approved or consumed only by a request whose own time is
\* before the session's end.
LEMMA ProgressIsInTime ==
  ASSUME TypeOK, [Next]_vars, NEW s \in Sessions,
         session'[s].estado \in {"approved", "consumed"}, session'[s].estado # session[s].estado
  PROVE  \E t \in RequestTimes : ~Overdue(s, t)
<1> USE DEF TypeOK
<1>1. ASSUME NEW x \in Sessions, NEW t, ExpireIfNeeded(x, t)
      PROVE  FALSE
  BY <1>1 DEF ExpireIfNeeded
<1>2. ASSUME NEW x \in Sessions, BumpWrongCode(x)
      PROVE  FALSE
  BY <1>2 DEF BumpWrongCode, SessionRow
<1>3. ASSUME NEW x \in Sessions, CheckWrongCodes(x)
      PROVE  FALSE
  BY <1>3 DEF CheckWrongCodes
<1>4. ASSUME NEW t, NEW c, FindByUserCode(c, t)
      PROVE  FALSE
  BY <1>4, <1>1 DEF FindByUserCode, LiveSessions
<1>5. ASSUME NEW t, NEW c, NEW x \in Sessions, CreateSession(x, c, t)
      PROVE  FALSE
  BY <1>5 DEF CreateSession
<1>6. ASSUME NEW t, NEW c, NEW x \in Sessions, DenySession(x, c, t)
      PROVE  FALSE
  <2>1. CASE session' = [session EXCEPT ![x].estado = "denied"]
    BY <2>1
  <2>2. QED
    BY <1>1, <1>2, <1>6, <2>1 DEF DenySession
<1>7. ASSUME NEW t \in RequestTimes, NEW c, NEW x \in Sessions, NEW g, NEW replace,
             ApproveSession(x, c, g, replace, t)
      PROVE  ~Overdue(s, t)
  BY <1>1, <1>2, <1>7 DEF ApproveSession
<1>8. ASSUME NEW t \in RequestTimes, NEW x \in Sessions, Redeem(x, t)
      PROVE  ~Overdue(s, t)
  <2>1. x = s /\ RowAfterPoll(s, t).estado # session[s].estado
    BY <1>8 DEF Redeem
  <2>2. RowAfterPoll(s, t).estado = "consumed"
    BY <1>8, <2>1 DEF Redeem, RowAfterPoll, SessionRow
  <2>3. session[s].estado # "none" /\ session[s].estado # "consumed"
    BY <1>8, <2>1, <2>2 DEF Redeem
  <2>4. PollAnswer(s, t) = "credential"
    BY <2>1, <2>2, <2>3 DEF RowAfterPoll, SessionRow
  <2>5. QED
    BY <2>3, <2>4 DEF PollAnswer, Overdue, Live, LiveStates
<1>9. QED
  BY <1>3, <1>4, <1>5, <1>6, <1>7, <1>8
  DEF Next, OtherNext, AdmitStart, StartFails, LoseCheck, vars, pairingVars

\* No grant is used later than its end by more than a request may be delayed.
THEOREM GrantsAreUsedInTime == Spec => GrantsUsedInTime
<1> DEFINE RefsInTime == \A r \in References :
                           reference[r].resultado = "issued" /\ reference'[r].resultado = "consumed"
                             => clock < reference[r].expira + Latency
           SessionsInTime == \A s \in Sessions :
                               Live(s) /\ session'[s].estado \in {"approved", "consumed"}
                                 /\ session'[s].estado # session[s].estado
                                 => clock < session[s].expira + Latency
<1>1. ASSUME IInv, [Next]_vars
      PROVE  RefsInTime
  <2> USE DEF IInv, TypeOK, LifecycleTypeOK
  <2>1. CASE UNCHANGED reference
    BY <2>1
  <2>2. ASSUME NEW g, NEW r \in References, reference'[r] = RevokeOutstanding(g)[r]
        PROVE  ~(reference[r].resultado = "issued" /\ reference'[r].resultado = "consumed")
    <3>1. CASE r \in Outstanding(g)
      <4>1. reference'[r] = [reference[r] EXCEPT !.resultado = "revoked"]
        BY <2>2, <3>1 DEF RevokeOutstanding
      <4>2. reference[r] \in ReferenceRow
        BY <1>1
      <4>3. QED
        BY <4>1, <4>2 DEF ReferenceRow
    <3>2. CASE r \notin Outstanding(g)
      BY <2>2, <3>2 DEF RevokeOutstanding
    <3>3. QED
      BY <3>1, <3>2
  <2>3. ASSUME NEW g, reference' = RevokeOutstanding(g)
        PROVE  RefsInTime
    BY <2>2, <2>3
  <2>4. ASSUME NEW g \in Gateways, NEW q \in References, IssueReference(g, q)
        PROVE  RefsInTime
    <3>1. \A r \in References : r # q => reference'[r] = RevokeOutstanding(g)[r]
      BY <2>4 DEF IssueReference, RevokeOutstanding
    <3>2. reference[q].resultado = "unissued"
      BY <2>4 DEF IssueReference
    <3>3. QED
      BY <2>2, <3>1, <3>2
  <2>5. ASSUME NEW q \in References, NEW t \in RequestTimes, Activate(q, t)
        PROVE  RefsInTime
    <3>1. clock < reference[q].expira + Latency
      <4>1. t \in Nat /\ clock \in Nat /\ clock <= t + Latency /\ Latency \in Nat
        BY <1>1, LifecycleBounds DEF RequestTimes
      <4>2. reference[q].expira \in Nat
        BY <1>1 DEF ReferenceRow
      <4>3. reference[q].expira > t
        BY <2>5 DEF Activate
      <4>4. QED
        BY <4>1, <4>2, <4>3
    <3>2. \A r \in References : r # q => reference'[r] = reference[r]
      BY <2>5 DEF Activate
    <3>3. QED
      BY <3>1, <3>2
  <2>6. CASE LifecycleNext
    BY <2>1, <2>3, <2>4, <2>5, <2>6
    DEF LifecycleNext, Tick, ProvisionGateway, RotateCredential, RevokeGateway
  <2>7. CASE \E s \in Sessions, t \in RequestTimes : Redeem(s, t)
    BY <2>1, <2>3, <2>7 DEF Redeem
  <2>8. CASE ~LifecycleNext /\ ~\E s \in Sessions, t \in RequestTimes : Redeem(s, t)
    <3>1. UNCHANGED reference
      BY <1>1, <2>8, OtherStepsKeepLifecycle DEF lifecycleVars
    <3>2. QED
      BY <2>1, <3>1
  <2>9. QED
    BY <2>6, <2>7, <2>8
<1>2. ASSUME IInv, [Next]_vars
      PROVE  SessionsInTime
  <2>1. ASSUME NEW s \in Sessions, NEW t \in RequestTimes, Live(s), ~Overdue(s, t)
        PROVE  clock < session[s].expira + Latency
    BY <1>2, <2>1, LifecycleBounds
    DEF Overdue, RequestTimes, IInv, TypeOK, LifecycleTypeOK, SessionRow
  <2>2. ASSUME NEW s \in Sessions, session'[s].estado \in {"approved", "consumed"},
               session'[s].estado # session[s].estado
        PROVE  \E t \in RequestTimes : ~Overdue(s, t)
    BY <1>2, <2>2, ProgressIsInTime DEF IInv
  <2>3. QED
    BY <2>1, <2>2
<1>3. IInv /\ [Next]_vars => [RefsInTime /\ SessionsInTime]_vars
  BY <1>1, <1>2
<1>4. QED
  BY <1>3, Inductive, PTL DEF Spec, GrantsUsedInTime

-----------------------------------------------------------------------------
(* Limits of live sessions *)

\* Only the insert of a start makes a session live, and it makes one.
LEMMA OnlyStartsMakeLive ==
  ASSUME TypeOK, [Next]_vars
  PROVE  \/ \E s \in Sessions : /\ starting' = starting - 1 /\ starting > 0
                              /\ LiveSessions' \subseteq LiveSessions \cup {s}
         \/ LiveSessions' \subseteq LiveSessions /\ (AdmitStart \/ starting' <= starting)
<1> DEFINE Quiet == LiveSessions' \subseteq LiveSessions /\ (AdmitStart \/ starting' <= starting)
<1> USE DEF TypeOK, LiveSessions, Live, LiveStates
<1>1. CASE UNCHANGED session /\ (AdmitStart \/ StartFails \/ UNCHANGED starting)
  BY <1>1 DEF StartFails
<1>2. ASSUME NEW s \in Sessions, UNCHANGED starting,
             \A x \in Sessions : x # s => session'[x] = session[x],
             session'[s].estado \in LiveStates => session[s].estado \in LiveStates
      PROVE  Quiet
  BY <1>2
<1>3. ASSUME NEW s \in Sessions, NEW t, ExpireIfNeeded(s, t)
      PROVE  Quiet
  BY <1>3, <1>2 DEF ExpireIfNeeded, Overdue
<1>4. ASSUME NEW s \in Sessions, BumpWrongCode(s)
      PROVE  Quiet
  BY <1>4, <1>2 DEF BumpWrongCode, SessionRow
<1>5. ASSUME NEW s \in Sessions, CheckWrongCodes(s)
      PROVE  Quiet
  BY <1>5, <1>2 DEF CheckWrongCodes
<1>6. ASSUME NEW t, NEW c, FindByUserCode(c, t)
      PROVE  Quiet
  BY <1>6, <1>3 DEF FindByUserCode
<1>7. ASSUME NEW s \in Sessions, NEW t, NEW c, DenySession(s, c, t)
      PROVE  Quiet
  BY <1>7, <1>2, <1>3, <1>4 DEF DenySession
<1>8. ASSUME NEW s \in Sessions, NEW t, NEW c, NEW g, NEW replace, ApproveSession(s, c, g, replace, t)
      PROVE  Quiet
  BY <1>8, <1>2, <1>3, <1>4 DEF ApproveSession
<1>9. ASSUME NEW s \in Sessions, NEW t, Redeem(s, t)
      PROVE  Quiet
  <2>1. ~Live(s) => RowAfterPoll(s, t) = session[s]
    BY DEF RowAfterPoll
  <2>2. QED
    BY <1>9, <1>2, <2>1 DEF Redeem
<1>10. ASSUME NEW s \in Sessions, NEW t, NEW c, CreateSession(s, c, t)
       PROVE  /\ starting' = starting - 1 /\ starting > 0
              /\ LiveSessions' \subseteq LiveSessions \cup {s}
  BY <1>10 DEF CreateSession
<1>11. QED
  BY <1>1, <1>5, <1>6, <1>7, <1>8, <1>9, <1>10
  DEF Next, OtherNext, AdmitStart, StartFails, LoseCheck, vars, pairingVars

\* Live sessions exceed the limit by less than the start requests in flight.
THEOREM CapacityOvershootIsBounded == Spec => []CapacityOvershootBounded
<1> DEFINE LInv == IsFiniteSet(LiveSessions) /\ CapacityOvershootBounded
<1>1. ASSUME Init
      PROVE  LInv
  <2>1. LiveSessions = {}
    BY <1>1 DEF Init, LiveSessions, Live, LiveStates, NoSession
  <2>2. QED
    BY <1>1, <2>1, FS_EmptySet, PairingBounds DEF Init, CapacityOvershootBounded
<1>2. ASSUME TypeOK, LInv, [Next]_vars
      PROVE  LInv'
  <2>1. Cardinality(LiveSessions) \in Nat /\ starting \in Nat /\ starting <= MaxStarts
    BY <1>2, FS_CardinalityType, PairingBounds DEF TypeOK
  <2>2. CASE LiveSessions' \subseteq LiveSessions /\ (AdmitStart \/ starting' <= starting)
    <3>1. /\ IsFiniteSet(LiveSessions') /\ Cardinality(LiveSessions') \in Nat
          /\ Cardinality(LiveSessions') <= Cardinality(LiveSessions)
      BY <1>2, <2>2, FS_Subset, FS_CardinalityType
    <3>2. starting' \in Nat
      BY <1>2, StepTyped, PairingBounds DEF TypeOK
    <3>3. CASE AdmitStart
      BY <2>1, <3>1, <3>3, PairingBounds DEF AdmitStart, AtCapacity, CapacityOvershootBounded
    <3>4. CASE starting' <= starting
      BY <1>2, <2>1, <3>1, <3>2, <3>4, PairingBounds DEF CapacityOvershootBounded
    <3>5. QED
      BY <2>2, <3>3, <3>4
  <2>3. ASSUME NEW s \in Sessions, starting' = starting - 1, starting > 0,
               LiveSessions' \subseteq LiveSessions \cup {s}
        PROVE  LInv'
    <3>1. /\ IsFiniteSet(LiveSessions \cup {s})
          /\ Cardinality(LiveSessions \cup {s}) <= Cardinality(LiveSessions) + 1
          /\ Cardinality(LiveSessions \cup {s}) \in Nat
      BY <1>2, <2>1, FS_AddElement, FS_CardinalityType
    <3>2. /\ IsFiniteSet(LiveSessions') /\ Cardinality(LiveSessions') \in Nat
          /\ Cardinality(LiveSessions') <= Cardinality(LiveSessions \cup {s})
      BY <2>3, <3>1, FS_Subset, FS_CardinalityType
    <3>3. QED
      BY <1>2, <2>1, <2>3, <3>1, <3>2, PairingBounds DEF CapacityOvershootBounded
  <2>4. QED
    BY <1>2, <2>2, <2>3, OnlyStartsMakeLive
<1>3. QED
  BY <1>1, <1>2, TypeCorrect, PTL DEF Spec

\* Once the wrong codes of a session reach the limit and are checked, it is over.
THEOREM LockedOutSessionsAreOver == Spec => []LockedOutSessionIsOver
<1>1. Init => LockedOutSessionIsOver
  BY DEF Init, LockedOutSessionIsOver, Live, LiveStates, NoSession
<1>2. ASSUME TypeOK, LockedOutSessionIsOver, ~ProcessCrashes, [Next]_vars
      PROVE  LockedOutSessionIsOver'
  <2> USE DEF TypeOK, LockedOutSessionIsOver, Live
  <2>1. ASSUME NEW s \in Sessions, NEW t, ExpireIfNeeded(s, t)
        PROVE  LockedOutSessionIsOver'
    BY <1>2, <2>1 DEF ExpireIfNeeded, LiveStates, SessionRow
  <2>2. ASSUME NEW s \in Sessions, BumpWrongCode(s)
        PROVE  LockedOutSessionIsOver'
    BY <1>2, <2>2 DEF BumpWrongCode, SessionRow
  <2>3. ASSUME NEW s \in Sessions, CheckWrongCodes(s)
        PROVE  LockedOutSessionIsOver'
    BY <1>2, <2>3 DEF CheckWrongCodes, LiveStates, SessionRow
  <2>4. ASSUME NEW s \in Sessions, NEW t, Redeem(s, t)
        PROVE  LockedOutSessionIsOver'
    <3>1. RowAfterPoll(s, t).fallidos = session[s].fallidos
      BY DEF RowAfterPoll, SessionRow
    <3>2. ~Live(s) => RowAfterPoll(s, t) = session[s]
      BY DEF RowAfterPoll
    <3>3. QED
      BY <1>2, <2>4, <3>1, <3>2 DEF Redeem
  <2>5. ASSUME NEW s \in Sessions, NEW t, NEW c, CreateSession(s, c, t)
        PROVE  LockedOutSessionIsOver'
    BY <1>2, <2>5, PairingBounds DEF CreateSession, NoSession
  <2>6. ASSUME NEW s \in Sessions, NEW t, NEW c, DenySession(s, c, t)
        PROVE  LockedOutSessionIsOver'
    BY <1>2, <2>6, <2>1, <2>2 DEF DenySession, LiveStates, SessionRow
  <2>7. ASSUME NEW s \in Sessions, NEW t, NEW c, NEW g, NEW replace, ApproveSession(s, c, g, replace, t)
        PROVE  LockedOutSessionIsOver'
    BY <1>2, <2>7, <2>1, <2>2 DEF ApproveSession, LiveStates, SessionRow
  <2>8. ASSUME NEW t, NEW c, FindByUserCode(c, t)
        PROVE  LockedOutSessionIsOver'
    BY <2>8, <2>1 DEF FindByUserCode, LiveSessions
  <2>9. CASE UNCHANGED <<session, checking>>
    BY <1>2, <2>9
  <2>10. QED
    BY <1>2, <2>3, <2>4, <2>5, <2>6, <2>7, <2>8, <2>9
    DEF Next, OtherNext, AdmitStart, StartFails, LoseCheck, vars, pairingVars
<1>3. ProcessCrashes => LockedOutSessionIsOver'
  BY DEF LockedOutSessionIsOver
<1>4. TypeOK /\ LockedOutSessionIsOver /\ [Next]_vars => LockedOutSessionIsOver'
  BY <1>2, <1>3
<1>5. QED
  BY <1>1, <1>4, TypeCorrect, PTL DEF Spec

=============================================================================
