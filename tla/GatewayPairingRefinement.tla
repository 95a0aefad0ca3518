---------------------- MODULE GatewayPairingRefinement ----------------------
(***************************************************************************)
(* GatewayPairing implements CredentialGrants, for every value of the      *)
(* constants: every operation of the gateways' lifecycle and of pairing    *)
(* maps to one operation on abstract tickets, or to none.                  *)
(***************************************************************************)
EXTENDS GatewayPairingProofs

-----------------------------------------------------------------------------
(* How the mapped variables change *)

\* The holder of a gateway's credential changes only with its credential.
LEMMA HolderStays ==
  ASSUME IInv, [Next]_vars, NEW g \in Gateways, gateway'[g].credencial = gateway[g].credencial
  PROVE  holderBar'[g] = holderBar[g]
<1>1. gateway[g].credencial # NoCredential => gateway[g].credencial \in 1..minted
  BY DEF IInv, TypeOK, LifecycleTypeOK, GatewayRow, Credentials, NoCredential, IssuedGrantsUsedUp
<1>2. \A m \in 1..minted : issuedBy'[m] = issuedBy[m]
  <2>1. CASE UNCHANGED issuedBy
    BY <2>1
  <2>2. ASSUME NEW h \in Gateways, NEW replace, NEW grant, Issues(h, replace, grant)
        PROVE  \A m \in 1..minted : issuedBy'[m] = issuedBy[m]
    BY <2>2, LifecycleBounds
    DEF Issues, ActivateGateway, IInv, TypeOK, LifecycleTypeOK, Credentials
  <2>3. QED
    BY <2>1, <2>2, GatewaySteps DEF IssueReference, ProvisionGateway, RevokeGateway
<1>3. QED
  BY <1>1, <1>2 DEF holderBar, HolderOf

\* The ticket of a session changes only with its state, gateway and purpose.
LEMMA SessionTicket ==
  ASSUME NEW s \in Sessions
  PROVE  /\ ticketBar[s] = [status |-> SessionStatus(session[s].estado),
                            target |-> session[s].pasarela,
                            use |-> IF session[s].proposito = "rotation" THEN "renew" ELSE "activate"]
         /\ ticketBar'[s] = [status |-> SessionStatus(session'[s].estado),
                             target |-> session'[s].pasarela,
                             use |-> IF session'[s].proposito = "rotation" THEN "renew" ELSE "activate"]
  BY GrantsDistinct DEF ticketBar, TicketOf, Tickets

\* The ticket of a reference changes only with the reference.
LEMMA ReferenceTicket ==
  ASSUME NEW r \in References
  PROVE  /\ ticketBar[r] = [status |-> ReferenceStatus(reference[r].resultado),
                            target |-> reference[r].pasarela, use |-> "activate"]
         /\ ticketBar'[r] = [status |-> ReferenceStatus(reference'[r].resultado),
                             target |-> reference'[r].pasarela, use |-> "activate"]
  BY DEF ticketBar, TicketOf, Tickets

\* Revoking the outstanding references of g voids their tickets.
LEMMA RevokingVoids ==
  ASSUME IInv, NEW g, NEW r \in References, reference'[r] = RevokeOutstanding(g)[r]
  PROVE  ticketBar'[r] = Promise!Voiding(Outstanding(g))[r]
<1>1. CASE r \in Outstanding(g)
  <2>1. reference'[r] = [reference[r] EXCEPT !.resultado = "revoked"]
    BY <1>1 DEF RevokeOutstanding
  <2>2. reference'[r].resultado = "revoked" /\ reference'[r].pasarela = reference[r].pasarela
    BY <2>1 DEF IInv, TypeOK, LifecycleTypeOK, ReferenceRow
  <2>3. ticketBar'[r] = [ticketBar[r] EXCEPT !.status = "void"]
    <3>1. ticketBar[r] = [status |-> ReferenceStatus(reference[r].resultado),
                          target |-> reference[r].pasarela, use |-> "activate"]
      BY ReferenceTicket
    <3>2. ticketBar'[r] = [status |-> "void", target |-> reference[r].pasarela, use |-> "activate"]
      BY <2>2, ReferenceTicket DEF ReferenceStatus
    <3>3. QED
      BY <3>1, <3>2
  <2>4. QED
    BY <1>1, <2>3 DEF Promise!Voiding, Tickets
<1>2. CASE r \notin Outstanding(g)
  <2>1. reference'[r] = reference[r]
    BY <1>2 DEF RevokeOutstanding
  <2>2. QED
    BY <1>2, <2>1, ReferenceTicket DEF Promise!Voiding, Tickets
<1>3. QED
  BY <1>1, <1>2

-----------------------------------------------------------------------------
(* Initial states *)

\* Initial states map to initial states.
LEMMA InitMaps == Init => Promise!Init
<1> SUFFICES ASSUME Init
             PROVE  Promise!Init
  OBVIOUS
<1>1. \A g \in Gateways : PhaseOf(gateway[g].estado) = "closed" /\ HolderOf(g) = NoOne
  BY DEF Init, LifecycleInit, PhaseOf, HolderOf, NoCredential
<1>2. \A x \in Tickets : TicketOf(x) = [status |-> "blank", target |-> NoOne, use |-> "activate"]
  BY DEF Init, LifecycleInit, TicketOf, Tickets, ReferenceStatus, SessionStatus, NoSession
<1>3. QED
  BY <1>1, <1>2 DEF Promise!Init, Tickets, phaseBar, holderBar, ticketBar

-----------------------------------------------------------------------------
(* Steps *)

\* Expiring or denying a live session voids its ticket.
LEMMA EndingVoids ==
  ASSUME IInv, [Next]_vars, NEW s \in Sessions, Live(s),
         session'[s].estado \in {"denied", "expired"},
         session'[s].pasarela = session[s].pasarela,
         session'[s].proposito = session[s].proposito,
         \A x \in Sessions : x # s => session'[x] = session[x],
         UNCHANGED <<gateway, reference>>
  PROVE  Promise!Next
<1>1. phaseBar' = phaseBar
  BY DEF phaseBar
<1>2. holderBar' = holderBar
  BY HolderStays DEF holderBar
<1>3. SessionStatus(session[s].estado) \in {"blank", "offered"} /\ SessionStatus(session'[s].estado) = "void"
  BY DEF SessionStatus, Live, LiveStates
<1>4. {s} \in SUBSET Promise!Unspent
  <2>1. ticketBar[s] = [status |-> SessionStatus(session[s].estado), target |-> session[s].pasarela,
                        use |-> IF session[s].proposito = "rotation" THEN "renew" ELSE "activate"]
    BY SessionTicket
  <2>2. QED
    BY <1>3, <2>1 DEF Promise!Unspent, Promise!Status, Tickets
<1>5. \A x \in Tickets : ticketBar'[x] = Promise!Voiding({s})[x]
  <2>1. ticketBar'[s] = [ticketBar[s] EXCEPT !.status = "void"]
    <3> DEFINE use == IF session[s].proposito = "rotation" THEN "renew" ELSE "activate"
    <3>1. ticketBar[s] = [status |-> SessionStatus(session[s].estado),
                          target |-> session[s].pasarela, use |-> use]
      BY SessionTicket
    <3>2. ticketBar'[s] = [status |-> "void", target |-> session[s].pasarela, use |-> use]
      BY <1>3, SessionTicket
    <3> HIDE DEF use
    <3>3. QED
      BY <3>1, <3>2
  <2>2. ASSUME NEW x \in Tickets, x # s
        PROVE  ticketBar'[x] = ticketBar[x]
    BY <2>2, SessionTicket, ReferenceTicket DEF Tickets
  <2>3. QED
    BY <2>1, <2>2 DEF Promise!Voiding, Tickets
<1>6. ticketBar' = Promise!Voiding({s})
  BY <1>5 DEF Promise!Voiding, ticketBar
<1>7. Promise!Void({s})
  BY <1>1, <1>2, <1>6 DEF Promise!Void
<1>8. QED
  BY <1>4, <1>7 DEF Promise!Next

\* A step that changes no gateway, no reference and no session's state, gateway
\* or purpose maps to no step, and so does the insert of a start.
LEMMA QuietStutters ==
  ASSUME IInv, [Next]_vars, UNCHANGED <<gateway, reference>>,
         \A s \in Sessions :
           /\ SessionStatus(session'[s].estado) = SessionStatus(session[s].estado)
           /\ session'[s].pasarela = session[s].pasarela
           /\ session'[s].proposito = session[s].proposito
  PROVE  UNCHANGED Promise!ticketVars
<1>1. phaseBar' = phaseBar
  BY DEF phaseBar
<1>2. holderBar' = holderBar
  BY HolderStays DEF holderBar
<1>3. \A x \in Tickets : ticketBar'[x] = ticketBar[x]
  BY SessionTicket, ReferenceTicket DEF Tickets
<1>4. ticketBar' = ticketBar
  BY <1>3 DEF ticketBar
<1>5. QED
  BY <1>1, <1>2, <1>4 DEF Promise!ticketVars

\* An issued credential spends its ticket, or an administrator renews it.
LEMMA IssuesSpends ==
  ASSUME IInv, [Next]_vars, NEW g \in Gateways, NEW replace \in BOOLEAN, NEW grant \in Grants,
         Issues(g, replace, grant),
         \A x \in Sessions : x # grant => session'[x] = session[x],
         grant \in Sessions => session'[grant].proposito = session[grant].proposito
  PROVE  Promise!Next
<1>1. /\ gateway'[g].estado = "active" /\ gateway'[g].credencial = minted + 1
      /\ \A h \in Gateways : h # g => gateway'[h] = gateway[h]
      /\ gateway[g].estado = IF replace THEN "active" ELSE "pending_activation"
      /\ issuedBy'[minted + 1] = grant /\ minted \in Nat
  BY LifecycleBounds
  DEF Issues, ActivateGateway, MayInstall, IInv, TypeOK, LifecycleTypeOK, Credentials
<1>2. phaseBar[g] = IF replace THEN "live" ELSE "open"
  BY <1>1 DEF phaseBar, PhaseOf
<1>3. phaseBar' = [phaseBar EXCEPT ![g] = "live"]
  BY <1>1 DEF phaseBar, PhaseOf
<1>4. holderBar' = [holderBar EXCEPT ![g] = grant]
  <2>1. holderBar'[g] = grant
    BY <1>1 DEF holderBar, HolderOf, NoCredential
  <2>2. \A h \in Gateways : h # g => holderBar'[h] = holderBar[h]
    BY <1>1, HolderStays
  <2>3. QED
    BY <2>1, <2>2 DEF holderBar
<1>5. CASE grant = Administrator /\ replace /\ UNCHANGED <<reference, session>>
  <2>1. phaseBar' = phaseBar
    BY <1>2, <1>3, <1>5 DEF phaseBar
  <2>2. ticketBar' = ticketBar
    <3>1. \A x \in Tickets : ticketBar'[x] = ticketBar[x]
      BY <1>5, SessionTicket, ReferenceTicket DEF Tickets
    <3>2. QED
      BY <3>1 DEF ticketBar
  <2>3. Promise!Renew(g)
    BY <1>2, <1>4, <1>5, <2>1, <2>2 DEF Promise!Renew
  <2>4. QED
    BY <2>3 DEF Promise!Next
<1>6. CASE /\ grant \in Outstanding(g) /\ ~replace
           /\ reference' = [reference EXCEPT ![grant].resultado = "consumed"]
           /\ UNCHANGED session
  <2>1. /\ grant \in References /\ reference[grant].resultado = "issued" /\ reference[grant].pasarela = g
        /\ reference'[grant].resultado = "consumed" /\ reference'[grant].pasarela = g
        /\ \A r \in References : r # grant => reference'[r] = reference[r]
    BY <1>6 DEF Outstanding, IInv, TypeOK, LifecycleTypeOK, ReferenceRow
  <2>2. ticketBar[grant] = [status |-> "offered", target |-> g, use |-> "activate"]
    BY <2>1, ReferenceTicket DEF ReferenceStatus
  <2>3. ticketBar'[grant] = [ticketBar[grant] EXCEPT !.status = "spent"]
    BY <2>1, <2>2, ReferenceTicket DEF ReferenceStatus
  <2>4. \A x \in Tickets : x # grant => ticketBar'[x] = ticketBar[x]
    <3>1. \A x \in Sessions : ticketBar'[x] = ticketBar[x]
      BY <1>6, SessionTicket
    <3>2. \A x \in References : x # grant => ticketBar'[x] = ticketBar[x]
      BY <2>1, ReferenceTicket
    <3>3. QED
      BY <3>1, <3>2 DEF Tickets
  <2>5. ticketBar' = [Promise!Voiding({}) EXCEPT ![grant].status = "spent"]
    <3>1. Promise!Voiding({}) = ticketBar
      BY DEF Promise!Voiding, ticketBar
    <3>2. QED
      BY <2>3, <2>4, <3>1 DEF ticketBar
  <2>6. Promise!Spend(grant, {})
    BY <1>2, <1>3, <1>4, <1>6, <2>2, <2>5 DEF Promise!Spend, Promise!Status, Promise!UseIn
  <2>7. {} \in SUBSET Promise!Unspent /\ {} \ {grant} = {} /\ grant \in Tickets
    BY <2>1 DEF Tickets
  <2>8. QED
    BY <2>6, <2>7 DEF Promise!Next
<1>7. CASE /\ grant \in Sessions
           /\ session[grant].estado = "approved" /\ session'[grant].estado = "consumed"
           /\ session[grant].pasarela = g /\ session'[grant].pasarela = g
           /\ session[grant].proposito = IF replace THEN "rotation" ELSE "activation"
           /\ reference' = IF replace THEN reference ELSE RevokeOutstanding(g)
  <2> DEFINE V == IF replace THEN {} ELSE Outstanding(g)
  <2>1. ticketBar[grant] = [status |-> "offered", target |-> g, use |-> IF replace THEN "renew" ELSE "activate"]
    BY <1>7, SessionTicket DEF SessionStatus
  <2>2. ticketBar'[grant] = [ticketBar[grant] EXCEPT !.status = "spent"]
    BY <1>7, <2>1, SessionTicket DEF SessionStatus
  <2>3. grant \in Tickets /\ grant \notin V
    BY <1>7, GrantsDistinct DEF Tickets, Outstanding
  <2>4. \A x \in Tickets : x # grant => ticketBar'[x] = Promise!Voiding(V)[x]
    <3>1. ASSUME NEW x \in Sessions, x # grant
          PROVE  ticketBar'[x] = Promise!Voiding(V)[x]
      <4>1. ticketBar'[x] = ticketBar[x] /\ x \notin V /\ x \in Tickets
        BY <3>1, SessionTicket, GrantsDistinct DEF Outstanding, Tickets
      <4>2. QED
        BY <4>1 DEF Promise!Voiding
    <3>2. ASSUME NEW r \in References
          PROVE  ticketBar'[r] = Promise!Voiding(V)[r]
      <4>1. CASE replace
        BY <1>7, <4>1, ReferenceTicket DEF Promise!Voiding, Tickets
      <4>2. CASE ~replace
        BY <1>7, <4>2, RevokingVoids
      <4>3. QED
        BY <4>1, <4>2
    <3>3. QED
      BY <3>1, <3>2 DEF Tickets
  <2>5. ticketBar' = [Promise!Voiding(V) EXCEPT ![grant].status = "spent"]
    <3>1. Promise!Voiding(V)[grant] = ticketBar[grant]
      BY <2>3 DEF Promise!Voiding
    <3>2. QED
      BY <2>2, <2>3, <2>4, <3>1 DEF Promise!Voiding, ticketBar
  <2>6. Promise!Spend(grant, V)
    BY <1>2, <1>3, <1>4, <2>1, <2>5 DEF Promise!Spend, Promise!Status, Promise!UseIn
  <2>7. V \in SUBSET Promise!Unspent
    <3>1. ASSUME NEW r \in Outstanding(g)
          PROVE  r \in Promise!Unspent
      <4>1. r \in References /\ ReferenceStatus(reference[r].resultado) = "offered"
        BY DEF Outstanding, ReferenceStatus
      <4>2. ticketBar[r] = [status |-> "offered", target |-> reference[r].pasarela, use |-> "activate"]
        BY <4>1, ReferenceTicket
      <4>3. QED
        BY <4>1, <4>2 DEF Promise!Unspent, Promise!Status, Tickets
    <3>2. QED
      BY <3>1
  <2>8. V \ {grant} = V
    BY <2>3
  <2>9. QED
    BY <2>3, <2>6, <2>7, <2>8 DEF Promise!Next
<1>8. QED
  BY <1>5, <1>6, <1>7 DEF Issues

\* Provisioning opens, and revoking closes, the life of a gateway row.
LEMMA ProvisionOpens ==
  ASSUME IInv, [Next]_vars, UNCHANGED session, NEW g \in Gateways, ProvisionGateway(g)
  PROVE  Promise!Next
<1>1. /\ gateway'[g] = [estado |-> "pending_activation", credencial |-> NoCredential]
      /\ \A h \in Gateways : h # g => gateway'[h] = gateway[h]
      /\ gateway[g].estado \in {"none", "revoked"} /\ gateway[g].credencial = NoCredential
      /\ UNCHANGED reference
  BY DEF ProvisionGateway, IInv, TypeOK, LifecycleTypeOK, CredentialIffActive
<1>2. phaseBar[g] = "closed" /\ phaseBar' = [phaseBar EXCEPT ![g] = "open"]
  <2>1. phaseBar[g] = "closed" /\ phaseBar'[g] = "open"
    BY <1>1 DEF phaseBar, PhaseOf
  <2>2. \A h \in Gateways : h # g => phaseBar'[h] = phaseBar[h]
    BY <1>1 DEF phaseBar
  <2>3. QED
    BY <2>1, <2>2 DEF phaseBar
<1>3. holderBar' = holderBar
  BY <1>1, HolderStays DEF holderBar
<1>4. ticketBar' = ticketBar
  <2>1. \A x \in Tickets : ticketBar'[x] = ticketBar[x]
    BY <1>1, SessionTicket, ReferenceTicket DEF Tickets
  <2>2. QED
    BY <2>1 DEF ticketBar
<1>5. QED
  BY <1>2, <1>3, <1>4 DEF Promise!Next, Promise!Open

\* An outstanding reference is an unspent ticket.
LEMMA OutstandingUnspent ==
  ASSUME NEW g
  PROVE  Outstanding(g) \in SUBSET Promise!Unspent
<1>1. ASSUME NEW r \in Outstanding(g)
      PROVE  r \in Promise!Unspent
  <2>1. r \in References /\ ReferenceStatus(reference[r].resultado) = "offered"
    BY DEF Outstanding, ReferenceStatus
  <2>2. ticketBar[r] = [status |-> "offered", target |-> reference[r].pasarela, use |-> "activate"]
    BY <2>1, ReferenceTicket
  <2>3. QED
    BY <2>1, <2>2 DEF Promise!Unspent, Promise!Status, Tickets
<1>2. QED
  BY <1>1

\* A revocation closes the gateway.
LEMMA RevokeCloses ==
  ASSUME IInv, [Next]_vars, UNCHANGED session, NEW g \in Gateways, RevokeGateway(g)
  PROVE  Promise!Next
<1>1. /\ gateway'[g] = [estado |-> "revoked", credencial |-> NoCredential]
      /\ \A h \in Gateways : h # g => gateway'[h] = gateway[h]
      /\ gateway[g].estado \in {"pending_activation", "active"}
      /\ reference' = RevokeOutstanding(g)
  BY DEF RevokeGateway, IInv, TypeOK, LifecycleTypeOK
<1>2. phaseBar[g] # "closed" /\ phaseBar' = [phaseBar EXCEPT ![g] = "closed"]
  <2>1. phaseBar[g] # "closed" /\ phaseBar'[g] = "closed"
    BY <1>1 DEF phaseBar, PhaseOf
  <2>2. \A h \in Gateways : h # g => phaseBar'[h] = phaseBar[h]
    BY <1>1 DEF phaseBar
  <2>3. QED
    BY <2>1, <2>2 DEF phaseBar
<1>3. holderBar' = [holderBar EXCEPT ![g] = NoOne]
  <2>1. holderBar'[g] = NoOne
    BY <1>1 DEF holderBar, HolderOf
  <2>2. \A h \in Gateways : h # g => holderBar'[h] = holderBar[h]
    BY <1>1, HolderStays
  <2>3. QED
    BY <2>1, <2>2 DEF holderBar
<1>4. ticketBar' = Promise!Voiding(Outstanding(g))
  <2>1. \A r \in References : ticketBar'[r] = Promise!Voiding(Outstanding(g))[r]
    BY <1>1, RevokingVoids
  <2>2. ASSUME NEW s \in Sessions
        PROVE  ticketBar'[s] = Promise!Voiding(Outstanding(g))[s]
    <3>1. ticketBar'[s] = ticketBar[s] /\ s \notin Outstanding(g) /\ s \in Tickets
      BY SessionTicket, GrantsDistinct DEF Outstanding, Tickets
    <3>2. QED
      BY <3>1 DEF Promise!Voiding
  <2>3. QED
    BY <2>1, <2>2 DEF Promise!Voiding, ticketBar, Tickets
<1>5. Promise!Close(g, Outstanding(g))
  BY <1>2, <1>3, <1>4 DEF Promise!Close
<1>6. QED
  BY <1>5, OutstandingUnspent DEF Promise!Next

\* Issuing a reference and approving a session offer a ticket.
LEMMA IssueReferenceOffers ==
  ASSUME IInv, [Next]_vars, UNCHANGED session, NEW g \in Gateways, NEW r \in References,
         IssueReference(g, r)
  PROVE  Promise!Next
<1>1. /\ reference[r].resultado = "unissued" /\ gateway[g].estado = "pending_activation"
      /\ reference'[r].resultado = "issued" /\ reference'[r].pasarela = g
      /\ \A q \in References : q # r => reference'[q] = RevokeOutstanding(g)[q]
      /\ UNCHANGED <<gateway, issuedBy>>
  BY DEF IssueReference, RevokeOutstanding
<1>2. phaseBar[g] = "open" /\ phaseBar' = phaseBar
  BY <1>1 DEF phaseBar, PhaseOf
<1>3. holderBar' = holderBar
  BY <1>1 DEF holderBar, HolderOf
<1>4. r \notin Outstanding(g) /\ r \in Tickets
  BY <1>1 DEF Outstanding, Tickets
<1>5. ticketBar[r].status = "blank"
  <2>1. ticketBar[r] = [status |-> "blank", target |-> reference[r].pasarela, use |-> "activate"]
    BY <1>1, ReferenceTicket DEF ReferenceStatus
  <2>2. QED
    BY <2>1
<1>6. ticketBar'[r] = [status |-> "offered", target |-> g, use |-> "activate"]
  BY <1>1, ReferenceTicket DEF ReferenceStatus
<1>7. \A x \in Tickets : x # r => ticketBar'[x] = Promise!Voiding(Outstanding(g))[x]
  <2>1. \A q \in References : q # r => ticketBar'[q] = Promise!Voiding(Outstanding(g))[q]
    BY <1>1, RevokingVoids
  <2>2. ASSUME NEW s \in Sessions
        PROVE  ticketBar'[s] = Promise!Voiding(Outstanding(g))[s]
    <3>1. ticketBar'[s] = ticketBar[s] /\ s \notin Outstanding(g) /\ s \in Tickets
      BY SessionTicket, GrantsDistinct DEF Outstanding, Tickets
    <3>2. QED
      BY <3>1 DEF Promise!Voiding
  <2>3. QED
    BY <2>1, <2>2 DEF Tickets
<1>8. ticketBar' = [Promise!Voiding(Outstanding(g)) EXCEPT
                      ![r] = [status |-> "offered", target |-> g, use |-> "activate"]]
  BY <1>4, <1>6, <1>7 DEF Promise!Voiding, ticketBar
<1>9. Promise!Offer(r, g, Outstanding(g))
  BY <1>2, <1>3, <1>5, <1>8 DEF Promise!Offer, Promise!Status, Promise!UseIn
<1>10. Outstanding(g) \ {r} = Outstanding(g)
  BY <1>4
<1>11. QED
  BY <1>4, <1>9, <1>10, OutstandingUnspent DEF Promise!Next

\* An approval offers the session's ticket for its gateway.
LEMMA ApproveOffers ==
  ASSUME IInv, [Next]_vars, NEW s \in Sessions, NEW g \in Gateways, NEW replace \in BOOLEAN,
         session[s].estado = "pending", ApprovalPurpose(g, replace) # "none",
         session' = [session EXCEPT ![s].estado = "approved", ![s].pasarela = g,
                                    ![s].proposito = ApprovalPurpose(g, replace)],
         UNCHANGED lifecycleVars
  PROVE  Promise!Next
<1>1. /\ session'[s].estado = "approved" /\ session'[s].pasarela = g
      /\ session'[s].proposito = ApprovalPurpose(g, replace)
      /\ \A x \in Sessions : x # s => session'[x] = session[x]
      /\ UNCHANGED <<gateway, reference, issuedBy>>
  BY DEF IInv, TypeOK, SessionRow, lifecycleVars
<1>2. /\ phaseBar[g] \in {"open", "live"} /\ phaseBar' = phaseBar
      /\ session'[s].proposito = IF phaseBar[g] = "live" THEN "rotation" ELSE "activation"
  BY <1>1 DEF phaseBar, PhaseOf, ApprovalPurpose
<1>3. holderBar' = holderBar
  BY <1>1 DEF holderBar, HolderOf
<1>4. ticketBar[s].status = "blank"
  <2>1. ticketBar[s] = [status |-> "blank", target |-> session[s].pasarela,
                        use |-> IF session[s].proposito = "rotation" THEN "renew" ELSE "activate"]
    BY SessionTicket DEF SessionStatus
  <2>2. QED
    BY <2>1
<1>5. ticketBar'[s] = [status |-> "offered", target |-> g, use |-> Promise!UseIn(phaseBar[g])]
  <2>1. Promise!UseIn(phaseBar[g]) = IF session'[s].proposito = "rotation" THEN "renew" ELSE "activate"
    BY <1>2 DEF Promise!UseIn
  <2>2. SessionStatus(session'[s].estado) = "offered"
    BY <1>1 DEF SessionStatus
  <2>3. QED
    BY <1>1, <2>1, <2>2, SessionTicket
<1>6. \A x \in Tickets : x # s => ticketBar'[x] = ticketBar[x]
  <2>1. ASSUME NEW x \in Sessions, x # s
        PROVE  ticketBar'[x] = ticketBar[x]
    <3>1. session'[x] = session[x]
      BY <1>1, <2>1
    <3>2. QED
      BY <3>1, SessionTicket
  <2>2. \A x \in References : ticketBar'[x] = ticketBar[x]
    BY <1>1, ReferenceTicket
  <2>3. QED
    BY <2>1, <2>2 DEF Tickets
<1>7. s \in Tickets /\ Promise!Voiding({}) = ticketBar
  BY DEF Tickets, Promise!Voiding, ticketBar
<1>8. ticketBar' = [Promise!Voiding({}) EXCEPT
                      ![s] = [status |-> "offered", target |-> g, use |-> Promise!UseIn(phaseBar[g])]]
  BY <1>5, <1>6, <1>7 DEF ticketBar
<1>9. Promise!Offer(s, g, {})
  BY <1>2, <1>3, <1>4, <1>8 DEF Promise!Offer, Promise!Status
<1>10. {} \in SUBSET Promise!Unspent /\ {} \ {s} = {}
  OBVIOUS
<1>11. QED
  BY <1>7, <1>9, <1>10 DEF Promise!Next

\* Every step of GatewayPairing maps to a step of CredentialGrants or to none.
LEMMA StepMaps ==
  ASSUME IInv, [Next]_vars
  PROVE  Promise!Next \/ UNCHANGED Promise!ticketVars
<1> DEFINE Maps == Promise!Next \/ UNCHANGED Promise!ticketVars
<1>1. ASSUME UNCHANGED <<session, gateway, reference>>
      PROVE  Maps
  BY <1>1, QuietStutters
<1>2. CASE LifecycleNext /\ UNCHANGED pairingVars
  <2>1. UNCHANGED session
    BY <1>2 DEF pairingVars
  <2>2. CASE Tick
    BY <2>1, <2>2, <1>1 DEF Tick
  <2>3. ASSUME NEW g \in Gateways, RotateCredential(g)
        PROVE  Maps
    BY <2>1, <2>3, RotateIssues, IssuesSpends, GrantsDistinct DEF Grants
  <2>4. ASSUME NEW r \in References, NEW t \in RequestTimes, Activate(r, t)
        PROVE  Maps
    <3>1. r \in Grants /\ r \notin Sessions
      BY GrantsDistinct DEF Grants
    <3>2. QED
      BY <2>1, <2>4, <3>1, ActivateIssues, IssuesSpends
  <2>5. QED
    BY <1>2, <2>1, <2>2, <2>3, <2>4, ProvisionOpens, RevokeCloses, IssueReferenceOffers
    DEF LifecycleNext
<1>3. ASSUME NEW s \in Sessions, NEW t, ExpireIfNeeded(s, t)
      PROVE  Maps
  <2>1. /\ Live(s) /\ session'[s].estado = "expired"
        /\ session'[s].pasarela = session[s].pasarela
        /\ session'[s].proposito = session[s].proposito
        /\ \A x \in Sessions : x # s => session'[x] = session[x]
        /\ UNCHANGED <<gateway, reference>>
    BY <1>3 DEF ExpireIfNeeded, Overdue, IInv, TypeOK, SessionRow, lifecycleVars
  <2>2. QED
    BY <2>1, EndingVoids
<1>4. ASSUME NEW s \in Sessions, Live(s), session' = [session EXCEPT ![s].estado = "denied"],
             UNCHANGED lifecycleVars
      PROVE  Maps
  <2>1. /\ session'[s].estado = "denied"
        /\ session'[s].pasarela = session[s].pasarela
        /\ session'[s].proposito = session[s].proposito
        /\ \A x \in Sessions : x # s => session'[x] = session[x]
        /\ UNCHANGED <<gateway, reference>>
    BY <1>4 DEF IInv, TypeOK, SessionRow, lifecycleVars
  <2>2. QED
    BY <1>4, <2>1, EndingVoids
<1>5. ASSUME NEW s \in Sessions, BumpWrongCode(s)
      PROVE  Maps
  <2>1. \A x \in Sessions : /\ session'[x].estado = session[x].estado
                           /\ session'[x].pasarela = session[x].pasarela
                           /\ session'[x].proposito = session[x].proposito
    BY <1>5 DEF BumpWrongCode, IInv, TypeOK, SessionRow
  <2>2. QED
    BY <1>5, <2>1, QuietStutters DEF BumpWrongCode, lifecycleVars
<1>6. CASE AdmitStart \/ StartFails \/ UNCHANGED vars
  BY <1>1, <1>6 DEF AdmitStart, StartFails, vars, lifecycleVars, pairingVars
<1>7. ASSUME NEW s \in Sessions, CheckWrongCodes(s) \/ LoseCheck(s)
      PROVE  Maps
  BY <1>1, <1>4, <1>7 DEF CheckWrongCodes, LoseCheck, lifecycleVars
<1>8. ASSUME NEW t, NEW c, FindByUserCode(c, t)
      PROVE  Maps
  BY <1>3, <1>8 DEF FindByUserCode, LiveSessions
<1>9. ASSUME NEW t, NEW s \in Sessions, NEW c, CreateSession(s, c, t)
      PROVE  Maps
  <2>1. /\ session[s].estado = "none" /\ session'[s].estado = "pending"
        /\ session'[s].pasarela = NoOne /\ session'[s].proposito = "none"
        /\ \A x \in Sessions : x # s => session'[x] = session[x]
        /\ UNCHANGED <<gateway, reference>>
    BY <1>9 DEF CreateSession, NoSession, lifecycleVars, IInv, TypeOK
  <2>2. session[s].pasarela = NoOne /\ session[s].proposito = "none"
    BY <2>1 DEF IInv, ApprovedSessionBound
  <2>3. SessionStatus(session'[s].estado) = SessionStatus(session[s].estado)
    BY <2>1 DEF SessionStatus
  <2>4. QED
    BY <2>1, <2>2, <2>3, QuietStutters
<1>10. ASSUME NEW t, NEW s \in Sessions, NEW c, DenySession(s, c, t)
       PROVE  Maps
  BY <1>3, <1>4, <1>5, <1>10 DEF DenySession
<1>11. ASSUME NEW t, NEW s \in Sessions, NEW c, NEW g \in Gateways, NEW replace \in BOOLEAN,
              ApproveSession(s, c, g, replace, t)
       PROVE  Maps
  BY <1>3, <1>5, <1>11, ApproveOffers DEF ApproveSession
<1>12. ASSUME NEW t \in RequestTimes, NEW s \in Sessions, Redeem(s, t)
       PROVE  Maps
  <2>1. \A x \in Sessions : x # s => session'[x] = session[x]
    BY <1>12 DEF Redeem
  <2>2. session'[s] = RowAfterPoll(s, t) /\ session[s] \in SessionRow
    BY <1>12 DEF Redeem, IInv, TypeOK
  <2>3. /\ RowAfterPoll(s, t).pasarela = session[s].pasarela
        /\ RowAfterPoll(s, t).proposito = session[s].proposito
    BY <2>2 DEF RowAfterPoll, SessionRow
  <2>4. CASE PollAnswer(s, t) = "credential"
    <3>1. s \in Grants /\ (session[s].proposito = "rotation") \in BOOLEAN
      BY DEF Grants
    <3>2. QED
      BY <1>12, <2>1, <2>2, <2>3, <2>4, <3>1, RedeemIssues, IssuesSpends
  <2>5. CASE PollAnswer(s, t) # "credential"
    <3>1. UNCHANGED <<gateway, reference>>
      BY <1>12, <2>5 DEF Redeem
    <3>2. \/ RowAfterPoll(s, t).estado = session[s].estado
          \/ Live(s) /\ RowAfterPoll(s, t).estado \in {"denied", "expired"}
      BY <2>2, <2>5 DEF RowAfterPoll, SessionRow
    <3>3. CASE RowAfterPoll(s, t).estado = session[s].estado
      BY <2>1, <2>2, <2>3, <3>1, <3>3, QuietStutters
    <3>4. CASE Live(s) /\ RowAfterPoll(s, t).estado \in {"denied", "expired"}
      BY <2>1, <2>2, <2>3, <3>1, <3>4, EndingVoids
    <3>5. QED
      BY <3>2, <3>3, <3>4
  <2>6. QED
    BY <2>4, <2>5
<1>13. QED
  BY <1>2, <1>6, <1>7, <1>8, <1>9, <1>10, <1>11, <1>12 DEF Next, OtherNext

\* The whole of lifecycle and pairing implements the rules of CredentialGrants.
THEOREM PairingImplementsGrants == Spec => ImplementsCredentialGrants
<1>1. IInv /\ [Next]_vars => [Promise!Next]_(Promise!ticketVars)
  BY StepMaps
<1>2. QED
  BY <1>1, InitMaps, Inductive, PTL DEF Spec, ImplementsCredentialGrants, Promise!Spec

=============================================================================
