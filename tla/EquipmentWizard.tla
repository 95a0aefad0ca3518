--------------------------- MODULE EquipmentWizard ---------------------------
(***************************************************************************)
(* The administrator's "Equipos" page (frontend:                           *)
(* pages/admin/GatewayManagement.tsx): the list of gateways, and the       *)
(* wizard that takes one of them through its three steps, configuration,   *)
(* pairing and data.                                                       *)
(*                                                                         *)
(* The address says which gateway is in the wizard.  Its row is refreshed  *)
(* when the wizard opens, every 15 seconds while it is open, and after     *)
(* what the user does; refreshes overlap, and the last to arrive is what   *)
(* is shown.  What a handler does after its call, it does to the page as   *)
(* it is by then, whoever is in the wizard.                                *)
(***************************************************************************)
EXTENDS Naturals

CONSTANTS
  WizGateways,  \* links; each is of one property
  WizCalls,     \* requests that may be in flight at once
  WizMaxMoves,  \* bound: changes made elsewhere
  InList, InNew \* addresses without a gateway: the list, and step one of a new link

ASSUME WizardConstants == {InList, InNew} \cap WizGateways = {} /\ InList # InNew /\ WizMaxMoves \in Nat

VARIABLES
  wizServer,  \* the rows, and the gateways all of whose areas have data
  wizShown,   \* the same, as the page last got them
  wizPage,    \* the address
  wizCall,    \* per slot: a request in flight
  wizMoves    \* bound: changes made elsewhere

wizVars == <<wizServer, wizShown, wizPage, wizCall, wizMoves>>

NoLink == [status |-> "none", version |-> 0]
Links == {NoLink} \cup [status : {"pending_activation", "active", "revoked"}, version : 0..1]
LinkLists == [row : [WizGateways -> Links], full : SUBSET WizGateways]
Addresses == WizGateways \cup {InList, InNew}

\* row, full: what the server said.  busy: the page's buttons wait for this refresh.
WizRequests == [kind : {"none", "load", "statuses", "refresh", "create", "publish", "approve",
                        "reference", "revoke", "reread"},
                gateway : Addresses, row : Links, full : BOOLEAN, busy : BOOLEAN,
                state : {"sent", "row", "status", "done"}]
NoWizCall == [kind |-> "none", gateway |-> InList, row |-> NoLink, full |-> FALSE,
              busy |-> FALSE, state |-> "sent"]
Ask(kind, g) == [NoWizCall EXCEPT !.kind = kind, !.gateway = g]

WizardTypeOK ==
  /\ wizServer \in LinkLists /\ wizShown \in LinkLists
  /\ wizPage \in [open : Addresses, visited : BOOLEAN]
  /\ wizCall \in [WizCalls -> WizRequests]
  /\ wizMoves \in 0..WizMaxMoves

NoLinks == [row |-> [g \in WizGateways |-> NoLink], full |-> {}]

WizardInit ==
  /\ wizServer = NoLinks /\ wizShown = NoLinks
  /\ wizPage = [open |-> InList, visited |-> FALSE]
  /\ wizCall = [c \in WizCalls |-> NoWizCall]
  /\ wizMoves = 0

-----------------------------------------------------------------------------
(* What the page shows *)

\* The page loads its list once; its buttons wait for a creation or a publication.
WizardLoading == \E c \in WizCalls : wizCall[c].kind \in {"load", "statuses"}
Busy == \E c \in WizCalls : wizCall[c].kind \in {"create", "publish"} \/ wizCall[c].busy
Issuing == \E c \in WizCalls : wizCall[c].kind = "reference"

Current(link) == link.status \in {"pending_activation", "active"}

\* The gateway in the wizard.
SetupOf(open, row) ==
  IF open \in WizGateways /\ Current(row[open]) THEN open ELSE InList
Setup == SetupOf(wizPage.open, wizShown.row)

WizardOpen == ~ WizardLoading /\ (wizPage.open = InNew \/ Setup # InList)

\* The first step that is not done; 4 when all are.
CurrentStep ==
  IF Setup = InList \/ wizShown.row[Setup].version = 0 THEN 1
  ELSE IF wizShown.row[Setup].status # "active" THEN 2
  ELSE IF Setup \notin wizShown.full THEN 3 ELSE 4

\* Step one offers the properties without a current link.
Occupied(g) == Current(wizShown.row[g])
StepOne(g) == WizardOpen /\ wizPage.open = InNew /\ ~ Occupied(g) /\ ~ Busy
StepOneOfLink == WizardOpen /\ Setup # InList /\ CurrentStep = 1 /\ ~ Busy
StepTwo == WizardOpen /\ CurrentStep = 2

-----------------------------------------------------------------------------
(* A commit: the effects that follow a change of the page *)

\* Another gateway in the wizard: its row is refreshed.  An address whose gateway is
\* unknown or revoked goes back to the list.
Commit(page, shown, call) ==
  LET setup == SetupOf(page.open, shown.row)
      new == setup # Setup
      loaded == \A c \in WizCalls : call[c].kind \notin {"load", "statuses"}
      free == {c \in WizCalls : call[c] = NoWizCall}
  IN /\ new /\ setup # InList => free # {}
     /\ wizPage' = [page EXCEPT
          !.open = IF loaded /\ page.open \in WizGateways /\ setup = InList THEN InList ELSE @]
     /\ wizShown' = shown
     /\ wizCall' = IF new /\ setup # InList
                   THEN [call EXCEPT ![CHOOSE c \in free : TRUE] = Ask("refresh", setup)]
                   ELSE call

Freed(c) == [wizCall EXCEPT ![c] = NoWizCall]
Begun(c, kind, g) == [wizCall EXCEPT ![c] = Ask(kind, g)]
Begin(c, kind, g) ==
  /\ wizCall[c] = NoWizCall
  /\ wizCall' = Begun(c, kind, g)
  /\ UNCHANGED <<wizServer, wizShown, wizPage, wizMoves>>
ShownWith(g, link) == [wizShown EXCEPT !.row[g] = link]

-----------------------------------------------------------------------------
(* Loading and refreshing *)

OpenEquipos(server, address, c) ==
  /\ ~ wizPage.visited
  /\ wizServer' = server
  /\ wizPage' = [wizPage EXCEPT !.visited = TRUE, !.open = address]
  /\ wizCall' = Begun(c, "load", InList)
  /\ UNCHANGED <<wizShown, wizMoves>>

\* The list arrives, and the statuses are asked for.
LoadList(c) ==
  /\ wizCall[c].kind = "load"
  /\ \/ Commit(wizPage, [wizShown EXCEPT !.row = wizServer.row], Begun(c, "statuses", InList))
     \/ Commit(wizPage, wizShown, Freed(c))
  /\ UNCHANGED <<wizServer, wizMoves>>

\* Each status arrives or not; together they replace what was known.
LoadStatuses(c) ==
  /\ wizCall[c].kind = "statuses"
  /\ \E answered \in SUBSET WizGateways :
       Commit(wizPage, [wizShown EXCEPT !.full = wizServer.full \cap answered], Freed(c))
  /\ UNCHANGED <<wizServer, wizMoves>>

\* Mutant: no timer.
RefreshTimerStopped(c) == FALSE /\ Begin(c, "refresh", Setup)

RefreshTimer(c) == Setup # InList /\ Begin(c, "refresh", Setup)

\* A refresh is two requests, for the row and for the status, served in any order.
ServeRow(c) ==
  /\ \/ wizCall[c].kind = "refresh" /\ wizCall[c].state \in {"sent", "status"}
     \/ wizCall[c].kind = "reread" /\ wizCall[c].state = "sent"
  /\ wizCall' = [wizCall EXCEPT
       ![c].state = IF wizCall[c].kind = "refresh" /\ @ = "sent" THEN "row" ELSE "done",
       ![c].row = wizServer.row[wizCall[c].gateway]]
  /\ UNCHANGED <<wizServer, wizShown, wizPage, wizMoves>>

ServeStatus(c) ==
  /\ wizCall[c].kind = "refresh" /\ wizCall[c].state \in {"sent", "row"}
  /\ wizCall' = [wizCall EXCEPT ![c].state = IF @ = "sent" THEN "status" ELSE "done",
                                ![c].full = wizCall[c].gateway \in wizServer.full]
  /\ UNCHANGED <<wizServer, wizShown, wizPage, wizMoves>>

refreshGateway(c) ==
  /\ wizCall[c].kind = "refresh" /\ wizCall[c].state = "done"
  /\ LET g == wizCall[c].gateway
     IN Commit(wizPage, [ShownWith(g, wizCall[c].row) EXCEPT
                           !.full = IF wizCall[c].full THEN @ \cup {g} ELSE @ \ {g}], Freed(c))
  /\ UNCHANGED <<wizServer, wizMoves>>

\* One of the two failed: that it was served changed nothing.
RefreshFails(c) ==
  /\ wizCall[c].kind = "refresh" /\ wizCall[c].state = "done"
  /\ wizCall' = Freed(c)
  /\ UNCHANGED <<wizServer, wizShown, wizPage, wizMoves>>

-----------------------------------------------------------------------------
(* What the user does *)

\* By the list's buttons, by "Volver a la lista", or by the address bar.
Visit(address) ==
  /\ wizPage.visited /\ wizPage.open # address
  /\ Commit([wizPage EXCEPT !.open = address], wizShown, wizCall)
  /\ UNCHANGED <<wizServer, wizMoves>>

createLink(c, g) == StepOne(g) /\ Begin(c, "create", g)
publish(c) == StepOneOfLink /\ Begin(c, "publish", Setup)
approve(c) == StepTwo /\ Begin(c, "approve", Setup)
issueReference(c) == StepTwo /\ ~ Issuing /\ Begin(c, "reference", Setup)

\* The button waits for its request, and is gone with the wizard.
revoke(c) ==
  /\ WizardOpen /\ Setup # InList
  /\ \A d \in WizCalls : wizCall[d].kind \in {"revoke", "reread"} => wizCall[d].gateway # Setup
  /\ Begin(c, "revoke", Setup)

\* A property without a current link gets one, with its configuration.
handleCreateLink(c) ==
  /\ wizCall[c].kind = "create"
  /\ LET g == wizCall[c].gateway
         link == [status |-> "pending_activation", version |-> 1]
     IN \/ /\ ~ Current(wizServer.row[g])
           /\ wizServer' = [wizServer EXCEPT !.row[g] = link]
           /\ Commit([wizPage EXCEPT !.open = g], ShownWith(g, link), Freed(c))
        \/ UNCHANGED wizServer /\ Commit(wizPage, wizShown, Freed(c))
  /\ UNCHANGED wizMoves

handlePublish(c) ==
  /\ wizCall[c].kind = "publish"
  /\ LET g == wizCall[c].gateway
     IN \/ /\ Current(wizServer.row[g])
           /\ wizServer' = [wizServer EXCEPT !.row[g].version = 1]
           /\ wizCall' = [wizCall EXCEPT ![c] = [Ask("refresh", g) EXCEPT !.busy = TRUE]]
        \/ UNCHANGED wizServer /\ wizCall' = Freed(c)
  /\ UNCHANGED <<wizShown, wizPage, wizMoves>>

\* The approval is stored; the server's row becomes active when the device collects its
\* credential.  The page does not wait for that.
handleApproved(c) ==
  /\ wizCall[c].kind = "approve"
  /\ LET g == wizCall[c].gateway
         linked == IF wizShown.row[g] = NoLink THEN wizShown
                   ELSE [wizShown EXCEPT !.row[g].status = "active"]
     IN \/ Commit(wizPage, linked, Begun(c, "refresh", g))
        \/ Commit(wizPage, wizShown, Freed(c))
  /\ UNCHANGED <<wizServer, wizMoves>>

\* The reference that came, or the failure, is only shown.
handleReference(c) ==
  /\ wizCall[c].kind = "reference"
  /\ wizCall' = Freed(c)
  /\ UNCHANGED <<wizServer, wizShown, wizPage, wizMoves>>

RevokeLinkButton(c) ==
  /\ wizCall[c].kind = "revoke"
  /\ \/ /\ wizServer' = [row |-> [wizServer.row EXCEPT ![wizCall[c].gateway].status = "revoked"],
                         full |-> wizServer.full \ {wizCall[c].gateway}]
        /\ wizCall' = Begun(c, "reread", wizCall[c].gateway)
     \/ UNCHANGED wizServer /\ wizCall' = Freed(c)
  /\ UNCHANGED <<wizShown, wizPage, wizMoves>>

\* Back to the list, whatever is in the wizard by now.
handleRevoked(c) ==
  /\ wizCall[c].kind = "reread" /\ wizCall[c].state = "done"
  /\ LET list == [wizPage EXCEPT !.open = InList]
     IN \/ Commit(list, ShownWith(wizCall[c].gateway, wizCall[c].row), Freed(c))
        \/ Commit(list, wizShown, Freed(c))
  /\ UNCHANGED <<wizServer, wizMoves>>

\* Elsewhere: a device collects its credential, data come or stop, another
\* administrator revokes a link or makes one.
EquipmentMoves(g) ==
  /\ wizPage.visited /\ wizMoves < WizMaxMoves
  /\ wizMoves' = wizMoves + 1
  /\ LET link == wizServer.row[g]
         Becomes(s) == [wizServer EXCEPT !.row[g].status = s]
     IN \/ link.status = "pending_activation" /\ wizServer' = Becomes("active")
        \/ link.status = "active"
           /\ wizServer' = [wizServer EXCEPT !.full = IF g \in @ THEN @ \ {g} ELSE @ \cup {g}]
        \/ Current(link) /\ wizServer' = [Becomes("revoked") EXCEPT !.full = @ \ {g}]
        \/ ~ Current(link)
           /\ wizServer' = [wizServer EXCEPT !.row[g] = [status |-> "pending_activation", version |-> 1]]
  /\ UNCHANGED <<wizShown, wizPage, wizCall>>

WizardAnswered(c) ==
  \/ LoadList(c) \/ LoadStatuses(c)
  \/ ServeRow(c) \/ ServeStatus(c) \/ refreshGateway(c) \/ RefreshFails(c)
  \/ handleCreateLink(c) \/ handlePublish(c) \/ handleApproved(c) \/ handleReference(c)
  \/ RevokeLinkButton(c) \/ handleRevoked(c)

\* A link is active with a configuration and a device; others are made so by the actions.
WizardServers ==
  {s \in LinkLists : \A g \in WizGateways :
     /\ s.row[g].status # "revoked" /\ (g \in s.full => s.row[g].status = "active")
     /\ s.row[g].status = "active" => s.row[g].version = 1}

WizardNext ==
  \/ \E server \in WizardServers, address \in Addresses, c \in WizCalls : OpenEquipos(server, address, c)
  \/ \E address \in Addresses : Visit(address)
  \/ \E g \in WizGateways : EquipmentMoves(g)
  \/ \E c \in WizCalls :
       \/ RefreshTimer(c) \/ WizardAnswered(c)
       \/ publish(c) \/ approve(c) \/ issueReference(c) \/ revoke(c)
       \/ \E g \in WizGateways : createLink(c, g)

\* The timer fires as long as the wizard is open, also when the slots of the model are
\* all in use for a while; requests are answered, and not all of them fail.
WizardFairness ==
  /\ SF_wizVars(\E c \in WizCalls : RefreshTimer(c))
  /\ SF_wizVars(\E c \in WizCalls : refreshGateway(c))
  /\ \A c \in WizCalls : WF_wizVars(WizardAnswered(c))

WizardSpec == WizardInit /\ [][WizardNext]_wizVars /\ WizardFairness

-----------------------------------------------------------------------------
(* Properties *)

\* Once the list has come, the wizard never stays at an address whose gateway is unknown
\* or revoked, whichever refresh, approval or revocation takes its link away.
WizardHasLink ==
  wizPage.visited /\ ~ WizardLoading /\ wizPage.open \in WizGateways => Setup # InList

\* The wizard catches up with the server: if it stays with a gateway that is active, it
\* shows in the end the row and the data that the server has, although an older
\* refresh may arrive late and set them back, and the row that the page made active by
\* itself is overwritten by a refresh that finds it still pending.
WizardCatchesUp ==
  \A g \in WizGateways :
    <>[](wizPage.open = g /\ wizServer.row[g].status = "active") =>
      <>[](/\ wizShown.row[g] = wizServer.row[g]
           /\ g \in wizShown.full <=> g \in wizServer.full)

=============================================================================
