----------------------------- MODULE PairingPanel -----------------------------
(***************************************************************************)
(* The panel with which an administrator approves a device's code          *)
(* (frontend: components/PairingApprovalPanel.tsx), on its own page or in  *)
(* the wizard of GatewayManagement.                                        *)
(*                                                                         *)
(* The card of the session that was found stays on the screen, with its    *)
(* buttons, while another code is looked up, and the lookup's answer       *)
(* replaces it under whatever the user is doing.  The server is the one of *)
(* GatewayPairing, reduced to what the panel can tell apart.               *)
(***************************************************************************)
EXTENDS FiniteSets

CONSTANTS
  PanCodes,     \* user codes, each of one session
  PanGateways,  \* links of the properties
  NoCode, NoGateway

ASSUME PanelConstants == NoCode \notin PanCodes /\ NoGateway \notin PanGateways

VARIABLES
  panServer,   \* the codes that can still be approved, and the gateways with a device
  panMode,     \* what the panel was opened with, and how its user acts
  panList,     \* gateways that the panel loaded, with their status of then
  panUi,       \* the panel's state
  panCall,     \* requests in flight: the list, one lookup, and one answer of the user
  panAsked     \* history: whose card was ticked since the last lookup, and refused by "Rechazar"

panVars == <<panServer, panMode, panList, panUi, panCall, panAsked>>

CodeOrNone == PanCodes \cup {NoCode}
GatewayOrNone == PanGateways \cup {NoGateway}
Lookups == {"idle", "loading", "found", "not_found", "locked", "unavailable"}

NoAnswer == [kind |-> "none", code |-> NoCode, gateway |-> NoGateway, replace |-> FALSE,
             asked |-> NoCode]

PanelUi == [lookup : Lookups, session : CodeOrNone, gateway : GatewayOrNone,
            confirmed : BOOLEAN, expired : BOOLEAN, submitting : BOOLEAN,
            denying : BOOLEAN, outcome : {"none", "approved", "denied"}]
Answers == [kind : {"none", "approve", "deny"}, code : CodeOrNone, gateway : GatewayOrNone,
            replace : BOOLEAN, asked : CodeOrNone]

PanelTypeOK ==
  /\ panServer \in [open : SUBSET PanCodes, active : SUBSET PanGateways]
  /\ panMode \in [open : BOOLEAN, user : {"waits", "any"}, preselect : GatewayOrNone]
  /\ panList \in [known : SUBSET PanGateways, active : SUBSET PanGateways]
  /\ panUi \in PanelUi
  /\ panCall \in [list : BOOLEAN, lookup : CodeOrNone, answer : Answers]
  /\ panAsked \in [confirmed : CodeOrNone, denied : CodeOrNone]

PanelInit ==
  /\ panServer = [open |-> {}, active |-> {}]
  /\ panMode = [open |-> FALSE, user |-> "waits", preselect |-> NoGateway]
  /\ panList = [known |-> {}, active |-> {}]
  /\ panUi = [lookup |-> "idle", session |-> NoCode, gateway |-> NoGateway,
              confirmed |-> FALSE, expired |-> FALSE, submitting |-> FALSE,
              denying |-> FALSE, outcome |-> "none"]
  /\ panCall = [list |-> FALSE, lookup |-> NoCode, answer |-> NoAnswer]
  /\ panAsked = [confirmed |-> NoCode, denied |-> NoCode]

-----------------------------------------------------------------------------
(* What the panel shows and offers *)

lookupDisabled == panUi.lookup \in {"locked", "loading"}

\* Of the gateways it loaded, those that are not revoked.
selectedGateway == IF panUi.gateway \in panList.known THEN panUi.gateway ELSE NoGateway

\* With the warning that the gateway's device will be replaced, the approval asks for it.
ReplaceWarning == selectedGateway \in panList.active

CardShown == panUi.session # NoCode /\ panUi.outcome = "none"

canApprove ==
  /\ CardShown /\ selectedGateway # NoGateway
  /\ panUi.confirmed /\ ~ panUi.expired /\ ~ panUi.submitting

\* The confirmation covers the card.
MayTouchCard ==
  /\ panMode.open /\ CardShown /\ ~ panUi.denying
  /\ panMode.user = "waits" => panCall.lookup = NoCode

-----------------------------------------------------------------------------
(* Looking up *)

\* A lookup begins: the session that is shown stays.  A code with other letters, or of
\* another length, is not sent and takes the card away.
BeginLookup(ui) == [ui EXCEPT !.lookup = "loading", !.outcome = "none"]
WithoutCard(ui) == [ui EXCEPT !.session = NoCode, !.expired = FALSE]
WrongCode(ui) == [WithoutCard(ui) EXCEPT !.lookup = "idle"]

\* Mutant: the tick of the former session stays.
SessionFoundTicked(ui, c) ==
  [ui EXCEPT !.session = c, !.gateway = panMode.preselect, !.expired = FALSE, !.lookup = "found"]

SessionFound(ui, c) ==
  [ui EXCEPT !.session = c, !.gateway = panMode.preselect, !.confirmed = FALSE,
             !.expired = FALSE, !.lookup = "found"]

\* The tab is opened with or without a code in its address, in the wizard with the
\* gateway already chosen.
OpenPanel(server, user, preselect, initial) ==
  /\ ~ panMode.open
  /\ panServer' = server
  /\ panMode' = [open |-> TRUE, user |-> user, preselect |-> preselect]
  /\ panCall' = [panCall EXCEPT !.list = TRUE, !.lookup = initial]
  /\ panUi' = IF initial = NoCode THEN panUi ELSE BeginLookup(panUi)
  /\ UNCHANGED <<panList, panAsked>>

loadGateways ==
  /\ panCall.list
  /\ panCall' = [panCall EXCEPT !.list = FALSE]
  /\ \/ /\ panList' = [known |-> PanGateways, active |-> panServer.active]
        /\ panUi' = IF panMode.preselect # NoGateway
                    THEN [panUi EXCEPT !.gateway = panMode.preselect] ELSE panUi
     \/ UNCHANGED <<panList, panUi>>
  /\ UNCHANGED <<panServer, panMode, panAsked>>

runLookup(c) ==
  /\ panMode.open /\ ~ lookupDisabled /\ ~ panUi.denying
  /\ IF c = NoCode
     THEN panUi' = WrongCode(panUi) /\ UNCHANGED panCall
     ELSE panUi' = BeginLookup(panUi) /\ panCall' = [panCall EXCEPT !.lookup = c]
  /\ UNCHANGED <<panServer, panMode, panList, panAsked>>

LookupAnswered ==
  /\ panCall.lookup # NoCode
  /\ \/ panCall.lookup \in panServer.open /\ panUi' = SessionFound(panUi, panCall.lookup)
     \/ \E why \in {"not_found", "locked", "unavailable"} :
          panUi' = [WithoutCard(panUi) EXCEPT !.lookup = why]
  /\ panCall' = [panCall EXCEPT !.lookup = NoCode]
  /\ panAsked' = [panAsked EXCEPT !.confirmed = NoCode]
  /\ UNCHANGED <<panServer, panMode, panList>>

-----------------------------------------------------------------------------
(* Approving and denying *)

\* The page of its own lets the user choose the gateway.
SelectGateway(g) ==
  /\ MayTouchCard /\ panMode.preselect = NoGateway
  /\ g \in panList.known \cup {NoGateway}
  /\ panUi' = [panUi EXCEPT !.gateway = g]
  /\ UNCHANGED <<panServer, panMode, panList, panCall, panAsked>>

Confirm(ticked) ==
  /\ MayTouchCard /\ panUi.confirmed # ticked
  /\ panUi' = [panUi EXCEPT !.confirmed = ticked]
  /\ panAsked' = [panAsked EXCEPT !.confirmed = IF ticked THEN panUi.session ELSE NoCode]
  /\ UNCHANGED <<panServer, panMode, panList, panCall>>

\* The clock of the card, once a second.
SessionExpires ==
  /\ panUi.session # NoCode /\ ~ panUi.expired
  /\ panUi' = [panUi EXCEPT !.expired = TRUE]
  /\ UNCHANGED <<panServer, panMode, panList, panCall, panAsked>>

handleApprove ==
  /\ MayTouchCard /\ canApprove
  /\ panUi' = [panUi EXCEPT !.submitting = TRUE]
  /\ panCall' = [panCall EXCEPT !.answer =
       [kind |-> "approve", code |-> panUi.session, gateway |-> selectedGateway,
        replace |-> ReplaceWarning, asked |-> panAsked.confirmed]]
  /\ UNCHANGED <<panServer, panMode, panList, panAsked>>

AskToDeny ==
  /\ MayTouchCard /\ ~ panUi.submitting
  /\ panUi' = [panUi EXCEPT !.denying = TRUE]
  /\ panAsked' = [panAsked EXCEPT !.denied = panUi.session]
  /\ UNCHANGED <<panServer, panMode, panList, panCall>>

CancelDeny ==
  /\ panUi.denying
  /\ panUi' = [panUi EXCEPT !.denying = FALSE]
  /\ panAsked' = [panAsked EXCEPT !.denied = NoCode]
  /\ UNCHANGED <<panServer, panMode, panList, panCall>>

\* The session that is there by now: none, and the confirmation stays.
handleDeny ==
  /\ panUi.denying /\ panUi.session # NoCode
  /\ panUi' = [panUi EXCEPT !.denying = FALSE, !.submitting = TRUE]
  /\ panCall' = [panCall EXCEPT !.answer =
       [NoAnswer EXCEPT !.kind = "deny", !.code = panUi.session, !.asked = panAsked.denied]]
  /\ panAsked' = [panAsked EXCEPT !.denied = NoCode]
  /\ UNCHANGED <<panServer, panMode, panList>>

\* The server takes an answer for a session that is open, and a replacement of exactly
\* the gateways that have a device.
Accepted(a) ==
  /\ a.code \in panServer.open
  /\ a.kind = "approve" => a.replace = (a.gateway \in panServer.active)

AnswerDone ==
  /\ panCall.answer.kind # "none" /\ Accepted(panCall.answer)
  /\ panServer' = [panServer EXCEPT !.open = @ \ {panCall.answer.code}]
  /\ panUi' = [WithoutCard(panUi) EXCEPT
       !.outcome = IF panCall.answer.kind = "deny" THEN "denied" ELSE "approved",
       !.submitting = FALSE]
  /\ panCall' = [panCall EXCEPT !.answer = NoAnswer]
  /\ UNCHANGED <<panMode, panList, panAsked>>

\* Refused; or accepted, and the answer is lost.
AnswerFailed ==
  /\ panCall.answer.kind # "none"
  /\ \/ UNCHANGED panServer
     \/ Accepted(panCall.answer)
        /\ panServer' = [panServer EXCEPT !.open = @ \ {panCall.answer.code}]
  /\ panUi' = [panUi EXCEPT !.submitting = FALSE]
  /\ panCall' = [panCall EXCEPT !.answer = NoAnswer]
  /\ UNCHANGED <<panMode, panList, panAsked>>

\* Elsewhere: a session ends, a device collects its credential.
ServerMoves ==
  /\ panMode.open
  /\ \/ \E c \in panServer.open : panServer' = [panServer EXCEPT !.open = @ \ {c}]
     \/ \E g \in PanGateways \ panServer.active :
          panServer' = [panServer EXCEPT !.active = @ \cup {g}]
  /\ UNCHANGED <<panMode, panList, panUi, panCall, panAsked>>

PanelNext ==
  \/ \E open \in SUBSET PanCodes, active \in SUBSET PanGateways, user \in {"waits", "any"},
        preselect \in GatewayOrNone, initial \in CodeOrNone :
       OpenPanel([open |-> open, active |-> active], user, preselect, initial)
  \/ loadGateways
  \/ \E c \in CodeOrNone : runLookup(c)
  \/ LookupAnswered
  \/ \E g \in GatewayOrNone : SelectGateway(g)
  \/ \E ticked \in BOOLEAN : Confirm(ticked)
  \/ SessionExpires \/ handleApprove \/ AskToDeny \/ CancelDeny \/ handleDeny
  \/ AnswerDone \/ AnswerFailed \/ ServerMoves

PanelSpec == PanelInit /\ [][PanelNext]_panVars

-----------------------------------------------------------------------------
(* Properties *)

\* Whatever lookup replaces the card meanwhile, an approval is of the code that was on
\* the screen when the user ticked that it is the device's.  A denial is of the session
\* whose "Rechazar" was pressed, if the user does not press it while another code is
\* looked up: the dialog names no code and denies the session that is there when it is
\* confirmed.
ApprovesWhatWasConfirmed ==
  LET a == panCall.answer
  IN /\ a.kind = "approve" => a.code = a.asked
     /\ a.kind = "deny" /\ panMode.user = "waits" => a.code = a.asked

=============================================================================
