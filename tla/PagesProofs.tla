----------------------------- MODULE PagesProofs -----------------------------
(***************************************************************************)
(* Theorems about the pages of MCPages: the pairing panel, for any codes   *)
(* and gateways; the selection of areas, for any properties and areas; and *)
(* with those of the catalogue's pages, the types of all of them side by   *)
(* side.                                                                   *)
(***************************************************************************)
EXTENDS MCPages, CatalogPagesProofs, TLAPS


-----------------------------------------------------------------------------
(* The pairing panel *)

\* A tick belongs to the session on the card.
TickedCardIsAsked ==
  panUi.confirmed /\ panUi.session # NoCode => panAsked.confirmed = panUi.session

\* Before the panel is opened nobody answers.
ClosedPanelIsIdle == panMode.open \/ (~ panUi.denying /\ panCall.answer.kind = "none")

\* While a user who waits is asked whether to deny, no lookup can replace the session.
DialogKeepsCard ==
  panUi.denying /\ panMode.user = "waits" =>
    /\ panCall.lookup = NoCode
    /\ panUi.session # NoCode => panAsked.denied = panUi.session

AnswersFollow ==
  TickedCardIsAsked /\ ClosedPanelIsIdle /\ DialogKeepsCard /\ ApprovesWhatWasConfirmed

PanelInv == PanelTypeOK /\ AnswersFollow

-----------------------------------------------------------------------------
(* Typing *)

\* Nothing is shown, asked or sent before the panel is opened.
LEMMA PanelInitTyped == PanelInit => PanelTypeOK
  BY DEF PanelInit, PanelTypeOK, PanelUi, Answers, CodeOrNone, GatewayOrNone, Lookups, NoAnswer

\* What a lookup does to the panel keeps its state's type.
LEMMA LookupTyped ==
  ASSUME NEW ui \in PanelUi, PanelTypeOK
  PROVE  /\ BeginLookup(ui) \in PanelUi
         /\ WithoutCard(ui) \in PanelUi
         /\ WrongCode(ui) \in PanelUi
         /\ \A c \in PanCodes : SessionFound(ui, c) \in PanelUi
         /\ \A why \in Lookups : [WithoutCard(ui) EXCEPT !.lookup = why] \in PanelUi
<1>1. BeginLookup(ui) \in PanelUi
  BY DEF BeginLookup, PanelUi, Lookups
<1>2. WithoutCard(ui) \in PanelUi
  BY DEF WithoutCard, PanelUi, CodeOrNone
<1>3. ASSUME NEW v \in PanelUi, NEW why \in Lookups PROVE [v EXCEPT !.lookup = why] \in PanelUi
  BY DEF PanelUi
<1>4. ASSUME NEW c \in PanCodes PROVE SessionFound(ui, c) \in PanelUi
  <2>1. c \in CodeOrNone /\ panMode.preselect \in GatewayOrNone /\ "found" \in Lookups
    BY DEF PanelTypeOK, CodeOrNone, Lookups
  <2>2. QED
    BY <2>1 DEF SessionFound, PanelUi
<1>5. WrongCode(ui) \in PanelUi
  <2>1. "idle" \in Lookups
    BY DEF Lookups
  <2>2. QED
    BY <2>1, <1>2, <1>3 DEF WrongCode
<1>6. QED
  BY <1>1, <1>2, <1>3, <1>4, <1>5

\* Every step keeps the type of the panel's state.
LEMMA UiTyped == PanelTypeOK /\ [PanelNext]_panVars => panUi' \in PanelUi
<1> SUFFICES ASSUME PanelTypeOK, [PanelNext]_panVars PROVE panUi' \in PanelUi
  OBVIOUS
<1>1. /\ panUi \in PanelUi /\ panMode.preselect \in GatewayOrNone
      /\ panList.known \subseteq GatewayOrNone
      /\ panCall.lookup \in CodeOrNone
  BY DEF PanelTypeOK, GatewayOrNone
<1>2. ASSUME NEW open \in SUBSET PanCodes, NEW active \in SUBSET PanGateways,
             NEW user \in {"waits", "any"}, NEW preselect \in GatewayOrNone, NEW initial \in CodeOrNone,
             OpenPanel([open |-> open, active |-> active], user, preselect, initial)
      PROVE  panUi' \in PanelUi
  BY <1>2, <1>1, LookupTyped DEF OpenPanel
<1>3. CASE loadGateways
  BY <1>3, <1>1 DEF loadGateways, PanelUi
<1>4. ASSUME NEW c \in CodeOrNone, runLookup(c)
      PROVE  panUi' \in PanelUi
  BY <1>4, <1>1, LookupTyped DEF runLookup
<1>5. CASE LookupAnswered
  <2>1. CASE panCall.lookup \in panServer.open /\ panUi' = SessionFound(panUi, panCall.lookup)
    <3>1. panCall.lookup \in PanCodes
      BY <2>1 DEF PanelTypeOK
    <3>2. QED
      BY <3>1, <2>1, <1>1, LookupTyped
  <2>2. ASSUME NEW why \in {"not_found", "locked", "unavailable"},
               panUi' = [WithoutCard(panUi) EXCEPT !.lookup = why]
        PROVE  panUi' \in PanelUi
    BY <2>2, <1>1, LookupTyped DEF Lookups
  <2>3. QED
    BY <1>5, <2>1, <2>2 DEF LookupAnswered
<1>6. ASSUME NEW g \in GatewayOrNone, SelectGateway(g)
      PROVE  panUi' \in PanelUi
  BY <1>6, <1>1 DEF SelectGateway, PanelUi
<1>7. ASSUME NEW ticked \in BOOLEAN, Confirm(ticked)
      PROVE  panUi' \in PanelUi
  BY <1>7, <1>1 DEF Confirm, PanelUi
<1>8. CASE SessionExpires
  BY <1>8, <1>1 DEF SessionExpires, PanelUi
<1>9. CASE handleApprove
  BY <1>9, <1>1 DEF handleApprove, PanelUi
<1>10. CASE AskToDeny
  BY <1>10, <1>1 DEF AskToDeny, PanelUi
<1>11. CASE CancelDeny
  BY <1>11, <1>1 DEF CancelDeny, PanelUi
<1>12. CASE handleDeny
  BY <1>12, <1>1 DEF handleDeny, PanelUi
<1>13. CASE AnswerDone
  <2>1. WithoutCard(panUi) \in PanelUi
    BY <1>1, LookupTyped
  <2>2. ASSUME NEW v \in PanelUi, NEW o \in {"approved", "denied"}
        PROVE  [v EXCEPT !.outcome = o, !.submitting = FALSE] \in PanelUi
    BY DEF PanelUi
  <2>3. QED
    BY <1>13, <2>1, <2>2 DEF AnswerDone
<1>14. CASE AnswerFailed
  BY <1>14, <1>1 DEF AnswerFailed, PanelUi
<1>15. CASE ServerMoves
  BY <1>15, <1>1 DEF ServerMoves
<1>16. CASE UNCHANGED panVars
  BY <1>16, <1>1 DEF panVars
<1>17. QED
  BY <1>2, <1>3, <1>4, <1>5, <1>6, <1>7, <1>8, <1>9, <1>10, <1>11, <1>12, <1>13, <1>14, <1>15, <1>16 DEF PanelNext

\* Every step keeps the types.
LEMMA PanelStepTyped == PanelTypeOK /\ [PanelNext]_panVars => PanelTypeOK'
<1> SUFFICES ASSUME PanelTypeOK, [PanelNext]_panVars PROVE PanelTypeOK'
  OBVIOUS
<1> DEFINE Rest ==
     /\ panServer \in [open : SUBSET PanCodes, active : SUBSET PanGateways]
     /\ panMode \in [open : BOOLEAN, user : {"waits", "any"}, preselect : GatewayOrNone]
     /\ panList \in [known : SUBSET PanGateways, active : SUBSET PanGateways]
     /\ panCall \in [list : BOOLEAN, lookup : CodeOrNone, answer : Answers]
     /\ panAsked \in [confirmed : CodeOrNone, denied : CodeOrNone]
<1>a. Rest /\ panUi.session \in CodeOrNone /\ NoCode \in CodeOrNone /\ NoAnswer \in Answers
  BY DEF PanelTypeOK, PanelUi, CodeOrNone, GatewayOrNone, Answers, NoAnswer
<1>2. ASSUME NEW open \in SUBSET PanCodes, NEW active \in SUBSET PanGateways,
             NEW user \in {"waits", "any"}, NEW preselect \in GatewayOrNone, NEW initial \in CodeOrNone,
             OpenPanel([open |-> open, active |-> active], user, preselect, initial)
      PROVE  Rest'
  BY <1>2, <1>a DEF OpenPanel
<1>3. loadGateways => Rest'
  <2>1. SUFFICES ASSUME loadGateways PROVE Rest'
    OBVIOUS
  <2>2. [known |-> PanGateways, active |-> panServer.active]
          \in [known : SUBSET PanGateways, active : SUBSET PanGateways]
    BY <1>a
  <2>3. panList' \in [known : SUBSET PanGateways, active : SUBSET PanGateways]
    BY <2>1, <2>2, <1>a DEF loadGateways
  <2>4. panCall' \in [list : BOOLEAN, lookup : CodeOrNone, answer : Answers]
    BY <2>1, <1>a DEF loadGateways
  <2>5. QED
    BY <2>1, <2>3, <2>4, <1>a DEF loadGateways
<1>4. ASSUME NEW c \in CodeOrNone, runLookup(c)
      PROVE  Rest'
  BY <1>4, <1>a DEF runLookup
<1>5. LookupAnswered => Rest'
  BY <1>a DEF LookupAnswered
<1>6. ASSUME NEW g \in GatewayOrNone, SelectGateway(g)
      PROVE  Rest'
  BY <1>6, <1>a DEF SelectGateway
<1>7. ASSUME NEW ticked \in BOOLEAN, Confirm(ticked)
      PROVE  Rest'
  BY <1>7, <1>a DEF Confirm
<1>8. SessionExpires => Rest'
  BY <1>a DEF SessionExpires
<1>9. handleApprove => Rest'
  <2>1. selectedGateway \in GatewayOrNone /\ ReplaceWarning \in BOOLEAN
    BY <1>a DEF selectedGateway, ReplaceWarning, GatewayOrNone
  <2>2. panAsked.confirmed \in CodeOrNone
    BY <1>a
  <2>3. [kind |-> "approve", code |-> panUi.session, gateway |-> selectedGateway,
         replace |-> ReplaceWarning, asked |-> panAsked.confirmed] \in Answers
    BY <2>1, <2>2, <1>a DEF Answers
  <2>4. QED
    BY <2>3, <1>a DEF handleApprove
<1>10. AskToDeny => Rest'
  BY <1>a DEF AskToDeny
<1>11. CancelDeny => Rest'
  BY <1>a DEF CancelDeny
<1>12. handleDeny => Rest'
  <2>1. [NoAnswer EXCEPT !.kind = "deny", !.code = panUi.session, !.asked = panAsked.denied] \in Answers
    BY <1>a DEF Answers
  <2>2. QED
    BY <2>1, <1>a DEF handleDeny
<1>13. AnswerDone => Rest'
  BY <1>a DEF AnswerDone
<1>14. AnswerFailed => Rest'
  BY <1>a DEF AnswerFailed
<1>15. ServerMoves => Rest'
  BY <1>a DEF ServerMoves
<1>16. UNCHANGED panVars => Rest'
  BY <1>a DEF panVars
<1>17. Rest'
  <2> HIDE DEF Rest
  <2> QED
    BY <1>2, <1>3, <1>4, <1>5, <1>6, <1>7, <1>8, <1>9, <1>10, <1>11, <1>12, <1>13, <1>14, <1>15, <1>16 DEF PanelNext
<1>18. QED
  BY <1>17, UiTyped DEF PanelTypeOK

-----------------------------------------------------------------------------
(* What is approved or denied *)

\* Nothing is confirmed or refused at the start.
LEMMA PanelInitInv == PanelInit => PanelInv
  BY PanelInitTyped
  DEF PanelInit, PanelInv, AnswersFollow, TickedCardIsAsked, ClosedPanelIsIdle, DialogKeepsCard,
      ApprovesWhatWasConfirmed, NoAnswer

\* Every step keeps ticks and refusals with the card they were made on.
LEMMA PanelStepFollows == PanelInv /\ [PanelNext]_panVars => AnswersFollow'
<1> SUFFICES ASSUME PanelInv, [PanelNext]_panVars PROVE AnswersFollow'
  OBVIOUS
<1>a. /\ panUi \in PanelUi /\ panAsked \in [confirmed : CodeOrNone, denied : CodeOrNone]
      /\ panCall \in [list : BOOLEAN, lookup : CodeOrNone, answer : Answers]
      /\ panMode \in [open : BOOLEAN, user : {"waits", "any"}, preselect : GatewayOrNone]
      /\ AnswersFollow
  BY DEF PanelInv, PanelTypeOK
<1>2. ASSUME NEW open \in SUBSET PanCodes, NEW active \in SUBSET PanGateways,
             NEW user \in {"waits", "any"}, NEW preselect \in GatewayOrNone, NEW initial \in CodeOrNone,
             OpenPanel([open |-> open, active |-> active], user, preselect, initial)
      PROVE  AnswersFollow'
  BY <1>2, <1>a
  DEF OpenPanel, BeginLookup,
      AnswersFollow, TickedCardIsAsked, ClosedPanelIsIdle, DialogKeepsCard, ApprovesWhatWasConfirmed, PanelUi
<1>3. CASE loadGateways
  BY <1>3, <1>a
  DEF loadGateways,
      AnswersFollow, TickedCardIsAsked, ClosedPanelIsIdle, DialogKeepsCard, ApprovesWhatWasConfirmed, PanelUi
<1>4. ASSUME NEW c \in CodeOrNone, runLookup(c)
      PROVE  AnswersFollow'
  BY <1>4, <1>a
  DEF runLookup, BeginLookup, WrongCode, WithoutCard,
      AnswersFollow, TickedCardIsAsked, ClosedPanelIsIdle, DialogKeepsCard, ApprovesWhatWasConfirmed, PanelUi
<1>5. CASE LookupAnswered
  BY <1>5, <1>a
  DEF LookupAnswered, SessionFound, WithoutCard,
      AnswersFollow, TickedCardIsAsked, ClosedPanelIsIdle, DialogKeepsCard, ApprovesWhatWasConfirmed, PanelUi
<1>6. ASSUME NEW g \in GatewayOrNone, SelectGateway(g)
      PROVE  AnswersFollow'
  BY <1>6, <1>a
  DEF SelectGateway,
      AnswersFollow, TickedCardIsAsked, ClosedPanelIsIdle, DialogKeepsCard, ApprovesWhatWasConfirmed, PanelUi
<1>7. ASSUME NEW ticked \in BOOLEAN, Confirm(ticked)
      PROVE  AnswersFollow'
  BY <1>7, <1>a
  DEF Confirm, MayTouchCard, CardShown,
      AnswersFollow, TickedCardIsAsked, ClosedPanelIsIdle, DialogKeepsCard, ApprovesWhatWasConfirmed, PanelUi
<1>8. CASE SessionExpires
  BY <1>8, <1>a
  DEF SessionExpires,
      AnswersFollow, TickedCardIsAsked, ClosedPanelIsIdle, DialogKeepsCard, ApprovesWhatWasConfirmed, PanelUi
<1>9. CASE handleApprove
  BY <1>9, <1>a
  DEF handleApprove, MayTouchCard, canApprove, CardShown, Answers,
      AnswersFollow, TickedCardIsAsked, ClosedPanelIsIdle, DialogKeepsCard, ApprovesWhatWasConfirmed, PanelUi
<1>10. CASE AskToDeny
  BY <1>10, <1>a
  DEF AskToDeny, MayTouchCard, CardShown,
      AnswersFollow, TickedCardIsAsked, ClosedPanelIsIdle, DialogKeepsCard, ApprovesWhatWasConfirmed, PanelUi
<1>11. CASE CancelDeny
  BY <1>11, <1>a
  DEF CancelDeny,
      AnswersFollow, TickedCardIsAsked, ClosedPanelIsIdle, DialogKeepsCard, ApprovesWhatWasConfirmed, PanelUi
<1>12. CASE handleDeny
  BY <1>12, <1>a
  DEF handleDeny, NoAnswer,
      AnswersFollow, TickedCardIsAsked, ClosedPanelIsIdle, DialogKeepsCard, ApprovesWhatWasConfirmed, PanelUi
<1>13. CASE AnswerDone
  BY <1>13, <1>a
  DEF AnswerDone, WithoutCard, NoAnswer,
      AnswersFollow, TickedCardIsAsked, ClosedPanelIsIdle, DialogKeepsCard, ApprovesWhatWasConfirmed, PanelUi
<1>14. CASE AnswerFailed
  BY <1>14, <1>a
  DEF AnswerFailed, NoAnswer,
      AnswersFollow, TickedCardIsAsked, ClosedPanelIsIdle, DialogKeepsCard, ApprovesWhatWasConfirmed, PanelUi
<1>15. CASE ServerMoves
  BY <1>15, <1>a
  DEF ServerMoves,
      AnswersFollow, TickedCardIsAsked, ClosedPanelIsIdle, DialogKeepsCard, ApprovesWhatWasConfirmed, PanelUi
<1>16. CASE UNCHANGED panVars
  BY <1>16, <1>a
  DEF panVars, AnswersFollow, TickedCardIsAsked, ClosedPanelIsIdle, DialogKeepsCard, ApprovesWhatWasConfirmed, PanelUi
<1>17. QED
  BY <1>2, <1>3, <1>4, <1>5, <1>6, <1>7, <1>8, <1>9, <1>10, <1>11, <1>12, <1>13, <1>14, <1>15, <1>16 DEF PanelNext

\* The inductive invariant of the panel: its answers follow what was confirmed because
\* ticks and the dialog stay with their card.
THEOREM PanelInductive == PanelSpec => []PanelInv
<1>1. PanelInit => PanelInv
  BY PanelInitInv
<1>2. PanelInv /\ [PanelNext]_panVars => PanelInv'
  BY PanelStepTyped, PanelStepFollows DEF PanelInv
<1>3. QED
  BY <1>1, <1>2, PTL DEF PanelSpec

\* Whatever lookups overlap, an approval is of the code that the user ticked, and a denial
\* by a user who waits is of the session that was asked about (handleApprove, handleDeny).
THEOREM AnswersAreOfConfirmed == PanelSpec => []ApprovesWhatWasConfirmed
<1>1. PanelInv => ApprovesWhatWasConfirmed
  BY DEF PanelInv, AnswersFollow
<1>2. QED
  BY <1>1, PanelInductive, PTL

-----------------------------------------------------------------------------
(* The selection of areas *)

Contexts ==
  [auto : BOOLEAN, properties : SUBSET SelProperties, areas : [SelAreas -> PropertyOrNone],
   property : PropertyOrNone, area : AreaOrNone, loading : BOOLEAN, error : BOOLEAN,
   hydrated : BOOLEAN]

\* A load has not ended: nothing failed, nothing is selected for good.
LoadUnderWay ==
  /\ selLoad # "none" => selContext.loading /\ ~ selContext.error /\ ~ selContext.hydrated
  /\ selContext.hydrated => ~ selContext.loading /\ ~ selContext.error

\* What is selected was loaded, and the context's effect has nothing left to do: it would
\* pick again only for a property without areas, and pick nothing.
SelectsLoaded(s) ==
  /\ s.property \in s.properties \cup {NoneSelected}
  /\ s.area \in LoadedAreas(s) \cup {NoneSelected}
Settled(s) == MustPick(s) => s.area = NoneSelected /\ AreasOf(s, s.property) = {}

\* The premise of SelectionFollowsAddress.
Complete(s) ==
  /\ \A p \in s.properties : AreasOf(s, p) # {}
  /\ \A a \in LoadedAreas(s) : s.areas[a] \in s.properties

SettledSelection ==
  selContext.hydrated =>
    /\ SelectsLoaded(selContext) /\ Settled(selContext)
    /\ selStored = [property |-> selContext.property, area |-> selContext.area]
    /\ selAddress # NoneSelected /\ Complete(selContext) => selContext.area = selAddress

SelInv == SelTypeOK /\ LoadUnderWay /\ SettledSelection

-----------------------------------------------------------------------------
(* The effects *)

\* The first of a list is in it, if there is one.
LEMMA FirstOfIn ==
  ASSUME NEW S PROVE /\ S = {} => FirstOf(S) = NoneSelected
                     /\ S # {} => FirstOf(S) \in S
  BY DEF FirstOf

\* Picking changes the area alone, to a loaded one of the selected property or to none.
LEMMA PickSettles ==
  ASSUME NEW s \in Contexts
  PROVE  /\ Pick(s) = [s EXCEPT !.area = Pick(s).area]
         /\ Pick(s).area \in AreaOrNone /\ Pick(s) \in Contexts
         /\ s.area \in LoadedAreas(s) \cup {NoneSelected}
              => Pick(s).area \in LoadedAreas(s) \cup {NoneSelected}
         /\ ~ MustPick(s) => Pick(s) = s
         /\ Settled(Pick(s))
<1> DEFINE first == FirstOf(AreasOf(s, s.property))
<1>1. /\ AreasOf(s, s.property) = {} => first = NoneSelected
      /\ AreasOf(s, s.property) # {} =>
           first \in SelAreas /\ first # NoneSelected /\ s.areas[first] = s.property
  BY FirstOfIn, SelectionConstants DEF AreasOf
<1> HIDE DEF first
<1>2. CASE MustPick(s)
  <2>1. Pick(s) = [s EXCEPT !.area = first]
    BY <1>2 DEF Pick, first
  <2>2. first \in AreaOrNone /\ s.property # NoneSelected
    BY <1>1, <1>2 DEF AreaOrNone, MustPick
  <2>3. Pick(s).area = first /\ Pick(s).property = s.property /\ Pick(s).areas = s.areas
        /\ Pick(s) \in Contexts
    BY <2>1, <2>2 DEF Contexts
  <2>4. first \in LoadedAreas(s) \cup {NoneSelected}
    BY <1>1, <2>2 DEF LoadedAreas
  <2>5. Settled(Pick(s))
    BY <1>1, <2>3 DEF Settled, MustPick, AreaFits, AreasOf
  <2>6. QED
    BY <1>2, <2>1, <2>2, <2>3, <2>4, <2>5
<1>3. CASE ~ MustPick(s)
  <2>1. Pick(s) = s
    BY <1>3 DEF Pick
  <2>2. Settled(s)
    BY <1>3 DEF Settled
  <2>3. s = [s EXCEPT !.area = s.area] /\ s.area \in AreaOrNone
    BY DEF Contexts
  <2>4. QED
    BY <2>1, <2>2, <2>3
<1>4. QED
  BY <1>2, <1>3

\* An area's page selects its area, and its property if that was loaded.
LEMMA LayoutSelects ==
  ASSUME NEW s \in Contexts, NEW a \in SelAreas
  PROVE  LET own == AreaLayoutSelects(s, a)
         IN /\ own \in Contexts /\ own.area = a /\ own.areas = s.areas
            /\ own.properties = s.properties /\ own.loading = s.loading
            /\ own.error = s.error /\ own.hydrated = s.hydrated
            /\ own.property = IF s.areas[a] \in s.properties THEN s.areas[a] ELSE s.property
  BY DEF AreaLayoutSelects, Contexts, AreaOrNone, PropertyOrNone

\* Settling changes the selection alone, and leaves the effects nothing to do.
LEMMA Settles ==
  ASSUME NEW s \in Contexts, NEW a \in AreaOrNone
  PROVE  LET t == SettleSelection(s, a)
         IN /\ t \in Contexts /\ t.areas = s.areas /\ t.properties = s.properties
            /\ t.loading = s.loading /\ t.error = s.error /\ t.hydrated = s.hydrated
            /\ Settled(t)
            /\ SelectsLoaded(s) => SelectsLoaded(t)
<1> DEFINE own == AreaLayoutSelects(s, a)
           mid == IF MustPick(s) THEN [own EXCEPT !.area = Pick(s).area] ELSE own
           Same(t) == /\ t \in Contexts /\ t.areas = s.areas /\ t.properties = s.properties
                      /\ t.loading = s.loading /\ t.error = s.error /\ t.hydrated = s.hydrated
<1>1. ASSUME NEW t, Same(t)
      PROVE  Same(Pick(t)) /\ Settled(Pick(t)) /\ (SelectsLoaded(t) => SelectsLoaded(Pick(t)))
  <2>1. Pick(t) = [t EXCEPT !.area = Pick(t).area]
        /\ Pick(t) \in Contexts /\ Settled(Pick(t))
    BY <1>1, PickSettles
  <2>2. t.area \in LoadedAreas(t) \cup {NoneSelected}
          => Pick(t).area \in LoadedAreas(t) \cup {NoneSelected}
    BY <1>1, PickSettles
  <2>3. Same(Pick(t)) /\ Pick(t).property = t.property
    BY <1>1, <2>1 DEF Contexts
  <2>4. LoadedAreas(Pick(t)) = LoadedAreas(t)
    BY <1>1, <2>3 DEF LoadedAreas
  <2>5. QED
    BY <1>1, <2>1, <2>2, <2>3, <2>4 DEF SelectsLoaded
<1>2. Same(s)
  OBVIOUS
<1>3. CASE a # NoneSelected /\ s.areas[a] # NoneSelected /\ s.area # a
  <2>1. a \in SelAreas
    BY <1>3 DEF AreaOrNone
  <2>2. Same(own) /\ own.area = a
        /\ own.property = IF s.areas[a] \in s.properties THEN s.areas[a] ELSE s.property
    BY <2>1, LayoutSelects
  <2> HIDE DEF own
  <2>3. Pick(s).area \in AreaOrNone
        /\ (SelectsLoaded(s) => Pick(s).area \in LoadedAreas(s) \cup {NoneSelected})
    BY PickSettles DEF SelectsLoaded
  <2>4. Same(mid) /\ mid.property = own.property /\ mid.area \in {a, Pick(s).area}
    BY <2>2, <2>3 DEF Contexts
  <2> HIDE DEF mid
  <2>5. LoadedAreas(mid) = LoadedAreas(s) /\ a \in LoadedAreas(s)
    BY <1>3, <2>1, <2>4 DEF LoadedAreas
  <2>6. SelectsLoaded(s) => SelectsLoaded(mid)
    BY <2>2, <2>3, <2>4, <2>5 DEF SelectsLoaded
  <2>7. SettleSelection(s, a) = Pick(mid)
    BY <1>3 DEF SettleSelection, AddressFound, mid, own
  <2>8. QED
    BY <1>1, <2>4, <2>6, <2>7
<1>4. CASE ~ (a # NoneSelected /\ s.areas[a] # NoneSelected /\ s.area # a)
  <2>1. SettleSelection(s, a) = Pick(s)
    BY <1>4 DEF SettleSelection
  <2>2. QED
    BY <1>1, <1>2, <2>1
<1>5. QED
  BY <1>3, <1>4

\* The context's effect idle and the area's property loaded, the page's effect stands.
LEMMA AddressIsSelected ==
  ASSUME NEW s \in Contexts, ~ MustPick(s), NEW a \in LoadedAreas(s),
         s.areas[a] \in s.properties
  PROVE  SettleSelection(s, a).area = a
<1> DEFINE own == AreaLayoutSelects(s, a)
<1>1. a \in SelAreas /\ s.areas[a] # NoneSelected /\ a # NoneSelected
  BY SelectionConstants DEF LoadedAreas
<1>2. CASE s.area # a
  <2>1. own \in Contexts /\ own.area = a /\ own.areas = s.areas /\ own.property = s.areas[a]
    BY <1>1, LayoutSelects
  <2>2. SettleSelection(s, a) = Pick(own)
    BY <1>1, <1>2 DEF SettleSelection, AddressFound
  <2> HIDE DEF own
  <2>3. ~ MustPick(own)
    BY <1>1, <2>1 DEF MustPick, AreaFits
  <2>4. QED
    BY <2>1, <2>2, <2>3, PickSettles
<1>3. CASE s.area = a
  BY <1>3, PickSettles DEF SettleSelection
<1>4. QED
  BY <1>2, <1>3

\* Once every loaded property has an area, a settled selection is of an area.
LEMMA CompleteIsIdle ==
  ASSUME NEW s \in Contexts, Complete(s), SelectsLoaded(s), Settled(s)
  PROVE  ~ MustPick(s)
  BY DEF Complete, SelectsLoaded, Settled, MustPick

\* What a load selects was loaded; and a property that has areas gets one of them.
LEMMA LoadSelects ==
  ASSUME NEW s \in Contexts, selStored \in [property : PropertyOrNone, area : AreaOrNone]
  PROVE  LET p == NextProperty(s)
         IN /\ p \in s.properties \cup {NoneSelected}
            /\ NextArea(s, p) \in LoadedAreas(s) \cup {NoneSelected}
            /\ p # NoneSelected /\ AreasOf(s, p) # {} =>
                 NextArea(s, p) # NoneSelected /\ s.areas[NextArea(s, p)] = p
<1> DEFINE p == NextProperty(s)
<1>1. p \in s.properties \cup {NoneSelected}
  BY FirstOfIn DEF NextProperty, StoredProperty
<1> HIDE DEF p
<1>2. StoredArea(s, p) # NoneSelected =>
        /\ StoredArea(s, p) \in LoadedAreas(s)
        /\ p # NoneSelected => s.areas[StoredArea(s, p)] = p
  BY DEF StoredArea
<1>3. p # NoneSelected =>
        /\ FirstOf(AreasOf(s, p)) \in LoadedAreas(s) \cup {NoneSelected}
        /\ AreasOf(s, p) # {} => FirstOf(AreasOf(s, p)) # NoneSelected
                                 /\ s.areas[FirstOf(AreasOf(s, p))] = p
  BY FirstOfIn, SelectionConstants DEF AreasOf, LoadedAreas
<1>4. /\ NextArea(s, p) \in LoadedAreas(s) \cup {NoneSelected}
      /\ p # NoneSelected /\ AreasOf(s, p) # {} =>
           NextArea(s, p) # NoneSelected /\ s.areas[NextArea(s, p)] = p
  BY <1>2, <1>3 DEF NextArea
<1>5. QED
  BY <1>1, <1>4 DEF p

-----------------------------------------------------------------------------
(* The steps *)

\* Nothing is loaded or selected at the start.
LEMMA SelInitInv == SelInit => SelInv
  BY DEF SelInit, SelInv, SelTypeOK, LoadUnderWay, SettledSelection, Fresh, Servers, NoAreas,
         PropertyOrNone, AreaOrNone

\* A fresh context is loading.
LEMMA MountInv ==
  ASSUME SelInv, NEW auto \in BOOLEAN, NEW address \in AreaOrNone, Mount(auto, address),
         selServer' \in Servers, selStored' = selStored
  PROVE  SelInv'
<1>1. Fresh(auto) \in Contexts
  BY DEF Fresh, Contexts, NoAreas, PropertyOrNone, AreaOrNone
<1>2. SelTypeOK'
  BY <1>1 DEF Mount, SelInv, SelTypeOK, Contexts
<1>3. LoadUnderWay' /\ SettledSelection'
  BY DEF Mount, Fresh, LoadUnderWay, SettledSelection
<1>4. QED
  BY <1>2, <1>3 DEF SelInv

\* The answer with the areas ends the load: the selection settles on what is loaded.
LEMMA ArriveInv == ASSUME SelInv, AreasArrive PROVE SelInv'
<1> DEFINE s == [selContext EXCEPT !.areas = selServer.area]
           p == NextProperty(s)
           chosen == [s EXCEPT !.property = p, !.area = NextArea(s, p),
                               !.loading = FALSE, !.hydrated = TRUE]
           t == SettleSelection(chosen, selAddress)
<1>1. /\ selContext \in Contexts /\ selServer.area \in [SelAreas -> PropertyOrNone]
      /\ selStored \in [property : PropertyOrNone, area : AreaOrNone]
      /\ selAddress \in AreaOrNone /\ selServer \in Servers /\ ~ selContext.error
  BY DEF SelInv, SelTypeOK, Contexts, Servers, LoadUnderWay, AreasArrive
<1>2. s \in Contexts /\ s.error = FALSE
  BY <1>1 DEF Contexts
<1> HIDE DEF s
<1>3. /\ p \in s.properties \cup {NoneSelected}
      /\ NextArea(s, p) \in LoadedAreas(s) \cup {NoneSelected}
      /\ p # NoneSelected /\ AreasOf(s, p) # {} =>
           NextArea(s, p) # NoneSelected /\ s.areas[NextArea(s, p)] = p
  BY <1>1, <1>2, LoadSelects
<1> HIDE DEF p
<1>4. p \in PropertyOrNone /\ NextArea(s, p) \in AreaOrNone
  BY <1>2, <1>3 DEF Contexts, PropertyOrNone, AreaOrNone, LoadedAreas
<1>5. /\ chosen \in Contexts /\ chosen.property = p /\ chosen.area = NextArea(s, p)
      /\ chosen.areas = s.areas /\ chosen.properties = s.properties
      /\ chosen.loading = FALSE /\ chosen.error = FALSE /\ chosen.hydrated = TRUE
  BY <1>2, <1>4 DEF Contexts
<1> HIDE DEF chosen
<1>6. LoadedAreas(chosen) = LoadedAreas(s) /\ \A q : AreasOf(chosen, q) = AreasOf(s, q)
  BY <1>5 DEF LoadedAreas, AreasOf
<1>7. SelectsLoaded(chosen)
  BY <1>3, <1>5, <1>6 DEF SelectsLoaded
<1>8. Complete(chosen) => ~ MustPick(chosen)
  BY <1>3, <1>5, <1>6 DEF Complete, MustPick, AreaFits
<1>9. /\ t \in Contexts /\ t.areas = chosen.areas /\ t.properties = chosen.properties
      /\ t.loading = FALSE /\ t.error = FALSE /\ t.hydrated = TRUE
      /\ Settled(t) /\ SelectsLoaded(t)
  BY <1>1, <1>5, <1>7, Settles
<1>10. Complete(t) => Complete(chosen)
  BY <1>9 DEF Complete, LoadedAreas, AreasOf
<1>11. Complete(chosen) /\ selAddress \in LoadedAreas(s) => t.area = selAddress
  BY <1>5, <1>6, <1>8, AddressIsSelected DEF Complete
<1>12. /\ selContext' = t /\ selServer' = selServer /\ selLoad' = "none"
       /\ selStored' = Remembered(t)
       /\ selAddress' = IF selAddress \in LoadedAreas(s) THEN selAddress ELSE NoneSelected
  BY DEF AreasArrive, t, chosen, p, s
<1> HIDE DEF t
<1>13. selStored' = [property |-> t.property, area |-> t.area]
  BY <1>9, <1>12 DEF Remembered
<1>14. SelTypeOK'
  BY <1>1, <1>9, <1>12, <1>13 DEF SelTypeOK, Contexts, AreaOrNone
<1>15. LoadUnderWay' /\ SettledSelection'
  BY <1>9, <1>10, <1>11, <1>12, <1>13 DEF LoadUnderWay, SettledSelection
<1>16. QED
  BY <1>14, <1>15 DEF SelInv

\* A visit to an area settles on it, or on nothing new.
LEMMA VisitInv == ASSUME SelInv, NEW a \in AreaOrNone, VisitArea(a) PROVE SelInv'
<1> DEFINE t == SettleSelection(selContext, a)
<1>1. /\ selContext \in Contexts /\ selServer \in Servers
      /\ selLoad \in {"none", "properties", "areas"}
      /\ selStored \in [property : PropertyOrNone, area : AreaOrNone]
      /\ selAddress \in AreaOrNone /\ NoneSelected \in AreaOrNone
      /\ LoadUnderWay /\ SettledSelection
  BY DEF SelInv, SelTypeOK, Contexts, AreaOrNone
<1>2. /\ selServer' = selServer /\ selLoad' = selLoad
      /\ selAddress' = IF selContext.loading \/ a \in LoadedAreas(selContext) THEN a ELSE NoneSelected
      /\ selContext' = (IF selContext.loading THEN selContext ELSE t)
      /\ selStored' = Remembered(selContext')
  BY DEF VisitArea
<1>3. /\ t \in Contexts /\ t.areas = selContext.areas /\ t.properties = selContext.properties
      /\ t.loading = selContext.loading /\ t.error = selContext.error
      /\ t.hydrated = selContext.hydrated /\ Settled(t)
      /\ SelectsLoaded(selContext) => SelectsLoaded(t)
  BY <1>1, Settles
<1>4. selContext.hydrated /\ Complete(selContext) /\ a \in LoadedAreas(selContext) => t.area = a
  <2>1. SUFFICES ASSUME selContext.hydrated, Complete(selContext), a \in LoadedAreas(selContext)
                 PROVE  t.area = a
    OBVIOUS
  <2>2. ~ MustPick(selContext)
    BY <1>1, <2>1, CompleteIsIdle DEF SettledSelection
  <2>3. selContext.areas[a] \in selContext.properties
    BY <2>1 DEF Complete
  <2>4. QED
    BY <1>1, <2>1, <2>2, <2>3, AddressIsSelected
<1>5. Complete(t) => Complete(selContext)
  BY <1>3 DEF Complete, LoadedAreas, AreasOf
<1> HIDE DEF t
<1>6. selContext' \in Contexts
  BY <1>1, <1>2, <1>3
<1>7. selStored' \in [property : PropertyOrNone, area : AreaOrNone]
  BY <1>1, <1>2, <1>6 DEF Remembered, Contexts
<1>8. SelTypeOK'
  BY <1>1, <1>2, <1>6, <1>7 DEF SelTypeOK, Contexts
<1>9. LoadUnderWay'
  BY <1>1, <1>2, <1>3 DEF LoadUnderWay
<1>10. SettledSelection'
  <2>1. SUFFICES ASSUME selContext'.hydrated PROVE SettledSelection'
    BY DEF SettledSelection
  <2>2. selContext.hydrated /\ ~ selContext.loading /\ ~ selContext.error /\ selContext' = t
    BY <1>1, <1>2, <1>3, <2>1 DEF LoadUnderWay
  <2>3. selStored' = [property |-> t.property, area |-> t.area]
    BY <1>2, <1>3, <2>2 DEF Remembered
  <2>4. QED
    BY <1>1, <1>2, <1>3, <1>4, <1>5, <2>2, <2>3 DEF SettledSelection
<1>11. QED
  BY <1>8, <1>9, <1>10 DEF SelInv

\* Every step keeps the invariant.
LEMMA SelStepInv == SelInv /\ [SelNext]_selVars => SelInv'
<1> SUFFICES ASSUME SelInv, [SelNext]_selVars PROVE SelInv'
  OBVIOUS
<1>a. /\ selContext \in Contexts /\ selServer \in Servers
      /\ selLoad \in {"none", "properties", "areas"}
      /\ selStored \in [property : PropertyOrNone, area : AreaOrNone]
      /\ selAddress \in AreaOrNone /\ NoneSelected \in AreaOrNone
      /\ LoadUnderWay /\ SettledSelection
  BY DEF SelInv, SelTypeOK, Contexts, AreaOrNone
<1>b. UNCHANGED <<selContext, selLoad, selStored, selAddress>> /\ selServer' \in Servers => SelInv'
  BY <1>a DEF SelInv, SelTypeOK, Contexts, LoadUnderWay, SettledSelection
<1>1. ASSUME NEW auto \in BOOLEAN, NEW address \in AreaOrNone, MountLayout(auto, address)
      PROVE  SelInv'
  BY <1>1, <1>a, MountInv DEF MountLayout
<1>2. ASSUME NEW server \in Servers, NEW auto \in BOOLEAN, NEW address \in AreaOrNone,
             OpenBrowser(server, auto, address)
      PROVE  SelInv'
  BY <1>2, MountInv DEF OpenBrowser
<1>3. ASSUME NEW a \in SelAreas, NEW p \in PropertyOrNone, ServerChanges(a, p) PROVE SelInv'
  BY <1>3, <1>a, <1>b DEF ServerChanges, Servers
<1>4. CASE PropertiesArrive
  <2>1. selContext' = [selContext EXCEPT !.properties = selServer.properties]
        /\ selServer.properties \in SUBSET SelProperties
    BY <1>4, <1>a DEF PropertiesArrive, Servers
  <2>2. selContext' \in Contexts /\ selContext'.loading = selContext.loading
        /\ selContext'.error = selContext.error /\ selContext'.hydrated = selContext.hydrated
    BY <1>a, <2>1 DEF Contexts
  <2>3. SelTypeOK'
    BY <1>4, <1>a, <2>2 DEF PropertiesArrive, SelTypeOK, Contexts
  <2>4. LoadUnderWay' /\ SettledSelection'
    BY <1>4, <1>a, <2>2 DEF PropertiesArrive, LoadUnderWay, SettledSelection
  <2>5. QED
    BY <2>3, <2>4 DEF SelInv
<1>5. CASE AreasArrive
  BY <1>5, ArriveInv
<1>6. CASE LoadFails
  <2>1. selContext' \in Contexts /\ selContext'.hydrated = FALSE
    BY <1>6, <1>a DEF LoadFails, Contexts, LoadUnderWay
  <2>2. SelTypeOK'
    BY <1>6, <1>a, <2>1 DEF LoadFails, SelTypeOK, Contexts
  <2>3. LoadUnderWay' /\ SettledSelection'
    BY <1>6, <2>1 DEF LoadFails, LoadUnderWay, SettledSelection
  <2>4. QED
    BY <2>2, <2>3 DEF SelInv
<1>7. ASSUME NEW a \in AreaOrNone, VisitArea(a) PROVE SelInv'
  BY <1>7, VisitInv
<1>8. CASE UNCHANGED selVars
  BY <1>8, <1>a, <1>b DEF selVars
<1>9. QED
  BY <1>1, <1>2, <1>3, <1>4, <1>5, <1>6, <1>7, <1>8 DEF SelNext

\* The inductive invariant of the selection: a loaded selection is settled.
THEOREM SelectionInductive == SelSpec => []SelInv
<1>1. QED
  BY SelInitInv, SelStepInv, PTL DEF SelSpec

\* Whatever was stored, moved or visited in whatever order, an area's page shows its area,
\* and the browser remembers an area of the selected property (SelectionContext, AreaLayout).
THEOREM SelectionIsOfItsAddress == SelSpec => []SelectionFollowsAddress
<1>1. SelInv => SelectionFollowsAddress
  <2>1. SUFFICES ASSUME SelInv, Loaded PROVE SelectionFollowsAddress
    BY DEF SelectionFollowsAddress
  <2>2. SelectsLoaded(selContext) /\ Settled(selContext) /\ SettledSelection
    BY <2>1 DEF SelInv, SettledSelection, Loaded
  <2>3. selContext.property # NoneSelected /\ selContext.area # NoneSelected
          => AreaFits(selContext)
    BY <2>2 DEF SelectsLoaded, Settled, MustPick
  <2>4. QED
    BY <2>1, <2>2, <2>3 DEF Loaded, SettledSelection, Complete, SelectionFollowsAddress
<1>2. QED
  BY <1>1, SelectionInductive, PTL


-----------------------------------------------------------------------------
(* The pages side by side *)

PagesInv == PanelInv /\ SelInv /\ CatInv

\* A step of one page leaves the others, so that each takes a step of its own or none.
LEMMA PagesStep ==
  ASSUME PagesInv, [PagesNext]_pagesVars
  PROVE  PagesInv'
<1>1. [PanelNext]_panVars
  BY DEF PagesNext, pagesVars
<1>2. [SelNext]_selVars
  BY DEF PagesNext, pagesVars
<1>3. [CatalogNext]_catVars
  BY DEF PagesNext, pagesVars
<1>4. PanelInv'
  BY <1>1, PanelStepTyped, PanelStepFollows DEF PagesInv, PanelInv
<1>5. SelInv' /\ CatInv'
  BY <1>2, <1>3, SelStepInv, CatalogStepInv DEF PagesInv
<1>6. QED
  BY <1>4, <1>5 DEF PagesInv

\* The pages keep their types whatever the others do: the panel, the selection of areas
\* and the catalogue's pages (frontend), for any codes, areas and rows.
THEOREM PagesTypeCorrect == PagesSpec => []PagesTypeOK
<1>1. PagesInit => PagesInv
  BY PanelInitInv, SelInitInv, CatalogInitInv DEF PagesInit, PagesInv
<1>2. PagesInv /\ [PagesNext]_pagesVars => PagesInv'
  BY PagesStep
<1>3. PagesInv => PagesTypeOK
  BY DEF PagesInv, PanelInv, SelInv, CatInv, PagesTypeOK
<1>4. QED
  BY <1>1, <1>2, <1>3, PTL DEF PagesSpec

=============================================================================
