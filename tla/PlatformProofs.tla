---------------------------- MODULE PlatformProofs ----------------------------
(***************************************************************************)
(* Theorems about the components of MCPlatform: the web session, the       *)
(* equipment wizard and the keyed read pages; and with those of the jobs,  *)
(* the types and the safety of all of them side by side.                   *)
(***************************************************************************)
EXTENDS MCPlatform, JobsProofs, SequenceTheorems, TLAPS


-----------------------------------------------------------------------------
(* The web session *)

\* Who may be signed in: the stored token's owner, on the pages of their role, and before
\* the tab is opened nothing is in flight.
OwnerOnScreen ==
  /\ webUser = webStore.token
  /\ webPage \in {"admin", "cliente"} => webUser # Nobody /\ webPage = Home(webUser)
  /\ webPage = "closed" => \A c \in WebCalls : webCall[c] = NoRequest

\* A sign-in names somebody, and a renewal is somebody's.
SomebodySignsIn ==
  \A c \in WebCalls :
    /\ webCall[c].kind = "login" => webCall[c].from # Nobody
    /\ webCall[c].state = "refreshing" => webCall[c].as # Nobody

\* What one user has in flight on a page of their role, and the form on a public page.
OfThisUser(c) ==
  /\ webCall[c].kind \in {"data", "modules"}
  /\ webCall[c].from = webUser /\ webCall[c].as = webUser
OfThisForm(c) ==
  /\ webCall[c].kind = webPage /\ webCall[c].state = "sent"
  /\ \A d \in WebCalls : webCall[d] # NoRequest => d = c

\* While nobody leaves with a request in flight, requests are of the page that is shown.
PatientSession ==
  webRegime = "patient" =>
    /\ webStore.refresh = webStore.token
    /\ \A c \in WebCalls : webCall[c] # NoRequest =>
         IF webPage \in PublicPages THEN OfThisForm(c) ELSE OfThisUser(c)

WebInv == WebTypeOK /\ OwnerOnScreen /\ SomebodySignsIn /\ PatientSession

-----------------------------------------------------------------------------
(* Typing *)

\* Whoever is let in, a route leads to a page.
LEMMA RoutedTyped ==
  ASSUME NEW page \in Pages, NEW user \in Someone
  PROVE  /\ Routed(page, user) \in Pages
         /\ Home(user) \in {"admin", "cliente"}
         /\ page # "closed" => Routed(page, user) # "closed"
         /\ Routed(page, user) \in {"admin", "cliente"} =>
              user # Nobody /\ Routed(page, user) = Home(user)
         /\ Routed(page, user) \in {page, Home(user), "login"}
  BY DEF Routed, ProtectedRoute, Home, Pages, PublicPages

\* Nothing is stored or sent before the tab is opened.
LEMMA WebInitTyped == WebInit => WebTypeOK
  BY DEF WebInit, WebTypeOK, Pages, PublicPages, NoTokens, Someone, NoModules, NoRequest, Requests

\* A request that is sent, settled or renewed is one.
LEMMA CallsTyped ==
  ASSUME WebTypeOK, NEW c \in WebCalls
  PROVE  /\ NoRequest \in Requests
         /\ [d \in WebCalls |-> NoRequest] \in [WebCalls -> Requests]
         /\ \A r \in Requests : [webCall EXCEPT ![c] = r] \in [WebCalls -> Requests]
  BY DEF WebTypeOK, NoRequest, Requests, Someone

\* Every step keeps the types.
LEMMA WebStepTyped == WebTypeOK /\ [WebNext]_webVars => WebTypeOK'
<1> SUFFICES ASSUME WebTypeOK, [WebNext]_webVars PROVE WebTypeOK'
  OBVIOUS
<1>a. /\ webRegime \in {"patient", "any"} /\ webPage \in Pages
      /\ webStore \in [token : Someone, refresh : Someone] /\ webUser \in Someone
      /\ webModules \in [user : Someone, by : SUBSET WebCalls]
      /\ webCall \in [WebCalls -> Requests]
      /\ Nobody \in Someone
  BY DEF WebTypeOK, Someone
<1>b. NoTokens \in [token : Someone, refresh : Someone]
      /\ NoModules \in [user : Someone, by : SUBSET WebCalls]
  BY <1>a DEF NoTokens, NoModules
<1>c. clearSessionAndRedirect /\ UNCHANGED webRegime => WebTypeOK'
  BY <1>a, <1>b, CallsTyped DEF clearSessionAndRedirect, WebTypeOK, Pages, PublicPages, NoRequest, Requests
<1>1. ASSUME NEW regime \in {"patient", "any"}, NEW page \in Pages \ {"closed"},
             NEW stored \in Someone, NEW valid \in BOOLEAN, OpenTab(regime, page, stored, valid)
      PROVE  WebTypeOK'
  <2>1. webUser' \in Someone
    BY <1>1, <1>a DEF OpenTab
  <2>2. QED
    BY <1>1, <1>a, <2>1, RoutedTyped DEF OpenTab, WebTypeOK
<1>2. ASSUME NEW valid \in BOOLEAN, ReloadTab(valid) PROVE WebTypeOK'
  <2>1. webUser' \in Someone /\ webStore' \in [token : Someone, refresh : Someone]
    BY <1>2, <1>a, <1>b DEF ReloadTab
  <2>2. [c \in WebCalls |-> NoRequest] \in [WebCalls -> Requests]
    BY <1>a DEF NoRequest, Requests
  <2>3. QED
    BY <1>2, <1>a, <1>b, <2>1, <2>2, RoutedTyped DEF ReloadTab, WebTypeOK
<1>3. ASSUME NEW page \in Pages \ {"closed"}, VisitPage(page) PROVE WebTypeOK'
  BY <1>3, <1>a, RoutedTyped DEF VisitPage, WebTypeOK
<1>4. CASE SignOut
  BY <1>4, <1>a, <1>b, RoutedTyped DEF SignOut, logout, WebTypeOK
<1>5. ASSUME NEW c \in WebCalls, NEW kind \in {"data", "modules"} \cup PublicPages,
             NEW from \in Someone, NEW as \in Someone, Send(c, kind, from, as)
      PROVE  webCall' \in [WebCalls -> Requests]
  <2>1. [NoRequest EXCEPT !.kind = kind, !.from = from, !.as = as] \in Requests
    BY <1>a DEF NoRequest, Requests
  <2>2. QED
    BY <2>1, <1>5, <1>a DEF Send
<1>6. ASSUME NEW c \in WebCalls, RequestData(c) \/ loadModules(c) PROVE WebTypeOK'
  BY <1>5, <1>6, <1>a DEF RequestData, loadModules, WebTypeOK
<1>7. ASSUME NEW c \in WebCalls, NEW user \in Someone, SubmitForm(c, user) PROVE WebTypeOK'
  BY <1>5, <1>7, <1>a DEF SubmitForm, WebTypeOK
<1>8. ASSUME NEW c \in WebCalls, NEW served \in BOOLEAN
      PROVE  ModulesAfter(c, served) \in [user : Someone, by : SUBSET WebCalls]
  BY <1>a, <1>b DEF ModulesAfter
<1>9. ASSUME NEW c \in WebCalls, Settle(c) PROVE webCall' \in [WebCalls -> Requests]
  BY <1>9, CallsTyped DEF Settle
<1>10. ASSUME NEW c \in WebCalls, Served(c) PROVE WebTypeOK'
  <2>1. webCall[c].from \in Someone
    BY <1>a DEF Requests
  <2>2. CASE webCall[c].kind = "login"
    <3>1. Home(webCall[c].from) \in Pages
      BY <2>1, RoutedTyped, <1>a DEF Home, Pages
    <3>2. QED
      BY <1>10, <1>9, <1>a, <2>1, <2>2, <3>1 DEF Served, login, WebTypeOK
  <2>3. CASE webCall[c].kind # "login"
    BY <1>10, <1>8, <1>9, <1>a, <2>3 DEF Served, WebTypeOK
  <2>4. QED
    BY <2>2, <2>3
<1>11. ASSUME NEW c \in WebCalls, Rejected(c) PROVE WebTypeOK'
  BY <1>11, <1>8, <1>9, <1>a DEF Rejected, WebTypeOK
<1>12. ASSUME NEW c \in WebCalls, Unauthorized(c) PROVE WebTypeOK'
  <2>1. CASE MayRefresh(c)
    <3>1. [webCall[c] EXCEPT !.state = "refreshing", !.retried = TRUE, !.as = webStore.refresh] \in Requests
      BY <1>a DEF Requests
    <3>2. webCall' = [webCall EXCEPT ![c] =
             [webCall[c] EXCEPT !.state = "refreshing", !.retried = TRUE, !.as = webStore.refresh]]
      BY <1>12, <2>1, <1>a DEF Unauthorized
    <3>3. webCall' \in [WebCalls -> Requests]
      BY <3>1, <3>2, CallsTyped
    <3>4. QED
      BY <1>12, <2>1, <3>3, <1>a DEF Unauthorized, WebTypeOK
  <2>2. CASE ~ MayRefresh(c)
    BY <1>12, <2>2, <1>c DEF Unauthorized
  <2>3. QED
    BY <2>1, <2>2
<1>13. ASSUME NEW c \in WebCalls, Refreshed(c) PROVE WebTypeOK'
  <2>1. webCall[c].as \in Someone /\ [webCall[c] EXCEPT !.state = "sent"] \in Requests
    BY <1>a DEF Requests
  <2>2. webCall' \in [WebCalls -> Requests]
    BY <1>13, <1>a, <2>1 DEF Refreshed
  <2>3. QED
    BY <1>13, <1>a, <2>1, <2>2, RoutedTyped DEF Refreshed, TokenRefreshed, WebTypeOK
<1>14. ASSUME NEW c \in WebCalls, RefreshFailed(c) PROVE WebTypeOK'
  BY <1>14, <1>c DEF RefreshFailed
<1>15. CASE UNCHANGED webVars
  BY <1>15, <1>a DEF webVars, WebTypeOK
<1>16. QED
  BY <1>1, <1>2, <1>3, <1>4, <1>6, <1>7, <1>10, <1>11, <1>12, <1>13, <1>14, <1>15
  DEF WebNext, Answered

-----------------------------------------------------------------------------
(* Who is on the screen *)

\* Nobody is, at the start.
LEMMA WebInitInv == WebInit => WebInv
  BY WebInitTyped
  DEF WebInit, WebInv, OwnerOnScreen, SomebodySignsIn, PatientSession, NoTokens, NoRequest,
      OfThisForm, OfThisUser

\* The context follows the stored token, and the route the context.
LEMMA StepOwner == WebInv /\ [WebNext]_webVars => OwnerOnScreen'
<1> SUFFICES ASSUME WebInv, [WebNext]_webVars PROVE OwnerOnScreen'
  OBVIOUS
<1>a. /\ webPage \in Pages /\ webStore \in [token : Someone, refresh : Someone]
      /\ webUser \in Someone /\ Nobody \in Someone
      /\ webCall \in [WebCalls -> Requests]
      /\ OwnerOnScreen /\ SomebodySignsIn
  BY DEF WebInv, WebTypeOK, Someone
<1>b. clearSessionAndRedirect => OwnerOnScreen'
  BY DEF clearSessionAndRedirect, OwnerOnScreen, NoTokens
<1>1. ASSUME NEW regime \in {"patient", "any"}, NEW page \in Pages \ {"closed"},
             NEW stored \in Someone, NEW valid \in BOOLEAN, OpenTab(regime, page, stored, valid)
      PROVE  OwnerOnScreen'
  <2>1. webUser' \in Someone
    BY <1>1, <1>a DEF OpenTab
  <2>2. QED
    BY <1>1, <2>1, RoutedTyped DEF OpenTab, OwnerOnScreen
<1>2. ASSUME NEW valid \in BOOLEAN, ReloadTab(valid) PROVE OwnerOnScreen'
  <2>1. webUser' \in Someone /\ webUser' = webStore'.token
    BY <1>2, <1>a DEF ReloadTab, NoTokens
  <2>2. QED
    BY <1>2, <1>a, <2>1, RoutedTyped DEF ReloadTab, OwnerOnScreen
<1>3. ASSUME NEW page \in Pages \ {"closed"}, VisitPage(page) PROVE OwnerOnScreen'
  BY <1>3, <1>a, RoutedTyped DEF VisitPage, OwnerOnScreen
<1>4. CASE SignOut
  <2>1. Routed(webPage, Nobody) = "login"
    BY <1>4 DEF SignOut, Routed, ProtectedRoute
  <2>2. QED
    BY <1>4, <2>1 DEF SignOut, logout, OwnerOnScreen, NoTokens
<1>5. ASSUME NEW c \in WebCalls, RequestData(c) \/ loadModules(c) PROVE OwnerOnScreen'
  BY <1>5, <1>a DEF RequestData, loadModules, OwnerOnScreen
<1>6. ASSUME NEW c \in WebCalls, NEW user \in Someone, SubmitForm(c, user) PROVE OwnerOnScreen'
  BY <1>6, <1>a DEF SubmitForm, OwnerOnScreen, PublicPages
<1>7. ASSUME NEW c \in WebCalls, webPage' = webPage, webStore' = webStore, webUser' = webUser,
             webPage # "closed"
      PROVE  OwnerOnScreen'
  BY <1>7, <1>a DEF OwnerOnScreen
<1>8. ASSUME NEW c \in WebCalls, Served(c) PROVE OwnerOnScreen'
  <2>1. CASE webCall[c].kind = "login"
    <3>1. webCall[c].from \in Someone \ {Nobody}
      BY <2>1, <1>a DEF SomebodySignsIn, Requests
    <3>2. QED
      BY <1>8, <2>1, <3>1, <1>a, RoutedTyped DEF Served, login, OwnerOnScreen
  <2>2. CASE webCall[c].kind # "login"
    BY <1>7, <1>8, <2>2, <1>a DEF Served, OwnerOnScreen
  <2>3. QED
    BY <2>1, <2>2
<1>9. ASSUME NEW c \in WebCalls, Rejected(c) PROVE OwnerOnScreen'
  BY <1>7, <1>9, <1>a DEF Rejected, OwnerOnScreen
<1>10. ASSUME NEW c \in WebCalls, Unauthorized(c) PROVE OwnerOnScreen'
  BY <1>7, <1>10, <1>a, <1>b DEF Unauthorized, OwnerOnScreen
<1>11. ASSUME NEW c \in WebCalls, Refreshed(c) PROVE OwnerOnScreen'
  <2>1. webCall[c].as \in Someone \ {Nobody} /\ webPage # "closed"
    BY <1>11, <1>a DEF Refreshed, SomebodySignsIn, OwnerOnScreen, Requests, NoRequest
  <2>2. QED
    BY <1>11, <2>1, <1>a, RoutedTyped DEF Refreshed, TokenRefreshed, OwnerOnScreen
<1>12. ASSUME NEW c \in WebCalls, RefreshFailed(c) PROVE OwnerOnScreen'
  BY <1>12, <1>b DEF RefreshFailed
<1>13. CASE UNCHANGED webVars
  BY <1>13, <1>a DEF webVars, OwnerOnScreen
<1>14. QED
  BY <1>1, <1>2, <1>3, <1>4, <1>5, <1>6, <1>8, <1>9, <1>10, <1>11, <1>12, <1>13
  DEF WebNext, Answered

\* Who signs in is named by the form, and only a stored refresh token is renewed.
LEMMA StepSomebody == WebInv /\ [WebNext]_webVars => SomebodySignsIn'
<1> SUFFICES ASSUME WebInv, [WebNext]_webVars PROVE SomebodySignsIn'
  OBVIOUS
<1>a. webCall \in [WebCalls -> Requests] /\ SomebodySignsIn
  BY DEF WebInv, WebTypeOK
<1>b. webCall' = [d \in WebCalls |-> NoRequest] => SomebodySignsIn'
  BY DEF SomebodySignsIn, NoRequest
<1>c. webCall' = webCall => SomebodySignsIn'
  BY <1>a DEF SomebodySignsIn
<1>d. ASSUME NEW c \in WebCalls, Settle(c) PROVE SomebodySignsIn'
  BY <1>a, <1>d DEF Settle, SomebodySignsIn, NoRequest
<1>1. ASSUME NEW c \in WebCalls, RequestData(c) \/ loadModules(c) PROVE SomebodySignsIn'
  BY <1>a, <1>1 DEF RequestData, loadModules, Send, SomebodySignsIn, NoRequest
<1>2. ASSUME NEW c \in WebCalls, NEW user \in Someone, SubmitForm(c, user) PROVE SomebodySignsIn'
  BY <1>a, <1>2 DEF SubmitForm, Send, SomebodySignsIn, NoRequest
<1>3. ASSUME NEW c \in WebCalls, Unauthorized(c) PROVE SomebodySignsIn'
  BY <1>a, <1>b, <1>3 DEF Unauthorized, MayRefresh, clearSessionAndRedirect, SomebodySignsIn, Requests
<1>4. ASSUME NEW c \in WebCalls, Refreshed(c) PROVE SomebodySignsIn'
  BY <1>a, <1>4 DEF Refreshed, SomebodySignsIn, Requests
<1>5. QED
  BY <1>b, <1>c, <1>d, <1>1, <1>2, <1>3, <1>4
  DEF WebNext, Answered, OpenTab, ReloadTab, VisitPage, SignOut, Served, Rejected, RefreshFailed,
      clearSessionAndRedirect, webVars

\* Nothing in flight leaves a page, and what one session asks is answered in it.
LEMMA StepPatient == WebInv /\ [WebNext]_webVars => PatientSession'
<1> SUFFICES ASSUME WebInv, [WebNext]_webVars, webRegime' = "patient" PROVE PatientSession'
  BY DEF PatientSession
<1>a. /\ webPage \in Pages /\ webStore \in [token : Someone, refresh : Someone]
      /\ webUser \in Someone /\ Nobody \in Someone
      /\ webCall \in [WebCalls -> Requests]
      /\ OwnerOnScreen /\ SomebodySignsIn /\ PatientSession
  BY DEF WebInv, WebTypeOK, Someone
<1>b. (\A c \in WebCalls : webCall'[c] = NoRequest) /\ webStore'.refresh = webStore'.token
      => PatientSession'
  BY DEF PatientSession
<1>c. clearSessionAndRedirect => PatientSession'
  BY <1>b DEF clearSessionAndRedirect, NoTokens
<1>1. ASSUME NEW regime \in {"patient", "any"}, NEW page \in Pages \ {"closed"},
             NEW stored \in Someone, NEW valid \in BOOLEAN, OpenTab(regime, page, stored, valid)
      PROVE  PatientSession'
  BY <1>1, <1>a, <1>b DEF OpenTab, OwnerOnScreen
<1>2. webRegime' # webRegime => \E regime \in {"patient", "any"}, page \in Pages \ {"closed"},
        stored \in Someone, valid \in BOOLEAN : OpenTab(regime, page, stored, valid)
  BY DEF WebNext, Answered, ReloadTab, VisitPage, SignOut, RequestData, loadModules, SubmitForm,
         Served, Rejected, Unauthorized, Refreshed, RefreshFailed, webVars
<1>3. SUFFICES ASSUME webRegime = "patient" PROVE PatientSession'
  BY <1>1, <1>2
<1>d. /\ webStore.refresh = webStore.token /\ webStore.token = webUser
      /\ \A c \in WebCalls : webCall[c] # NoRequest =>
           IF webPage \in PublicPages THEN OfThisForm(c) ELSE OfThisUser(c)
  BY <1>a, <1>3 DEF PatientSession, OwnerOnScreen
<1>4. ASSUME NEW valid \in BOOLEAN, ReloadTab(valid) PROVE PatientSession'
  BY <1>4, <1>b, <1>d DEF ReloadTab, NoTokens
<1>5. ASSUME NEW page \in Pages \ {"closed"}, VisitPage(page) PROVE PatientSession'
  BY <1>5, <1>3, <1>b, <1>d DEF VisitPage, MayLeave, NothingInFlight
<1>6. CASE SignOut
  BY <1>6, <1>3, <1>b DEF SignOut, logout, MayLeave, NothingInFlight, NoTokens
<1>7. ASSUME NEW c \in WebCalls, RequestData(c) \/ loadModules(c) PROVE PatientSession'
  <2>1. webPage \notin PublicPages
    BY <1>7 DEF RequestData, loadModules, PublicPages
  <2>2. \E kind \in {"data", "modules"} :
          webCall' = [webCall EXCEPT ![c] =
                        [NoRequest EXCEPT !.kind = kind, !.from = webUser, !.as = webStore.token]]
    BY <1>7 DEF RequestData, loadModules, Send
  <2>3. UNCHANGED <<webPage, webStore, webUser>>
    BY <1>7 DEF RequestData, loadModules
  <2>4. ASSUME NEW d \in WebCalls, webCall'[d] # NoRequest PROVE OfThisUser(d)'
    <3>1. CASE d = c
      <4>1. webCall'[d].kind \in {"data", "modules"} /\ webCall'[d].from = webUser
            /\ webCall'[d].as = webStore.token
        BY <2>2, <3>1, <1>a DEF NoRequest
      <4>2. QED
        BY <4>1, <2>3, <1>d DEF OfThisUser
    <3>2. CASE d # c
      <4>1. webCall'[d] = webCall[d]
        BY <2>2, <3>2, <1>a
      <4>2. QED
        BY <4>1, <2>1, <2>3, <2>4, <1>d DEF OfThisUser
    <3>3. QED
      BY <3>1, <3>2
  <2>5. QED
    BY <2>1, <2>3, <2>4, <1>d DEF PatientSession
<1>8. ASSUME NEW c \in WebCalls, NEW user \in Someone, SubmitForm(c, user) PROVE PatientSession'
  <2>1. webPage \in PublicPages /\ ~ \E d \in WebCalls : webCall[d].kind = webPage
    BY <1>8, <1>3 DEF SubmitForm, LoginForm, ForgotForm, ResetForm
  <2>2. \A d \in WebCalls : webCall[d] = NoRequest
    BY <2>1, <1>d DEF OfThisForm
  <2>3. QED
    BY <1>8, <2>1, <2>2, <1>a, <1>d
    DEF SubmitForm, Send, PatientSession, OfThisForm, NoRequest
<1>9. ASSUME NEW c \in WebCalls, Settle(c), UNCHANGED <<webPage, webStore, webUser>>
      PROVE  PatientSession'
  <2>1. webCall'[c] = NoRequest /\ \A d \in WebCalls \ {c} : webCall'[d] = webCall[d]
    BY <1>9, <1>a DEF Settle
  <2>2. QED
    BY <1>9, <2>1, <1>d DEF PatientSession, OfThisForm, OfThisUser
<1>10. ASSUME NEW c \in WebCalls, Served(c) PROVE PatientSession'
  <2>1. CASE webCall[c].kind = "login"
    <3>1. OfThisForm(c)
      BY <1>10, <2>1, <1>d DEF Served, OfThisUser
    <3>2. \A d \in WebCalls : webCall'[d] = NoRequest
      BY <1>10, <3>1, <1>a DEF Served, Settle, OfThisForm
    <3>3. QED
      BY <1>10, <2>1, <3>2, <1>b DEF Served, login
  <2>2. CASE webCall[c].kind # "login"
    BY <1>9, <1>10, <2>2 DEF Served
  <2>3. QED
    BY <2>1, <2>2
<1>11. ASSUME NEW c \in WebCalls, Rejected(c) PROVE PatientSession'
  BY <1>9, <1>11 DEF Rejected
<1>12. ASSUME NEW c \in WebCalls, NEW r \in Requests,
              r.kind = webCall[c].kind, r.from = webCall[c].from, r.as = webUser,
              webCall[c] # NoRequest, webPage \notin PublicPages,
              webCall' = [webCall EXCEPT ![c] = r], UNCHANGED <<webPage, webStore, webUser>>
       PROVE  PatientSession'
  BY <1>12, <1>a, <1>d DEF PatientSession, OfThisUser
<1>13. ASSUME NEW c \in WebCalls, Unauthorized(c) PROVE PatientSession'
  <2>1. CASE MayRefresh(c)
    <3> DEFINE r == [webCall[c] EXCEPT !.state = "refreshing", !.retried = TRUE, !.as = webStore.refresh]
    <3>1. r \in Requests /\ r.kind = webCall[c].kind /\ r.from = webCall[c].from /\ r.as = webUser
      BY <1>a, <1>d DEF Requests
    <3>2. webCall' = [webCall EXCEPT ![c] = r]
      BY <1>13, <2>1, <1>a DEF Unauthorized
    <3> HIDE DEF r
    <3>3. QED
      BY <1>12, <1>13, <2>1, <3>1, <3>2 DEF Unauthorized
  <2>2. CASE ~ MayRefresh(c)
    BY <1>13, <2>2, <1>c DEF Unauthorized
  <2>3. QED
    BY <2>1, <2>2
<1>14. ASSUME NEW c \in WebCalls, Refreshed(c) PROVE PatientSession'
  <2>1. webCall[c] # NoRequest
    BY <1>14 DEF Refreshed, NoRequest
  <2>2. webPage \notin PublicPages /\ webCall[c].as = webUser
    BY <1>14, <2>1, <1>d DEF Refreshed, OfThisForm, OfThisUser
  <2>3. webPage = Home(webUser) /\ webUser # Nobody /\ webPage \in {"admin", "cliente"}
    BY <2>1, <2>2, <1>a DEF OwnerOnScreen, Pages
  <2>4. webPage' = webPage /\ webUser' = webUser /\ webStore' = webStore
    BY <1>14, <2>2, <2>3, <1>a, <1>d DEF Refreshed, TokenRefreshed, Routed, ProtectedRoute
  <2> DEFINE r == [webCall[c] EXCEPT !.state = "sent"]
  <2>5. r \in Requests /\ r.kind = webCall[c].kind /\ r.from = webCall[c].from /\ r.as = webUser
    BY <1>a, <2>2 DEF Requests
  <2>6. webCall' = [webCall EXCEPT ![c] = r]
    BY <1>14, <1>a DEF Refreshed
  <2> HIDE DEF r
  <2>7. QED
    BY <1>12, <2>1, <2>2, <2>4, <2>5, <2>6
<1>15. ASSUME NEW c \in WebCalls, RefreshFailed(c) PROVE PatientSession'
  BY <1>15, <1>c DEF RefreshFailed
<1>16. CASE UNCHANGED webVars
  BY <1>16, <1>d DEF webVars, PatientSession, OfThisForm, OfThisUser
<1>17. QED
  BY <1>1, <1>4, <1>5, <1>6, <1>7, <1>8, <1>10, <1>11, <1>13, <1>14, <1>15, <1>16
  DEF WebNext, Answered

\* The inductive invariant of the session: what is in flight, besides who is on the screen.
THEOREM SessionInductive == WebSpec => []WebInv
<1>1. WebInit => WebInv
  BY WebInitInv
<1>2. WebInv /\ [WebNext]_webVars => WebInv'
  BY WebStepTyped, StepOwner, StepSomebody, StepPatient DEF WebInv
<1>3. QED
  BY <1>1, <1>2, PTL DEF WebSpec

\* Whatever is in flight, the user on the screen owns the stored token, and patient users'
\* requests are sent as their own (the interceptors of services/api.ts and AuthContext).
THEOREM SessionsAreOfOneUser == WebSpec => []SessionOfOneUser
<1>1. WebInv => SessionOfOneUser
  BY DEF WebInv, OwnerOnScreen, PatientSession, SessionOfOneUser, OfThisForm, OfThisUser,
         NoRequest, PublicPages
<1>2. QED
  BY <1>1, SessionInductive, PTL

-----------------------------------------------------------------------------
(* The equipment wizard *)

WizPages == [open : Addresses, visited : BOOLEAN]
WizCallLists == [WizCalls -> WizRequests]

\* A request other than the loading of the list is about a gateway.
AboutGateways(call) ==
  \A c \in WizCalls :
    call[c].kind \notin {"none", "load", "statuses"} => call[c].gateway \in WizGateways

WizardInv == WizardTypeOK /\ AboutGateways(wizCall) /\ WizardHasLink

\* The types, one variable at a time.
LEMMA WizTypes ==
  WizardTypeOK <=> /\ wizServer \in LinkLists /\ wizShown \in LinkLists /\ wizPage \in WizPages
                   /\ wizCall \in WizCallLists /\ wizMoves \in 0..WizMaxMoves
BY DEF WizardTypeOK, WizPages, WizCallLists

AskKinds ==
  {"load", "statuses", "refresh", "create", "publish", "approve", "reference", "revoke", "reread"}

\* A request is about the address it is made for.
LEMMA RequestsTyped ==
  /\ NoLink \in Links /\ NoWizCall \in WizRequests /\ NoWizCall.kind = "none"
  /\ \A kind \in AskKinds, g \in Addresses :
       /\ Ask(kind, g) \in WizRequests /\ Ask(kind, g).kind = kind /\ Ask(kind, g).gateway = g
       /\ [Ask(kind, g) EXCEPT !.busy = TRUE] \in WizRequests
       /\ [Ask(kind, g) EXCEPT !.busy = TRUE].kind = kind
       /\ [Ask(kind, g) EXCEPT !.busy = TRUE].gateway = g
<1>1. InList \in Addresses /\ NoLink \in Links
  BY DEF Addresses, Links
<1>2. NoWizCall \in WizRequests /\ NoWizCall.kind = "none"
  BY <1>1 DEF NoWizCall, WizRequests
<1>3. QED
  BY <1>1, <1>2 DEF Ask, WizRequests, AskKinds

\* A request in flight that is replaced by another or is over.
LEMMA SlotReplaced ==
  ASSUME wizCall \in WizCallLists, AboutGateways(wizCall), NEW c \in WizCalls,
         NEW q \in WizRequests,
         q.kind \notin {"none", "load", "statuses"} => q.gateway \in WizGateways
  PROVE  /\ [wizCall EXCEPT ![c] = q] \in WizCallLists
         /\ AboutGateways([wizCall EXCEPT ![c] = q])
BY DEF WizCallLists, AboutGateways

\* A request that is over leaves its slot free.
LEMMA SlotFreed ==
  ASSUME wizCall \in WizCallLists, AboutGateways(wizCall), NEW c \in WizCalls
  PROVE  Freed(c) \in WizCallLists /\ AboutGateways(Freed(c))
BY SlotReplaced, RequestsTyped DEF Freed

\* A request that begins takes its slot.
LEMMA SlotBegun ==
  ASSUME wizCall \in WizCallLists, AboutGateways(wizCall), NEW c \in WizCalls,
         NEW kind \in AskKinds, NEW g \in Addresses, kind \in {"load", "statuses"} \/ g \in WizGateways
  PROVE  Begun(c, kind, g) \in WizCallLists /\ AboutGateways(Begun(c, kind, g))
<1>1. Ask(kind, g) \in WizRequests /\ Ask(kind, g).kind = kind /\ Ask(kind, g).gateway = g
  BY RequestsTyped
<1>2. QED
  BY <1>1, SlotReplaced DEF Begun

\* The gateway in the wizard is one, or there is none.
LEMMA SetupIsLink ==
  ASSUME NEW open, NEW row
  PROVE  /\ SetupOf(open, row) \in WizGateways \cup {InList}
         /\ SetupOf(open, row) # InList => SetupOf(open, row) \in WizGateways
BY DEF SetupOf

\* After a commit the address is that of a gateway in the wizard, unless the list is
\* still loading: the row that is refreshed takes a free slot.
LEMMA CommitKeepsLink ==
  ASSUME NEW page \in WizPages, NEW shown \in LinkLists, NEW call \in WizCallLists,
         AboutGateways(call), Commit(page, shown, call)
  PROVE  /\ wizPage' \in WizPages /\ wizShown' \in LinkLists
         /\ wizCall' \in WizCallLists /\ AboutGateways(wizCall')
         /\ WizardHasLink'
<1> DEFINE setup == SetupOf(page.open, shown.row)
           new == setup # Setup
           loaded == \A c \in WizCalls : call[c].kind \notin {"load", "statuses"}
           free == {c \in WizCalls : call[c] = NoWizCall}
           slot == CHOOSE c \in free : TRUE
<1>1. /\ new /\ setup # InList => free # {}
      /\ wizPage' = [page EXCEPT !.open = IF loaded /\ page.open \in WizGateways /\ setup = InList
                                          THEN InList ELSE page.open]
      /\ wizShown' = shown
      /\ wizCall' = IF new /\ setup # InList
                    THEN [call EXCEPT ![slot] = Ask("refresh", setup)] ELSE call
  BY DEF Commit
<1>2. new /\ setup # InList => slot \in WizCalls /\ call[slot].kind = "none"
  BY <1>1, RequestsTyped
<1>3. setup # InList => /\ setup \in WizGateways /\ Ask("refresh", setup) \in WizRequests
                        /\ Ask("refresh", setup).kind = "refresh"
                        /\ Ask("refresh", setup).gateway = setup
  <2>1. "refresh" \in AskKinds
    BY DEF AskKinds
  <2>2. setup # InList => setup \in WizGateways /\ setup \in Addresses
    BY SetupIsLink DEF Addresses
  <2> HIDE DEF setup
  <2>3. QED
    BY <2>1, <2>2, RequestsTyped
<1>4. /\ wizPage' \in WizPages
      /\ wizPage'.open = IF loaded /\ page.open \in WizGateways /\ setup = InList
                         THEN InList ELSE page.open
  BY <1>1 DEF WizPages, Addresses
<1> HIDE DEF slot, setup
<1>5. wizCall' \in WizCallLists /\ AboutGateways(wizCall')
  BY <1>1, <1>2, <1>3 DEF WizCallLists, AboutGateways
<1>6. \A c \in WizCalls : call[c].kind \in {"load", "statuses"} =>
        wizCall'[c].kind \in {"load", "statuses"}
  BY <1>1, <1>2 DEF WizCallLists
<1>7. ~ WizardLoading' => loaded
  BY <1>6 DEF WizardLoading
<1>8. ASSUME ~ WizardLoading', wizPage'.open \in WizGateways
      PROVE  Setup' # InList
  <2>1. loaded /\ wizPage'.open = page.open /\ setup # InList
    BY <1>4, <1>7, <1>8, WizardConstants
  <2>2. Setup' = setup
    BY <1>1, <2>1 DEF Setup, setup
  <2>3. QED
    BY <2>1, <2>2
<1>9. QED
  BY <1>1, <1>4, <1>5, <1>8 DEF WizardHasLink

\* A step that leaves the page and what it shows, and does not end the loading of the
\* list, leaves the address with its gateway.
LEMMA QuietKeepsLink ==
  ASSUME WizardHasLink, UNCHANGED <<wizShown, wizPage>>,
         \A c \in WizCalls : wizCall[c].kind \in {"load", "statuses"} =>
                               wizCall'[c].kind \in {"load", "statuses"}
  PROVE  WizardHasLink'
<1>1. WizardLoading => WizardLoading'
  BY DEF WizardLoading
<1>2. Setup' = Setup
  BY DEF Setup
<1>3. QED
  BY <1>1, <1>2 DEF WizardHasLink

\* What the wizard keeps: its types, requests about gateways, and the address.
WizardKept ==
  /\ wizServer' \in LinkLists /\ wizShown' \in LinkLists /\ wizPage' \in WizPages
  /\ wizCall' \in WizCallLists /\ AboutGateways(wizCall') /\ WizardHasLink'
  /\ wizMoves' \in 0..WizMaxMoves

\* A row or a status that is replaced leaves a list.
LEMMA LinksTyped ==
  ASSUME NEW list \in LinkLists, NEW g \in WizGateways, NEW link \in Links
  PROVE  /\ [list EXCEPT !.row[g] = link] \in LinkLists
         /\ [list EXCEPT !.row = [list.row EXCEPT ![g] = link]] \in LinkLists
         /\ list.row[g] \in Links
         /\ \A full \in SUBSET WizGateways :
              /\ [list EXCEPT !.full = full] \in LinkLists
              /\ [[list EXCEPT !.row[g] = link] EXCEPT !.full = full] \in LinkLists
BY DEF LinkLists

\* What may become of the row of a gateway.
LEMMA RowsTyped ==
  ASSUME NEW link \in Links
  PROVE  /\ [link EXCEPT !.status = "revoked"] \in Links
         /\ link # NoLink => [link EXCEPT !.status = "active"] \in Links
         /\ link # NoLink => [link EXCEPT !.version = 1] \in Links
         /\ [status |-> "pending_activation", version |-> 1] \in Links
         /\ Current(link) => link # NoLink
BY DEF Links, NoLink, Current

\* One step of the wizard: types, what requests are about, and the address with its link.
LEMMA WizardStepKept ==
  ASSUME WizardInv, [WizardNext]_wizVars
  PROVE  WizardKept
<1>1. /\ wizServer \in LinkLists /\ wizShown \in LinkLists /\ wizPage \in WizPages
      /\ wizCall \in WizCallLists /\ AboutGateways(wizCall) /\ WizardHasLink
      /\ wizMoves \in 0..WizMaxMoves
  BY WizTypes DEF WizardInv
<1>2. InList \in Addresses /\ WizGateways \subseteq Addresses
  BY DEF Addresses
<1>3. Setup \in Addresses /\ (Setup # InList => Setup \in WizGateways)
  BY <1>2, SetupIsLink DEF Setup
<1>4. /\ "load" \in AskKinds /\ "statuses" \in AskKinds /\ "refresh" \in AskKinds
      /\ "create" \in AskKinds /\ "publish" \in AskKinds /\ "approve" \in AskKinds
      /\ "reference" \in AskKinds /\ "revoke" \in AskKinds /\ "reread" \in AskKinds
  BY DEF AskKinds
<1>5. \A c \in WizCalls : wizCall[c] \in WizRequests /\ wizCall[c].row \in Links
  BY <1>1 DEF WizCallLists, WizRequests
<1>6. ASSUME NEW c \in WizCalls, NEW kind \in AskKinds, NEW g \in WizGateways,
             Begin(c, kind, g)
      PROVE  WizardKept
  <2>1. wizCall' = Begun(c, kind, g) /\ wizCall[c].kind = "none"
    BY <1>6, RequestsTyped DEF Begin
  <2>2. wizCall' \in WizCallLists /\ AboutGateways(wizCall')
    BY <1>1, <1>2, <2>1, SlotBegun
  <2>3. \A d \in WizCalls : d # c => wizCall'[d] = wizCall[d]
    BY <1>1, <2>1 DEF Begun, WizCallLists
  <2>4. WizardHasLink'
    BY <1>1, <1>6, <2>1, <2>3, QuietKeepsLink DEF Begin
  <2>5. QED
    BY <1>1, <1>6, <2>2, <2>4 DEF Begin, WizardKept
<1>7. ASSUME NEW page \in WizPages, NEW shown \in LinkLists, NEW call \in WizCallLists,
             AboutGateways(call), Commit(page, shown, call),
             wizServer' \in LinkLists, wizMoves' \in 0..WizMaxMoves
      PROVE  WizardKept
  BY <1>7, CommitKeepsLink DEF WizardKept
<1>8. ASSUME NEW c \in WizCalls, wizCall[c].kind \notin {"load", "statuses"},
             NEW q \in WizRequests, wizCall' = [wizCall EXCEPT ![c] = q],
             q.kind \notin {"none", "load", "statuses"} => q.gateway \in WizGateways,
             wizServer' \in LinkLists, UNCHANGED <<wizShown, wizPage, wizMoves>>
      PROVE  WizardKept
  <2>1. wizCall' \in WizCallLists /\ AboutGateways(wizCall')
    BY <1>1, <1>8, SlotReplaced
  <2>2. WizardHasLink'
    BY <1>1, <1>8, QuietKeepsLink DEF WizCallLists
  <2>3. QED
    BY <1>1, <1>8, <2>1, <2>2 DEF WizardKept
<1>9. \A c \in WizCalls : Freed(c) \in WizCallLists /\ AboutGateways(Freed(c))
  BY <1>1, SlotFreed
<1>10. \A c \in WizCalls : wizCall[c].kind \notin {"none", "load", "statuses"} =>
                             wizCall[c].gateway \in WizGateways
  BY <1>1 DEF AboutGateways
<1>11. ASSUME NEW server \in WizardServers, NEW address \in Addresses, NEW c \in WizCalls,
              OpenEquipos(server, address, c)
       PROVE  WizardKept
  <2>1. wizCall' = Begun(c, "load", InList)
    BY <1>11 DEF OpenEquipos
  <2>2. wizCall' \in WizCallLists /\ AboutGateways(wizCall')
    BY <1>1, <1>2, <1>4, <2>1, SlotBegun
  <2>3. wizCall'[c].kind = "load"
    <3>1. Ask("load", InList).kind = "load"
      BY <1>2, <1>4, RequestsTyped
    <3>2. QED
      BY <1>1, <2>1, <3>1 DEF Begun, WizCallLists
  <2>4. WizardHasLink'
    BY <2>3 DEF WizardHasLink, WizardLoading
  <2>5. wizServer' \in LinkLists /\ wizPage' \in WizPages
    BY <1>1, <1>11 DEF OpenEquipos, WizardServers, WizPages
  <2>6. QED
    BY <1>1, <1>11, <2>2, <2>4, <2>5 DEF OpenEquipos, WizardKept
<1>12. ASSUME NEW address \in Addresses, Visit(address)
       PROVE  WizardKept
  <2>1. [wizPage EXCEPT !.open = address] \in WizPages
    BY <1>1 DEF WizPages
  <2>2. QED
    BY <1>1, <1>7, <1>12, <2>1 DEF Visit
<1>13. ASSUME NEW c \in WizCalls, LoadList(c)
       PROVE  WizardKept
  <2>1. [wizShown EXCEPT !.row = wizServer.row] \in LinkLists
    BY <1>1 DEF LinkLists
  <2>2. Begun(c, "statuses", InList) \in WizCallLists /\ AboutGateways(Begun(c, "statuses", InList))
    BY <1>1, <1>2, <1>4, SlotBegun
  <2>3. wizServer' \in LinkLists /\ wizMoves' \in 0..WizMaxMoves
    BY <1>1, <1>13 DEF LoadList
  <2>4. QED
    BY <1>1, <1>7, <1>9, <1>13, <2>1, <2>2, <2>3 DEF LoadList
<1>14. ASSUME NEW c \in WizCalls, LoadStatuses(c)
       PROVE  WizardKept
  <2>1. \A answered \in SUBSET WizGateways :
          [wizShown EXCEPT !.full = wizServer.full \cap answered] \in LinkLists
    BY <1>1 DEF LinkLists
  <2>2. wizServer' \in LinkLists /\ wizMoves' \in 0..WizMaxMoves
    BY <1>1, <1>14 DEF LoadStatuses
  <2>3. QED
    BY <1>1, <1>7, <1>9, <1>14, <2>1, <2>2 DEF LoadStatuses
<1>15. ASSUME NEW c \in WizCalls, refreshGateway(c)
       PROVE  WizardKept
  <2> DEFINE g == wizCall[c].gateway
             full == IF wizCall[c].full THEN wizShown.full \cup {g} ELSE wizShown.full \ {g}
             shown == [ShownWith(g, wizCall[c].row) EXCEPT !.full = full]
  <2>1. g \in WizGateways /\ wizCall[c].row \in Links
    BY <1>5, <1>10, <1>15 DEF refreshGateway
  <2>2. full \in SUBSET WizGateways
    BY <1>1, <2>1 DEF LinkLists
  <2> HIDE DEF full
  <2>3. shown \in LinkLists
    BY <1>1, <2>1, <2>2, LinksTyped DEF ShownWith
  <2>4. Commit(wizPage, shown, Freed(c))
    BY <1>1, <1>15 DEF refreshGateway, ShownWith, full, LinkLists
  <2>5. wizServer' \in LinkLists /\ wizMoves' \in 0..WizMaxMoves
    BY <1>1, <1>15 DEF refreshGateway
  <2> HIDE DEF shown
  <2>6. QED
    BY <1>1, <1>7, <1>9, <2>3, <2>4, <2>5
<1>16. ASSUME NEW c \in WizCalls, handleCreateLink(c)
       PROVE  WizardKept
  <2> DEFINE g == wizCall[c].gateway
             link == [status |-> "pending_activation", version |-> 1]
  <2>1. g \in WizGateways /\ link \in Links
    BY <1>10, <1>16, RowsTyped, RequestsTyped DEF handleCreateLink
  <2>2. /\ [wizServer EXCEPT !.row[g] = link] \in LinkLists
        /\ ShownWith(g, link) \in LinkLists
        /\ [wizPage EXCEPT !.open = g] \in WizPages
    BY <1>1, <1>2, <2>1, LinksTyped DEF ShownWith, WizPages
  <2>3. /\ \/ /\ wizServer' = [wizServer EXCEPT !.row[g] = link]
              /\ Commit([wizPage EXCEPT !.open = g], ShownWith(g, link), Freed(c))
           \/ UNCHANGED wizServer /\ Commit(wizPage, wizShown, Freed(c))
        /\ wizMoves' \in 0..WizMaxMoves
    BY <1>1, <1>16 DEF handleCreateLink
  <2> HIDE DEF g, link
  <2>4. QED
    BY <1>1, <1>7, <1>9, <2>2, <2>3
<1>17. ASSUME NEW c \in WizCalls, handleApproved(c)
       PROVE  WizardKept
  <2> DEFINE g == wizCall[c].gateway
             linked == IF wizShown.row[g] = NoLink THEN wizShown
                       ELSE [wizShown EXCEPT !.row[g].status = "active"]
  <2>1. g \in WizGateways
    BY <1>10, <1>17 DEF handleApproved
  <2>2. linked \in LinkLists
    <3>1. wizShown.row[g] \in Links
      BY <1>1, <2>1, RequestsTyped, LinksTyped
    <3>2. wizShown.row[g] # NoLink => [wizShown.row[g] EXCEPT !.status = "active"] \in Links
      BY <3>1, RowsTyped
    <3>3. wizShown.row[g] # NoLink =>
            [wizShown EXCEPT !.row[g] = [wizShown.row[g] EXCEPT !.status = "active"]] \in LinkLists
      BY <1>1, <2>1, <3>2, LinksTyped
    <3>4. QED
      BY <1>1, <3>3
  <2>3. Begun(c, "refresh", g) \in WizCallLists /\ AboutGateways(Begun(c, "refresh", g))
    BY <1>1, <1>2, <1>4, <2>1, SlotBegun
  <2>4. /\ \/ Commit(wizPage, linked, Begun(c, "refresh", g))
           \/ Commit(wizPage, wizShown, Freed(c))
        /\ wizServer' \in LinkLists /\ wizMoves' \in 0..WizMaxMoves
    BY <1>1, <1>17 DEF handleApproved
  <2> HIDE DEF linked, g
  <2>5. QED
    BY <1>1, <1>7, <1>9, <2>2, <2>3, <2>4
<1>18. ASSUME NEW c \in WizCalls, handleRevoked(c)
       PROVE  WizardKept
  <2> DEFINE list == [wizPage EXCEPT !.open = InList]
             shown == ShownWith(wizCall[c].gateway, wizCall[c].row)
  <2>1. wizCall[c].gateway \in WizGateways /\ wizCall[c].row \in Links
    BY <1>5, <1>10, <1>18 DEF handleRevoked
  <2>2. list \in WizPages /\ shown \in LinkLists
    BY <1>1, <1>2, <2>1, LinksTyped DEF WizPages, ShownWith
  <2>3. /\ Commit(list, shown, Freed(c)) \/ Commit(list, wizShown, Freed(c))
        /\ wizServer' \in LinkLists /\ wizMoves' \in 0..WizMaxMoves
    BY <1>1, <1>18 DEF handleRevoked
  <2> HIDE DEF list, shown
  <2>4. QED
    BY <1>1, <1>7, <1>9, <2>2, <2>3
<1>19. ASSUME NEW c \in WizCalls, ServeRow(c) \/ ServeStatus(c)
       PROVE  WizardKept
  <2>1. PICK q \in WizRequests : /\ wizCall' = [wizCall EXCEPT ![c] = q]
                                 /\ q.kind = wizCall[c].kind /\ q.gateway = wizCall[c].gateway
    <3>1. CASE ServeRow(c)
      <4> DEFINE state == IF wizCall[c].kind = "refresh" /\ wizCall[c].state = "sent" THEN "row" ELSE "done"
                 row == wizServer.row[wizCall[c].gateway]
      <4>1. row \in Links
        BY <1>1, <1>10, <3>1, RequestsTyped, LinksTyped DEF ServeRow
      <4>2. state \in {"row", "done"}
        OBVIOUS
      <4>3. wizCall' = [wizCall EXCEPT ![c] = [wizCall[c] EXCEPT !.state = state, !.row = row]]
        BY <1>1, <3>1 DEF ServeRow, WizCallLists
      <4> HIDE DEF state, row
      <4>4. QED
        <5> DEFINE q == [wizCall[c] EXCEPT !.state = state, !.row = row]
        <5>1. q \in WizRequests /\ q.kind = wizCall[c].kind /\ q.gateway = wizCall[c].gateway
          BY <1>5, <4>1, <4>2 DEF WizRequests
        <5>2. QED
          BY <4>3, <5>1
    <3>2. CASE ServeStatus(c)
      <4> DEFINE state == IF wizCall[c].state = "sent" THEN "status" ELSE "done"
                 full == wizCall[c].gateway \in wizServer.full
      <4>1. state \in {"status", "done"} /\ full \in BOOLEAN
        OBVIOUS
      <4>2. wizCall' = [wizCall EXCEPT ![c] = [wizCall[c] EXCEPT !.state = state, !.full = full]]
        BY <1>1, <3>2 DEF ServeStatus, WizCallLists
      <4> HIDE DEF state, full
      <4>3. QED
        <5> DEFINE q == [wizCall[c] EXCEPT !.state = state, !.full = full]
        <5>1. q \in WizRequests /\ q.kind = wizCall[c].kind /\ q.gateway = wizCall[c].gateway
          BY <1>5, <4>1 DEF WizRequests
        <5>2. QED
          BY <4>2, <5>1
    <3>3. QED
      BY <1>19, <3>1, <3>2
  <2>2. wizCall[c].kind \in {"refresh", "reread"} /\ UNCHANGED <<wizServer, wizShown, wizPage, wizMoves>>
    BY <1>19 DEF ServeRow, ServeStatus
  <2>3. QED
    BY <1>1, <1>8, <1>10, <2>1, <2>2
<1>20. ASSUME NEW c \in WizCalls, RefreshFails(c) \/ handleReference(c)
       PROVE  WizardKept
  <2>1. /\ wizCall' = [wizCall EXCEPT ![c] = NoWizCall] /\ wizCall[c].kind \in {"refresh", "reference"}
        /\ UNCHANGED <<wizServer, wizShown, wizPage, wizMoves>>
    BY <1>20 DEF RefreshFails, handleReference, Freed
  <2>2. QED
    BY <1>1, <1>8, <2>1, RequestsTyped
<1>21. ASSUME NEW c \in WizCalls, handlePublish(c)
       PROVE  WizardKept
  <2> DEFINE g == wizCall[c].gateway
             q == [Ask("refresh", g) EXCEPT !.busy = TRUE]
  <2>1. g \in WizGateways /\ wizCall[c].kind = "publish" /\ UNCHANGED <<wizShown, wizPage, wizMoves>>
    BY <1>10, <1>21 DEF handlePublish
  <2>2. q \in WizRequests /\ q.gateway = g /\ q.kind = "refresh"
    BY <1>2, <1>4, <2>1, RequestsTyped
  <2>3. wizServer.row[g] \in Links
    BY <1>1, <2>1, RequestsTyped, LinksTyped
  <2>4. \/ /\ Current(wizServer.row[g]) /\ wizServer' = [wizServer EXCEPT !.row[g].version = 1]
           /\ wizCall' = [wizCall EXCEPT ![c] = q]
        \/ UNCHANGED wizServer /\ wizCall' = [wizCall EXCEPT ![c] = NoWizCall]
    BY <1>21 DEF handlePublish, Freed
  <2>5. Current(wizServer.row[g]) =>
          [wizServer EXCEPT !.row[g] = [wizServer.row[g] EXCEPT !.version = 1]] \in LinkLists
    <3>1. Current(wizServer.row[g]) => [wizServer.row[g] EXCEPT !.version = 1] \in Links
      BY <2>3, RowsTyped
    <3>2. QED
      BY <1>1, <2>1, <3>1, LinksTyped
  <2>6. wizServer' \in LinkLists
    BY <1>1, <2>4, <2>5
  <2> HIDE DEF q, g
  <2>7. QED
    BY <1>1, <1>8, <2>1, <2>2, <2>4, <2>6, RequestsTyped
<1>22. ASSUME NEW c \in WizCalls, RevokeLinkButton(c)
       PROVE  WizardKept
  <2> DEFINE g == wizCall[c].gateway
             q == Ask("reread", g)
             rows == [wizServer.row EXCEPT ![g].status = "revoked"]
  <2>1. g \in WizGateways /\ wizCall[c].kind = "revoke" /\ UNCHANGED <<wizShown, wizPage, wizMoves>>
    BY <1>10, <1>22 DEF RevokeLinkButton
  <2>2. q \in WizRequests /\ q.gateway = g /\ q.kind = "reread"
    <3>1. g \in Addresses
      BY <1>2, <2>1
    <3> HIDE DEF g
    <3>2. QED
      BY <1>4, <3>1, RequestsTyped
  <2>3. rows \in [WizGateways -> Links]
    <3>1. wizServer.row \in [WizGateways -> Links] /\ wizServer.row[g] \in Links
      BY <1>1, <2>1 DEF LinkLists
    <3>2. [wizServer.row[g] EXCEPT !.status = "revoked"] \in Links
      BY <3>1, RowsTyped
    <3>3. QED
      BY <2>1, <3>1, <3>2
  <2>4. \/ /\ wizServer' = [row |-> rows, full |-> wizServer.full \ {g}]
           /\ wizCall' = [wizCall EXCEPT ![c] = q]
        \/ UNCHANGED wizServer /\ wizCall' = [wizCall EXCEPT ![c] = NoWizCall]
    BY <1>22 DEF RevokeLinkButton, Freed, Begun
  <2>5. wizServer' \in LinkLists
    <3> HIDE DEF rows
    <3>1. QED
      BY <1>1, <2>3, <2>4 DEF LinkLists
  <2> HIDE DEF q, g, rows
  <2>6. QED
    BY <1>1, <1>8, <2>1, <2>2, <2>4, <2>5, RequestsTyped
<1>23. ASSUME NEW g \in WizGateways, EquipmentMoves(g)
       PROVE  WizardKept
  <2>1. wizServer' \in LinkLists
    <3> DEFINE Becomes(st) == [wizServer EXCEPT !.row[g].status = st]
               pending == [status |-> "pending_activation", version |-> 1]
    <3>1. wizServer.row[g] \in Links /\ pending \in Links
      BY <1>1, RequestsTyped, RowsTyped, LinksTyped
    <3>2. /\ wizServer.row[g] # NoLink => [wizServer.row[g] EXCEPT !.status = "active"] \in Links
          /\ [wizServer.row[g] EXCEPT !.status = "revoked"] \in Links
      BY <3>1, RowsTyped
    <3>3. /\ wizServer.row[g] # NoLink => Becomes("active") \in LinkLists
          /\ Becomes("revoked") \in LinkLists /\ Becomes("revoked").full = wizServer.full
      BY <1>1, <3>2, LinksTyped DEF LinkLists
    <3>4. \A full \in SUBSET WizGateways :
            /\ [wizServer EXCEPT !.full = full] \in LinkLists
            /\ [Becomes("revoked") EXCEPT !.full = full] \in LinkLists
      BY <1>1, <3>2, LinksTyped
    <3>5. wizServer.full \in SUBSET WizGateways
      BY <1>1 DEF LinkLists
    <3>6. [wizServer EXCEPT !.row[g] = pending] \in LinkLists
      BY <1>1, <3>1, LinksTyped
    <3>7. wizServer.row[g].status = "pending_activation" => wizServer.row[g] # NoLink
      BY DEF NoLink
    <3>8. \/ wizServer.row[g].status = "pending_activation" /\ wizServer' = Becomes("active")
          \/ wizServer' = [wizServer EXCEPT !.full = IF g \in wizServer.full THEN wizServer.full \ {g}
                                                     ELSE wizServer.full \cup {g}]
          \/ wizServer' = [Becomes("revoked") EXCEPT !.full = Becomes("revoked").full \ {g}]
          \/ wizServer' = [wizServer EXCEPT !.row[g] = pending]
      BY <1>23 DEF EquipmentMoves
    <3> HIDE DEF Becomes, pending
    <3>9. QED
      BY <3>3, <3>4, <3>5, <3>6, <3>7, <3>8
  <2>2. wizMoves' \in 0..WizMaxMoves
    BY <1>1, <1>23, WizardConstants DEF EquipmentMoves
  <2>3. WizardHasLink'
    BY <1>1, <1>23, QuietKeepsLink DEF EquipmentMoves
  <2>4. QED
    BY <1>1, <1>23, <2>1, <2>2, <2>3 DEF EquipmentMoves, WizardKept
<1>24. ASSUME NEW c \in WizCalls,
              \/ RefreshTimer(c) \/ publish(c) \/ approve(c) \/ issueReference(c) \/ revoke(c)
              \/ \E g \in WizGateways : createLink(c, g)
       PROVE  WizardKept
  <2>1. CASE \E g \in WizGateways : createLink(c, g)
    BY <1>4, <1>6, <2>1 DEF createLink
  <2>2. CASE RefreshTimer(c)
    BY <1>3, <1>4, <1>6, <2>2 DEF RefreshTimer
  <2>3. CASE revoke(c)
    BY <1>3, <1>4, <1>6, <2>3 DEF revoke
  <2>4. CASE publish(c)
    BY <1>3, <1>4, <1>6, <2>4 DEF publish, StepOneOfLink
  <2>5. CASE approve(c) \/ issueReference(c)
    <3>1. Setup # InList
      BY <2>5 DEF approve, issueReference, StepTwo, CurrentStep
    <3>2. QED
      BY <1>3, <1>4, <1>6, <2>5, <3>1 DEF approve, issueReference
  <2>6. QED
    BY <1>24, <2>1, <2>2, <2>3, <2>4, <2>5
<1>25. CASE UNCHANGED wizVars
  <2>1. WizardHasLink'
    BY <1>1, <1>25, QuietKeepsLink DEF wizVars
  <2>2. QED
    BY <1>1, <1>25, <2>1 DEF wizVars, WizardKept
<1>26. QED
  BY <1>11, <1>12, <1>13, <1>14, <1>15, <1>16, <1>17, <1>18, <1>19, <1>20, <1>21, <1>22, <1>23,
     <1>24, <1>25
  DEF WizardNext, WizardAnswered

\* The invariant of the wizard is kept by each of its steps.
LEMMA WizardStep ==
  ASSUME WizardInv, [WizardNext]_wizVars
  PROVE  WizardInv'
BY WizardStepKept
DEF WizardKept, WizardInv, WizardTypeOK, WizPages, WizCallLists, AboutGateways

\* The page is not visited at the start.
LEMMA WizardInitInv ==
  ASSUME WizardInit
  PROVE  WizardInv
<1>1. NoLinks \in LinkLists
  BY RequestsTyped DEF NoLinks, LinkLists
<1>2. InList \in Addresses
  BY DEF Addresses
<1>3. /\ wizCall \in WizCallLists /\ AboutGateways(wizCall)
  BY RequestsTyped DEF WizardInit, WizCallLists, AboutGateways
<1>4. WizardTypeOK /\ WizardHasLink
  <2>1. wizPage \in WizPages /\ ~ wizPage.visited
    BY <1>2 DEF WizardInit, WizPages
  <2>2. 0 \in 0..WizMaxMoves
    BY WizardConstants
  <2>3. QED
    BY <1>1, <1>3, <2>1, <2>2, WizTypes DEF WizardInit, WizardHasLink
<1>5. QED
  BY <1>3, <1>4 DEF WizardInv

\* The wizard keeps its types, and once the list has come it never stays at an address
\* without a link (GatewayManagement.tsx), for any set of gateways and of requests.
THEOREM WizardInductive == WizardSpec => []WizardInv
BY WizardInitInv, WizardStep, PTL DEF WizardSpec

-----------------------------------------------------------------------------
(* The keyed read pages *)

\* A description of a page, for some view and key.
Descriptions ==
  [change : SUBSET QryView, begin : QryView, done : QryView, fail : QryView,
   then : SUBSET {"nothing", "own", "rest", "again"}, restDone : QryView, restFail : QryView,
   writeBegin : QryView, writeDone : QryView, writeFail : QryView,
   drops : BOOLEAN, guards : SUBSET Always, polls : BOOLEAN,
   writes : {"nothing", "stores", "reloads", "opens", "asks", "saves"}]

\* What the moments of a page do to a view leaves a view.
LEMMA ViewsTyped ==
  ASSUME NEW v \in QryView, NEW k \in DataOf
  PROVE  /\ Loads(v) \in QryView /\ Tells(v) \in QryView /\ Calm(v) \in QryView
         /\ Quietly(v) \in QryView /\ Shows(v, k) \in QryView /\ Blank \in QryView
         /\ [v EXCEPT !.main = k] \in QryView /\ [v EXCEPT !.rest = k] \in QryView
         /\ [v EXCEPT !.told = TRUE] \in QryView
         /\ [v EXCEPT !.main = NoData] \in QryView /\ [v EXCEPT !.rest = NoData] \in QryView
BY DEF QryView, Loads, Tells, Calm, Quietly, Shows, Blank, DataOf

\* A key stands for its data; no key is the absence of data.
LEMMA KeysAreData == NoData \in DataOf /\ \A k \in QryKeys : k \in DataOf /\ k # NoData
BY QueryConstants DEF DataOf

\* The moments that most pages share.
LEMMA UsualTyped ==
  ASSUME NEW v \in QryView, NEW k \in QryKeys
  PROVE  Usual(v, k) \in Descriptions
BY ViewsTyped, KeysAreData DEF Usual, Descriptions, Always

\* Every page is described by views, for every view, key and kind of question.
LEMMA DetailPagesTyped ==
  ASSUME NEW v \in QryView, NEW k \in QryKeys
  PROVE  /\ NodeDetailEdit(v, k) \in Descriptions
         /\ GatewayDetailPublish(v, k) \in Descriptions
         /\ AlertDetailMark(v, k) \in Descriptions
         /\ AuditLogsDetail(v, k) \in Descriptions
         /\ AIReportDetailQuery(v, k) \in Descriptions
         /\ AIUsageQuery(v, k) \in Descriptions
<1>1. Usual(v, k) \in Descriptions
  BY UsualTyped
<1>2. k \in DataOf
  BY KeysAreData
<1>3. /\ Loads(v) \in QryView /\ Tells(v) \in QryView /\ Calm(v) \in QryView
      /\ Quietly(v) \in QryView /\ Shows(v, k) \in QryView
      /\ [v EXCEPT !.main = k] \in QryView /\ [v EXCEPT !.rest = k] \in QryView
      /\ [v EXCEPT !.told = TRUE] \in QryView
  BY <1>2, ViewsTyped
<1>4. /\ [Quietly(v) EXCEPT !.rest = k] \in QryView /\ [Calm(v) EXCEPT !.main = k] \in QryView
      /\ [Shows(v, k) EXCEPT !.rest = NoData] \in QryView
      /\ [v EXCEPT !.main = k, !.rest = NoData] \in QryView
  BY <1>2, <1>3, KeysAreData DEF QryView
<1>5. NodeDetailQuery(v, k) \in Descriptions
  BY <1>1, <1>3, <1>4 DEF NodeDetailQuery, Descriptions
<1>6. NodeDetailEdit(v, k) \in Descriptions
  BY <1>3, <1>5 DEF NodeDetailEdit, Descriptions
<1>7. GatewayDetailQuery(v, k) \in Descriptions
  BY <1>1, <1>3, <1>4 DEF GatewayDetailQuery, Descriptions
<1>8. GatewayDetailPublish(v, k) \in Descriptions
  BY <1>3, <1>7 DEF GatewayDetailPublish, Descriptions
<1>9. AlertDetailQuery(v, k) \in Descriptions
  BY <1>1, <1>3, <1>4 DEF AlertDetailQuery, Descriptions
<1>10. AlertDetailMark(v, k) \in Descriptions
  BY <1>3, <1>4, <1>9 DEF AlertDetailMark, Descriptions
<1>11. AuditLogsDetail(v, k) \in Descriptions
  BY <1>1, <1>3 DEF AuditLogsDetail, AuditLogsQuery, Descriptions
<1>12. QED
  BY <1>1, <1>6, <1>8, <1>10, <1>11 DEF AIReportDetailQuery, AIUsageQuery

\* The same of the lists and of the history.
LEMMA ListPagesTyped ==
  ASSUME NEW v \in QryView, NEW k \in QryKeys, NEW silent \in BOOLEAN
  PROVE  /\ AIReportsQuery(v, k) \in Descriptions
         /\ AlertsCenterMark(v, k, silent) \in Descriptions
         /\ AlertsPopoverMark(v, k) \in Descriptions
         /\ HistoryQuery(v, k) \in Descriptions
         /\ AdminPendingQuery(v, k) \in Descriptions
<1>1. Usual(v, k) \in Descriptions
  BY UsualTyped
<1>2. k \in DataOf
  BY KeysAreData
<1>3. /\ Loads(v) \in QryView /\ Tells(v) \in QryView /\ Calm(v) \in QryView /\ Blank \in QryView
      /\ Shows(v, k) \in QryView
      /\ [v EXCEPT !.main = k] \in QryView /\ [v EXCEPT !.main = NoData] \in QryView
      /\ [v EXCEPT !.told = TRUE] \in QryView
  BY <1>2, ViewsTyped
<1>4. Calm(Loads(v)) \in QryView /\ Calm(Shows(v, k)) \in QryView
      /\ [Tells(v) EXCEPT !.main = NoData] \in QryView
  BY <1>2, <1>3, ViewsTyped
<1>5. Always \in SUBSET Always /\ {"poll"} \in SUBSET Always
  BY DEF Always
<1>6. AIReportsQuery(v, k) \in Descriptions
  <2> DEFINE begin == IF v.main = NoData THEN Calm(Loads(v)) ELSE Calm(v)
             then == IF v.main = k THEN {"nothing"} ELSE {"nothing", "again"}
             change == {v, [v EXCEPT !.main = NoData]}
  <2>1. /\ begin \in QryView /\ change \in SUBSET QryView
        /\ then \in SUBSET {"nothing", "own", "rest", "again"}
    BY <1>3, <1>4
  <2>2. AIReportsQuery(v, k) = [Usual(v, k) EXCEPT !.change = change, !.begin = begin,
                                                   !.then = then, !.guards = Always]
    BY DEF AIReportsQuery
  <2> HIDE DEF begin, then, change
  <2>3. QED
    BY <1>1, <1>5, <2>1, <2>2 DEF Descriptions
<1>7. AlertsCenterQuery(v, k, silent) \in Descriptions
  BY <1>1, <1>3, <1>4, <1>5 DEF AlertsCenterQuery, Descriptions
<1>8. AlertsCenterMark(v, k, silent) \in Descriptions
  BY <1>3, <1>7 DEF AlertsCenterMark, Descriptions
<1>9. AlertsPopoverQuery(v, k) \in Descriptions
  BY <1>1, <1>3, <1>4, <1>5 DEF AlertsPopoverQuery, Descriptions
<1>10. AlertsPopoverMark(v, k) \in Descriptions
  BY <1>3, <1>9 DEF AlertsPopoverMark, Descriptions
<1>11. HistoryQuery(v, k) \in Descriptions
  BY <1>1, <1>3, <1>4 DEF HistoryQuery, Descriptions
<1>12. AdminPendingQuery(v, k) \in Descriptions
  BY <1>1, <1>4, <1>5 DEF AdminPendingQuery, Descriptions
<1>13. QED
  BY <1>6, <1>8, <1>10, <1>11, <1>12

\* The same of the pages and hooks that keep themselves up to date.
LEMMA LivePagesTyped ==
  ASSUME NEW v \in QryView, NEW k \in QryKeys, NEW silent \in BOOLEAN
  PROVE  /\ ClientDashboardQuery(v, k, silent) \in Descriptions
         /\ AreaDetailsQuery(v, k) \in Descriptions
         /\ AdminStatsQuery(v, k, silent) \in Descriptions
         /\ AreaOverviewQuery(v, k) \in Descriptions
         /\ GeoNodesQuery(v, k) \in Descriptions
         /\ GatewayStatusQuery(v, k) \in Descriptions
         /\ DashboardPreferencesSave(v, k) \in Descriptions
<1>1. Usual(v, k) \in Descriptions
  BY UsualTyped
<1>2. k \in DataOf
  BY KeysAreData
<1>3. /\ Loads(v) \in QryView /\ Tells(v) \in QryView /\ Quietly(v) \in QryView /\ Blank \in QryView
      /\ Shows(v, k) \in QryView /\ [v EXCEPT !.main = k] \in QryView
      /\ [v EXCEPT !.told = TRUE] \in QryView
  BY <1>2, ViewsTyped
<1>4. /\ Calm(Shows(v, k)) \in QryView
      /\ [Tells(v) EXCEPT !.main = NoData] \in QryView
      /\ [Quietly(v) EXCEPT !.main = NoData] \in QryView
  BY <1>2, <1>3, ViewsTyped
<1>5. Always \in SUBSET Always /\ {"poll"} \in SUBSET Always
  BY DEF Always
<1>6. ClientDashboardQuery(v, k, silent) \in Descriptions
  BY <1>1, <1>3, <1>4, <1>5 DEF ClientDashboardQuery, Descriptions
<1>7. AreaDetailsQuery(v, k) \in Descriptions
  BY <1>1, <1>3 DEF AreaDetailsQuery, Descriptions
<1>8. AdminStatsQuery(v, k, silent) \in Descriptions
  BY <1>1, <1>3 DEF AdminStatsQuery, Descriptions
<1>9. AreaOverviewQuery(v, k) \in Descriptions
  BY <1>1, <1>4, <1>5 DEF AreaOverviewQuery, Descriptions
<1>10. GeoNodesQuery(v, k) \in Descriptions
  BY <1>1 DEF GeoNodesQuery, Descriptions
<1>11. GatewayStatusQuery(v, k) \in Descriptions
  BY <1>1, <1>4 DEF GatewayStatusQuery, Descriptions
<1>12. DashboardPreferencesQuery(v, k) \in Descriptions
  BY <1>1, <1>3 DEF DashboardPreferencesQuery, Descriptions
<1>13. DashboardPreferencesSave(v, k) \in Descriptions
  BY <1>3, <1>12 DEF DashboardPreferencesSave, Descriptions
<1>14. QED
  BY <1>6, <1>7, <1>8, <1>9, <1>10, <1>11, <1>13

\* The same of whichever page is open.
LEMMA QueryTyped ==
  ASSUME qryPage.name \in QryPages, NEW v \in QryView, NEW k \in QryKeys, NEW silent \in BOOLEAN
  PROVE  Query(v, k, silent) \in Descriptions
<1>1. /\ NodeDetailEdit(v, k) \in Descriptions /\ GatewayDetailPublish(v, k) \in Descriptions
      /\ AlertDetailMark(v, k) \in Descriptions /\ AuditLogsDetail(v, k) \in Descriptions
      /\ AIReportDetailQuery(v, k) \in Descriptions /\ AIUsageQuery(v, k) \in Descriptions
  BY DetailPagesTyped
<1>2. /\ AIReportsQuery(v, k) \in Descriptions /\ AlertsCenterMark(v, k, silent) \in Descriptions
      /\ AlertsPopoverMark(v, k) \in Descriptions /\ HistoryQuery(v, k) \in Descriptions
      /\ AdminPendingQuery(v, k) \in Descriptions
  BY ListPagesTyped
<1>3. /\ ClientDashboardQuery(v, k, silent) \in Descriptions /\ AreaDetailsQuery(v, k) \in Descriptions
      /\ AdminStatsQuery(v, k, silent) \in Descriptions /\ AreaOverviewQuery(v, k) \in Descriptions
      /\ GeoNodesQuery(v, k) \in Descriptions /\ GatewayStatusQuery(v, k) \in Descriptions
      /\ DashboardPreferencesSave(v, k) \in Descriptions
  BY LivePagesTyped
<1>4. QED
  BY <1>1, <1>2, <1>3 DEF Query, QryPages

\* A sequence without one of its elements: those before it, and those after it.
LEMMA RemovedOne ==
  ASSUME NEW S, NEW s \in Seq(S), NEW i \in DOMAIN s
  PROVE  /\ RemoveAt(s, i) \in Seq(S) /\ Len(RemoveAt(s, i)) = Len(s) - 1
         /\ \A j \in 1..(Len(s) - 1) : RemoveAt(s, i)[j] = IF j < i THEN s[j] ELSE s[j + 1]
<1> DEFINE a == SubSeq(s, 1, i - 1)
           b == SubSeq(s, i + 1, Len(s))
<1>1. i \in 1..Len(s) /\ Len(s) \in Nat /\ \A j \in 1..Len(s) : s[j] \in S
  BY LenProperties
<1>2. /\ a \in Seq(S) /\ Len(a) = i - 1
      /\ \A j \in 1..(i - 1) : a[j] = s[j]
  <2>1. \A j \in 1..(i - 1) : s[j] \in S
    BY <1>1
  <2>2. /\ SubSeq(s, 1, i - 1) \in Seq(S)
        /\ Len(SubSeq(s, 1, i - 1)) = IF 1 <= i - 1 THEN i - 1 - 1 + 1 ELSE 0
        /\ \A j \in 1..(i - 1 - 1 + 1) : SubSeq(s, 1, i - 1)[j] = s[1 + j - 1]
    BY <1>1, <2>1, SubSeqProperties
  <2>3. QED
    BY <1>1, <2>2
<1>3. /\ b \in Seq(S) /\ Len(b) = Len(s) - i
      /\ \A j \in 1..(Len(s) - i) : b[j] = s[i + j]
  <2>1. \A j \in (i + 1)..Len(s) : s[j] \in S
    BY <1>1
  <2>2. /\ SubSeq(s, i + 1, Len(s)) \in Seq(S)
        /\ Len(SubSeq(s, i + 1, Len(s))) = IF i + 1 <= Len(s) THEN Len(s) - (i + 1) + 1 ELSE 0
        /\ \A j \in 1..(Len(s) - (i + 1) + 1) : SubSeq(s, i + 1, Len(s))[j] = s[i + 1 + j - 1]
    BY <1>1, <2>1, SubSeqProperties
  <2>3. QED
    BY <1>1, <2>2
<1>4. RemoveAt(s, i) = a \o b
  BY DEF RemoveAt
<1> HIDE DEF a, b
<1>5. /\ a \o b \in Seq(S) /\ Len(a \o b) = Len(a) + Len(b)
      /\ \A j \in 1..(Len(a) + Len(b)) : (a \o b)[j] = IF j <= Len(a) THEN a[j] ELSE b[j - Len(a)]
  BY <1>2, <1>3, ConcatProperties
<1>6. Len(RemoveAt(s, i)) = Len(s) - 1
  BY <1>1, <1>2, <1>3, <1>4, <1>5
<1>7. ASSUME NEW j \in 1..(Len(s) - 1)
      PROVE  RemoveAt(s, i)[j] = IF j < i THEN s[j] ELSE s[j + 1]
  <2>1. RemoveAt(s, i)[j] = IF j <= Len(a) THEN a[j] ELSE b[j - Len(a)]
    <3>1. Len(a) + Len(b) = Len(s) - 1
      BY <1>1, <1>2, <1>3
    <3>2. j \in 1..(Len(a) + Len(b))
      BY <3>1
    <3>3. QED
      BY <1>4, <1>5, <3>2
  <2>2. CASE j < i
    BY <1>1, <1>2, <2>1, <2>2
  <2>3. CASE ~ (j < i)
    <3>1. j - (i - 1) \in 1..(Len(s) - i) /\ i + (j - (i - 1)) = j + 1
      BY <1>1, <2>3
    <3>2. QED
      BY <1>1, <1>2, <1>3, <2>1, <2>3, <3>1
  <2>4. QED
    BY <2>2, <2>3
<1>8. QED
  BY <1>4, <1>5, <1>6, <1>7

\* At most one write is in flight, so that it is the one that is still heard when a page
\* drops the answers to its former questions.
OneWrite(calls) ==
  \A i, j \in DOMAIN calls : calls[i].part = "write" /\ calls[j].part = "write" => i = j

\* What is heard when the page asks again: all that is in flight, or the write.
LEMMA HeardTyped ==
  ASSUME qryPage.name \in QryPages, qryView \in QryView, qryKey \in QryKeys,
         NEW S, NEW calls \in Seq(S), OneWrite(calls)
  PROVE  /\ Heard(calls) \in Seq(S) /\ Len(Heard(calls)) \in Nat /\ OneWrite(Heard(calls))
         /\ Writes(calls) \in Seq(S)
         /\ Writes(calls) = <<>> <=> \A i \in DOMAIN calls : calls[i].part # "write"
<1> DEFINE W == {i \in DOMAIN calls : calls[i].part = "write"}
<1>1. \A i \in DOMAIN calls : calls[i] \in S
  BY LenProperties
<1>2. CASE W = {}
  <2>1. Writes(calls) = <<>>
    BY <1>2 DEF Writes
  <2>2. QED
    <3>1. <<>> \in Seq(S) /\ Len(<<>>) = 0 /\ OneWrite(<<>>)
      BY DEF OneWrite
    <3>2. Len(calls) \in Nat
      BY LenProperties
    <3>3. Heard(calls) = <<>> \/ Heard(calls) = calls
      BY <2>1 DEF Heard
    <3>4. QED
      BY <1>2, <2>1, <3>1, <3>2, <3>3
<1>3. CASE W # {}
  <2>1. PICK c \in S : Writes(calls) = <<c>>
    BY <1>1, <1>3 DEF Writes
  <2>2. <<c>> \in Seq(S) /\ Len(<<c>>) \in Nat /\ OneWrite(<<c>>) /\ <<c>> # <<>>
    BY DEF OneWrite
  <2>3. QED
    BY <1>3, <2>1, <2>2, LenProperties DEF Heard
<1>4. QED
  BY <1>2, <1>3

\* A question that is asked comes last, and is the only write if it is one.
LEMMA AppendedOne ==
  ASSUME NEW S, NEW calls \in Seq(S), OneWrite(calls), NEW q \in S,
         q.part = "write" => \A i \in DOMAIN calls : calls[i].part # "write"
  PROVE  /\ Append(calls, q) \in Seq(S) /\ Len(Append(calls, q)) = Len(calls) + 1
         /\ OneWrite(Append(calls, q))
         /\ Append(calls, q)[Len(calls) + 1] = q /\ Len(calls) + 1 \in DOMAIN Append(calls, q)
<1>1. /\ Append(calls, q) \in Seq(S) /\ Len(Append(calls, q)) = Len(calls) + 1
      /\ \A i \in 1..Len(calls) : Append(calls, q)[i] = calls[i]
      /\ Append(calls, q)[Len(calls) + 1] = q
  BY AppendProperties
<1>2. Len(calls) \in Nat /\ DOMAIN calls = 1..Len(calls)
      /\ DOMAIN Append(calls, q) = 1..(Len(calls) + 1)
  BY <1>1, LenProperties
<1>3. ASSUME NEW i \in 1..(Len(calls) + 1), NEW j \in 1..(Len(calls) + 1),
             Append(calls, q)[i].part = "write", Append(calls, q)[j].part = "write"
      PROVE  i = j
  <2>1. i \in 1..Len(calls) \/ i = Len(calls) + 1
    BY <1>2
  <2>2. j \in 1..Len(calls) \/ j = Len(calls) + 1
    BY <1>2
  <2>3. QED
    BY <1>1, <1>2, <1>3, <2>1, <2>2 DEF OneWrite
<1>4. QED
  BY <1>1, <1>2, <1>3 DEF OneWrite

\* A question that is answered leaves the others, and no write if it was one.
LEMMA RemovedKeepsOneWrite ==
  ASSUME NEW S, NEW calls \in Seq(S), OneWrite(calls), NEW i \in DOMAIN calls
  PROVE  /\ RemoveAt(calls, i) \in Seq(S) /\ Len(RemoveAt(calls, i)) = Len(calls) - 1
         /\ Len(calls) \in Nat \ {0} /\ OneWrite(RemoveAt(calls, i))
         /\ calls[i].part = "write" =>
              \A j \in DOMAIN RemoveAt(calls, i) : RemoveAt(calls, i)[j].part # "write"
<1> DEFINE left == RemoveAt(calls, i)
           Was(j) == IF j < i THEN j ELSE j + 1
<1>1. /\ left \in Seq(S) /\ Len(left) = Len(calls) - 1
      /\ \A j \in 1..(Len(calls) - 1) : left[j] = IF j < i THEN calls[j] ELSE calls[j + 1]
  BY RemovedOne
<1>2. /\ Len(calls) \in Nat \ {0} /\ DOMAIN calls = 1..Len(calls) /\ i \in 1..Len(calls)
      /\ DOMAIN left = 1..(Len(calls) - 1)
  BY <1>1, LenProperties
<1> HIDE DEF left
<1>3. ASSUME NEW j \in DOMAIN left
      PROVE  j \in Nat /\ Was(j) \in DOMAIN calls /\ left[j] = calls[Was(j)] /\ Was(j) # i
  BY <1>1, <1>2
<1>4. \A j, k \in DOMAIN left : Was(j) = Was(k) => j = k
  BY <1>2, <1>3
<1> HIDE DEF Was
<1>5. OneWrite(left)
  BY <1>3, <1>4 DEF OneWrite
<1>6. calls[i].part = "write" => \A j \in DOMAIN left : left[j].part # "write"
  BY <1>3 DEF OneWrite
<1>7. QED
  BY <1>1, <1>2, <1>5, <1>6 DEF left

\* A bounded sequence is a sequence whose length is bounded.
LEMMA BoundedCalls ==
  ASSUME NEW calls
  PROVE  calls \in BoundedSeq(Questions, QryMaxCalls) <=>
           calls \in Seq(Questions) /\ Len(calls) <= QryMaxCalls
<1>1. QryMaxCalls \in Nat
  BY QueryConstants
<1>2. ASSUME calls \in BoundedSeq(Questions, QryMaxCalls)
      PROVE  calls \in Seq(Questions) /\ Len(calls) <= QryMaxCalls
  <2>1. PICK m \in 0..QryMaxCalls : calls \in [1..m -> Questions]
    BY <1>2 DEF BoundedSeq, SeqOf
  <2>2. calls \in Seq(Questions) /\ Len(calls) = m
    BY <1>1, <2>1
  <2>3. QED
    BY <1>1, <2>1, <2>2
<1>3. ASSUME calls \in Seq(Questions), Len(calls) <= QryMaxCalls
      PROVE  calls \in BoundedSeq(Questions, QryMaxCalls)
  <2>1. Len(calls) \in 0..QryMaxCalls /\ calls \in [1..Len(calls) -> Questions]
    BY <1>1, <1>3, LenProperties
  <2>2. QED
    BY <2>1 DEF BoundedSeq, SeqOf
<1>4. QED
  BY <1>2, <1>3

\* Questions in flight: typed, within the bound, and one write at most.
CallsOK(calls) == calls \in Seq(Questions) /\ Len(calls) <= QryMaxCalls /\ OneWrite(calls)

PagesOpened == [name : QryPages \cup {"none"}, user : QryUsers, ordered : BOOLEAN]

QueriesTyped ==
  /\ qryPage \in PagesOpened /\ qryKey \in QryKeys /\ qryView \in QryView /\ CallsOK(qryCalls)
  /\ qryPage.name = "none" => qryCalls = <<>>

\* These types are those of the module.
LEMMA TypedIsTypeOK == QueriesTyped => QueriesTypeOK
BY BoundedCalls DEF QueriesTyped, QueriesTypeOK, CallsOK, PagesOpened

\* Whatever makes a page ask, and whether it asks or lets it be.
LEMMA AskForTyped ==
  ASSUME qryPage.name \in QryPages, qryView \in QryView, qryKey \in QryKeys,
         NEW view \in QryView, NEW k \in QryKeys, NEW calls, CallsOK(calls), NEW why,
         AskFor(k, view, calls, why)
  PROVE  qryView' \in QryView /\ CallsOK(qryCalls')
<1>1. CASE Blocked(view, calls, why)
  BY <1>1 DEF AskFor
<1>2. CASE ~ Blocked(view, calls, why)
  <2> DEFINE silent == why = "poll"
             q == Question("main", k, silent)
  <2>1. /\ Len(Heard(calls)) < QryMaxCalls /\ qryView' = Query(view, k, silent).begin
        /\ qryCalls' = Append(Heard(calls), q)
    BY <1>2 DEF AskFor
  <2>2. silent \in BOOLEAN
    OBVIOUS
  <2>3. Query(view, k, silent) \in Descriptions
    BY <2>2, QueryTyped
  <2>4. q \in Questions /\ q.part # "write"
    BY <2>2 DEF Question, Questions
  <2>5. Heard(calls) \in Seq(Questions) /\ Len(Heard(calls)) \in Nat /\ OneWrite(Heard(calls))
    BY HeardTyped DEF CallsOK
  <2> HIDE DEF q, silent
  <2>6. /\ Append(Heard(calls), q) \in Seq(Questions) /\ OneWrite(Append(Heard(calls), q))
        /\ Len(Append(Heard(calls), q)) = Len(Heard(calls)) + 1
    BY <2>4, <2>5, AppendedOne
  <2>7. Len(Append(Heard(calls), q)) <= QryMaxCalls
    BY <2>1, <2>5, <2>6, QueryConstants
  <2>8. QED
    BY <2>1, <2>3, <2>6, <2>7 DEF CallsOK, Descriptions
<1>3. QED
  BY <1>1, <1>2

\* What follows an answer: the questions left are one fewer.
LEMMA FollowsTyped ==
  ASSUME qryPage.name \in QryPages, qryView \in QryView, qryKey \in QryKeys,
         NEW view \in QryView, NEW k \in QryKeys, NEW calls, CallsOK(calls),
         Len(calls) < QryMaxCalls, NEW what \in {"nothing", "own", "rest", "again"},
         Follows(what, k, view, calls)
  PROVE  qryView' \in QryView /\ CallsOK(qryCalls')
<1>1. k \in DataOf
  BY KeysAreData
<1>2. Quietly(view) \in QryView /\ [view EXCEPT !.rest = k] \in QryView
  BY <1>1, ViewsTyped
<1>3. CASE what \in {"nothing", "own"}
  BY <1>2, <1>3 DEF Follows
<1>4. CASE what = "rest"
  <2> DEFINE q == Question("rest", k, FALSE)
  <2>1. qryView' = view /\ qryCalls' = Append(calls, q)
    BY <1>4 DEF Follows
  <2>2. q \in Questions /\ q.part # "write"
    BY DEF Question, Questions
  <2> HIDE DEF q
  <2>3. /\ Append(calls, q) \in Seq(Questions) /\ OneWrite(Append(calls, q))
        /\ Len(Append(calls, q)) = Len(calls) + 1
    BY <2>2, AppendedOne DEF CallsOK
  <2>4. Len(calls) \in Nat
    BY LenProperties DEF CallsOK
  <2>5. Len(Append(calls, q)) <= QryMaxCalls
    BY <2>3, <2>4, QueryConstants
  <2>6. QED
    BY <2>1, <2>3, <2>5 DEF CallsOK
<1>5. CASE what = "again"
  <2>1. AskFor(qryKey, view, calls, "key")
    BY <1>5 DEF Follows
  <2>2. QED
    BY <2>1, AskForTyped
<1>6. QED
  BY <1>3, <1>4, <1>5

\* What is acted on by a write on what is shown: the page shows data, and what it shows
\* is its first data.
LEMMA ShownIsKey ==
  ASSUME qryPage.name \in {"nodeDetail", "auditLogs", "alertDetail"}, qryView \in QryView,
         Screen \cap QryKeys # {}
  PROVE  qryView.main \in QryKeys
<1>1. Screen \subseteq {Notice, qryView.main} \/ Screen = {}
  BY DEF Screen, NodeDetailScreen, AuditLogsScreen, AlertDetailScreen, ErrorInstead, Data, NoticeOf
<1>2. QED
  BY <1>1, QueryConstants

\* The pages whose writes store, ask again or open something.
LEMMA WritesOfPages ==
  ASSUME qryPage.name \in QryPages,
         Query(qryView, qryKey, FALSE).writes \in {"stores", "asks", "opens"}
  PROVE  qryPage.name \in {"nodeDetail", "auditLogs", "alertDetail"}
BY DEF Query, QryPages, Usual,
  NodeDetailEdit, NodeDetailQuery, GatewayDetailPublish, GatewayDetailQuery, AuditLogsDetail,
  AuditLogsQuery, AIUsageQuery, AlertDetailMark, AlertDetailQuery, AIReportDetailQuery,
  AIReportsQuery, AlertsCenterMark, AlertsCenterQuery, AlertsPopoverMark, AlertsPopoverQuery,
  HistoryQuery, ClientDashboardQuery, AreaDetailsQuery, AdminStatsQuery, AdminPendingQuery,
  AreaOverviewQuery, GeoNodesQuery, GatewayStatusQuery, DashboardPreferencesSave,
  DashboardPreferencesQuery

\* Every step keeps the types, the bound of the questions and the one write.
LEMMA QueryStepTyped ==
  ASSUME QueriesTyped, [QueriesNext]_qryVars
  PROVE  QueriesTyped'
<1>1. /\ qryPage \in PagesOpened /\ qryKey \in QryKeys /\ qryView \in QryView
      /\ CallsOK(qryCalls) /\ (qryPage.name = "none" => qryCalls = <<>>)
  BY DEF QueriesTyped
<1>2. /\ qryCalls \in Seq(Questions) /\ OneWrite(qryCalls) /\ Len(qryCalls) \in Nat
      /\ Len(qryCalls) <= QryMaxCalls
  BY <1>1, LenProperties DEF CallsOK
<1>3. qryPage.name # "none" => qryPage.name \in QryPages
  BY <1>1 DEF PagesOpened
<1>5. ASSUME qryPage' = qryPage, qryPage.name # "none", qryKey' \in QryKeys,
             qryView' \in QryView, CallsOK(qryCalls')
      PROVE  QueriesTyped'
  BY <1>1, <1>5 DEF QueriesTyped
<1>6. ASSUME NEW page \in QryPages, NEW user \in QryUsers, NEW ordered \in BOOLEAN,
             NEW k \in QryKeys, OpenQueryPage(page, user, ordered, k)
      PROVE  QueriesTyped'
  <2> DEFINE q == Question("main", k, FALSE)
  <2>1. q \in Questions
    BY DEF Question, Questions
  <2>2. Blank \in QryView /\ Loads(Blank) \in QryView
    BY DEF Blank, Loads, QryView, DataOf
  <2>3. qryPage' \in PagesOpened /\ qryPage'.name # "none"
    BY <1>6 DEF OpenQueryPage, PagesOpened, QryPages
  <2> HIDE DEF q
  <2>4. <<q>> \in Seq(Questions) /\ Len(<<q>>) = 1 /\ OneWrite(<<q>>)
    BY <2>1 DEF OneWrite
  <2>5. CallsOK(<<q>>)
    BY <2>4, QueryConstants DEF CallsOK
  <2>6. QED
    BY <1>6, <2>2, <2>3, <2>5 DEF OpenQueryPage, QueriesTyped, q
<1>7. ASSUME NEW k \in QryKeys, ChangeKey(k)
      PROVE  QueriesTyped'
  <2>1. qryPage.name \in QryPages /\ qryPage.name # "none"
    BY <1>3, <1>7 DEF ChangeKey
  <2>2. PICK view \in Query(qryView, k, FALSE).change : AskFor(k, view, qryCalls, "key")
    BY <1>7 DEF ChangeKey
  <2>3. view \in QryView
    BY <1>1, <2>1, QueryTyped DEF Descriptions
  <2>4. qryView' \in QryView /\ CallsOK(qryCalls')
    BY <1>1, <2>1, <2>2, <2>3, AskForTyped
  <2>5. QED
    BY <1>5, <1>7, <2>1, <2>4 DEF ChangeKey
<1>8. ASSUME NEW k \in QryKeys, ServerMoved(k)
      PROVE  QueriesTyped'
  <2>1. qryPage.name # "none"
    BY <1>8 DEF ServerMoved, Keyless
  <2>2. QED
    BY <1>1, <1>5, <1>8, <2>1 DEF ServerMoved
<1>9. ASSUME NEW why, AskFor(qryKey, qryView, qryCalls, why), qryPage.name # "none",
             UNCHANGED <<qryPage, qryKey>>
      PROVE  QueriesTyped'
  <2>1. qryView' \in QryView /\ CallsOK(qryCalls')
    BY <1>1, <1>3, <1>9, AskForTyped
  <2>2. QED
    BY <1>1, <1>5, <1>9, <2>1
<1>10. CASE Refresh \/ Poll
  <2>1. Refresh => qryPage.name # "none"
    BY DEF Refresh
  <2>2. QED
    BY <1>9, <1>10, <2>1 DEF Refresh, Poll
<1>11. CASE BeginWrite
  <2> DEFINE writes == Query(qryView, qryKey, FALSE).writes
             key == IF writes \in {"stores", "asks", "opens"} THEN qryView.main ELSE qryKey
             q == Question("write", key, FALSE)
  <2>1. /\ qryPage.name # "none" /\ qryPage.name \in QryPages
        /\ Screen \cap QryKeys # {} /\ Writes(qryCalls) = <<>> /\ Len(qryCalls) < QryMaxCalls
        /\ qryView' = Query(qryView, qryKey, FALSE).writeBegin
        /\ qryCalls' = Append(qryCalls, q) /\ UNCHANGED <<qryPage, qryKey>>
    BY <1>3, <1>11 DEF BeginWrite
  <2>2. key \in QryKeys
    <3>1. CASE writes \in {"stores", "asks", "opens"}
      <4>1. qryPage.name \in {"nodeDetail", "auditLogs", "alertDetail"}
        <5>1. qryPage.name \in QryPages
          BY <2>1
        <5>2. Query(qryView, qryKey, FALSE).writes \in {"stores", "asks", "opens"}
          BY <3>1
        <5>3. QED
          BY ONLY <5>1, <5>2, WritesOfPages
      <4>2. qryView.main \in QryKeys
        BY <1>1, <2>1, <4>1, ShownIsKey
      <4>3. QED
        BY <3>1, <4>2
    <3>2. CASE writes \notin {"stores", "asks", "opens"}
      BY <1>1, <3>2
    <3>3. QED
      BY <3>1, <3>2
  <2> HIDE DEF key
  <2>3. q \in Questions
    BY <2>2 DEF Question, Questions
  <2>4. \A i \in DOMAIN qryCalls : qryCalls[i].part # "write"
    BY <1>1, <1>2, <2>1, HeardTyped
  <2>5. qryView' \in QryView
    BY <1>1, <2>1, QueryTyped DEF Descriptions
  <2> HIDE DEF q
  <2>6. /\ Append(qryCalls, q) \in Seq(Questions) /\ OneWrite(Append(qryCalls, q))
        /\ Len(Append(qryCalls, q)) = Len(qryCalls) + 1
    BY <1>2, <2>3, <2>4, AppendedOne
  <2>7. Len(Append(qryCalls, q)) <= QryMaxCalls
    BY <1>2, <2>1, <2>6, QueryConstants
  <2>8. QED
    BY <1>1, <1>5, <2>1, <2>5, <2>6, <2>7 DEF CallsOK
<1>12. ASSUME NEW i \in DOMAIN qryCalls, NEW served \in BOOLEAN, AnsweredCall(i, served)
       PROVE  QueriesTyped'
  <2> DEFINE c == qryCalls[i]
             left == RemoveAt(qryCalls, i)
  <2>1. qryPage.name # "none" /\ qryPage.name \in QryPages
    BY <1>1, <1>3
  <2>2. c \in Questions /\ c.key \in QryKeys /\ c.silent \in BOOLEAN
    <3>1. c \in Questions
      BY <1>2, LenProperties
    <3> HIDE DEF c
    <3>2. QED
      BY <3>1 DEF Questions
  <2>3. /\ left \in Seq(Questions) /\ Len(left) = Len(qryCalls) - 1 /\ OneWrite(left)
    BY <1>2, RemovedKeepsOneWrite
  <2>4. CallsOK(left) /\ Len(left) < QryMaxCalls
    <3> HIDE DEF left
    <3>1. QED
      BY <1>2, <2>3, QueryConstants DEF CallsOK
  <2>5. \A silent \in BOOLEAN : Query(qryView, c.key, silent) \in Descriptions
    BY <1>1, <2>1, <2>2, QueryTyped
  <2>6. UNCHANGED <<qryPage, qryKey>>
    BY <1>12 DEF AnsweredCall
  <2>7. CASE MainAnswered(i, served)
    <3> DEFINE q == Query(qryView, c.key, c.silent)
    <3>1. q \in Descriptions
      BY <2>2, <2>5
    <3>2. \/ \E what \in q.then : Follows(what, c.key, q.done, left)
          \/ qryView' = q.fail /\ qryCalls' = left
      BY <2>7 DEF MainAnswered
    <3> HIDE DEF q, c, left
    <3>3. /\ q.then \subseteq {"nothing", "own", "rest", "again"}
          /\ q.done \in QryView /\ q.fail \in QryView
      BY <3>1 DEF Descriptions
    <3>4. qryView' \in QryView /\ CallsOK(qryCalls')
      BY <1>1, <2>1, <2>2, <2>4, <3>2, <3>3, FollowsTyped
    <3>5. QED
      BY <1>1, <1>5, <2>1, <2>6, <3>4
  <2>8. CASE RestAnswered(i, served)
    <3>1. qryView' \in QryView /\ qryCalls' = left
      BY <2>5, <2>8 DEF RestAnswered, Descriptions
    <3>2. QED
      BY <1>1, <1>5, <2>1, <2>4, <2>6, <3>1
  <2>9. CASE WriteAnswered(i, served)
    <3> DEFINE q == Query(qryView, c.key, FALSE)
               k == IF qryPage.name \in Keyless THEN qryKey ELSE c.key
    <3>1. q \in Descriptions /\ k \in QryKeys
      BY <1>1, <2>2, <2>5
    <3>2. \/ qryView' = q.writeFail /\ qryCalls' = left
          \/ \E what \in {"own", "rest"} : Follows(what, c.key, q.writeDone, left)
          \/ AskFor(k, qryView, left, "user")
          \/ qryView' = q.writeDone /\ qryCalls' = left
      BY <2>9 DEF WriteAnswered
    <3> HIDE DEF q, c, left, k
    <3>3. q.writeDone \in QryView /\ q.writeFail \in QryView
      BY <3>1 DEF Descriptions
    <3>4. qryView' \in QryView /\ CallsOK(qryCalls')
      BY <1>1, <2>1, <2>2, <2>4, <3>1, <3>2, <3>3, FollowsTyped, AskForTyped
    <3>5. QED
      BY <1>1, <1>5, <2>1, <2>6, <3>4
  <2>10. QED
    BY <1>12, <2>7, <2>8, <2>9 DEF AnsweredCall
<1>13. CASE UNCHANGED qryVars
  BY <1>1, <1>13 DEF qryVars, QueriesTyped
<1>14. QED
  BY <1>6, <1>7, <1>8, <1>10, <1>11, <1>12, <1>13 DEF QueriesNext

\* The four pages that drop what they no longer wait for, and store nothing.
FormerPages == {"clientDashboard", "areaDetails", "history", "gatewayStatus"}

\* All that such a page has in flight is about its key.
FormerCalls ==
  qryPage.name \in FormerPages =>
    \A i \in DOMAIN qryCalls : qryCalls[i].part = "main" /\ qryCalls[i].key = qryKey

QueriesInv == QueriesTyped /\ FormerCalls /\ FormerDataIsAwaited

\* How these pages ask and take their answers.
LEMMA FormerQuery ==
  ASSUME qryPage.name \in FormerPages, NEW v \in QryView, NEW k \in QryKeys,
         NEW silent \in BOOLEAN
  PROVE  LET q == Query(v, k, silent)
         IN /\ q.drops /\ q.writes = "nothing" /\ q.then = {"nothing"} /\ q.guards \subseteq {"poll"}
            /\ q.done.main = k
            /\ qryPage.name = "areaDetails" => q.begin.main = NoData /\ q.fail.main = v.main
            /\ qryPage.name # "areaDetails" => q.begin.main = v.main /\ q.fail.main = NoData
            /\ qryPage.name = "clientDashboard" => \A w \in q.change : w.main = NoData
            /\ qryPage.name = "history" => q.begin.loading
<1>1. Query(v, k, silent) \in Descriptions
  BY QueryTyped DEF FormerPages, QryPages
<1>2. CASE qryPage.name = "clientDashboard"
  <2> DEFINE q == Query(v, k, silent)
  <2>1. /\ q.drops /\ q.writes = "nothing" /\ q.then = {"nothing"} /\ q.guards = {"poll"}
        /\ q.begin = v /\ q.change = {Blank} /\ q.done = Calm(Shows(v, k))
        /\ q.fail = [Tells(v) EXCEPT !.main = NoData]
    BY <1>2 DEF Query, ClientDashboardQuery, Usual
  <2>2. Calm(Shows(v, k)).main = k /\ [Tells(v) EXCEPT !.main = NoData].main = NoData
    BY DEF Shows, Calm, Tells, QryView
  <2>3. Blank.main = NoData
    BY DEF Blank
  <2> HIDE DEF q
  <2>4. QED
    BY <1>2, <2>1, <2>2, <2>3 DEF q
<1>3. CASE qryPage.name = "areaDetails"
  BY <1>3 DEF Query, AreaDetailsQuery, Usual, Shows, Tells, Blank, QryView
<1>4. CASE qryPage.name = "history"
  BY <1>4 DEF Query, HistoryQuery, Usual, Shows, Calm, Loads, Tells, QryView
<1>5. CASE qryPage.name = "gatewayStatus"
  BY <1>5 DEF Query, GatewayStatusQuery, Usual, Shows, Calm, Quietly, Tells, QryView
<1>6. QED
  BY <1>2, <1>3, <1>4, <1>5 DEF FormerPages

\* Such a page, when it asks, has that question alone in flight; or, a timer's that finds
\* one in flight, it lets it be.
LEMMA FormerAsks ==
  ASSUME QueriesTyped, qryPage.name \in FormerPages, FormerCalls,
         NEW k \in QryKeys, NEW view \in QryView, NEW why, AskFor(k, view, qryCalls, why)
  PROVE  \/ why = "poll" /\ qryView' = view /\ qryCalls' = qryCalls
         \/ \E silent \in BOOLEAN :
              /\ qryView' = Query(view, k, silent).begin
              /\ qryCalls' = <<Question("main", k, silent)>>
<1>1. /\ qryView \in QryView /\ qryKey \in QryKeys /\ qryPage.name \in QryPages
      /\ qryCalls \in Seq(Questions) /\ OneWrite(qryCalls)
  BY DEF QueriesTyped, CallsOK, FormerPages, QryPages
<1>2. CASE Blocked(view, qryCalls, why)
  <2>1. why \in Query(view, qryKey, FALSE).guards
    BY <1>2 DEF Blocked
  <2>2. Query(view, qryKey, FALSE).guards \subseteq {"poll"}
    BY <1>1, FormerQuery
  <2>3. QED
    BY <1>2, <2>1, <2>2 DEF AskFor
<1>3. CASE ~ Blocked(view, qryCalls, why)
  <2> DEFINE silent == why = "poll"
  <2>1. /\ qryView' = Query(view, k, silent).begin
        /\ qryCalls' = Append(Heard(qryCalls), Question("main", k, silent))
        /\ silent \in BOOLEAN
    BY <1>3 DEF AskFor
  <2>2. Query(qryView, qryKey, FALSE).drops
    BY <1>1, FormerQuery
  <2>3. \A i \in DOMAIN qryCalls : qryCalls[i].part # "write"
    BY DEF FormerCalls
  <2>4. Heard(qryCalls) = <<>>
    BY <2>2, <2>3 DEF Heard, Writes
  <2> HIDE DEF silent
  <2>5. Append(<<>>, Question("main", k, silent)) = <<Question("main", k, silent)>>
    OBVIOUS
  <2>6. QED
    BY <2>1, <2>4, <2>5
<1>4. QED
  BY <1>2, <1>3

\* A question that is asked alone is about its key.
LEMMA AloneInFlight ==
  ASSUME NEW k, NEW silent, qryCalls' = <<Question("main", k, silent)>>
  PROVE  /\ \A i \in DOMAIN qryCalls' : qryCalls'[i].part = "main" /\ qryCalls'[i].key = k
         /\ \E i \in DOMAIN qryCalls' : qryCalls'[i].part = "main" /\ qryCalls'[i].key = k
<1>1. \A q : DOMAIN <<q>> = {1} /\ <<q>>[1] = q
  OBVIOUS
<1>2. Question("main", k, silent).part = "main" /\ Question("main", k, silent).key = k
  BY DEF Question
<1>3. QED
  BY <1>1, <1>2

\* No step of such a page makes it show the data of a former key unawaited: a change of
\* the key blanks it or asks anew, and an answer that is heard is the key's.
LEMMA FormerStep ==
  ASSUME QueriesInv, [QueriesNext]_qryVars
  PROVE  FormerCalls' /\ FormerDataIsAwaited'
<1>1. QueriesTyped /\ FormerCalls /\ FormerDataIsAwaited
  BY DEF QueriesInv
<1>2. /\ qryKey \in QryKeys /\ qryView \in QryView
      /\ qryCalls \in Seq(Questions) /\ OneWrite(qryCalls) /\ Len(qryCalls) \in Nat
      /\ (qryPage.name = "none" => qryCalls = <<>>)
  BY <1>1, LenProperties DEF QueriesTyped, CallsOK
<1> DEFINE Kept == FormerCalls' /\ FormerDataIsAwaited'
<1>3. CASE UNCHANGED qryVars
  BY <1>1, <1>3 DEF qryVars, FormerCalls, FormerDataIsAwaited
<1>4. ASSUME NEW page \in QryPages, NEW user \in QryUsers, NEW ordered \in BOOLEAN,
             NEW k \in QryKeys, OpenQueryPage(page, user, ordered, k)
      PROVE  Kept
  <2>1. qryKey' = k /\ qryCalls' = <<Question("main", k, FALSE)>> /\ qryView'.main = NoData
    BY <1>4 DEF OpenQueryPage, Loads, Blank
  <2>2. QED
    BY <2>1, AloneInFlight DEF FormerCalls, FormerDataIsAwaited
<1>5. CASE QueriesNext /\ qryPage' = qryPage /\ qryPage.name \notin FormerPages
  BY <1>5 DEF FormerCalls, FormerDataIsAwaited, FormerPages
<1>6. ASSUME qryPage.name \in FormerPages, qryPage' = qryPage, NEW k \in QryKeys, qryKey' = k,
             NEW view \in QryView, NEW silent \in BOOLEAN,
             qryView' = Query(view, k, silent).begin,
             qryCalls' = <<Question("main", k, silent)>>,
             qryPage.name = "clientDashboard" => view.main \in {k, NoData}
      PROVE  Kept
  <2>1. /\ \A i \in DOMAIN qryCalls' : qryCalls'[i].part = "main" /\ qryCalls'[i].key = k
        /\ \E i \in DOMAIN qryCalls' : qryCalls'[i].part = "main" /\ qryCalls'[i].key = k
    BY <1>6, AloneInFlight
  <2>2. /\ qryPage.name = "areaDetails" => qryView'.main = NoData
        /\ qryPage.name = "clientDashboard" => qryView'.main = view.main
        /\ qryPage.name = "history" => qryView'.loading
    BY <1>6, FormerQuery
  <2>3. QED
    BY <1>6, <2>1, <2>2 DEF FormerCalls, FormerDataIsAwaited, FormerPages
<1>7. ASSUME NEW k \in QryKeys, ChangeKey(k), qryPage.name \in FormerPages
      PROVE  Kept
  <2>1. PICK view \in Query(qryView, k, FALSE).change : AskFor(k, view, qryCalls, "key")
    BY <1>7 DEF ChangeKey
  <2>2. view \in QryView
    BY <1>2, <1>7, QueryTyped DEF Descriptions, FormerPages, QryPages
  <2>3. qryPage.name = "clientDashboard" => view.main = NoData
    BY <1>2, <1>7, FormerQuery
  <2>4. PICK silent \in BOOLEAN : /\ qryView' = Query(view, k, silent).begin
                                  /\ qryCalls' = <<Question("main", k, silent)>>
    BY <1>1, <1>7, <2>1, <2>2, FormerAsks
  <2>5. qryPage' = qryPage /\ qryKey' = k
    BY <1>7 DEF ChangeKey
  <2>6. QED
    BY <1>6, <1>7, <2>2, <2>3, <2>4, <2>5
<1>8. ASSUME NEW why, AskFor(qryKey, qryView, qryCalls, why), qryPage.name \in FormerPages,
             UNCHANGED <<qryPage, qryKey>>
      PROVE  Kept
  <2>1. CASE qryView' = qryView /\ qryCalls' = qryCalls
    BY <1>1, <1>8, <2>1 DEF FormerCalls, FormerDataIsAwaited
  <2>2. CASE \E silent \in BOOLEAN :
               /\ qryView' = Query(qryView, qryKey, silent).begin
               /\ qryCalls' = <<Question("main", qryKey, silent)>>
    <3>1. PICK silent \in BOOLEAN :
               /\ qryView' = Query(qryView, qryKey, silent).begin
               /\ qryCalls' = <<Question("main", qryKey, silent)>>
      BY <2>2
    <3>2. qryPage.name = "clientDashboard" => qryView.main \in {qryKey, NoData}
      BY <1>1 DEF FormerDataIsAwaited
    <3>3. QED
      BY <1>2, <1>6, <1>8, <3>1, <3>2
  <2>3. QED
    BY <1>1, <1>2, <1>8, <2>1, <2>2, FormerAsks
<1>9. ASSUME ServerMoved(qryKey') \/ BeginWrite, qryPage.name \in FormerPages
      PROVE  Kept
  <2>1. Query(qryView, qryKey, FALSE).writes = "nothing"
    BY <1>2, <1>9, FormerQuery
  <2>2. qryPage.name \notin Keyless
    BY <1>9 DEF FormerPages, Keyless
  <2>3. QED
    BY <1>9, <2>1, <2>2 DEF ServerMoved, BeginWrite
<1>10. ASSUME NEW i \in DOMAIN qryCalls, NEW served \in BOOLEAN, AnsweredCall(i, served),
              qryPage.name \in FormerPages
       PROVE  Kept
  <2> DEFINE c == qryCalls[i]
             q == Query(qryView, c.key, c.silent)
             left == RemoveAt(qryCalls, i)
  <2>1. c.part = "main" /\ c.key = qryKey
    BY <1>1, <1>10 DEF FormerCalls
  <2>2. c.silent \in BOOLEAN
    <3>1. c \in Questions
      BY <1>2, LenProperties
    <3> HIDE DEF c
    <3>2. QED
      BY <3>1 DEF Questions
  <2>3. MainAnswered(i, served) /\ UNCHANGED <<qryPage, qryKey>>
    BY <1>10, <2>1 DEF AnsweredCall, RestAnswered, WriteAnswered
  <2>4. /\ q.then = {"nothing"} /\ q.done.main = qryKey
        /\ qryPage.name = "areaDetails" => q.fail.main = qryView.main
        /\ qryPage.name # "areaDetails" => q.fail.main = NoData
    BY <1>2, <1>10, <2>1, <2>2, FormerQuery
  <2>5. q.done \in QryView
    BY <1>2, <1>10, <2>1, <2>2, QueryTyped DEF Descriptions, FormerPages, QryPages
  <2>6. qryCalls' = left /\ (qryView' = Quietly(q.done) \/ qryView' = q.fail)
    <3>1. CASE served
      <4>1. \E what \in q.then : Follows(what, c.key, q.done, left)
        BY <2>3, <3>1 DEF MainAnswered
      <4> HIDE DEF q, left, c
      <4>2. Follows("nothing", c.key, q.done, left)
        BY <2>4, <4>1
      <4>3. QED
        BY <4>2 DEF Follows
    <3>2. CASE ~ served
      BY <2>3, <3>2 DEF MainAnswered
    <3>3. QED
      BY <3>1, <3>2
  <2>7. qryView'.main \in {qryKey, NoData}
    <3> HIDE DEF q
    <3>1. Quietly(q.done).main = q.done.main
      BY <2>5 DEF Quietly, QryView
    <3>2. qryPage.name = "areaDetails" => qryView.main \in {qryKey, NoData}
      BY <1>1 DEF FormerDataIsAwaited
    <3>3. QED
      BY <2>4, <2>6, <3>1, <3>2
  <2>8. \A j \in DOMAIN qryCalls' : qryCalls'[j].part = "main" /\ qryCalls'[j].key = qryKey
    <3> DEFINE S == {p \in Questions : p.part = "main" /\ p.key = qryKey}
    <3>1. qryCalls \in Seq(S)
      <4>1. \A j \in 1..Len(qryCalls) : qryCalls[j] \in S
        BY <1>1, <1>2, <1>10, LenProperties DEF FormerCalls
      <4> HIDE DEF S
      <4>2. QED
        BY <1>2, <4>1, LenProperties
    <3> HIDE DEF S
    <3>2. left \in Seq(S)
      BY <3>1, RemovedOne
    <3>3. \A j \in DOMAIN qryCalls' : qryCalls'[j] \in S
      <4> HIDE DEF left
      <4>1. QED
        BY <2>6, <3>2, LenProperties
    <3>4. QED
      BY <3>3 DEF S
  <2>9. QED
    BY <2>3, <2>7, <2>8 DEF FormerCalls, FormerDataIsAwaited
<1>11. CASE QueriesNext /\ qryPage.name \in FormerPages
  <2>1. ~ \E page \in QryPages, user \in QryUsers, ordered \in BOOLEAN, k \in QryKeys :
            OpenQueryPage(page, user, ordered, k)
    BY <1>11 DEF OpenQueryPage, FormerPages
  <2>2. \A k \in QryKeys : ServerMoved(k) => ServerMoved(qryKey')
    BY DEF ServerMoved
  <2>3. QED
    BY <1>7, <1>8, <1>9, <1>10, <1>11, <2>1, <2>2 DEF QueriesNext, Refresh, Poll
<1>12. CASE QueriesNext /\ qryPage' # qryPage
  BY <1>4, <1>12 DEF QueriesNext, ChangeKey, ServerMoved, Refresh, Poll, BeginWrite, AnsweredCall
<1>13. QED
  BY <1>3, <1>5, <1>11, <1>12

\* The invariant of the read pages is kept by each of their steps.
LEMMA QueriesStep ==
  ASSUME QueriesInv, [QueriesNext]_qryVars
  PROVE  QueriesInv'
BY QueryStepTyped, FormerStep DEF QueriesInv

\* No page is open at the start.
LEMMA QueriesInitInv ==
  ASSUME QueriesInit
  PROVE  QueriesInv
<1>1. qryKey \in QryKeys
  BY QueryConstants DEF QueriesInit
<1>2. qryPage \in PagesOpened /\ qryPage.name = "none" /\ qryCalls = <<>>
  BY DEF QueriesInit, PagesOpened, QryUsers
<1>3. qryView \in QryView
  BY DEF QueriesInit, Blank, QryView, DataOf
<1>4. CallsOK(<<>>)
  BY QueryConstants DEF CallsOK, OneWrite
<1>5. QED
  BY <1>1, <1>2, <1>3, <1>4 DEF QueriesInv, QueriesTyped, FormerCalls, FormerPages, FormerDataIsAwaited

\* The read pages keep their types and one write in flight, and four of them never show
\* the data of a former key unawaited (the pages and hooks of the frontend).
THEOREM QueriesInductive == QueriesSpec => []QueriesInv
BY QueriesInitInv, QueriesStep, PTL DEF QueriesSpec


-----------------------------------------------------------------------------
(* The components side by side *)

PlatformInv ==
  WebInv /\ WizardInv /\ QueriesInv /\ ScanInv /\ DispatchInv /\ ReportsInv

\* A step of one component leaves the others, so that each takes a step of its own or none.
LEMMA PlatformStep ==
  ASSUME PlatformInv, [PlatformNext]_platformVars
  PROVE  PlatformInv'
<1>1. [WebNext]_webVars /\ [WizardNext]_wizVars /\ [QueriesNext]_qryVars
  BY DEF PlatformNext, platformVars, WebRest, WizRest, QryRest, InaRest, DisRest, RepRest
<1>2. [ScanNext]_inaVars /\ [DispatchNext]_disVars /\ [ReportsNext]_repVars
  BY DEF PlatformNext, platformVars, WebRest, WizRest, QryRest, InaRest, DisRest, RepRest
<1>3. WebInv'
  BY <1>1, WebStepTyped, StepOwner, StepSomebody, StepPatient DEF PlatformInv, WebInv
<1>4. WizardInv' /\ QueriesInv'
  BY <1>1, WizardStep, QueriesStep DEF PlatformInv
<1>5. ScanInv' /\ DispatchInv' /\ ReportsInv'
  BY <1>2, ScanStep, DispatchStep, ReportStep DEF PlatformInv
<1>6. QED
  BY <1>3, <1>4, <1>5 DEF PlatformInv

\* The invariants of the components hold together, for every value of their constants.
THEOREM PlatformInductive == PlatformSpec => []PlatformInv
<1>1. PlatformInit => PlatformInv
  BY WebInitInv, WizardInitInv, QueriesInitInv, ScanInitInv, DispatchInitInv, ReportInitInv
  DEF PlatformInit, PlatformInv
<1>2. PlatformInv /\ [PlatformNext]_platformVars => PlatformInv'
  BY PlatformStep
<1>3. QED
  BY <1>1, <1>2, PTL DEF PlatformSpec

\* The session, the wizard, the read pages and the three jobs keep their types.
THEOREM PlatformTypeCorrect == PlatformSpec => []PlatformTypeOK
<1>1. PlatformInv => PlatformTypeOK
  BY TypedIsTypeOK
  DEF PlatformInv, WebInv, WizardInv, QueriesInv, ScanInv, DispatchInv, ReportsInv, PlatformTypeOK
<1>2. QED
  BY <1>1, PlatformInductive, PTL

\* The wizard keeps to a link, four read pages show no former data unawaited, an outage is
\* announced once, marked alerts are not sent again, and the days the reports are done for
\* are written (GatewayManagement.tsx, the pages and hooks, inactivity.py,
\* notification_dispatch.py, ai_report.py).
THEOREM PlatformIsSafe == PlatformSpec => []PlatformSafe
<1>1. PlatformInv => PlatformSafe
  BY OnceOfInv, SendsOfInv, ReportsOfInv
  DEF PlatformInv, WizardInv, QueriesInv, PlatformSafe
<1>2. QED
  BY <1>1, PlatformInductive, PTL

===============================================================================
