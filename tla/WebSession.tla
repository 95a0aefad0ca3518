----------------------------- MODULE WebSession -----------------------------
(***************************************************************************)
(* Who is signed in, in one tab of the browser (frontend: services/api.ts, *)
(* context/AuthContext.tsx, services/modules.ts, the routes' guard and the *)
(* public forms).                                                          *)
(*                                                                         *)
(* The tokens live in localStorage and their user in React's state.  Every *)
(* request carries the token that is stored when it leaves; a 401 renews   *)
(* the token once and sends the request again.  Requests of one session    *)
(* may still be in flight when the next one begins.                        *)
(***************************************************************************)
EXTENDS Naturals, FiniteSets

CONSTANTS
  WebUsers,    \* users of this browser
  WebAdmins,   \* those with the role "admin"; the others are "cliente"
  WebCalls,    \* requests that may be in flight at once
  Nobody

ASSUME WebConstants == WebAdmins \subseteq WebUsers /\ Nobody \notin WebUsers

VARIABLES
  webRegime,   \* "patient": nobody signs out or leaves a form while a request is in flight
  webPage,     \* the route
  webStore,    \* localStorage: whose access token and whose refresh token
  webUser,     \* AuthContext's user
  webModules,  \* cache of /settings/modules: its user, and the request that will fill it
  webCall      \* per slot: a request in flight

webVars == <<webRegime, webPage, webStore, webUser, webModules, webCall>>

Someone == WebUsers \cup {Nobody}
PublicPages == {"login", "forgot", "reset"}
Pages == PublicPages \cup {"admin", "cliente", "closed"}

\* from: the user who made it; as: the owner of the token it carries, or of the
\* refresh token while the renewal is in flight.
Requests == [kind : {"none", "data", "modules"} \cup PublicPages, from : Someone, as : Someone,
             retried : BOOLEAN, state : {"sent", "refreshing"}]
NoRequest == [kind |-> "none", from |-> Nobody, as |-> Nobody, retried |-> FALSE, state |-> "sent"]
NoModules == [user |-> Nobody, by |-> {}]
NoTokens == [token |-> Nobody, refresh |-> Nobody]

WebTypeOK ==
  /\ webRegime \in {"patient", "any"} /\ webPage \in Pages
  /\ webStore \in [token : Someone, refresh : Someone] /\ webUser \in Someone
  /\ webModules \in [user : Someone, by : SUBSET WebCalls]
  /\ webCall \in [WebCalls -> Requests]

WebInit ==
  /\ webRegime = "any" /\ webPage = "closed"
  /\ webStore = NoTokens /\ webUser = Nobody /\ webModules = NoModules
  /\ webCall = [c \in WebCalls |-> NoRequest]

-----------------------------------------------------------------------------
(* Routes *)

\* Where a user lands after signing in.
Home(user) == IF user \in WebAdmins THEN "admin" ELSE "cliente"

\* A route of a role lets in its own users; the others go to theirs, or to the login.
ProtectedRoute(page, user) == IF user = Nobody THEN "login" ELSE Home(user)

\* The login page sends away whoever is signed in.
Routed(page, user) ==
  CASE page \in {"admin", "cliente"} -> ProtectedRoute(page, user)
    [] page = "login" /\ user # Nobody -> Home(user)
    [] OTHER -> page

NothingInFlight == \A c \in WebCalls : webCall[c] = NoRequest
MayLeave == webRegime = "patient" => NothingInFlight

-----------------------------------------------------------------------------
(* What the context and the interceptors do *)

login(user) ==
  /\ webStore' = [token |-> user, refresh |-> user]
  /\ webUser' = user /\ webPage' = Home(user)
  /\ UNCHANGED webModules

logout ==
  /\ webStore' = NoTokens /\ webUser' = Nobody
  /\ webModules' = NoModules
  /\ webPage' = Routed(webPage, Nobody)

\* Mutant: the context is not told of the renewal.
TokenRefreshedQuietly(owner) ==
  /\ webStore' = [webStore EXCEPT !.token = owner]
  /\ UNCHANGED <<webUser, webPage, webModules>>

\* The renewed token is stored and announced to the context.
TokenRefreshed(owner) ==
  /\ webStore' = [webStore EXCEPT !.token = owner]
  /\ webUser' = owner /\ webPage' = Routed(webPage, owner)
  /\ UNCHANGED webModules

\* The browser loads "/" anew: whatever was in flight is gone.
clearSessionAndRedirect ==
  /\ webStore' = NoTokens /\ webUser' = Nobody /\ webPage' = "login"
  /\ webModules' = NoModules
  /\ webCall' = [c \in WebCalls |-> NoRequest]

\* Mutant: the retried request is not marked.
MayRefreshAgain(c) == webStore.refresh # Nobody
MayRefresh(c) == webStore.refresh # Nobody /\ ~ webCall[c].retried

Settle(c) == webCall' = [webCall EXCEPT ![c] = NoRequest]

\* The entry of the cache that a request fills is filled, or forgotten if it fails.
ModulesAfter(c, served) ==
  IF webModules.by # {c} THEN webModules
  ELSE IF served THEN [webModules EXCEPT !.by = {}] ELSE NoModules

-----------------------------------------------------------------------------
(* Actions *)

\* The tab is opened, or loaded again.  A stored token that has expired ends the session.
OpenTab(regime, page, stored, valid) ==
  /\ webPage = "closed"
  /\ webRegime' = regime
  /\ webUser' = IF valid THEN stored ELSE Nobody
  /\ webStore' = [token |-> webUser', refresh |-> webUser']
  /\ webPage' = Routed(page, webUser')
  /\ UNCHANGED <<webModules, webCall>>

ReloadTab(valid) ==
  /\ webPage # "closed" /\ MayLeave
  /\ IF valid THEN webUser' = webStore.token /\ UNCHANGED webStore
     ELSE webUser' = Nobody /\ webStore' = NoTokens
  /\ webPage' = Routed(webPage, webUser')
  /\ webModules' = NoModules
  /\ webCall' = [c \in WebCalls |-> NoRequest]
  /\ UNCHANGED webRegime

Send(c, kind, from, as) ==
  /\ webCall[c] = NoRequest
  /\ webCall' = [webCall EXCEPT ![c] = [NoRequest EXCEPT !.kind = kind, !.from = from, !.as = as]]

\* A page asks for data.
RequestData(c) ==
  /\ webPage \in {"admin", "cliente"}
  /\ Send(c, "data", webUser, webStore.token)
  /\ UNCHANGED <<webRegime, webPage, webStore, webUser, webModules>>

\* The layouts ask once per user which modules are on.
loadModules(c) ==
  /\ webPage \in {"admin", "cliente"} /\ webModules.user # webUser
  /\ Send(c, "modules", webUser, webStore.token)
  /\ webModules' = [user |-> webUser, by |-> {c}]
  /\ UNCHANGED <<webRegime, webPage, webStore, webUser>>

\* The three public forms lock their button until they are answered; leaving the page
\* forgets that, and not the request.  Who is named in the two that recover a password
\* makes no difference to the session, nor does the token that any of the three carries.
LoginForm == webPage = "login" /\ ~ \E d \in WebCalls : webCall[d].kind = "login"
ForgotForm == webPage = "forgot" /\ ~ \E d \in WebCalls : webCall[d].kind = "forgot"
ResetForm == webPage = "reset" /\ ~ \E d \in WebCalls : webCall[d].kind = "reset"

SubmitForm(c, user) ==
  /\ webPage \in PublicPages
  /\ webRegime = "any" \/ LoginForm \/ ForgotForm \/ ResetForm
  /\ user = Nobody <=> webPage # "login"
  /\ Send(c, webPage, user, Nobody)
  /\ UNCHANGED <<webRegime, webPage, webStore, webUser, webModules>>

VisitPage(page) ==
  /\ webPage # "closed" /\ MayLeave
  /\ Routed(page, webUser) # webPage
  /\ webPage' = Routed(page, webUser)
  /\ UNCHANGED <<webRegime, webStore, webUser, webModules, webCall>>

SignOut ==
  /\ webPage \in {"admin", "cliente"} /\ MayLeave
  /\ logout
  /\ UNCHANGED <<webRegime, webCall>>

Served(c) ==
  /\ webCall[c] # NoRequest /\ webCall[c].state = "sent"
  /\ IF webCall[c].kind = "login" THEN login(webCall[c].from)
     ELSE webModules' = ModulesAfter(c, TRUE) /\ UNCHANGED <<webPage, webStore, webUser>>
  /\ Settle(c)
  /\ UNCHANGED webRegime

\* Any other failure is the caller's to handle, and so is a 401 on a public page.
Rejected(c) ==
  /\ webCall[c] # NoRequest /\ webCall[c].state = "sent"
  /\ webModules' = ModulesAfter(c, FALSE)
  /\ Settle(c)
  /\ UNCHANGED <<webRegime, webPage, webStore, webUser>>

\* A 401 on a page of a user: the token is renewed once, with the refresh token that
\* is stored by now, or the session is over.
Unauthorized(c) ==
  /\ webCall[c] # NoRequest /\ webCall[c].state = "sent"
  /\ webPage \notin PublicPages
  /\ IF MayRefresh(c)
     THEN /\ webCall' = [webCall EXCEPT ![c].state = "refreshing", ![c].retried = TRUE,
                                        ![c].as = webStore.refresh]
          /\ UNCHANGED <<webPage, webStore, webUser, webModules>>
     ELSE clearSessionAndRedirect
  /\ UNCHANGED webRegime

\* The request goes again, with the token that the renewal brought.
Refreshed(c) ==
  /\ webCall[c].state = "refreshing"
  /\ TokenRefreshed(webCall[c].as)
  /\ webCall' = [webCall EXCEPT ![c].state = "sent"]
  /\ UNCHANGED webRegime

RefreshFailed(c) ==
  /\ webCall[c].state = "refreshing"
  /\ clearSessionAndRedirect
  /\ UNCHANGED webRegime

Answered(c) ==
  Served(c) \/ Rejected(c) \/ Unauthorized(c) \/ Refreshed(c) \/ RefreshFailed(c)

WebNext ==
  \/ \E regime \in {"patient", "any"}, page \in Pages \ {"closed"}, stored \in Someone,
        valid \in BOOLEAN : OpenTab(regime, page, stored, valid)
  \/ \E valid \in BOOLEAN : ReloadTab(valid)
  \/ \E page \in Pages \ {"closed"} : VisitPage(page)
  \/ SignOut
  \/ \E c \in WebCalls :
       \/ RequestData(c) \/ loadModules(c) \/ Answered(c)
       \/ \E user \in Someone : SubmitForm(c, user)

WebFairness == \A c \in WebCalls : WF_webVars(Answered(c))

WebSpec == WebInit /\ [][WebNext]_webVars /\ WebFairness

-----------------------------------------------------------------------------
(* Properties *)

\* Whatever is in flight from whom, the user on the screen is the owner of the stored
\* token, and nobody but a user of its role sees a page of a role.  While nobody signs
\* out or leaves a form with a request in flight, the two tokens are one user's too and
\* each request of a user is sent, renewed and sent again as that user; otherwise the
\* late answer to a renewal stores the former user's token beside the next one's.
SessionOfOneUser ==
  /\ webUser = webStore.token
  /\ webPage \in {"admin", "cliente"} => webUser # Nobody /\ webPage = Home(webUser)
  /\ webRegime = "patient" =>
       /\ webStore.refresh = webStore.token
       /\ \A c \in WebCalls :
            webCall[c].kind \in {"data", "modules"} => webCall[c].as = webCall[c].from

\* Every request comes to an end, however often the server answers 401: it is renewed
\* and sent again once.
RequestsSettle == \A c \in WebCalls : []<>(webCall[c] = NoRequest)

=============================================================================
