-------------------------- MODULE GatewayLifecycle --------------------------
(***************************************************************************)
(* The credential lifecycle of the edge gateways                           *)
(* (services/gateway_lifecycle.py, and the gateway row of                  *)
(* services/gateway.py's provisioning).                                    *)
(*                                                                         *)
(* Every action is one committed database transaction.  Each handler here  *)
(* first locks the gateway row (SELECT ... FOR UPDATE), writes only rows   *)
(* that are guarded by that lock, and commits once; what it read before    *)
(* the lock (the reference's gateway id) never changes.  Nothing another   *)
(* request does can therefore be seen between its first read and its       *)
(* commit, except the clock: a handler reads it when it starts, and may    *)
(* then wait for the lock.                                                 *)
(***************************************************************************)
EXTENDS Naturals, FiniteSets

CONSTANTS
  Gateways,          \* one row of pasarelas per property
  References,        \* rows of referencias_activacion, by id
  Sessions,          \* rows of sesiones_emparejamiento: the other kind of grant
  Administrator,     \* stands for a rotation an administrator asks for directly
  NoOne,             \* a NULL column
  ReferenceTtl,      \* ACTIVATION_TTL, in clock ticks
  Latency,           \* how far behind the clock a running request's "now" may be
  MaxClock,          \* bound: the last tick of the clock
  MaxCredentials     \* bound: credentials ever issued

ASSUME GrantsDistinct ==
  /\ References \cap Sessions = {}
  /\ Administrator \notin References \cup Sessions
  /\ NoOne \notin References \cup Sessions \cup Gateways \cup {Administrator}

ASSUME LifecycleBounds ==
  /\ ReferenceTtl \in Nat \ {0}
  /\ Latency \in Nat
  /\ MaxClock \in Nat
  /\ MaxCredentials \in Nat

VARIABLES
  clock,        \* the server's clock
  gateway,      \* pasarelas: estado, and credencial_hash as the number of the credential
  reference,    \* referencias_activacion: resultado, pasarela_id, expira_en
  minted,       \* how many credentials were ever issued; the next one is minted + 1
  issuedBy      \* history: what each credential was issued for

lifecycleVars == <<clock, gateway, reference, minted, issuedBy>>

NoCredential == 0
Credentials == 1..MaxCredentials
Grants == References \cup Sessions \cup {Administrator}

GatewayRow == [estado : {"none", "pending_activation", "active", "revoked"},
               credencial : {NoCredential} \cup Credentials]
ReferenceRow == [resultado : {"unissued", "issued", "consumed", "revoked"},
                 pasarela : Gateways \cup {NoOne},
                 expira : Nat]

LifecycleTypeOK ==
  /\ clock \in 0..MaxClock
  /\ gateway \in [Gateways -> GatewayRow]
  /\ reference \in [References -> ReferenceRow]
  /\ minted \in 0..MaxCredentials
  /\ issuedBy \in [Credentials -> Grants \cup {NoOne}]

LifecycleInit ==
  /\ clock = 0
  /\ gateway = [g \in Gateways |-> [estado |-> "none", credencial |-> NoCredential]]
  /\ reference = [r \in References |->
                    [resultado |-> "unissued", pasarela |-> NoOne, expira |-> 0]]
  /\ minted = 0
  /\ issuedBy = [c \in Credentials |-> NoOne]

-----------------------------------------------------------------------------
(* Helpers *)

\* The values a request that commits now may have read as its own "now".
RequestTimes == {t \in 0..clock : clock <= t + Latency}

\* The references of a gateway that could still be used.
Outstanding(g) ==
  {r \in References : reference[r].resultado = "issued" /\ reference[r].pasarela = g}

\* Mutant: the sweep of a gateway's references is forgotten.
RevokeNothing(g) == reference

\* The references once every outstanding one of g is revoked.
RevokeOutstanding(g) ==
  [r \in References |->
     IF r \in Outstanding(g) THEN [reference[r] EXCEPT !.resultado = "revoked"]
                             ELSE reference[r]]

\* Mutant: the update only excludes revoked gateways.
MayInstallUnlessRevoked(g, replace) == gateway[g].estado \in {"pending_activation", "active"}

\* The WHERE clause of the update that installs a credential.
MayInstall(g, replace) ==
  IF replace THEN gateway[g].estado = "active"
             ELSE /\ gateway[g].estado = "pending_activation"
                  /\ gateway[g].credencial = NoCredential

\* Mutant: the update has lost its filter by gateway id.
ActivateEveryGateway(g, replace, grant) ==
  /\ MayInstall(g, replace)
  /\ minted < MaxCredentials
  /\ minted' = minted + 1
  /\ gateway' = [h \in Gateways |->
                   IF h = g \/ MayInstall(h, TRUE)
                   THEN [estado |-> "active", credencial |-> minted + 1] ELSE gateway[h]]
  /\ issuedBy' = [issuedBy EXCEPT ![minted + 1] = grant]

\* _activate_gateway: a fresh credential, installed on g for one grant.
ActivateGateway(g, replace, grant) ==
  /\ MayInstall(g, replace)
  /\ minted < MaxCredentials
  /\ minted' = minted + 1
  /\ gateway' = [gateway EXCEPT ![g] = [estado |-> "active", credencial |-> minted + 1]]
  /\ issuedBy' = [issuedBy EXCEPT ![minted + 1] = grant]

-----------------------------------------------------------------------------
(* Operations *)

Tick ==
  /\ clock < MaxClock
  /\ clock' = clock + 1
  /\ UNCHANGED <<gateway, reference, minted, issuedBy>>

\* A property's gateway is created, or its revoked row is reset for another life.
ProvisionGateway(g) ==
  /\ gateway[g].estado \in {"none", "revoked"}
  /\ gateway' = [gateway EXCEPT
                   ![g] = [estado |-> "pending_activation", credencial |-> NoCredential]]
  /\ UNCHANGED <<clock, reference, minted, issuedBy>>

\* Mutant: a reference may be issued in whatever state the gateway is.
IssueReferenceAnytime(g, r) ==
  /\ reference[r].resultado = "unissued"
  /\ reference' = [RevokeOutstanding(g) EXCEPT
                     ![r] = [resultado |-> "issued", pasarela |-> g,
                             expira |-> clock + ReferenceTtl]]
  /\ UNCHANGED <<clock, gateway, minted, issuedBy>>

\* A new single-use reference replaces the ones still outstanding.
IssueReference(g, r) ==
  /\ gateway[g].estado = "pending_activation"
  /\ reference[r].resultado = "unissued"
  /\ reference' = [RevokeOutstanding(g) EXCEPT
                     ![r] = [resultado |-> "issued", pasarela |-> g,
                             expira |-> clock + ReferenceTtl]]
  /\ UNCHANGED <<clock, gateway, minted, issuedBy>>

\* Mutant: the reference's result is not tested again under the lock.
ActivateAgain(r, t) ==
  /\ reference[r].resultado # "unissued"
  /\ reference[r].expira > t
  /\ ActivateGateway(reference[r].pasarela, FALSE, r)
  /\ reference' = [reference EXCEPT ![r].resultado = "consumed"]
  /\ UNCHANGED clock

\* POST /gateways/activate: consume the reference and install the credential.
Activate(r, t) ==
  /\ reference[r].resultado = "issued"
  /\ reference[r].expira > t
  /\ ActivateGateway(reference[r].pasarela, FALSE, r)
  /\ reference' = [reference EXCEPT ![r].resultado = "consumed"]
  /\ UNCHANGED clock

RotateCredential(g) ==
  /\ ActivateGateway(g, TRUE, Administrator)
  /\ UNCHANGED <<clock, reference>>

\* Mutant: the revoked row keeps its credential hash.
RevokeKeepingCredential(g) ==
  /\ gateway[g].estado \in {"pending_activation", "active"}
  /\ gateway' = [gateway EXCEPT ![g].estado = "revoked"]
  /\ reference' = RevokeOutstanding(g)
  /\ UNCHANGED <<clock, minted, issuedBy>>

RevokeGateway(g) ==
  /\ gateway[g].estado \in {"pending_activation", "active"}
  /\ gateway' = [gateway EXCEPT ![g] = [estado |-> "revoked", credencial |-> NoCredential]]
  /\ reference' = RevokeOutstanding(g)
  /\ UNCHANGED <<clock, minted, issuedBy>>

LifecycleNext ==
  \/ Tick
  \/ \E g \in Gateways : ProvisionGateway(g) \/ RotateCredential(g) \/ RevokeGateway(g)
  \/ \E g \in Gateways, r \in References : IssueReference(g, r)
  \/ \E r \in References, t \in RequestTimes : Activate(r, t)

-----------------------------------------------------------------------------
(* Properties of the lifecycle, whatever else issues credentials *)

\* A gateway holds a credential exactly while it is active, so the lookup by
\* credential and state in validate_gateway_credential can never find a
\* revoked or half-activated gateway, and an active one is never locked out.
CredentialIffActive ==
  \A g \in Gateways :
    gateway[g].estado = "active" <=> gateway[g].credencial # NoCredential

\* An activation reference is outstanding only while its gateway awaits
\* activation, and there is one at most: whichever of a reference, a pairing or
\* a revocation comes first leaves no reference a later life of the same
\* gateway row could be activated with.
OutstandingReferencePending ==
  \A r, q \in References :
    reference[r].resultado = "issued" =>
      /\ reference[r].pasarela \in Gateways
      /\ gateway[reference[r].pasarela].estado = "pending_activation"
      /\ reference[q].resultado = "issued" /\ reference[q].pasarela = reference[r].pasarela
           => q = r

=============================================================================
