-------------------------- MODULE CredentialGrants --------------------------
(***************************************************************************)
(* What the lifecycle and the pairing of gateways promise together about   *)
(* credentials, with no clock, no codes and no requests: a grant is        *)
(* offered for one gateway, is spent at most once, and only spending a     *)
(* grant of the right kind (or an administrator) changes the credential a  *)
(* gateway is in possession of.                                            *)
(***************************************************************************)
CONSTANTS Gateways, Tickets, Administrator, NoOne

VARIABLES
  phase,    \* gateway: "closed", "open" (awaits a credential) or "live"
  holder,   \* gateway: what its credential in force was issued for, or NoOne
  ticket    \* grant: its status, the gateway it is for, and what for

ticketVars == <<phase, holder, ticket>>

Status(x) == ticket[x].status
Unspent == {x \in Tickets : Status(x) \in {"blank", "offered"}}

\* The tickets once those in V are void.
Voiding(V) == [x \in Tickets |-> IF x \in V THEN [ticket[x] EXCEPT !.status = "void"]
                                            ELSE ticket[x]]

\* What a grant offered to a gateway in phase p is for.
UseIn(p) == IF p = "live" THEN "renew" ELSE "activate"

Init ==
  /\ phase = [g \in Gateways |-> "closed"]
  /\ holder = [g \in Gateways |-> NoOne]
  /\ ticket = [x \in Tickets |-> [status |-> "blank", target |-> NoOne, use |-> "activate"]]

\* A gateway row begins a life.
Open(g) ==
  /\ phase[g] = "closed"
  /\ phase' = [phase EXCEPT ![g] = "open"]
  /\ UNCHANGED <<holder, ticket>>

\* A grant is offered to g, to activate it or to renew its credential.
Offer(x, g, V) ==
  /\ Status(x) = "blank"
  /\ phase[g] \in {"open", "live"}
  /\ ticket' = [Voiding(V) EXCEPT
                  ![x] = [status |-> "offered", target |-> g, use |-> UseIn(phase[g])]]
  /\ UNCHANGED <<phase, holder>>

\* An offered grant is spent: its gateway has a new credential.
Spend(x, V) ==
  LET g == ticket[x].target IN
  /\ Status(x) = "offered"
  /\ phase[g] \in {"open", "live"} /\ ticket[x].use = UseIn(phase[g])
  /\ phase' = [phase EXCEPT ![g] = "live"]
  /\ holder' = [holder EXCEPT ![g] = x]
  /\ ticket' = [Voiding(V) EXCEPT ![x].status = "spent"]

\* Grants end unspent.
Void(V) ==
  /\ ticket' = Voiding(V)
  /\ UNCHANGED <<phase, holder>>

\* The administrator renews a credential directly.
Renew(g) ==
  /\ phase[g] = "live"
  /\ holder' = [holder EXCEPT ![g] = Administrator]
  /\ UNCHANGED <<phase, ticket>>

\* The life of a gateway row ends.
Close(g, V) ==
  /\ phase[g] # "closed"
  /\ phase' = [phase EXCEPT ![g] = "closed"]
  /\ holder' = [holder EXCEPT ![g] = NoOne]
  /\ ticket' = Voiding(V)

Next ==
  \/ \E g \in Gateways : Open(g) \/ Renew(g)
  \/ \E V \in SUBSET Unspent :
       \/ Void(V)
       \/ \E g \in Gateways : Close(g, V)
       \/ \E x \in Tickets : Spend(x, V \ {x})
       \/ \E x \in Tickets, g \in Gateways : Offer(x, g, V \ {x})

Spec == Init /\ [][Next]_ticketVars

=============================================================================
