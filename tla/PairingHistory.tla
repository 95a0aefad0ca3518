--------------------------- MODULE PairingHistory ---------------------------
(***************************************************************************)
(* GatewayPairing with two history variables that its rows do not keep,    *)
(* for what the pairing specification and the v2 contract say about polls  *)
(* and capacity.  The history observes steps and restricts none.           *)
(***************************************************************************)
EXTENDS GatewayPairing

VARIABLES
  polled,       \* per session: the "now" of its last poll, as a set of at most one
  superseded    \* activation sessions whose gateway a reference activated before their poll

historyVars == <<vars, polled, superseded>>

\* Sessions approved for the activation of a gateway that this step activates.
Overtaken ==
  {s \in Sessions :
     /\ session[s].estado = "approved" /\ session[s].proposito = "activation"
     /\ gateway[session[s].pasarela].estado # "active"
     /\ gateway'[session[s].pasarela].estado = "active"}

HistoryInit ==
  /\ Init
  /\ polled = [s \in Sessions |-> {}]
  /\ superseded = {}

HistoryNext ==
  \/ /\ OtherNext
     /\ superseded' = superseded \cup Overtaken
     /\ UNCHANGED polled
  \/ \E s \in Sessions, t \in RequestTimes :
       /\ Redeem(s, t)
       /\ polled' = [polled EXCEPT ![s] = {t}]
       /\ superseded' = superseded \ {s}

HistorySpec == HistoryInit /\ [][HistoryNext]_historyVars

-----------------------------------------------------------------------------
(* What the documents say *)

\* A poll of a pending session that comes sooner than its interval after the
\* poll before it is answered slow_down, and so is made slower.
EarlyPollsAreSlowedDown ==
  \A s \in Sessions, t \in RequestTimes :
    /\ session[s].estado = "pending" /\ ~Overdue(s, t)
    /\ \E last \in polled[s] : last <= t /\ t < last + session[s].intervalo
    => PollAnswer(s, t) = "slow_down"

\* A session approved for a gateway's activation is denied at its next poll
\* once the gateway has been activated by reference, unless it has expired.
SupersededSessionDenied ==
  \A s \in superseded, t \in RequestTimes :
    PollAnswer(s, t) \in {"access_denied", "expired_token"}

\* A start is refused for capacity only while that many sessions are live,
\* that is not yet past their expiry.
RefusedOnlyWhenFull ==
  AtCapacity =>
    Cardinality({s \in LiveSessions : session[s].expira > clock}) >= MaxPendingSessions

=============================================================================
