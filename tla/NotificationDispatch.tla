------------------------- MODULE NotificationDispatch -------------------------
(***************************************************************************)
(* Sending alerts to the clients: a dispatch takes the oldest alerts that  *)
(* some enabled channel has not sent, tries each, and commits the marks of *)
(* what was sent at its end.  What it cannot send it passes over, and will *)
(* take again.  The scheduler asks for dispatches, and so may others.      *)
(***************************************************************************)
EXTENDS Naturals, FiniteSets, FiniteSetsExt

CONSTANTS
  DisAlerts,    \* ids, in the order of their times
  DisChannels,  \* the enabled channels
  DisRuns,      \* requests
  DisLimit,     \* limit
  DisMaxUpsets  \* bound: changes of contacts or preferences, and lost dispatches

ASSUME DispatchConstants ==
  DisAlerts \subseteq Nat /\ DisLimit \in Nat \ {0} /\ DisMaxUpsets \in Nat

VARIABLES
  disReach,    \* the channels by which an alert's client can be told of it
  disMarked,   \* notificada_email, notificada_whatsapp
  disRun,      \* requests: what they still have to try, and what they sent
  disUpsets

disVars == <<disReach, disMarked, disRun, disUpsets>>

Marks == [DisAlerts -> SUBSET DisChannels]
NoMarks == [a \in DisAlerts |-> {}]
NoRun == [open |-> FALSE, batch |-> {}, reach |-> NoMarks, seen |-> NoMarks, sent |-> NoMarks]

DispatchTypeOK ==
  /\ disReach \in Marks /\ disMarked \in Marks /\ disUpsets \in 0..DisMaxUpsets
  /\ disRun \in [DisRuns -> [open : BOOLEAN, batch : SUBSET DisAlerts,
                             reach : Marks, seen : Marks, sent : Marks]]

DispatchInit ==
  /\ disReach = [a \in DisAlerts |-> DisChannels]
  /\ disMarked = NoMarks /\ disUpsets = 0
  /\ disRun = [r \in DisRuns |-> NoRun]

\* A client gives up its telephone, switches a channel off for some alerts, or is deleted.
ContactsChange(a, channels) ==
  /\ disUpsets < DisMaxUpsets /\ channels # disReach[a]
  /\ disReach' = [disReach EXCEPT ![a] = channels]
  /\ disUpsets' = disUpsets + 1
  /\ UNCHANGED <<disMarked, disRun>>

\* An alert is pending while any enabled channel has not sent it, reachable or not.
PendingAlerts == {a \in DisAlerts : disMarked[a] # DisChannels}

Oldest(alerts) == {a \in alerts : Cardinality({b \in alerts : b < a}) < DisLimit}

BeginDispatch(r) ==
  /\ ~ disRun[r].open
  /\ disRun' = [disRun EXCEPT ![r] =
                  [NoRun EXCEPT !.open = TRUE, !.batch = Oldest(PendingAlerts),
                                !.reach = disReach, !.seen = disMarked]]
  /\ UNCHANGED <<disReach, disMarked, disUpsets>>

\* Mutant: an alert that cannot be sent ends the dispatch.
LeftAfterOrNone(batch, a, delivered) == IF delivered = {} THEN {} ELSE batch \ {a}
LeftAfter(batch, a, delivered) == batch \ {a}

\* The channels by which the client of an alert has a contact and a preference, both as
\* the dispatch read them, and is not marked as told.
ChannelsLeft(run, a) == run.reach[a] \ run.seen[a]

\* One alert of the batch, by every channel that can reach its client: each may fail.
TryAlert(r, delivered) ==
  LET run == disRun[r]
      a == Min(run.batch)
  IN /\ run.open /\ run.batch # {}
     /\ delivered \subseteq ChannelsLeft(run, a)
     /\ disRun' = [disRun EXCEPT ![r].batch = LeftAfter(@, a, delivered), ![r].sent[a] = delivered]
     /\ UNCHANGED <<disReach, disMarked, disUpsets>>

CommitMarks(r) ==
  /\ disRun[r].open /\ disRun[r].batch = {}
  /\ disMarked' = [a \in DisAlerts |-> disMarked[a] \cup disRun[r].sent[a]]
  /\ disRun' = [disRun EXCEPT ![r] = NoRun]
  /\ UNCHANGED <<disReach, disUpsets>>

\* The process stops or the commit fails: what was sent is not marked.
DispatchLost(r) ==
  /\ disUpsets < DisMaxUpsets /\ disRun[r].open
  /\ disRun' = [disRun EXCEPT ![r] = NoRun]
  /\ disUpsets' = disUpsets + 1
  /\ UNCHANGED <<disReach, disMarked>>

DispatchNext ==
  \/ \E a \in DisAlerts, channels \in SUBSET DisChannels : ContactsChange(a, channels)
  \/ \E r \in DisRuns : \/ BeginDispatch(r) \/ CommitMarks(r) \/ DispatchLost(r)
                        \/ \E delivered \in SUBSET DisChannels : TryAlert(r, delivered)

\* An attempt by every channel that reaches the client and is left, all of which deliver.
Delivers(r) ==
  /\ disRun[r].batch # {}
  /\ LET channels == ChannelsLeft(disRun[r], Min(disRun[r].batch))
     IN channels # {} /\ TryAlert(r, channels)

\* Dispatches are asked for and run; what is tried for ever is delivered at some time.
DispatchFairness ==
  \A r \in DisRuns :
    /\ WF_disVars(BeginDispatch(r)) /\ WF_disVars(CommitMarks(r))
    /\ WF_disVars(\E delivered \in SUBSET DisChannels : TryAlert(r, delivered))
    /\ SF_disVars(Delivers(r))

DispatchSpec == DispatchInit /\ [][DispatchNext]_disVars /\ DispatchFairness

\* A dispatch takes no more alerts than the limit, and if there is one dispatcher it never
\* sends by a channel what is marked as sent by it: a client is told twice only if the
\* marks of a dispatch were lost.
SendsOnceWithinLimit ==
  /\ \A r \in DisRuns : Cardinality(disRun[r].batch) <= DisLimit
  /\ (\A r, s \in DisRuns : r = s) =>
       \A r \in DisRuns, a \in DisAlerts : disRun[r].sent[a] \cap disMarked[a] = {}

\* Alerts some channel will never send: they stay at the head of every batch.
Stuck == {a \in DisAlerts : disReach[a] # DisChannels /\ ~ DisChannels \subseteq disMarked[a]}

\* While dispatches run, and as long as fewer alerts than the limit are stuck, every
\* channel that reaches a client is in the end marked as having told it, whatever fails,
\* changes or is lost on the way.
AlertsReachClients ==
  []<>(\E r \in DisRuns : disRun[r].open) /\ <>[](Cardinality(Stuck) < DisLimit) =>
    <>[](\A a \in DisAlerts : disReach[a] \subseteq disMarked[a])

=============================================================================
