------------------------------ MODULE JobsProofs ------------------------------
(***************************************************************************)
(* The jobs of the scheduler, proved: the inactivity scan announces an     *)
(* outage once, a dispatch takes no more alerts than its limit and sends   *)
(* nothing that is marked, and the days the reports are done for have      *)
(* every area written, failed or being written.                            *)
(***************************************************************************)
EXTENDS InactivityScan, NotificationDispatch, ReportJobs,
        FiniteSetTheorems, WellFoundedInduction, TLAPS

\* A scan that runs alone sees all alerts, and no reading later than the last; so what is
\* one alert for the server is at most one for the scan.
LoneScan ==
  ~ inaOverlap =>
    /\ \A r, s \in InaScans : Open(r) /\ Open(s) => r = s
    /\ \A s \in InaScans : Open(s) =>
         /\ inaScan[s].alerts = inaAlerts
         /\ \A n \in InaNodes : /\ inaScan[s].last[n] <= inaLast[n]
                                /\ \A a, b \in OutageAlerts(inaScan[s], n) : a = b

OutageOnce ==
  ~ inaOverlap => \A n \in InaNodes : \A a, b \in AlertsSince(n, inaLast[n]) : a = b

ScanInv == ScanTypeOK /\ LoneScan /\ OutageOnce

\* A set without two elements counts one at most.
LEMMA AtMostOne ==
  ASSUME NEW S, \A a, b \in S : a = b
  PROVE  ~ (Cardinality(S) > 1)
<1>1. CASE S = {}
  BY <1>1, FS_EmptySet
<1>2. CASE S # {}
  <2>1. PICK a \in S : TRUE
    BY <1>2
  <2>2. S = {a}
    BY <2>1
  <2>3. Cardinality(S) = 1
    BY <2>2, FS_Singleton
  <2>4. QED
    BY <2>3
<1>3. QED
  BY <1>1, <1>2

\* What the types say of a scan.
LEMMA ScanTypes ==
  ASSUME ScanTypeOK
  PROVE  /\ \A s \in InaScans : /\ inaScan[s].nodes \subseteq InaNodes
                                /\ inaScan[s].last \in [InaNodes -> Times]
                                /\ inaScan[s].alerts \subseteq InaAlert
                                /\ inaScan[s].began \in Times
         /\ \A n \in InaNodes : inaLast[n] \in Times
         /\ NoScan \in [nodes : SUBSET InaNodes, last : [InaNodes -> Times],
                        alerts : SUBSET InaAlert, began : Times]
         /\ \A t \in Times : t \in Nat
<1>1. Times \subseteq Nat /\ 0 \in Times
  BY ScanConstants DEF Times
<1>2. QED
  BY <1>1 DEF ScanTypeOK, NoScan

\* The initial state: no alert, and no scan runs.
LEMMA ScanInitInv == ScanInit => ScanInv
<1> SUFFICES ASSUME ScanInit PROVE ScanInv
  OBVIOUS
<1>1. 0 \in Times /\ 1 \in Times
  BY ScanConstants DEF Times
<1>2. ScanTypeOK
  BY <1>1 DEF ScanInit, ScanTypeOK, NoScan
<1>3. \A s \in InaScans : ~ Open(s)
  BY DEF ScanInit, Open, NoScan
<1>4. QED
  BY <1>2, <1>3 DEF ScanInv, ScanInit, LoneScan, OutageOnce, AlertsSince

\* A scan's end adds an alert for each node whose outage has none, or nothing.
LEMMA ScanEndTyped ==
  ASSUME ScanTypeOK, NEW s \in InaScans, NEW now \in Times, scan_inactivity_alerts(s, now)
  PROVE  ScanTypeOK'
<1>1. \A n \in inaScan[s].nodes : create_alert(n, now) \in InaAlert
  BY ScanTypes DEF create_alert, InaAlert
<1>2. inaAlerts' \subseteq InaAlert
  BY <1>1 DEF scan_inactivity_alerts, ScanTypeOK, Inactive
<1>3. QED
  BY <1>2, ScanTypes DEF scan_inactivity_alerts, ScanTypeOK

\* Every step keeps the types.
LEMMA ScanStepTyped ==
  ASSUME ScanTypeOK, [ScanNext]_inaVars
  PROVE  ScanTypeOK'
<1>1. CASE Tick
  BY <1>1, ScanConstants DEF Tick, ScanTypeOK, Times
<1>2. ASSUME NEW n \in InaNodes, NEW stamp \in 1..(InaMaxTime - InaDelta), ReadingStored(n, stamp)
      PROVE  ScanTypeOK'
  <2>1. stamp \in Times
    BY ScanConstants DEF Times
  <2>2. QED
    BY <1>2, <2>1 DEF ReadingStored, ScanTypeOK
<1>3. ASSUME NEW s \in InaScans, NEW nodes \in {InaNodes} \cup {{n} : n \in InaNodes}, BeginScan(s, nodes)
      PROVE  ScanTypeOK'
  BY <1>3 DEF BeginScan, ScanTypeOK
<1>4. ASSUME NEW s \in InaScans, ScanLost(s)
      PROVE  ScanTypeOK'
  BY <1>4, ScanTypes DEF ScanLost, ScanTypeOK
<1>5. CASE UNCHANGED inaVars
  BY <1>5 DEF inaVars, ScanTypeOK
<1>6. QED
  BY <1>1, <1>2, <1>3, <1>4, <1>5, ScanEndTyped DEF ScanNext

\* A scan that ends without an overlap leaves one alert at most for each outage: it saw
\* all alerts, and a reading stored meanwhile only made the outage shorter.
LEMMA ScanEndOnce ==
  ASSUME ScanInv, NEW s \in InaScans, NEW now \in Times, scan_inactivity_alerts(s, now)
  PROVE  LoneScan' /\ OutageOnce'
<1>1. ScanTypeOK /\ LoneScan /\ OutageOnce /\ Open(s)
  BY DEF ScanInv, scan_inactivity_alerts
<1>2. UNCHANGED <<inaLast, inaOverlap>> /\ inaScan' = [inaScan EXCEPT ![s] = NoScan]
  BY DEF scan_inactivity_alerts
<1>3. SUFFICES ASSUME ~ inaOverlap
               PROVE  LoneScan' /\ OutageOnce'
  BY <1>2 DEF LoneScan, OutageOnce
<1>4. \A r \in InaScans : ~ Open(r)'
  BY <1>1, <1>2, <1>3 DEF LoneScan, Open, ScanTypeOK, NoScan
<1>5. LoneScan'
  BY <1>4 DEF LoneScan
<1>6. ASSUME NEW n \in InaNodes, NEW a \in inaAlerts', NEW b \in inaAlerts',
             a.node = n, b.node = n, a.at >= inaLast[n], b.at >= inaLast[n]
      PROVE  a = b
  <2> DEFINE scan == inaScan[s]
  <2>1. /\ scan.alerts = inaAlerts /\ scan.last[n] <= inaLast[n]
        /\ \A x, y \in OutageAlerts(scan, n) : x = y
    BY <1>1, <1>3 DEF LoneScan
  <2>2. \A x \in inaAlerts' : \/ x \in inaAlerts
                              \/ /\ ~ HasAlertForCurrentOutage(scan, x.node)
                                 /\ x = create_alert(x.node, now)
    BY DEF scan_inactivity_alerts, create_alert
  <2>3. \A x \in inaAlerts : x.at \in Nat
    BY <1>1, ScanTypes DEF ScanTypeOK, InaAlert
  <2>4. scan.last[n] \in Nat /\ inaLast[n] \in Nat
    BY <1>1, ScanTypes
  <2>5. \A x \in inaAlerts : x.node = n /\ x.at >= inaLast[n] => x \in OutageAlerts(scan, n)
    BY <2>1, <2>3, <2>4 DEF OutageAlerts
  <2>6. CASE HasAlertForCurrentOutage(scan, n)
    BY <1>6, <2>1, <2>2, <2>5, <2>6
  <2>7. CASE ~ HasAlertForCurrentOutage(scan, n)
    BY <1>6, <2>2, <2>5, <2>7 DEF HasAlertForCurrentOutage
  <2>8. QED
    BY <2>6, <2>7
<1>7. OutageOnce'
  BY <1>2, <1>6 DEF OutageOnce, AlertsSince
<1>8. QED
  BY <1>5, <1>7

\* A reading shortens an outage, and no scan saw a later one.
LEMMA ReadingKeepsOnce ==
  ASSUME ScanInv, NEW n \in InaNodes, NEW stamp \in 1..(InaMaxTime - InaDelta),
         ReadingStored(n, stamp)
  PROVE  LoneScan' /\ OutageOnce'
<1>1. ScanTypeOK /\ LoneScan /\ OutageOnce
  BY DEF ScanInv
<1>2. /\ inaLast[n] < stamp /\ inaLast' = [inaLast EXCEPT ![n] = stamp]
      /\ UNCHANGED <<inaAlerts, inaScan, inaOverlap>>
  BY DEF ReadingStored
<1>3. stamp \in Nat
  BY ScanConstants
<1>4. \A m \in InaNodes : inaLast[m] \in Nat /\ inaLast'[m] \in Nat /\ inaLast[m] <= inaLast'[m]
  BY <1>1, <1>2, <1>3, ScanTypes DEF ScanTypeOK
<1>5. \A m \in InaNodes, s \in InaScans : inaScan[s].last[m] \in Nat
  BY <1>1, ScanTypes
<1>6. \A a \in inaAlerts : a.at \in Nat
  BY <1>1, ScanTypes DEF ScanTypeOK, InaAlert
<1>7. \A m \in InaNodes : AlertsSince(m, inaLast[m])' \subseteq AlertsSince(m, inaLast[m])
  BY <1>2, <1>4, <1>6 DEF AlertsSince
<1>8. OutageOnce'
  BY <1>1, <1>2, <1>7 DEF OutageOnce
<1>9. \A s \in InaScans, m \in InaNodes :
        inaScan[s].last[m] <= inaLast[m] => inaScan[s].last[m] <= inaLast'[m]
  BY <1>4, <1>5
<1>10. LoneScan'
  BY <1>1, <1>2, <1>9 DEF LoneScan, Open, OutageAlerts
<1>11. QED
  BY <1>8, <1>10

\* A scan that begins alone sees the alerts and the readings as they are.
LEMMA BeginKeepsOnce ==
  ASSUME ScanInv, NEW s \in InaScans, NEW nodes, BeginScan(s, nodes)
  PROVE  LoneScan' /\ OutageOnce'
<1>1. ScanTypeOK /\ LoneScan /\ OutageOnce
  BY DEF ScanInv
<1>2. /\ UNCHANGED <<inaLast, inaAlerts>>
      /\ inaScan' = [inaScan EXCEPT ![s] = [nodes |-> nodes, last |-> inaLast,
                                            alerts |-> inaAlerts, began |-> inaClock]]
      /\ inaOverlap' = (inaOverlap \/ \E r \in InaScans : Open(r))
  BY DEF BeginScan
<1>3. OutageOnce'
  BY <1>1, <1>2 DEF OutageOnce, AlertsSince
<1>4. SUFFICES ASSUME ~ inaOverlap'
               PROVE  LoneScan'
  BY <1>3 DEF LoneScan
<1>5. ~ inaOverlap /\ \A r \in InaScans : ~ Open(r)
  BY <1>2, <1>4
<1>6. \A r \in InaScans : Open(r)' => r = s
  BY <1>1, <1>2, <1>5 DEF Open, ScanTypeOK
<1>7. inaScan'[s].alerts = inaAlerts' /\ inaScan'[s].last = inaLast'
  BY <1>1, <1>2 DEF ScanTypeOK
<1>8. \A n \in InaNodes : /\ inaScan'[s].last[n] <= inaLast'[n]
                          /\ \A a, b \in OutageAlerts(inaScan[s], n)' : a = b
  <2>1. \A n \in InaNodes : inaLast'[n] \in Nat
    BY <1>1, <1>2, ScanTypes
  <2>2. \A n \in InaNodes : OutageAlerts(inaScan[s], n)' = AlertsSince(n, inaLast[n])
    BY <1>2, <1>7 DEF OutageAlerts, AlertsSince
  <2>3. QED
    BY <1>1, <1>5, <1>7, <2>1, <2>2 DEF OutageOnce
<1>9. QED
  BY <1>6, <1>7, <1>8 DEF LoneScan

\* Every step keeps the invariant.
LEMMA ScanStep == ScanInv /\ [ScanNext]_inaVars => ScanInv'
<1> SUFFICES ASSUME ScanInv, [ScanNext]_inaVars PROVE ScanInv'
  OBVIOUS
<1>1. ScanTypeOK /\ LoneScan /\ OutageOnce
  BY DEF ScanInv
<1>2. ScanTypeOK'
  BY <1>1, ScanStepTyped
<1>3. CASE Tick \/ UNCHANGED inaVars
  <2>1. UNCHANGED <<inaLast, inaAlerts, inaScan, inaOverlap>>
    BY <1>3 DEF Tick, inaVars
  <2>2. QED
    BY <1>1, <1>2, <2>1 DEF ScanInv, LoneScan, OutageOnce, AlertsSince, Open, OutageAlerts
<1>4. ASSUME NEW s \in InaScans, ScanLost(s)
      PROVE  LoneScan' /\ OutageOnce'
  <2>1. UNCHANGED <<inaLast, inaAlerts, inaOverlap>> /\ inaScan' = [inaScan EXCEPT ![s] = NoScan]
    BY <1>4 DEF ScanLost
  <2>2. \A r \in InaScans : Open(r)' => r # s /\ inaScan'[r] = inaScan[r]
    BY <1>1, <2>1 DEF Open, NoScan, ScanTypeOK
  <2>3. QED
    BY <1>1, <2>1, <2>2 DEF LoneScan, OutageOnce, AlertsSince, Open, OutageAlerts
<1>5. QED
  BY <1>2, <1>3, <1>4, ScanEndOnce, ReadingKeepsOnce, BeginKeepsOnce DEF ScanNext, ScanInv

\* The inductive invariant of the scans: a scan that runs alone sees every alert.
THEOREM ScanInductive == ScanSpec => []ScanInv
<1>1. QED
  BY ScanInitInv, ScanStep, PTL DEF ScanSpec

\* What the invariant says of the alerts themselves.
LEMMA OnceOfInv == ScanInv => OneAlertAtMost
<1> SUFFICES ASSUME ScanInv, ~ inaOverlap
             PROVE  /\ \A n \in InaNodes : \A a, b \in AlertsSince(n, inaLast[n]) : a = b
                    /\ \A s \in InaScans, now \in Times : Open(s) => ~ ScanFails(inaScan[s], now)
  BY DEF OneAlertAtMost
<1>1. ASSUME NEW s \in InaScans, NEW now \in Times, Open(s), NEW n \in Inactive(inaScan[s], now)
      PROVE  ~ (Cardinality(OutageAlerts(inaScan[s], n)) > 1)
  <2>1. n \in InaNodes
    BY ScanTypes DEF Inactive, ScanInv
  <2>2. \A a, b \in OutageAlerts(inaScan[s], n) : a = b
    BY <1>1, <2>1 DEF ScanInv, LoneScan
  <2>3. QED
    BY <2>2, AtMostOne
<1>2. QED
  BY <1>1 DEF ScanInv, OutageOnce, ScanFails

\* For every number of nodes and scans: until two scans overlap no outage has two alerts,
\* and so no scan fails on its search (services/alerts/inactivity.py).
THEOREM OutagesAreAnnouncedOnce == ScanSpec => []OneAlertAtMost
<1>1. QED
  BY ScanInductive, OnceOfInv, PTL

-------------------------------------------------------------------------------

\* Every set of naturals that is not empty has a least element: they are well founded.
LEMMA LeastNatural ==
  ASSUME NEW S, S \subseteq Nat, S # {}
  PROVE  \E x \in S : \A y \in S : x <= y
<1> DEFINE Less == OpToRel(<, Nat)
<1>1. IsWellFoundedOn(Less, Nat)
  BY NatLessThanWellFounded
<1>2. \A x, y \in Nat : <<x, y>> \in Less <=> x < y
  BY DEF OpToRel
<1> HIDE DEF Less
<1>3. \E x \in S : \A y \in S : ~ (<<y, x>> \in Less)
  BY ONLY <1>1, S \subseteq Nat, S # {}, WFMin
<1>4. ASSUME NEW x \in S, NEW y \in S, ~ (<<y, x>> \in Less)
      PROVE  x <= y
  <2>1. x \in Nat /\ y \in Nat
    OBVIOUS
  <2>2. ~ (y < x)
    BY <1>2, <1>4, <2>1
  <2>3. QED
    BY <2>1, <2>2
<1>5. QED
  BY <1>3, <1>4

\* The oldest alert of a batch, the first area of a run: Min is in the set and below all.
LEMMA MinIsLeast ==
  ASSUME NEW S, S \subseteq Nat, S # {}
  PROVE  Min(S) \in S /\ \A y \in S : Min(S) <= y
  BY LeastNatural DEF Min

\* The alerts that are older than one: finitely many, and more of them the younger it is.
Older(alerts, a) == {b \in alerts : b < a}

\* The alerts before a given one are finitely many, and more of them are before a later one.
LEMMA OlderAlerts ==
  ASSUME NEW alerts, alerts \subseteq Nat, NEW a \in alerts
  PROVE  /\ a \notin Older(alerts, a)
         /\ IsFiniteSet(Older(alerts, a)) /\ Cardinality(Older(alerts, a)) \in Nat
         /\ \A c \in alerts : c <= a => c \in Older(alerts, a) \cup {a}
         /\ \A c \in alerts :
              a < c => Cardinality(Older(alerts, a)) < Cardinality(Older(alerts, c))
<1>1. \A c \in alerts : c \in Nat
  OBVIOUS
<1>2. ASSUME NEW c \in alerts
      PROVE  IsFiniteSet(Older(alerts, c)) /\ Cardinality(Older(alerts, c)) \in Nat
  <2>1. c \in Nat /\ Older(alerts, c) \in SUBSET Nat
    BY <1>1 DEF Older
  <2>2. \A b \in Older(alerts, c) : b <= c
    BY <1>1, <2>1 DEF Older
  <2>3. IsFiniteSet(Older(alerts, c))
    BY <2>1, <2>2, FS_BoundedSetOfNaturals
  <2>4. QED
    BY <2>3, FS_CardinalityType
<1>3. ASSUME NEW c \in alerts, a < c
      PROVE  Cardinality(Older(alerts, a)) < Cardinality(Older(alerts, c))
  <2>1. \A b \in alerts : b < a => b < c
    BY <1>1, <1>3
  <2>2. Older(alerts, a) \cup {a} \in SUBSET Older(alerts, c)
    BY <1>3, <2>1 DEF Older
  <2>3. a \notin Older(alerts, a)
    BY <1>1 DEF Older
  <2>4. Cardinality(Older(alerts, a) \cup {a}) = Cardinality(Older(alerts, a)) + 1
    BY <1>2, <2>3, FS_AddElement
  <2>5. Cardinality(Older(alerts, a) \cup {a}) <= Cardinality(Older(alerts, c))
    BY <1>2, <2>2, FS_Subset
  <2>6. QED
    BY <1>2, <2>4, <2>5
<1>4. \A c \in alerts : c <= a => c = a \/ c < a
  BY <1>1
<1>5. a \notin Older(alerts, a)
  BY <1>1 DEF Older
<1>6. QED
  BY <1>2, <1>3, <1>4, <1>5 DEF Older

\* The oldest alerts are no more than the limit: the youngest of them has fewer than the
\* limit before it, and all the others are before it.
LEMMA OldestWithinLimit ==
  ASSUME NEW alerts, alerts \subseteq Nat
  PROVE  /\ IsFiniteSet(Oldest(alerts)) /\ Cardinality(Oldest(alerts)) \in Nat
         /\ Cardinality(Oldest(alerts)) <= DisLimit
<1> DEFINE Rank(a) == Cardinality(Older(alerts, a))
<1>1. DisLimit \in Nat \ {0}
  BY DispatchConstants
<1>2. \A a \in Oldest(alerts) : a \in alerts /\ a \in Nat /\ Rank(a) \in Nat /\ Rank(a) < DisLimit
  BY OlderAlerts DEF Oldest, Older
<1>3. CASE Oldest(alerts) = {}
  BY <1>1, <1>3, FS_EmptySet
<1>4. CASE Oldest(alerts) # {}
  <2> DEFINE Gaps == {DisLimit - Rank(a) : a \in Oldest(alerts)}
  <2>1. \A a \in Oldest(alerts) : DisLimit - Rank(a) \in Nat
    <3> HIDE DEF Rank
    <3>1. QED
      BY <1>1, <1>2
  <2>2. Gaps \subseteq Nat /\ Gaps # {}
    BY <1>4, <2>1
  <2>3. PICK g \in Gaps : \A h \in Gaps : g <= h
    BY <2>2, LeastNatural
  <2>4. PICK a \in Oldest(alerts) : \A b \in Oldest(alerts) : DisLimit - Rank(a) <= DisLimit - Rank(b)
    BY <2>3
  <2>5. \A b \in Oldest(alerts) : ~ (Rank(a) < Rank(b))
    <3> HIDE DEF Rank
    <3>1. QED
      BY <1>1, <1>2, <2>4
  <2>6. \A b \in Oldest(alerts) : ~ (a < b)
    BY <1>2, <2>5, OlderAlerts
  <2>7. \A b \in Oldest(alerts) : b <= a
    BY <1>2, <2>6
  <2>8. Oldest(alerts) \in SUBSET (Older(alerts, a) \cup {a})
    BY <1>2, <2>7, OlderAlerts
  <2>9. /\ IsFiniteSet(Older(alerts, a) \cup {a})
        /\ Cardinality(Older(alerts, a) \cup {a}) = Rank(a) + 1
    BY <1>2, OlderAlerts, FS_AddElement
  <2>10. /\ IsFiniteSet(Oldest(alerts))
         /\ Cardinality(Oldest(alerts)) <= Rank(a) + 1
    BY <2>8, <2>9, FS_Subset
  <2>11. Cardinality(Oldest(alerts)) \in Nat
    BY <2>10, FS_CardinalityType
  <2> HIDE DEF Rank
  <2>12. QED
    BY <1>1, <1>2, <2>10, <2>11
<1>5. QED
  BY <1>3, <1>4

\* What a dispatch has to try is finite and within the limit.
BatchesWithinLimit ==
  \A r \in DisRuns :
    /\ IsFiniteSet(disRun[r].batch) /\ Cardinality(disRun[r].batch) \in Nat
    /\ Cardinality(disRun[r].batch) <= DisLimit

\* A dispatcher that is the only one knows the marks, and sends none of them.
LoneDispatcherKnows ==
  (\A r, s \in DisRuns : r = s) =>
    \A r \in DisRuns, a \in DisAlerts :
      /\ disRun[r].open => disRun[r].seen = disMarked
      /\ disRun[r].sent[a] \cap disRun[r].seen[a] = {}
      /\ ~ disRun[r].open => disRun[r].sent[a] = {}

DispatchInv == DispatchTypeOK /\ BatchesWithinLimit /\ LoneDispatcherKnows

RunRecord == [open : BOOLEAN, batch : SUBSET DisAlerts, reach : Marks, seen : Marks, sent : Marks]

\* Every step keeps the types: the alert that is tried is one of the batch.
LEMMA DispatchStepTyped ==
  ASSUME DispatchTypeOK, [DispatchNext]_disVars
  PROVE  DispatchTypeOK'
<1>1. NoMarks \in Marks /\ NoRun \in RunRecord
  BY DEF NoMarks, Marks, NoRun, RunRecord
<1>2. /\ disReach \in Marks /\ disMarked \in Marks /\ disUpsets \in 0..DisMaxUpsets
      /\ disRun \in [DisRuns -> RunRecord]
  BY DEF DispatchTypeOK, RunRecord
<1> DEFINE Typed == /\ disReach \in Marks /\ disMarked \in Marks /\ disUpsets \in 0..DisMaxUpsets
                    /\ disRun \in [DisRuns -> RunRecord]
<1>3. SUFFICES Typed'
  BY DEF DispatchTypeOK, RunRecord
<1>4. disUpsets < DisMaxUpsets => disUpsets + 1 \in 0..DisMaxUpsets
  BY <1>2, DispatchConstants
<1>5. ASSUME NEW a \in DisAlerts, NEW channels \in SUBSET DisChannels, ContactsChange(a, channels)
      PROVE  Typed'
  BY <1>2, <1>4, <1>5 DEF ContactsChange, Marks
<1>6. ASSUME NEW r \in DisRuns, BeginDispatch(r)
      PROVE  Typed'
  <2>1. Oldest(PendingAlerts) \subseteq DisAlerts
    BY DEF Oldest, PendingAlerts
  <2>2. [NoRun EXCEPT !.open = TRUE, !.batch = Oldest(PendingAlerts),
                      !.reach = disReach, !.seen = disMarked] \in RunRecord
    BY <1>1, <1>2, <2>1 DEF RunRecord
  <2>3. QED
    BY <1>2, <1>6, <2>2 DEF BeginDispatch
<1>7. ASSUME NEW r \in DisRuns, CommitMarks(r) \/ DispatchLost(r)
      PROVE  Typed'
  <2>1. [a \in DisAlerts |-> disMarked[a] \cup disRun[r].sent[a]] \in Marks
    BY <1>2 DEF Marks, RunRecord
  <2>2. QED
    BY <1>1, <1>2, <1>4, <1>7, <2>1 DEF CommitMarks, DispatchLost
<1>8. ASSUME NEW r \in DisRuns, NEW delivered \in SUBSET DisChannels, TryAlert(r, delivered)
      PROVE  Typed'
  <2> DEFINE run == disRun[r]
             a == Min(run.batch)
  <2>1. run \in RunRecord /\ run.batch # {}
    BY <1>2, <1>8 DEF TryAlert
  <2>2. a \in DisAlerts
    BY <2>1, MinIsLeast, DispatchConstants DEF RunRecord
  <2> HIDE DEF a
  <2>3. [run EXCEPT !.batch = LeftAfter(@, a, delivered), !.sent[a] = delivered] \in RunRecord
    BY <2>1, <2>2 DEF RunRecord, Marks, LeftAfter
  <2>4. disRun' = [disRun EXCEPT ![r] = [run EXCEPT !.batch = LeftAfter(@, a, delivered),
                                                    !.sent[a] = delivered]]
    BY <1>2, <1>8 DEF TryAlert, a
  <2>5. QED
    BY <1>2, <1>8, <2>3, <2>4 DEF TryAlert
<1>9. CASE UNCHANGED disVars
  BY <1>2, <1>9 DEF disVars
<1>10. QED
  BY <1>5, <1>6, <1>7, <1>8, <1>9 DEF DispatchNext

\* No dispatch runs and nothing is marked at the start.
LEMMA DispatchInitInv ==
  ASSUME DispatchInit
  PROVE  DispatchInv
<1>1. NoMarks \in Marks /\ NoRun \in RunRecord
  BY DEF NoMarks, Marks, NoRun, RunRecord
<1>2. DispatchTypeOK
  BY <1>1, DispatchConstants DEF DispatchInit, DispatchTypeOK, Marks, RunRecord
<1>3. \A r \in DisRuns : disRun[r] = NoRun
  BY DEF DispatchInit
<1>4. BatchesWithinLimit
  BY <1>3, FS_EmptySet, DispatchConstants DEF BatchesWithinLimit, NoRun
<1>5. LoneDispatcherKnows
  BY <1>3 DEF LoneDispatcherKnows, NoRun, NoMarks
<1>6. QED
  BY <1>2, <1>4, <1>5 DEF DispatchInv

\* No step makes a batch longer than the limit: a dispatch takes the oldest alerts, and
\* an attempt only takes one of them away.
LEMMA DispatchStepLimits ==
  ASSUME DispatchTypeOK, BatchesWithinLimit, [DispatchNext]_disVars
  PROVE  BatchesWithinLimit'
<1> DEFINE Fits(run) == /\ IsFiniteSet(run.batch) /\ Cardinality(run.batch) \in Nat
                        /\ Cardinality(run.batch) <= DisLimit
<1>1. disRun \in [DisRuns -> RunRecord]
  BY DEF DispatchTypeOK, RunRecord
<1>2. \A s \in DisRuns : Fits(disRun[s])
  BY DEF BatchesWithinLimit
<1>3. SUFFICES \A s \in DisRuns : Fits(disRun'[s])
  BY DEF BatchesWithinLimit
<1>4. Fits(NoRun)
  BY FS_EmptySet, DispatchConstants DEF NoRun
<1>5. ASSUME NEW r \in DisRuns, NEW run, Fits(run), disRun' = [disRun EXCEPT ![r] = run]
      PROVE  \A s \in DisRuns : Fits(disRun'[s])
  BY <1>1, <1>2, <1>5
<1>6. ASSUME NEW r \in DisRuns, BeginDispatch(r)
      PROVE  \A s \in DisRuns : Fits(disRun'[s])
  <2> DEFINE run == [NoRun EXCEPT !.open = TRUE, !.batch = Oldest(PendingAlerts),
                                  !.reach = disReach, !.seen = disMarked]
  <2>1. PendingAlerts \subseteq Nat
    BY DispatchConstants DEF PendingAlerts
  <2>2. run.batch = Oldest(PendingAlerts)
    BY DEF NoRun
  <2>3. Fits(run)
    BY <2>1, <2>2, OldestWithinLimit
  <2>4. disRun' = [disRun EXCEPT ![r] = run]
    BY <1>6 DEF BeginDispatch
  <2> HIDE DEF run, Fits
  <2>5. QED
    BY <1>5, <2>3, <2>4
<1>7. ASSUME NEW r \in DisRuns, CommitMarks(r) \/ DispatchLost(r)
      PROVE  \A s \in DisRuns : Fits(disRun'[s])
  <2>1. disRun' = [disRun EXCEPT ![r] = NoRun]
    BY <1>7 DEF CommitMarks, DispatchLost
  <2> HIDE DEF Fits
  <2>2. QED
    BY <1>4, <1>5, <2>1
<1>8. ASSUME NEW r \in DisRuns, NEW delivered \in SUBSET DisChannels, TryAlert(r, delivered)
      PROVE  \A s \in DisRuns : Fits(disRun'[s])
  <2> DEFINE batch == disRun[r].batch
             a == Min(batch)
  <2>1. batch \subseteq DisAlerts /\ batch # {}
    BY <1>1, <1>8 DEF TryAlert, RunRecord
  <2>2. a \in batch
    BY <2>1, MinIsLeast, DispatchConstants
  <2>3. IsFiniteSet(batch) /\ Cardinality(batch) \in Nat /\ Cardinality(batch) <= DisLimit
    BY <1>2
  <2> HIDE DEF a
  <2>4. IsFiniteSet(batch \ {a}) /\ Cardinality(batch \ {a}) = Cardinality(batch) - 1
    BY <2>2, <2>3, FS_RemoveElement
  <2>5. Cardinality(batch \ {a}) \in Nat
    BY <2>4, FS_CardinalityType
  <2>6. Cardinality(batch \ {a}) <= DisLimit
    <3> HIDE DEF batch
    <3>1. QED
      BY <2>3, <2>4, <2>5, DispatchConstants
  <2>7. disRun'[r].batch = batch \ {a}
    BY <1>1, <1>8 DEF TryAlert, LeftAfter, RunRecord, a
  <2>8. Fits(disRun'[r])
    BY <2>4, <2>5, <2>6, <2>7
  <2>9. \A s \in DisRuns : s # r => disRun'[s] = disRun[s]
    BY <1>1, <1>8 DEF TryAlert
  <2>10. QED
    BY <1>2, <2>8, <2>9
<1>9. CASE UNCHANGED disRun
  BY <1>2, <1>9
<1>10. QED
  BY <1>6, <1>7, <1>8, <1>9 DEF DispatchNext, ContactsChange, disVars

\* No step leaves a lone dispatcher with marks that are not those of the store: it alone
\* writes them, and it sends by no channel it saw marked.
LEMMA DispatchStepKnows ==
  ASSUME DispatchTypeOK, LoneDispatcherKnows, [DispatchNext]_disVars
  PROVE  LoneDispatcherKnows'
<1> DEFINE Knows(run, marked) ==
             \A a \in DisAlerts :
               /\ run.open => run.seen = marked
               /\ run.sent[a] \cap run.seen[a] = {}
               /\ ~ run.open => run.sent[a] = {}
<1>1. disRun \in [DisRuns -> RunRecord]
  BY DEF DispatchTypeOK, RunRecord
<1>2. SUFFICES ASSUME \A r, s \in DisRuns : r = s, NEW s \in DisRuns
               PROVE  Knows(disRun'[s], disMarked')
  BY DEF LoneDispatcherKnows
<1>3. Knows(disRun[s], disMarked)
  BY <1>2 DEF LoneDispatcherKnows
<1>4. \A marked : Knows(NoRun, marked)
  BY DEF NoRun, NoMarks
<1>5. ASSUME BeginDispatch(s)
      PROVE  Knows(disRun'[s], disMarked')
  <2>1. /\ disMarked' = disMarked /\ disRun'[s].open
        /\ disRun'[s].seen = disMarked /\ disRun'[s].sent = NoMarks
    BY <1>1, <1>5 DEF BeginDispatch, NoRun
  <2>2. QED
    BY <2>1 DEF NoMarks
<1>6. ASSUME CommitMarks(s) \/ DispatchLost(s)
      PROVE  Knows(disRun'[s], disMarked')
  <2>1. disRun'[s] = NoRun
    BY <1>1, <1>6 DEF CommitMarks, DispatchLost
  <2>2. QED
    BY <1>4, <2>1
<1>7. ASSUME NEW delivered \in SUBSET DisChannels, TryAlert(s, delivered)
      PROVE  Knows(disRun'[s], disMarked')
  <2> DEFINE a == Min(disRun[s].batch)
  <2>1. /\ disRun[s].open /\ disMarked' = disMarked
        /\ delivered \cap disRun[s].seen[a] = {}
        /\ disRun'[s].open /\ disRun'[s].seen = disRun[s].seen
        /\ disRun'[s].sent = [disRun[s].sent EXCEPT ![a] = delivered]
    BY <1>1, <1>7 DEF TryAlert, ChannelsLeft, RunRecord
  <2>2. disRun[s].sent \in Marks
    BY <1>1 DEF RunRecord
  <2> HIDE DEF a
  <2>3. \A b \in DisAlerts : disRun'[s].sent[b] = IF b = a THEN delivered ELSE disRun[s].sent[b]
    BY <2>1, <2>2 DEF Marks
  <2>4. QED
    BY <1>3, <2>1, <2>3
<1>8. CASE UNCHANGED <<disRun, disMarked>>
  BY <1>3, <1>8
<1>9. QED
  BY <1>2, <1>5, <1>6, <1>7, <1>8 DEF DispatchNext, ContactsChange, disVars

\* The invariant of the dispatches is kept by each of their steps.
LEMMA DispatchStep ==
  ASSUME DispatchInv, [DispatchNext]_disVars
  PROVE  DispatchInv'
BY DispatchStepTyped, DispatchStepLimits, DispatchStepKnows DEF DispatchInv

\* What the invariant says of a dispatch's batch and of what it sends.
LEMMA SendsOfInv ==
  ASSUME DispatchInv
  PROVE  SendsOnceWithinLimit
<1>1. disRun \in [DisRuns -> RunRecord]
  BY DEF DispatchInv, DispatchTypeOK, RunRecord
<1>2. \A r \in DisRuns : Cardinality(disRun[r].batch) <= DisLimit
  BY DEF DispatchInv, BatchesWithinLimit
<1>3. ASSUME \A r, s \in DisRuns : r = s, NEW r \in DisRuns, NEW a \in DisAlerts
      PROVE  disRun[r].sent[a] \cap disMarked[a] = {}
  BY <1>1, <1>3 DEF DispatchInv, LoneDispatcherKnows, RunRecord
<1>4. QED
  BY <1>2, <1>3 DEF SendsOnceWithinLimit

\* The invariant of the dispatches holds for every number of alerts, channels and
\* requests, and every limit.
THEOREM DispatchInductive == DispatchSpec => []DispatchInv
BY DispatchInitInv, DispatchStep, PTL DEF DispatchSpec

\* A dispatch takes no more than the limit, and the only dispatcher never sends by a
\* channel what is marked as sent by it (notification_dispatch.py).
THEOREM MarkedAlertsAreNotSentAgain == DispatchSpec => []SendsOnceWithinLimit
BY DispatchInductive, SendsOfInv, PTL

-------------------------------------------------------------------------------

ReportRow == [live : 0..RepMaxRows, completed : BOOLEAN, failed : BOOLEAN]
ReportRun == [at : {"idle", "called", "look", "insert", "write"}, day : Days,
              left : SUBSET RepAreas, area : SUBSET RepAreas]
Scheduler == [enabled : BOOLEAN, last : 0..RepMaxDay, key : Days, awaits : RepRuns \cup {NoReportRun}]

\* A run has an area in hand only between looking and the end of its writing.
AreaInHand == \A r \in RepRuns : repRun[r].at \in {"idle", "called", "look"} => repRun[r].area = {}

\* Every run that is writing has its live row; and if no run was cut off, the live rows of
\* an area without a completed report are the ones being written.
RowsOfWriters ==
  \A d \in Days, a \in RepAreas :
    /\ Cardinality(Writers(d, a)) <= repRows[d][a].live
    /\ ~ repStopped /\ ~ repRows[d][a].completed =>
         repRows[d][a].live = Cardinality(Writers(d, a))

\* Unless two looked at the same moment: at most one run of a day is about to insert, its
\* area has no live row, and no area has two.
OneInserts ==
  ~ repRaced =>
    /\ \A d \in Days, a \in RepAreas : repRows[d][a].live <= 1
    /\ \A r \in RepRuns : repRun[r].at = "insert" =>
         /\ \A a \in repRun[r].area : repRows[repRun[r].day][a].live = 0
         /\ \A s \in RepRuns :
              repRun[s].at = "insert" /\ repRun[s].day = repRun[r].day => s = r

\* The day on which a call was made is not after that of its run, and none is after today.
CallsInOrder ==
  /\ repSched.last <= repDay /\ repSched.key <= repDay
  /\ \A r \in RepRuns :
       /\ repRun[r].day <= repDay
       /\ repSched.awaits = r /\ repRun[r].at # "called" => repSched.key <= repRun[r].day

\* What a run has passed by is handled, and so is every area of the day that is done.
PassedIsHandled ==
  \A r \in RepRuns, a \in RepAreas :
    repRun[r].at \notin {"idle", "called"} /\ a \notin repRun[r].left \cup repRun[r].area =>
      Handled(repRun[r].day, a)
DoneIsHandled ==
  repSched.last # 0 => \E day \in DoneDays : \A a \in RepAreas : Handled(day, a)

ReportsInv ==
  /\ ReportsTypeOK /\ AreaInHand /\ RowsOfWriters /\ OneInserts
  /\ CallsInOrder /\ PassedIsHandled /\ DoneIsHandled

\* What the types say of a run and of a row.
LEMMA ReportTypes ==
  ASSUME ReportsTypeOK
  PROVE  /\ repRun \in [RepRuns -> ReportRun]
         /\ repRows \in [Days -> [RepAreas -> ReportRow]]
         /\ repSched \in Scheduler /\ repDay \in Days /\ repRaced \in BOOLEAN
         /\ repCrossed \in BOOLEAN /\ repStopped \in BOOLEAN /\ repUpsets \in 0..RepMaxUpsets
BY DEF ReportsTypeOK, ReportRun, ReportRow, Scheduler

\* The runs are finitely many, so those that write an area are, and can be counted.
LEMMA WritersCounted ==
  ASSUME NEW d, NEW a
  PROVE  /\ IsFiniteSet(Writers(d, a)) /\ Cardinality(Writers(d, a)) \in Nat
         /\ Writers(d, a) = {} <=> Cardinality(Writers(d, a)) = 0
<1>1. Writers(d, a) \in SUBSET RepRuns /\ IsFiniteSet(RepRuns)
  BY ReportConstants DEF Writers
<1>2. IsFiniteSet(Writers(d, a))
  BY <1>1, FS_Subset
<1>3. QED
  BY <1>2, FS_CardinalityType, FS_EmptySet

\* As many rows of an area as there are runs, which are finitely many.
LEMMA RepMaxRowsNat ==
  RepMaxRows \in Nat \ {0} /\ RepMaxDay \in Nat \ {0} /\ RepMaxUpsets \in Nat
BY ReportConstants, FS_CardinalityType, FS_EmptySet DEF RepMaxRows

\* What an insertion and a writing do to the rows: only those of the areas in hand change.
LEMMA InsertedRows ==
  ASSUME ReportsTypeOK, NEW r \in RepRuns, Insert(r)
  PROVE  \A d \in Days, a \in RepAreas :
           repRows'[d][a] = IF d = repRun[r].day /\ a \in repRun[r].area
                            THEN RowBegun(repRows[d][a]) ELSE repRows[d][a]
<1>1. repRun[r].day \in Days /\ repRows \in [Days -> [RepAreas -> ReportRow]]
  BY ReportTypes DEF ReportRun
<1>2. QED
  BY <1>1 DEF Insert

\* A writing ends the rows of the areas in hand and no other.
LEMMA WrittenRows ==
  ASSUME ReportsTypeOK, NEW r \in RepRuns, NEW ok \in BOOLEAN, Write(r, ok)
  PROVE  \A d \in Days, a \in RepAreas :
           repRows'[d][a] = IF d = repRun[r].day /\ a \in repRun[r].area
                            THEN RowEnded(repRows[d][a], ok) ELSE repRows[d][a]
<1>1. repRun[r].day \in Days /\ repRows \in [Days -> [RepAreas -> ReportRow]]
  BY ReportTypes DEF ReportRun
<1>2. QED
  BY <1>1 DEF Write

\* The others keep what they are doing.
OthersKept(r) == \A s \in RepRuns \ {r} : repRun'[s] = repRun[s]

\* A call is made, or arrives.
Begins(r) == ScheduledRun(r) \/ RunArrives(r) \/ ManualRun(r)

\* Where a run is after each of its steps.
LEMMA RunBegins ==
  ASSUME ReportsTypeOK, NEW r \in RepRuns, Begins(r)
  PROVE  /\ OthersKept(r) /\ repRun' \in [RepRuns -> ReportRun]
         /\ repRun[r].at \in {"idle", "called"} /\ repRun'[r].at \in {"called", "look"}
         /\ repRun'[r].at = "look" => repRun'[r].left = RepAreas
         /\ repRun'[r].area = {} /\ repRun'[r].day \in {1, repDay}
         /\ repRun'[r].at = "look" => repRun'[r].day = repDay
         /\ UNCHANGED <<repRows, repRaced, repStopped>>
<1>1. Called = [at |-> "called", day |-> 1, left |-> {}, area |-> {}] /\ Called \in ReportRun
  BY RepMaxRowsNat DEF Called, Idle, ReportRun, Days
<1>2. CASE ScheduledRun(r)
  BY <1>1, <1>2, ReportTypes DEF ScheduledRun, OthersKept
<1>3. CASE RunArrives(r) \/ ManualRun(r)
  BY <1>3, ReportTypes DEF RunArrives, ManualRun, Started, OthersKept, ReportRun
<1>4. QED
  BY <1>2, <1>3 DEF Begins

\* A run that inserts goes on to write the same area.
LEMMA RunInserts ==
  ASSUME ReportsTypeOK, NEW r \in RepRuns, Insert(r)
  PROVE  /\ OthersKept(r) /\ repRun' \in [RepRuns -> ReportRun]
         /\ repRun'[r].at = "write" /\ repRun'[r].day = repRun[r].day
         /\ repRun'[r].left = repRun[r].left /\ repRun'[r].area = repRun[r].area
<1>1. repRun' = [repRun EXCEPT ![r] = [repRun[r] EXCEPT !.at = "write"]]
  BY ReportTypes DEF Insert
<1>2. QED
  BY <1>1, ReportTypes DEF OthersKept, ReportRun

\* A run that has written looks for the next area.
LEMMA RunWrites ==
  ASSUME ReportsTypeOK, NEW r \in RepRuns, NEW ok \in BOOLEAN, Write(r, ok)
  PROVE  /\ OthersKept(r) /\ repRun' \in [RepRuns -> ReportRun]
         /\ repRun'[r].at = "look" /\ repRun'[r].day = repRun[r].day
         /\ repRun'[r].left = repRun[r].left /\ repRun'[r].area = {}
<1>1. repRun' = [repRun EXCEPT ![r] = [repRun[r] EXCEPT !.at = "look", !.area = {}]]
  BY ReportTypes DEF Write
<1>2. QED
  BY <1>1, ReportTypes DEF OthersKept, ReportRun

\* A run that ends has nothing in hand.
LEMMA RunEnds ==
  ASSUME ReportsTypeOK, NEW r \in RepRuns, RunAnswered(r) \/ RunStopped(r)
  PROVE  /\ OthersKept(r) /\ repRun' \in [RepRuns -> ReportRun] /\ repRun'[r] = Idle
<1>1. Idle \in ReportRun
  BY RepMaxRowsNat DEF Idle, ReportRun, Days
<1>2. QED
  BY <1>1, ReportTypes DEF RunAnswered, RunStopped, OthersKept

\* A look takes the first area of those that have no live row.
LEMMA RunLooks ==
  ASSUME ReportsTypeOK, NEW r \in RepRuns, Look(r)
  PROVE  /\ OthersKept(r) /\ repRun' \in [RepRuns -> ReportRun]
         /\ repRun'[r].at = "insert" /\ repRun'[r].day = repRun[r].day
         /\ \E a \in RepAreas :
              /\ a \in repRun[r].left /\ repRows[repRun[r].day][a].live = 0
              /\ repRun'[r].area = {a} /\ repRun'[r].left = {b \in repRun[r].left : b > a}
              /\ \A b \in repRun[r].left \ (repRun'[r].left \cup {a}) :
                   repRows[repRun[r].day][b].live > 0
<1> DEFINE run == repRun[r]
           missing == {b \in run.left : ~ ReportExistsForRange(run.day, b)}
           a == Min(missing)
           later == {b \in run.left : b > a}
<1>1. run \in ReportRun /\ run.at = "look" /\ missing # {}
  BY ReportTypes DEF Look
<1>2. missing \subseteq RepAreas /\ RepAreas \subseteq Nat
  BY <1>1, ReportConstants DEF ReportRun
<1>3. a \in missing /\ \A b \in missing : a <= b
  <2> HIDE DEF missing
  <2>1. QED
    BY <1>1, <1>2, MinIsLeast
<1>4. repRun' = [repRun EXCEPT ![r] = [run EXCEPT !.at = "insert", !.area = {a}, !.left = later]]
  BY ReportTypes DEF Look
<1>5. \A b \in RepAreas : repRows[run.day][b].live \in Nat
  BY <1>1, ReportTypes, RepMaxRowsNat DEF ReportRun, ReportRow
<1> HIDE DEF a
<1>6. a \in RepAreas /\ a \in run.left /\ repRows[run.day][a].live = 0
  <2>1. a \in RepAreas /\ a \in run.left /\ ~ (repRows[run.day][a].live > 0)
    BY <1>2, <1>3 DEF ReportExistsForRange
  <2>2. repRows[run.day][a].live \in Nat
    BY <1>5, <2>1
  <2>3. QED
    BY <2>1, <2>2
<1>7. ASSUME NEW b \in run.left, b \notin later \cup {a}
      PROVE  repRows[run.day][b].live > 0
  <2>1. b \in Nat /\ a \in Nat /\ b \in RepAreas
    BY <1>1, <1>2, <1>6 DEF ReportRun
  <2>2. b < a
    BY <1>7, <2>1
  <2>3. b \notin missing
    BY <1>3, <2>1, <2>2
  <2>4. QED
    BY <2>3 DEF ReportExistsForRange
<1>8. later \subseteq RepAreas /\ later = {b \in run.left : b > a}
  BY <1>1 DEF ReportRun
<1> HIDE DEF later
<1>9. /\ repRun'[r].at = "insert" /\ repRun'[r].day = run.day
      /\ repRun'[r].area = {a} /\ repRun'[r].left = later
      /\ OthersKept(r) /\ repRun' \in [RepRuns -> ReportRun]
  BY <1>1, <1>4, <1>6, <1>8, ReportTypes DEF ReportRun, OthersKept
<1>10. QED
  BY <1>6, <1>7, <1>8, <1>9

\* A step of one run: the writers of an area only change by that run's coming or going.
LEMMA WritersOfStep ==
  ASSUME NEW r \in RepRuns, OthersKept(r), NEW d, NEW a
  PROVE  Writers(d, a)' =
           IF repRun'[r].at = "write" /\ repRun'[r].day = d /\ a \in repRun'[r].area
           THEN Writers(d, a) \cup {r} ELSE Writers(d, a) \ {r}
BY DEF OthersKept, Writers

\* A step of a run that neither begins nor ends a writing leaves the writers as they are.
LEMMA SameWriters ==
  ASSUME NEW r \in RepRuns, OthersKept(r), repRun[r].at # "write", repRun'[r].at # "write",
         NEW d, NEW a
  PROVE  Writers(d, a)' = Writers(d, a)
BY DEF OthersKept, Writers

\* No day becomes done, but one may be forgotten or grow old.
DoneKept ==
  repSched'.last \in {0, repSched.last} /\ repCrossed' = repCrossed /\ repDay' >= repDay

\* The steps that concern the reports; in all others they and their runs stay.
ReportStepKinds ==
  \/ UNCHANGED <<repRows, repRun, repRaced, repStopped>> /\ DoneKept
  \/ \E r \in RepRuns :
       \/ Begins(r) /\ DoneKept
       \/ Look(r) /\ DoneKept
       \/ Insert(r) /\ DoneKept
       \/ RunAnswered(r)
       \/ RunStopped(r) /\ DoneKept
       \/ \E ok \in BOOLEAN : Write(r, ok) /\ DoneKept

\* Every step is of one of these kinds.
LEMMA ReportSteps ==
  ASSUME ReportsTypeOK, [ReportsNext]_repVars
  PROVE  ReportStepKinds
<1>1. repSched \in Scheduler /\ repDay \in Nat
  BY ReportTypes, RepMaxRowsNat DEF Days
<1>2. UNCHANGED <<repSched, repCrossed, repDay>> => DoneKept
  BY <1>1 DEF DoneKept
<1>3. Unawaited(repSched).last = repSched.last
  BY <1>1 DEF Unawaited, Scheduler
<1>4. CASE SchedulerStarts \/ SchedulerRestarts \/ RunGivenUp
  <2>1. repSched'.last \in {0, repSched.last}
    BY <1>1, <1>3, <1>4 DEF SchedulerStarts, SchedulerRestarts, RunGivenUp, Scheduler, Unawaited
  <2>2. QED
    BY <1>1, <1>4, <2>1
    DEF SchedulerStarts, SchedulerRestarts, RunGivenUp, DoneKept, ReportStepKinds
<1>5. CASE Midnight \/ UNCHANGED repVars
  BY <1>1, <1>5 DEF Midnight, repVars, DoneKept, ReportStepKinds
<1>6. ASSUME NEW r \in RepRuns, ScheduledRun(r) \/ RunArrives(r) \/ ManualRun(r)
      PROVE  ReportStepKinds
  <2>1. repSched'.last = repSched.last /\ repCrossed' = repCrossed /\ repDay' = repDay
    BY <1>1, <1>6 DEF ScheduledRun, RunArrives, ManualRun, Started, Scheduler
  <2>2. QED
    BY <1>1, <1>6, <2>1 DEF Begins, DoneKept, ReportStepKinds
<1>7. ASSUME NEW r \in RepRuns, RunStopped(r)
      PROVE  ReportStepKinds
  <2>1. repSched'.last = repSched.last /\ repCrossed' = repCrossed /\ repDay' = repDay
    BY <1>3, <1>7 DEF RunStopped
  <2>2. QED
    BY <1>1, <1>7, <2>1 DEF DoneKept, ReportStepKinds
<1>8. ASSUME NEW r \in RepRuns, Look(r) \/ Insert(r) \/ \E ok \in BOOLEAN : Write(r, ok)
      PROVE  ReportStepKinds
  BY <1>2, <1>8 DEF Look, Insert, Write, ReportStepKinds
<1>9. QED
  BY <1>4, <1>5, <1>6, <1>7, <1>8 DEF ReportsNext, ReportStepKinds

\* The rows of a step are typed: none is counted beyond the bound, and a row that ends
\* without a report was live, since its writer is counted.
LEMMA ReportStepTyped ==
  ASSUME ReportsTypeOK, RowsOfWriters, [ReportsNext]_repVars
  PROVE  ReportsTypeOK'
<1> DEFINE Rows == [Days -> [RepAreas -> ReportRow]]
           Typed == /\ repDay \in Days /\ repRun \in [RepRuns -> ReportRun] /\ repSched \in Scheduler
                    /\ repRows \in Rows /\ repRaced \in BOOLEAN /\ repCrossed \in BOOLEAN
                    /\ repStopped \in BOOLEAN /\ repUpsets \in 0..RepMaxUpsets
<1>1. Typed
  BY ReportTypes
<1>2. SUFFICES Typed'
  BY DEF ReportsTypeOK, ReportRun, ReportRow, Scheduler
<1>3. (\A d \in Days : d \in 0..RepMaxDay) /\ 1 \in Days /\ 0 \in 0..RepMaxDay
  BY RepMaxRowsNat DEF Days
<1>14. Unawaited(repSched) \in Scheduler
  BY <1>1, <1>3 DEF Unawaited, Scheduler
<1>15. repUpsets < RepMaxUpsets => repUpsets + 1 \in 0..RepMaxUpsets
  BY <1>1, RepMaxRowsNat
<1>4. CASE SchedulerStarts \/ SchedulerRestarts \/ RunGivenUp
  <2>1. repSched' \in Scheduler
    BY <1>1, <1>3, <1>4, <1>14 DEF SchedulerStarts, SchedulerRestarts, RunGivenUp, Scheduler
  <2>2. QED
    BY <1>1, <1>4, <2>1 DEF SchedulerStarts, SchedulerRestarts, RunGivenUp
<1>5. CASE Midnight
  BY <1>1, <1>5, RepMaxRowsNat DEF Midnight, Days
<1>6. ASSUME NEW r \in RepRuns, ScheduledRun(r) \/ RunArrives(r) \/ ManualRun(r)
      PROVE  Typed'
  <2>1. repRun' \in [RepRuns -> ReportRun]
    BY <1>6, RunBegins DEF Begins
  <2>2. repSched' \in Scheduler
    BY <1>1, <1>6 DEF ScheduledRun, RunArrives, ManualRun, Started, Scheduler
  <2>3. QED
    BY <1>1, <1>6, <2>1, <2>2 DEF ScheduledRun, RunArrives, ManualRun, Started
<1>7. ASSUME NEW r \in RepRuns, Look(r)
      PROVE  Typed'
  BY <1>1, <1>7, RunLooks DEF Look
<1>8. ASSUME NEW r \in RepRuns, Insert(r)
      PROVE  Typed'
  <2>1. repRun[r].day \in Days /\ repRun[r].area \subseteq RepAreas
    BY <1>1 DEF ReportRun
  <2>2. ASSUME NEW a \in repRun[r].area
        PROVE  RowBegun(repRows[repRun[r].day][a]) \in ReportRow
    <3>1. repRows[repRun[r].day][a] \in ReportRow /\ repRows[repRun[r].day][a].live < RepMaxRows
      BY <1>1, <1>8, <2>1 DEF Insert
    <3>2. repRows[repRun[r].day][a].live + 1 \in 0..RepMaxRows
      BY <3>1, RepMaxRowsNat DEF ReportRow
    <3>3. QED
      BY <3>1, <3>2 DEF RowBegun, ReportRow
  <2>3. [a \in RepAreas |-> IF a \in repRun[r].area THEN RowBegun(repRows[repRun[r].day][a])
                            ELSE repRows[repRun[r].day][a]] \in [RepAreas -> ReportRow]
    BY <1>1, <2>1, <2>2
  <2>4. repRows' \in Rows
    BY <1>1, <1>8, <2>1, <2>3 DEF Insert
  <2>5. QED
    BY <1>1, <1>8, <2>4, RunInserts DEF Insert
<1>9. ASSUME NEW r \in RepRuns, NEW ok \in BOOLEAN, Write(r, ok)
      PROVE  Typed'
  <2> DEFINE day == repRun[r].day
  <2>1. day \in Days /\ repRun[r].area \subseteq RepAreas
    BY <1>1 DEF ReportRun
  <2>2. ASSUME NEW a \in repRun[r].area
        PROVE  RowEnded(repRows[day][a], ok) \in ReportRow
    <3>1. Writers(day, a) # {}
      BY <1>9 DEF Write, Writers
    <3>2. Cardinality(Writers(day, a)) \in Nat /\ Cardinality(Writers(day, a)) # 0
      BY <3>1, WritersCounted
    <3>3. repRows[day][a] \in ReportRow /\ Cardinality(Writers(day, a)) <= repRows[day][a].live
      BY <1>1, <2>1 DEF RowsOfWriters
    <3> HIDE DEF day
    <3>4. repRows[day][a].live - 1 \in 0..RepMaxRows
      BY <3>2, <3>3, RepMaxRowsNat DEF ReportRow
    <3>5. QED
      BY <3>3, <3>4 DEF RowEnded, ReportRow
  <2>3. [a \in RepAreas |-> IF a \in repRun[r].area THEN RowEnded(repRows[day][a], ok)
                            ELSE repRows[day][a]] \in [RepAreas -> ReportRow]
    BY <1>1, <2>1, <2>2
  <2>4. repRows' \in Rows
    BY <1>1, <1>9, <2>1, <2>3 DEF Write
  <2>5. repUpsets' \in 0..RepMaxUpsets
    BY <1>1, <1>9, <1>15 DEF Write
  <2>6. QED
    BY <1>1, <1>9, <2>4, <2>5, RunWrites DEF Write
<1>10. ASSUME NEW r \in RepRuns, RunAnswered(r) \/ RunStopped(r)
       PROVE  Typed'
  <2>1. repSched.key \in 0..RepMaxDay
    BY <1>1, <1>3 DEF Scheduler
  <2>2. repSched' \in Scheduler
    <3>1. [Unawaited(repSched) EXCEPT !.last = repSched.key] \in Scheduler
      BY <1>14, <2>1 DEF Scheduler
    <3>2. QED
      BY <1>1, <1>10, <1>14, <3>1 DEF RunAnswered, RunStopped
  <2>3. repCrossed' \in BOOLEAN /\ repUpsets' \in 0..RepMaxUpsets
    BY <1>1, <1>10, <1>15 DEF RunAnswered, RunStopped
  <2>4. QED
    BY <1>1, <1>10, <2>2, <2>3, RunEnds DEF RunAnswered, RunStopped
<1>11. CASE UNCHANGED repVars
  BY <1>1, <1>11 DEF repVars
<1>12. QED
  BY <1>4, <1>5, <1>6, <1>7, <1>8, <1>9, <1>10, <1>11 DEF ReportsNext

\* A run takes an area in hand when it looks, and lets go of it when it has written.
LEMMA ReportStepHands ==
  ASSUME ReportsTypeOK, AreaInHand, [ReportsNext]_repVars
  PROVE  AreaInHand'
<1>1. SUFFICES ASSUME NEW r \in RepRuns, OthersKept(r),
                      repRun'[r].at \in {"idle", "called", "look"} => repRun'[r].area = {}
               PROVE  AreaInHand'
  <2>1. UNCHANGED repRun => AreaInHand'
    BY DEF AreaInHand
  <2>2. \A r \in RepRuns :
          /\ Begins(r) \/ Look(r) \/ Insert(r) \/ RunAnswered(r) \/ RunStopped(r) => AreaInHand'
          /\ \A ok \in BOOLEAN : Write(r, ok) => AreaInHand'
    BY <1>1, RunBegins, RunLooks, RunInserts, RunWrites, RunEnds DEF Idle
  <2>3. QED
    BY <2>1, <2>2, ReportSteps DEF ReportStepKinds
<1>2. QED
  BY <1>1 DEF AreaInHand, OthersKept

\* The counts of the writers and of the live rows move together.
LEMMA ReportStepRows ==
  ASSUME ReportsTypeOK, RowsOfWriters, AreaInHand, [ReportsNext]_repVars
  PROVE  RowsOfWriters'
<1> DEFINE Counted(row, n, stopped) ==
             n <= row.live /\ (~ stopped /\ ~ row.completed => row.live = n)
<1>1. SUFFICES ASSUME NEW d \in Days, NEW a \in RepAreas
               PROVE  Counted(repRows'[d][a], Cardinality(Writers(d, a)'), repStopped')
  BY DEF RowsOfWriters
<1> DEFINE writers == Writers(d, a)
           row == repRows[d][a]
<1>2. Counted(row, Cardinality(writers), repStopped)
  BY <1>1 DEF RowsOfWriters
<1>3. row \in ReportRow /\ row.live \in Nat
  BY <1>1, ReportTypes, RepMaxRowsNat DEF ReportRow
<1>4. IsFiniteSet(writers) /\ Cardinality(writers) \in Nat
  BY WritersCounted
<1>5. CASE UNCHANGED <<repRows, repRun, repRaced, repStopped>>
  BY <1>2, <1>5 DEF Writers
<1>6. ASSUME NEW r \in RepRuns, Begins(r) \/ Look(r) \/ RunAnswered(r)
      PROVE  Counted(repRows'[d][a], Cardinality(Writers(d, a)'), repStopped')
  <2>1. OthersKept(r) /\ repRun'[r].at # "write"
    BY <1>6, RunBegins, RunLooks, RunEnds DEF Idle
  <2>2. Writers(d, a)' = writers
    <3>1. repRun[r].at # "write"
      BY <1>6, RunBegins DEF Look, RunAnswered
    <3>2. QED
      BY <2>1, <3>1, SameWriters
  <2>3. repRows' = repRows /\ repStopped' = repStopped
    BY <1>6, RunBegins DEF Look, RunAnswered
  <2>4. QED
    BY <1>2, <2>2, <2>3
<1>7. ASSUME NEW r \in RepRuns, Insert(r)
      PROVE  Counted(repRows'[d][a], Cardinality(Writers(d, a)'), repStopped')
  <2>1. /\ OthersKept(r) /\ repRun[r].at # "write" /\ repRun'[r].at = "write"
        /\ repRun'[r].day = repRun[r].day /\ repRun'[r].area = repRun[r].area
    BY <1>7, RunInserts DEF Insert
  <2>2. r \notin writers /\ repStopped' = repStopped
    BY <1>7, <2>1 DEF Writers, Insert
  <2>3. CASE d = repRun[r].day /\ a \in repRun[r].area
    <3>1. Writers(d, a)' = writers \cup {r}
      BY <2>1, <2>3, WritersOfStep
    <3>2. Cardinality(Writers(d, a)') = Cardinality(writers) + 1
      BY <1>4, <2>2, <3>1, FS_AddElement
    <3>3. repRows'[d][a] = RowBegun(row)
      BY <1>7, <2>3, InsertedRows
    <3>4. repRows'[d][a].live = row.live + 1 /\ repRows'[d][a].completed = row.completed
      BY <1>3, <3>3 DEF RowBegun, ReportRow
    <3> HIDE DEF row, writers
    <3>5. QED
      BY <1>2, <1>3, <1>4, <2>2, <3>2, <3>4
  <2>4. CASE ~ (d = repRun[r].day /\ a \in repRun[r].area)
    <3>1. Writers(d, a)' = writers
      BY <2>1, <2>2, <2>4, WritersOfStep
    <3>2. repRows'[d][a] = row
      BY <1>7, <2>4, InsertedRows
    <3>3. QED
      BY <1>2, <2>2, <3>1, <3>2
  <2>5. QED
    BY <2>3, <2>4
<1>8. ASSUME NEW r \in RepRuns, NEW ok \in BOOLEAN, Write(r, ok)
      PROVE  Counted(repRows'[d][a], Cardinality(Writers(d, a)'), repStopped')
  <2>1. OthersKept(r) /\ repRun[r].at = "write" /\ repRun'[r].at # "write"
    BY <1>8, RunWrites DEF Write
  <2>2. Writers(d, a)' = writers \ {r} /\ repStopped' = repStopped
    BY <1>8, <2>1, WritersOfStep DEF Write
  <2>3. CASE d = repRun[r].day /\ a \in repRun[r].area
    <3>1. r \in writers
      BY <2>1, <2>3 DEF Writers
    <3>2. /\ Cardinality(writers \ {r}) = Cardinality(writers) - 1
          /\ Cardinality(writers \ {r}) \in Nat
      BY <1>4, <3>1, FS_RemoveElement, FS_CardinalityType
    <3>3. repRows'[d][a] = RowEnded(row, ok)
      BY <1>8, <2>3, WrittenRows
    <3>4. CASE ok
      <4>1. repRows'[d][a].live = row.live /\ repRows'[d][a].completed
        BY <1>3, <3>3, <3>4 DEF RowEnded, ReportRow
      <4> HIDE DEF row, writers
      <4>2. QED
        BY <1>2, <1>3, <1>4, <2>2, <3>2, <4>1
    <3>5. CASE ~ ok
      <4>1. repRows'[d][a].live = row.live - 1 /\ repRows'[d][a].completed = row.completed
        BY <1>3, <3>3, <3>5 DEF RowEnded, ReportRow
      <4> HIDE DEF row, writers
      <4>2. QED
        BY <1>2, <1>3, <1>4, <2>2, <3>2, <4>1
    <3>6. QED
      BY <3>4, <3>5
  <2>4. CASE ~ (d = repRun[r].day /\ a \in repRun[r].area)
    <3>1. r \notin writers
      BY <2>4 DEF Writers
    <3>2. Writers(d, a)' = writers
      BY <2>2, <3>1
    <3>3. repRows'[d][a] = row
      BY <1>8, <2>4, WrittenRows
    <3>4. QED
      BY <1>2, <2>2, <3>2, <3>3
  <2>5. QED
    BY <2>3, <2>4
<1>9. ASSUME NEW r \in RepRuns, RunStopped(r)
      PROVE  Counted(repRows'[d][a], Cardinality(Writers(d, a)'), repStopped')
  <2>1. OthersKept(r) /\ repRun'[r].at # "write"
    BY <1>9, RunEnds DEF Idle
  <2>2. Writers(d, a)' \in SUBSET writers
    BY <2>1, WritersOfStep
  <2>3. Cardinality(Writers(d, a)') <= Cardinality(writers) /\ Cardinality(Writers(d, a)') \in Nat
    BY <1>4, <2>2, FS_Subset, FS_CardinalityType
  <2>4. repRows' = repRows /\ repStopped'
    BY <1>9 DEF RunStopped
  <2> HIDE DEF writers
  <2>5. QED
    BY <1>2, <1>3, <1>4, <2>3, <2>4
<1>10. QED
  BY <1>5, <1>6, <1>7, <1>8, <1>9, ReportSteps DEF ReportStepKinds

\* While no two runs look at the same moment, the one that is about to insert found the
\* area without a live row, and no other may give it one.
LEMMA ReportStepOne ==
  ASSUME ReportsTypeOK, RowsOfWriters, AreaInHand, OneInserts, [ReportsNext]_repVars
  PROVE  OneInserts'
<1>1. SUFFICES ASSUME ~ repRaced'
               PROVE  /\ \A d \in Days, a \in RepAreas : repRows'[d][a].live <= 1
                      /\ \A r \in RepRuns : repRun'[r].at = "insert" =>
                           /\ \A a \in repRun'[r].area : repRows'[repRun'[r].day][a].live = 0
                           /\ \A s \in RepRuns :
                                repRun'[s].at = "insert" /\ repRun'[s].day = repRun'[r].day => s = r
  BY DEF OneInserts
<1> DEFINE One(rows, run) ==
             /\ \A d \in Days, a \in RepAreas : rows[d][a].live <= 1
             /\ \A r \in RepRuns : run[r].at = "insert" =>
                  /\ \A a \in run[r].area : rows[run[r].day][a].live = 0
                  /\ \A s \in RepRuns : run[s].at = "insert" /\ run[s].day = run[r].day => s = r
<1>2. ~ repRaced
  BY <1>1, ReportSteps, RunBegins
  DEF ReportStepKinds, Look, Insert, Write, RunAnswered, RunStopped
<1>3. One(repRows, repRun)
  BY <1>2 DEF OneInserts
<1>4. \A d \in Days, a \in RepAreas : repRows[d][a] \in ReportRow /\ repRows[d][a].live \in Nat
  BY ReportTypes, RepMaxRowsNat DEF ReportRow
<1>5. \A r \in RepRuns : repRun[r] \in ReportRun
  BY ReportTypes
<1>6. CASE UNCHANGED <<repRows, repRun>>
  BY <1>3, <1>6
<1>7. ASSUME NEW r \in RepRuns, Begins(r) \/ RunAnswered(r) \/ RunStopped(r)
      PROVE  One(repRows', repRun')
  <2>1. OthersKept(r) /\ repRun'[r].at # "insert"
    BY <1>7, RunBegins, RunEnds DEF Idle
  <2>2. repRows' = repRows
    BY <1>7, RunBegins DEF RunAnswered, RunStopped
  <2>3. QED
    BY <1>3, <2>1, <2>2 DEF OthersKept
<1>8. ASSUME NEW r \in RepRuns, Look(r)
      PROVE  One(repRows', repRun')
  <2>1. repRows' = repRows /\ \A s \in RepRuns : repRun[s].at = "insert" => repRun[s].day # repRun[r].day
    BY <1>1, <1>8 DEF Look
  <2>2. PICK a \in RepAreas : repRun'[r].area = {a} /\ repRows[repRun[r].day][a].live = 0
    BY <1>8, RunLooks
  <2>3. repRun'[r].day = repRun[r].day /\ OthersKept(r)
    BY <1>8, RunLooks
  <2>4. QED
    BY <1>3, <2>1, <2>2, <2>3 DEF OthersKept
<1>9. ASSUME NEW r \in RepRuns, Insert(r)
      PROVE  One(repRows', repRun')
  <2>1. repRun[r].at = "insert" /\ OthersKept(r) /\ repRun'[r].at = "write"
    BY <1>9, RunInserts DEF Insert
  <2>2. \A s \in RepRuns : repRun'[s].at = "insert" =>
          repRun'[s] = repRun[s] /\ repRun[s].day # repRun[r].day /\ repRun[s].at = "insert"
    BY <1>3, <2>1 DEF OthersKept
  <2>3. ASSUME NEW d \in Days, NEW a \in RepAreas
        PROVE  /\ repRows'[d][a].live <= 1
               /\ d # repRun[r].day => repRows'[d][a] = repRows[d][a]
    <3>1. CASE d = repRun[r].day /\ a \in repRun[r].area
      <4>1. repRows'[d][a].live = repRows[d][a].live + 1
        BY <1>4, <1>9, <3>1, InsertedRows DEF RowBegun, ReportRow
      <4>2. repRows[d][a].live = 0
        BY <1>3, <2>1, <3>1
      <4>3. QED
        BY <3>1, <4>1, <4>2
    <3>2. CASE ~ (d = repRun[r].day /\ a \in repRun[r].area)
      <4>1. repRows'[d][a] = repRows[d][a]
        BY <1>9, <3>2, InsertedRows
      <4>2. QED
        BY <1>3, <4>1
    <3>3. QED
      BY <3>1, <3>2
  <2>4. \A s \in RepRuns : repRun[s].day \in Days /\ repRun[s].area \subseteq RepAreas
    BY <1>5 DEF ReportRun
  <2>5. QED
    BY <1>3, <2>2, <2>3, <2>4
<1>10. ASSUME NEW r \in RepRuns, NEW ok \in BOOLEAN, Write(r, ok)
       PROVE  One(repRows', repRun')
  <2>1. OthersKept(r) /\ repRun[r].at = "write" /\ repRun'[r].at = "look"
    BY <1>10, RunWrites DEF Write
  <2>2. \A s \in RepRuns : repRun'[s].at = "insert" => repRun'[s] = repRun[s]
    BY <2>1 DEF OthersKept
  <2>3. \A s \in RepRuns : repRun[s].day \in Days /\ repRun[s].area \subseteq RepAreas
    BY <1>5 DEF ReportRun
  <2>4. ASSUME NEW d \in Days, NEW a \in RepAreas
        PROVE  /\ repRows'[d][a].live <= 1
               /\ repRows[d][a].live = 0 => repRows'[d][a] = repRows[d][a]
    <3>1. CASE d = repRun[r].day /\ a \in repRun[r].area
      <4>1. repRows'[d][a].live \in {repRows[d][a].live, repRows[d][a].live - 1}
        <5>1. repRows'[d][a] = RowEnded(repRows[d][a], ok)
          BY <1>10, <3>1, WrittenRows
        <5>2. QED
          BY <1>4, <5>1 DEF RowEnded, ReportRow
      <4>2. Writers(d, a) # {}
        BY <2>1, <3>1 DEF Writers
      <4>3. Cardinality(Writers(d, a)) \in Nat \ {0}
        BY <4>2, WritersCounted
      <4>4. repRows[d][a].live # 0
        BY <1>4, <4>3 DEF RowsOfWriters
      <4>5. repRows[d][a].live <= 1 /\ repRows[d][a].live \in Nat
        BY <1>3, <1>4
      <4>6. QED
        BY <4>1, <4>4, <4>5
    <3>2. CASE ~ (d = repRun[r].day /\ a \in repRun[r].area)
      <4>1. repRows'[d][a] = repRows[d][a]
        BY <1>10, <3>2, WrittenRows
      <4>2. QED
        BY <1>3, <4>1
    <3>3. QED
      BY <3>1, <3>2
  <2>5. QED
    BY <1>3, <2>2, <2>3, <2>4
<1>11. QED
  BY <1>6, <1>7, <1>8, <1>9, <1>10, ReportSteps DEF ReportStepKinds

\* The days of the calls and of the runs only fall behind today.
LEMMA ReportStepOrder ==
  ASSUME ReportsTypeOK, CallsInOrder, [ReportsNext]_repVars
  PROVE  CallsInOrder'
<1>1. /\ repSched \in Scheduler /\ repDay \in Nat \ {0} /\ repSched.key \in Nat
      /\ \A r \in RepRuns : repRun[r] \in ReportRun /\ repRun[r].day \in Nat
  BY ReportTypes, RepMaxRowsNat DEF Days, Scheduler, ReportRun
<1>2. LET none == Unawaited(repSched)
      IN none.last = repSched.last /\ none.key = 1 /\ none.awaits = NoReportRun
  BY <1>1 DEF Unawaited, Scheduler
<1>3. NoReportRun \notin RepRuns
  BY ReportConstants
<1>4. CASE Midnight \/ UNCHANGED repVars
  <2>1. repDay' \in Nat /\ repDay <= repDay' /\ repSched' = repSched /\ repRun' = repRun
    BY <1>1, <1>4 DEF Midnight, repVars
  <2>2. repSched.last \in Nat
    BY <1>1, RepMaxRowsNat DEF Scheduler
  <2>3. QED
    BY <1>1, <2>1, <2>2 DEF CallsInOrder
<1>5. CASE SchedulerStarts \/ SchedulerRestarts \/ RunGivenUp
  <2>1. /\ repSched'.last \in {0, repSched.last} /\ repRun' = repRun /\ repDay' = repDay
        /\ \/ repSched'.key = repSched.key /\ repSched'.awaits = repSched.awaits
           \/ repSched'.key = 1 /\ repSched'.awaits = NoReportRun
    BY <1>1, <1>2, <1>5
    DEF SchedulerStarts, SchedulerRestarts, RunGivenUp, Scheduler, Unawaited
  <2>2. QED
    BY <1>1, <1>3, <2>1 DEF CallsInOrder
<1>6. ASSUME NEW r \in RepRuns, ScheduledRun(r)
      PROVE  CallsInOrder'
  <2>1. repRun' = [repRun EXCEPT ![r] = Called] /\ Called.at = "called" /\ Called.day = 1
    BY <1>6 DEF ScheduledRun, Called, Idle
  <2>2. /\ repSched'.last = repSched.last /\ repSched'.key = repDay
        /\ repSched'.awaits = r /\ repDay' = repDay
    BY <1>1, <1>6 DEF ScheduledRun, Scheduler
  <2>3. \A s \in RepRuns : repRun'[s] = IF s = r THEN Called ELSE repRun[s]
    BY <2>1, ReportTypes
  <2>4. QED
    BY <1>1, <2>1, <2>2, <2>3 DEF CallsInOrder
<1>7. ASSUME NEW r \in RepRuns, OthersKept(r), repDay' = repDay,
             \/ repSched' = repSched
             \/ repSched'.last = repSched.last /\ repSched'.key = 1 /\ repSched'.awaits = NoReportRun
             \/ repSched'.last = repSched.key /\ repSched'.key = 1 /\ repSched'.awaits = NoReportRun,
             repRun'[r].day <= repDay,
             \/ repRun'[r].day = repDay
             \/ repRun'[r].day = repRun[r].day /\ repRun[r].at # "called"
             \/ repSched'.awaits # r
      PROVE  CallsInOrder'
  <2>1. \A s \in RepRuns \ {r} : repRun'[s] = repRun[s]
    BY <1>7 DEF OthersKept
  <2>2. repSched'.last <= repDay' /\ repSched'.key <= repDay'
    BY <1>1, <1>7 DEF CallsInOrder
  <2>3. ASSUME NEW s \in RepRuns
        PROVE  /\ repRun'[s].day <= repDay'
               /\ repSched'.awaits = s /\ repRun'[s].at # "called" => repSched'.key <= repRun'[s].day
    <3>1. CASE s # r
      BY <1>1, <1>3, <1>7, <2>1, <3>1 DEF CallsInOrder
    <3>2. CASE s = r
      BY <1>1, <1>3, <1>7, <3>2 DEF CallsInOrder
    <3>3. QED
      BY <3>1, <3>2
  <2>4. QED
    BY <2>2, <2>3 DEF CallsInOrder
<1>8. ASSUME NEW r \in RepRuns, RunArrives(r) \/ ManualRun(r)
      PROVE  CallsInOrder'
  <2>1. OthersKept(r) /\ repRun'[r].day = repDay
    BY <1>8, ReportTypes DEF RunArrives, ManualRun, Started, OthersKept
  <2>2. repSched' = repSched /\ repDay' = repDay
    BY <1>8 DEF RunArrives, ManualRun, Started
  <2>3. QED
    BY <1>1, <1>7, <2>1, <2>2
<1>9. ASSUME NEW r \in RepRuns, Look(r) \/ Insert(r) \/ \E ok \in BOOLEAN : Write(r, ok)
      PROVE  CallsInOrder'
  <2>1. OthersKept(r) /\ repRun'[r].day = repRun[r].day
    BY <1>9, RunLooks, RunInserts, RunWrites
  <2>2. repSched' = repSched /\ repDay' = repDay /\ repRun[r].at # "called"
    BY <1>9 DEF Look, Insert, Write
  <2>3. repRun[r].day <= repDay
    BY DEF CallsInOrder
  <2>4. QED
    BY <1>7, <2>1, <2>2, <2>3
<1>10. ASSUME NEW r \in RepRuns, RunAnswered(r) \/ RunStopped(r)
       PROVE  CallsInOrder'
  <2>1. OthersKept(r) /\ repRun'[r].day = 1 /\ repDay' = repDay
    <3>1. OthersKept(r) /\ repRun'[r].day = 1
      BY <1>10, RunEnds DEF Idle
    <3>2. repDay' = repDay
      BY <1>10 DEF RunAnswered, RunStopped
    <3>3. QED
      BY <3>1, <3>2
  <2>2. CASE repSched.awaits # r
    <3>1. repSched' = repSched
      BY <1>10, <2>2 DEF RunAnswered, RunStopped
    <3>2. QED
      BY <1>1, <1>7, <2>1, <2>2, <3>1
  <2>3. CASE repSched.awaits = r
    <3>1. /\ repSched'.last \in {repSched.last, repSched.key}
          /\ repSched'.key = 1 /\ repSched'.awaits = NoReportRun
      BY <1>1, <1>2, <1>10, <2>3 DEF RunAnswered, RunStopped, Scheduler, Unawaited
    <3>2. QED
      BY <1>1, <1>3, <1>7, <2>1, <3>1
  <2>4. QED
    BY <2>2, <2>3
<1>11. QED
  BY <1>4, <1>5, <1>6, <1>8, <1>9, <1>10 DEF ReportsNext

\* What is handled stays so: a row only goes with its failure, and a writing ends with a
\* report or a failure unless the run is cut off.
LEMMA HandledStays ==
  ASSUME ReportsTypeOK, [ReportsNext]_repVars, NEW d \in Days, NEW a \in RepAreas, Handled(d, a)
  PROVE  Handled(d, a)'
<1>1. CASE UNCHANGED <<repRows, repRun, repRaced, repStopped>>
  BY <1>1 DEF Handled, Writers
<1>2. repRows[d][a] \in ReportRow /\ repRows[d][a].live \in Nat
  BY ReportTypes, RepMaxRowsNat DEF ReportRow
<1>3. ASSUME NEW r \in RepRuns, Begins(r) \/ Look(r) \/ RunAnswered(r)
      PROVE  Handled(d, a)'
  <2>1. OthersKept(r) /\ repRun'[r].at # "write"
    BY <1>3, RunBegins, RunLooks, RunEnds DEF Idle
  <2>2. repRun[r].at # "write" /\ repRows' = repRows /\ repStopped' = repStopped
    BY <1>3, RunBegins DEF Look, RunAnswered
  <2>3. Writers(d, a)' = Writers(d, a)
    BY <2>1, <2>2, SameWriters
  <2>4. QED
    BY <2>2, <2>3 DEF Handled
<1>4. ASSUME NEW r \in RepRuns, Insert(r)
      PROVE  Handled(d, a)'
  <2>1. OthersKept(r) /\ repRun[r].at # "write" /\ repStopped' = repStopped
    BY <1>4, RunInserts DEF Insert
  <2>2. Writers(d, a) \subseteq Writers(d, a)'
    BY <2>1 DEF Writers, OthersKept
  <2>3. /\ repRows'[d][a].completed = repRows[d][a].completed
        /\ repRows'[d][a].failed = repRows[d][a].failed
        /\ repRows[d][a].live > 0 => repRows'[d][a].live > 0
    <3>1. repRows'[d][a] \in {repRows[d][a], RowBegun(repRows[d][a])}
      BY <1>4, InsertedRows
    <3>2. QED
      BY <1>2, <3>1 DEF RowBegun, ReportRow
  <2>4. QED
    BY <2>1, <2>2, <2>3 DEF Handled
<1>5. ASSUME NEW r \in RepRuns, NEW ok \in BOOLEAN, Write(r, ok)
      PROVE  Handled(d, a)'
  <2>1. /\ OthersKept(r) /\ repRun[r].at = "write" /\ repRun'[r].at # "write"
        /\ repStopped' = repStopped
    BY <1>5, RunWrites DEF Write
  <2>2. CASE d = repRun[r].day /\ a \in repRun[r].area
    <3>1. repRows'[d][a] = RowEnded(repRows[d][a], ok)
      BY <1>5, <2>2, WrittenRows
    <3>2. /\ repRows'[d][a].completed \/ repRows'[d][a].failed
          /\ repRows[d][a].live > 0 => repRows'[d][a].live > 0 \/ repRows'[d][a].failed
          /\ repRows[d][a].failed => repRows'[d][a].failed
      BY <1>2, <3>1 DEF RowEnded, ReportRow
    <3>3. QED
      BY <3>2 DEF Handled
  <2>3. CASE ~ (d = repRun[r].day /\ a \in repRun[r].area)
    <3>1. Writers(d, a)' = Writers(d, a)
      BY <2>1, <2>3 DEF Writers, OthersKept
    <3>2. repRows'[d][a] = repRows[d][a]
      BY <1>5, <2>3, WrittenRows
    <3>3. QED
      BY <2>1, <3>1, <3>2 DEF Handled
  <2>4. QED
    BY <2>2, <2>3
<1>6. ASSUME NEW r \in RepRuns, RunStopped(r)
      PROVE  Handled(d, a)'
  BY <1>6 DEF RunStopped, Handled
<1>7. QED
  BY <1>1, <1>3, <1>4, <1>5, <1>6, ReportSteps DEF ReportStepKinds

\* An area with a live row is handled: if its report is not completed the row is being
\* written, unless a run was cut off.
LEMMA LiveIsHandled ==
  ASSUME ReportsTypeOK, RowsOfWriters,
         NEW d \in Days, NEW a \in RepAreas, repRows[d][a].live > 0
  PROVE  Handled(d, a)
<1>1. CASE repRows[d][a].completed \/ repStopped
  BY <1>1 DEF Handled
<1>2. CASE ~ repRows[d][a].completed /\ ~ repStopped
  <2>1. repRows[d][a].live = Cardinality(Writers(d, a))
    BY <1>2 DEF RowsOfWriters
  <2>2. Cardinality(Writers(d, a)) # 0
    <3>1. Cardinality(Writers(d, a)) \in Nat /\ Cardinality(Writers(d, a)) > 0
      BY <2>1, WritersCounted
    <3>2. QED
      BY <3>1
  <2>3. QED
    BY <2>2, WritersCounted DEF Handled
<1>3. QED
  BY <1>1, <1>2

\* A run that writes an area has its live row.
LEMMA WrittenIsHandled ==
  ASSUME ReportsTypeOK, RowsOfWriters, NEW r \in RepRuns, repRun[r].at = "write",
         NEW a \in repRun[r].area
  PROVE  Handled(repRun[r].day, a)
<1>1. repRun[r].day \in Days /\ a \in RepAreas
  BY ReportTypes DEF ReportRun
<1> DEFINE d == repRun[r].day
<1>2. Writers(d, a) # {}
  BY DEF Writers
<1>3. Cardinality(Writers(d, a)) \in Nat /\ Cardinality(Writers(d, a)) # 0
  BY <1>2, WritersCounted
<1>4. repRows[d][a].live \in Nat /\ Cardinality(Writers(d, a)) <= repRows[d][a].live
  BY <1>1, ReportTypes, RepMaxRowsNat DEF RowsOfWriters, ReportRow
<1> HIDE DEF d
<1>5. repRows[d][a].live > 0
  BY <1>3, <1>4
<1>6. QED
  BY <1>1, <1>5, LiveIsHandled DEF d

\* What a run passes by is handled: it skips the areas with a live row, and lets go of an
\* area when its report is written or has failed.
LEMMA ReportStepPassed ==
  ASSUME ReportsTypeOK, AreaInHand, RowsOfWriters, PassedIsHandled, [ReportsNext]_repVars
  PROVE  PassedIsHandled'
<1> DEFINE Passed(r, a) == /\ repRun[r].at \notin {"idle", "called"}
                           /\ a \notin repRun[r].left \cup repRun[r].area
<1>1. \A r \in RepRuns : repRun[r] \in ReportRun /\ repRun[r].day \in Days
  BY ReportTypes DEF ReportRun
<1>2. \A r \in RepRuns, a \in RepAreas : Passed(r, a) => Handled(repRun[r].day, a)
  BY DEF PassedIsHandled
<1>3. ASSUME NEW r \in RepRuns, NEW a \in RepAreas, Handled(repRun[r].day, a),
             repRun'[r].day = repRun[r].day
      PROVE  Handled(repRun[r].day, a)'
  <2>1. PICK d \in Days : d = repRun[r].day
    BY <1>1
  <2>2. Handled(d, a)'
    BY <1>3, <2>1, HandledStays
  <2>3. QED
    BY <1>3, <2>1, <2>2 DEF Handled, Writers
<1>4. ASSUME NEW r \in RepRuns, OthersKept(r),
             \A a \in RepAreas : Passed(r, a)' => Handled(repRun[r].day, a)'
      PROVE  PassedIsHandled'
  <2>1. ASSUME NEW s \in RepRuns, s # r, NEW a \in RepAreas, Passed(s, a)'
        PROVE  Handled(repRun[s].day, a)'
    <3>1. repRun'[s] = repRun[s]
      BY <1>4, <2>1 DEF OthersKept
    <3>2. QED
      BY <1>2, <1>3, <2>1, <3>1
  <2>2. QED
    BY <1>4, <2>1 DEF PassedIsHandled
<1>5. CASE UNCHANGED repRun
  BY <1>2, <1>3, <1>5 DEF PassedIsHandled
<1>6. ASSUME NEW r \in RepRuns, Begins(r)
      PROVE  PassedIsHandled'
  <2>1. OthersKept(r) /\ repRun'[r].at \in {"called", "look"}
    BY <1>6, RunBegins
  <2>2. repRun'[r].at = "look" => repRun'[r].left = RepAreas
    BY <1>6, RunBegins
  <2>3. QED
    BY <1>4, <2>1, <2>2
<1>7. ASSUME NEW r \in RepRuns, Look(r)
      PROVE  PassedIsHandled'
  <2>1. OthersKept(r) /\ repRun'[r].day = repRun[r].day
    BY <1>7, RunLooks
  <2>2. PICK b \in RepAreas :
          /\ repRun'[r].area = {b}
          /\ \A a \in repRun[r].left \ (repRun'[r].left \cup {b}) :
               repRows[repRun[r].day][a].live > 0
    BY <1>7, RunLooks
  <2>3. repRun[r].at = "look" /\ repRun[r].area = {}
    BY <1>7 DEF Look, AreaInHand
  <2>4. ASSUME NEW a \in RepAreas, Passed(r, a)'
        PROVE  Handled(repRun[r].day, a)'
    <3>1. a \in repRun[r].left => repRows[repRun[r].day][a].live > 0
      BY <2>2, <2>4
    <3>2. Handled(repRun[r].day, a)
      BY <1>1, <1>2, <2>3, <3>1, LiveIsHandled
    <3>3. QED
      BY <1>3, <2>1, <3>2
  <2>5. QED
    BY <1>4, <2>1, <2>4
<1>8. ASSUME NEW r \in RepRuns, Insert(r)
      PROVE  PassedIsHandled'
  <2>1. /\ OthersKept(r) /\ repRun'[r].day = repRun[r].day
        /\ repRun'[r].left = repRun[r].left /\ repRun'[r].area = repRun[r].area
    BY <1>8, RunInserts
  <2>2. repRun[r].at = "insert"
    BY <1>8 DEF Insert
  <2>3. ASSUME NEW a \in RepAreas, Passed(r, a)'
        PROVE  Handled(repRun[r].day, a)'
    BY <1>2, <1>3, <2>1, <2>2, <2>3
  <2>4. QED
    BY <1>4, <2>1, <2>3
<1>9. ASSUME NEW r \in RepRuns, NEW ok \in BOOLEAN, Write(r, ok)
      PROVE  PassedIsHandled'
  <2>1. /\ OthersKept(r) /\ repRun'[r].day = repRun[r].day
        /\ repRun'[r].left = repRun[r].left
    BY <1>9, RunWrites
  <2>2. repRun[r].at = "write"
    BY <1>9 DEF Write
  <2>3. ASSUME NEW a \in RepAreas, Passed(r, a)'
        PROVE  Handled(repRun[r].day, a)'
    <3>1. CASE a \in repRun[r].area
      BY <1>3, <2>1, <2>2, <3>1, WrittenIsHandled
    <3>2. CASE a \notin repRun[r].area
      BY <1>2, <1>3, <2>1, <2>2, <2>3, <3>2
    <3>3. QED
      BY <3>1, <3>2
  <2>4. QED
    BY <1>4, <2>1, <2>3
<1>10. ASSUME NEW r \in RepRuns, RunAnswered(r) \/ RunStopped(r)
       PROVE  PassedIsHandled'
  <2>1. OthersKept(r) /\ repRun'[r].at = "idle"
    BY <1>10, RunEnds DEF Idle
  <2>2. QED
    BY <1>4, <2>1
<1>11. QED
  BY <1>5, <1>6, <1>7, <1>8, <1>9, <1>10, ReportSteps DEF ReportStepKinds

\* A day is taken for done with a run that has passed by every area: a run of that very
\* day, or of a later one if its call crossed midnight.
LEMMA ReportStepDone ==
  ASSUME ReportsTypeOK, AreaInHand, RowsOfWriters, CallsInOrder, PassedIsHandled, DoneIsHandled,
         [ReportsNext]_repVars
  PROVE  DoneIsHandled'
<1>1. /\ repSched \in Scheduler /\ repDay \in Days /\ repSched.key \in Days
      /\ repDay \in Nat /\ repDay <= RepMaxDay /\ repSched.last \in Nat /\ repSched.key \in Nat
  BY ReportTypes, RepMaxRowsNat DEF Scheduler, Days
<1>2. repSched.last # 0 => DoneDays \subseteq Days
  BY <1>1, RepMaxRowsNat DEF DoneDays, Days, CallsInOrder
<1>3. ASSUME NEW d \in Days, \A a \in RepAreas : Handled(d, a)
      PROVE  \A a \in RepAreas : Handled(d, a)'
  BY <1>3, HandledStays
<1>4. CASE DoneKept
  <2>1. SUFFICES ASSUME repSched'.last # 0
                 PROVE  \E day \in DoneDays' : \A a \in RepAreas : Handled(day, a)'
    BY DEF DoneIsHandled
  <2>2. repSched'.last = repSched.last /\ repSched.last # 0
    BY <1>4, <2>1 DEF DoneKept
  <2>3. PICK d \in DoneDays : \A a \in RepAreas : Handled(d, a)
    BY <2>2 DEF DoneIsHandled
  <2>4. repDay' \in Nat /\ repDay' >= repDay
    <3>1. repDay' \in Days
      BY ReportStepTyped DEF ReportsTypeOK
    <3>2. repDay' \in Nat
      BY <3>1, RepMaxRowsNat DEF Days
    <3>3. QED
      BY <1>4, <3>2 DEF DoneKept
  <2>5. d \in DoneDays'
    BY <1>1, <1>4, <2>2, <2>3, <2>4 DEF DoneDays, DoneKept
  <2>6. QED
    BY <1>2, <1>3, <2>2, <2>3, <2>5
<1>5. ASSUME NEW r \in RepRuns, RunAnswered(r)
      PROVE  DoneIsHandled'
  <2>5. PICK d \in Days : d = repRun[r].day
    BY ReportTypes DEF ReportRun
  <2>1. /\ repRun[r].at = "look" /\ repRun[r].area = {} /\ d \in Nat
        /\ \A a \in repRun[r].left : repRows[d][a].live > 0
    BY <1>5, <2>5, RepMaxRowsNat DEF RunAnswered, AreaInHand, ReportExistsForRange, Days
  <2>2. \A a \in RepAreas : Handled(d, a)
    BY <2>1, <2>5, LiveIsHandled DEF PassedIsHandled
  <2>3. CASE repSched.awaits # r
    <3>1. repSched' = repSched /\ repDay' = repDay /\ repCrossed' = repCrossed
      BY <1>5, <2>3, ReportTypes DEF RunAnswered
    <3>2. DoneKept
      BY <1>1, <3>1 DEF DoneKept
    <3>3. QED
      BY <1>4, <3>2
  <2>4. CASE repSched.awaits = r
    <3>1. /\ repSched'.last = repSched.key /\ repDay' = repDay
          /\ repCrossed' = (repCrossed \/ d # repSched.key)
      BY <1>1, <1>5, <2>4, <2>5 DEF RunAnswered, Unawaited, Scheduler
    <3>2. repSched.key <= d /\ d <= repDay
      BY <2>1, <2>4, <2>5 DEF CallsInOrder
    <3>3. d \in DoneDays'
      <4>1. CASE repCrossed'
        <5>1. DoneDays' = repSched.key..repDay
          BY <3>1, <4>1 DEF DoneDays
        <5>2. QED
          BY <1>1, <2>1, <3>2, <5>1
      <4>2. CASE ~ repCrossed'
        BY <3>1, <4>2 DEF DoneDays
      <4>3. QED
        BY <4>1, <4>2
    <3>4. \A a \in RepAreas : Handled(d, a)'
      BY <1>3, <2>1, <2>2
    <3>5. QED
      BY <3>3, <3>4 DEF DoneIsHandled
  <2>6. QED
    BY <2>3, <2>4
<1>6. QED
  BY <1>4, <1>5, ReportSteps DEF ReportStepKinds

\* The invariant of the reports is kept by each of their steps.
LEMMA ReportStep ==
  ASSUME ReportsInv, [ReportsNext]_repVars
  PROVE  ReportsInv'
BY ReportStepTyped, ReportStepHands, ReportStepRows, ReportStepOne, ReportStepOrder,
   ReportStepPassed, ReportStepDone DEF ReportsInv

\* No run at the start, and a row is live only where its report is completed.
LEMMA ReportInitInv ==
  ASSUME ReportsInit
  PROVE  ReportsInv
<1>1. RepMaxRows \in Nat \ {0} /\ RepMaxDay \in Nat \ {0} /\ RepMaxUpsets \in Nat
  BY RepMaxRowsNat
<1>2. /\ 0 \in 0..RepMaxRows /\ 1 \in 0..RepMaxRows /\ 1 \in Days
      /\ 0 \in 0..RepMaxDay /\ 0 \in 0..RepMaxUpsets
  BY <1>1 DEF Days
<1>3. NoRows \in ReportRow /\ Written \in ReportRow /\ Idle \in ReportRun
  BY <1>2 DEF NoRows, Written, ReportRow, Idle, ReportRun
<1>4. ReportsTypeOK
  <2>1. repRows \in [Days -> [RepAreas -> ReportRow]]
    BY <1>3 DEF ReportsInit
  <2>2. QED
    BY <1>2, <1>3, <2>1 DEF ReportsInit, ReportsTypeOK, ReportRow, ReportRun
<1>5. /\ \A r \in RepRuns : repRun[r] = Idle
      /\ \A d \in Days, a \in RepAreas : repRows[d][a] \in {NoRows, Written}
      /\ repSched = [enabled |-> FALSE, last |-> 0, key |-> 1, awaits |-> NoReportRun]
      /\ repDay = 1
  BY DEF ReportsInit
<1>6. \A d \in Days, a \in RepAreas : Writers(d, a) = {}
  BY <1>5 DEF Writers, Idle
<1>7. RowsOfWriters
  <2>1. \A d \in Days, a \in RepAreas : Cardinality(Writers(d, a)) = 0
    BY <1>6, WritersCounted
  <2>2. QED
    BY <1>5, <2>1 DEF RowsOfWriters, NoRows, Written
<1>8. AreaInHand /\ OneInserts /\ PassedIsHandled /\ DoneIsHandled
  BY <1>5 DEF AreaInHand, OneInserts, PassedIsHandled, DoneIsHandled, Idle, NoRows, Written
<1>9. CallsInOrder
  BY <1>5, ReportConstants DEF CallsInOrder, Idle
<1>10. QED
  BY <1>4, <1>7, <1>8, <1>9 DEF ReportsInv

\* What the invariant says of the rows and of the day that is done.
LEMMA ReportsOfInv ==
  ASSUME ReportsInv
  PROVE  OneReportEachWhenDone
BY DEF ReportsInv, OneInserts, DoneIsHandled, OneReportEachWhenDone

\* The invariant of the reports holds for every set of areas, every finite set of
\* requests and every number of days.
THEOREM ReportsInductive == ReportsSpec => []ReportsInv
BY ReportInitInv, ReportStep, PTL DEF ReportsSpec

\* One report of a day for each area unless two runs looked at once; and a day is taken for
\* done only with every area's report handled, of that day or, if a call crossed midnight,
\* of a later one (ai_report.py, ai_report_scheduler.py).
THEOREM DaysDoneAreWritten == ReportsSpec => []OneReportEachWhenDone
BY ReportsInductive, ReportsOfInv, PTL

===============================================================================
