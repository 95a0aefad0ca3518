---------------------------- MODULE BoundDevices ----------------------------
(***************************************************************************)
(* What the bindings of a gateway promise, with no rows, no snapshots and  *)
(* no versions: an event offers one device for one slot, once; an offer is *)
(* taken at most once, by an event that takes no other, and only while the *)
(* gateway is open; nothing but a taken offer binds a device, and no       *)
(* device is ever bound to two slots.                                      *)
(***************************************************************************)
CONSTANTS Slots, Devices, Events, NoOne

VARIABLES
  keeps,   \* fixed: whether a slot keeps its device when the gateway begins a new life
  life,    \* "open", "closed" or "waiting" (a new life that is not open yet)
  bound,   \* slot: its device, or NoOne
  offer,   \* event: the status of its offer, and the slot and device it is of
  used     \* the events that took an offer

deviceVars == <<keeps, life, bound, offer, used>>

Blank == {e \in Events : offer[e].status = "blank"}
Offered == {e \in Events : offer[e].status = "offered"}

Init ==
  /\ keeps \in BOOLEAN
  /\ life = "open"
  /\ bound = [s \in Slots |-> NoOne]
  /\ offer = [e \in Events |-> [status |-> "blank", slot |-> NoOne, device |-> NoOne]]
  /\ used = {}

\* Event e, which has offered nothing, offers device d for slot s.
Offer(e, s, d) ==
  /\ life = "open"
  /\ offer' = [offer EXCEPT ![e] = [status |-> "offered", slot |-> s, device |-> d]]
  /\ UNCHANGED <<keeps, life, bound, used>>

\* Event f takes the offer of event e: its device replaces the one of its slot.
Take(e, f) ==
  LET s == offer[e].slot  d == offer[e].device
  IN /\ life = "open"
     /\ f \notin used /\ used' = used \cup {f}
     /\ \A t \in Slots \ {s} : bound[t] # d
     /\ bound' = [bound EXCEPT ![s] = d]
     /\ offer' = [offer EXCEPT ![e].status = "taken"]
     /\ UNCHANGED <<keeps, life>>

\* A new life of a closed gateway: the offers in V are void, and the slots in S
\* lose their devices.
Begin(V, S) ==
  /\ keeps => S = {}
  /\ bound' = [s \in Slots |-> IF s \in S THEN NoOne ELSE bound[s]]
  /\ offer' = [e \in Events |-> IF e \in V THEN [offer[e] EXCEPT !.status = "void"] ELSE offer[e]]
  /\ UNCHANGED <<keeps, used>>

Open == life = "waiting" /\ life' = "open" /\ UNCHANGED <<keeps, bound, offer, used>>

Close == life # "closed" /\ life' = "closed" /\ UNCHANGED <<keeps, bound, offer, used>>

Next ==
  \/ Open \/ Close
  \/ \E e \in Blank, s \in Slots, d \in Devices : Offer(e, s, d)
  \/ \E e \in Offered, f \in Events : Take(e, f)
  \/ /\ life = "closed" /\ life' = "waiting"
     /\ \E V \in SUBSET Offered, S \in SUBSET Slots : Begin(V, S)

Spec == Init /\ [][Next]_deviceVars

=============================================================================
