---------------------------- MODULE AreaSelection ----------------------------
(***************************************************************************)
(* The selected property and area of the client's pages (frontend:         *)
(* context/SelectionContext.tsx and pages/client/area/AreaLayout.tsx).     *)
(*                                                                         *)
(* The context loads properties and then areas when its layout is mounted, *)
(* and selects what the browser remembers, or the first.  An area's page   *)
(* selects the area of its address.  Both, and the rule that an area       *)
(* belongs to the selected property, are effects that React runs after a   *)
(* commit, the page's before the context's, each with the values of that   *)
(* commit.                                                                 *)
(***************************************************************************)
EXTENDS Naturals

CONSTANTS SelProperties, SelAreas, NoneSelected

ASSUME SelectionConstants == NoneSelected \notin SelProperties \cup SelAreas

VARIABLES
  selServer,   \* rows: the properties, and the property of each area
  selContext,  \* the context's state
  selLoad,     \* its load: which answer it waits for
  selStored,   \* localStorage: ids of the last selection
  selAddress   \* the area of the address, if it is an area's page

selVars == <<selServer, selContext, selLoad, selStored, selAddress>>

PropertyOrNone == SelProperties \cup {NoneSelected}
AreaOrNone == SelAreas \cup {NoneSelected}
Servers == [properties : SUBSET SelProperties, area : [SelAreas -> PropertyOrNone]]
NoAreas == [a \in SelAreas |-> NoneSelected]

SelTypeOK ==
  /\ selServer \in Servers
  /\ selContext \in [auto : BOOLEAN, properties : SUBSET SelProperties,
                     areas : [SelAreas -> PropertyOrNone], property : PropertyOrNone,
                     area : AreaOrNone, loading : BOOLEAN, error : BOOLEAN, hydrated : BOOLEAN]
  /\ selLoad \in {"none", "properties", "areas"}
  /\ selStored \in [property : PropertyOrNone, area : AreaOrNone]
  /\ selAddress \in AreaOrNone

Fresh(auto) ==
  [auto |-> auto, properties |-> {}, areas |-> NoAreas, property |-> NoneSelected,
   area |-> NoneSelected, loading |-> TRUE, error |-> FALSE, hydrated |-> FALSE]

SelInit ==
  /\ selServer = [properties |-> {}, area |-> NoAreas]
  /\ selContext = Fresh(TRUE) /\ selLoad = "none"
  /\ selStored = [property |-> NoneSelected, area |-> NoneSelected]
  /\ selAddress = NoneSelected

-----------------------------------------------------------------------------
(* The lists, in the order in which the server sends them *)

FirstOf(S) == IF S = {} THEN NoneSelected ELSE CHOOSE x \in S : TRUE
LoadedAreas(s) == {a \in SelAreas : s.areas[a] # NoneSelected}
AreasOf(s, p) == {a \in SelAreas : s.areas[a] = p}

-----------------------------------------------------------------------------
(* Effects *)

AreaFits(s) == s.area # NoneSelected /\ s.areas[s.area] = s.property

\* The selected area belongs to the selected property: else its first, if it has one.
MustPick(s) == s.property # NoneSelected /\ LoadedAreas(s) # {} /\ ~ AreaFits(s)
Pick(s) == IF MustPick(s) THEN [s EXCEPT !.area = FirstOf(AreasOf(s, s.property))] ELSE s

\* Mutant: the property stays.
AreaLayoutSelectsOnly(s, a) == [s EXCEPT !.area = a]

\* An area's page selects it, and its property if that is in the list.
AreaLayoutSelects(s, a) ==
  [s EXCEPT !.area = a, !.property = IF s.areas[a] \in s.properties THEN s.areas[a] ELSE @]

\* The commit in which an area's page finds its area: the page's effect is followed by
\* the context's, which still sees the former selection and may overwrite the area;
\* the next commit picks again.
AddressFound(s, a) ==
  LET own == AreaLayoutSelects(s, a)
  IN Pick(IF MustPick(s) THEN [own EXCEPT !.area = Pick(s).area] ELSE own)

SettleSelection(s, a) ==
  IF a # NoneSelected /\ s.areas[a] # NoneSelected /\ s.area # a
  THEN AddressFound(s, a) ELSE Pick(s)

\* Once it was loaded the selection is remembered, whenever it changes.
Remembered(s) ==
  IF s.hydrated /\ ~ s.loading /\ ~ s.error
  THEN [property |-> s.property, area |-> s.area] ELSE selStored

-----------------------------------------------------------------------------
(* What a load selects *)

StoredProperty(s) ==
  IF selStored.property \in s.properties THEN selStored.property ELSE NoneSelected

\* Clients get the first property, administrators none.
NextProperty(s) ==
  IF StoredProperty(s) = NoneSelected /\ s.auto THEN FirstOf(s.properties) ELSE StoredProperty(s)

StoredArea(s, p) ==
  IF /\ selStored.area \in LoadedAreas(s)
     /\ p = NoneSelected \/ s.areas[selStored.area] = p
  THEN selStored.area ELSE NoneSelected

NextArea(s, p) ==
  IF StoredArea(s, p) = NoneSelected /\ p # NoneSelected
  THEN FirstOf(AreasOf(s, p)) ELSE StoredArea(s, p)

-----------------------------------------------------------------------------
(* Actions *)

\* The layout is mounted at an address: the context loads.  A client's layout selects
\* by itself, an administrator's does not and has no pages of areas.
Mount(auto, address) ==
  /\ ~ auto => address = NoneSelected
  /\ selContext' = Fresh(auto) /\ selLoad' = "properties" /\ selAddress' = address

OpenBrowser(server, auto, address) ==
  /\ selServer.properties = {} /\ selServer' = server
  /\ Mount(auto, address)
  /\ UNCHANGED selStored

\* The page is loaded again, by the same user or by another of this browser.
MountLayout(auto, address) ==
  /\ selServer.properties # {} /\ selLoad = "none"
  /\ Mount(auto, address)
  /\ UNCHANGED <<selServer, selStored>>

\* Areas come, go and move, between the two answers too.
ServerChanges(a, p) ==
  /\ selLoad # "none"
  /\ selServer.area[a] # p
  /\ selServer' = [selServer EXCEPT !.area[a] = p]
  /\ UNCHANGED <<selContext, selLoad, selStored, selAddress>>

PropertiesArrive ==
  /\ selLoad = "properties"
  /\ selContext' = [selContext EXCEPT !.properties = selServer.properties]
  /\ selLoad' = "areas"
  /\ UNCHANGED <<selServer, selStored, selAddress>>

\* The page of an area that is not there goes back to the properties.
AreasArrive ==
  /\ selLoad = "areas"
  /\ LET s == [selContext EXCEPT !.areas = selServer.area]
         p == NextProperty(s)
         chosen == [s EXCEPT !.property = p, !.area = NextArea(s, p),
                             !.loading = FALSE, !.hydrated = TRUE]
     IN /\ selContext' = SettleSelection(chosen, selAddress)
        /\ selStored' = Remembered(selContext')
        /\ selAddress' = IF selAddress \in LoadedAreas(s) THEN selAddress ELSE NoneSelected
  /\ selLoad' = "none"
  /\ UNCHANGED selServer

\* A load that fails leaves what it had and says so.
LoadFails ==
  /\ selLoad # "none"
  /\ selContext' = [selContext EXCEPT !.loading = FALSE, !.error = TRUE]
  /\ selLoad' = "none"
  /\ selAddress' = NoneSelected
  /\ UNCHANGED <<selServer, selStored>>

\* The user goes to an area's page, by a link or by its address, or leaves it.
VisitArea(a) ==
  /\ selContext.auto
  /\ selAddress' = IF selContext.loading \/ a \in LoadedAreas(selContext) THEN a ELSE NoneSelected
  /\ selContext' = IF selContext.loading THEN selContext ELSE SettleSelection(selContext, a)
  /\ selStored' = Remembered(selContext')
  /\ UNCHANGED <<selServer, selLoad>>

SelNext ==
  \/ \E auto \in BOOLEAN, address \in AreaOrNone :
       \/ MountLayout(auto, address)
       \/ \E server \in Servers : OpenBrowser(server, auto, address)
  \/ \E a \in SelAreas, p \in PropertyOrNone : ServerChanges(a, p)
  \/ PropertiesArrive \/ AreasArrive \/ LoadFails
  \/ \E a \in AreaOrNone : VisitArea(a)

SelSpec == SelInit /\ [][SelNext]_selVars

-----------------------------------------------------------------------------
(* Properties *)

Loaded == selContext.hydrated /\ ~ selContext.loading /\ ~ selContext.error

\* An area's page shows its area (it shows nothing while another is selected), if every
\* loaded property has an area and every loaded area its property: the context's
\* effect, which overwrites the page's, is then idle.  And the browser remembers what
\* is selected: an area of the selected property.
SelectionFollowsAddress ==
  Loaded =>
    /\ /\ selAddress # NoneSelected
       /\ \A p \in selContext.properties : AreasOf(selContext, p) # {}
       /\ \A a \in LoadedAreas(selContext) : selContext.areas[a] \in selContext.properties
       => selContext.area = selAddress
    /\ selStored = [property |-> selContext.property, area |-> selContext.area]
    /\ selContext.property # NoneSelected /\ selContext.area # NoneSelected
       => AreaFits(selContext)

=============================================================================
