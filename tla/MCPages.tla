------------------------------- MODULE MCPages -------------------------------
(***************************************************************************)
(* The pairing service at its limits, and the pages on which pairings are  *)
(* approved, areas selected and the catalogue kept, for model checking.    *)
(* The pages meet the service only as its answers, which their modules     *)
(* leave open, so that one instance checks all four side by side: focus,   *)
(* which never changes, is the one that moves, and the others stay as they *)
(* begin.                                                                  *)
(***************************************************************************)
EXTENDS GatewayPairing, PairingPanel, AreaSelection, CatalogPages, TLC

VARIABLE focus

pagesVars == <<vars, panVars, selVars, catVars, focus>>

PagesInit ==
  /\ focus \in {"service", "panel", "selection", "catalog"}
  /\ Init /\ PanelInit /\ SelInit /\ CatalogInit

PagesNext ==
  /\ UNCHANGED focus
  /\ \/ focus = "service" /\ Next /\ UNCHANGED <<panVars, selVars, catVars>>
     \/ focus = "panel" /\ PanelNext /\ UNCHANGED <<vars, selVars, catVars>>
     \/ focus = "selection" /\ SelNext /\ UNCHANGED <<vars, panVars, catVars>>
     \/ focus = "catalog" /\ CatalogNext /\ UNCHANGED <<vars, panVars, selVars>>

PagesSpec == PagesInit /\ [][PagesNext]_pagesVars

\* The state of every page keeps its types.
PagesTypeOK == PanelTypeOK /\ SelTypeOK /\ CatalogTypeOK

Symmetry == Permutations(Sessions) \cup Permutations(Codes)

=============================================================================
