------------------------------ MODULE PanelView ------------------------------
(***************************************************************************)
(* What the operator may rely on when a page of the panel is open: every   *)
(* list on the screen is a list the panel's database has held, and a list  *)
(* is never replaced by an older one.  Versions stand for the contents of  *)
(* a list; 0 is a list that has not been loaded.  UiPanelData, the polling *)
(* of src/frontend/src/App.tsx, implements this specification.             *)
(***************************************************************************)
EXTENDS Naturals

CONSTANT Keys

VARIABLES
  data,   \* version of each list in the database
  view    \* version of each list on the screen

viewVars == <<data, view>>

Init ==
  /\ data = [k \in Keys |-> 1]
  /\ view = [k \in Keys |-> 0]

\* Some of the lists change in the database.
Write ==
  /\ data' \in [Keys -> Nat]
  /\ \A k \in Keys : data'[k] \in {data[k], data[k] + 1}
  /\ UNCHANGED view

\* Some of the lists on the screen are replaced by newer ones.
Show ==
  /\ view' \in [Keys -> Nat]
  /\ \A k \in Keys : view[k] <= view'[k] /\ view'[k] <= data[k]
  /\ UNCHANGED data

\* Lists are taken off the screen.
Forget ==
  /\ view' \in [Keys -> Nat]
  /\ \A k \in Keys : view'[k] \in {view[k], 0}
  /\ UNCHANGED data

Next == Write \/ Show \/ Forget

Spec == Init /\ [][Next]_viewVars
=============================================================================
