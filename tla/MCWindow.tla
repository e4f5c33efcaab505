------------------------------ MODULE MCWindow ------------------------------
(***************************************************************************)
(* What the window keeps for the user and does for a page, for TLC: the    *)
(* persisted profile (Profile), what the page's handlers ask of the window *)
(* (PageEvents) and the controls of its forms (FormInput).  A behaviour    *)
(* moves one of them, `part', and leaves the others as they begin.         *)
(***************************************************************************)
EXTENDS Window

\* The first site loaded: one of the trusted ones, which are interchangeable,
\* or another.
CONSTANT FirstSites

VARIABLE part

MCKeys == <<1, 2>>

\* Two text controls and a checkbox.
MCTexts == <<"name", "query">>
MCBoxes == <<"agree">>

ASSUME ProfileAssumption /\ Events!EventsAssumption

WindowInit ==
    /\ part \in {"profile", "events", "form"}
    /\ Init
    /\ Events!Init /\ loading \in FirstSites /\ (part # "events" => loading \notin Trusted)
    /\ Form!Init /\ (part # "form" => js)

WindowNext ==
    /\ UNCHANGED part
    /\ \/ /\ part = "profile" /\ Next
          /\ UNCHANGED <<eventVars, formVars>>
       \/ /\ part = "events" /\ Events!Next
          /\ UNCHANGED <<vars, formVars>>
       \/ /\ part = "form" /\ Form!Next
          /\ UNCHANGED <<vars, eventVars>>

WindowSpec == WindowInit /\ [][WindowNext]_<<part, vars, eventVars, formVars>>

\* The pages of the history are interchangeable: no property is about liveness.
PageSymmetry == Permutations(URLs)
=============================================================================
