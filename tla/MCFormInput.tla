----------------------------- MODULE MCFormInput -----------------------------
(***************************************************************************)
(* Two text controls and a checkbox.                                       *)
(***************************************************************************)
EXTENDS FormInput

MCTexts == <<"name", "query">>
MCBoxes == <<"agree">>

\* A page whose scripts run.
ScriptedInit == Init /\ js = TRUE
ScriptedSpec == ScriptedInit /\ [][Next]_vars
==============================================================================
