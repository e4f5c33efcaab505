------------------------------- MODULE Window -------------------------------
(***************************************************************************)
(* What the window keeps for the user and does for a page, put together:   *)
(* the persisted profile (Profile), what the page's handlers ask of the    *)
(* window (PageEvents) and the controls of its forms (FormInput).          *)
(***************************************************************************)
EXTENDS Profile

CONSTANTS
    Origins, Trusted, NavMax, MaxOpens, MaxOrigins, MaxOps, MaxAsks, NoOrigin,  \* PageEvents
    Texts, Boxes, Touched, TextCap, MaxActs                                     \* FormInput

VARIABLES
    page, live, wk, job, loading, depth, store, asks, ops, fired, opened,
    js, win, want, sent, ub, led, begun, stray, press, acts

Events == INSTANCE PageEvents
Form == INSTANCE FormInput

eventVars == <<page, live, wk, job, loading, depth, store, asks, ops, fired, opened>>
formVars == <<js, win, want, sent, ub, led, begun, stray, press, acts>>

\* What the storage holds for a site was written by that site, and a window
\* that opens was asked for by the page shown, in a gesture unless the reply
\* could not carry the request.
OwnRequests == Events!OwnRequests

\* What was collected of a site stays until it is the least recently written
\* one and its place is needed (wst_replace).
KeepsWrites == Events!KeepsWrites

\* Without scripts a submit sends what the user last made of the controls, no
\* freed control is read, and a press begins at most one load.
FormSound == Form!FormSound
=============================================================================
