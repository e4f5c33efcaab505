---------------------------- MODULE MCNavigation ----------------------------
(***************************************************************************)
(* Six instances of Navigation for TLC.  The one of the configuration      *)
(* file follows one tab: script navigation, a current and a stale fetch.   *)
(* Cached follows it deeper, with session histories longer than HMAX and   *)
(* repaints from the cache, one fetch at a time.  Tabs opens, leaves and   *)
(* closes tabs, and a page load may follow a form.  In Forms a page with   *)
(* scripts sends forms, in Failing its loads may fail, in Streaming what   *)
(* has come of a page is painted, also of a superseded one.  `part' says   *)
(* which one a behaviour is of.                                            *)
(***************************************************************************)
EXTENDS Navigation

CONSTANTS S, A

VARIABLE part

Cached == INSTANCE Navigation WITH
    Urls <- {S, A}, Start <- S, HMax <- 2, JsNavMax <- 1, StepDepth <- 1, MaxTabs <- 2,
    Gens <- {0, 1, 2, 3}, MaxJobs <- 1, MaxDoc <- 3, MaxLen <- 3,
    Features <- {"js", "tick", "cache"}

Tabs == INSTANCE Navigation WITH
    Urls <- {S, A}, Start <- S, HMax <- 2, JsNavMax <- 1, StepDepth <- 1, MaxTabs <- 2,
    Gens <- {0, 1, 2, 3}, MaxJobs <- 1, MaxDoc <- 2, MaxLen <- 2,
    Features <- {"tick", "post", "leave", "tabs", "cache"}

Forms == INSTANCE Navigation WITH
    Urls <- {S, A}, Start <- S, HMax <- 2, JsNavMax <- 1, StepDepth <- 1, MaxTabs <- 1,
    Gens <- {0, 1, 2, 3}, MaxJobs <- 1, MaxDoc <- 3, MaxLen <- 2,
    Features <- {"js", "tick", "post"}

Failing == INSTANCE Navigation WITH
    Urls <- {S, A}, Start <- S, HMax <- 2, JsNavMax <- 1, StepDepth <- 1, MaxTabs <- 1,
    Gens <- {0, 1, 2, 3}, MaxJobs <- 1, MaxDoc <- 3, MaxLen <- 3,
    Features <- {"js", "leave"}

Streaming == INSTANCE Navigation WITH
    Urls <- {S, A}, Start <- S, HMax <- 2, JsNavMax <- 1, StepDepth <- 1, MaxTabs <- 1,
    Gens <- {0, 1, 2, 3}, MaxJobs <- 2, MaxDoc <- 3, MaxLen <- 2,
    Features <- {"js", "stream"}

ASSUME /\ NavAssumption /\ Cached!NavAssumption /\ Tabs!NavAssumption
       /\ Forms!NavAssumption /\ Failing!NavAssumption /\ Streaming!NavAssumption

NavInit ==
    \/ part = "page" /\ Init
    \/ part = "cached" /\ Cached!Init
    \/ part = "tabs" /\ Tabs!Init
    \/ part = "forms" /\ Forms!Init
    \/ part = "failing" /\ Failing!Init
    \/ part = "streaming" /\ Streaming!Init

NavNext ==
    /\ UNCHANGED part
    /\ \/ part = "page" /\ Next
       \/ part = "cached" /\ Cached!Next
       \/ part = "tabs" /\ Tabs!Next
       \/ part = "forms" /\ Forms!Next
       \/ part = "failing" /\ Failing!Next
       \/ part = "streaming" /\ Streaming!Next

NavSpec == NavInit /\ [][NavNext]_<<part, vars>>
=============================================================================
