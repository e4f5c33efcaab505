--------------------------- MODULE MCPrefetchPool ---------------------------
(***************************************************************************)
(* Instances of PrefetchPool for TLC.  Modules a and b import the same c   *)
(* and a imports b, so discovery races with the page's own references.     *)
(***************************************************************************)
EXTENDS PrefetchPool

CONSTANTS a, b, c, s, load, batch, t1, t2

UrlsV    == {a, b, c, s}
ModulesV == {a, b, c}
ImportsV == [u \in UrlsV |-> CASE u = a -> <<b, c>> [] u = b -> <<c>> [] OTHER -> <<>>]
ThreadsV == {t1, t2}
RefsV    == {<<[kind |-> "script", url |-> a], [kind |-> "script", url |-> b]>>,
             <<[kind |-> "stylesheet", url |-> s], [kind |-> "script", url |-> a],
               [kind |-> "stylesheet", url |-> s]>>}

\* The load and a thread of the request batch ask for the same addresses.
LoadBatch  == {load, batch}
AsksShared == [x \in LoadBatch |-> {a, c}]
-----------------------------------------------------------------------------
\* A take is answered unless another take of the same URL has consumed its job,
\* and pf_pool_finish ends with every worker joined.
CallsReturn == TakeReturns /\ FinishReturns
=============================================================================
