------------------------------- MODULE MCPage -------------------------------
(***************************************************************************)
(* A page in its worker, for TLC: the live document (Dom) and the style of *)
(* its elements (StyleResolve).  A behaviour moves one of them, `part',    *)
(* and leaves the other as it begins.                                      *)
(***************************************************************************)
EXTENDS Dom, MCStyle

\* A small page: html, an element with an id, and its text; the markup is a
\* named element that holds an element, followed by another named element.
E(u, x) == [kind |-> "element", up |-> u, id |-> x]
T(u) == [kind |-> "text", up |-> u, id |-> NoId]
MCPage == <<E(0, NoId), E(1, "x"), T(2)>>
MCFrags == {<<E(0, "x"), E(1, NoId), E(0, "x")>>, <<E(0, "x"), T(1)>>}

VARIABLES
    part,
    classes, sheet, globals, hash, indexed, keeps, memo, path, answer

\* Deep and wide enough for the tree, but for :has(), which sees one level less.
Style == INSTANCE StyleResolve WITH
    N <- 6, Up <- MCUp, Tag <- MCTag, Id <- MCId, Attrs <- MCAttrs, Texts <- MCTexts,
    ChainMax <- 4, SibMax <- 2, NthMax <- 3, HasDepth <- 2, HasStack <- 3,
    Docs <- MCDocs, Sheets <- MCSheets, Inline <- MCInline, Hashes <- {Distinct, Colliding},
    Heading <- MCHeading, MaxLayers <- 2, FontChain <- 4

\* Every bound is met: the last element is one level too deep for the chain and
\* for the path, the third child of the body has one sibling too many before it,
\* the three have no known position, and :has() leaves the third out.
Narrow == INSTANCE StyleResolve WITH
    N <- 6, Up <- MCUp, Tag <- MCTag, Id <- MCId, Attrs <- MCAttrs, Texts <- MCTexts,
    ChainMax <- 3, SibMax <- 1, NthMax <- 1, HasDepth <- 2, HasStack <- 2,
    Docs <- MCDocs, Sheets <- {SheetNames, SheetPseudos}, Inline <- MCInline, Hashes <- {Distinct},
    Heading <- MCHeading, MaxLayers <- 2, FontChain <- 4

styleVars == <<classes, sheet, globals, hash, indexed, keeps, memo, path, answer>>

PageInit ==
    /\ part \in {"dom", "style", "narrow"}
    /\ Init
    /\ \/ /\ part = "style" /\ Style!Init
       \/ /\ part = "narrow" /\ Narrow!Init
       \/ /\ part = "dom"
          /\ classes = <<>> /\ sheet = <<>> /\ globals = {} /\ hash = <<>>
          /\ indexed = FALSE /\ keeps = FALSE /\ memo = {} /\ path = <<>> /\ answer = NoName

PageNext ==
    /\ UNCHANGED part
    /\ \/ /\ part = "dom" /\ Next
          /\ UNCHANGED styleVars
       \/ /\ part = "style" /\ Style!Next
          /\ UNCHANGED vars
       \/ /\ part = "narrow" /\ Narrow!Next
          /\ UNCHANGED vars

PageSpec == PageInit /\ [][PageNext]_<<part, vars, styleVars>>
-----------------------------------------------------------------------------
\* Whatever was asked before, in whatever order, with or without the index, the
\* filter, the memo and the path, the style of an element and of its generated
\* boxes is the one of the winning declarations.
StyleTrue ==
    /\ part = "style" => Style!StyleTrue /\ Style!BoxesTrue
    /\ part = "narrow" => Narrow!StyleTrue /\ Narrow!BoxesTrue

\* The same of the generated boxes of headings, which the code scales twice: not
\* an invariant.
HeadingBoxes == part = "style" => Style!HeadingBoxesTrue

\* A selector matches what CSS says, but less where a bound or a part that the
\* context does not show stands in the way, or more where it negates a position
\* that is unknown; and querySelector and the cascade agree, although the one
\* skips the positions when it sees no need of them.
SelectorsTrue ==
    /\ part = "style" => Style!NeverMore /\ Style!MatchesCss /\ Style!QueryAgrees
    /\ part = "narrow" => Narrow!NeverMore /\ Narrow!MatchesCss /\ Narrow!QueryAgrees

\* No bound makes a selector match more: not an invariant.
NeverFalse == part = "narrow" => Narrow!NeverAtAll
=============================================================================
