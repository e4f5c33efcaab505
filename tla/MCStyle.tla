------------------------------- MODULE MCStyle ------------------------------
(***************************************************************************)
(* The style of a small page, for TLC:                                     *)
(*   html > body > h1#top, p.note, (p > em[checked])                       *)
(***************************************************************************)
EXTENDS Integers, Sequences, Selectors

MCUp == <<0, 1, 2, 2, 2, 5>>
MCTag == <<"html", "body", "h1", "p", "p", "em">>
MCId == <<NoName, NoName, "top", NoName, NoName, NoName>>
MCAttrs == <<{}, {}, {}, {}, {}, {"checked"}>>
MCTexts == {3, 6}
MCHeading == [t \in {"html", "body", "h1", "p", "em"} |-> IF t = "h1" THEN 2 ELSE 1]

\* Script moves the theme of the body and the note from one paragraph to the
\* other.
MCDocs == {<<{}, {"dark"}, {}, {"note"}, {}, {}>>, <<{}, {}, {"note"}, {}, {"note"}, {}>>}

MCInline == [e \in 1..6 |->
    IF e = 5 THEN <<Decl("--c", <<"rgb", 7>>), [Decl("width", <<"px", 2>>) EXCEPT !.em = 2]>> ELSE <<>>]

MCNames == {<<"tag", t>> : t \in {"html", "body", "h1", "p", "em"}} \cup {<<"id", "top">>}
             \cup {<<"class", c>> : c \in {"dark", "note"}}
\* No two names collide, or all of them do.
Distinct == [bits |-> [f \in MCNames |-> {f}], key |-> [f \in MCNames |-> f]]
Colliding == [bits |-> [f \in MCNames |-> {<<"all", "">>}], key |-> [f \in MCNames |-> <<"all", "">>]]
-----------------------------------------------------------------------------
HasTag(tag) == [Plain EXCEPT !.tag = tag]
HasId(id) == [Plain EXCEPT !.id = id]
HasClass(cls) == [Plain EXCEPT !.cls = <<cls>>]
Also(c, pseudos) == [c EXCEPT !.pseudos = pseudos]
Sel(parts, comb, decls) == [parts |-> parts, comb |-> <<" ">> \o comb, layer |-> 0, decls |-> decls]
In(layer, sel) == [sel EXCEPT !.layer = layer]

Color(n) == <<Decl("color", <<"rgb", n>>)>>
Font(kind, n) == <<Decl("font", <<kind, n>>)>>
Em(n) == <<[Decl("width", <<"px", n>>) EXCEPT !.em = n]>>
Important(d) == [i \in DOMAIN d |-> [d[i] EXCEPT !.important = 1]]
Var(prop, name, val) == <<[Decl(prop, val) EXCEPT !.var = name]>>
Keyword(prop, n) == <<[Decl(prop, Unset) EXCEPT !.wide = n]>>

\* Combinators and the keys of the index.
SheetNames == <<
    Sel(<<HasTag("h1"), HasTag("p")>>, <<"+">>, Color(1)),
    Sel(<<HasTag("body"), HasClass("note"), HasTag("p")>>, <<">", "~">>, Color(2)),
    Sel(<<HasClass("dark"), HasTag("em")>>, <<" ">>, Font("rel", 3) \o Em(1)),
    Sel(<<HasId("top")>>, <<>>, Em(1)),
    Sel(<<Also(Plain, <<Pseudo("empty")>>)>>, <<>>, Color(3) \o Keyword("width", 2))>>

\* Pseudo-classes.
SheetPseudos == <<
    Sel(<<Also(HasTag("p"), <<Pseudo("last-child")>>)>>, <<>>, Font("rel", 2)),
    Sel(<<Also(Plain, <<With("not", <<HasClass("note"), Also(Plain, <<Pseudo("first-of-type")>>)>>)>>)>>,
        <<>>, Color(1)),
    Sel(<<Also(HasTag("p"), <<With("not", <<Also(Plain, <<Pseudo("last-child")>>)>>)>>)>>, <<>>, Em(3)),
    Sel(<<Also(Plain, <<With("has", <<HasTag("em")>>)>>)>>, <<>>, Em(2)),
    Sel(<<HasTag("p"), Also(Plain, <<Pseudo("checked")>>)>>, <<">">>, Color(5) \o Em(1)),
    Sel(<<Also(Plain, <<Nth(2, 1)>>), Also(HasTag("p"), <<[Nth(0, 1) EXCEPT !.kind = "nth-of-type"]>>)>>,
        <<"+">>, Color(2)),
    Sel(<<Also(Plain, <<With("is", <<HasId("top"), HasTag("em")>>)>>)>>, <<>>, Color(4))>>

\* Layers, importance and the keywords.
SheetLayers == <<
    Sel(<<HasTag("body")>>, <<>>, Font("abs", 3)),
    In(1, Sel(<<HasTag("p")>>, <<>>, Important(Color(1)) \o Em(3))),
    In(2, Sel(<<HasClass("note")>>, <<>>, Important(Color(2)) \o Keyword("width", 1))),
    Sel(<<HasTag("p")>>, <<>>, Color(3) \o Font("abs", 2)),
    Sel(<<HasClass("note")>>, <<>>, Keyword("font", 1)),
    Sel(<<Also(HasClass("note"), <<Pseudo("before")>>)>>, <<>>,
        <<Decl("content", <<"text", 1>>)>> \o Em(1))>>

\* Custom properties.
SheetVars == <<
    Sel(<<Also(Plain, <<Pseudo("root")>>)>>, <<>>, <<Decl("--c", <<"rgb", 1>>)>>),
    Sel(<<HasClass("dark")>>, <<>>, <<Decl("--c", <<"rgb", 2>>)>>),
    Sel(<<HasClass("note")>>, <<>>, <<Decl("--c", <<"rgb", 1>>), Decl("--d", <<"rgb", 5>>)>>),
    Sel(<<Plain>>, <<>>, Var("color", "--c", NoValue)),
    Sel(<<HasTag("em")>>, <<>>, Var("color", "--d", <<"rgb", 6>>)),
    Sel(<<Also(HasTag("p"), <<Pseudo("after")>>)>>, <<>>,
        <<Decl("content", <<"text", 2>>), Decl("--d", <<"rgb", 8>>)>> \o Var("color", "--d", NoValue))>>

MCSheets == {SheetNames, SheetPseudos, SheetLayers, SheetVars}
=============================================================================
