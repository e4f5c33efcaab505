---------------------------- MODULE StyleResolve ----------------------------
(***************************************************************************)
(* The style of an element while a view of the page is built: the cascade  *)
(* (resolve_core, src/css.c), the custom properties (src/css_vars.c), the  *)
(* path kept between resolutions (cch_element_style_path, src/css_chain.c) *)
(* and the memo of the build (cached_element_style_ref, src/page_view.c).  *)
(*                                                                         *)
(* A build asks for the style of any element, in any order and as often as *)
(* it likes.  Resolving one resolves the ancestors that are not memoised   *)
(* first, from the top, because lengths in em and custom properties come   *)
(* down the tree; each resolution reuses the part of the path it shares    *)
(* with the one before.  Between two builds script may change the classes. *)
(*                                                                         *)
(* A declared value is <<kind, n>>.  The index, the memo and the path may  *)
(* be missing for want of memory, which is chosen at the start; other      *)
(* allocations succeed.                                                    *)
(***************************************************************************)
EXTENDS StyleMatch

CONSTANTS
    Docs,       \* the classes of the elements, as script may leave them
    Sheets,     \* the sheets: sequences of selectors with their declarations
    Inline,     \* the declarations of the style attribute of each element
    Hashes,     \* functions from names to bits and to keys of the index
    Heading,    \* css_ua_heading_em of the tags: what the user agent scales
    MaxLayers,  \* CAR_MAX_LAYERS
    FontChain   \* PV_FONT_CHAIN_MAX

Props == {"font", "width", "color", "content"}
InitialFont == 1    \* CL_INITIAL_FONT_SIZE, the unit of lengths

VARIABLES
    classes,    \* the classes of the elements
    sheet,      \* the parsed sheet
    globals,    \* the custom properties of the document, collected by the parse
    hash,       \* the hash functions
    indexed,    \* the sheet has an index
    keeps,      \* the build has a memo and a path
    memo,       \* pv_style_cache: element -> style, computed font size, variables
    path,       \* cch_path: the views of the last chain resolved, root first
    answer      \* what the last question returned

vars == <<classes, sheet, globals, hash, indexed, keeps, memo, path, answer>>
-----------------------------------------------------------------------------
(***************************************************************************)
(* Custom properties.  A table is a set of <<name, value>>, one value a    *)
(* name; a chain is the tables of the element and its ancestors that       *)
(* declare something new, nearest first.                                   *)
(***************************************************************************)
Names(t) == {b[1] : b \in t}
cvr_get(t, name) == IF name \in Names(t) THEN (CHOOSE b \in t : b[1] = name)[2] ELSE NoValue
cvr_set(t, name, val) == {b \in t : b[1] # name} \cup {<<name, val>>}
SetAll(t, decls) ==
    FoldLeft(LAMBDA s, d : IF d.prop \in Props THEN s ELSE cvr_set(s, d.prop, d.val), t, decls)

FirstOf(s) ==
    LET found == SelectSeq(s, LAMBDA v : v # NoValue) IN IF found = <<>> THEN NoValue ELSE found[1]

\* A scope is a sequence of tables, looked up in that order.
scope_get(scope, name) == FirstOf([i \in DOMAIN scope |-> cvr_get(scope[i], name)])

Body == {e \in Element : Tag[e] = "body"}
Roots == {1} \cup Body

\* A selector that stands for the whole document: one compound of :root, html,
\* body and classes that the root or the body carries.
selector_is_root_scoped(cls, sel) ==
    LET c == sel.parts[1]
    IN  /\ Len(sel.parts) = 1
        /\ c.tag \in {NoName, "html", "body"} /\ c.id = NoName /\ c.attrs = {}
        /\ \A i \in DOMAIN c.pseudos : c.pseudos[i].kind = "root"
        /\ Range(c.cls) \subseteq UNION {cls[e] : e \in Roots}

\* The page-global table: the last declaration of a name by a selector for the
\* document or one that the root or the body matches.
collect_custom_props_scoped(bits, cls, rules) ==
    FoldLeft(LAMBDA t, sel : IF \/ selector_is_root_scoped(cls, sel)
                                \/ \E e \in Roots : cch_element_matches(bits, cls, sel, e)
                             THEN SetAll(t, sel.decls) ELSE t,
             {}, rules)
-----------------------------------------------------------------------------
(***************************************************************************)
(* The cascade.  For every property the slot of its winner so far, and the *)
(* value written; imp is -1 while nobody has won.                          *)
(***************************************************************************)
NoWinner == [imp |-> -1, spec |-> -1, ord |-> -1, em |-> 0, reset |-> FALSE]
Start == [val |-> [p \in Props |-> Unset], slot |-> [p \in Props |-> NoWinner]]

\* Layers compare before specificity; an important declaration reverses them.
car_effective_spec(spec, layer, important) ==
    LET rank == IF layer = 0 THEN MaxLayers + 1 ELSE layer
    IN  (IF important = 1 THEN MaxLayers + 1 - rank ELSE rank) * 65536 + spec
InlineSpec == (MaxLayers + 2) * 65536

Wins(d, spec, ord, w) ==
    \/ d.important > w.imp
    \/ d.important = w.imp /\ (spec > w.spec \/ (spec = w.spec /\ ord >= w.ord))

apply_decl(st, d, spec, ord, kind) ==
    LET w == st.slot[d.prop]
    IN  IF \/ kind \in {"before", "after"} /\ d.prop # "content"
           \/ ~Wins(d, spec, ord, w)
        THEN st
        ELSE [val |-> IF d.wide = 1 THEN st.val ELSE [st.val EXCEPT ![d.prop] = d.val],
              slot |-> [st.slot EXCEPT ![d.prop] =
                  [imp |-> d.important, spec |-> spec, ord |-> ord,
                   em |-> IF d.wide = 1 THEN 0 ELSE d.em,
                   reset |-> d.wide = 1 /\ w.imp >= 0]]]

\* A declaration with var() counts with what it means for the element, and not
\* at all when it means nothing.
Meaning(d, scope) ==
    IF d.var = NoName THEN d ELSE [d EXCEPT !.val = FirstOf(<<scope_get(scope, d.var), d.val>>)]

Declared(decls, scope) ==
    SelectSeq([i \in DOMAIN decls |-> Meaning(decls[i], scope)],
              LAMBDA d : d.prop \in Props /\ d.val # NoValue)

apply_rule(st, decls, sel, ord, kind) ==
    FoldLeft(LAMBDA s, d : apply_decl(s, d,
                 car_effective_spec(specificity(sel), sel.layer, d.important), ord, kind),
             st, decls)

apply_inline(st, decls) ==
    FoldLeft(LAMBDA s, d : apply_decl(s, d, InlineSpec, Len(sheet) + 1, NoName), st, decls)

\* The winning declaration of each custom property among the matched rules; one
\* that repeats what the element inherits is not stored.  What the rules of a
\* generated box declare is for the box.
element_custom_props(rules, chain, which) ==
    LET own == UNION {{[d |-> sheet[i].decls[j],
                        key |-> <<sheet[i].decls[j].important,
                                  car_effective_spec(specificity(sheet[i]), sheet[i].layer,
                                                     sheet[i].decls[j].important), i, j>>] :
                       j \in {j \in DOMAIN sheet[i].decls : sheet[i].decls[j].prop \notin Props}} :
                      i \in {i \in Range(rules) : which # NoName \/ pseudo_kind(sheet[i]) = NoName}}
        less(x, y) == \E k \in 1..4 : x[k] < y[k] /\ \A m \in 1..k - 1 : x[m] = y[m]
        last == {c \in own : ~\E o \in own : o.d.prop = c.d.prop /\ less(c.key, o.key)}
    IN  {<<c.d.prop, c.d.val>> : c \in
            {c \in last : scope_get(Append(chain, globals), c.d.prop) # c.d.val}}

\* The font size an element computes to: its own scale of what it inherits, or
\* the user agent's for the tag.
computed_font_size(val, inherited, tag) ==
    CASE val["font"][1] = "abs" -> InitialFont * val["font"][2]
      [] val["font"][1] = "rel" -> inherited * val["font"][2]
      [] OTHER -> inherited * Heading[tag]

fold_font_relative(st, font) ==
    [p \in Props |-> IF st.slot[p].em = 0 THEN st.val[p]
                     ELSE <<st.val[p][1], st.val[p][2] + st.slot[p].em * (font - InitialFont)>>]

(***************************************************************************)
(* resolve_core for the element (which = NoName) or a generated box.  The  *)
(* declarations are applied once, and again from the start when a keyword  *)
(* took a slot that a loser had written: its slot is then claimed before.  *)
(***************************************************************************)
RulesFor(ctx, which) ==
    SelectSeq(matched_rules(hash, classes, sheet, ctx, indexed), LAMBDA i :
        IF which = NoName THEN pseudo_kind(sheet[i]) # "placeholder"
        ELSE pseudo_kind(sheet[i]) = which)

Cascade(st, rules, scope, inl, which) ==
    apply_inline(
        FoldLeft(LAMBDA s, i : apply_rule(s, Declared(sheet[i].decls, scope), sheet[i], i,
                                   IF which = NoName THEN pseudo_kind(sheet[i]) ELSE NoName),
                 st, rules),
        Declared(inl, scope))

Claimed(st) ==
    [Start EXCEPT !.slot = [p \in Props |->
        IF st.slot[p].reset THEN [st.slot[p] EXCEPT !.reset = FALSE] ELSE NoWinner]]

Replayed(st, rules, scope, inl, which) ==
    IF \E p \in Props : st.slot[p].reset THEN Cascade(Claimed(st), rules, scope, inl, which) ELSE st

Styled(rules, scope, inl, which) ==
    Replayed(Cascade(Start, rules, scope, inl, which), rules, scope, inl, which)

Folded(st, inherited, tag) == fold_font_relative(st, computed_font_size(st.val, inherited, tag))

\* The element's own custom properties, the ones of the style attribute last.
OwnProps(rules, chain, inl, which) == SetAll(element_custom_props(rules, chain, which), inl)

WithOwn(own, e, inherited, chain, rules, inl, which) ==
    [style |-> Folded(Styled(rules, <<own>> \o chain \o <<globals>>, inl, which), inherited, Tag[e]),
     own |-> own]

WithRules(rules, e, inherited, chain, inl, which) ==
    WithOwn(OwnProps(rules, chain, inl, which), e, inherited, chain, rules, inl, which)

resolve_core(ctx, e, inherited, chain, which) ==
    WithRules(RulesFor(ctx, which), e, inherited, chain,
              IF which = NoName THEN Inline[e] ELSE <<>>, which)
-----------------------------------------------------------------------------
\* Mutant of SharedPath: the views above the element's level are taken for its
\* ancestors'.
SharedPathLevel(views, up) ==
    SubSeq(views, 1, IF Len(views) < Len(up) - 1 THEN Len(views) ELSE Len(up) - 1)

\* cch_element_style_path: the part of the path above that is shared is kept,
\* the rest is filled in.  A chain too long for the path is built afresh.
SharedPath(views, up) ==
    LET common == {k \in 0..Len(views) : k <= Len(up) /\ \A i \in 1..k : views[i].node = up[i]}
    IN  SubSeq(views, 1, CHOOSE k \in common : \A j \in common : j <= k)

PathTo(views, up) ==
    LET kept == SharedPath(views, up)
    IN  Extend(hash.bits, classes, kept, SubSeq(up, Len(kept) + 1, Len(up)), TRUE)

OnPath(e) == keeps /\ Len(Chain[e]) <= ChainMax

PathAfter(views, e) == IF OnPath(e) THEN PathTo(views, Reverse(Chain[e])) ELSE views

\* The siblings belong to the subject and are not kept with its view.
WithSibs(views) == [path |-> views, sibs |-> SibViews(classes, Last(views))]

ContextOf(views, e) ==
    IF OnPath(e) THEN WithSibs(views) ELSE build_chain(hash.bits, classes, e, TRUE)

\* One resolution: what the memo holds of the element afterwards.
MemoEntry(e, res, inherited, chain) ==
    [el |-> e, style |-> res.style, font |-> computed_font_size(res.style, inherited, Tag[e]),
     vars |-> IF res.own # {} THEN <<res.own>> \o chain ELSE chain]

Resolved(views, e, inherited, chain) ==
    MemoEntry(e, resolve_core(ContextOf(views, e), e, inherited, chain, NoName), inherited, chain)

InMemo(e) == \E m \in memo : m.el = e
Memo(e) == CHOOSE m \in memo : m.el = e

\* The element and its ancestors up to one that is memoised, nearest first, at
\* most FontChain of them: none when the element is.
Unresolved(e) ==
    LET up == Chain[e]
        stops == {k \in 0..Len(up) : \/ k = Len(up) \/ k = FontChain \/ InMemo(up[k + 1])}
    IN  SubSeq(up, 1, CHOOSE k \in stops : \A j \in stops : k <= j)

NoParent == [font |-> InitialFont, vars |-> <<>>]

\* From the top down, each level on the path the one above it leaves and with
\* what its parent hands down.
ResolveLevel(st, e, views) ==
    [path |-> views,
     done |-> Append(st.done, Resolved(views, e, Last(st.done).font, Last(st.done).vars))]

Stack(todo, above) ==
    FoldLeft(LAMBDA st, f : ResolveLevel(st, f, PathAfter(st.path, f)),
             [path |-> path, done |-> <<IF InMemo(above) THEN Memo(above) ELSE NoParent>>],
             Reverse(todo))

StackOf(e, todo) == Stack(todo, IF todo = <<>> THEN e ELSE Up[Last(todo)])

\* What the memo and the path become when the stack is resolved.
cached_element_style_ref(stack) ==
    /\ memo' = IF keeps THEN memo \cup Range(Tail(stack.done)) ELSE memo
    /\ path' = stack.path

AskElement(e) ==
    /\ LET stack == StackOf(e, Unresolved(e))
       IN  /\ cached_element_style_ref(stack)
           /\ answer' = [el |-> e, which |-> NoName, style |-> Last(stack.done).style]
    /\ UNCHANGED <<classes, sheet, globals, hash, indexed, keeps>>

\* cached_pseudo_style: the generated box inherits from its element, by the
\* memo; without one it gets the initial size and no variables.
cached_pseudo_style(e, from, which) ==
    resolve_core(build_chain(hash.bits, classes, e, TRUE), e, from.font, from.vars, which).style

AskPseudo(e, which) ==
    /\ LET stack == StackOf(e, Unresolved(e))
       IN  /\ cached_element_style_ref(stack)
           /\ answer' = [el |-> e, which |-> which,
                         style |-> cached_pseudo_style(e, IF keeps THEN Last(stack.done) ELSE NoParent, which)]
    /\ UNCHANGED <<classes, sheet, globals, hash, indexed, keeps>>

NoAnswer == [el |-> 0, which |-> NoName, style |-> Start.val]

\* A build begins with an empty memo and ends with them freed; script runs in
\* between.
Rebuild(c) ==
    /\ classes' = c
    /\ globals' = collect_custom_props_scoped(hash.bits, c, sheet)
    /\ memo' = {} /\ path' = <<>> /\ answer' = NoAnswer
    /\ UNCHANGED <<sheet, hash, indexed, keeps>>

Init ==
    /\ classes \in Docs /\ sheet \in Sheets /\ hash \in Hashes
    /\ indexed \in BOOLEAN /\ keeps \in BOOLEAN
    /\ globals = collect_custom_props_scoped(hash.bits, classes, sheet)
    /\ memo = {} /\ path = <<>> /\ answer = NoAnswer

Next ==
    \/ \E e \in Element : AskElement(e)
    \/ \E e \in Element, which \in {"before", "after"} : AskPseudo(e, which)
    \/ \E c \in Docs : Rebuild(c)

Spec == Init /\ [][Next]_vars
-----------------------------------------------------------------------------
(***************************************************************************)
(* What the page should look like, without index, filter, path or memo.    *)
(***************************************************************************)
\* The selectors that match in a context built for the element alone.
Applies(i, e) ==
    LET ctx == build_chain(hash.bits, classes, e, TRUE)
        bare(views) == [k \in DOMAIN views |-> [views[k] EXCEPT !.filtered = FALSE]]
    IN  csel_matches(hash.bits, classes, sheet[i],
                     [path |-> bare(ctx.path), sibs |-> bare(ctx.sibs)], TRUE)

\* A declaration with its precedence: importance, layer, specificity, place in
\* the sheet, place in the rule.
Ranked(d, layer, spec, i, j) ==
    [d |-> d, rank |-> <<d.important, IF d.important = 1 /\ layer <= MaxLayers + 1 THEN -layer ELSE layer,
                         spec, i, j>>]

Candidates(e, which) ==
    UNION {{Ranked(sheet[i].decls[j], IF sheet[i].layer = 0 THEN MaxLayers + 1 ELSE sheet[i].layer,
                   specificity(sheet[i]), i, j) : j \in
               {j \in DOMAIN sheet[i].decls : \/ pseudo_kind(sheet[i]) = which
                                              \/ which = NoName /\ sheet[i].decls[j].prop = "content"}} :
           i \in {i \in DOMAIN sheet : pseudo_kind(sheet[i]) # "placeholder" /\ Applies(i, e)}}
    \cup IF which # NoName THEN {}
         ELSE {Ranked(Inline[e][j], MaxLayers + 2, 0, 0, j) : j \in DOMAIN Inline[e]}

Outranks(x, y) == \E k \in 1..5 : x.rank[k] > y.rank[k] /\ \A m \in 1..k - 1 : x.rank[m] = y.rank[m]
Winning(S) == CHOOSE c \in S : \A o \in S \ {c} : Outranks(c, o)

\* A custom property has the value of the nearest element that declares it, the
\* style attribute before the sheet, and else the one of the root or the body.
InlineFirst(all) ==
    {[c EXCEPT !.rank[1] = IF c.rank[2] = MaxLayers + 2 THEN 2 ELSE @] : c \in all}

WinningVal(S) == IF S = {} THEN NoValue ELSE Winning(S).d.val

OwnVar(e, which, name) == WinningVal(InlineFirst({c \in Candidates(e, which) : c.d.prop = name}))

DocumentVar(name) ==
    LET decls == FoldLeft(LAMBDA s, i :
            IF pseudo_kind(sheet[i]) = NoName /\ \E e \in Roots : Applies(i, e)
            THEN s \o SelectSeq(sheet[i].decls, LAMBDA d : d.prop = name) ELSE s,
            <<>>, [i \in DOMAIN sheet |-> i])
    IN  IF decls = <<>> THEN NoValue ELSE Last(decls).val

VarOf(e, which, name) ==
    FirstOf((IF which = NoName THEN <<>> ELSE <<OwnVar(e, which, name)>>)
              \o [k \in DOMAIN Chain[e] |-> OwnVar(Chain[e][k], NoName, name)]
              \o <<DocumentVar(name)>>)

Meant(e, which, d) == IF d.var = NoName THEN d.val ELSE FirstOf(<<VarOf(e, which, d.var), d.val>>)

Chosen(S, p) == IF S = {} \/ Winning(S).d.wide = 1 THEN Decl(p, Unset) ELSE Winning(S).d

Effective(e, which, cands, p) ==
    Chosen({c \in {[c EXCEPT !.d.val = Meant(e, which, c.d)] : c \in {c \in cands : c.d.prop = p}} :
               c.d.val # NoValue}, p)

Scaled(val, inherited, ua) ==
    IF val[1] = "abs" THEN InitialFont * val[2]
    ELSE inherited * (IF val[1] = "rel" THEN val[2] ELSE ua)

FontOf[e \in 0..N] ==
    IF e = 0 THEN InitialFont
    ELSE Scaled(Effective(e, NoName, Candidates(e, NoName), "font").val, FontOf[Up[e]], Heading[Tag[e]])

\* Lengths in em are in the size the element, or the generated box, computes to:
\* a box has the size of its element unless it declares one.
InPixels(d, font) == IF d.em = 0 THEN d.val ELSE <<d.val[1], d.val[2] + d.em * (font - InitialFont)>>

Wanted(e, which, cands, font) ==
    [p \in Props |-> InPixels(Effective(e, which, cands, p),
        IF which = NoName THEN font ELSE Scaled(Effective(e, which, cands, "font").val, font, 1))]

StyleWanted(e, which) == Wanted(e, which, Candidates(e, which), FontOf[e])
-----------------------------------------------------------------------------
\* Whatever was asked before, and with or without the index, the memo and the
\* path, the style of an element is the one of the winning declarations.
StyleTrue ==
    answer.el # 0 /\ answer.which = NoName => answer.style = StyleWanted(answer.el, NoName)

\* The same of a generated box, when there is a memo to inherit from.
BoxTrue(e) == answer.el = e /\ answer.which # NoName /\ keeps => answer.style = StyleWanted(e, answer.which)
BoxesTrue == \A e \in Element : Heading[Tag[e]] = 1 => BoxTrue(e)
HeadingBoxesTrue == \A e \in Element : BoxTrue(e)

\* querySelector and the cascade agree on which elements a selector matches.
QueryAgrees ==
    answer = NoAnswer => \A e \in Element, i \in DOMAIN sheet :
        cch_element_matches_any(hash.bits, classes, <<sheet[i]>>, e)
          <=> pseudo_kind(sheet[i]) = NoName /\ Applies(i, e)

(***************************************************************************)
(* What a selector means in CSS, on the document itself.                   *)
(***************************************************************************)
TruePlace(S, e) ==
    [nth |-> Cardinality({f \in S : f <= e}), of |-> Cardinality(S)]
TrueView(e) ==
    [fill_css_node(classes, e) EXCEPT
        !.place = TruePlace(Siblings(e), e),
        !.typed = TruePlace({f \in Siblings(e) : Tag[f] = Tag[e]}, e),
        !.kids = count_children(e)]

LeftOf(comb, e) ==
    CASE comb = ">" -> {Up[e]} \ {0}
      [] comb = " " -> Range(Chain[e]) \ {e}
      [] comb = "+" -> {f \in Siblings(e) : f < e /\ ~\E g \in Siblings(e) : f < g /\ g < e}
      [] comb = "~" -> {f \in Siblings(e) : f < e}

TrueCompound(c, e) ==
    /\ Named(c, TrueView(e))
    /\ \A i \in DOMAIN c.pseudos :
          IF c.pseudos[i].kind # "has" THEN pseudo_matches(classes, c.pseudos[i], TrueView(e), TRUE)
          ELSE \E f \in Element, k \in DOMAIN c.pseudos[i].subs :
                  e \in Range(Tail(Chain[f])) /\ sub_sel_matches(c.pseudos[i].subs[k], TrueView(f))

CssMatches(sel, e) ==
    LET fits[k \in DOMAIN sel.parts, f \in Element] ==
            TrueCompound(sel.parts[k], f) /\ (k > 1 => \E g \in LeftOf(sel.comb[k], f) : fits[k - 1, g])
    IN  fits[Len(sel.parts), e]

\* The selectors whose every part the context shows: siblings of the subject
\* only, and no of-type position of theirs.
Kinds(c) == UNION {{c.pseudos[i].kind} \cup UNION {{c.pseudos[i].subs[k].pseudos[q].kind :
                        q \in DOMAIN c.pseudos[i].subs[k].pseudos} : k \in DOMAIN c.pseudos[i].subs} :
                   i \in DOMAIN c.pseudos}
InContext(sel) ==
    \A k \in 2..Len(sel.parts) : sel.comb[k] \in {"+", "~"} =>
        /\ \A j \in k..Len(sel.parts) : sel.comb[j] \in {"+", "~"}
        /\ Kinds(sel.parts[k - 1]) \cap {"first-of-type", "last-of-type", "nth-of-type"} = {}
WithinBounds(e) ==
    /\ Len(Chain[e]) <= ChainMax
    /\ \A f \in Range(Chain[e]) : Cardinality(Siblings(f)) <= NthMax /\ Cardinality(Siblings(f)) <= SibMax + 1

\* The walk of :has() comes to every descendant of f.
HasReaches(f) == {g \in Element : f \in Range(Tail(Chain[g]))} \subseteq Visited(f)
HasWithin(sel, e) ==
    \A k \in DOMAIN sel.parts : "has" \in Kinds(sel.parts[k]) =>
        \A f \in (IF k = Len(sel.parts) THEN {e} ELSE Range(Chain[e]) \cup Siblings(e)) : HasReaches(f)

\* :not() of a position: one that is unknown fails the argument, so that the
\* element matches.
Positional == {"first-child", "last-child", "only-child", "first-of-type", "last-of-type"}
Negates(sel) ==
    \E k \in DOMAIN sel.parts : \E i \in DOMAIN sel.parts[k].pseudos :
        LET p == sel.parts[k].pseudos[i]
        IN  /\ p.kind = "not"
            /\ \E j \in DOMAIN p.subs : \E q \in DOMAIN p.subs[j].pseudos :
                   p.subs[j].pseudos[q].kind \in Positional

\* "Any bound exceeded: the selector does not match, never a false positive"
\* (spec/css_chain.md).
NeverAtAll ==
    answer = NoAnswer => \A e \in Element, i \in DOMAIN sheet : Applies(i, e) => CssMatches(sheet[i], e)

\* A bound or a part the context does not show makes a selector match less,
\* never more, unless it negates a position; without either it matches what
\* CSS says.
NeverMore ==
    answer = NoAnswer => \A e \in Element, i \in DOMAIN sheet :
        Applies(i, e) => \/ CssMatches(sheet[i], e)
                         \/ Negates(sheet[i]) /\ ~(InContext(sheet[i]) /\ WithinBounds(e))
MatchesCss ==
    answer = NoAnswer => \A e \in Element, i \in DOMAIN sheet :
        /\ InContext(sheet[i]) /\ WithinBounds(e) /\ HasWithin(sheet[i], e)
        /\ CssMatches(sheet[i], e)
        => Applies(i, e)
=============================================================================
