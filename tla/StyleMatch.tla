----------------------------- MODULE StyleMatch -----------------------------
(***************************************************************************)
(* Which selectors of a sheet an element matches (src/css_select.c,        *)
(* css_index.c and css_chain.c).                                           *)
(*                                                                         *)
(* The matcher never sees the document.  It sees a context built for one   *)
(* element: the views of its ancestors, and of the siblings before it.     *)
(* Three shortcuts stand in front of the comparison of names: the index of *)
(* the sheet proposes candidates by one name of the subject, a filter of   *)
(* hashed names refuses a selector that needs an ancestor nobody is, and a *)
(* context is built without the positions when no selector reads them.     *)
(*                                                                         *)
(* Names are values, compared for equality: reading an identifier, folding *)
(* a long one and lowering a tag are left out, and an attribute is present *)
(* or absent.  The tree is fixed, the classes of its elements are not.     *)
(***************************************************************************)
EXTENDS Integers, Sequences, SequencesExt, FiniteSets, Selectors

CONSTANTS
    N,          \* the elements of the document, in document order
    Up,         \* the parent of each, 0 for the root
    Tag, Id,    \* the tag of each, and its id or NoName
    Attrs,      \* the attributes of each
    Texts,      \* the elements that hold text
    ChainMax,   \* CCH_CHAIN_MAX
    SibMax,     \* CCH_SIB_MAX
    NthMax,     \* CCH_NTH_MAX
    HasDepth,   \* HAS_MAX_DEPTH
    HasStack    \* the nodes the walk of :has() keeps for later

Element == 1..N

Siblings(e) == {f \in Element : Up[f] = Up[e]}
Kids(e) == {f \in Element : Up[f] = e}

\* An element and what is above it, nearest first, as far as the root.
Chain[e \in 0..N] == IF e = 0 THEN <<>> ELSE <<e>> \o Chain[Up[e]]

\* The elements before e under the same parent, nearest first.
Before(e) == Reverse(SelectSeq([i \in Element |-> i], LAMBDA f : f \in Siblings(e) /\ f < e))

\* The pseudo-elements of the cascade.
Generated == {"before", "after", "placeholder"}

Subject(sel) == sel.parts[Len(sel.parts)]

Sum(s) == FoldLeft(LAMBDA x, y : x + y, 0, s)
Largest(s) == FoldLeft(LAMBDA x, y : IF y > x THEN y ELSE x, 0, s)

sub_spec(c) ==
    (IF c.id # NoName THEN 100 ELSE 0) + (IF Len(c.cls) > 0 THEN 10 ELSE 0)
      + 10 * Cardinality(c.attrs) + (IF c.tag # NoName THEN 1 ELSE 0)

pseudo_spec(p) ==
    CASE p.kind = "where" -> 0
      [] p.kind \in {"not", "is"} -> Largest([i \in DOMAIN p.subs |-> sub_spec(p.subs[i])])
      [] OTHER -> 10

compound_spec(c) ==
    (IF c.id # NoName THEN 100 ELSE 0) + 10 * (Len(c.cls) + Cardinality(c.attrs))
      + Sum([i \in DOMAIN c.pseudos |-> pseudo_spec(c.pseudos[i])])
      + (IF c.tag # NoName THEN 1 ELSE 0)

specificity(sel) == Sum([i \in DOMAIN sel.parts |-> compound_spec(sel.parts[i])])
-----------------------------------------------------------------------------
(***************************************************************************)
(* The filter: each name of a tag, an id or a class sets a few bits of a   *)
(* word, and bits(feature) is any function.                                *)
(***************************************************************************)
Features(tag, id, cls) ==
    (IF tag = NoName THEN {} ELSE {<<"tag", tag>>}) \cup
    (IF id = NoName THEN {} ELSE {<<"id", id>>}) \cup
    {<<"class", c>> : c \in cls}

Bits(bits, features) == UNION {bits[f] : f \in features}

compound_req(bits, c) == Bits(bits, Features(c.tag, c.id, Range(c.cls)))

compute_subj_req(bits, sel) == compound_req(bits, Subject(sel))

\* The compounds reached from the subject through descendant and child
\* combinators alone must be found above it.
compute_anc_req(bits, sel) ==
    UNION {compound_req(bits, sel.parts[j]) :
        j \in {j \in 1..Len(sel.parts) - 1 :
                  \A i \in j + 1..Len(sel.parts) : sel.comb[i] \in {" ", ">"}}}
-----------------------------------------------------------------------------
(***************************************************************************)
(* The view of one element.  A position of 0 and a count of -1 are unknown.*)
(***************************************************************************)
\* Mutant of Place: a position past the bound is taken for the last one counted.
PlaceCapped(before, after) ==
    [nth |-> 1 + (IF before > NthMax THEN NthMax ELSE before),
     of |-> 1 + (IF before + after > NthMax THEN NthMax ELSE before + after)]

Place(before, after) ==
    IF before > NthMax \/ after > NthMax - before
    THEN [nth |-> 0, of |-> 0]
    ELSE [nth |-> before + 1, of |-> before + 1 + after]

sibling_position(e) ==
    Place(Cardinality({f \in Siblings(e) : f < e}), Cardinality({f \in Siblings(e) : f > e}))

sibling_type_position(e) ==
    LET same == {f \in Siblings(e) : Tag[f] = Tag[e]}
    IN  Place(Cardinality({f \in same : f < e}), Cardinality({f \in same : f > e}))

count_children(e) == Cardinality(Kids(e)) + (IF e \in Texts THEN 1 ELSE 0)

Unknown == [nth |-> 0, of |-> 0]

fill_css_node(classes, e) ==
    [node |-> e, tag |-> Tag[e], id |-> Id[e], cls |-> classes[e], attrs |-> Attrs[e],
     place |-> Unknown, typed |-> Unknown, kids |-> -1,
     filtered |-> FALSE, own |-> {}, above |-> {}]

\* A view of the chain also carries the bits of its own names and of those of
\* everything above it.
ChainView(bits, classes, e, above, structural) ==
    [fill_css_node(classes, e) EXCEPT
        !.filtered = TRUE,
        !.own = Bits(bits, Features(Tag[e], Id[e], classes[e])),
        !.above = above,
        !.place = IF structural THEN sibling_position(e) ELSE @,
        !.typed = IF structural THEN sibling_type_position(e) ELSE @,
        !.kids = IF structural THEN count_children(e) ELSE @]

\* The views of the siblings before the subject, nearest first: a position
\* follows from the subject's, an of-type one is never filled in.
SibViews(classes, subject) ==
    LET before == Before(subject.node)
        near == SubSeq(before, 1, IF Len(before) < SibMax THEN Len(before) ELSE SibMax)
    IN  [j \in DOMAIN near |->
            [fill_css_node(classes, near[j]) EXCEPT
                !.place = IF subject.place.nth > j
                          THEN [nth |-> subject.place.nth - j, of |-> subject.place.of] ELSE @,
                !.kids = count_children(near[j])]]

\* Views of a path from its top down, added to the ones that are there.
Extend(bits, classes, path, tail, structural) ==
    FoldLeft(LAMBDA p, e : Append(p, ChainView(bits, classes, e,
                               IF p = <<>> THEN {} ELSE Last(p).above \cup Last(p).own,
                               structural)),
             path, tail)

\* build_chain: the nearest ChainMax of the element and its ancestors.
build_chain(bits, classes, e, structural) ==
    LET up == Chain[e]
        near == SubSeq(up, 1, IF Len(up) < ChainMax THEN Len(up) ELSE ChainMax)
        path == Extend(bits, classes, <<>>, Reverse(near), structural)
    IN  [path |-> path, sibs |-> IF structural THEN SibViews(classes, Last(path)) ELSE <<>>]
-----------------------------------------------------------------------------
(***************************************************************************)
(* Matching in a context.  A place of the context is a view of the path,   *)
(* the subject last, or a sibling before the subject.                      *)
(***************************************************************************)
Places(ctx) == ({"path"} \X DOMAIN ctx.path) \cup ({"sib"} \X DOMAIN ctx.sibs)
At(ctx, p) == IF p[1] = "path" THEN ctx.path[p[2]] ELSE ctx.sibs[p[2]]

\* A sibling shares the parent of the subject; of the path only the subject
\* has siblings before it.
Level(ctx, p) == IF p[1] = "path" THEN p[2] ELSE Len(ctx.path)
Passed(ctx, p) == IF p[1] = "sib" THEN p[2] ELSE IF p[2] = Len(ctx.path) THEN 0 ELSE Len(ctx.sibs)

\* Mutant of Left: + reaches over the siblings in between.
LeftNotAdjacent(ctx, comb, p) ==
    CASE comb = ">" -> {q \in Places(ctx) : q = <<"path", Level(ctx, p) - 1>>}
      [] comb = " " -> {q \in Places(ctx) : q[1] = "path" /\ q[2] < Level(ctx, p)}
      [] OTHER -> {q \in Places(ctx) : q[1] = "sib" /\ q[2] > Passed(ctx, p)}

Left(ctx, comb, p) ==
    CASE comb = ">" -> {q \in Places(ctx) : q = <<"path", Level(ctx, p) - 1>>}
      [] comb = " " -> {q \in Places(ctx) : q[1] = "path" /\ q[2] < Level(ctx, p)}
      [] comb = "+" -> {q \in Places(ctx) : q = <<"sib", Passed(ctx, p) + 1>>}
      [] comb = "~" -> {q \in Places(ctx) : q[1] = "sib" /\ q[2] > Passed(ctx, p)}

nth_matches(a, b, i) ==
    /\ i > 0
    /\ IF a = 0 THEN i = b
       ELSE IF a > 0 THEN i >= b /\ (i - b) % a = 0
       ELSE i <= b /\ (b - i) % (-a) = 0

FromEnd(pl) == IF pl.nth > 0 THEN pl.of - pl.nth + 1 ELSE 0

Named(c, view) ==
    /\ c.tag \in {NoName, view.tag}
    /\ c.id \in {NoName, view.id}
    /\ Range(c.cls) \subseteq view.cls
    /\ c.attrs \subseteq view.attrs

\* The pseudo-classes without arguments.  No element is hovered, focused,
\* visited or a target when a page is styled.
simple_pseudo(kind, view) ==
    CASE kind = "root" -> view.tag = "html"
      [] kind = "first-child" -> view.place.nth = 1
      [] kind = "last-child" -> view.place.nth > 0 /\ view.place.nth = view.place.of
      [] kind = "only-child" -> view.place = [nth |-> 1, of |-> 1]
      [] kind = "first-of-type" -> view.typed.nth = 1
      [] kind = "last-of-type" -> view.typed.nth > 0 /\ view.typed.nth = view.typed.of
      [] kind = "empty" -> view.kids = 0
      [] kind = "checked" -> "checked" \in view.attrs
      [] OTHER -> FALSE

sub_sel_matches(c, view) ==
    Named(c, view) /\ \A i \in DOMAIN c.pseudos : simple_pseudo(c.pseudos[i].kind, view)

\* :has() walks the document below the element, to a depth.  The children of a
\* node, its text (0) among them, are put on a stack as far as it has room, and
\* the ones that find none are not visited.
ChildNodes(e) ==
    (IF e \in Texts THEN <<0>> ELSE <<>>) \o
    SelectSeq([i \in Element |-> i], LAMBDA f : f \in Kids(e))

Pushed(stack, nodes) ==
    LET room == HasStack - Len(stack)
    IN  stack \o SubSeq(nodes, 1, IF Len(nodes) < room THEN Len(nodes) ELSE room)

Visited(e) ==
    LET seen[stack \in Seq(0..N)] ==
            IF stack = <<>> THEN {}
            ELSE LET cur == Last(stack)
                     deeper == cur # 0 /\ Len(Chain[cur]) - Len(Chain[e]) < HasDepth
                 IN  ({cur} \ {0}) \cup
                     seen[Pushed(Front(stack), IF deeper THEN ChildNodes(cur) ELSE <<>>)]
    IN  seen[Pushed(<<>>, ChildNodes(e))]

\* It compares the names of the argument only.
has_matches(classes, subs, e) ==
    \E f \in Visited(e), i \in DOMAIN subs : Named(subs[i], fill_css_node(classes, f))

pseudo_matches(classes, p, view, generated) ==
    CASE p.kind = "nth-child" -> nth_matches(p.a, p.b, view.place.nth)
      [] p.kind = "nth-last-child" -> nth_matches(p.a, p.b, FromEnd(view.place))
      [] p.kind = "nth-of-type" -> nth_matches(p.a, p.b, view.typed.nth)
      [] p.kind = "not" -> \A i \in DOMAIN p.subs : ~sub_sel_matches(p.subs[i], view)
      [] p.kind \in {"is", "where"} -> \E i \in DOMAIN p.subs : sub_sel_matches(p.subs[i], view)
      [] p.kind = "has" -> has_matches(classes, p.subs, view.node)
      [] p.kind \in Generated -> generated
      [] OTHER -> simple_pseudo(p.kind, view)

compound_matches(classes, c, view, generated) ==
    Named(c, view) /\ \A i \in DOMAIN c.pseudos :
                          pseudo_matches(classes, c.pseudos[i], view, generated)

\* complex_matches goes left from the subject and tries every place that a
\* combinator allows: fits[k, p] says that the first k compounds can end in p.
\* The views of the chain are refused on the bits of their own names first.
csel_matches(bits, classes, sel, ctx, generated) ==
    LET fits[k \in DOMAIN sel.parts, p \in Places(ctx)] ==
            /\ At(ctx, p).filtered => compound_req(bits, sel.parts[k]) \subseteq At(ctx, p).own
            /\ compound_matches(classes, sel.parts[k], At(ctx, p), generated)
            /\ k > 1 => \E q \in Left(ctx, sel.comb[k], p) : fits[k - 1, q]
    IN  fits[Len(sel.parts), <<"path", Len(ctx.path)>>]

csel_anc_reject(bits, sel, view) ==
    /\ view.filtered
    /\ \/ ~(compute_anc_req(bits, sel) \subseteq view.above)
       \/ ~(compute_subj_req(bits, sel) \subseteq view.own)

\* The pseudo-element the subject of a selector stands for.
pseudo_kind(sel) ==
    LET gen == SelectSeq(Subject(sel).pseudos, LAMBDA p : p.kind \in Generated)
    IN  IF gen = <<>> THEN NoName ELSE Last(gen).kind
-----------------------------------------------------------------------------
(***************************************************************************)
(* The index of the sheet: each selector under one name of its subject, or *)
(* under none.  key(feature) is any function: a collision adds candidates. *)
(***************************************************************************)
KeyOf(sel) ==
    LET c == Subject(sel)
    IN  IF c.id # NoName THEN <<"id", c.id>>
        ELSE IF c.cls # <<>> THEN <<"class", c.cls[1]>>
        ELSE IF c.tag # NoName THEN <<"tag", c.tag>>
        ELSE <<"universal", NoName>>

InOrder(sheet) == [i \in DOMAIN sheet |-> i]

cix_candidates(key, sheet, view) ==
    LET mine == {key[f] : f \in Features(view.tag, view.id, view.cls)}
    IN  SelectSeq(InOrder(sheet), LAMBDA i :
            KeyOf(sheet[i])[1] = "universal" \/ key[KeyOf(sheet[i])] \in mine)

\* resolve_core, first pass: the selectors of the sheet that match, in the order
\* of the document, with or without the index.
matched_rules(hash, classes, sheet, ctx, indexed) ==
    SelectSeq(IF indexed THEN cix_candidates(hash.key, sheet, Last(ctx.path)) ELSE InOrder(sheet),
              LAMBDA i : /\ ~csel_anc_reject(hash.bits, sheet[i], Last(ctx.path))
                         /\ csel_matches(hash.bits, classes, sheet[i], ctx, TRUE))
-----------------------------------------------------------------------------
(***************************************************************************)
(* querySelector: a list of selectors against one element, each in a       *)
(* context that has positions only when the selector reads them.           *)
(***************************************************************************)
Structural == {"first-child", "last-child", "only-child", "nth-child", "nth-last-child",
               "first-of-type", "last-of-type", "nth-of-type", "empty", "has"}

\* Mutant of csel_needs_structure: the arguments of :not() are not looked at.
csel_needs_structure_outer(sel) ==
    \E i \in DOMAIN sel.parts :
        \/ i > 1 /\ sel.comb[i] \in {"+", "~"}
        \/ \E j \in DOMAIN sel.parts[i].pseudos : sel.parts[i].pseudos[j].kind \in Structural

csel_needs_structure(sel) ==
    \E i \in DOMAIN sel.parts :
        \/ i > 1 /\ sel.comb[i] \in {"+", "~"}
        \/ \E j \in DOMAIN sel.parts[i].pseudos :
              LET p == sel.parts[i].pseudos[j]
              IN  \/ p.kind \in Structural
                  \/ /\ p.kind \in {"not", "is", "where"}
                     /\ \E k \in DOMAIN p.subs : \E q \in DOMAIN p.subs[k].pseudos :
                            p.subs[k].pseudos[q].kind \in Structural

cch_element_matches(bits, classes, sel, e) ==
    csel_matches(bits, classes, sel,
                 build_chain(bits, classes, e, csel_needs_structure(sel)), FALSE)

cch_element_matches_any(bits, classes, sels, e) ==
    \E i \in DOMAIN sels :
        /\ compute_subj_req(bits, sels[i]) \subseteq Bits(bits, Features(Tag[e], Id[e], classes[e]))
        /\ cch_element_matches(bits, classes, sels[i], e)
=============================================================================
