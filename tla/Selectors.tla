----------------------------- MODULE Selectors -----------------------------
(***************************************************************************)
(* What a parsed style sheet holds (css_sel of include/css_select.h,       *)
(* css_decl of src/css.c): a sequence of selectors                         *)
(*   [parts, comb, layer, decls]                                           *)
(* each with the layer and the declarations of its rule.                   *)
(***************************************************************************)
NoName == "none"

(***************************************************************************)
(* A selector is compounds joined by combinators, the subject last; comb   *)
(* of the first is unused.  A compound names a tag, an id, classes,        *)
(* attributes and pseudo-classes; the arguments of :not(), :is() and       *)
(* :has() are compounds without arguments.                                 *)
(***************************************************************************)
Plain == [tag |-> NoName, id |-> NoName, cls |-> <<>>, attrs |-> {}, pseudos |-> <<>>]
Pseudo(kind) == [kind |-> kind, a |-> 0, b |-> 0, subs |-> <<>>]
Nth(a, b) == [Pseudo("nth-child") EXCEPT !.a = a, !.b = b]
With(kind, subs) == [Pseudo(kind) EXCEPT !.subs = subs]

(***************************************************************************)
(* A declaration of a property or a custom property.  A value is           *)
(* <<kind, n>>; em is its coefficient when it is in em; wide is 1 for a    *)
(* CSS-wide keyword that has no value to write, 2 for one that has; var    *)
(* names the custom property the value is read from, and the value is then *)
(* what var() falls back to.                                               *)
(***************************************************************************)
Unset == <<"unset", 0>>
NoValue == <<"none", 0>>
Decl(prop, val) ==
    [prop |-> prop, val |-> val, important |-> 0, em |-> 0, wide |-> 0, var |-> NoName]
=============================================================================
