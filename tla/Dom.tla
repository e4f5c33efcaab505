-------------------------------- MODULE Dom --------------------------------
(***************************************************************************)
(* The live document of a page and its index (src/dom.c).                  *)
(*                                                                         *)
(* The tree belongs to the HTML library; dom_index gives every element an  *)
(* integer handle in document order, and a text node the first time it is  *)
(* seen.  Page script holds handles only.  The tree changes under it: a    *)
(* removed node is detached and never destroyed, and the index only grows, *)
(* up to DOM_MAX_HANDLES.                                                  *)
(*                                                                         *)
(* A call with a handle that names no node, or names a text node where an  *)
(* element is needed, is refused and changes nothing; those calls are not  *)
(* actions.  Allocation is assumed to succeed.                             *)
(***************************************************************************)
EXTENDS Integers, Sequences, SequencesExt, FiniteSets

CONSTANTS
    N,           \* bound: nodes the document ever allocates
    MaxHandles,  \* DOM_MAX_HANDLES
    MaxIndexed,  \* bound: entries of an id when the attribute is set
    Ids, NoId,   \* values of the attribute id, and its absence
    Page,        \* the parsed document, as a fragment with one top element
    Frags        \* what the parser may make of the markup given to innerHTML

Node == 1..N
Doc == 0         \* the document node
NoNode == -1     \* NULL

(***************************************************************************)
(* A fragment is its nodes in pre-order; up is the position of the parent, *)
(* or 0 at the top level.                                                  *)
(***************************************************************************)
Entry == [kind : {"element", "text"}, up : Nat, id : Ids \cup {NoId}]
Fragment == {f \in Seq(Entry) : \A i \in 1..Len(f) : f[i].up < i}

ASSUME DomAssumption ==
    /\ N \in Nat /\ MaxHandles \in Nat
    /\ NoId \notin Ids
    /\ Page \in Fragment /\ Len(Page) \in 1..N
    /\ \A f \in Frags : f \in Fragment

VARIABLES
    used,     \* nodes 1..used are allocated
    kind,     \* node types
    idOf,     \* the attribute id of each element
    parent,   \* the tree ...
    kids,     \* ... and the child lists
    nodes,    \* dom_index.nodes: the node of each handle
    rev,      \* dom_index.rev: the handle of each node, 0 when it has none
    byId,     \* dom_index.by_id: handles ever indexed under an id, in that order
    cut       \* the bound left some element of new content without a handle

vars == <<used, kind, idOf, parent, kids, nodes, rev, byId, cut>>

Handles == 1..Len(nodes)

valid_el(h) == h \in Handles /\ kind[nodes[h]] = "element"

(***************************************************************************)
(* Walking up.  UpTo(n) is n and its ancestors: what every set that holds n *)
(* and the parent of each of its members holds.                            *)
(***************************************************************************)
Closed(S) == \A n \in S : parent[n] \in Node => parent[n] \in S

UpTo(n) == {m \in Node : \A S \in SUBSET (Node \ {m}) : n \in S => ~Closed(S)}

node_in_document(n) == \E m \in UpTo(n) : parent[m] = Doc

(***************************************************************************)
(* Walking down.  node_next visits a subtree in pre-order.                 *)
(***************************************************************************)
Walk(n) ==
    LET pre[d \in 0..N] ==
            [m \in Node |->
                IF d = 0 THEN <<>>
                ELSE <<m>> \o FlattenSeq([i \in 1..Len(kids[m]) |-> pre[d - 1][kids[m][i]]])]
    IN  pre[N][n]

(***************************************************************************)
(* Growing the index: idx_push for each node of E in turn, up to the       *)
(* bound, and index_element for those that are new, from the fragment f.   *)
(***************************************************************************)
Room == MaxHandles - Len(nodes)

PushOneMore(E) == SubSeq(E, 1, IF Len(E) < Room + 1 THEN Len(E) ELSE Room + 1)

Push(E) == SubSeq(E, 1, IF Len(E) < Room THEN Len(E) ELSE Room)

IndexNodes(E, f) ==
    LET P == Push(E)
        h(n) == Len(nodes) + (CHOOSE j \in 1..Len(P) : P[j] = n)
        named(x) == SelectSeq(P, LAMBDA n : n > used /\ f[n - used].id = x)
    IN  /\ nodes' = nodes \o P
        /\ rev' = [n \in Node |-> IF \E j \in 1..Len(P) : P[j] = n THEN h(n) ELSE rev[n]]
        /\ byId' = [x \in Ids |-> byId[x] \o [j \in 1..Len(named(x)) |-> h(named(x)[j])]]

(* The one increasing enumeration of a set of nodes. *)
InOrder(S) ==
    {P \in [1..Cardinality(S) -> S] : \A i, j \in 1..Cardinality(S) : i < j => P[i] < P[j]}

TopElements(f, k) == {n \in used + 1 .. used + k : f[n - used].kind = "element" /\ f[n - used].up = 0}

(* The elements among the first k nodes of a fragment (index_subtree). *)
Elements(f, k) == {n \in used + 1 .. used + k : f[n - used].kind = "element"}

(***************************************************************************)
(* Allocating the first k nodes of a fragment, its top level under top,    *)
(* whose children until now are detached.                                  *)
(***************************************************************************)
New(f, k, u) ==
    SelectSeq([i \in 1..k |-> used + i], LAMBDA n : f[n - used].up = u)

Graft(f, k, top) ==
    LET fresh == used + 1 .. used + k
        f_(n) == f[n - used]
    IN  /\ used + k <= N
        /\ used' = used + k
        /\ kind' = [n \in Node |-> IF n \in fresh THEN f_(n).kind ELSE kind[n]]
        /\ idOf' = [n \in Node |-> IF n \in fresh THEN f_(n).id ELSE idOf[n]]
        /\ parent' = [n \in Node |->
              IF n \in fresh THEN IF f_(n).up = 0 THEN top ELSE used + f_(n).up
              ELSE IF parent[n] = top /\ top # NoNode THEN NoNode
              ELSE parent[n]]
        /\ kids' = [n \in Node \cup {Doc} |->
              IF n \in fresh THEN New(f, k, n - used)
              ELSE IF n = top THEN New(f, k, 0)
              ELSE kids[n]]

-----------------------------------------------------------------------------
(* dom_build: the parsed page, every element indexed in pre-order. *)
Init ==
    LET entry(n) == IF n \in 1..Len(Page) THEN Page[n] ELSE [kind |-> "text", up |-> NoNode, id |-> NoId]
        under(u) == SelectSeq([i \in 1..Len(Page) |-> i], LAMBDA i : Page[i].up = u)
        at(i) == CHOOSE h \in 1..Len(nodes) : nodes[h] = i
        named(x) == SelectSeq(nodes, LAMBDA i : Page[i].id = x)
    IN  /\ used = Len(Page)
        /\ kind = [n \in Node |-> entry(n).kind]
        /\ idOf = [n \in Node |-> entry(n).id]
        /\ parent = [n \in Node |-> entry(n).up]
        /\ kids = [n \in Node \cup {Doc} |-> under(n)]
        /\ nodes \in InOrder({i \in 1..Len(Page) : Page[i].kind = "element"})
        /\ rev = [n \in Node |-> IF \E h \in 1..Len(nodes) : nodes[h] = n THEN at(n) ELSE 0]
        /\ byId = [x \in Ids |-> [j \in 1..Len(named(x)) |-> at(named(x)[j])]]
        /\ cut = FALSE

-----------------------------------------------------------------------------
(* Making nodes. *)

TextEntry == [kind |-> "text", up |-> 0, id |-> NoId]

(* dom_create_element, dom_create_char_node: a detached node with a handle. *)
Create(k) ==
    /\ Room > 0
    /\ Graft(<<[TextEntry EXCEPT !.kind = k]>>, 1, NoNode)
    /\ IndexNodes(<<used + 1>>, <<TextEntry>>)
    /\ UNCHANGED cut

(* dom_clone_node: a detached copy of the node, or of its subtree; every    *)
(* element of it is indexed, and the root of it whatever it is.             *)
Below(n) == {m \in Node : n \in UpTo(m)}

CopyOf(n, deep) ==
    LET w == IF deep THEN Walk(n) ELSE <<n>>
        up(i) == {j \in 1..i - 1 : w[j] = parent[w[i]]}
    IN  [i \in 1..IF deep THEN Cardinality(Below(n)) ELSE 1 |->
            [kind |-> IF kind[w[i]] = "element" THEN "element" ELSE "text",
             up |-> IF up(i) = {} THEN 0 ELSE CHOOSE j \in up(i) : TRUE,
             id |-> idOf[w[i]]]]

CloneNode(h, deep) ==
    LET f == CopyOf(nodes[h], deep)
        S == Elements(f, Len(f)) \cup {used + 1}
    IN  /\ Graft(f, Len(f), NoNode)
        /\ \E E \in InOrder(S) : IndexNodes(E, f)
        /\ cut' = (cut \/ Cardinality(S) > Room)

(* handle_of, from dom_child_node and dom_sibling_node: a text node of the  *)
(* tree gets its handle when navigation first reaches it from a node that   *)
(* has one.                                                                 *)
Seen(n) ==
    /\ n \in 1..used /\ rev[n] = 0 /\ Room > 0
    /\ parent[n] \in Node /\ rev[parent[n]] # 0
    /\ kind[n] = "text"
    /\ IndexNodes(<<n>>, <<>>)
    /\ UNCHANGED <<used, kind, idOf, parent, kids, cut>>

-----------------------------------------------------------------------------
(* Moving nodes. *)

(* The child lists with c taken out (lxb_dom_node_remove). *)
Unlinked(c) == [p \in Node \cup {Doc} |-> Remove(kids[p], c)]

IndexSame == UNCHANGED <<used, kind, idOf, nodes, rev, byId, cut>>

NoCycleParentOnly(p, c) == p # c

(* The loop of dom_append_child and dom_insert_before over the ancestors. *)
NoCycle(p, c) == c \notin UpTo(p)

(* dom_append_child *)
AppendChild(hp, hc) ==
    LET p == nodes[hp]  c == nodes[hc]
    IN  /\ valid_el(hp)
        /\ NoCycle(p, c)
        /\ parent' = [parent EXCEPT ![c] = p]
        /\ kids' = [Unlinked(c) EXCEPT ![p] = Append(@, c)]
        /\ IndexSame

PosIn(s, n) == CHOOSE i \in 1..Len(s) : s[i] = n

(* dom_insert_before, with a reference node. *)
InsertBefore(hp, hc, hr) ==
    LET p == nodes[hp]  c == nodes[hc]  r == nodes[hr]  k == Unlinked(c)
    IN  /\ valid_el(hp)
        /\ parent[r] = p
        /\ NoCycle(p, c)
        /\ c # r
        /\ parent' = [parent EXCEPT ![c] = p]
        /\ kids' = [k EXCEPT ![p] = InsertAt(@, PosIn(@, r), c)]
        /\ IndexSame

(* dom_remove_child *)
RemoveChild(hp, hc) ==
    LET p == nodes[hp]  c == nodes[hc]
    IN  /\ valid_el(hp)
        /\ parent[c] = p
        /\ parent' = [parent EXCEPT ![c] = NoNode]
        /\ kids' = Unlinked(c)
        /\ IndexSame

(* dom_move_children: all the children of one element, before position i of *)
(* another (DOM_AT_START, DOM_BEFORE_REF, DOM_AFTER_REF or DOM_AT_END).      *)
MoveChildren(hs, hp, i) ==
    LET s == nodes[hs]  p == nodes[hp]
    IN  /\ valid_el(hs) /\ valid_el(hp)
        /\ i \in 1..Len(kids[p]) + 1
        /\ NoCycle(p, s)
        /\ kids[s] # <<>>
        /\ parent' = [n \in Node |-> IF parent[n] = s THEN p ELSE parent[n]]
        /\ kids' = [kids EXCEPT ![s] = <<>>,
                                ![p] = SubSeq(@, 1, i - 1) \o kids[s] \o SubSeq(@, i, Len(@))]
        /\ IndexSame

-----------------------------------------------------------------------------
(* Replacing content. *)

(* dom_set_text_content of an element: the children are detached, and a     *)
(* text that is not empty makes one new text node, which has no handle.     *)
SetTextContent(h, empty) ==
    /\ valid_el(h)
    /\ Graft(<<TextEntry>>, IF empty THEN 0 ELSE 1, nodes[h])
    /\ UNCHANGED <<nodes, rev, byId, cut>>

(* Where dom_set_inner_html stops: at the end of the top-level tree in which *)
(* index_subtree met the bound; the trees after it are never moved in.       *)
Stops(f, k) ==
    /\ k \in 0..Len(f)
    /\ k < Len(f) => f[k + 1].up = 0 /\ Cardinality(Elements(f, k)) > Room
    /\ \A j \in 0..k - 1 : f[j + 1].up = 0 => Cardinality(Elements(f, j)) <= Room

(* dom_set_inner_html *)
SetInnerHtml(h, f) ==
    \E k \in 0..Len(f) :
        /\ valid_el(h)
        /\ Stops(f, k)
        /\ Graft(f, k, nodes[h])
        /\ \E E \in InOrder(Elements(f, k)) : IndexNodes(E, f)
        /\ cut' = (cut \/ Cardinality(Elements(f, k)) > Room)

-----------------------------------------------------------------------------
(* Attributes. *)

SetIdUnindexed(h, x) ==
    /\ valid_el(h)
    /\ idOf' = [idOf EXCEPT ![nodes[h]] = x]
    /\ UNCHANGED <<used, kind, parent, kids, nodes, rev, byId, cut>>

(* dom_set_attribute of id: the handle is added under the new value, and    *)
(* stays under the old one.                                                 *)
SetId(h, x) ==
    /\ valid_el(h)
    /\ Len(byId[x]) < MaxIndexed
    /\ idOf' = [idOf EXCEPT ![nodes[h]] = x]
    /\ byId' = [byId EXCEPT ![x] = Append(@, h)]
    /\ UNCHANGED <<used, kind, parent, kids, nodes, rev, cut>>

(* dom_remove_attribute of id *)
RemoveId(h) ==
    /\ valid_el(h)
    /\ idOf[nodes[h]] # NoId
    /\ idOf' = [idOf EXCEPT ![nodes[h]] = NoId]
    /\ UNCHANGED <<used, kind, parent, kids, nodes, rev, byId, cut>>

-----------------------------------------------------------------------------
Next ==
    \/ \E k \in {"element", "text"} : Create(k)
    \/ \E n \in Node : Seen(n)
    \/ \E h \in Handles :
          \/ \E deep \in BOOLEAN : CloneNode(h, deep)
          \/ \E empty \in BOOLEAN : SetTextContent(h, empty)
          \/ \E f \in Frags : SetInnerHtml(h, f)
          \/ \E x \in Ids : SetId(h, x)
          \/ RemoveId(h)
          \/ \E c \in Handles :
                \/ AppendChild(h, c)
                \/ RemoveChild(h, c)
                \/ \E r \in Handles : InsertBefore(h, c, r)
                \/ \E i \in 1..N : MoveChildren(c, h, i)

Spec == Init /\ [][Next]_vars

-----------------------------------------------------------------------------
(* Queries. *)

(* Handles under an id that are in the document. *)
Live(x) == SelectSeq(byId[x], LAMBDA h : node_in_document(nodes[h]))

(* dom_get_connected_by_id, what document.getElementById answers (0: null). *)
GetConnectedById(x) ==
    LET L == Live(x)
        w == SelectSeq(Walk(nodes[1]), LAMBDA n : \E i \in 1..Len(byId[x]) : byId[x][i] = rev[n])
    IN  IF Len(L) <= 1 THEN IF L = <<>> THEN 0 ELSE L[1]
        ELSE IF w # <<>> /\ node_in_document(w[1]) THEN rev[w[1]]
        ELSE L[1]

(* dom_get_by_tag for the one tag of the model: a tag never changes and     *)
(* every element is put in its list when it is indexed.                     *)
GetByTag == SelectSeq([h \in Handles |-> h], LAMBDA h : kind[nodes[h]] = "element")

-----------------------------------------------------------------------------
(* What must hold. *)

TypeOK ==
    /\ used \in 0..N
    /\ kind \in [Node -> {"element", "text"}]
    /\ parent \in [Node -> Node \cup {Doc, NoNode}]
    /\ nodes \in Seq(Node)
    /\ rev \in [Node -> Nat]
    /\ cut \in BOOLEAN

(* No sequence of calls closes a loop in the tree: every set of nodes has a *)
(* member whose parent is outside it.  A walk of page_view or of a query    *)
(* would never end otherwise.                                               *)
Acyclic ==
    \A S \in SUBSET Node : S # {} => \E n \in S : parent[n] \notin S

(* A handle names one node, a node has at most one handle, the arena keeps  *)
(* its bound, and only nodes that exist are in it.                          *)
HandlesExact ==
    /\ Len(nodes) <= MaxHandles \/ Len(nodes) <= Len(Page)
    /\ \A h \in Handles : nodes[h] \in 1..used /\ rev[nodes[h]] = h
    /\ \A n \in Node : rev[n] # 0 => rev[n] \in Handles /\ nodes[rev[n]] = n

(* Unless the bound cut the indexing of new nodes short, script can reach   *)
(* every element of the document, whatever was moved, cloned or replaced:   *)
(* each has a handle (index_subtree leaves none out).                       *)
AllAddressable ==
    ~cut => \A n \in 1..used : kind[n] = "element" /\ rev[n] = 0 => ~node_in_document(n)

(* The table of handles does what script needs of it: it is exact, and it   *)
(* leaves out no element that it has room for.                              *)
HandlesKept == HandlesExact /\ AllAddressable

(* getElementById answers an element of the document whenever one that      *)
(* script can address carries the id, and if all that were ever indexed     *)
(* under the id still carry it, the first of them in the order of the tree. *)
FoundById ==
    \A x \in Ids :
        LET g == GetConnectedById(x)
            carry == SelectSeq(Walk(nodes[1]), LAMBDA n : idOf[n] = x /\ rev[n] # 0)
        IN  /\ g # 0 => node_in_document(nodes[g])
            /\ node_in_document(nodes[1]) /\ carry # <<>> =>
                  /\ g # 0
                  /\ (\A i \in 1..Len(byId[x]) : idOf[nodes[byId[x][i]]] = x) => nodes[g] = carry[1]

=============================================================================
