----------------------------- MODULE Dom_proofs -----------------------------
(***************************************************************************)
(* For every page, every markup and every number of nodes and handles: no  *)
(* sequence of calls closes a loop in the document, handles and nodes stay *)
(* in one-to-one correspondence, and until the table is full every element *)
(* has a handle.                                                           *)
(***************************************************************************)
EXTENDS Dom, FiniteSetTheorems, WellFoundedInduction, NaturalsInduction, TLAPS

(* Nodes that are not allocated are in no tree, and are nobody's parent. *)
FreshFree ==
    \A n \in Node : /\ n > used => parent[n] = NoNode
                    /\ parent[n] \in Node => parent[n] <= used

IInv == TypeOK /\ HandlesExact /\ FreshFree /\ Acyclic

-----------------------------------------------------------------------------
(* A set of positive numbers that is not empty has a least member. *)
LEMMA LeastMember ==
    ASSUME NEW S \in SUBSET Nat, S # {}
    PROVE  \E m \in S : \A x \in S : m <= x
<1>1. IsWellFoundedOn(OpToRel(<, Nat), Nat)
  BY NatLessThanWellFounded
<1>2. PICK m \in S : \A y \in S : ~(<<y, m>> \in OpToRel(<, Nat))
  BY <1>1, WFMin
<1>3. \A y \in S : ~(y < m)
  BY <1>2 DEF OpToRel
<1> QED
  BY <1>3

(* Appending or inserting a node under an element that is not below it      *)
(* keeps the tree free of loops (dom_append_child, dom_insert_before).      *)
LEMMA MoveKeepsAcyclic ==
    ASSUME TypeOK, Acyclic, NEW p \in Node, NEW c \in Node, NoCycle(p, c),
           parent' = [parent EXCEPT ![c] = p]
    PROVE  Acyclic'
<1>1. PICK U \in SUBSET Node : p \in U /\ Closed(U) /\ c \notin U
  BY DEF NoCycle, UpTo
<1> SUFFICES ASSUME NEW S \in SUBSET Node, S # {}, \A n \in S : parent'[n] \in S
             PROVE  FALSE
  BY DEF Acyclic
<1>2. \A n \in Node : n # c => parent'[n] = parent[n]
  BY DEF TypeOK
<1>3. parent'[c] = p
  BY DEF TypeOK
<1>4. CASE c \notin S
  BY <1>2, <1>4 DEF Acyclic
<1>5. CASE c \in S
  <2>1. p \in S \cap U
    BY <1>1, <1>3, <1>5
  <2>2. \A n \in S \cap U : parent[n] \in S \cap U
    BY <1>1, <1>2 DEF Closed
  <2> QED
    BY <2>1, <2>2 DEF Acyclic
<1> QED
  BY <1>4, <1>5

(* So does moving all the children of an element (dom_move_children). *)
LEMMA MoveChildrenKeepsAcyclic ==
    ASSUME TypeOK, Acyclic, NEW p \in Node, NEW s \in Node, NoCycle(p, s),
           parent' = [n \in Node |-> IF parent[n] = s THEN p ELSE parent[n]]
    PROVE  Acyclic'
<1>1. PICK U \in SUBSET Node : p \in U /\ Closed(U) /\ s \notin U
  BY DEF NoCycle, UpTo
<1> SUFFICES ASSUME NEW S \in SUBSET Node, S # {}, \A n \in S : parent'[n] \in S
             PROVE  FALSE
  BY DEF Acyclic
<1>2. CASE \A n \in S : parent[n] # s
  BY <1>2 DEF Acyclic
<1>3. CASE \E n \in S : parent[n] = s
  <2>1. p \in S \cap U
    BY <1>1, <1>3
  <2>2. \A n \in S \cap U : parent[n] # s
    BY <1>1 DEF Closed
  <2>3. \A n \in S \cap U : parent[n] \in S \cap U
    BY <1>1, <2>2 DEF Closed
  <2> QED
    BY <2>1, <2>3 DEF Acyclic
<1> QED
  BY <1>2, <1>3

-----------------------------------------------------------------------------
(* New nodes hang from older ones, and what they replace is let go. *)
LEMMA GraftKeepsTree ==
    ASSUME DomAssumption, IInv, NEW f, NEW k \in Nat,
           \A i \in 1..k : f[i].kind \in {"element", "text"} /\ f[i].up \in Nat /\ f[i].up < i,
           NEW top \in (1..used) \cup {NoNode},
           Graft(f, k, top)
    PROVE  /\ Acyclic' /\ FreshFree'
           /\ used' \in 0..N /\ used' = used + k
           /\ kind' \in [Node -> {"element", "text"}]
           /\ parent' \in [Node -> Node \cup {Doc, NoNode}]
<1> USE DEF NoNode, Doc, Node
<1>0. used \in 0..N /\ N \in Nat /\ used + k <= N /\ used' = used + k
  BY DEF DomAssumption, IInv, TypeOK, Graft
<1>1. \A n \in Node : n > used /\ n <= used + k =>
          /\ n - used \in 1..k
          /\ parent'[n] = IF f[n - used].up = 0 THEN top ELSE used + f[n - used].up
          /\ kind'[n] = f[n - used].kind
  BY <1>0 DEF Graft
<1>2. \A n \in Node : n > used /\ n <= used + k =>
          parent'[n] = top \/ (parent'[n] \in Node /\ parent'[n] > used /\ parent'[n] < n)
  <2> SUFFICES ASSUME NEW n \in Node, n > used /\ n <= used + k, parent'[n] # top
               PROVE  parent'[n] \in Node /\ parent'[n] > used /\ parent'[n] < n
    OBVIOUS
  <2>1. n - used \in 1..k /\ parent'[n] = used + f[n - used].up /\ f[n - used].up # 0
    BY <1>1
  <2>2. PICK u \in Nat : u = f[n - used].up /\ u < n - used
    BY <2>1
  <2>3. u # 0 /\ n \in Nat /\ used \in Nat /\ used + u \in 1..N /\ used + u > used /\ used + u < n
    BY <1>0, <2>1, <2>2, SMTT(20)
  <2>4. parent'[n] = used + u
    BY <2>1, <2>2
  <2> QED
    BY <2>3, <2>4
<1>3. \A n \in Node : ~(n > used /\ n <= used + k) =>
          (parent'[n] = NoNode \/ parent'[n] = parent[n]) /\ kind'[n] = kind[n]
  BY <1>0 DEF Graft
<1>4. kind' \in [Node -> {"element", "text"}]
  <2>1. DOMAIN kind' = Node /\ kind' = [n \in Node |-> kind'[n]]
    BY DEF Graft
  <2>2. \A n \in Node : kind'[n] \in {"element", "text"}
    BY <1>0, <1>1, <1>3 DEF IInv, TypeOK
  <2> QED
    BY <2>1, <2>2
<1>5. parent' \in [Node -> Node \cup {Doc, NoNode}]
  <2>1. DOMAIN parent' = Node /\ parent' = [n \in Node |-> parent'[n]]
    BY DEF Graft
  <2>2. \A n \in Node : parent'[n] \in Node \cup {Doc, NoNode}
    BY <1>0, <1>2, <1>3, SMTT(20) DEF IInv, TypeOK
  <2> QED
    BY <2>1, <2>2
<1>6. FreshFree'
  <2>1. \A n \in Node : n > used + k => parent'[n] = NoNode
    BY <1>0, <1>3 DEF IInv, FreshFree
  <2>2. \A n \in Node : parent'[n] \in Node => parent'[n] <= used + k
    BY <1>0, <1>2, <1>3 DEF IInv, FreshFree
  <2> QED
    BY <1>0, <2>1, <2>2 DEF FreshFree
<1>7. Acyclic'
  <2> SUFFICES ASSUME NEW S \in SUBSET Node, S # {}, \A n \in S : parent'[n] \in S
               PROVE  FALSE
    BY DEF Acyclic
  <2>1. CASE \E n \in S : n <= used
    <3> DEFINE T == {n \in S : n <= used}
    <3>1. T # {} /\ T \in SUBSET Node
      BY <2>1
    <3>2. \A n \in T : parent'[n] = parent[n]
      BY <1>0, <1>3
    <3>3. \A n \in T : parent[n] \in T
      BY <3>2 DEF IInv, FreshFree
    <3> QED
      BY <3>1, <3>3 DEF IInv, Acyclic
  <2>2. CASE \A n \in S : n > used
    <3>1. S \in SUBSET Nat
      BY <1>0
    <3>2. PICK m \in S : \A x \in S : m <= x
      BY <3>1, LeastMember
    <3>3. m <= used + k
      BY <1>0, <1>3, <2>2 DEF IInv, FreshFree
    <3>4. parent'[m] = top \/ parent'[m] < m
      BY <1>2, <2>2, <3>3
    <3>5. top \notin S
      BY <1>0, <2>2
    <3>6. parent'[m] \in S
      BY <3>2
    <3>7. m \in Nat /\ parent'[m] \in Nat /\ m <= parent'[m]
      BY <3>1, <3>2, <3>6
    <3> QED
      BY <3>4, <3>5, <3>6, <3>7
  <2> QED
    BY <1>0, <2>1, <2>2
<1> QED
  BY <1>0, <1>4, <1>5, <1>6, <1>7

-----------------------------------------------------------------------------
(* The increasing enumeration of a finite set of numbers. *)
LEMMA InOrderIsEnumeration ==
    ASSUME NEW a \in Int, NEW b \in Int, NEW S \in SUBSET (a..b), NEW P \in InOrder(S)
    PROVE  /\ P \in Seq(S) /\ Len(P) = Cardinality(S) /\ Len(P) \in Nat
           /\ \A i, j \in 1..Len(P) : i # j => P[i] # P[j]
<1>1. IsFiniteSet(a..b)
  BY FS_Interval
<1>2. Cardinality(S) \in Nat
  BY <1>1, FS_Subset, FS_CardinalityType
<1>3. P \in [1..Cardinality(S) -> S] /\ \A i, j \in 1..Cardinality(S) : i < j => P[i] < P[j]
  BY DEF InOrder
<1>4. P \in Seq(S) /\ Len(P) = Cardinality(S)
  BY <1>2, <1>3
<1>5. \A i, j \in 1..Len(P) : i # j => P[i] # P[j]
  <2> SUFFICES ASSUME NEW i \in 1..Len(P), NEW j \in 1..Len(P), i # j PROVE P[i] # P[j]
    OBVIOUS
  <2>1. P[i] \in S /\ P[j] \in S /\ S \subseteq Int
    BY <1>3, <1>4
  <2>2. i < j \/ j < i
    BY <1>2, <1>4
  <2>3. P[i] < P[j] \/ P[j] < P[i]
    BY <1>3, <1>4, <2>2
  <2>4. P[i] \in Int /\ P[j] \in Int
    BY <2>1
  <2> QED
    BY <2>3, <2>4
<1> QED
  BY <1>2, <1>4, <1>5

(* What idx_push registers: each node of a list without repetition, none of *)
(* which had a handle, up to the bound.                                     *)
LEMMA IndexKeepsHandles ==
    ASSUME DomAssumption, TypeOK, HandlesExact, NEW E \in Seq(Node), NEW f,
           \A i, j \in 1..Len(E) : i # j => E[i] # E[j],
           \A i \in 1..Len(E) : rev[E[i]] = 0 /\ E[i] \in 1..used',
           used \in Nat, used' \in Nat, used <= used',
           IndexNodes(E, f)
    PROVE  HandlesExact' /\ nodes' \in Seq(Node) /\ rev' \in [Node -> Nat]
<1> DEFINE P == Push(E)
           L == Len(nodes)
<1>1. L \in Nat /\ MaxHandles \in Nat /\ Len(E) \in Nat /\ nodes \in Seq(Node)
  BY DEF DomAssumption, TypeOK
<1>2. /\ P \in Seq(Node) /\ Len(P) \in Nat /\ Len(P) <= Len(E)
      /\ Len(P) = 0 \/ L + Len(P) <= MaxHandles
      /\ \A i \in 1..Len(P) : P[i] = E[i]
  BY <1>1 DEF Push, Room
<1> HIDE DEF P
<1>3. /\ nodes' = nodes \o P
      /\ rev' = [n \in Node |-> IF \E j \in 1..Len(P) : P[j] = n
                                THEN Len(nodes) + (CHOOSE j \in 1..Len(P) : P[j] = n) ELSE rev[n]]
  BY DEF IndexNodes, P
<1>4. /\ nodes' \in Seq(Node) /\ Len(nodes') = L + Len(P)
      /\ \A h \in 1..L : nodes'[h] = nodes[h]
      /\ \A j \in 1..Len(P) : nodes'[L + j] = P[j]
  BY <1>1, <1>2, <1>3
<1>5. \A j \in 1..Len(P) : (CHOOSE i \in 1..Len(P) : P[i] = P[j]) = j
  <2> SUFFICES ASSUME NEW j \in 1..Len(P) PROVE (CHOOSE i \in 1..Len(P) : P[i] = P[j]) = j
    OBVIOUS
  <2>1. (CHOOSE i \in 1..Len(P) : P[i] = P[j]) \in 1..Len(P)
        /\ P[CHOOSE i \in 1..Len(P) : P[i] = P[j]] = P[j]
    OBVIOUS
  <2>2. \A i \in 1..Len(P) : i \in 1..Len(E)
    BY <1>1, <1>2
  <2> QED
    BY <1>2, <2>1, <2>2
<1>6. \A j \in 1..Len(P) : P[j] \in Node /\ rev'[P[j]] = L + j /\ rev[P[j]] = 0 /\ P[j] \in 1..used'
  <2> SUFFICES ASSUME NEW j \in 1..Len(P)
               PROVE  P[j] \in Node /\ rev'[P[j]] = L + j /\ rev[P[j]] = 0 /\ P[j] \in 1..used'
    OBVIOUS
  <2>1. j \in 1..Len(E) /\ P[j] = E[j] /\ P[j] \in Node
    BY <1>1, <1>2
  <2>2. rev'[P[j]] = Len(nodes) + (CHOOSE i \in 1..Len(P) : P[i] = P[j])
    BY <1>3, <2>1
  <2> QED
    BY <1>5, <2>1, <2>2
<1>7. \A n \in Node : (\A j \in 1..Len(P) : P[j] # n) => rev'[n] = rev[n]
  BY <1>3
<1>8. rev' \in [Node -> Nat]
  <2>1. \A n \in Node : rev'[n] \in Nat
    <3> SUFFICES ASSUME NEW n \in Node PROVE rev'[n] \in Nat
      OBVIOUS
    <3>1. CASE \E j \in 1..Len(P) : P[j] = n
      BY <1>1, <1>2, <1>6, <3>1
    <3>2. CASE \A j \in 1..Len(P) : P[j] # n
      BY <1>7, <3>2 DEF TypeOK
    <3> QED
      BY <3>1, <3>2
  <2> QED
    BY <1>3, <2>1
<1>9. \A h \in 1..Len(nodes') : nodes'[h] \in 1..used' /\ rev'[nodes'[h]] = h
  <2> SUFFICES ASSUME NEW h \in 1..Len(nodes')
               PROVE  nodes'[h] \in 1..used' /\ rev'[nodes'[h]] = h
    OBVIOUS
  <2>1. CASE h <= L
    <3>1. h \in 1..L /\ nodes'[h] = nodes[h] /\ nodes[h] \in 1..used /\ rev[nodes[h]] = h
      BY <1>1, <1>2, <1>4, <2>1 DEF HandlesExact, Handles
    <3>2. h # 0 /\ nodes[h] \in Node
      BY <3>1, <1>1
    <3>3. \A j \in 1..Len(P) : P[j] # nodes[h]
      BY <1>6, <3>1, <3>2
    <3>4. rev'[nodes[h]] = rev[nodes[h]]
      BY <1>7, <3>2, <3>3
    <3>5. nodes[h] \in 1..used'
      BY <3>1
    <3> QED
      BY <3>1, <3>4, <3>5
  <2>2. CASE h > L
    <3>1. PICK j \in 1..Len(P) : h = L + j
      <4>1. h \in 1..L + Len(P)
        BY <1>4
      <4>2. h - L \in 1..Len(P) /\ h = L + (h - L)
        BY <1>1, <1>2, <2>2, <4>1
      <4> QED
        BY <4>2
    <3>2. nodes'[h] = P[j]
      BY <1>4, <3>1
    <3> QED
      BY <1>6, <3>1, <3>2
  <2> QED
    BY <1>1, <1>2, <1>4, <2>1, <2>2
<1>10. \A n \in Node : rev'[n] # 0 => rev'[n] \in 1..Len(nodes') /\ nodes'[rev'[n]] = n
  <2> SUFFICES ASSUME NEW n \in Node, rev'[n] # 0
               PROVE  rev'[n] \in 1..Len(nodes') /\ nodes'[rev'[n]] = n
    OBVIOUS
  <2>1. CASE \E j \in 1..Len(P) : P[j] = n
    BY <1>1, <1>2, <1>4, <1>6, <2>1, SMTT(20)
  <2>2. CASE \A j \in 1..Len(P) : P[j] # n
    <3>1. rev'[n] = rev[n]
      BY <1>7, <2>2
    <3>2. rev[n] \in 1..L /\ nodes[rev[n]] = n
      BY <3>1 DEF HandlesExact, Handles
    <3> QED
      BY <1>1, <1>2, <1>4, <3>1, <3>2
  <2> QED
    BY <2>1, <2>2
<1>11. (Len(nodes') <= MaxHandles \/ Len(nodes') <= Len(Page))
  BY <1>1, <1>2, <1>4 DEF HandlesExact
<1> QED
  BY <1>4, <1>8, <1>9, <1>10, <1>11 DEF HandlesExact, Handles

-----------------------------------------------------------------------------
(* A step that leaves the index and the nodes alone, and moves no node that *)
(* is not allocated.                                                        *)
LEMMA MoveKeepsRest ==
    ASSUME DomAssumption, IInv, IndexSame, Acyclic',
           parent' \in [Node -> Node \cup {Doc, NoNode}],
           \A n \in Node : parent'[n] = parent[n] \/ (n <= used /\ (parent'[n] = NoNode \/ parent'[n] \in 1..used))
    PROVE  IInv'
<1>1. TypeOK'
  BY DEF IInv, TypeOK, IndexSame
<1>2. HandlesExact'
  BY DEF IInv, HandlesExact, IndexSame, Handles
<1>3. FreshFree'
  BY DEF IInv, FreshFree, IndexSame, TypeOK, NoNode, Node
<1> QED
  BY <1>1, <1>2, <1>3 DEF IInv

(* A handle of an element names an allocated node. *)
LEMMA HandleNode ==
    ASSUME DomAssumption, IInv, NEW h \in Handles
    PROVE  nodes[h] \in 1..used /\ nodes[h] \in Node
BY DEF IInv, TypeOK, HandlesExact, DomAssumption, Node

(* New nodes have no handle yet. *)
LEMMA FreshUnindexed ==
    ASSUME DomAssumption, IInv, NEW n \in Node, n > used
    PROVE  rev[n] = 0
<1>1. rev[n] # 0 => n \in 1..used
  BY DEF IInv, HandlesExact
<1>2. used \in Nat
  BY DEF IInv, TypeOK, DomAssumption
<1> QED
  BY <1>1, <1>2

(* New content: a fragment is grafted and its elements, or its root, pushed. *)
LEMMA GraftAndIndex ==
    ASSUME DomAssumption, IInv, NEW f, NEW k \in Nat,
           \A i \in 1..k : f[i].kind \in {"element", "text"} /\ f[i].up \in Nat /\ f[i].up < i,
           NEW top \in (1..used) \cup {NoNode}, Graft(f, k, top),
           NEW S \in SUBSET (used + 1 .. used + k), NEW E \in InOrder(S), IndexNodes(E, f),
           cut' \in BOOLEAN
    PROVE  IInv'
<1>1. /\ Acyclic' /\ FreshFree'
      /\ used' \in 0..N /\ used' = used + k
      /\ kind' \in [Node -> {"element", "text"}]
      /\ parent' \in [Node -> Node \cup {Doc, NoNode}]
  BY GraftKeepsTree
<1>2. used \in Nat /\ N \in Nat /\ used + k <= N
  BY <1>1 DEF IInv, TypeOK, DomAssumption
<1>3. /\ E \in Seq(S) /\ Len(E) \in Nat
      /\ \A i, j \in 1..Len(E) : i # j => E[i] # E[j]
  <2>1. used + 1 \in Int /\ used + k \in Int
    BY <1>2
  <2> QED
    BY <2>1, InOrderIsEnumeration
<1>4. S \subseteq Node /\ E \in Seq(Node)
  <2>1. \A n \in used + 1 .. used + k : n \in 1..N /\ n > used /\ n <= used + k
    BY <1>2
  <2>2. S \subseteq Node
    BY <2>1 DEF Node
  <2>3. \A i \in 1..Len(E) : E[i] \in S
    BY <1>3
  <2>4. E = [i \in 1..Len(E) |-> E[i]]
    BY <1>3
  <2>5. \A i \in 1..Len(E) : E[i] \in Node
    BY <2>2, <2>3
  <2>6. E \in [1..Len(E) -> Node]
    BY <2>4, <2>5
  <2>7. E \in Seq(Node)
    BY <1>3, <2>6
  <2> QED
    BY <2>2, <2>7
<1>5. \A i \in 1..Len(E) : rev[E[i]] = 0 /\ E[i] \in 1..used'
  <2> SUFFICES ASSUME NEW i \in 1..Len(E) PROVE rev[E[i]] = 0 /\ E[i] \in 1..used'
    OBVIOUS
  <2>1. E[i] \in S
    BY <1>3
  <2>2. E[i] \in Node /\ E[i] > used /\ E[i] \in 1..used'
    <3>1. E[i] \in used + 1 .. used + k
      BY <2>1
    <3>2. E[i] \in 1..N /\ E[i] > used /\ E[i] \in 1..used + k
      BY <1>2, <3>1
    <3> QED
      BY <1>1, <3>2 DEF Node
  <2> QED
    BY <2>2, FreshUnindexed
<1>6. HandlesExact' /\ nodes' \in Seq(Node) /\ rev' \in [Node -> Nat]
  BY <1>1, <1>2, <1>3, <1>4, <1>5, IndexKeepsHandles DEF IInv
<1> QED
  BY <1>1, <1>6 DEF IInv, TypeOK

-----------------------------------------------------------------------------
LEMMA InitIInv == DomAssumption /\ Init => IInv
<1> SUFFICES ASSUME DomAssumption, Init PROVE IInv
  OBVIOUS
<1> DEFINE els == {i \in 1..Len(Page) : Page[i].kind = "element"}
<1>1. /\ N \in Nat /\ MaxHandles \in Nat /\ Len(Page) \in Nat /\ Len(Page) <= N
      /\ Page \in Seq(Entry) /\ \A i \in 1..Len(Page) : Page[i].up < i
  BY DEF DomAssumption, Fragment
<1>2. \A i \in 1..Len(Page) : /\ Page[i].kind \in {"element", "text"}
                              /\ Page[i].up \in Nat /\ Page[i].up < i
  <2> SUFFICES ASSUME NEW i \in 1..Len(Page)
               PROVE  /\ Page[i].kind \in {"element", "text"}
                      /\ Page[i].up \in Nat /\ Page[i].up < i
    OBVIOUS
  <2>1. Page[i] \in Entry
    BY <1>1
  <2> QED
    BY <1>1, <2>1 DEF Entry
<1>3. /\ used = Len(Page) /\ cut = FALSE
      /\ kind = [n \in Node |-> IF n \in 1..Len(Page) THEN Page[n].kind ELSE "text"]
      /\ parent = [n \in Node |-> IF n \in 1..Len(Page) THEN Page[n].up ELSE NoNode]
  BY DEF Init
<1>4. \A n \in Node : \/ n \in 1..Len(Page) /\ n <= used /\ parent[n] = Page[n].up /\ kind[n] = Page[n].kind
                      \/ n > used /\ parent[n] = NoNode /\ kind[n] = "text"
  BY <1>1, <1>3 DEF Node
<1>5. \A n \in Node : /\ kind[n] \in {"element", "text"}
                      /\ parent[n] \in Int /\ parent[n] < n /\ n \in Nat
                      /\ parent[n] \in Node \cup {Doc, NoNode}
                      /\ parent[n] \in Node => parent[n] <= used
  <2> SUFFICES ASSUME NEW n \in Node
               PROVE  /\ kind[n] \in {"element", "text"}
                      /\ parent[n] \in Int /\ parent[n] < n /\ n \in Nat
                      /\ parent[n] \in Node \cup {Doc, NoNode}
                      /\ parent[n] \in Node => parent[n] <= used
    OBVIOUS
  <2>1. CASE n \in 1..Len(Page) /\ n <= used /\ parent[n] = Page[n].up /\ kind[n] = Page[n].kind
    <3>1. Page[n].up \in Nat /\ Page[n].up < n /\ kind[n] \in {"element", "text"} /\ n \in 1..N
      BY <1>2, <2>1 DEF Node
    <3> QED
      BY <1>1, <1>3, <2>1, <3>1 DEF Node, Doc, NoNode
  <2>2. CASE n > used /\ parent[n] = NoNode /\ kind[n] = "text"
    BY <1>1, <2>2 DEF Node, NoNode
  <2> QED
    BY <1>4, <2>1, <2>2
<1>6. parent \in [Node -> Node \cup {Doc, NoNode}] /\ kind \in [Node -> {"element", "text"}]
  BY <1>3, <1>5
<1>7. FreshFree
  BY <1>1, <1>3, <1>4, <1>5 DEF FreshFree
<1>8. Acyclic
  <2> SUFFICES ASSUME NEW S \in SUBSET Node, S # {} PROVE \E n \in S : parent[n] \notin S
    BY DEF Acyclic
  <2>1. S \in SUBSET Nat
    BY <1>5
  <2>2. PICK m \in S : \A x \in S : m <= x
    BY <2>1, LeastMember
  <2>3. parent[m] < m /\ parent[m] \in Int /\ m \in Int
    BY <1>5, <2>2
  <2> QED
    BY <2>2, <2>3
<1>9. nodes \in InOrder(els)
  BY DEF Init
<1>10. /\ nodes \in Seq(els) /\ Len(nodes) \in Nat /\ Len(nodes) = Cardinality(els)
       /\ \A i, j \in 1..Len(nodes) : i # j => nodes[i] # nodes[j]
  <2>1. els \in SUBSET (1..Len(Page)) /\ 1 \in Int /\ Len(Page) \in Int
    BY <1>1
  <2> HIDE DEF els
  <2> QED
    BY <1>9, <2>1, InOrderIsEnumeration
<1>11. els \subseteq 1..Len(Page)
  OBVIOUS
<1> HIDE DEF els
<1>12. Len(nodes) <= Len(Page)
  <2>1. IsFiniteSet(1..Len(Page)) /\ Cardinality(1..Len(Page)) = Len(Page)
    BY <1>1, FS_Interval
  <2>2. Cardinality(els) <= Cardinality(1..Len(Page))
    BY <1>11, <2>1, FS_Subset
  <2> QED
    BY <1>10, <2>1, <2>2
<1>13. \A h \in 1..Len(nodes) : nodes[h] \in 1..used
  <2>1. \A h \in 1..Len(nodes) : nodes[h] \in els
    BY <1>10
  <2> QED
    BY <1>3, <1>11, <2>1
<1>14. \A h \in 1..Len(nodes) : nodes[h] \in Node
  BY <1>1, <1>3, <1>13 DEF Node
<1>15. rev = [n \in Node |-> IF \E h \in 1..Len(nodes) : nodes[h] = n
                             THEN CHOOSE h \in 1..Len(nodes) : nodes[h] = n ELSE 0]
  BY DEF Init
<1>16. \A n \in Node : \/ rev[n] \in 1..Len(nodes) /\ nodes[rev[n]] = n
                       \/ rev[n] = 0 /\ ~(\E h \in 1..Len(nodes) : nodes[h] = n)
  BY <1>15
<1>17. \A h \in 1..Len(nodes) : rev[nodes[h]] = h
  <2> SUFFICES ASSUME NEW h \in 1..Len(nodes) PROVE rev[nodes[h]] = h
    OBVIOUS
  <2>0. nodes[h] \in Node
    BY <1>14
  <2>1. rev[nodes[h]] \in 1..Len(nodes) /\ nodes[rev[nodes[h]]] = nodes[h]
    BY <1>16, <2>0
  <2> QED
    BY <1>10, <2>1
<1>18. rev \in [Node -> Nat]
  <2>1. \A n \in Node : rev[n] \in 1..Len(nodes) \/ rev[n] = 0
    BY <1>16
  <2>2. \A n \in Node : rev[n] \in Nat
    BY <1>10, <2>1
  <2> QED
    BY <1>15, <2>2
<1>19. nodes \in Seq(Node)
  <2>1. nodes \in [1..Len(nodes) -> Node]
    BY <1>10, <1>14
  <2> QED
    BY <1>10, <2>1
<1>20. HandlesExact
  <2>1. \A n \in Node : rev[n] # 0 => rev[n] \in 1..Len(nodes) /\ nodes[rev[n]] = n
    BY <1>16
  <2> QED
    BY <1>12, <1>13, <1>17, <2>1 DEF HandlesExact, Handles
<1>21. TypeOK
  <2>1. used \in 0..N
    BY <1>1, <1>3
  <2>2. cut \in BOOLEAN
    BY <1>3, Zenon
  <2> QED
    BY <1>6, <1>18, <1>19, <2>1, <2>2 DEF TypeOK
<1> QED
  BY <1>7, <1>8, <1>20, <1>21 DEF IInv

(* What dom_clone_node copies is a fragment that is not empty. *)
LEMMA CopyIsFragment ==
    ASSUME NEW n \in Node, DomAssumption, NEW deep \in BOOLEAN
    PROVE  /\ Len(CopyOf(n, deep)) \in Nat \ {0}
           /\ \A i \in 1..Len(CopyOf(n, deep)) :
                 /\ CopyOf(n, deep)[i].kind \in {"element", "text"}
                 /\ CopyOf(n, deep)[i].up \in Nat /\ CopyOf(n, deep)[i].up < i
<1> DEFINE m == IF deep THEN Cardinality(Below(n)) ELSE 1
<1>1. m \in Nat \ {0}
  <2>1. IsFiniteSet(Node)
    BY FS_Interval DEF DomAssumption, Node
  <2>2. Below(n) \subseteq Node /\ n \in Below(n)
    BY DEF Below, UpTo
  <2>3. Cardinality(Below(n)) \in Nat /\ Cardinality(Below(n)) # 0
    BY <2>1, <2>2, FS_Subset, FS_CardinalityType, FS_EmptySet
  <2> QED
    BY <2>3
<1> DEFINE w == IF deep THEN Walk(n) ELSE <<n>>
           up(i) == {j \in 1..i - 1 : w[j] = parent[w[i]]}
           u(i) == IF up(i) = {} THEN 0 ELSE CHOOSE j \in up(i) : TRUE
<1>2. \A i \in 1..m : u(i) \in Nat /\ u(i) < i
  <2> SUFFICES ASSUME NEW i \in 1..m PROVE u(i) \in Nat /\ u(i) < i
    OBVIOUS
  <2>1. CASE up(i) = {}
    BY <1>1, <2>1
  <2>2. CASE up(i) # {}
    <3>1. u(i) \in up(i)
      BY <2>2
    <3>2. u(i) \in 1..i - 1
      BY <3>1
    <3> HIDE DEF u
    <3> QED
      BY <1>1, <3>2
  <2> QED
    BY <2>1, <2>2
<1>3. CopyOf(n, deep) = [i \in 1..m |->
          [kind |-> IF kind[w[i]] = "element" THEN "element" ELSE "text",
           up |-> u(i), id |-> idOf[w[i]]]]
  BY DEF CopyOf
<1> HIDE DEF m, w, u
<1>4. Len(CopyOf(n, deep)) = m
  BY <1>1, <1>3
<1> QED
  BY <1>1, <1>2, <1>3, <1>4

LEMMA NextIInv == DomAssumption /\ IInv /\ [Next]_vars => IInv'
<1> SUFFICES ASSUME DomAssumption, IInv, [Next]_vars PROVE IInv'
  OBVIOUS
<1>0. used \in Nat /\ N \in Nat /\ used <= N /\ parent \in [Node -> Node \cup {Doc, NoNode}]
  BY DEF IInv, TypeOK, DomAssumption
<1>1. ASSUME NEW k \in {"element", "text"}, Create(k) PROVE IInv'
  <2> DEFINE f == <<[TextEntry EXCEPT !.kind = k]>>
  <2>1. Graft(f, 1, NoNode)
    BY <1>1 DEF Create
  <2>2. \A i \in 1..1 : f[i].kind \in {"element", "text"} /\ f[i].up \in Nat /\ f[i].up < i
    BY DEF TextEntry
  <2>3. cut' \in BOOLEAN
    BY <1>1 DEF Create, IInv, TypeOK
  <2>4. /\ Acyclic' /\ FreshFree'
        /\ used' \in 0..N /\ used' = used + 1
        /\ kind' \in [Node -> {"element", "text"}]
        /\ parent' \in [Node -> Node \cup {Doc, NoNode}]
    BY <2>1, <2>2, GraftKeepsTree
  <2>5. used + 1 \in Node /\ used + 1 > used
    BY <1>0, <2>4 DEF Node
  <2>6. rev[used + 1] = 0
    BY <2>5, FreshUnindexed
  <2>7. IndexNodes(<<used + 1>>, <<TextEntry>>)
    BY <1>1 DEF Create
  <2>8. HandlesExact' /\ nodes' \in Seq(Node) /\ rev' \in [Node -> Nat]
    <3>1. /\ <<used + 1>> \in Seq(Node) /\ Len(<<used + 1>>) = 1 /\ <<used + 1>>[1] = used + 1
          /\ used' \in Nat /\ used <= used' /\ used + 1 \in 1..used'
      BY <1>0, <2>4, <2>5
    <3>2. \A i \in 1..Len(<<used + 1>>) : rev[<<used + 1>>[i]] = 0 /\ <<used + 1>>[i] \in 1..used'
      BY <2>6, <3>1
    <3>3. \A i, j \in 1..Len(<<used + 1>>) : i # j => <<used + 1>>[i] # <<used + 1>>[j]
      BY <3>1
    <3> QED
      BY <1>0, <2>7, <3>1, <3>2, <3>3, IndexKeepsHandles DEF IInv
  <2> QED
    BY <2>3, <2>4, <2>8 DEF IInv, TypeOK
<1>2. ASSUME NEW n \in Node, Seen(n) PROVE IInv'
  <2>1. /\ rev[n] = 0 /\ n \in 1..used /\ IndexNodes(<<n>>, <<>>)
        /\ UNCHANGED <<used, kind, idOf, parent, kids, cut>>
    BY <1>2 DEF Seen
  <2>2. /\ <<n>> \in Seq(Node) /\ Len(<<n>>) = 1 /\ <<n>>[1] = n
        /\ used' \in Nat /\ used <= used' /\ n \in 1..used'
    BY <1>0, <2>1
  <2>3. \A i \in 1..Len(<<n>>) : rev[<<n>>[i]] = 0 /\ <<n>>[i] \in 1..used'
    BY <2>1, <2>2
  <2>4. \A i, j \in 1..Len(<<n>>) : i # j => <<n>>[i] # <<n>>[j]
    BY <2>2
  <2>5. HandlesExact' /\ nodes' \in Seq(Node) /\ rev' \in [Node -> Nat]
    BY <1>0, <2>1, <2>2, <2>3, <2>4, IndexKeepsHandles DEF IInv
  <2> QED
    BY <2>1, <2>5 DEF IInv, TypeOK, FreshFree, Acyclic
<1>3. ASSUME NEW h \in Handles, NEW deep \in BOOLEAN, CloneNode(h, deep) PROVE IInv'
  <2> DEFINE f == CopyOf(nodes[h], deep)
             S == Elements(f, Len(f)) \cup {used + 1}
  <2>1. Graft(f, Len(f), NoNode) /\ (\E E \in InOrder(S) : IndexNodes(E, f)) /\ cut' \in BOOLEAN
    BY <1>3 DEF CloneNode, IInv, TypeOK
  <2>2. /\ Len(f) \in Nat \ {0}
        /\ \A i \in 1..Len(f) : f[i].kind \in {"element", "text"} /\ f[i].up \in Nat /\ f[i].up < i
    BY HandleNode, CopyIsFragment
  <2> HIDE DEF f
  <2>3. S \in SUBSET (used + 1 .. used + Len(f))
    BY <1>0, <2>2 DEF Elements
  <2> HIDE DEF S
  <2> QED
    BY <2>1, <2>2, <2>3, GraftAndIndex
<1>4. ASSUME NEW h \in Handles, NEW empty \in BOOLEAN, SetTextContent(h, empty) PROVE IInv'
  <2> DEFINE k == IF empty THEN 0 ELSE 1
  <2>1. Graft(<<TextEntry>>, k, nodes[h]) /\ UNCHANGED <<nodes, rev, byId, cut>>
    BY <1>4 DEF SetTextContent
  <2>2. k \in Nat /\ \A i \in 1..k : /\ <<TextEntry>>[i].kind \in {"element", "text"}
                                     /\ <<TextEntry>>[i].up \in Nat /\ <<TextEntry>>[i].up < i
    BY DEF TextEntry
  <2>3. nodes[h] \in 1..used
    BY HandleNode
  <2> HIDE DEF k
  <2>4. /\ Acyclic' /\ FreshFree'
        /\ used' \in 0..N /\ used' = used + k
        /\ kind' \in [Node -> {"element", "text"}]
        /\ parent' \in [Node -> Node \cup {Doc, NoNode}]
    BY <2>1, <2>2, <2>3, GraftKeepsTree
  <2>5. \A n \in 1..used : n \in 1..used'
    BY <1>0, <2>2, <2>4
  <2>6. HandlesExact'
    BY <2>1, <2>5 DEF IInv, HandlesExact, Handles
  <2> QED
    BY <2>1, <2>4, <2>6 DEF IInv, TypeOK
<1>5. ASSUME NEW h \in Handles, NEW f \in Frags, SetInnerHtml(h, f) PROVE IInv'
  <2>1. PICK k \in 0..Len(f) : /\ Graft(f, k, nodes[h])
                               /\ \E E \in InOrder(Elements(f, k)) : IndexNodes(E, f)
                               /\ cut' \in BOOLEAN
    BY <1>5 DEF SetInnerHtml, IInv, TypeOK
  <2>2. f \in Seq(Entry) /\ \A i \in 1..Len(f) : f[i].up < i
    BY DEF DomAssumption, Fragment
  <2>3. k \in Nat /\ \A i \in 1..k : f[i].kind \in {"element", "text"} /\ f[i].up \in Nat /\ f[i].up < i
    <3>1. Len(f) \in Nat /\ k \in Nat /\ \A i \in 1..k : i \in 1..Len(f)
      BY <2>2
    <3>2. \A i \in 1..Len(f) : f[i] \in Entry
      BY <2>2
    <3> QED
      BY <2>2, <3>1, <3>2 DEF Entry
  <2>4. nodes[h] \in 1..used
    BY HandleNode
  <2>5. Elements(f, k) \in SUBSET (used + 1 .. used + k)
    BY DEF Elements
  <2> QED
    BY <2>1, <2>3, <2>4, <2>5, GraftAndIndex
<1>6. ASSUME NEW h \in Handles, NEW x, SetId(h, x) \/ RemoveId(h) PROVE IInv'
  <2>1. UNCHANGED <<used, kind, parent, kids, nodes, rev, cut>>
    BY <1>6 DEF SetId, RemoveId
  <2> QED
    BY <2>1 DEF IInv, TypeOK, HandlesExact, FreshFree, Acyclic, Handles
<1>7. ASSUME NEW hp \in Handles, NEW hc \in Handles,
             AppendChild(hp, hc) \/ \E hr \in Handles : InsertBefore(hp, hc, hr)
      PROVE  IInv'
  <2>1. /\ NoCycle(nodes[hp], nodes[hc]) /\ IndexSame
        /\ parent' = [parent EXCEPT ![nodes[hc]] = nodes[hp]]
    BY <1>7 DEF AppendChild, InsertBefore
  <2>2. nodes[hp] \in 1..used /\ nodes[hp] \in Node /\ nodes[hc] \in 1..used /\ nodes[hc] \in Node
    BY HandleNode
  <2>3. Acyclic'
    BY <2>1, <2>2, MoveKeepsAcyclic DEF IInv
  <2>4. parent' \in [Node -> Node \cup {Doc, NoNode}]
    BY <1>0, <2>1, <2>2
  <2>5. \A n \in Node : parent'[n] = parent[n] \/ (n <= used /\ (parent'[n] = NoNode \/ parent'[n] \in 1..used))
    BY <1>0, <2>1, <2>2
  <2> QED
    BY <2>1, <2>3, <2>4, <2>5, MoveKeepsRest
<1>8. ASSUME NEW hp \in Handles, NEW hc \in Handles, RemoveChild(hp, hc) PROVE IInv'
  <2>1. IndexSame /\ parent' = [parent EXCEPT ![nodes[hc]] = NoNode]
    BY <1>8 DEF RemoveChild
  <2>2. nodes[hc] \in 1..used /\ nodes[hc] \in Node
    BY HandleNode
  <2>3. \A n \in Node : parent'[n] = IF n = nodes[hc] THEN NoNode ELSE parent[n]
    BY <1>0, <2>1
  <2>4. Acyclic'
    <3> SUFFICES ASSUME NEW S \in SUBSET Node, S # {} PROVE \E n \in S : parent'[n] \notin S
      BY DEF Acyclic
    <3>1. PICK n \in S : parent[n] \notin S
      BY DEF IInv, Acyclic
    <3>2. NoNode \notin S
      BY <1>0 DEF NoNode, Node
    <3> QED
      BY <2>3, <3>1, <3>2
  <2>5. parent' \in [Node -> Node \cup {Doc, NoNode}]
    BY <1>0, <2>1, <2>2
  <2>6. \A n \in Node : parent'[n] = parent[n] \/ (n <= used /\ (parent'[n] = NoNode \/ parent'[n] \in 1..used))
    BY <1>0, <2>2, <2>3
  <2> QED
    BY <2>1, <2>4, <2>5, <2>6, MoveKeepsRest
<1>9. ASSUME NEW hs \in Handles, NEW hp \in Handles, NEW i, MoveChildren(hs, hp, i) PROVE IInv'
  <2>1. /\ NoCycle(nodes[hp], nodes[hs]) /\ IndexSame
        /\ parent' = [n \in Node |-> IF parent[n] = nodes[hs] THEN nodes[hp] ELSE parent[n]]
    BY <1>9 DEF MoveChildren
  <2>2. nodes[hp] \in 1..used /\ nodes[hp] \in Node /\ nodes[hs] \in Node
    BY HandleNode
  <2>3. Acyclic'
    BY <2>1, <2>2, MoveChildrenKeepsAcyclic DEF IInv
  <2>4. parent' \in [Node -> Node \cup {Doc, NoNode}]
    BY <1>0, <2>1, <2>2
  <2>5. \A n \in Node : parent[n] = nodes[hs] => n <= used
    BY <1>0, <2>2 DEF IInv, FreshFree, NoNode, Node
  <2>6. \A n \in Node : parent'[n] = parent[n] \/ (n <= used /\ (parent'[n] = NoNode \/ parent'[n] \in 1..used))
    BY <2>1, <2>2, <2>5
  <2> QED
    BY <2>1, <2>3, <2>4, <2>6, MoveKeepsRest
<1>10. CASE UNCHANGED vars
  BY <1>10 DEF vars, IInv, TypeOK, HandlesExact, FreshFree, Acyclic, Handles
<1> QED
  BY <1>1, <1>2, <1>3, <1>4, <1>5, <1>6, <1>7, <1>8, <1>9, <1>10 DEF Next

(* The strengthened invariant holds of every behaviour. *)
LEMMA Inductive == Spec => []IInv
<1>1. Init => IInv
  BY DomAssumption, InitIInv
<1>2. IInv /\ [Next]_vars => IInv'
  BY DomAssumption, NextIInv
<1> QED
  BY <1>1, <1>2, PTL DEF Spec

(* No sequence of appends, insertions, moves, clones and replacements of    *)
(* content that page script can make closes a loop in the document: every   *)
(* walk of the tree ends (the cycle checks of dom_append_child,             *)
(* dom_insert_before and dom_move_children are enough).                     *)
THEOREM NoLoops == Spec => []Acyclic
<1>1. IInv => Acyclic
  BY DEF IInv
<1> QED
  BY Inductive, <1>1, PTL

(* Handles and nodes stay in one-to-one correspondence, the arena within    *)
(* DOM_MAX_HANDLES (or the size of the parsed page), whatever is detached,  *)
(* cloned or replaced: a handle never comes to name another node.           *)
THEOREM HandlesStayExact == Spec => []HandlesExact
<1>1. IInv => HandlesExact
  BY DEF IInv
<1> QED
  BY Inductive, <1>1, PTL

-----------------------------------------------------------------------------
(* Until the bound cuts the indexing short, every element has a handle,     *)
(* attached or not: what is detached may come back without being indexed.   *)
Indexed == ~cut => \A n \in 1..used : kind[n] = "element" => rev[n] # 0

(* An enumeration of a finite set leaves nothing out. *)
LEMMA InOrderIsComplete ==
    ASSUME NEW a \in Int, NEW b \in Int, NEW S \in SUBSET (a..b), NEW P \in InOrder(S)
    PROVE  S = {P[i] : i \in 1..Len(P)}
<1>1. /\ P \in Seq(S) /\ Len(P) = Cardinality(S) /\ Len(P) \in Nat
      /\ \A i, j \in 1..Len(P) : i # j => P[i] # P[j]
  BY InOrderIsEnumeration
<1>2. IsFiniteSet(S) /\ IsFiniteSet(1..Len(P)) /\ Cardinality(1..Len(P)) = Len(P)
  <2>1. IsFiniteSet(a..b)
    BY FS_Interval
  <2>2. IsFiniteSet(S)
    BY <2>1, FS_Subset
  <2>3. 1 \in Int /\ Len(P) \in Int
    BY <1>1
  <2>4. IsFiniteSet(1..Len(P)) /\ Cardinality(1..Len(P)) = IF 1 > Len(P) THEN 0 ELSE Len(P) - 1 + 1
    BY <2>3, FS_Interval
  <2> QED
    BY <1>1, <2>2, <2>4
<1>3. SUFFICES ASSUME NEW n \in S, \A i \in 1..Len(P) : P[i] # n PROVE FALSE
  <2>1. \A i \in 1..Len(P) : P[i] \in S
    BY <1>1
  <2> QED
    BY <2>1, Zenon
<1>4. P \in [1..Len(P) -> S \ {n}]
  BY <1>1, <1>3
<1>5. IsFiniteSet(S \ {n}) /\ Cardinality(S \ {n}) = Cardinality(S) - 1
  BY <1>2, FS_RemoveElement
<1>6. Cardinality(S \ {n}) < Cardinality(1..Len(P))
  BY <1>1, <1>2, <1>5
<1> HIDE DEF InOrder
<1>7. \E x, y \in 1..Len(P) : x # y /\ P[x] = P[y]
  BY <1>2, <1>4, <1>5, <1>6, FS_PigeonHole
<1> QED
  BY <1>1, <1>7

(* idx_push takes no handle away, and gives one to each node it is handed   *)
(* when the table has room for all of them.                                 *)
LEMMA IndexGivesHandles ==
    ASSUME DomAssumption, TypeOK, NEW E \in Seq(Node), NEW f, IndexNodes(E, f)
    PROVE  /\ \A n \in Node : rev[n] # 0 => rev'[n] # 0
           /\ Len(E) <= Room => \A i \in 1..Len(E) : rev'[E[i]] # 0
<1> DEFINE P == Push(E)
           at(n) == CHOOSE j \in 1..Len(P) : P[j] = n
<1>1. Len(nodes) \in Nat /\ Len(E) \in Nat /\ MaxHandles \in Nat
  BY DEF DomAssumption, TypeOK
<1>2. Len(P) \in Nat /\ (Len(E) <= Room => Len(P) = Len(E) /\ \A i \in 1..Len(E) : P[i] = E[i])
  BY <1>1 DEF Push, Room
<1> HIDE DEF P
<1>3. rev' = [n \in Node |-> IF \E j \in 1..Len(P) : P[j] = n THEN Len(nodes) + at(n) ELSE rev[n]]
  BY DEF IndexNodes, P
<1>4. ASSUME NEW n \in Node, \E j \in 1..Len(P) : P[j] = n PROVE rev'[n] # 0
  <2>1. at(n) \in 1..Len(P)
    BY <1>4
  <2>2. rev'[n] = Len(nodes) + at(n)
    BY <1>3, <1>4
  <2> HIDE DEF at
  <2> QED
    BY <1>1, <1>2, <2>1, <2>2
<1>5. ASSUME NEW n \in Node, ~\E j \in 1..Len(P) : P[j] = n PROVE rev'[n] = rev[n]
  BY <1>3, <1>5
<1>6. \A i \in 1..Len(E) : E[i] \in Node
  OBVIOUS
<1> QED
  BY <1>2, <1>4, <1>5, <1>6

(* New content whose elements are all handed to idx_push. *)
LEMMA GraftKeepsIndexed ==
    ASSUME DomAssumption, IInv, Indexed, NEW f, NEW k \in Nat, NEW top, Graft(f, k, top),
           NEW S \in SUBSET (used + 1 .. used + k), Elements(f, k) \subseteq S,
           NEW E \in InOrder(S), IndexNodes(E, f),
           cut' = (cut \/ Cardinality(S) > Room)
    PROVE  Indexed'
<1>1. /\ used \in Nat /\ N \in Nat /\ used' = used + k /\ used + k <= N
      /\ Room \in Int /\ Len(nodes) \in Nat
  BY DEF IInv, TypeOK, DomAssumption, Graft, Room
<1>2. /\ \A n \in 1..used : n \in Node /\ kind'[n] = kind[n]
      /\ \A n \in used + 1 .. used + k : n \in Node /\ kind'[n] = f[n - used].kind
  BY <1>1 DEF Graft, Node
<1>3. used + 1 \in Int /\ used + k \in Int
  BY <1>1
<1>4. /\ E \in Seq(S) /\ Len(E) = Cardinality(S) /\ Len(E) \in Nat
      /\ \A n \in S : \E i \in 1..Len(E) : E[i] = n
  <2>1. E \in Seq(S) /\ Len(E) = Cardinality(S) /\ Len(E) \in Nat
    BY <1>3, InOrderIsEnumeration
  <2>2. S = {E[i] : i \in 1..Len(E)}
    BY <1>3, InOrderIsComplete
  <2> QED
    BY <2>1, <2>2
<1>5. E \in Seq(Node)
  <2>1. S \subseteq Node
    BY <1>2
  <2>2. \A i \in 1..Len(E) : E[i] \in S
    BY <1>4
  <2>3. E = [i \in 1..Len(E) |-> E[i]]
    BY <1>4
  <2>4. E \in [1..Len(E) -> Node]
    BY <2>1, <2>2, <2>3
  <2> QED
    BY <1>4, <2>4
<1>6. /\ \A n \in Node : rev[n] # 0 => rev'[n] # 0
      /\ Len(E) <= Room => \A i \in 1..Len(E) : rev'[E[i]] # 0
  BY <1>5, IndexGivesHandles DEF IInv
<1> SUFFICES ASSUME ~cut', NEW n \in 1..used', kind'[n] = "element" PROVE rev'[n] # 0
  BY DEF Indexed
<1>7. ~cut /\ Len(E) <= Room
  <2>1. ~cut /\ ~(Cardinality(S) > Room)
    OBVIOUS
  <2> QED
    BY <1>1, <1>4, <2>1
<1>8. CASE n \in 1..used
  BY <1>2, <1>6, <1>7, <1>8 DEF Indexed
<1>9. CASE n \in used + 1 .. used + k
  <2>1. n \in Elements(f, k)
    BY <1>2, <1>9 DEF Elements
  <2>2. PICK i \in 1..Len(E) : E[i] = n
    BY <1>4, <2>1
  <2> QED
    BY <1>6, <1>7, <2>2
<1> QED
  BY <1>1, <1>8, <1>9

LEMMA InitIndexed == DomAssumption /\ Init => Indexed
<1> SUFFICES ASSUME DomAssumption, Init, NEW n \in 1..used, kind[n] = "element" PROVE rev[n] # 0
  BY DEF Indexed
<1> DEFINE els == {i \in 1..Len(Page) : Page[i].kind = "element"}
<1>1. N \in Nat /\ Len(Page) \in 1..N /\ used = Len(Page)
  BY DEF DomAssumption, Init
<1>2. n \in 1..Len(Page) /\ n \in Node
  BY <1>1 DEF Node
<1>3. kind[n] = Page[n].kind
  BY <1>2 DEF Init
<1>4. n \in els /\ els \in SUBSET (1..Len(Page)) /\ 1 \in Int /\ Len(Page) \in Int
  BY <1>1, <1>2, <1>3
<1>5. nodes \in InOrder(els)
  BY DEF Init
<1>6. rev[n] = IF \E h \in 1..Len(nodes) : nodes[h] = n
               THEN CHOOSE h \in 1..Len(nodes) : nodes[h] = n ELSE 0
  BY <1>2 DEF Init
<1> HIDE DEF els
<1>7. \E h \in 1..Len(nodes) : nodes[h] = n
  <2>1. els = {nodes[h] : h \in 1..Len(nodes)}
    BY <1>4, <1>5, InOrderIsComplete
  <2> QED
    BY <1>4, <2>1
<1>8. rev[n] \in 1..Len(nodes)
  BY <1>6, <1>7
<1>9. Len(nodes) \in Nat
  BY <1>4, <1>5, InOrderIsEnumeration
<1> QED
  BY <1>8, <1>9

LEMMA NextIndexed == DomAssumption /\ IInv /\ Indexed /\ [Next]_vars => Indexed'
<1> SUFFICES ASSUME DomAssumption, IInv, Indexed, [Next]_vars PROVE Indexed'
  OBVIOUS
<1>0. used \in Nat /\ N \in Nat /\ used <= N /\ Len(nodes) \in Nat /\ Room \in Int
  BY DEF IInv, TypeOK, DomAssumption, Room
<1>1. ASSUME NEW k \in {"element", "text"}, Create(k) PROVE Indexed'
  <2>1. /\ Room > 0 /\ Graft(<<[TextEntry EXCEPT !.kind = k]>>, 1, NoNode)
        /\ IndexNodes(<<used + 1>>, <<TextEntry>>) /\ cut' = cut
    BY <1>1 DEF Create
  <2>2. used' = used + 1 /\ used + 1 \in Node
    BY <1>0, <2>1 DEF Graft, Node
  <2>3. \A n \in 1..used : n \in Node /\ kind'[n] = kind[n]
    BY <1>0, <2>1 DEF Graft, Node
  <2>4. <<used + 1>> \in Seq(Node) /\ Len(<<used + 1>>) = 1 /\ <<used + 1>>[1] = used + 1
    BY <2>2
  <2>5. /\ \A n \in Node : rev[n] # 0 => rev'[n] # 0
        /\ Len(<<used + 1>>) <= Room => \A i \in 1..Len(<<used + 1>>) : rev'[<<used + 1>>[i]] # 0
    BY <2>1, <2>4, IndexGivesHandles DEF IInv
  <2>6. rev'[used + 1] # 0
    BY <1>0, <2>1, <2>4, <2>5
  <2>7. \A n \in 1..used' : n \in 1..used \/ n = used + 1
    BY <1>0, <2>2
  <2> QED
    BY <2>1, <2>3, <2>5, <2>6, <2>7 DEF Indexed
<1>2. ASSUME NEW n \in Node, Seen(n) PROVE Indexed'
  <2>1. IndexNodes(<<n>>, <<>>) /\ UNCHANGED <<used, kind, idOf, parent, kids, cut>>
    BY <1>2 DEF Seen
  <2>2. \A m \in Node : rev[m] # 0 => rev'[m] # 0
    BY <2>1, IndexGivesHandles DEF IInv
  <2>3. \A m \in 1..used : m \in Node
    BY <1>0 DEF Node
  <2> QED
    BY <2>1, <2>2, <2>3 DEF Indexed
<1>3. ASSUME NEW h \in Handles, NEW deep \in BOOLEAN, CloneNode(h, deep) PROVE Indexed'
  <2> DEFINE f == CopyOf(nodes[h], deep)
             S == Elements(f, Len(f)) \cup {used + 1}
  <2>1. /\ Graft(f, Len(f), NoNode) /\ (\E E \in InOrder(S) : IndexNodes(E, f))
        /\ cut' = (cut \/ Cardinality(S) > Room)
    BY <1>3 DEF CloneNode
  <2>2. Len(f) \in Nat \ {0}
    BY HandleNode, CopyIsFragment
  <2> HIDE DEF f
  <2>3. S \in SUBSET (used + 1 .. used + Len(f)) /\ Elements(f, Len(f)) \subseteq S
    BY <1>0, <2>2 DEF Elements
  <2> HIDE DEF S
  <2> QED
    BY <2>1, <2>2, <2>3, GraftKeepsIndexed
<1>4. ASSUME NEW h \in Handles, NEW empty \in BOOLEAN, SetTextContent(h, empty) PROVE Indexed'
  <2> DEFINE k == IF empty THEN 0 ELSE 1
  <2>1. Graft(<<TextEntry>>, k, nodes[h]) /\ UNCHANGED <<nodes, rev, byId, cut>>
    BY <1>4 DEF SetTextContent
  <2>2. k \in {0, 1}
    OBVIOUS
  <2> HIDE DEF k
  <2>3. used' = used + k /\ used + k <= N
    BY <2>1 DEF Graft
  <2>4. \A n \in 1..used : kind'[n] = kind[n]
    BY <1>0, <2>1 DEF Graft, Node
  <2>5. \A n \in 1..used' : n \in 1..used \/ (k = 1 /\ n = used + 1 /\ n \in Node)
    BY <1>0, <2>2, <2>3 DEF Node
  <2>6. k = 1 /\ used + 1 \in Node => kind'[used + 1] = "text"
    BY <1>0, <2>1 DEF Graft, TextEntry
  <2> QED
    BY <2>1, <2>4, <2>5, <2>6 DEF Indexed
<1>5. ASSUME NEW h \in Handles, NEW f \in Frags, SetInnerHtml(h, f) PROVE Indexed'
  <2>1. PICK k \in 0..Len(f) : /\ Graft(f, k, nodes[h])
                               /\ \E E \in InOrder(Elements(f, k)) : IndexNodes(E, f)
                               /\ cut' = (cut \/ Cardinality(Elements(f, k)) > Room)
    BY <1>5 DEF SetInnerHtml
  <2>2. f \in Seq(Entry)
    BY DEF DomAssumption, Fragment
  <2>3. k \in Nat
    BY <2>2
  <2>4. Elements(f, k) \in SUBSET (used + 1 .. used + k)
    BY DEF Elements
  <2> QED
    BY <2>1, <2>3, <2>4, GraftKeepsIndexed
<1>6. ASSUME UNCHANGED <<used, kind, rev, cut>> PROVE Indexed'
  BY <1>6 DEF Indexed
<1>7. ASSUME NEW h \in Handles, NEW c \in Handles, NEW x, NEW r, NEW i,
             \/ SetId(h, x) \/ RemoveId(h) \/ AppendChild(h, c) \/ RemoveChild(h, c)
             \/ InsertBefore(h, c, r) \/ MoveChildren(c, h, i)
      PROVE  UNCHANGED <<used, kind, rev, cut>>
  BY <1>7 DEF SetId, RemoveId, AppendChild, RemoveChild, InsertBefore, MoveChildren, IndexSame
<1>8. CASE UNCHANGED vars
  BY <1>6, <1>8 DEF vars
<1> QED
  BY <1>1, <1>2, <1>3, <1>4, <1>5, <1>6, <1>7, <1>8 DEF Next

(* Until DOM_MAX_HANDLES cuts the indexing of new content short, every      *)
(* element of the document has a handle, whatever was created, cloned,      *)
(* parsed, moved or detached and put back: script can reach all of it.      *)
THEOREM ElementsAddressable == Spec => []AllAddressable
<1>1. Init => Indexed
  BY DomAssumption, InitIndexed
<1>2. IInv /\ Indexed /\ [Next]_vars => Indexed'
  BY DomAssumption, NextIndexed
<1>3. Indexed => AllAddressable
  BY DEF Indexed, AllAddressable
<1> QED
  BY Inductive, <1>1, <1>2, <1>3, PTL DEF Spec

(* The two together: what scripts hold are handles that name one node each,  *)
(* and until the bound cuts the indexing short no element is without one.    *)
THEOREM HandlesAlwaysKept == Spec => []HandlesKept
BY HandlesStayExact, ElementsAddressable, PTL DEF HandlesKept

=============================================================================
