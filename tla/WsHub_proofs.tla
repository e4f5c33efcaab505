---------------------------- MODULE WsHub_proofs ----------------------------
(***************************************************************************)
(* Proofs about the WebSockets of a page, for any number of pages, sockets *)
(* and slots and any limits: no socket is forgotten, every connection has  *)
(* one owner, the hub holds nothing of another page, and readyState only   *)
(* moves forward.                                                          *)
(***************************************************************************)
EXTENDS WsHub, FiniteSetTheorems, SequenceTheorems, WellFoundedInduction, TLAPS

(* A set of numbers that is not empty has a least one, and from it induction. *)
LEMMA LeastNumber ==
    ASSUME NEW T \in SUBSET Nat, T # {}
    PROVE  \E x \in T : \A y \in T : x <= y
<1> DEFINE R == OpToRel(<, Nat)
<1>1. \A u, v \in Nat : u < v => <<u, v>> \in R
  BY DEF OpToRel
<1>2. IsWellFoundedOn(R, Nat)
  BY NatLessThanWellFounded
<1> HIDE DEF R
<1>3. PICK x \in T : \A y \in T : ~(<<y, x>> \in R)
  BY <1>2, WFMin
<1>4. \A y \in T : ~(y < x)
  BY <1>1, <1>3
<1>5. \A y \in T : x <= y
  BY <1>4
<1> QED
  BY <1>5

LEMMA OneByOne ==
    ASSUME NEW T \in SUBSET Nat, 0 \in T, \A n \in T : n + 1 \in T
    PROVE  T = Nat
<1> SUFFICES ASSUME T # Nat PROVE FALSE
  OBVIOUS
<1>1. PICK x \in Nat \ T : \A y \in Nat \ T : x <= y
  BY LeastNumber
<1>2. x # 0
  OBVIOUS
<1>3. x - 1 \in Nat /\ x - 1 \notin Nat \ T /\ (x - 1) + 1 = x
  BY <1>1, <1>2
<1> QED
  BY <1>3, <1>1

(* A sequence of numbers that is not empty has a greatest element. *)
LEMMA Greatest ==
    ASSUME NEW s \in Seq(Nat), s # <<>>
    PROVE  \E k \in 1 .. Len(s) : \A j \in 1 .. Len(s) : s[j] <= s[k]
<1> DEFINE T == {n \in Nat : 1 <= n /\ n <= Len(s) =>
                                \E k \in 1 .. n : \A j \in 1 .. n : s[j] <= s[k]}
<1>1. 0 \in T
  OBVIOUS
<1>2. ASSUME NEW n \in T PROVE n + 1 \in T
  <2> SUFFICES ASSUME n + 1 <= Len(s)
               PROVE  \E k \in 1 .. n + 1 : \A j \in 1 .. n + 1 : s[j] <= s[k]
    OBVIOUS
  <2>1. \A j \in 1 .. Len(s) : s[j] \in Nat
    OBVIOUS
  <2>2. CASE n = 0
    BY <2>1, <2>2
  <2>3. CASE n # 0
    <3>1. PICK k \in 1 .. n : \A j \in 1 .. n : s[j] <= s[k]
      BY <2>3
    <3>2. CASE s[n + 1] <= s[k]
      <4>1. \A j \in 1 .. n + 1 : j \in 1 .. n \/ j = n + 1
        OBVIOUS
      <4>2. k \in 1 .. n + 1 /\ \A j \in 1 .. n + 1 : s[j] <= s[k]
        BY <3>1, <3>2, <4>1
      <4> QED
        BY <4>2
    <3>3. CASE ~(s[n + 1] <= s[k])
      <4>1. \A j \in 1 .. n + 1 : s[j] <= s[n + 1]
        BY <2>1, <3>1, <3>3, SMTT(20)
      <4> QED
        BY <4>1
    <3> QED
      BY <3>2, <3>3
  <2> QED
    BY <2>2, <2>3
<1> HIDE DEF T
<1>3. T = Nat
  BY <1>1, <1>2, OneByOne DEF T
<1>4. Len(s) \in Nat /\ 1 <= Len(s)
  OBVIOUS
<1>5. Len(s) \in T
  BY <1>3, <1>4
<1> QED
  BY <1>4, <1>5 DEF T

(* No page makes more sockets than MaxId. *)
LEMMA Bounds ==
    ASSUME WsAssumption
    PROVE  /\ MaxId \in Nat \ {0} /\ MaxDoc \in Nat \ {0}
           /\ \A d \in 1 .. MaxDoc : Sockets[d] \in Nat /\ Sockets[d] <= MaxId
<1>1. Sockets \in Seq(Nat) /\ Sockets # <<>> /\ Len(Sockets) \in Nat \ {0} /\ \A d \in 1 .. Len(Sockets) : Sockets[d] \in Nat \ {0}
  BY DEF WsAssumption
<1>2. PICK k \in 1 .. Len(Sockets) : \A j \in 1 .. Len(Sockets) : Sockets[j] <= Sockets[k]
  BY <1>1, Greatest
<1>3. Range(Sockets) = {Sockets[d] : d \in 1 .. Len(Sockets)}
  BY <1>1 DEF Range
<1>4. \E n \in Range(Sockets) : \A m \in Range(Sockets) : m <= n
  BY <1>2, <1>3
<1>5. MaxId \in Range(Sockets) /\ \A m \in Range(Sockets) : m <= MaxId
  BY <1>4 DEF MaxId
<1> QED
  BY <1>1, <1>3, <1>5 DEF MaxDoc

-----------------------------------------------------------------------------
(* What sequences hold. *)
LEMMA RangeAppend ==
    ASSUME NEW S, NEW s \in Seq(S), NEW x \in S
    PROVE  Range(Append(s, x)) = Range(s) \cup {x}
<1>1. DOMAIN Append(s, x) = 1 .. Len(s) + 1 /\ DOMAIN s = 1 .. Len(s) /\ Len(s) \in Nat
  OBVIOUS
<1>2. \A k \in 1 .. Len(s) : Append(s, x)[k] = s[k]
  OBVIOUS
<1>3. Append(s, x)[Len(s) + 1] = x
  OBVIOUS
<1> QED
  BY <1>1, <1>2, <1>3 DEF Range

LEMMA RangeTail ==
    ASSUME NEW S, NEW s \in Seq(S), s # <<>>
    PROVE  /\ Head(s) \in S /\ Tail(s) \in Seq(S)
           /\ Range(s) = {Head(s)} \cup Range(Tail(s))
<1>1. Head(s) \in S /\ Tail(s) \in Seq(S) /\ Len(s) \in Nat \ {0} /\ Len(Tail(s)) = Len(s) - 1
  OBVIOUS
<1>2. DOMAIN s = 1 .. Len(s) /\ DOMAIN Tail(s) = 1 .. Len(s) - 1
  BY <1>1
<1>3. s[1] = Head(s) /\ \A k \in 1 .. Len(s) - 1 : Tail(s)[k] = s[k + 1]
  OBVIOUS
<1>4. \A k \in 2 .. Len(s) : k - 1 \in 1 .. Len(s) - 1 /\ Tail(s)[k - 1] = s[k]
  BY <1>1, <1>3
<1>5. \A k \in 1 .. Len(s) : k = 1 \/ k \in 2 .. Len(s)
  BY <1>1
<1>6. \A k \in 1 .. Len(s) - 1 : k + 1 \in 1 .. Len(s)
  BY <1>1
<1>7. ASSUME NEW y \in Range(s) PROVE y \in {Head(s)} \cup Range(Tail(s))
  <2>1. PICK k \in 1 .. Len(s) : y = s[k]
    BY <1>2 DEF Range
  <2>2. CASE k = 1
    BY <2>1, <2>2, <1>3
  <2>3. CASE k \in 2 .. Len(s)
    BY <2>1, <2>3, <1>2, <1>4 DEF Range
  <2> QED
    BY <2>2, <2>3, <1>5
<1>8. ASSUME NEW y \in {Head(s)} \cup Range(Tail(s)) PROVE y \in Range(s)
  <2>1. 1 \in 1 .. Len(s)
    BY <1>1
  <2> QED
    BY <1>2, <1>3, <1>6, <2>1 DEF Range
<1> QED
  BY <1>1, <1>7, <1>8

LEMMA RangeCons ==
    ASSUME NEW S, NEW s \in Seq(S), NEW x \in S
    PROVE  /\ <<x>> \o s \in Seq(S) /\ <<x>> \o s # <<>>
           /\ Head(<<x>> \o s) = x /\ Tail(<<x>> \o s) = s
           /\ Range(<<x>> \o s) = {x} \cup Range(s)
<1>1. <<x>> \o s \in Seq(S) /\ <<x>> \o s # <<>> /\ Len(<<x>> \o s) = Len(s) + 1
  OBVIOUS
<1>2. Head(<<x>> \o s) = x
  BY <1>1
<1>3. Tail(<<x>> \o s) = s
  <2>1. Tail(<<x>> \o s) \in Seq(S) /\ Len(Tail(<<x>> \o s)) = Len(s)
    BY <1>1
  <2>2. \A k \in 1 .. Len(s) : Tail(<<x>> \o s)[k] = s[k]
    BY <1>1
  <2> QED
    BY <2>1, <2>2, SeqEqual
<1>4. Range(<<x>> \o s) = {Head(<<x>> \o s)} \cup Range(Tail(<<x>> \o s))
  BY <1>1, RangeTail
<1> QED
  BY <1>1, <1>2, <1>3, <1>4

LEMMA RangeIn ==
    ASSUME NEW S, NEW s \in Seq(S)
    PROVE  /\ \A y \in Range(s) : y \in S
           /\ s = <<>> => Range(s) = {}
           /\ \A k \in DOMAIN s : s[k] \in Range(s)
           /\ \A y \in Range(s) : \E k \in DOMAIN s : s[k] = y
  BY DEF Range

(* A sequence cut in two. *)
LEMMA RangeCut ==
    ASSUME NEW S, NEW s \in Seq(S), NEW m \in Nat
    PROVE  LET a == SubSeq(s, 1, IF Len(s) > m THEN m ELSE Len(s))
               b == SubSeq(s, m + 1, Len(s))
           IN  /\ a \in Seq(S) /\ b \in Seq(S)
               /\ Range(s) = Range(a) \cup Range(b)
<1> DEFINE l == IF Len(s) > m THEN m ELSE Len(s)
           a == SubSeq(s, 1, l)
           b == SubSeq(s, m + 1, Len(s))
<1>1. Len(s) \in Nat /\ l \in Nat /\ l <= Len(s) /\ (l < Len(s) => l = m) /\ (Len(s) > m => l = m)
  OBVIOUS
<1> HIDE DEF l
<1>2. /\ a \in Seq(S) /\ Len(a) = l /\ DOMAIN a = 1 .. l
      /\ \A k \in 1 .. l : a[k] = s[k]
  <2>1. SubSeq(s, 1, l) \in Seq(S) /\ Len(SubSeq(s, 1, l)) = l /\ \A k \in 1 .. l : SubSeq(s, 1, l)[k] = s[k]
    BY <1>1
  <2> QED
    BY <2>1
<1>3. CASE Len(s) > m
  <2>1. b \in Seq(S) /\ Len(b) = Len(s) - m /\ DOMAIN b = 1 .. Len(s) - m /\ \A k \in 1 .. Len(s) - m : b[k] = s[k + m]
    <3>1. SubSeq(s, m + 1, Len(s)) \in Seq(S) /\ Len(SubSeq(s, m + 1, Len(s))) = Len(s) - m
           /\ \A k \in 1 .. Len(s) - m : SubSeq(s, m + 1, Len(s))[k] = s[k + m]
      BY <1>1, <1>3
    <3> QED
      BY <3>1
  <2>2. DOMAIN s = 1 .. Len(s)
    OBVIOUS
  <2> HIDE DEF a, b
  <2>3. ASSUME NEW k \in 1 .. Len(s) PROVE s[k] \in Range(a) \cup Range(b)
    <3>1. CASE k <= m
      BY <1>1, <1>2, <1>3, <3>1 DEF Range
    <3>2. CASE k > m
      <4>1. k - m \in 1 .. Len(s) - m /\ b[k - m] = s[k]
        BY <1>1, <1>3, <2>1, <3>2
      <4> QED
        BY <4>1, <2>1 DEF Range
    <3> QED
      BY <3>1, <3>2
  <2>4. ASSUME NEW k \in 1 .. l PROVE a[k] \in Range(s)
    BY <1>1, <1>2, <2>2 DEF Range
  <2>5. ASSUME NEW k \in 1 .. Len(s) - m PROVE b[k] \in Range(s)
    <3>1. k + m \in 1 .. Len(s)
      BY <1>1
    <3> QED
      BY <2>1, <2>2, <3>1 DEF Range
  <2> QED
    <3>1. \A y \in Range(s) : y \in Range(a) \cup Range(b)
      BY <2>2, <2>3 DEF Range
    <3>2. \A y \in Range(a) \cup Range(b) : y \in Range(s)
      BY <1>2, <2>1, <2>4, <2>5 DEF Range
    <3>3. Range(s) = Range(a) \cup Range(b)
      BY <3>1, <3>2
    <3> QED
      BY <1>2, <2>1, <3>3 DEF a, b, l
<1>4. CASE ~(Len(s) > m)
  <2>1. b = <<>>
    BY <1>1, <1>4
  <2>2. l = Len(s)
    BY <1>4 DEF l
  <2>3. a = s
    <3>1. Len(a) = Len(s) /\ \A k \in 1 .. Len(s) : a[k] = s[k]
      BY <1>2, <2>2
    <3> QED
      BY <1>2, <3>1, SeqEqual
  <2>4. Range(b) = {} /\ b \in Seq(S)
    BY <2>1 DEF Range
  <2> HIDE DEF a, b
  <2>5. Range(s) = Range(a) \cup Range(b)
    BY <2>3, <2>4
  <2> QED
    BY <1>2, <2>4, <2>5 DEF a, b, l
<1> QED
  BY <1>3, <1>4

-----------------------------------------------------------------------------
(***************************************************************************)
(* The page and what its scripts make of it.                               *)
(***************************************************************************)
PageSet == [doc : 1 .. MaxDoc, alive : BOOLEAN, n : Nat, rs : [Ids -> CONNECTING .. CLOSED],
            ops : Seq(OpSet)]

(* Sockets not yet made are CONNECTING, and operations are about sockets made. *)
PageOK(p) ==
    /\ p \in PageSet
    /\ p.n <= Sockets[p.doc]
    /\ \A j \in Ids : j > p.n => p.rs[j] = CONNECTING
    /\ \A o \in Range(p.ops) : o.id <= p.n

(* Scripts make sockets and close them, and queue an operation for each. *)
Moves(p, q) ==
    /\ PageOK(q)
    /\ q.doc = p.doc /\ q.alive = p.alive /\ p.n <= q.n
    /\ Range(p.ops) \subseteq Range(q.ops)
    /\ \A j \in Ids : \/ q.rs[j] = p.rs[j]
                      \/ /\ p.rs[j] \in {CONNECTING, OPEN} /\ q.rs[j] = CLOSING
                         /\ Op("close", j) \in Range(q.ops)
    /\ \A j \in Ids : p.n < j /\ j <= q.n => Op("open", j) \in Range(q.ops)

LEMMA States == CONNECTING = 0 /\ OPEN = 1 /\ CLOSING = 2 /\ CLOSED = 3
  BY DEF CONNECTING, OPEN, CLOSING, CLOSED

LEMMA OpIs ==
    ASSUME NEW k \in {"open", "close"}, NEW i \in Ids
    PROVE  Op(k, i) \in OpSet /\ Op(k, i).id = i /\ Op(k, i).kind = k
  BY DEF Op, OpSet

LEMMA PageFields ==
    ASSUME NEW p, PageOK(p), WsAssumption
    PROVE  /\ p.doc \in 1 .. MaxDoc /\ p.alive \in BOOLEAN /\ p.n \in Nat /\ p.n <= MaxId
           /\ p.n <= Sockets[p.doc] /\ Sockets[p.doc] \in Nat /\ Sockets[p.doc] <= MaxId
           /\ p.rs \in [Ids -> CONNECTING .. CLOSED] /\ p.ops \in Seq(OpSet)
           /\ \A j \in 1 .. p.n : j \in Ids
           /\ MaxId \in Nat /\ Ids = 1 .. MaxId
<1>1. p.doc \in 1 .. MaxDoc /\ p.alive \in BOOLEAN /\ p.n \in Nat
      /\ p.rs \in [Ids -> CONNECTING .. CLOSED] /\ p.ops \in Seq(OpSet) /\ p.n <= Sockets[p.doc]
  BY DEF PageOK, PageSet
<1>2. Sockets[p.doc] \in Nat /\ Sockets[p.doc] <= MaxId /\ MaxId \in Nat /\ Ids = 1 .. MaxId
  BY <1>1, Bounds DEF Ids
<1> QED
  BY <1>1, <1>2

LEMMA MovesNone ==
    ASSUME NEW p, PageOK(p), WsAssumption
    PROVE  Moves(p, p)
<1>1. p.n \in Nat /\ Ids = 1 .. MaxId /\ MaxId \in Nat
  BY PageFields
<1>2. \A j \in Ids : ~(p.n < j /\ j <= p.n)
  BY <1>1
<1>3. p.n <= p.n
  BY <1>1
<1> QED
  BY <1>2, <1>3 DEF Moves

LEMMA MovesTwice ==
    ASSUME NEW p, NEW q, NEW r, PageOK(p), Moves(p, q), Moves(q, r), WsAssumption
    PROVE  Moves(p, r)
<1>1. p.n \in Nat /\ q.n \in Nat /\ r.n \in Nat /\ Ids = 1 .. MaxId /\ MaxId \in Nat
  BY PageFields DEF Moves
<1>2. PageOK(r) /\ r.doc = p.doc /\ r.alive = p.alive /\ p.n <= r.n /\ Range(p.ops) \subseteq Range(r.ops)
  BY <1>1 DEF Moves
<1>3. ASSUME NEW j \in Ids
      PROVE  \/ r.rs[j] = p.rs[j]
             \/ /\ p.rs[j] \in {CONNECTING, OPEN} /\ r.rs[j] = CLOSING
                /\ Op("close", j) \in Range(r.ops)
  BY States DEF Moves
<1>4. ASSUME NEW j \in Ids, p.n < j, j <= r.n
      PROVE  Op("open", j) \in Range(r.ops)
  <2>1. CASE j <= q.n
    BY <1>4, <2>1 DEF Moves
  <2>2. CASE q.n < j
    BY <1>4, <2>2 DEF Moves
  <2> QED
    BY <1>1, <2>1, <2>2
<1> QED
  BY <1>2, <1>3, <1>4 DEF Moves

LEMMA MovesConstruct ==
    ASSUME NEW p, PageOK(p), WsAssumption
    PROVE  Moves(p, Construct(p))
<1>1. CASE p.n < Sockets[p.doc] /\ Cardinality(Live(p)) < WHMax
  <2> DEFINE o == Op("open", p.n + 1)
  <2> DEFINE q == [p EXCEPT !.n = @ + 1, !.ops = Append(@, o)]
  <2>1. Construct(p) = q
    BY <1>1 DEF Construct
  <2>2. p.n + 1 \in Ids /\ p.n \in Nat
    BY <1>1, PageFields
  <2>3. o \in OpSet /\ o.id = p.n + 1
    BY <2>2, OpIs
  <2> HIDE DEF o
  <2>4. p \in PageSet /\ p.ops \in Seq(OpSet)
    BY DEF PageOK, PageSet
  <2>5. /\ q.doc = p.doc /\ q.alive = p.alive /\ q.rs = p.rs /\ q.n = p.n + 1
        /\ q.ops = Append(p.ops, o)
    BY <2>4 DEF PageSet
  <2>6. Append(p.ops, o) \in Seq(OpSet)
    BY <2>3, <2>4
  <2>7. q \in PageSet
    <3>1. p.n + 1 \in Nat
      BY <2>2
    <3> HIDE DEF o
    <3>2. ASSUME NEW m \in Nat, NEW r \in Seq(OpSet) PROVE [p EXCEPT !.n = m, !.ops = r] \in PageSet
      BY <2>4 DEF PageSet
    <3> QED
      BY <2>6, <3>1, <3>2
  <2> HIDE DEF q
  <2>8. Range(q.ops) = Range(p.ops) \cup {o}
    BY <2>3, <2>4, <2>5, RangeAppend
  <2>9. \A x \in Range(p.ops) : x.id <= p.n /\ x.id \in Nat
    <3>1. \A x \in Range(p.ops) : x \in OpSet
      BY <2>4, RangeIn
    <3>2. Ids \subseteq Nat
      BY PageFields
    <3> QED
      BY <3>1, <3>2 DEF PageOK, OpSet
  <2>10. PageOK(q)
    <3>1. q.n <= Sockets[q.doc]
      BY <1>1, <2>5, PageFields
    <3>2. \A j \in Ids : j > q.n => q.rs[j] = CONNECTING
      BY <2>2, <2>5, PageFields DEF PageOK
    <3>3. \A x \in Range(q.ops) : x.id <= q.n
      BY <2>2, <2>3, <2>5, <2>8, <2>9
    <3> QED
      BY <2>7, <3>1, <3>2, <3>3 DEF PageOK
  <2>11. \A j \in Ids : p.n < j /\ j <= q.n => Op("open", j) \in Range(q.ops)
    <3>1. \A j \in Ids : p.n < j /\ j <= q.n => j = p.n + 1
      BY <2>2, <2>5, PageFields
    <3> QED
      BY <2>8, <3>1 DEF o
  <2>12. p.n <= q.n
    BY <2>2, <2>5
  <2> QED
    BY <2>1, <2>5, <2>8, <2>10, <2>11, <2>12 DEF Moves
<1>2. CASE ~(p.n < Sockets[p.doc] /\ Cardinality(Live(p)) < WHMax)
  <2>1. Construct(p) = p
    BY <1>2 DEF Construct
  <2> QED
    BY <2>1, MovesNone
<1> QED
  BY <1>1, <1>2

LEMMA MovesClose ==
    ASSUME NEW p, PageOK(p), WsAssumption, NEW i \in Ids
    PROVE  Moves(p, Close(p, i))
<1>1. CASE i <= p.n /\ p.rs[i] \in {CONNECTING, OPEN}
  <2> DEFINE o == Op("close", i)
  <2> DEFINE q == [p EXCEPT !.rs[i] = CLOSING, !.ops = Append(@, o)]
  <2>1. Close(p, i) = q
    BY <1>1 DEF Close
  <2>3. o \in OpSet /\ o.id = i
    BY OpIs
  <2> HIDE DEF o
  <2>4. p \in PageSet /\ p.ops \in Seq(OpSet) /\ p.rs \in [Ids -> CONNECTING .. CLOSED] /\ p.n \in Nat
    BY DEF PageOK, PageSet
  <2>5. /\ q.doc = p.doc /\ q.alive = p.alive /\ q.rs = [p.rs EXCEPT ![i] = CLOSING] /\ q.n = p.n
        /\ q.ops = Append(p.ops, o)
    BY <2>4 DEF PageSet
  <2>6. Append(p.ops, o) \in Seq(OpSet) /\ [p.rs EXCEPT ![i] = CLOSING] \in [Ids -> CONNECTING .. CLOSED]
    BY <2>3, <2>4, States
  <2>7. q \in PageSet
    BY <2>4, <2>6 DEF PageSet
  <2> HIDE DEF q
  <2>8. Range(q.ops) = Range(p.ops) \cup {o}
    BY <2>3, <2>4, <2>5, RangeAppend
  <2>9. \A j \in Ids : q.rs[j] = IF j = i THEN CLOSING ELSE p.rs[j]
    BY <2>4, <2>5
  <2>10. PageOK(q)
    <3>2. \A j \in Ids : j > q.n => q.rs[j] = CONNECTING
      BY <1>1, <2>4, <2>5, <2>9, PageFields DEF PageOK
    <3>3. \A x \in Range(q.ops) : x.id <= q.n
      BY <1>1, <2>3, <2>5, <2>8 DEF PageOK
    <3>4. q.n <= Sockets[q.doc]
      BY <2>5 DEF PageOK
    <3> QED
      BY <2>7, <3>2, <3>3, <3>4 DEF PageOK
  <2>11. \A j \in Ids : \/ q.rs[j] = p.rs[j]
                        \/ /\ p.rs[j] \in {CONNECTING, OPEN} /\ q.rs[j] = CLOSING
                           /\ Op("close", j) \in Range(q.ops)
    BY <1>1, <2>8, <2>9 DEF o
  <2>12. p.n <= q.n /\ \A j \in Ids : ~(p.n < j /\ j <= q.n)
    BY <2>4, <2>5, PageFields
  <2> QED
    BY <2>1, <2>5, <2>8, <2>10, <2>11, <2>12 DEF Moves
<1>2. CASE ~(i <= p.n /\ p.rs[i] \in {CONNECTING, OPEN})
  <2>1. Close(p, i) = p
    BY <1>2 DEF Close
  <2> QED
    BY <2>1, MovesNone
<1> QED
  BY <1>1, <1>2

LEMMA MovesCall ==
    ASSUME NEW p, PageOK(p), WsAssumption, NEW c \in Calls
    PROVE  Moves(p, Call(p, c)) /\ PageOK(Call(p, c))
<1>1. CASE c = 0
  BY <1>1, MovesConstruct DEF Call, Moves
<1>2. CASE c # 0
  <2>1. c \in Ids
    BY <1>2, Bounds DEF Calls, Ids
  <2> QED
    BY <1>2, <2>1, MovesClose DEF Call, Moves
<1> QED
  BY <1>1, <1>2

LEMMA MovesRuns ==
    ASSUME NEW p, PageOK(p), WsAssumption, NEW q \in Runs(p)
    PROVE  Moves(p, q)
<1>1. CASE q = p
  BY <1>1, MovesNone
<1>2. ASSUME NEW c \in Calls, q = Call(p, c) PROVE Moves(p, q)
  BY <1>2, MovesCall
<1>3. ASSUME NEW c \in Calls, NEW d \in Calls, q = Call(Call(p, c), d) PROVE Moves(p, q)
  <2>1. Moves(p, Call(p, c)) /\ PageOK(Call(p, c))
    BY MovesCall
  <2>2. Moves(Call(p, c), q)
    BY <1>3, <2>1, MovesCall
  <2> QED
    BY <2>1, <2>2, MovesTwice
<1> QED
  BY <1>1, <1>2, <1>3 DEF Runs

(* A new page, before its scripts run. *)
LEMMA NewPageOK ==
    ASSUME WsAssumption, NEW d \in 1 .. MaxDoc
    PROVE  /\ PageOK(NewPage(d, TRUE)) /\ NewPage(d, TRUE).n = 0
           /\ NewPage(d, TRUE).doc = d /\ NewPage(d, TRUE).alive = TRUE
           /\ Range(NewPage(d, TRUE).ops) = {}
           /\ \A j \in Ids : NewPage(d, TRUE).rs[j] = CONNECTING
<1> DEFINE p == NewPage(d, TRUE)
<1>1. [i \in Ids |-> CONNECTING] \in [Ids -> CONNECTING .. CLOSED]
  BY States
<1>2. /\ p.doc = d /\ p.alive = TRUE /\ p.n = 0 /\ p.ops = <<>>
      /\ p.rs = [i \in Ids |-> CONNECTING]
  BY DEF NewPage
<1>3. p \in PageSet
  BY <1>1 DEF NewPage, PageSet
<1> HIDE DEF p
<1>4. Range(p.ops) = {}
  BY <1>2 DEF Range
<1>5. 0 <= Sockets[d]
  BY Bounds
<1>6. \A j \in Ids : p.rs[j] = CONNECTING
  BY <1>2
<1>7. PageOK(p)
  BY <1>2, <1>3, <1>4, <1>5, <1>6 DEF PageOK
<1> QED
  BY <1>2, <1>4, <1>6, <1>7 DEF p

(* An event changes the state of its socket alone. *)
EventTo(r, k) == IF k = "open" THEN OPEN ELSE IF k = "close" THEN CLOSED ELSE r

LEMMA EventIs ==
    ASSUME NEW p, PageOK(p), WsAssumption, NEW i \in Ids, NEW k
    PROVE  /\ PageOK(EventState(p, i, k))
           /\ EventState(p, i, k).doc = p.doc /\ EventState(p, i, k).alive = p.alive
           /\ EventState(p, i, k).n = p.n /\ EventState(p, i, k).ops = p.ops
           /\ \A j \in Ids : EventState(p, i, k).rs[j] =
                  IF j = i /\ i \in Live(p) THEN EventTo(p.rs[i], k) ELSE p.rs[j]
<1> DEFINE e == IF i \notin Live(p) THEN p.rs[i]
                ELSE CASE k = "open"  -> OPEN
                       [] k = "close" -> CLOSED
                       [] OTHER       -> p.rs[i]
           q == [p EXCEPT !.rs[i] = e]
<1>1. p \in PageSet /\ p.rs \in [Ids -> CONNECTING .. CLOSED] /\ p.n \in Nat
  BY DEF PageOK, PageSet
<1>2. e = IF i \in Live(p) THEN EventTo(p.rs[i], k) ELSE p.rs[i]
  <2>1. CASE k = "open"
    BY <2>1 DEF EventTo
  <2>2. CASE k = "close"
    BY <2>2 DEF EventTo
  <2>3. CASE k # "open" /\ k # "close"
    BY <2>3 DEF EventTo
  <2> QED
    BY <2>1, <2>2, <2>3
<1>3. EventState(p, i, k) = q
  BY <1>1 DEF EventState
<1>4. e \in CONNECTING .. CLOSED
  BY <1>1, <1>2, States DEF EventTo
<1> HIDE DEF e
<1>5. /\ q.doc = p.doc /\ q.alive = p.alive /\ q.n = p.n /\ q.ops = p.ops
      /\ q.rs = [p.rs EXCEPT ![i] = e]
  BY <1>1 DEF PageSet
<1>6. q \in PageSet
  BY <1>1, <1>4 DEF PageSet
<1> HIDE DEF q
<1>7. \A j \in Ids : q.rs[j] = IF j = i THEN e ELSE p.rs[j]
  BY <1>1, <1>5
<1>8. i \in Live(p) => i <= p.n
  BY <1>1 DEF Live
<1>9. \A j \in Ids : q.rs[j] = IF j = i /\ i \in Live(p) THEN EventTo(p.rs[i], k) ELSE p.rs[j]
  BY <1>2, <1>7
<1>10. PageOK(q)
  <2>1. \A j \in Ids : j > q.n => q.rs[j] = CONNECTING
    <3>1. \A j \in Ids : j > p.n => p.rs[j] = CONNECTING /\ ~(j = i /\ i \in Live(p))
      BY <1>1, <1>8, PageFields DEF PageOK
    <3> QED
      BY <1>5, <1>9, <3>1
  <2> QED
    BY <1>5, <1>6, <2>1 DEF PageOK
<1> QED
  BY <1>3, <1>5, <1>9, <1>10

(* The answer takes the operations away. *)
LEMMA EmptiedIs ==
    ASSUME NEW p, PageOK(p), WsAssumption
    PROVE  /\ PageOK(Emptied(p)) /\ Emptied(p).doc = p.doc /\ Emptied(p).alive = p.alive
           /\ Emptied(p).n = p.n /\ Emptied(p).rs = p.rs /\ Emptied(p).ops = <<>>
           /\ Range(Emptied(p).ops) = {}
<1>1. p \in PageSet
  BY DEF PageOK
<1> DEFINE q == Emptied(p)
<1>2. q.doc = p.doc /\ q.alive = p.alive /\ q.n = p.n /\ q.rs = p.rs /\ q.ops = <<>>
  BY <1>1 DEF Emptied, PageSet
<1>3. q \in PageSet
  <2>1. ASSUME NEW r \in Seq(OpSet) PROVE [p EXCEPT !.ops = r] \in PageSet
    BY <1>1 DEF PageSet
  <2>2. <<>> \in Seq(OpSet)
    OBVIOUS
  <2> QED
    BY <2>1, <2>2 DEF Emptied
<1> HIDE DEF q
<1>4. Range(q.ops) = {}
  BY <1>2 DEF Range
<1>5. PageOK(q)
  BY <1>2, <1>3, <1>4 DEF PageOK
<1> QED
  BY <1>2, <1>4, <1>5 DEF q

LEMMA TakenIs ==
    ASSUME NEW p, PageOK(p), WsAssumption
    PROVE  /\ Taken(p) \in Seq(OpSet) /\ Overflow(p) \in Seq(OpSet)
           /\ Range(p.ops) = Range(Taken(p)) \cup Range(Overflow(p))
           /\ \A o \in Range(Taken(p)) \cup Range(Overflow(p)) : o \in OpSet /\ o.id <= p.n
<1>1. p.ops \in Seq(OpSet) /\ MaxOps \in Nat
  BY DEF PageOK, PageSet, WsAssumption
<1>2. /\ Taken(p) \in Seq(OpSet) /\ Overflow(p) \in Seq(OpSet)
      /\ Range(p.ops) = Range(Taken(p)) \cup Range(Overflow(p))
  BY <1>1, RangeCut DEF Taken, Overflow
<1>3. \A o \in Range(p.ops) : o \in OpSet /\ o.id <= p.n
  BY <1>1, RangeIn DEF PageOK
<1> QED
  BY <1>2, <1>3

-----------------------------------------------------------------------------
(***************************************************************************)
(* The window's calls.                                                     *)
(***************************************************************************)
FrameSet == [f : {"apply", "emit", "read", "notify", "leave"}, ops : Seq(OpSet), id : 0 .. MaxId,
             token : Nat, n : Nat]

OpsIn(s)   == UNION {Range(x.ops) : x \in {y \in Range(s) : y.f = "apply"}}
EndsIn(s)  == {x.id : x \in {y \in Range(s) : y.f = "emit"}}
ReadsIn(s) == {x \in Range(s) : x.f = "read"}

(* The window enters the hub from its loop alone: below such a call is nothing. *)
FrameOK(x, s) ==
    /\ x \in FrameSet
    /\ x.f \in {"emit", "read"} => x.id \in Ids
    /\ x.f \in {"notify", "read"} => s = <<>>

StackOK(s) ==
    /\ s \in Seq(FrameSet)
    /\ \A x \in Range(s) : x.f \in {"emit", "read"} => x.id \in Ids
    /\ \A k \in 1 .. Len(s) : k < Len(s) => s[k].f \notin {"notify", "read"}

LEMMA StackEmpty ==
    StackOK(<<>>) /\ OpsIn(<<>>) = {} /\ EndsIn(<<>>) = {} /\ ReadsIn(<<>>) = {}
<1>1. Range(<<>>) = {}
  BY DEF Range
<1>2. <<>> \in Seq(FrameSet) /\ Len(<<>>) = 0
  OBVIOUS
<1> QED
  BY <1>1, <1>2 DEF StackOK, OpsIn, EndsIn, ReadsIn

LEMMA StackCons ==
    ASSUME NEW s, StackOK(s), NEW x, FrameOK(x, s)
    PROVE  /\ StackOK(<<x>> \o s)
           /\ <<x>> \o s # <<>> /\ Head(<<x>> \o s) = x /\ Tail(<<x>> \o s) = s
           /\ OpsIn(<<x>> \o s) = (IF x.f = "apply" THEN Range(x.ops) ELSE {}) \cup OpsIn(s)
           /\ EndsIn(<<x>> \o s) = (IF x.f = "emit" THEN {x.id} ELSE {}) \cup EndsIn(s)
           /\ ReadsIn(<<x>> \o s) = (IF x.f = "read" THEN {x} ELSE {}) \cup ReadsIn(s)
<1> DEFINE t == <<x>> \o s
<1>1. s \in Seq(FrameSet) /\ x \in FrameSet
  BY DEF StackOK, FrameOK
<1>2. t \in Seq(FrameSet) /\ t # <<>> /\ Head(t) = x /\ Tail(t) = s /\ Range(t) = {x} \cup Range(s)
  BY <1>1, RangeCons
<1>3. Len(t) = Len(s) + 1 /\ Len(s) \in Nat /\ t[1] = x /\ \A k \in 2 .. Len(s) + 1 : t[k] = s[k - 1]
  BY <1>1
<1> HIDE DEF t
<1>4. \A y \in Range(t) : y.f \in {"emit", "read"} => y.id \in Ids
  BY <1>2 DEF StackOK, FrameOK
<1>5. ASSUME NEW k \in 1 .. Len(t), k < Len(t) PROVE t[k].f \notin {"notify", "read"}
  <2>1. CASE k = 1
    <3>1. s # <<>>
      BY <1>1, <1>3, <1>5, <2>1
    <3> QED
      BY <1>3, <2>1, <3>1 DEF FrameOK
  <2>2. CASE k # 1
    <3>1. k - 1 \in 1 .. Len(s) /\ k - 1 < Len(s) /\ k \in 2 .. Len(s) + 1
      BY <1>3, <1>5, <2>2
    <3> QED
      BY <1>3, <3>1 DEF StackOK
  <2> QED
    BY <2>1, <2>2
<1>6. StackOK(t)
  BY <1>2, <1>4, <1>5 DEF StackOK
<1>7. OpsIn(t) = (IF x.f = "apply" THEN Range(x.ops) ELSE {}) \cup OpsIn(s)
  BY <1>2 DEF OpsIn
<1>8. EndsIn(t) = (IF x.f = "emit" THEN {x.id} ELSE {}) \cup EndsIn(s)
  BY <1>2 DEF EndsIn
<1>9. ReadsIn(t) = (IF x.f = "read" THEN {x} ELSE {}) \cup ReadsIn(s)
  BY <1>2 DEF ReadsIn
<1> QED
  BY <1>2, <1>6, <1>7, <1>8, <1>9 DEF t

LEMMA StackRest ==
    ASSUME NEW s, StackOK(s), s # <<>>
    PROVE  /\ StackOK(Tail(s)) /\ FrameOK(Head(s), Tail(s))
           /\ OpsIn(s) = (IF Head(s).f = "apply" THEN Range(Head(s).ops) ELSE {}) \cup OpsIn(Tail(s))
           /\ EndsIn(s) = (IF Head(s).f = "emit" THEN {Head(s).id} ELSE {}) \cup EndsIn(Tail(s))
           /\ ReadsIn(s) = (IF Head(s).f = "read" THEN {Head(s)} ELSE {}) \cup ReadsIn(Tail(s))
<1> DEFINE x == Head(s)
           t == Tail(s)
<1>1. s \in Seq(FrameSet)
  BY DEF StackOK
<1>2. x \in FrameSet /\ t \in Seq(FrameSet) /\ Range(s) = {x} \cup Range(t)
  BY <1>1, RangeTail
<1>3. Len(s) \in Nat \ {0} /\ Len(t) = Len(s) - 1 /\ s[1] = x /\ \A k \in 1 .. Len(s) - 1 : t[k] = s[k + 1]
  BY <1>1
<1> HIDE DEF x, t
<1>4. \A y \in Range(t) : y.f \in {"emit", "read"} => y.id \in Ids
  BY <1>2 DEF StackOK
<1>5. ASSUME NEW k \in 1 .. Len(t), k < Len(t) PROVE t[k].f \notin {"notify", "read"}
  <2>1. k + 1 \in 1 .. Len(s) /\ k + 1 < Len(s) /\ k \in 1 .. Len(s) - 1
    BY <1>3, <1>5
  <2> QED
    BY <1>3, <2>1 DEF StackOK
<1>6. StackOK(t)
  BY <1>2, <1>4, <1>5 DEF StackOK
<1>7. FrameOK(x, t)
  <2>1. ASSUME x.f \in {"notify", "read"} PROVE t = <<>>
    <3>1. ~(1 < Len(s))
      BY <1>3, <2>1 DEF StackOK
    <3>2. Len(t) = 0
      BY <1>3, <3>1
    <3> QED
      BY <1>2, <3>2
  <2>2. x \in Range(s)
    BY <1>2
  <2> QED
    BY <1>2, <2>1, <2>2 DEF FrameOK, StackOK
<1>8. OpsIn(s) = (IF x.f = "apply" THEN Range(x.ops) ELSE {}) \cup OpsIn(t)
  BY <1>2 DEF OpsIn
<1>9. EndsIn(s) = (IF x.f = "emit" THEN {x.id} ELSE {}) \cup EndsIn(t)
  BY <1>2 DEF EndsIn
<1>10. ReadsIn(s) = (IF x.f = "read" THEN {x} ELSE {}) \cup ReadsIn(t)
  BY <1>2 DEF ReadsIn
<1> QED
  BY <1>6, <1>7, <1>8, <1>9, <1>10 DEF x, t

LEMMA FrameIs ==
    ASSUME WsAssumption, NEW g \in {"apply", "emit", "read", "notify", "leave"}
    PROVE  /\ Frame(g) \in FrameSet /\ Frame(g).f = g /\ Frame(g).ops = <<>> /\ Frame(g).id = 0
  BY Bounds DEF Frame, FrameSet

LEMMA ApplyIs ==
    ASSUME WsAssumption, NEW o \in Seq(OpSet), NEW s
    PROVE  FrameOK(Apply(o), s) /\ Apply(o).f = "apply" /\ Apply(o).ops = o
  BY FrameIs DEF Apply, FrameOK, FrameSet

LEMMA LeaveIs ==
    ASSUME WsAssumption, NEW s
    PROVE  FrameOK(Frame("leave"), s) /\ Frame("leave").f = "leave"
  BY FrameIs DEF FrameOK

LEMMA EmitIs ==
    ASSUME WsAssumption, NEW i \in Ids, NEW s
    PROVE  FrameOK(EmitClose(i), s) /\ EmitClose(i).f = "emit" /\ EmitClose(i).id = i
<1>1. i \in 0 .. MaxId
  BY Bounds DEF Ids
<1> QED
  BY <1>1, FrameIs DEF EmitClose, FrameOK, FrameSet

LEMMA ReadIs ==
    ASSUME WsAssumption, NEW i \in Ids, NEW t \in Nat
    PROVE  /\ FrameOK(ReadFrame(t, i), <<>>) /\ ReadFrame(t, i).f = "read"
           /\ ReadFrame(t, i).id = i /\ ReadFrame(t, i).token = t
<1>1. i \in 0 .. MaxId
  BY Bounds DEF Ids
<1> QED
  BY <1>1, FrameIs DEF ReadFrame, FrameOK, FrameSet

-----------------------------------------------------------------------------
(***************************************************************************)
(* Who owns a connection.  Tokens are never used twice, so that a slot, a  *)
(* thread and a result in the socket pair that have the same token belong  *)
(* to the same open; a slot gets its connection when the result leaves the *)
(* socket pair.                                                            *)
(***************************************************************************)
ConnSet == [st : {"free", "pending", "open"}, id : 0 .. MaxId, token : Nat, len : Nat]
JobSet  == [token : Nat, id : Ids, st : {"opening", "ok", "failed"}]

OwnTypes ==
    /\ conn \in [Slots -> ConnSet] /\ seq \in Nat
    /\ threads \subseteq JobSet /\ pipe \in Seq(JobSet)

Jobs == threads \cup Range(pipe)

SlotTokens ==
    /\ \A s \in Slots : conn[s].st # "free" => conn[s].token <= seq /\ conn[s].id \in Ids
    /\ \A s, r \in Slots :
           conn[s].st # "free" /\ conn[r].st # "free" /\ conn[s].token = conn[r].token => s = r

JobTokens ==
    /\ \A j \in Jobs : j.token <= seq
    /\ \A j, k \in threads : j.token = k.token => j = k
    /\ \A a, b \in DOMAIN pipe : pipe[a].token = pipe[b].token => a = b
    /\ \A j \in threads, k \in Range(pipe) : j.token # k.token

Awaited ==
    \A s \in Slots, j \in Jobs :
        conn[s].st # "free" /\ conn[s].token = j.token => conn[s].st = "pending" /\ conn[s].id = j.id

Held ==
    \A t \in ws : \/ \E s \in Slots : conn[s].st = "open" /\ conn[s].token = t
                  \/ \E j \in Jobs : j.st = "ok" /\ j.token = t

OwnInv == OwnTypes /\ SlotTokens /\ JobTokens /\ Awaited /\ Held

(* Exactly one owner follows: the sets Owners counts are two empty sets and one
   with a single element. *)
LEMMA OwnedOnce ==
    ASSUME OwnInv
    PROVE  OneOwner
<1> SUFFICES ASSUME NEW t \in ws PROVE Owners(t) = 1
  BY DEF OneOwner
<1> DEFINE A == {s \in Slots : conn[s].st = "open" /\ conn[s].token = t}
           B == {j \in threads : j.token = t}
           C == {k \in DOMAIN pipe : pipe[k].token = t}
<1>1. Owners(t) = Cardinality(A) + Cardinality(B) + Cardinality(C)
  BY DEF Owners
<1>2. \A k \in DOMAIN pipe : pipe[k] \in Range(pipe)
  BY DEF Range
<1>3. \A j \in Range(pipe) : \E k \in DOMAIN pipe : pipe[k] = j
  BY DEF Range
<1>4. A # {} => B = {} /\ C = {}
  BY <1>2 DEF OwnInv, Awaited, Jobs
<1>5. B # {} => C = {}
  BY <1>2 DEF OwnInv, JobTokens
<1>6. A # {} \/ B # {} \/ C # {}
  <2>1. CASE \E s \in Slots : conn[s].st = "open" /\ conn[s].token = t
    BY <2>1
  <2>2. ASSUME NEW j \in threads, j.token = t PROVE B # {}
    BY <2>2
  <2>3. ASSUME NEW j \in Range(pipe), j.token = t PROVE C # {}
    BY <2>3, <1>3
  <2> QED
    BY <2>1, <2>2, <2>3 DEF OwnInv, Held, Jobs
<1>7. A # {} => \E x \in A : A = {x}
  BY DEF OwnInv, SlotTokens
<1>8. B # {} => \E x \in B : B = {x}
  BY DEF OwnInv, JobTokens
<1>9. C # {} => \E x \in C : C = {x}
  BY DEF OwnInv, JobTokens
<1> HIDE DEF A, B, C
<1>10. Cardinality({}) = 0 /\ \A x : Cardinality({x}) = 1
  BY FS_EmptySet, FS_Singleton
<1>11. A # {} => Cardinality(A) = 1 /\ Cardinality(B) = 0 /\ Cardinality(C) = 0
  BY <1>4, <1>7, <1>10
<1>12. A = {} /\ B # {} => Cardinality(A) = 0 /\ Cardinality(B) = 1 /\ Cardinality(C) = 0
  BY <1>5, <1>8, <1>10
<1>13. A = {} /\ B = {} => Cardinality(A) = 0 /\ Cardinality(B) = 0 /\ Cardinality(C) = 1
  BY <1>6, <1>9, <1>10
<1> QED
  BY <1>1, <1>11, <1>12, <1>13

LEMMA NoConnIs == ASSUME WsAssumption PROVE NoConn \in ConnSet /\ NoConn.st = "free"
  BY Bounds DEF NoConn, ConnSet

LEMMA OwnInit == ASSUME WsAssumption, Init PROVE OwnInv
<1>1. conn = [s \in Slots |-> NoConn] /\ seq = 0 /\ threads = {} /\ pipe = <<>> /\ ws = {}
  BY DEF Init
<1>2. Range(pipe) = {} /\ Jobs = {} /\ DOMAIN pipe = {}
  BY <1>1 DEF Range, Jobs
<1>3. \A s \in Slots : conn[s].st = "free"
  BY <1>1, NoConnIs
<1>4. OwnTypes
  BY <1>1, NoConnIs DEF OwnTypes
<1> QED
  BY <1>1, <1>2, <1>3, <1>4 DEF OwnInv, SlotTokens, JobTokens, Awaited, Held

(* Steps that leave connections, threads and the socket pair alone. *)
LEMMA OwnSame ==
    ASSUME OwnInv, UNCHANGED <<conn, seq, threads, pipe, ws>>
    PROVE  OwnInv'
  BY DEF OwnInv, OwnTypes, Jobs, SlotTokens, JobTokens, Awaited, Held

(* conn_clear. *)
LEMMA OwnCleared ==
    ASSUME WsAssumption, OwnInv, NEW S \in SUBSET Slots, conn' = Cleared(S), ws' = Dropped(S),
           UNCHANGED <<seq, threads, pipe>>
    PROVE  OwnInv'
<1>1. \A s \in Slots : conn'[s] = IF s \in S THEN NoConn ELSE conn[s]
  BY DEF Cleared
<1>2. \A s \in Slots : conn'[s].st # "free" => conn[s].st # "free" /\ conn'[s] = conn[s]
  BY <1>1, NoConnIs
<1>3. OwnTypes'
  <2>1. conn' \in [Slots -> ConnSet]
    BY NoConnIs DEF Cleared, OwnInv, OwnTypes
  <2> QED
    BY <2>1 DEF OwnInv, OwnTypes
<1>4. SlotTokens'
  BY <1>2 DEF OwnInv, SlotTokens
<1>5. Jobs' = Jobs /\ JobTokens'
  BY DEF OwnInv, JobTokens, Jobs
<1>6. Awaited'
  BY <1>2, <1>5 DEF OwnInv, Awaited
<1>7. Held'
  <2> SUFFICES ASSUME NEW t \in ws'
               PROVE  \/ \E s \in Slots : conn'[s].st = "open" /\ conn'[s].token = t
                      \/ \E j \in Jobs : j.st = "ok" /\ j.token = t
    BY <1>5 DEF Held
  <2>1. t \in ws /\ \A s \in S : conn[s].st = "open" => conn[s].token # t
    BY DEF Dropped
  <2>2. ASSUME NEW s \in Slots, conn[s].st = "open", conn[s].token = t
        PROVE  conn'[s].st = "open" /\ conn'[s].token = t
    BY <1>1, <2>1, <2>2
  <2> QED
    BY <2>1, <2>2 DEF OwnInv, Held
<1> QED
  BY <1>3, <1>4, <1>5, <1>6, <1>7 DEF OwnInv

(* A fragment, or the end of a message. *)
LEMMA OwnLength ==
    ASSUME OwnInv, NEW s \in Slots, NEW l \in Nat, conn' = [conn EXCEPT ![s].len = l],
           UNCHANGED <<seq, threads, pipe, ws>>
    PROVE  OwnInv'
<1>1. conn \in [Slots -> ConnSet]
  BY DEF OwnInv, OwnTypes
<1>2. \A r \in Slots : conn'[r].st = conn[r].st /\ conn'[r].id = conn[r].id /\ conn'[r].token = conn[r].token
  BY <1>1 DEF ConnSet
<1>3. conn' \in [Slots -> ConnSet]
  BY <1>1 DEF ConnSet
<1>4. Jobs' = Jobs
  BY DEF Jobs
<1>5. OwnTypes' /\ SlotTokens'
  BY <1>2, <1>3 DEF OwnInv, OwnTypes, SlotTokens
<1>6. JobTokens' /\ Awaited' /\ Held'
  BY <1>2, <1>4 DEF OwnInv, JobTokens, Awaited, Held
<1> QED
  BY <1>5, <1>6 DEF OwnInv

(* wh_open_async: a new token in a free slot, and the thread that opens it. *)
LEMMA OpenSlot ==
    ASSUME WsAssumption, OwnInv, NEW i \in Ids, OpenAsync(i)
    PROVE  \E s \in Slots :
               LET c == [st |-> "pending", id |-> i, token |-> seq + 1, len |-> 0]
               IN  conn[s].st = "free" /\ conn' = [conn EXCEPT ![s] = c] /\ c \in ConnSet
<1> DEFINE F == Slots \ Used
           s == CHOOSE x \in F : \A y \in F : x <= y
<1>1. F # {} /\ F \subseteq Nat
  BY DEF OpenAsync, Used, Slots, WsAssumption
<1>2. \E x \in F : \A y \in F : x <= y
  BY <1>1, LeastNumber
<1> HIDE DEF F
<1>3. s \in F
  BY <1>2
<1>4. s \in Slots /\ conn[s].st = "free"
  BY <1>3 DEF F, Used
<1>5. conn' = [conn EXCEPT ![s] = [st |-> "pending", id |-> i, token |-> seq + 1, len |-> 0]]
  BY DEF OpenAsync, F
<1>6. [st |-> "pending", id |-> i, token |-> seq + 1, len |-> 0] \in ConnSet
  <2>1. i \in 0 .. MaxId /\ seq + 1 \in Nat
    BY Bounds DEF Ids, OwnInv, OwnTypes
  <2> QED
    BY <2>1 DEF ConnSet
<1> HIDE DEF s
<1> QED
  BY <1>4, <1>5, <1>6

LEMMA OwnOpen ==
    ASSUME WsAssumption, OwnInv, NEW i \in Ids, OpenAsync(i), UNCHANGED <<pipe, ws>>
    PROVE  OwnInv'
<1> DEFINE c == [st |-> "pending", id |-> i, token |-> seq + 1, len |-> 0]
           j == [token |-> seq + 1, id |-> i, st |-> "opening"]
<1>1. PICK s \in Slots : conn[s].st = "free" /\ conn' = [conn EXCEPT ![s] = c] /\ c \in ConnSet
  BY OpenSlot
<1>2. seq' = seq + 1 /\ threads' = threads \cup {j} /\ seq \in Nat /\ conn \in [Slots -> ConnSet]
  BY DEF OpenAsync, OwnInv, OwnTypes
<1>3. j \in JobSet /\ j.token = seq + 1 /\ j.id = i /\ j.st = "opening"
  BY <1>2 DEF JobSet
<1>4. c.st = "pending" /\ c.token = seq + 1 /\ c.id = i
  OBVIOUS
<1> HIDE DEF c, j
<1>5. \A r \in Slots : conn'[r] = IF r = s THEN c ELSE conn[r]
  BY <1>1, <1>2
<1>6. OwnTypes'
  <2>1. conn' \in [Slots -> ConnSet]
    BY <1>1, <1>2
  <2> QED
    BY <2>1, <1>2, <1>3 DEF OwnInv, OwnTypes
<1>7. Jobs' = Jobs \cup {j}
  BY <1>2 DEF Jobs
<1>8. /\ \A r \in Slots : conn[r].st # "free" => conn[r].token < seq + 1 /\ conn[r].id \in Ids /\ conn[r].token \in Nat
      /\ \A k \in Jobs : k.token < seq + 1 /\ k.token \in Nat
  <2>1. \A r \in Slots : conn[r].token \in Nat
    BY <1>2 DEF ConnSet
  <2>2. \A k \in Jobs : k \in JobSet
    BY RangeIn DEF OwnInv, OwnTypes, Jobs
  <2>3. \A k \in Jobs : k.token \in Nat
    BY <2>2 DEF JobSet
  <2> QED
    BY <1>2, <2>1, <2>3 DEF OwnInv, SlotTokens, JobTokens
<1>9. SlotTokens'
  <2>1. \A r \in Slots : conn'[r].st # "free" => conn'[r].token <= seq' /\ conn'[r].id \in Ids
    BY <1>2, <1>4, <1>5, <1>8
  <2>2. ASSUME NEW q \in Slots, NEW r \in Slots, conn'[q].st # "free", conn'[r].st # "free", conn'[q].token = conn'[r].token
        PROVE  q = r
    BY <1>2, <1>4, <1>5, <1>8, <2>2 DEF OwnInv, SlotTokens
  <2> QED
    BY <2>1, <2>2 DEF SlotTokens
<1>10. JobTokens'
  <2>1. \A k \in Jobs' : k.token <= seq'
    BY <1>2, <1>3, <1>7, <1>8
  <2>2. \A k, l \in threads' : k.token = l.token => k = l
    BY <1>2, <1>3, <1>8 DEF OwnInv, JobTokens, Jobs
  <2>3. \A k \in threads', l \in Range(pipe)' : k.token # l.token
    BY <1>2, <1>3, <1>8 DEF OwnInv, JobTokens, Jobs
  <2> QED
    BY <2>1, <2>2, <2>3 DEF OwnInv, JobTokens
<1>11. Awaited'
  <2> SUFFICES ASSUME NEW r \in Slots, NEW k \in Jobs', conn'[r].st # "free", conn'[r].token = k.token
               PROVE  conn'[r].st = "pending" /\ conn'[r].id = k.id
    BY DEF Awaited
  <2>1. CASE r = s
    <3>1. k = j
      BY <1>2, <1>4, <1>5, <1>7, <1>8, <2>1
    <3> QED
      BY <1>3, <1>4, <1>5, <2>1, <3>1
  <2>2. CASE r # s
    <3>1. k # j
      BY <1>2, <1>3, <1>5, <1>8, <2>2
    <3> QED
      BY <1>5, <1>7, <2>2, <3>1 DEF OwnInv, Awaited
  <2> QED
    BY <2>1, <2>2
<1>12. Held'
  <2> SUFFICES ASSUME NEW t \in ws
               PROVE  \/ \E r \in Slots : conn'[r].st = "open" /\ conn'[r].token = t
                      \/ \E k \in Jobs' : k.st = "ok" /\ k.token = t
    BY DEF Held
  <2>1. ASSUME NEW r \in Slots, conn[r].st = "open", conn[r].token = t
        PROVE  conn'[r].st = "open" /\ conn'[r].token = t
    BY <1>1, <1>5, <2>1
  <2> QED
    BY <1>7, <2>1 DEF OwnInv, Held
<1> QED
  BY <1>6, <1>9, <1>10, <1>11, <1>12 DEF OwnInv

(* sf_ws_open returns, with a connection or without. *)
LEMMA OwnOpened ==
    ASSUME WsAssumption, OwnInv, NEW j \in threads, Opened(j)
    PROVE  OwnInv'
<1>1. PICK r \in {"ok", "failed"} :
          /\ threads' = (threads \ {j}) \cup {[j EXCEPT !.st = r]}
          /\ ws' = IF r = "ok" THEN ws \cup {j.token} ELSE ws
  BY DEF Opened
<1>2. j.st = "opening" /\ conn' = conn /\ seq' = seq /\ pipe' = pipe
  BY DEF Opened
<1> DEFINE k == [j EXCEPT !.st = r]
<1>3. j \in JobSet
  BY DEF OwnInv, OwnTypes
<1>4. k \in JobSet /\ k.token = j.token /\ k.id = j.id /\ k.st = r
  BY <1>3 DEF JobSet
<1> HIDE DEF k
<1>5. threads' = (threads \ {j}) \cup {k}
  BY <1>1 DEF k
<1>6. OwnTypes' /\ SlotTokens'
  BY <1>2, <1>4, <1>5 DEF OwnInv, OwnTypes, SlotTokens
<1>7. /\ \A l \in Jobs' : l = k \/ l \in Jobs \ {j} \/ l \in Range(pipe)
      /\ \A l \in Jobs : l # j => l \in Jobs'
      /\ k \in Jobs' /\ j \in Jobs /\ Range(pipe)' = Range(pipe) /\ Range(pipe) \subseteq Jobs
  BY <1>2, <1>5 DEF Jobs
<1>8. JobTokens'
  <2>1. \A l \in Jobs' : l.token <= seq'
    BY <1>2, <1>4, <1>7 DEF OwnInv, JobTokens
  <2>2. \A l, m \in threads' : l.token = m.token => l = m
    BY <1>4, <1>5 DEF OwnInv, JobTokens
  <2>3. \A l \in threads', m \in Range(pipe)' : l.token # m.token
    BY <1>2, <1>4, <1>5 DEF OwnInv, JobTokens
  <2> QED
    BY <1>2, <2>1, <2>2, <2>3 DEF OwnInv, JobTokens
<1>9. Awaited'
  <2> SUFFICES ASSUME NEW s \in Slots, NEW l \in Jobs', conn[s].st # "free", conn[s].token = l.token
               PROVE  conn[s].st = "pending" /\ conn[s].id = l.id
    BY <1>2 DEF Awaited
  <2> QED
    BY <1>4, <1>7 DEF OwnInv, Awaited
<1>10. Held'
  <2> SUFFICES ASSUME NEW t \in ws'
               PROVE  \/ \E s \in Slots : conn[s].st = "open" /\ conn[s].token = t
                      \/ \E l \in Jobs' : l.st = "ok" /\ l.token = t
    BY <1>2 DEF Held
  <2>1. CASE t \in ws
    <3>1. ASSUME NEW l \in Jobs, l.st = "ok" PROVE l \in Jobs'
      BY <1>2, <1>7, <3>1
    <3> QED
      BY <2>1, <3>1 DEF OwnInv, Held
  <2>2. CASE t \notin ws
    <3>1. r = "ok" /\ t = j.token
      BY <1>1, <2>2
    <3> QED
      BY <1>4, <1>7, <3>1
  <2> QED
    BY <2>1, <2>2
<1> QED
  BY <1>6, <1>8, <1>9, <1>10 DEF OwnInv

(* The result goes into the socket pair, or the job is freed with its connection. *)
LEMMA OwnHandOver ==
    ASSUME WsAssumption, OwnInv, NEW j \in threads, HandOver(j)
    PROVE  OwnInv'
<1>1. threads' = threads \ {j} /\ conn' = conn /\ seq' = seq
  BY DEF HandOver
<1>2. j \in JobSet /\ pipe \in Seq(JobSet)
  BY DEF OwnInv, OwnTypes
<1>3. CASE hub = "gone"
  <2>1. ws' = ws \ {j.token} /\ pipe' = pipe
    BY <1>3 DEF HandOver
  <2>2. Jobs' \subseteq Jobs /\ \A l \in Jobs : l # j => l \in Jobs'
    BY <1>1, <2>1 DEF Jobs
  <2>3. OwnTypes' /\ SlotTokens' /\ JobTokens' /\ Awaited'
    BY <1>1, <2>1, <2>2 DEF OwnInv, OwnTypes, SlotTokens, JobTokens, Awaited
  <2>4. Held'
    <3> SUFFICES ASSUME NEW t \in ws, t # j.token
                 PROVE  \/ \E s \in Slots : conn[s].st = "open" /\ conn[s].token = t
                        \/ \E l \in Jobs' : l.st = "ok" /\ l.token = t
      BY <1>1, <2>1 DEF Held
    <3> QED
      BY <2>2 DEF OwnInv, Held
  <2> QED
    BY <2>3, <2>4 DEF OwnInv
<1>4. CASE hub # "gone"
  <2>1. pipe' = Append(pipe, j) /\ ws' = ws
    BY <1>4 DEF HandOver
  <2>2. Range(pipe)' = Range(pipe) \cup {j} /\ pipe' \in Seq(JobSet)
    BY <1>2, <2>1, RangeAppend
  <2>3. Jobs' = Jobs
    BY <1>1, <2>2 DEF Jobs
  <2>4. OwnTypes' /\ SlotTokens'
    BY <1>1, <2>2 DEF OwnInv, OwnTypes, SlotTokens
  <2>5. JobTokens'
    <3>1. \A l \in Jobs' : l.token <= seq'
      BY <1>1, <2>3 DEF OwnInv, JobTokens
    <3>2. \A l, m \in threads' : l.token = m.token => l = m
      BY <1>1 DEF OwnInv, JobTokens
    <3>3. \A l \in threads', m \in Range(pipe)' : l.token # m.token
      BY <1>1, <2>2 DEF OwnInv, JobTokens
    <3>4. DOMAIN pipe' = DOMAIN pipe \cup {Len(pipe) + 1} /\ pipe'[Len(pipe) + 1] = j
          /\ \A a \in DOMAIN pipe : pipe'[a] = pipe[a] /\ pipe[a] \in Range(pipe)
      <4>1. DOMAIN pipe' = 1 .. Len(pipe) + 1 /\ DOMAIN pipe = 1 .. Len(pipe) /\ Len(pipe) \in Nat
        BY <1>2, <2>1
      <4>2. pipe'[Len(pipe) + 1] = j /\ \A a \in 1 .. Len(pipe) : pipe'[a] = pipe[a]
        BY <1>2, <2>1
      <4>3. \A a \in DOMAIN pipe : pipe[a] \in Range(pipe)
        BY DEF Range
      <4> QED
        BY <4>1, <4>2, <4>3
    <3>5. \A a \in DOMAIN pipe : pipe[a].token # j.token
      BY <3>4 DEF OwnInv, JobTokens
    <3>6. \A a, b \in DOMAIN pipe' : pipe'[a].token = pipe'[b].token => a = b
      BY <3>4, <3>5 DEF OwnInv, JobTokens
    <3> QED
      BY <3>1, <3>2, <3>3, <3>6 DEF JobTokens
  <2>6. Awaited' /\ Held'
    BY <1>1, <2>1, <2>3 DEF OwnInv, Awaited, Held
  <2> QED
    BY <2>4, <2>5, <2>6 DEF OwnInv
<1> QED
  BY <1>3, <1>4

(* The first result leaves the socket pair. *)
LEMMA PipeNext ==
    ASSUME OwnInv, pipe # <<>>, pipe' = Tail(pipe), UNCHANGED <<seq, threads>>
    PROVE  /\ Head(pipe) \in JobSet /\ Head(pipe) \in Jobs /\ Head(pipe) \notin Jobs'
           /\ Jobs = Jobs' \cup {Head(pipe)} /\ pipe' \in Seq(JobSet) /\ JobTokens'
           /\ \A l \in Jobs' : l.token # Head(pipe).token
<1>1. pipe \in Seq(JobSet)
  BY DEF OwnInv, OwnTypes
<1>2. Head(pipe) \in JobSet /\ pipe' \in Seq(JobSet) /\ Range(pipe) = {Head(pipe)} \cup Range(pipe)'
  BY <1>1, RangeTail
<1>3. Len(pipe) \in Nat \ {0} /\ DOMAIN pipe = 1 .. Len(pipe) /\ DOMAIN pipe' = 1 .. Len(pipe) - 1
      /\ pipe[1] = Head(pipe) /\ \A a \in 1 .. Len(pipe) - 1 : pipe'[a] = pipe[a + 1]
  BY <1>1
<1>4. \A l \in Range(pipe)' : l.token # Head(pipe).token
  <2> SUFFICES ASSUME NEW a \in 1 .. Len(pipe) - 1 PROVE pipe'[a].token # Head(pipe).token
    BY <1>3 DEF Range
  <2>1. a + 1 \in DOMAIN pipe /\ 1 \in DOMAIN pipe /\ a + 1 # 1
    BY <1>3
  <2>2. pipe[a + 1].token # pipe[1].token
    BY <2>1 DEF OwnInv, JobTokens
  <2> QED
    BY <1>3, <2>2
<1>5. Head(pipe) \in Range(pipe)
  BY <1>2
<1>6. \A l \in threads : l.token # Head(pipe).token
  BY <1>5 DEF OwnInv, JobTokens
<1>7. Jobs = Jobs' \cup {Head(pipe)} /\ \A l \in Jobs' : l.token # Head(pipe).token
  BY <1>2, <1>4, <1>6 DEF Jobs
<1>8. JobTokens'
  <2>1. \A l \in Jobs' : l.token <= seq'
    BY <1>7 DEF OwnInv, JobTokens
  <2>2. \A l \in threads', m \in Range(pipe)' : l.token # m.token
    BY <1>2 DEF OwnInv, JobTokens
  <2>3. ASSUME NEW a \in DOMAIN pipe', NEW b \in DOMAIN pipe', pipe'[a].token = pipe'[b].token PROVE a = b
    <3>1. a \in 1 .. Len(pipe) - 1 /\ b \in 1 .. Len(pipe) - 1 /\ pipe'[a] = pipe[a + 1] /\ pipe'[b] = pipe[b + 1]
      BY <1>3
    <3>2. a + 1 \in DOMAIN pipe /\ b + 1 \in DOMAIN pipe
      BY <1>3, <3>1
    <3>3. a + 1 = b + 1
      BY <2>3, <3>1, <3>2 DEF OwnInv, JobTokens
    <3> QED
      BY <3>1, <3>3, <1>3
  <2>4. \A l, m \in threads' : l.token = m.token => l = m
    BY DEF OwnInv, JobTokens
  <2> QED
    BY <2>1, <2>2, <2>3, <2>4 DEF JobTokens
<1> QED
  BY <1>2, <1>7, <1>8

(* A late result is closed: no slot waits for it. *)
LEMMA OwnLate ==
    ASSUME WsAssumption, OwnInv, pipe # <<>>, pipe' = Tail(pipe), ws' = ws \ {Head(pipe).token},
           UNCHANGED <<conn, seq, threads>>
    PROVE  OwnInv'
<1>1. /\ Jobs = Jobs' \cup {Head(pipe)} /\ pipe' \in Seq(JobSet) /\ JobTokens'
  BY PipeNext
<1>2. OwnTypes' /\ SlotTokens' /\ Awaited'
  BY <1>1 DEF OwnInv, OwnTypes, SlotTokens, Awaited
<1>3. Held'
  <2> SUFFICES ASSUME NEW t \in ws, t # Head(pipe).token
               PROVE  \/ \E s \in Slots : conn[s].st = "open" /\ conn[s].token = t
                      \/ \E l \in Jobs' : l.st = "ok" /\ l.token = t
    BY DEF Held
  <2> QED
    BY <1>1 DEF OwnInv, Held
<1> QED
  BY <1>1, <1>2, <1>3 DEF OwnInv

(* The slot that waits for the result, if it is still there. *)
LEMMA OwnSlotIs ==
    ASSUME WsAssumption, OwnInv, pipe # <<>>, NEW s \in OwnSlot(Head(pipe))
    PROVE  /\ s \in Slots /\ conn[s].st = "pending" /\ conn[s].token = Head(pipe).token
           /\ conn[s].id = Head(pipe).id /\ Head(pipe).id \in Ids
           /\ OwnSlot(Head(pipe)) = {s}
<1>1. s \in Slots /\ conn[s].st = "pending" /\ conn[s].token = Head(pipe).token
  BY DEF OwnSlot, ByToken, Used
<1>2. Head(pipe) \in Jobs /\ Head(pipe) \in JobSet
  BY RangeTail DEF OwnInv, OwnTypes, Jobs
<1>3. conn[s].id = Head(pipe).id /\ Head(pipe).id \in Ids
  BY <1>1, <1>2 DEF OwnInv, Awaited, JobSet
<1>4. \A r \in OwnSlot(Head(pipe)) : r = s
  BY <1>1 DEF OwnSlot, ByToken, Used, OwnInv, SlotTokens
<1> QED
  BY <1>1, <1>3, <1>4

(* The result of an open that succeeded: the slot gets the connection. *)
LEMMA OwnNotifyOpen ==
    ASSUME WsAssumption, OwnInv, pipe # <<>>, NEW s \in OwnSlot(Head(pipe)),
           conn' = [conn EXCEPT ![s].st = "open"], pipe' = Tail(pipe), UNCHANGED <<seq, threads, ws>>
    PROVE  OwnInv'
<1>1. /\ Jobs = Jobs' \cup {Head(pipe)} /\ pipe' \in Seq(JobSet) /\ JobTokens'
      /\ \A l \in Jobs' : l.token # Head(pipe).token
  BY PipeNext
<1>2. s \in Slots /\ conn[s].st = "pending" /\ conn[s].token = Head(pipe).token
  BY OwnSlotIs
<1>3. conn \in [Slots -> ConnSet]
  BY DEF OwnInv, OwnTypes
<1>4. \A r \in Slots : /\ conn'[r].id = conn[r].id /\ conn'[r].token = conn[r].token
                       /\ conn'[r].st = IF r = s THEN "open" ELSE conn[r].st
  BY <1>2, <1>3 DEF ConnSet
<1>5. conn' \in [Slots -> ConnSet]
  BY <1>2, <1>3 DEF ConnSet
<1>6. \A r \in Slots : conn'[r].st # "free" => conn[r].st # "free"
  BY <1>2, <1>4
<1>7. OwnTypes' /\ SlotTokens'
  <2>1. OwnTypes'
    BY <1>1, <1>5 DEF OwnInv, OwnTypes
  <2>2. SlotTokens'
    BY <1>4, <1>6 DEF OwnInv, SlotTokens
  <2> QED
    BY <2>1, <2>2
<1>8. Awaited'
  <2> SUFFICES ASSUME NEW r \in Slots, NEW l \in Jobs', conn'[r].st # "free", conn'[r].token = l.token
               PROVE  conn'[r].st = "pending" /\ conn'[r].id = l.id
    BY DEF Awaited
  <2>1. r # s
    BY <1>1, <1>2, <1>4
  <2> QED
    BY <1>1, <1>4, <1>6, <2>1 DEF OwnInv, Awaited
<1>9. Held'
  <2> SUFFICES ASSUME NEW t \in ws
               PROVE  \/ \E r \in Slots : conn'[r].st = "open" /\ conn'[r].token = t
                      \/ \E l \in Jobs' : l.st = "ok" /\ l.token = t
    BY DEF Held
  <2>1. ASSUME NEW r \in Slots, conn[r].st = "open", conn[r].token = t
        PROVE  conn'[r].st = "open" /\ conn'[r].token = t
    BY <1>4, <2>1
  <2>2. CASE t = Head(pipe).token
    BY <1>2, <1>4, <2>2
  <2> QED
    BY <1>1, <2>1, <2>2 DEF OwnInv, Held
<1> QED
  BY <1>1, <1>7, <1>8, <1>9 DEF OwnInv

(* The result of an open that failed: the slot is freed, no connection was made. *)
LEMMA OwnNotifyFailed ==
    ASSUME WsAssumption, OwnInv, pipe # <<>>, Head(pipe).st = "failed",
           conn' = Cleared(OwnSlot(Head(pipe))), pipe' = Tail(pipe), UNCHANGED <<seq, threads, ws>>
    PROVE  OwnInv'
<1>1. /\ Jobs = Jobs' \cup {Head(pipe)} /\ pipe' \in Seq(JobSet) /\ JobTokens'
      /\ \A l \in Jobs' : l.token # Head(pipe).token
  BY PipeNext
<1>2. \A r \in Slots : conn'[r] = IF r \in OwnSlot(Head(pipe)) THEN NoConn ELSE conn[r]
  BY DEF Cleared
<1>3. \A r \in Slots : conn'[r].st # "free" => conn[r].st # "free" /\ conn'[r] = conn[r]
  BY <1>2, NoConnIs
<1>4. OwnTypes'
  <2>1. conn' \in [Slots -> ConnSet]
    BY NoConnIs DEF Cleared, OwnInv, OwnTypes
  <2> QED
    BY <1>1, <2>1 DEF OwnInv, OwnTypes
<1>5. SlotTokens'
  BY <1>3 DEF OwnInv, SlotTokens
<1>6. Awaited'
  BY <1>1, <1>3 DEF OwnInv, Awaited
<1>7. Held'
  <2> SUFFICES ASSUME NEW t \in ws
               PROVE  \/ \E r \in Slots : conn'[r].st = "open" /\ conn'[r].token = t
                      \/ \E l \in Jobs' : l.st = "ok" /\ l.token = t
    BY DEF Held
  <2>1. ASSUME NEW r \in Slots, conn[r].st = "open", conn[r].token = t
        PROVE  conn'[r].st = "open" /\ conn'[r].token = t
    <3>1. r \notin OwnSlot(Head(pipe))
      BY <2>1 DEF OwnSlot
    <3> QED
      BY <1>2, <2>1, <3>1
  <2>2. ASSUME NEW l \in Jobs, l.st = "ok" PROVE l \in Jobs'
    BY <1>1, <2>2
  <2> QED
    BY <2>1, <2>2 DEF OwnInv, Held
<1> QED
  BY <1>1, <1>4, <1>5, <1>6, <1>7 DEF OwnInv

-----------------------------------------------------------------------------
(***************************************************************************)
(* What is on its way to the sockets of the page.                          *)
(***************************************************************************)
TickOK ==
    /\ tick \in [st : {"none", "running", "done"}, ops : Seq(OpSet)]
    /\ tick.st # "done" => tick.ops = <<>>

(* Operations are about sockets of the present page. *)
PageInv ==
    /\ PageOK(page) /\ StackOK(stack) /\ TickOK
    /\ \A o \in Range(tick.ops) \cup OpsIn(stack) : o.id <= page.n

Ways == Range(page.ops) \cup Range(tick.ops) \cup OpsIn(stack)

HoldsIn(c, j, st) == \E s \in Slots : c[s].st = st /\ c[s].id = j

KeptIn(p, O, E, c, j) ==
    \/ j \in E
    \/ /\ p.rs[j] = CONNECTING => Op("open", j) \in O \/ HoldsIn(c, j, "pending")
       /\ p.rs[j] = OPEN       => HoldsIn(c, j, "open")
       /\ p.rs[j] = CLOSING    => Op("close", j) \in O

LEMMA RememberedIs ==
    ASSUME NEW i
    PROVE  Remembered(i) <=> KeptIn(page, Ways, EndsIn(stack), conn, i)
<1>1. \A k : Coming(k, i) <=> Op(k, i) \in Ways
  BY DEF Coming, Ways, OpsIn
<1>2. Ending(i) <=> i \in EndsIn(stack)
  BY DEF Ending, EndsIn
<1>3. Holds(i, "pending") <=> HoldsIn(conn, i, "pending")
  BY DEF Holds, HoldsIn, ById, Used
<1>4. Holds(i, "open") <=> HoldsIn(conn, i, "open")
  BY DEF Holds, HoldsIn, ById, Used
<1> QED
  BY <1>1, <1>2, <1>3, <1>4 DEF Remembered, KeptIn

LEMMA RememberedNext ==
    ASSUME NEW i
    PROVE  Remembered(i)' <=> KeptIn(page', Ways', EndsIn(stack'), conn', i)
<1>1. \A k : Coming(k, i)' <=> Op(k, i) \in Ways'
  BY DEF Coming, Ways, OpsIn
<1>2. Ending(i)' <=> i \in EndsIn(stack')
  BY DEF Ending, EndsIn
<1>3. Holds(i, "pending")' <=> HoldsIn(conn', i, "pending")
  BY DEF Holds, HoldsIn, ById, Used
<1>4. Holds(i, "open")' <=> HoldsIn(conn', i, "open")
  BY DEF Holds, HoldsIn, ById, Used
<1> QED
  BY <1>1, <1>2, <1>3, <1>4 DEF Remembered, KeptIn

(* A slot of the present page that is not touched, or not this socket's, still
   holds what it held. *)
LEMMA HoldsStill ==
    ASSUME NEW c, NEW d, NEW j, NEW st,
           \A s \in Slots : c[s].id = j => d[s].st = c[s].st /\ d[s].id = c[s].id,
           HoldsIn(c, j, st)
    PROVE  HoldsIn(d, j, st)
  BY DEF HoldsIn

LEMMA KeptStill ==
    ASSUME NEW p, NEW O, NEW E, NEW c, NEW j, KeptIn(p, O, E, c, j),
           NEW P, NEW D, NEW d,
           Op("open", j) \in O => Op("open", j) \in P, Op("close", j) \in O => Op("close", j) \in P,
           j \in E => j \in D,
           \A s \in Slots : c[s].id = j => d[s].st = c[s].st /\ d[s].id = c[s].id
    PROVE  KeptIn(p, P, D, d, j)
<1>1. HoldsIn(c, j, "pending") => HoldsIn(d, j, "pending")
  BY HoldsStill
<1>2. HoldsIn(c, j, "open") => HoldsIn(d, j, "open")
  BY HoldsStill
<1> QED
  BY <1>1, <1>2 DEF KeptIn

-----------------------------------------------------------------------------
(* The answer of an operation that left the page as q, over the calls s. *)
Passed(q, s) ==
    /\ page' = Emptied(q)
    /\ StackOK(stack') /\ EndsIn(stack') = EndsIn(s) /\ ReadsIn(stack') = ReadsIn(s)
    /\ OpsIn(s) \subseteq OpsIn(stack')
    /\ \A o \in OpsIn(stack') : o \in OpsIn(s) \/ o \in Range(q.ops)
    /\ \A o \in Range(q.ops) : o \in OpsIn(stack') \/ o.id \in lost'
    /\ \A o \in Range(tick.ops) : o.id \in lost'
    /\ lost \subseteq lost'
    /\ TickOK' /\ tick'.ops = <<>>

LEMMA TwoFrames ==
    ASSUME NEW S, NEW x \in S, NEW y \in S, NEW s \in Seq(S)
    PROVE  <<x, y>> \o s = <<x>> \o (<<y>> \o s)
<1>1. <<x, y>> \o s \in Seq(S) /\ <<x>> \o (<<y>> \o s) \in Seq(S)
  OBVIOUS
<1>2. Len(<<x, y>> \o s) = Len(s) + 2 /\ Len(<<x>> \o (<<y>> \o s)) = Len(s) + 2
  OBVIOUS
<1>3. \A k \in 1 .. Len(s) + 2 : (<<x, y>> \o s)[k] = (<<x>> \o (<<y>> \o s))[k]
  OBVIOUS
<1> QED
  BY <1>1, <1>2, <1>3, SeqEqual

LEMMA ApplyOver ==
    ASSUME WsAssumption, NEW o \in Seq(OpSet), NEW s, StackOK(s)
    PROVE  /\ StackOK(<<Apply(o)>> \o s) /\ EndsIn(<<Apply(o)>> \o s) = EndsIn(s)
           /\ ReadsIn(<<Apply(o)>> \o s) = ReadsIn(s)
           /\ OpsIn(<<Apply(o)>> \o s) = Range(o) \cup OpsIn(s)
<1>1. FrameOK(Apply(o), s) /\ Apply(o).f = "apply" /\ Apply(o).ops = o
  BY ApplyIs
<1> QED
  BY <1>1, StackCons

LEMMA LeaveOver ==
    ASSUME WsAssumption, NEW o \in Seq(OpSet), NEW s, StackOK(s)
    PROVE  <<Apply(o), Frame("leave")>> \o s = <<Apply(o)>> \o (<<Frame("leave")>> \o s)
<1>1. Apply(o) \in FrameSet /\ Frame("leave") \in FrameSet
  BY ApplyIs, LeaveIs DEF FrameOK
<1>2. s \in Seq(FrameSet)
  BY DEF StackOK
<1> QED
  BY <1>1, <1>2, TwoFrames, SMTT(20)

LEMMA AppliedIs ==
    ASSUME WsAssumption, NEW o \in Seq(OpSet), NEW s, StackOK(s), NEW dropped, Applied(o, s, dropped)
    PROVE  /\ StackOK(stack') /\ EndsIn(stack') = EndsIn(s) /\ ReadsIn(stack') = ReadsIn(s)
           /\ OpsIn(s) \subseteq OpsIn(stack')
           /\ \A x \in OpsIn(stack') : x \in OpsIn(s) \/ x \in Range(o)
           /\ \A x \in Range(o) : x \in OpsIn(stack') \/ x.id \in lost'
           /\ lost \subseteq lost' /\ dropped \subseteq lost'
<1>1. CASE stack' = <<Apply(o)>> \o s /\ lost' = lost \cup dropped
  <2>2. /\ StackOK(stack') /\ EndsIn(stack') = EndsIn(s) /\ ReadsIn(stack') = ReadsIn(s)
        /\ OpsIn(stack') = Range(o) \cup OpsIn(s)
    BY <1>1, ApplyOver
  <2> QED
    BY <1>1, <2>2
<1>2. CASE stack' = <<Apply(o), Frame("leave")>> \o s /\ lost' = lost \cup dropped
  <2> DEFINE t == <<Frame("leave")>> \o s
  <2>2. FrameOK(Frame("leave"), s) /\ Frame("leave").f = "leave"
    BY LeaveIs
  <2>3. StackOK(t) /\ EndsIn(t) = EndsIn(s) /\ ReadsIn(t) = ReadsIn(s) /\ OpsIn(t) = OpsIn(s)
    BY <2>2, StackCons
  <2>4. stack' = <<Apply(o)>> \o t
    BY <1>2, LeaveOver
  <2> HIDE DEF t
  <2>5. /\ StackOK(stack') /\ EndsIn(stack') = EndsIn(t) /\ ReadsIn(stack') = ReadsIn(t)
        /\ OpsIn(stack') = Range(o) \cup OpsIn(t)
    BY <2>3, <2>4, ApplyOver
  <2> QED
    BY <1>2, <2>3, <2>5
<1>3. CASE stack' = s /\ lost' = lost \cup dropped \cup Touched(o)
  BY <1>3 DEF Touched
<1> QED
  BY <1>1, <1>2, <1>3 DEF Applied

LEMMA SyncedIs ==
    ASSUME TickOK, tick.st # "running", tick' = Synced
    PROVE  TickOK' /\ tick'.ops = <<>> /\ tick'.st = "none"
<1>1. CASE tick.st = "done"
  <2>1. tick' = [st |-> "none", ops |-> <<>>]
    BY <1>1 DEF Synced
  <2> QED
    BY <2>1 DEF TickOK
<1>2. CASE tick.st # "done"
  <2>1. tick' = tick
    BY <1>2 DEF Synced
  <2> QED
    BY <2>1, <1>2 DEF TickOK
<1> QED
  BY <1>1, <1>2

LEMMA AnswerPasses ==
    ASSUME WsAssumption, TickOK, tick.st # "running", tick' = Synced,
           NEW q, PageOK(q), NEW s, StackOK(s), Answer(q, s)
    PROVE  Passed(q, s)
<1>1. Taken(q) \in Seq(OpSet) /\ Range(q.ops) = Range(Taken(q)) \cup Range(Overflow(q))
  BY TakenIs
<1> DEFINE dr == Touched(Overflow(q)) \cup Touched(tick.ops)
<1>2. page' = Emptied(q) /\ Applied(Taken(q), s, dr)
  BY DEF Answer
<1> HIDE DEF dr
<1>3. /\ StackOK(stack') /\ EndsIn(stack') = EndsIn(s) /\ ReadsIn(stack') = ReadsIn(s)
      /\ OpsIn(s) \subseteq OpsIn(stack')
      /\ \A x \in OpsIn(stack') : x \in OpsIn(s) \/ x \in Range(Taken(q))
      /\ \A x \in Range(Taken(q)) : x \in OpsIn(stack') \/ x.id \in lost'
      /\ lost \subseteq lost' /\ dr \subseteq lost'
  BY <1>1, <1>2, AppliedIs
<1>4. \A o \in Range(tick.ops) \cup Range(Overflow(q)) : o.id \in lost'
  BY <1>3 DEF dr, Touched
<1>5. TickOK' /\ tick'.ops = <<>>
  BY SyncedIs
<1>6. \A o \in OpsIn(stack') : o \in OpsIn(s) \/ o \in Range(q.ops)
  BY <1>1, <1>3
<1>7. \A o \in Range(q.ops) : o \in OpsIn(stack') \/ o.id \in lost'
  BY <1>1, <1>3, <1>4
<1> QED
  BY <1>2, <1>3, <1>4, <1>5, <1>6, <1>7 DEF Passed

(* gui_ws_emit: the page after the event, and what its handlers leave. *)
LEMMA EmitPasses ==
    ASSUME WsAssumption, TickOK, PageOK(page), page.alive, NEW i \in Ids, NEW k,
           NEW s, StackOK(s), Emit(i, k, s)
    PROVE  \E q : Moves(EventState(page, i, k), q) /\ Passed(q, s)
<1>1. PICK q \in AfterEvent(page, i, k) : Answer(q, s)
  BY DEF Emit
<1>2. tick.st # "running" /\ tick' = Synced
  BY DEF Emit
<1> DEFINE e == EventState(page, i, k)
<1>3. PageOK(e)
  BY EventIs
<1>4. q = e \/ q \in Runs(e)
  BY <1>1 DEF AfterEvent
<1> HIDE DEF e
<1>5. Moves(e, q)
  BY <1>3, <1>4, MovesNone, MovesRuns
<1>6. PageOK(q)
  BY <1>5 DEF Moves
<1>7. Passed(q, s)
  BY <1>1, <1>2, <1>6, AnswerPasses
<1> QED
  BY <1>5, <1>7 DEF e

LEMMA EmitDead ==
    ASSUME ~page.alive, NEW i, NEW k, NEW s, Emit(i, k, s)
    PROVE  stack' = s /\ page' = page /\ tick' = tick /\ lost' = lost
  BY DEF Emit

-----------------------------------------------------------------------------
(* An answer forgets nothing that was on its way to the page e, the page after
   the event if there was one. *)
LEMMA PassedKeeps ==
    ASSUME WsAssumption, PageInv, NEW e, PageOK(e), e.n = page.n, e.ops = page.ops,
           NEW q, Moves(e, q), NEW s, StackOK(s), Passed(q, s), \A o \in OpsIn(s) : o.id <= page.n,
           page.alive => \A j \in 1 .. page.n :
               j \notin lost' => KeptIn(e, Range(page.ops) \cup OpsIn(s), EndsIn(s), conn', j),
           e.alive = page.alive
    PROVE  PageInv' /\ NothingForgotten'
<1>1. /\ PageOK(page') /\ page'.n = q.n /\ page'.rs = q.rs /\ page'.ops = <<>>
      /\ Range(page'.ops) = {} /\ page'.alive = q.alive
  BY EmptiedIs DEF Passed, Moves
<1>2. page.n \in Nat /\ q.n \in Nat /\ page.n <= q.n /\ Ids = 1 .. MaxId /\ MaxId \in Nat
      /\ \A j \in 1 .. q.n : j \in Ids
  BY PageFields DEF PageInv, Moves
<1>3. Range(tick'.ops) = {}
  BY DEF Passed, Range
<1>4. ASSUME NEW o \in OpsIn(stack') PROVE o.id <= page'.n
  <2>1. CASE o \in OpsIn(s)
    <3>1. o.id <= page.n /\ o \in OpSet
      <4>1. s \in Seq(FrameSet)
        BY DEF StackOK
      <4>2. PICK x \in Range(s) : o \in Range(x.ops)
        BY <2>1 DEF OpsIn
      <4>3. x \in FrameSet
        BY <4>1, <4>2, RangeIn
      <4>4. x.ops \in Seq(OpSet)
        BY <4>3 DEF FrameSet
      <4> QED
        BY <2>1, <4>2, <4>4, RangeIn
    <3>2. o.id \in Nat
      BY <3>1, <1>2 DEF OpSet
    <3> QED
      BY <1>1, <1>2, <3>1, <3>2
  <2>2. CASE o \in Range(q.ops)
    BY <1>1, <2>2 DEF Moves, PageOK
  <2> QED
    BY <2>1, <2>2 DEF Passed
<1>5. PageInv'
  BY <1>1, <1>3, <1>4 DEF PageInv, Passed
<1>6. NothingForgotten'
  <2> SUFFICES ASSUME page'.alive, NEW j \in 1 .. page'.n, j \notin lost'
               PROVE  KeptIn(page', Ways', EndsIn(stack'), conn', j)
    BY RememberedNext DEF NothingForgotten
  <2>1. j \in Ids /\ page.alive /\ Ways' = OpsIn(stack') /\ EndsIn(stack') = EndsIn(s)
    BY <1>1, <1>2, <1>3 DEF Ways, Passed, Moves
  <2>2. \A k \in {"open", "close"} : Op(k, j) \in Range(q.ops) => Op(k, j) \in Ways'
    BY <2>1, OpIs DEF Passed
  <2>3. Range(page.ops) \subseteq Range(q.ops) /\ OpsIn(s) \subseteq Ways'
    BY <2>1 DEF Passed, Moves
  <2>4. CASE j <= page.n
    <3>1. KeptIn(e, Range(page.ops) \cup OpsIn(s), EndsIn(s), conn', j)
      <4>1. j \in 1 .. page.n
        BY <1>1, <1>2, <2>4
      <4> QED
        BY <2>1, <4>1
    <3>2. KeptIn(e, Ways', EndsIn(stack'), conn', j)
      BY <3>1, <2>1, <2>2, <2>3 DEF KeptIn
    <3>3. CASE q.rs[j] = e.rs[j]
      BY <1>1, <3>2, <3>3 DEF KeptIn
    <3>4. CASE q.rs[j] = CLOSING /\ Op("close", j) \in Range(q.ops)
      BY <1>1, <2>2, <3>4, States DEF KeptIn
    <3> QED
      BY <2>1, <3>3, <3>4 DEF Moves
  <2>5. CASE page.n < j
    <3>1. e.rs[j] = CONNECTING
      BY <1>2, <2>1, <2>5 DEF PageOK
    <3>2. Op("open", j) \in Ways'
      BY <1>1, <2>1, <2>2, <2>5 DEF Moves
    <3>3. CASE q.rs[j] = e.rs[j]
      BY <1>1, <3>1, <3>2, <3>3, States DEF KeptIn
    <3>4. CASE q.rs[j] = CLOSING /\ Op("close", j) \in Range(q.ops)
      BY <1>1, <2>2, <3>4, States DEF KeptIn
    <3> QED
      BY <2>1, <3>3, <3>4 DEF Moves
  <2> QED
    BY <1>1, <1>2, <2>4, <2>5
<1> QED
  BY <1>5, <1>6

-----------------------------------------------------------------------------
(* The slot a read call finds by its token is the one it was called for. *)
ReadsOK ==
    \A x \in ReadsIn(stack) :
        /\ x.token \in Nat /\ x.token <= seq
        /\ \A s \in Slots : conn[s].st # "free" /\ conn[s].token = x.token => conn[s].id = x.id

SocketInv == OwnInv /\ PageInv /\ ReadsOK /\ HubOfPage /\ NothingForgotten

LEMMA ReadsKept ==
    ASSUME OwnInv, OwnInv', ReadsOK,
           \A x \in ReadsIn(stack') : \E y \in ReadsIn(stack) : y.token = x.token /\ y.id = x.id,
           seq <= seq',
           \A s \in Slots : conn'[s].st # "free" =>
               \/ conn[s].st # "free" /\ conn'[s].token = conn[s].token /\ conn'[s].id = conn[s].id
               \/ conn'[s].token = seq + 1
    PROVE  ReadsOK'
<1>1. seq \in Nat /\ seq' \in Nat
  BY DEF OwnInv, OwnTypes
<1> SUFFICES ASSUME NEW x \in ReadsIn(stack')
             PROVE  /\ x.token \in Nat /\ x.token <= seq'
                    /\ \A s \in Slots : conn'[s].st # "free" /\ conn'[s].token = x.token => conn'[s].id = x.id
  BY DEF ReadsOK, ReadsIn
<1>2. PICK y \in ReadsIn(stack) : y.token = x.token /\ y.id = x.id
  OBVIOUS
<1>3. y.token \in Nat /\ y.token <= seq
  BY DEF ReadsOK
<1>4. ASSUME NEW s \in Slots, conn'[s].st # "free", conn'[s].token = x.token
      PROVE  conn'[s].id = x.id
  <2>1. conn'[s].token # seq + 1
    BY <1>1, <1>2, <1>3, <1>4
  <2> QED
    BY <1>2, <1>4, <2>1 DEF ReadsOK
<1> QED
  BY <1>1, <1>2, <1>3, <1>4

LEMMA HubIs ==
    HubOfPage <=> \A s \in Slots : conn[s].st # "free" =>
        /\ page.alive /\ conn[s].id <= page.n
        /\ conn[s].st = "open" => page.rs[conn[s].id] # CONNECTING
  BY DEF HubOfPage, Used

LEMMA HubNext ==
    HubOfPage' <=> \A s \in Slots : conn'[s].st # "free" =>
        /\ page'.alive /\ conn'[s].id <= page'.n
        /\ conn'[s].st = "open" => page'.rs[conn'[s].id] # CONNECTING
  BY DEF HubOfPage, Used

LEMMA HubKept ==
    ASSUME WsAssumption, OwnInv, HubOfPage, PageOK(page), PageOK(page'),
           page'.alive = page.alive, page.n <= page'.n,
           \A j \in Ids : page'.rs[j] = CONNECTING => page.rs[j] = CONNECTING,
           \A s \in Slots : conn'[s].st # "free" =>
               /\ conn[s].st # "free" /\ conn'[s].id = conn[s].id
               /\ conn'[s].st = conn[s].st \/ page'.rs[conn[s].id] # CONNECTING
    PROVE  HubOfPage'
<1>1. page.n \in Nat /\ page'.n \in Nat /\ Ids = 1 .. MaxId /\ MaxId \in Nat
  BY PageFields
<1>2. ASSUME NEW s \in Slots, conn'[s].st # "free"
      PROVE  /\ page'.alive /\ conn'[s].id <= page'.n
             /\ conn'[s].st = "open" => page'.rs[conn'[s].id] # CONNECTING
  <2>1. conn[s].st # "free" /\ conn'[s].id = conn[s].id /\ conn[s].id \in Ids
    BY <1>2 DEF OwnInv, SlotTokens
  <2>2. page.alive /\ conn[s].id <= page.n /\ (conn[s].st = "open" => page.rs[conn[s].id] # CONNECTING)
    BY <2>1, HubIs
  <2>3. conn'[s].id <= page'.n
    BY <1>1, <2>1, <2>2
  <2> QED
    BY <1>2, <2>1, <2>2, <2>3
<1> QED
  BY <1>2, HubNext

(* With nothing in the hub there is nothing to say. *)
LEMMA HubEmpty ==
    ASSUME WsAssumption, CloseAll
    PROVE  HubOfPage' /\ \A s \in Slots : conn'[s].st = "free"
<1>1. \A s \in Slots : conn'[s] = IF s \in Used THEN NoConn ELSE conn[s]
  BY DEF CloseAll, Cleared
<1>2. \A s \in Slots : conn'[s].st = "free"
  BY <1>1, NoConnIs DEF Used
<1> QED
  BY <1>2, HubNext

LEMMA OwnCloseAll ==
    ASSUME WsAssumption, OwnInv, CloseAll, UNCHANGED <<seq, threads, pipe>>
    PROVE  OwnInv'
<1>1. Used \in SUBSET Slots
  BY DEF Used
<1> QED
  BY <1>1, OwnCleared DEF CloseAll

-----------------------------------------------------------------------------
(* What an event does to the states of the sockets.  Only an open that arrives
   while the socket is closing takes one back. *)
LEMMA EmitForward ==
    ASSUME WsAssumption, PageInv, NEW i \in Ids, NEW k, NEW s, StackOK(s), Emit(i, k, s)
    PROVE  /\ PageOK(page') /\ page'.alive = page.alive /\ page'.doc = page.doc /\ page.n <= page'.n
           /\ \A j \in Ids : page'.rs[j] = CONNECTING => page.rs[j] = CONNECTING
           /\ k = "open" /\ page.alive /\ i <= page.n => page'.rs[i] # CONNECTING
           /\ \A j \in Ids : \/ page.rs[j] <= page'.rs[j]
                             \/ k = "open" /\ j = i /\ i <= page.n /\ page.rs[i] = CLOSING
           /\ lost \subseteq lost'
           /\ page.alive => \A o \in Range(tick.ops) : o.id \in lost'
           /\ ReadsIn(stack') = ReadsIn(s)
<1>1. PageOK(page) /\ TickOK
  BY DEF PageInv
<1>2. page.n \in Nat /\ page.rs \in [Ids -> CONNECTING .. CLOSED]
  BY <1>1, PageFields
<1>3. CASE ~page.alive
  <2>1. stack' = s /\ page' = page /\ lost' = lost
    BY <1>3, EmitDead
  <2>2. \A j \in Ids : page.rs[j] <= page.rs[j]
    BY <1>2, States
  <2> QED
    BY <1>1, <1>2, <1>3, <2>1, <2>2
<1>4. CASE page.alive
  <2>1. PICK q : Moves(EventState(page, i, k), q) /\ Passed(q, s)
    BY <1>1, <1>4, EmitPasses
  <2> DEFINE e == EventState(page, i, k)
  <2>2. /\ PageOK(e) /\ e.doc = page.doc /\ e.alive = page.alive /\ e.n = page.n
        /\ \A j \in Ids : e.rs[j] = IF j = i /\ i \in Live(page) THEN EventTo(page.rs[i], k) ELSE page.rs[j]
    BY <1>1, EventIs
  <2> HIDE DEF e
  <2>3. Moves(e, q)
    BY <2>1 DEF e
  <2>4. /\ PageOK(page') /\ page'.n = q.n /\ page'.rs = q.rs /\ page'.alive = q.alive /\ page'.doc = q.doc
    BY <2>1, EmptiedIs DEF Passed, Moves
  <2>5. \A j \in Ids : \/ page'.rs[j] = e.rs[j]
                       \/ e.rs[j] \in {CONNECTING, OPEN} /\ page'.rs[j] = CLOSING
    BY <2>3, <2>4 DEF Moves
  <2>6. \A j \in Ids : e.rs[j] = CONNECTING => page.rs[j] = CONNECTING
    BY <2>2, States DEF EventTo
  <2>7. k = "open" /\ i <= page.n => e.rs[i] # CONNECTING
    <3>1. i <= page.n => i \in 1 .. page.n
      BY <1>2, Bounds DEF Ids
    <3>2. i <= page.n /\ i \notin Live(page) => page.rs[i] = CLOSED
      BY <3>1 DEF Live
    <3> QED
      BY <2>2, <3>2, States DEF EventTo
  <2>8. i \in Live(page) => i <= page.n /\ page.rs[i] \in {0, 1, 2}
    BY <1>2, States DEF Live
  <2>9. \A j \in Ids : \/ page.rs[j] <= e.rs[j]
                       \/ k = "open" /\ j = i /\ i <= page.n /\ page.rs[i] = CLOSING
    BY <1>2, <2>2, <2>8, States DEF EventTo
  <2>10. \A j \in Ids : e.rs[j] <= page'.rs[j] /\ e.rs[j] \in 0 .. 3 /\ page.rs[j] \in 0 .. 3 /\ page'.rs[j] \in 0 .. 3
    BY <1>2, <2>2, <2>4, <2>5, PageFields, States
  <2>11. \A j \in Ids : \/ page.rs[j] <= page'.rs[j]
                        \/ k = "open" /\ j = i /\ i <= page.n /\ page.rs[i] = CLOSING
    BY <2>9, <2>10
  <2>12. \A j \in Ids : page'.rs[j] = CONNECTING => page.rs[j] = CONNECTING
    BY <2>5, <2>6, States
  <2>13. k = "open" /\ i <= page.n => page'.rs[i] # CONNECTING
    BY <2>5, <2>7, States
  <2> QED
    BY <2>1, <2>2, <2>3, <2>4, <2>11, <2>12, <2>13 DEF Passed, Moves
<1> QED
  BY <1>3, <1>4

(* Sockets other than the event's keep what is on its way to them. *)
LEMMA EventKept ==
    ASSUME WsAssumption, PageOK(page), NEW i \in Ids, NEW k, NEW j \in 1 .. page.n,
           NEW O, NEW E, NEW c
    PROVE  /\ j # i \/ k \notin {"open", "close"} =>
                  (KeptIn(page, O, E, c, j) => KeptIn(EventState(page, i, k), O, E, c, j))
           /\ j = i /\ k = "close" => KeptIn(EventState(page, i, k), O, E, c, j)
           /\ j = i /\ k = "open" /\ HoldsIn(c, i, "open") => KeptIn(EventState(page, i, k), O, E, c, j)
<1> DEFINE e == EventState(page, i, k)
<1>1. \A l \in Ids : e.rs[l] = IF l = i /\ i \in Live(page) THEN EventTo(page.rs[i], k) ELSE page.rs[l]
  BY EventIs
<1>2. j \in Ids
  BY PageFields
<1> HIDE DEF e
<1>3. j \notin Live(page) => page.rs[j] = CLOSED
  BY DEF Live
<1>4. ASSUME j # i \/ k \notin {"open", "close"} PROVE e.rs[j] = page.rs[j]
  BY <1>1, <1>2, <1>4 DEF EventTo
<1>5. ASSUME j = i, k = "close" PROVE e.rs[j] = CLOSED
  BY <1>1, <1>2, <1>3, <1>5 DEF EventTo
<1>6. ASSUME j = i, k = "open" PROVE e.rs[j] \in {OPEN, CLOSED}
  BY <1>1, <1>2, <1>3, <1>6 DEF EventTo
<1>7. j # i \/ k \notin {"open", "close"} => (KeptIn(page, O, E, c, j) => KeptIn(e, O, E, c, j))
  BY <1>4 DEF KeptIn
<1>8. j = i /\ k = "close" => KeptIn(e, O, E, c, j)
  BY <1>5, States DEF KeptIn
<1>9. j = i /\ k = "open" /\ HoldsIn(c, i, "open") => KeptIn(e, O, E, c, j)
  BY <1>6, States DEF KeptIn
<1> QED
  BY <1>7, <1>8, <1>9 DEF e

(* An event and what its handlers ask for forget nothing. *)
LEMMA EmitKeeps ==
    ASSUME WsAssumption, PageInv, NothingForgotten, NEW i \in Ids, NEW k, NEW s, StackOK(s), Emit(i, k, s),
           OpsIn(s) \subseteq OpsIn(stack),
           \A j \in 1 .. page.n :
               KeptIn(page, Range(page.ops) \cup OpsIn(stack), EndsIn(stack), conn, j)
               => KeptIn(EventState(page, i, k), Range(page.ops) \cup OpsIn(s), EndsIn(s), conn', j)
    PROVE  PageInv' /\ NothingForgotten'
<1>1. PageOK(page) /\ TickOK /\ \A o \in OpsIn(s) : o.id <= page.n
  BY DEF PageInv
<1>2. CASE ~page.alive
  <2>1. stack' = s /\ page' = page /\ tick' = tick
    BY <1>2, EmitDead
  <2>2. TickOK'
    BY <1>1, <2>1 DEF TickOK
  <2>3. PageInv'
    BY <1>1, <2>1, <2>2 DEF PageInv
  <2> QED
    BY <1>2, <2>1, <2>3 DEF NothingForgotten
<1>3. CASE page.alive
  <2>1. PICK q : Moves(EventState(page, i, k), q) /\ Passed(q, s)
    BY <1>1, <1>3, EmitPasses
  <2> DEFINE e == EventState(page, i, k)
  <2>2. PageOK(e) /\ e.alive = page.alive /\ e.n = page.n /\ e.ops = page.ops
    BY <1>1, EventIs
  <2>3. ASSUME NEW j \in 1 .. page.n, j \notin lost'
        PROVE  KeptIn(e, Range(page.ops) \cup OpsIn(s), EndsIn(s), conn', j)
    <3>1. j \notin lost /\ j \in Ids
      BY <1>1, <2>1, <2>3, PageFields DEF Passed
    <3>2. KeptIn(page, Ways, EndsIn(stack), conn, j)
      BY <1>3, <3>1, RememberedIs DEF NothingForgotten
    <3>3. \A x \in {"open", "close"} : Op(x, j) \in Ways => Op(x, j) \in Range(page.ops) \cup OpsIn(stack)
      <4>1. \A x \in {"open", "close"} : Op(x, j).id = j
        BY <3>1, OpIs
      <4>2. \A o \in Range(tick.ops) : o.id # j
        BY <2>1, <2>3 DEF Passed
      <4> QED
        BY <4>1, <4>2 DEF Ways
    <3>4. KeptIn(page, Range(page.ops) \cup OpsIn(stack), EndsIn(stack), conn, j)
      BY <3>2, <3>3 DEF KeptIn
    <3> QED
      BY <3>4
  <2> HIDE DEF e
  <2>4. Moves(e, q) /\ Passed(q, s)
    BY <2>1 DEF e
  <2> QED
    BY <1>1, <2>2, <2>3, <2>4, PassedKeeps
<1> QED
  BY <1>2, <1>3

-----------------------------------------------------------------------------
(***************************************************************************)
(* The steps.  First those that send an event to the page.                 *)
(***************************************************************************)
LEMMA EmitAction ==
    ASSUME WsAssumption, SocketInv, OwnInv', NEW i \in Ids, NEW k, NEW s, StackOK(s), Emit(i, k, s),
           OpsIn(s) \subseteq OpsIn(stack), seq' = seq,
           \A x \in ReadsIn(s) : \E y \in ReadsIn(stack) : y.token = x.token /\ y.id = x.id,
           \A r \in Slots : conn'[r].st # "free" =>
               /\ conn[r].st # "free" /\ conn'[r].token = conn[r].token /\ conn'[r].id = conn[r].id
               /\ conn'[r].st = conn[r].st \/ (k = "open" /\ conn[r].id = i),
           \A j \in 1 .. page.n :
               KeptIn(page, Range(page.ops) \cup OpsIn(stack), EndsIn(stack), conn, j)
               => KeptIn(EventState(page, i, k), Range(page.ops) \cup OpsIn(s), EndsIn(s), conn', j)
    PROVE  SocketInv'
<1>1. OwnInv /\ PageInv /\ ReadsOK /\ HubOfPage /\ NothingForgotten /\ PageOK(page)
  BY DEF SocketInv, PageInv
<1>2. PageInv' /\ NothingForgotten'
  BY <1>1, EmitKeeps
<1>3. /\ PageOK(page') /\ page'.alive = page.alive /\ page.n <= page'.n
      /\ \A j \in Ids : page'.rs[j] = CONNECTING => page.rs[j] = CONNECTING
      /\ k = "open" /\ page.alive /\ i <= page.n => page'.rs[i] # CONNECTING
      /\ ReadsIn(stack') = ReadsIn(s)
  BY <1>1, EmitForward
<1>4. ReadsOK'
  <2>1. seq <= seq'
    BY <1>1 DEF OwnInv, OwnTypes
  <2> QED
    BY <1>1, <1>3, <2>1, ReadsKept
<1>5. HubOfPage'
  <2>1. \A r \in Slots : conn[r].st # "free" => page.alive /\ conn[r].id <= page.n
    BY <1>1, HubIs
  <2>2. \A r \in Slots : conn'[r].st # "free" =>
               /\ conn[r].st # "free" /\ conn'[r].id = conn[r].id
               /\ conn'[r].st = conn[r].st \/ page'.rs[conn[r].id] # CONNECTING
    BY <1>3, <2>1
  <2> QED
    BY <1>1, <1>3, <2>2, HubKept
<1> QED
  BY <1>2, <1>4, <1>5 DEF SocketInv

LEMMA TopIs ==
    ASSUME PageInv, NEW g, Top(g)
    PROVE  /\ stack # <<>> /\ Head(stack).f = g /\ StackOK(Rest) /\ FrameOK(Head(stack), Rest)
           /\ OpsIn(stack) = (IF g = "apply" THEN Range(Head(stack).ops) ELSE {}) \cup OpsIn(Rest)
           /\ EndsIn(stack) = (IF g = "emit" THEN {Head(stack).id} ELSE {}) \cup EndsIn(Rest)
           /\ ReadsIn(stack) = (IF g = "read" THEN {Head(stack)} ELSE {}) \cup ReadsIn(Rest)
  BY StackRest DEF Top, Rest, PageInv

LEMMA ApplyingIs ==
    ASSUME WsAssumption, PageInv, NEW k, Applying(k)
    PROVE  /\ CurOp \in OpSet /\ CurOp.kind = k /\ CurOp.id \in Ids /\ CurOp.id <= page.n
           /\ StackOK(ApplyRest) /\ EndsIn(ApplyRest) = EndsIn(stack) /\ ReadsIn(ApplyRest) = ReadsIn(stack)
           /\ OpsIn(stack) = {CurOp} \cup OpsIn(ApplyRest)
<1>1. /\ StackOK(Rest) /\ Head(stack) \in FrameSet
      /\ OpsIn(stack) = Range(Head(stack).ops) \cup OpsIn(Rest)
      /\ EndsIn(stack) = EndsIn(Rest) /\ ReadsIn(stack) = ReadsIn(Rest)
  BY TopIs DEF Applying, FrameOK
<1>2. Head(stack).ops \in Seq(OpSet) /\ Head(stack).ops # <<>> /\ CurOp.kind = k
  BY <1>1 DEF FrameSet, Applying
<1> DEFINE o == Head(stack).ops
<1>3. CurOp \in OpSet /\ Tail(o) \in Seq(OpSet) /\ Range(o) = {CurOp} \cup Range(Tail(o))
  BY <1>2, RangeTail DEF CurOp
<1>4. CurOp.id \in Ids
  BY <1>3 DEF OpSet
<1>5. CurOp.id <= page.n
  BY <1>1, <1>3 DEF PageInv
<1> HIDE DEF o
<1>6. ApplyRest = <<Apply(Tail(o))>> \o Rest
  BY DEF ApplyRest, o
<1>7. /\ StackOK(ApplyRest) /\ EndsIn(ApplyRest) = EndsIn(Rest) /\ ReadsIn(ApplyRest) = ReadsIn(Rest)
      /\ OpsIn(ApplyRest) = Range(Tail(o)) \cup OpsIn(Rest)
  BY <1>1, <1>3, <1>6, ApplyOver
<1> QED
  BY <1>1, <1>2, <1>3, <1>4, <1>5, <1>7 DEF o

LEMMA EmitOver ==
    ASSUME WsAssumption, NEW i \in Ids, NEW s, StackOK(s)
    PROVE  /\ StackOK(<<EmitClose(i)>> \o s) /\ EndsIn(<<EmitClose(i)>> \o s) = {i} \cup EndsIn(s)
           /\ ReadsIn(<<EmitClose(i)>> \o s) = ReadsIn(s) /\ OpsIn(<<EmitClose(i)>> \o s) = OpsIn(s)
<1>1. FrameOK(EmitClose(i), s) /\ EmitClose(i).f = "emit" /\ EmitClose(i).id = i
  BY EmitIs
<1> QED
  BY <1>1, StackCons

LEMMA ClearedIs ==
    ASSUME WsAssumption, NEW S \in SUBSET Slots, conn' = Cleared(S)
    PROVE  \A r \in Slots : IF r \in S THEN conn'[r].st = "free" ELSE conn'[r] = conn[r]
  BY NoConnIs DEF Cleared

(* The slots of one socket alone are cleared. *)
LEMMA OthersKept ==
    ASSUME WsAssumption, PageOK(page), NEW i \in Ids, NEW k \in {"close", "error"},
           NEW S \in SUBSET Slots, conn' = Cleared(S), \A r \in S : conn[r].id = i,
           NEW O, NEW P, NEW E, NEW D, \A x \in O : x \in P \/ x.id = i, \A x \in E : x \in D \/ x = i,
           k = "error" => i \in D,
           NEW j \in 1 .. page.n, KeptIn(page, O, E, conn, j)
    PROVE  KeptIn(EventState(page, i, k), P, D, conn', j)
<1>1. j \in Ids
  BY PageFields
<1>2. CASE j = i /\ k = "close"
  BY <1>2, EventKept
<1>3. CASE j = i /\ k = "error"
  BY <1>3 DEF KeptIn
<1>4. CASE j # i
  <2>1. \A r \in Slots : conn[r].id = j => conn'[r].st = conn[r].st /\ conn'[r].id = conn[r].id
    BY <1>4, ClearedIs
  <2>2. Op("open", j).id = j /\ Op("close", j).id = j
    BY <1>1, OpIs
  <2>3. KeptIn(page, P, D, conn', j)
    BY <1>4, <2>1, <2>2, KeptStill
  <2> QED
    BY <1>4, <2>3, EventKept
<1> QED
  BY <1>2, <1>3, <1>4

LEMMA NoneCleared ==
    ASSUME conn' = conn, OwnInv
    PROVE  conn' = Cleared({})
  BY DEF Cleared, OwnInv, OwnTypes

LEMMA KeepsApplyRefused ==
    ASSUME WsAssumption, SocketInv, ApplyRefused
    PROVE  SocketInv'
<1>1. PageInv /\ PageOK(page) /\ OwnInv
  BY DEF SocketInv, PageInv
<1> DEFINE i == CurOp.id
           s == <<EmitClose(CurOp.id)>> \o ApplyRest
<1>2. /\ Applying("open") /\ Emit(i, "error", s) /\ UNCHANGED <<conn, seq, threads, pipe, ws>>
  BY DEF ApplyRefused
<1>3. /\ i \in Ids /\ StackOK(ApplyRest) /\ EndsIn(ApplyRest) = EndsIn(stack)
      /\ ReadsIn(ApplyRest) = ReadsIn(stack) /\ OpsIn(stack) = {CurOp} \cup OpsIn(ApplyRest)
  BY <1>1, <1>2, ApplyingIs
<1>4. /\ StackOK(s) /\ EndsIn(s) = {i} \cup EndsIn(stack) /\ ReadsIn(s) = ReadsIn(stack)
      /\ OpsIn(s) = OpsIn(ApplyRest)
  BY <1>3, EmitOver
<1>5. \A x \in OpsIn(stack) : x \in OpsIn(s) \/ x.id = i
  BY <1>3, <1>4
<1> HIDE DEF i, s
<1>6. OwnInv'
  BY <1>1, <1>2, OwnSame
<1>7. conn' = Cleared({})
  BY <1>1, <1>2, NoneCleared
<1>8. ASSUME NEW j \in 1 .. page.n, KeptIn(page, Range(page.ops) \cup OpsIn(stack), EndsIn(stack), conn, j)
      PROVE  KeptIn(EventState(page, i, "error"), Range(page.ops) \cup OpsIn(s), EndsIn(s), conn', j)
  <2>1. \A x \in Range(page.ops) \cup OpsIn(stack) : x \in Range(page.ops) \cup OpsIn(s) \/ x.id = i
    BY <1>5
  <2>2. \A x \in EndsIn(stack) : x \in EndsIn(s) \/ x = i
    BY <1>4
  <2>3. i \in EndsIn(s)
    BY <1>4
  <2> QED
    BY <1>1, <1>3, <1>7, <1>8, <2>1, <2>2, <2>3, OthersKept
<1>9. \A r \in Slots : conn'[r] = conn[r]
  BY <1>2
<1>10. OpsIn(s) \subseteq OpsIn(stack)
  BY <1>3, <1>4
<1> QED
  BY <1>2, <1>3, <1>4, <1>6, <1>8, <1>9, <1>10, EmitAction

LEMMA KeepsApplyClose ==
    ASSUME WsAssumption, SocketInv, ApplyClose
    PROVE  SocketInv'
<1>1. PageInv /\ PageOK(page) /\ OwnInv
  BY DEF SocketInv, PageInv
<1> DEFINE i == CurOp.id
           s == ApplyRest
           S == ById(CurOp.id)
<1>2. /\ Applying("close") /\ Emit(i, "close", s) /\ UNCHANGED <<seq, threads, pipe>>
      /\ conn' = Cleared(S) /\ ws' = Dropped(S)
  BY DEF ApplyClose
<1>3. /\ i \in Ids /\ StackOK(s) /\ EndsIn(s) = EndsIn(stack)
      /\ ReadsIn(s) = ReadsIn(stack) /\ OpsIn(stack) = {CurOp} \cup OpsIn(s)
  BY <1>1, <1>2, ApplyingIs
<1>4. S \in SUBSET Slots /\ \A r \in S : conn[r].id = i
  BY DEF ById, Used
<1>5. \A x \in OpsIn(stack) : x \in OpsIn(s) \/ x.id = i
  BY <1>3
<1> HIDE DEF i, s, S
<1>6. OwnInv'
  BY <1>1, <1>2, <1>4, OwnCleared
<1>8. ASSUME NEW j \in 1 .. page.n, KeptIn(page, Range(page.ops) \cup OpsIn(stack), EndsIn(stack), conn, j)
      PROVE  KeptIn(EventState(page, i, "close"), Range(page.ops) \cup OpsIn(s), EndsIn(s), conn', j)
  <2>1. \A x \in Range(page.ops) \cup OpsIn(stack) : x \in Range(page.ops) \cup OpsIn(s) \/ x.id = i
    BY <1>5
  <2>2. \A x \in EndsIn(stack) : x \in EndsIn(s) \/ x = i
    BY <1>3
  <2> QED
    BY <1>1, <1>2, <1>3, <1>4, <1>8, <2>1, <2>2, OthersKept
<1>9. \A r \in Slots : conn'[r].st # "free" => conn'[r] = conn[r]
  BY <1>2, <1>4, ClearedIs
<1>10. OpsIn(s) \subseteq OpsIn(stack)
  BY <1>3
<1> QED
  BY <1>2, <1>3, <1>6, <1>8, <1>9, <1>10, EmitAction

LEMMA KeepsEmitStep ==
    ASSUME WsAssumption, SocketInv, EmitStep
    PROVE  SocketInv'
<1>1. PageInv /\ PageOK(page) /\ OwnInv
  BY DEF SocketInv, PageInv
<1> DEFINE i == Head(stack).id
           s == Rest
<1>2. /\ Top("emit") /\ Emit(i, "close", s) /\ UNCHANGED <<conn, seq, threads, pipe, ws>>
  BY DEF EmitStep
<1>3. /\ i \in Ids /\ StackOK(s) /\ EndsIn(stack) = {i} \cup EndsIn(s)
      /\ ReadsIn(s) = ReadsIn(stack) /\ OpsIn(stack) = OpsIn(s)
  BY <1>1, <1>2, TopIs DEF FrameOK
<1> HIDE DEF i, s
<1>6. OwnInv'
  BY <1>1, <1>2, OwnSame
<1>7. conn' = Cleared({})
  BY <1>1, <1>2, NoneCleared
<1>8. ASSUME NEW j \in 1 .. page.n, KeptIn(page, Range(page.ops) \cup OpsIn(stack), EndsIn(stack), conn, j)
      PROVE  KeptIn(EventState(page, i, "close"), Range(page.ops) \cup OpsIn(s), EndsIn(s), conn', j)
  <2>1. \A x \in Range(page.ops) \cup OpsIn(stack) : x \in Range(page.ops) \cup OpsIn(s) \/ x.id = i
    BY <1>3
  <2>2. \A x \in EndsIn(stack) : x \in EndsIn(s) \/ x = i
    BY <1>3
  <2> QED
    BY <1>1, <1>3, <1>7, <1>8, <2>1, <2>2, OthersKept
<1>9. \A r \in Slots : conn'[r] = conn[r]
  BY <1>2
<1>10. OpsIn(s) \subseteq OpsIn(stack)
  BY <1>3
<1> QED
  BY <1>2, <1>3, <1>6, <1>8, <1>9, <1>10, EmitAction

LEMMA KeepsNotifyOpen ==
    ASSUME WsAssumption, SocketInv, NotifyOpen
    PROVE  SocketInv'
<1>1. PageInv /\ PageOK(page) /\ OwnInv /\ StackOK(stack)
  BY DEF SocketInv, PageInv
<1>2. PICK r \in OwnSlot(Head(pipe)) : conn' = [conn EXCEPT ![r].st = "open"]
  BY DEF NotifyOpen
<1> DEFINE i == Head(pipe).id
<1>3. /\ pipe # <<>> /\ pipe' = Tail(pipe) /\ Emit(i, "open", stack) /\ UNCHANGED <<seq, threads, ws>>
  BY DEF NotifyOpen
<1>4. /\ r \in Slots /\ conn[r].st = "pending" /\ conn[r].id = i /\ i \in Ids
  BY <1>1, <1>2, <1>3, OwnSlotIs
<1> HIDE DEF i
<1>5. OwnInv'
  BY <1>1, <1>2, <1>3, OwnNotifyOpen
<1>6. \A q \in Slots : /\ conn'[q].token = conn[q].token /\ conn'[q].id = conn[q].id
                       /\ conn'[q].st = IF q = r THEN "open" ELSE conn[q].st
  BY <1>1, <1>2, <1>4 DEF OwnInv, OwnTypes, ConnSet
<1>7. \A q \in Slots : conn'[q].st # "free" =>
               /\ conn[q].st # "free" /\ conn'[q].token = conn[q].token /\ conn'[q].id = conn[q].id
               /\ conn'[q].st = conn[q].st \/ ("open" = "open" /\ conn[q].id = i)
  BY <1>4, <1>6
<1>8. ASSUME NEW j \in 1 .. page.n, KeptIn(page, Range(page.ops) \cup OpsIn(stack), EndsIn(stack), conn, j)
      PROVE  KeptIn(EventState(page, i, "open"), Range(page.ops) \cup OpsIn(stack), EndsIn(stack), conn', j)
  <2>1. CASE j = i
    <3>1. HoldsIn(conn', i, "open")
      BY <1>4, <1>6 DEF HoldsIn
    <3> QED
      BY <1>1, <1>4, <2>1, <3>1, EventKept
  <2>2. CASE j # i
    <3>1. \A q \in Slots : conn[q].id = j => conn'[q].st = conn[q].st /\ conn'[q].id = conn[q].id
      BY <1>4, <1>6, <2>2
    <3>2. KeptIn(page, Range(page.ops) \cup OpsIn(stack), EndsIn(stack), conn', j)
      BY <1>8, <3>1, KeptStill
    <3> QED
      BY <1>1, <1>4, <2>2, <3>2, EventKept
  <2> QED
    BY <2>1, <2>2
<1> QED
  BY <1>1, <1>3, <1>4, <1>5, <1>7, <1>8, EmitAction

LEMMA KeepsNotifyFailed ==
    ASSUME WsAssumption, SocketInv, NotifyFailed
    PROVE  SocketInv'
<1>1. PageInv /\ PageOK(page) /\ OwnInv /\ StackOK(stack)
  BY DEF SocketInv, PageInv
<1> DEFINE i == Head(pipe).id
           s == <<EmitClose(Head(pipe).id)>> \o stack
           S == OwnSlot(Head(pipe))
<1>2. /\ pipe # <<>> /\ pipe' = Tail(pipe) /\ Emit(i, "error", s) /\ UNCHANGED <<seq, threads, ws>>
      /\ conn' = Cleared(S) /\ S # {} /\ Head(pipe).st = "failed"
  BY DEF NotifyFailed
<1>3. i \in Ids /\ S \in SUBSET Slots /\ \A r \in S : conn[r].id = i
  BY <1>1, <1>2, OwnSlotIs
<1>4. /\ StackOK(s) /\ EndsIn(s) = {i} \cup EndsIn(stack) /\ ReadsIn(s) = ReadsIn(stack)
      /\ OpsIn(s) = OpsIn(stack)
  BY <1>1, <1>3, EmitOver
<1>6. OwnInv'
  BY <1>1, <1>2, OwnNotifyFailed
<1> HIDE DEF i, s, S
<1>8. ASSUME NEW j \in 1 .. page.n, KeptIn(page, Range(page.ops) \cup OpsIn(stack), EndsIn(stack), conn, j)
      PROVE  KeptIn(EventState(page, i, "error"), Range(page.ops) \cup OpsIn(s), EndsIn(s), conn', j)
  <2>1. \A x \in Range(page.ops) \cup OpsIn(stack) : x \in Range(page.ops) \cup OpsIn(s) \/ x.id = i
    BY <1>4
  <2>2. \A x \in EndsIn(stack) : x \in EndsIn(s) \/ x = i
    BY <1>4
  <2>3. i \in EndsIn(s)
    BY <1>4
  <2> QED
    BY <1>1, <1>2, <1>3, <1>8, <2>1, <2>2, <2>3, OthersKept
<1>9. \A r \in Slots : conn'[r].st # "free" => conn'[r] = conn[r]
  BY <1>2, <1>3, ClearedIs
<1>10. OpsIn(s) \subseteq OpsIn(stack)
  BY <1>4
<1> QED
  BY <1>2, <1>3, <1>4, <1>6, <1>8, <1>9, <1>10, EmitAction

LEMMA ReadOver ==
    ASSUME NEW x, FrameOK(x, <<>>), x.f = "read"
    PROVE  /\ StackOK(<<x>> \o <<>>) /\ OpsIn(<<x>> \o <<>>) = {} /\ EndsIn(<<x>> \o <<>>) = {}
           /\ ReadsIn(<<x>> \o <<>>) = {x}
<1>1. StackOK(<<>>) /\ OpsIn(<<>>) = {} /\ EndsIn(<<>>) = {} /\ ReadsIn(<<>>) = {}
  BY StackEmpty
<1> DEFINE s == <<>>
<1>2. StackOK(s) /\ FrameOK(x, s)
  BY <1>1
<1> HIDE DEF s
<1>3. /\ StackOK(<<x>> \o s)
      /\ OpsIn(<<x>> \o s) = (IF x.f = "apply" THEN Range(x.ops) ELSE {}) \cup OpsIn(s)
      /\ EndsIn(<<x>> \o s) = (IF x.f = "emit" THEN {x.id} ELSE {}) \cup EndsIn(s)
      /\ ReadsIn(<<x>> \o s) = (IF x.f = "read" THEN {x} ELSE {}) \cup ReadsIn(s)
  BY <1>2, StackCons
<1>4. OpsIn(s) = {} /\ EndsIn(s) = {} /\ ReadsIn(s) = {}
  BY <1>1 DEF s
<1>5. /\ StackOK(<<x>> \o s) /\ OpsIn(<<x>> \o s) = {} /\ EndsIn(<<x>> \o s) = {}
      /\ ReadsIn(<<x>> \o s) = {x}
  BY <1>3, <1>4
<1> QED
  BY <1>5 DEF s

LEMMA ReadingIs ==
    ASSUME WsAssumption, SocketInv, Top("read")
    PROVE  /\ Head(stack).id \in Ids /\ Head(stack) \in ReadsIn(stack) /\ Rest = <<>>
           /\ OpsIn(stack) = {} /\ EndsIn(stack) = {} /\ StackOK(Rest)
           /\ OpsIn(Rest) = {} /\ EndsIn(Rest) = {} /\ ReadsIn(Rest) = {}
           /\ ReadSlots \in SUBSET Slots /\ \A r \in ReadSlots : conn[r].id = Head(stack).id /\ conn[r].st # "free"
<1>1. PageInv
  BY DEF SocketInv
<1>2. /\ FrameOK(Head(stack), Rest) /\ Head(stack).f = "read"
      /\ OpsIn(stack) = OpsIn(Rest) /\ EndsIn(stack) = EndsIn(Rest)
      /\ ReadsIn(stack) = {Head(stack)} \cup ReadsIn(Rest)
  BY <1>1, TopIs
<1>3. Rest = <<>> /\ Head(stack).id \in Ids
  BY <1>2 DEF FrameOK
<1>4. StackOK(Rest) /\ OpsIn(Rest) = {} /\ EndsIn(Rest) = {} /\ ReadsIn(Rest) = {}
  BY <1>3, StackEmpty
<1>5. Head(stack) \in ReadsIn(stack)
  BY <1>2
<1>6. ReadSlots \in SUBSET Slots /\ \A r \in ReadSlots : conn[r].id = Head(stack).id /\ conn[r].st # "free"
  BY <1>5 DEF ReadSlots, ByToken, Used, SocketInv, ReadsOK
<1> QED
  BY <1>2, <1>3, <1>4, <1>5, <1>6

LEMMA AgainIs ==
    ASSUME WsAssumption, SocketInv, Top("read")
    PROVE  /\ StackOK(Again) /\ OpsIn(Again) = {} /\ EndsIn(Again) = {}
           /\ \A x \in ReadsIn(Again) : x.token = Head(stack).token /\ x.id = Head(stack).id
<1>1. PageInv
  BY DEF SocketInv
<1>2. FrameOK(Head(stack), Rest) /\ Head(stack).f = "read"
  BY <1>1, TopIs
<1> DEFINE x == [Head(stack) EXCEPT !.n = @ + 1]
<1>3. x.f = "read" /\ x.token = Head(stack).token /\ x.id = Head(stack).id /\ x \in FrameSet
  BY <1>2 DEF FrameOK, FrameSet
<1> HIDE DEF x
<1>4. FrameOK(x, Rest)
  BY <1>2, <1>3 DEF FrameOK
<1>5. Again = <<x>> \o Rest
  BY DEF Again, x
<1>7. StackOK(Again) /\ OpsIn(Again) = {} /\ EndsIn(Again) = {} /\ ReadsIn(Again) = {x}
  <2>1. Rest = <<>>
    BY ReadingIs
  <2> QED
    BY <1>3, <1>4, <1>5, <2>1, ReadOver
<1> QED
  BY <1>3, <1>7

LEMMA KeepsReadMessage ==
    ASSUME WsAssumption, SocketInv, ReadMessage
    PROVE  SocketInv'
<1>1. PageInv /\ PageOK(page) /\ OwnInv /\ Top("read")
  BY DEF SocketInv, PageInv, ReadMessage, Reading
<1> DEFINE i == Head(stack).id
           s == Again
<1>2. PICK r \in ReadSlots : conn' = [conn EXCEPT ![r].len = 0]
  BY DEF ReadMessage
<1>3. Emit(i, "message", s) /\ UNCHANGED <<seq, threads, pipe, ws>>
  BY DEF ReadMessage
<1>4. i \in Ids /\ r \in Slots /\ Head(stack) \in ReadsIn(stack) /\ OpsIn(stack) = {} /\ EndsIn(stack) = {}
  BY <1>1, <1>2, ReadingIs
<1>5. /\ StackOK(s) /\ OpsIn(s) = {} /\ EndsIn(s) = {}
      /\ \A x \in ReadsIn(s) : x.token = Head(stack).token /\ x.id = Head(stack).id
  BY <1>1, AgainIs
<1> HIDE DEF i, s
<1>6. OwnInv'
  BY <1>1, <1>2, <1>3, <1>4, OwnLength
<1>7. \A q \in Slots : conn'[q].token = conn[q].token /\ conn'[q].id = conn[q].id /\ conn'[q].st = conn[q].st
  BY <1>1, <1>2, <1>4 DEF OwnInv, OwnTypes, ConnSet
<1>8. ASSUME NEW j \in 1 .. page.n, KeptIn(page, Range(page.ops) \cup OpsIn(stack), EndsIn(stack), conn, j)
      PROVE  KeptIn(EventState(page, i, "message"), Range(page.ops) \cup OpsIn(s), EndsIn(s), conn', j)
  <2>1. KeptIn(page, Range(page.ops) \cup OpsIn(s), EndsIn(s), conn', j)
    BY <1>4, <1>5, <1>7, <1>8, KeptStill
  <2> QED
    BY <1>1, <1>4, <2>1, EventKept
<1>9. \A x \in ReadsIn(s) : \E y \in ReadsIn(stack) : y.token = x.token /\ y.id = x.id
  BY <1>4, <1>5
<1>10. OpsIn(s) \subseteq OpsIn(stack)
  BY <1>5
<1> QED
  BY <1>3, <1>4, <1>5, <1>6, <1>7, <1>8, <1>9, <1>10, EmitAction

LEMMA KeepsReadClose ==
    ASSUME WsAssumption, SocketInv, ReadClose
    PROVE  SocketInv'
<1>1. PageInv /\ PageOK(page) /\ OwnInv /\ Top("read")
  BY DEF SocketInv, PageInv, ReadClose, Reading
<1> DEFINE i == Head(stack).id
           s == Rest
           S == ReadSlots
<1>2. /\ Emit(i, "close", s) /\ UNCHANGED <<seq, threads, pipe>>
      /\ conn' = Cleared(S) /\ ws' = Dropped(S)
  BY DEF ReadClose
<1>3. /\ i \in Ids /\ StackOK(s) /\ OpsIn(stack) = {} /\ EndsIn(stack) = {}
      /\ OpsIn(s) = {} /\ EndsIn(s) = {} /\ ReadsIn(s) = {}
      /\ S \in SUBSET Slots /\ \A r \in S : conn[r].id = i
  BY <1>1, ReadingIs
<1> HIDE DEF i, s, S
<1>6. OwnInv'
  BY <1>1, <1>2, <1>3, OwnCleared
<1>8. ASSUME NEW j \in 1 .. page.n, KeptIn(page, Range(page.ops) \cup OpsIn(stack), EndsIn(stack), conn, j)
      PROVE  KeptIn(EventState(page, i, "close"), Range(page.ops) \cup OpsIn(s), EndsIn(s), conn', j)
  <2>1. \A x \in Range(page.ops) \cup OpsIn(stack) : x \in Range(page.ops) \cup OpsIn(s) \/ x.id = i
    BY <1>3
  <2>2. \A x \in EndsIn(stack) : x \in EndsIn(s) \/ x = i
    BY <1>3
  <2> QED
    BY <1>1, <1>2, <1>3, <1>8, <2>1, <2>2, OthersKept
<1>9. \A r \in Slots : conn'[r].st # "free" => conn'[r] = conn[r]
  BY <1>2, <1>3, ClearedIs
<1>10. OpsIn(s) \subseteq OpsIn(stack)
  BY <1>3
<1> QED
  BY <1>2, <1>3, <1>6, <1>8, <1>9, <1>10, EmitAction

LEMMA KeepsReadFail ==
    ASSUME WsAssumption, SocketInv, ReadFail
    PROVE  SocketInv'
<1>1. PageInv /\ PageOK(page) /\ OwnInv /\ Top("read")
  BY DEF SocketInv, PageInv, ReadFail, Reading
<1> DEFINE i == Head(stack).id
           s == <<EmitClose(Head(stack).id)>> \o Rest
           S == ReadSlots
<1>2. /\ Emit(i, "error", s) /\ UNCHANGED <<seq, threads, pipe>>
      /\ conn' = Cleared(S) /\ ws' = Dropped(S)
  BY DEF ReadFail
<1>3. /\ i \in Ids /\ StackOK(Rest) /\ OpsIn(stack) = {} /\ EndsIn(stack) = {}
      /\ OpsIn(Rest) = {} /\ EndsIn(Rest) = {} /\ ReadsIn(Rest) = {}
      /\ S \in SUBSET Slots /\ \A r \in S : conn[r].id = i
  BY <1>1, ReadingIs
<1>4. StackOK(s) /\ OpsIn(s) = {} /\ EndsIn(s) = {i} /\ ReadsIn(s) = {}
  BY <1>3, EmitOver
<1> HIDE DEF i, s, S
<1>6. OwnInv'
  BY <1>1, <1>2, <1>3, OwnCleared
<1>8. ASSUME NEW j \in 1 .. page.n, KeptIn(page, Range(page.ops) \cup OpsIn(stack), EndsIn(stack), conn, j)
      PROVE  KeptIn(EventState(page, i, "error"), Range(page.ops) \cup OpsIn(s), EndsIn(s), conn', j)
  <2>1. \A x \in Range(page.ops) \cup OpsIn(stack) : x \in Range(page.ops) \cup OpsIn(s) \/ x.id = i
    BY <1>3
  <2>2. \A x \in EndsIn(stack) : x \in EndsIn(s) \/ x = i
    BY <1>3
  <2>3. i \in EndsIn(s)
    BY <1>4
  <2> QED
    BY <1>1, <1>2, <1>3, <1>8, <2>1, <2>2, <2>3, OthersKept
<1>9. \A r \in Slots : conn'[r].st # "free" => conn'[r] = conn[r]
  BY <1>2, <1>3, ClearedIs
<1>10. OpsIn(s) \subseteq OpsIn(stack)
  BY <1>4
<1> QED
  BY <1>2, <1>3, <1>4, <1>6, <1>8, <1>9, <1>10, EmitAction

-----------------------------------------------------------------------------
(***************************************************************************)
(* Steps in which no script runs.                                          *)
(***************************************************************************)
LEMMA QuietAction ==
    ASSUME WsAssumption, SocketInv, OwnInv', page' = page, tick' = tick, lost' = lost,
           StackOK(stack'), OpsIn(stack') \subseteq OpsIn(stack), seq' = seq,
           \A x \in ReadsIn(stack') : \E y \in ReadsIn(stack) : y.token = x.token /\ y.id = x.id,
           \A r \in Slots : conn'[r].token = conn[r].token /\ conn'[r].id = conn[r].id /\ conn'[r].st = conn[r].st,
           OpsIn(stack) \subseteq OpsIn(stack'), EndsIn(stack) \subseteq EndsIn(stack')
    PROVE  SocketInv'
<1>1. OwnInv /\ PageInv /\ ReadsOK /\ HubOfPage /\ NothingForgotten /\ PageOK(page) /\ TickOK
  BY DEF SocketInv, PageInv
<1>2. TickOK'
  BY <1>1 DEF TickOK
<1>3. PageInv'
  BY <1>1, <1>2 DEF PageInv
<1>4. ReadsOK'
  <2>1. seq <= seq'
    BY <1>1 DEF OwnInv, OwnTypes
  <2> QED
    BY <1>1, <2>1, ReadsKept
<1>5. HubOfPage'
  BY <1>1, HubIs, HubNext
<1>6. NothingForgotten'
  <2> SUFFICES ASSUME page.alive, NEW j \in 1 .. page.n, j \notin lost
               PROVE  KeptIn(page, Ways', EndsIn(stack'), conn', j)
    BY RememberedNext DEF NothingForgotten
  <2>1. KeptIn(page, Ways, EndsIn(stack), conn, j)
    BY <1>1, RememberedIs DEF NothingForgotten
  <2>2. Ways \subseteq Ways'
    BY DEF Ways
  <2> QED
    BY <2>1, <2>2, KeptStill
<1> QED
  BY <1>3, <1>4, <1>5, <1>6 DEF SocketInv

(* A call returns. *)
LEMMA KeepsReturns ==
    ASSUME WsAssumption, SocketInv, ApplyEnd \/ NotifyEnd \/ ReadEnd
    PROVE  SocketInv'
<1>1. PageInv /\ OwnInv
  BY DEF SocketInv
<1>2. stack' = Rest /\ UNCHANGED <<page, conn, seq, threads, pipe, ws, tick, lost>>
  BY DEF ApplyEnd, NotifyEnd, ReadEnd
<1>3. PICK g \in {"apply", "notify", "read"} : Top(g) /\ (g = "apply" => Head(stack).ops = <<>>)
  BY DEF ApplyEnd, NotifyEnd, ReadEnd
<1>4. /\ StackOK(Rest)
      /\ OpsIn(stack) = (IF g = "apply" THEN Range(Head(stack).ops) ELSE {}) \cup OpsIn(Rest)
      /\ EndsIn(stack) = EndsIn(Rest)
      /\ ReadsIn(Rest) \subseteq ReadsIn(stack)
  BY <1>1, <1>3, TopIs
<1>5. OpsIn(stack) = OpsIn(Rest)
  BY <1>3, <1>4 DEF Range
<1>6. OwnInv'
  BY <1>1, <1>2, OwnSame
<1> QED
  BY <1>2, <1>4, <1>5, <1>6, QuietAction

LEMMA KeepsReadPart ==
    ASSUME WsAssumption, SocketInv, ReadPart
    PROVE  SocketInv'
<1>1. PageInv /\ OwnInv /\ Top("read") /\ stack' = Again /\ UNCHANGED <<page, seq, threads, pipe, ws, tick, lost>>
  BY DEF SocketInv, ReadPart, Reading
<1>2. PICK r \in ReadSlots, d \in {0, 1} : conn' = [conn EXCEPT ![r].len = @ + d]
  BY DEF ReadPart
<1>3. r \in Slots /\ Head(stack) \in ReadsIn(stack) /\ OpsIn(stack) = {} /\ EndsIn(stack) = {}
  BY <1>1, ReadingIs
<1>4. conn[r].len + d \in Nat /\ conn' = [conn EXCEPT ![r].len = conn[r].len + d]
  BY <1>1, <1>2, <1>3 DEF OwnInv, OwnTypes, ConnSet
<1>5. OwnInv'
  BY <1>1, <1>3, <1>4, OwnLength
<1>6. \A q \in Slots : conn'[q].token = conn[q].token /\ conn'[q].id = conn[q].id /\ conn'[q].st = conn[q].st
  BY <1>1, <1>3, <1>4 DEF OwnInv, OwnTypes, ConnSet
<1>7. /\ StackOK(stack') /\ OpsIn(stack') = {} /\ EndsIn(stack') = {}
      /\ \A x \in ReadsIn(stack') : x.token = Head(stack).token /\ x.id = Head(stack).id
  BY <1>1, AgainIs
<1> QED
  BY <1>1, <1>3, <1>5, <1>6, <1>7, QuietAction

LEMMA KeepsNotify ==
    ASSUME WsAssumption, SocketInv, Notify
    PROVE  SocketInv'
<1>1. stack = <<>> /\ stack' = <<Frame("notify")>> /\ UNCHANGED <<page, conn, seq, threads, pipe, ws, tick, lost>>
  BY DEF Notify
<1>2. FrameOK(Frame("notify"), <<>>) /\ Frame("notify").f = "notify"
  BY FrameIs DEF FrameOK
<1>3. stack' = <<Frame("notify")>> \o <<>>
  BY <1>1
<1>4. StackOK(<<>>) /\ OpsIn(<<>>) = {} /\ EndsIn(<<>>) = {} /\ ReadsIn(<<>>) = {}
  BY StackEmpty
<1>5. StackOK(stack') /\ OpsIn(stack') = {} /\ EndsIn(stack') = {} /\ ReadsIn(stack') = {}
  BY <1>2, <1>3, <1>4, StackCons
<1>6. OwnInv'
  BY <1>1, OwnSame DEF SocketInv
<1> QED
  BY <1>1, <1>4, <1>5, <1>6, QuietAction

(* Poll reports a connection: the call keeps its token and its id. *)
LEMMA KeepsReadable ==
    ASSUME WsAssumption, SocketInv, NEW i \in Ids, Readable(i)
    PROVE  SocketInv'
<1>1. stack = <<>> /\ UNCHANGED <<page, conn, seq, threads, pipe, ws, tick, lost>>
  BY DEF Readable
<1>2. PICK r \in OpenSlots(i) : stack' = <<ReadFrame(conn[r].token, i)>>
  BY DEF Readable
<1>3. r \in Slots /\ conn[r].st = "open" /\ conn[r].id = i
  BY DEF OpenSlots, ById, Used
<1>4. conn[r].token \in Nat /\ conn[r].token <= seq
  BY <1>3 DEF SocketInv, OwnInv, OwnTypes, ConnSet, SlotTokens
<1> DEFINE x == ReadFrame(conn[r].token, i)
<1>5. FrameOK(x, <<>>) /\ x.f = "read" /\ x.id = i /\ x.token = conn[r].token
  BY <1>4, ReadIs
<1> HIDE DEF x
<1>6. stack' = <<x>> \o <<>>
  BY <1>2, <1>5 DEF x
<1>7. StackOK(<<>>) /\ OpsIn(<<>>) = {} /\ EndsIn(<<>>) = {} /\ ReadsIn(<<>>) = {}
  BY StackEmpty
<1>8. StackOK(stack') /\ OpsIn(stack') = {} /\ EndsIn(stack') = {} /\ ReadsIn(stack') = {x}
  BY <1>5, <1>6, ReadOver
<1>9. OwnInv' /\ OwnInv /\ PageInv /\ HubOfPage /\ NothingForgotten /\ TickOK
  BY <1>1, OwnSame DEF SocketInv, PageInv
<1>10. ReadsOK'
  <2>1. \A s \in Slots : conn[s].st # "free" /\ conn[s].token = x.token => conn[s].id = x.id
    BY <1>3, <1>5, <1>9 DEF OwnInv, SlotTokens
  <2> QED
    BY <1>1, <1>4, <1>5, <1>8, <2>1 DEF ReadsOK
<1>11. PageInv' /\ HubOfPage' /\ NothingForgotten'
  <2>1. TickOK'
    BY <1>1, <1>9 DEF TickOK
  <2>2. PageInv'
    BY <1>1, <1>8, <1>9, <2>1 DEF PageInv
  <2>3. HubOfPage'
    BY <1>1, <1>9 DEF HubOfPage, Used
  <2>4. NothingForgotten'
    <3> SUFFICES ASSUME page.alive, NEW j \in 1 .. page.n, j \notin lost
                 PROVE  KeptIn(page, Ways', EndsIn(stack'), conn', j)
      BY <1>1, RememberedNext DEF NothingForgotten
    <3>1. KeptIn(page, Ways, EndsIn(stack), conn, j)
      BY <1>9, RememberedIs DEF NothingForgotten
    <3>2. Ways' = Ways /\ EndsIn(stack') = EndsIn(stack)
      BY <1>1, <1>7, <1>8 DEF Ways
    <3> QED
      BY <1>1, <3>1, <3>2
  <2> QED
    BY <2>2, <2>3, <2>4
<1> QED
  BY <1>9, <1>10, <1>11 DEF SocketInv

(* The threads and the socket pair: the page does not notice. *)
LEMMA KeepsHidden ==
    ASSUME WsAssumption, SocketInv, OwnInv', UNCHANGED <<page, conn, seq, stack, tick, lost>>
    PROVE  SocketInv'
<1>1. StackOK(stack') /\ \A x \in ReadsIn(stack') : x \in ReadsIn(stack)
  BY DEF SocketInv, PageInv
<1> QED
  BY <1>1, QuietAction

LEMMA KeepsThreads ==
    ASSUME WsAssumption, SocketInv, Opening \/ NotifyLate \/ Drain \/ Drained \/ Idle
    PROVE  SocketInv'
<1>1. OwnInv
  BY DEF SocketInv
<1>2. CASE Opening
  <2>1. PICK j \in threads : Opened(j) \/ HandOver(j)
    BY <1>2 DEF Opening
  <2>2. OwnInv'
    BY <1>1, <2>1, OwnOpened, OwnHandOver
  <2> QED
    BY <2>1, <2>2, KeepsHidden DEF Opened, HandOver
<1>3. CASE NotifyLate \/ Drain
  <2>1. /\ pipe # <<>> /\ pipe' = Tail(pipe) /\ ws' = ws \ {Head(pipe).token}
        /\ UNCHANGED <<page, conn, seq, threads, stack, tick, lost>>
    BY <1>3 DEF NotifyLate, Drain
  <2>2. OwnInv'
    BY <1>1, <2>1, OwnLate
  <2> QED
    BY <2>1, <2>2, KeepsHidden
<1>4. CASE Drained \/ Idle
  <2>1. UNCHANGED <<page, conn, seq, threads, pipe, ws, stack, tick, lost>>
    BY <1>4 DEF Drained, Idle, vars
  <2>2. OwnInv'
    BY <1>1, <2>1, OwnSame
  <2> QED
    BY <2>1, <2>2, KeepsHidden
<1> QED
  BY <1>2, <1>3, <1>4

LEMMA WaysTyped ==
    ASSUME WsAssumption, PageInv
    PROVE  \A o \in Ways : o \in OpSet /\ o.id \in Nat /\ o.id <= page.n
<1>1. PageOK(page) /\ StackOK(stack) /\ TickOK
  BY DEF PageInv
<1>2. \A o \in Range(page.ops) \cup Range(tick.ops) : o \in OpSet
  BY <1>1, RangeIn DEF PageOK, PageSet, TickOK
<1>3. ASSUME NEW o \in OpsIn(stack) PROVE o \in OpSet
  <2>1. PICK x \in Range(stack) : o \in Range(x.ops)
    BY DEF OpsIn
  <2>2. x \in FrameSet
    BY <1>1, <2>1, RangeIn DEF StackOK
  <2>3. x.ops \in Seq(OpSet)
    BY <2>2 DEF FrameSet
  <2> QED
    BY <2>1, <2>3, RangeIn
<1>4. \A o \in Ways : o.id <= page.n
  BY DEF Ways, PageInv, PageOK
<1>5. Ids \subseteq Nat
  BY <1>1, PageFields
<1> QED
  BY <1>2, <1>3, <1>4, <1>5 DEF Ways, OpSet

(* wh_open_async. *)
LEMMA KeepsApplyOpen ==
    ASSUME WsAssumption, SocketInv, ApplyOpen
    PROVE  SocketInv'
<1>1. OwnInv /\ PageInv /\ ReadsOK /\ HubOfPage /\ NothingForgotten /\ PageOK(page) /\ TickOK
  BY DEF SocketInv, PageInv
<1> DEFINE i == CurOp.id
           c == [st |-> "pending", id |-> i, token |-> seq + 1, len |-> 0]
<1>2. /\ Applying("open") /\ page.alive /\ OpenAsync(i) /\ stack' = ApplyRest
      /\ UNCHANGED <<page, pipe, ws, tick, lost>>
  BY DEF ApplyOpen
<1>3. /\ CurOp \in OpSet /\ CurOp.kind = "open" /\ i \in Ids /\ i <= page.n
      /\ StackOK(ApplyRest) /\ EndsIn(ApplyRest) = EndsIn(stack) /\ ReadsIn(ApplyRest) = ReadsIn(stack)
      /\ OpsIn(stack) = {CurOp} \cup OpsIn(ApplyRest)
  BY <1>1, <1>2, ApplyingIs
<1>4. PICK s \in Slots : conn[s].st = "free" /\ conn' = [conn EXCEPT ![s] = c]
  BY <1>1, <1>2, <1>3, OpenSlot
<1>5. c.st = "pending" /\ c.id = i /\ c.token = seq + 1
  OBVIOUS
<1> HIDE DEF c
<1>6. OwnInv'
  BY <1>1, <1>2, <1>3, OwnOpen
<1>7. \A r \in Slots : conn'[r] = IF r = s THEN c ELSE conn[r]
  BY <1>1, <1>4 DEF OwnInv, OwnTypes
<1>8. PageInv'
  <2>1. TickOK'
    BY <1>1, <1>2 DEF TickOK
  <2> QED
    BY <1>1, <1>2, <1>3, <2>1 DEF PageInv
<1>9. ReadsOK'
  <2>1. seq <= seq'
    BY <1>1, <1>2 DEF OwnInv, OwnTypes, OpenAsync
  <2>2. \A r \in Slots : conn'[r].st # "free" =>
               \/ conn[r].st # "free" /\ conn'[r].token = conn[r].token /\ conn'[r].id = conn[r].id
               \/ conn'[r].token = seq + 1
    BY <1>5, <1>7
  <2> QED
    BY <1>1, <1>2, <1>3, <1>6, <2>1, <2>2, ReadsKept
<1>10. HubOfPage'
  BY <1>1, <1>2, <1>3, <1>5, <1>7, HubIs, HubNext
<1> HIDE DEF i
<1>11. NothingForgotten'
  <2> SUFFICES ASSUME NEW j \in 1 .. page.n, j \notin lost
               PROVE  KeptIn(page, Ways', EndsIn(stack'), conn', j)
    BY <1>2, RememberedNext DEF NothingForgotten
  <2>1. KeptIn(page, Ways, EndsIn(stack), conn, j) /\ j \in Ids
    BY <1>1, <1>2, RememberedIs, PageFields DEF NothingForgotten
  <2>2. \A o \in Ways : o \in Ways' \/ o = CurOp
    BY <1>2, <1>3 DEF Ways
  <2>3. \A st \in {"pending", "open"} : HoldsIn(conn, j, st) => HoldsIn(conn', j, st)
    BY <1>4, <1>7 DEF HoldsIn
  <2>4. HoldsIn(conn', i, "pending")
    BY <1>5, <1>7 DEF HoldsIn
  <2>5. Op("close", j) \in Ways => Op("close", j) \in Ways'
    BY <1>3, <2>1, <2>2, OpIs
  <2>6. Op("open", j) \in Ways => Op("open", j) \in Ways' \/ j = i
    <3>1. Op("open", j).id = j
      BY <2>1, OpIs
    <3> QED
      BY <2>2, <3>1 DEF i
  <2>7. EndsIn(stack') = EndsIn(stack)
    BY <1>2, <1>3
  <2> QED
    BY <2>1, <2>3, <2>4, <2>5, <2>6, <2>7 DEF KeptIn
<1> QED
  BY <1>6, <1>8, <1>9, <1>10, <1>11 DEF SocketInv

-----------------------------------------------------------------------------
(* The page is left: its worker goes, and all it held in the hub. *)
LEMMA LeftAction ==
    ASSUME WsAssumption, SocketInv, CloseAll, UNCHANGED <<seq, threads, pipe, tick>>,
           page' = [page EXCEPT !.alive = FALSE],
           StackOK(stack'), OpsIn(stack') \subseteq OpsIn(stack), ReadsIn(stack') \subseteq ReadsIn(stack)
    PROVE  SocketInv'
<1>1. OwnInv /\ PageInv /\ ReadsOK /\ PageOK(page) /\ TickOK
  BY DEF SocketInv, PageInv
<1>2. OwnInv'
  BY <1>1, OwnCloseAll
<1>3. HubOfPage' /\ \A s \in Slots : conn'[s].st = "free"
  BY HubEmpty
<1>4. page \in PageSet
  BY <1>1 DEF PageOK
<1>5. /\ page' \in PageSet /\ page'.doc = page.doc /\ page'.n = page.n /\ page'.rs = page.rs
      /\ page'.ops = page.ops /\ page'.alive = FALSE
  BY <1>4 DEF PageSet
<1>6. PageOK(page')
  BY <1>1, <1>5 DEF PageOK
<1>7. PageInv'
  <2>1. TickOK'
    BY <1>1 DEF TickOK
  <2> QED
    BY <1>1, <1>5, <1>6, <2>1 DEF PageInv
<1>8. ReadsOK'
  <2>1. seq <= seq'
    BY <1>1 DEF OwnInv, OwnTypes
  <2> QED
    BY <1>1, <1>2, <1>3, <2>1, ReadsKept
<1>9. NothingForgotten'
  BY <1>5 DEF NothingForgotten
<1> QED
  BY <1>2, <1>3, <1>7, <1>8, <1>9 DEF SocketInv

LEMMA KeepsLeft ==
    ASSUME WsAssumption, SocketInv, LeaveStep \/ Leave \/ Exit
    PROVE  SocketInv'
<1>1. PageInv /\ StackOK(stack)
  BY DEF SocketInv, PageInv
<1>2. CASE LeaveStep
  <2>1. StackOK(Rest) /\ OpsIn(Rest) \subseteq OpsIn(stack) /\ ReadsIn(Rest) \subseteq ReadsIn(stack)
    BY <1>1, <1>2, TopIs DEF LeaveStep
  <2> QED
    BY <1>2, <2>1, LeftAction DEF LeaveStep
<1>3. CASE Leave
  BY <1>1, <1>3, LeftAction DEF Leave
<1>4. CASE Exit
  BY <1>1, <1>4, LeftAction DEF Exit
<1> QED
  BY <1>2, <1>3, <1>4

-----------------------------------------------------------------------------
(***************************************************************************)
(* Steps in which scripts run that no event started, and the background    *)
(* tick.                                                                   *)
(***************************************************************************)
LEMMA ScriptAction ==
    ASSUME WsAssumption, SocketInv, UNCHANGED <<conn, seq, threads, pipe, ws>>,
           NEW q, Moves(page, q), PageOK(page'),
           page'.n = q.n, page'.rs = q.rs, page'.alive = q.alive,
           StackOK(stack'), TickOK', ReadsIn(stack') \subseteq ReadsIn(stack),
           EndsIn(stack) \subseteq EndsIn(stack'), lost \subseteq lost',
           \A o \in Range(q.ops) \cup Range(tick.ops) \cup OpsIn(stack) : o \in Ways' \/ o.id \in lost',
           \A o \in Range(tick'.ops) \cup OpsIn(stack') :
               o \in Range(q.ops) \cup Range(tick.ops) \cup OpsIn(stack)
    PROVE  SocketInv'
<1>1. OwnInv /\ PageInv /\ ReadsOK /\ HubOfPage /\ NothingForgotten /\ PageOK(page)
  BY DEF SocketInv, PageInv
<1>2. OwnInv'
  BY <1>1, OwnSame
<1>3. PageOK(q) /\ page.n \in Nat /\ q.n \in Nat /\ page.n <= q.n /\ q.alive = page.alive
      /\ \A j \in 1 .. q.n : j \in Ids
  BY <1>1, PageFields DEF Moves
<1>4. PageInv'
  <2>1. ASSUME NEW o \in Range(tick'.ops) \cup OpsIn(stack') PROVE o.id <= page'.n
    <3>1. CASE o \in Range(q.ops)
      BY <1>3, <3>1 DEF PageOK
    <3>2. CASE o \in Range(tick.ops) \cup OpsIn(stack)
      <4>1. o.id \in Nat /\ o.id <= page.n
        BY <1>1, <3>2, WaysTyped DEF Ways
      <4> QED
        BY <1>3, <4>1
    <3> QED
      BY <3>1, <3>2
  <2> QED
    BY <2>1 DEF PageInv
<1>5. ReadsOK'
  <2>1. seq <= seq'
    BY <1>1 DEF OwnInv, OwnTypes
  <2> QED
    BY <1>1, <1>2, <2>1, ReadsKept
<1>6. HubOfPage'
  <2>1. \A j \in Ids : page'.rs[j] = CONNECTING => page.rs[j] = CONNECTING
    BY States DEF Moves
  <2>2. page'.alive = page.alive /\ page.n <= page'.n
    BY <1>3
  <2> QED
    BY <1>1, <2>1, <2>2, HubKept
<1>7. NothingForgotten'
  <2> SUFFICES ASSUME page.alive, NEW j \in 1 .. q.n, j \notin lost'
               PROVE  KeptIn(page', Ways', EndsIn(stack'), conn', j)
    BY <1>3, RememberedNext DEF NothingForgotten
  <2>1. j \in Ids
    BY <1>3
  <2>2. \A k \in {"open", "close"} :
            Op(k, j) \in Range(q.ops) \cup Range(tick.ops) \cup OpsIn(stack) => Op(k, j) \in Ways'
    BY <2>1, OpIs
  <2>3. Range(page.ops) \subseteq Range(q.ops)
    BY DEF Moves
  <2>4. \/ q.rs[j] = page.rs[j]
        \/ q.rs[j] = CLOSING /\ Op("close", j) \in Ways'
    BY <2>1, <2>2 DEF Moves
  <2>5. CASE q.rs[j] = CLOSING /\ Op("close", j) \in Ways'
    BY <2>5, States DEF KeptIn
  <2>6. CASE q.rs[j] = page.rs[j] /\ j <= page.n
    <3>1. j \in 1 .. page.n /\ j \notin lost
      BY <1>3, <2>6
    <3>2. KeptIn(page, Ways, EndsIn(stack), conn, j)
      BY <1>1, <3>1, RememberedIs DEF NothingForgotten
    <3>3. \A k \in {"open", "close"} : Op(k, j) \in Ways => Op(k, j) \in Ways'
      BY <2>2, <2>3 DEF Ways
    <3> QED
      BY <2>6, <3>2, <3>3 DEF KeptIn
  <2>7. CASE q.rs[j] = page.rs[j] /\ page.n < j
    <3>1. page.rs[j] = CONNECTING
      BY <1>1, <1>3, <2>1, <2>7 DEF PageOK
    <3>2. Op("open", j) \in Ways'
      BY <2>1, <2>2, <2>7 DEF Moves
    <3> QED
      BY <2>7, <3>1, <3>2, States DEF KeptIn
  <2> QED
    BY <1>3, <2>4, <2>5, <2>6, <2>7
<1> QED
  BY <1>2, <1>4, <1>5, <1>6, <1>7 DEF SocketInv

LEMMA LoopIs ==
    ASSUME stack = <<>>
    PROVE  StackOK(stack) /\ OpsIn(stack) = {} /\ EndsIn(stack) = {} /\ ReadsIn(stack) = {}
  BY StackEmpty

LEMMA KeepsPageOp ==
    ASSUME WsAssumption, SocketInv, PageOp
    PROVE  SocketInv'
<1>1. PageOK(page) /\ TickOK
  BY DEF SocketInv, PageInv
<1>2. PICK q \in Runs(page) : Answer(q, <<>>)
  BY DEF PageOp
<1>3. /\ stack = <<>> /\ tick.st # "running" /\ tick' = Synced
      /\ UNCHANGED <<conn, seq, threads, pipe, ws>>
  BY DEF PageOp, AtLoop
<1>4. Moves(page, q) /\ PageOK(q)
  BY <1>1, MovesRuns DEF Moves
<1>5. StackOK(stack) /\ OpsIn(stack) = {} /\ EndsIn(stack) = {} /\ ReadsIn(stack) = {}
  BY <1>3, LoopIs
<1>6. Passed(q, stack)
  BY <1>1, <1>2, <1>3, <1>4, <1>5, AnswerPasses
<1>7. /\ PageOK(page') /\ page'.n = q.n /\ page'.rs = q.rs /\ page'.alive = q.alive
  BY <1>4, <1>6, EmptiedIs DEF Passed
<1>8. Range(tick'.ops) = {}
  BY <1>6 DEF Passed, Range
<1>9. \A o \in Range(q.ops) \cup Range(tick.ops) \cup OpsIn(stack) : o \in Ways' \/ o.id \in lost'
  BY <1>5, <1>6 DEF Passed, Ways
<1>10. \A o \in Range(tick'.ops) \cup OpsIn(stack') : o \in Range(q.ops) \cup Range(tick.ops) \cup OpsIn(stack)
  BY <1>6, <1>8 DEF Passed
<1>11. /\ StackOK(stack') /\ TickOK' /\ ReadsIn(stack') \subseteq ReadsIn(stack)
       /\ EndsIn(stack) \subseteq EndsIn(stack') /\ lost \subseteq lost'
  BY <1>6 DEF Passed
<1> QED
  BY <1>3, <1>4, <1>7, <1>9, <1>10, <1>11, ScriptAction

LEMMA KeepsPageEval ==
    ASSUME WsAssumption, SocketInv, PageEval
    PROVE  SocketInv'
<1>1. PageOK(page) /\ TickOK
  BY DEF SocketInv, PageInv
<1>2. /\ stack = <<>> /\ tick.st # "running" /\ tick' = Synced /\ stack' = stack
      /\ UNCHANGED <<conn, seq, threads, pipe, ws>> /\ page' \in Runs(page)
      /\ lost' = lost \cup Touched(tick.ops)
  BY DEF PageEval, AtLoop
<1>3. PICK q \in Runs(page) : page' = q
  BY <1>2
<1>4. Moves(page, q) /\ PageOK(q)
  BY <1>1, MovesRuns DEF Moves
<1>5. StackOK(stack) /\ OpsIn(stack) = {} /\ EndsIn(stack) = {} /\ ReadsIn(stack) = {}
  BY <1>2, LoopIs
<1>6. TickOK' /\ tick'.ops = <<>>
  BY <1>1, <1>2, SyncedIs
<1>7. Range(tick'.ops) = {}
  BY <1>6 DEF Range
<1>8. \A o \in Range(q.ops) \cup Range(tick.ops) \cup OpsIn(stack) : o \in Ways' \/ o.id \in lost'
  BY <1>2, <1>3, <1>5 DEF Ways, Touched
<1>9. \A o \in Range(tick'.ops) \cup OpsIn(stack') : o \in Range(q.ops) \cup Range(tick.ops) \cup OpsIn(stack)
  BY <1>2, <1>7
<1>10. lost \subseteq lost' /\ StackOK(stack') /\ PageOK(page')
  BY <1>2, <1>3, <1>4, <1>5
<1> QED
  BY <1>2, <1>3, <1>4, <1>6, <1>8, <1>9, <1>10, ScriptAction

LEMMA KeepsTickRun ==
    ASSUME WsAssumption, SocketInv, TickRun
    PROVE  SocketInv'
<1>1. PageOK(page) /\ TickOK /\ StackOK(stack) /\ tick.st = "running"
  BY DEF SocketInv, PageInv, TickRun
<1>2. PICK q \in Runs(page) :
          /\ page' = Emptied(q) /\ tick' = [st |-> "done", ops |-> Taken(q)]
          /\ lost' = lost \cup Touched(Overflow(q))
  BY DEF TickRun
<1>3. UNCHANGED <<conn, seq, threads, pipe, ws, stack>>
  BY DEF TickRun
<1>4. Moves(page, q) /\ PageOK(q)
  BY <1>1, MovesRuns DEF Moves
<1>5. /\ PageOK(page') /\ page'.n = q.n /\ page'.rs = q.rs /\ page'.alive = q.alive
  BY <1>2, <1>4, EmptiedIs
<1>6. /\ Taken(q) \in Seq(OpSet) /\ Range(q.ops) = Range(Taken(q)) \cup Range(Overflow(q))
  BY <1>4, TakenIs
<1>7. TickOK' /\ tick'.ops = Taken(q)
  BY <1>2, <1>6 DEF TickOK
<1>8. Range(tick.ops) = {}
  BY <1>1 DEF TickOK, Range
<1>9. \A o \in Range(q.ops) \cup Range(tick.ops) \cup OpsIn(stack) : o \in Ways' \/ o.id \in lost'
  BY <1>2, <1>3, <1>6, <1>7, <1>8 DEF Ways, Touched
<1>10. \A o \in Range(tick'.ops) \cup OpsIn(stack') : o \in Range(q.ops) \cup Range(tick.ops) \cup OpsIn(stack)
  BY <1>3, <1>6, <1>7
<1>11. lost \subseteq lost' /\ StackOK(stack')
  BY <1>1, <1>2, <1>3
<1> QED
  BY <1>3, <1>4, <1>5, <1>7, <1>9, <1>10, <1>11, ScriptAction

LEMMA KeepsTickStart ==
    ASSUME WsAssumption, SocketInv, TickStart
    PROVE  SocketInv'
<1>1. PageOK(page) /\ TickOK /\ StackOK(stack)
  BY DEF SocketInv, PageInv
<1>2. /\ tick.st = "none" /\ tick' = [tick EXCEPT !.st = "running"]
      /\ UNCHANGED <<page, conn, seq, threads, pipe, ws, stack, lost>>
  BY DEF TickStart
<1>3. TickOK' /\ tick'.ops = tick.ops
  BY <1>1, <1>2 DEF TickOK
<1>4. Moves(page, page)
  BY <1>1, MovesNone
<1>5. \A o \in Range(page.ops) \cup Range(tick.ops) \cup OpsIn(stack) : o \in Ways' \/ o.id \in lost'
  BY <1>2, <1>3 DEF Ways
<1>6. \A o \in Range(tick'.ops) \cup OpsIn(stack') : o \in Range(page.ops) \cup Range(tick.ops) \cup OpsIn(stack)
  BY <1>2, <1>3
<1>7. StackOK(stack') /\ PageOK(page')
  BY <1>1, <1>2
<1> QED
  BY <1>2, <1>3, <1>4, <1>5, <1>6, <1>7, ScriptAction

LEMMA KeepsTickApply ==
    ASSUME WsAssumption, SocketInv, TickApply
    PROVE  SocketInv'
<1>1. PageOK(page) /\ TickOK /\ tick.ops \in Seq(OpSet)
  BY DEF SocketInv, PageInv, TickOK
<1>2. /\ stack = <<>> /\ tick' = [st |-> "none", ops |-> <<>>] /\ Applied(tick.ops, stack, {})
      /\ UNCHANGED <<page, conn, seq, threads, pipe, ws>>
  BY DEF TickApply, AtLoop
<1>3. StackOK(stack) /\ OpsIn(stack) = {} /\ EndsIn(stack) = {} /\ ReadsIn(stack) = {}
  BY <1>2, LoopIs
<1>4. TickOK' /\ tick'.ops = <<>>
  BY <1>2 DEF TickOK
<1>5. Range(tick'.ops) = {}
  BY <1>4 DEF Range
<1>6. Moves(page, page)
  BY <1>1, MovesNone
<1>7. /\ StackOK(stack') /\ EndsIn(stack') = EndsIn(stack) /\ ReadsIn(stack') = ReadsIn(stack)
      /\ OpsIn(stack) \subseteq OpsIn(stack')
      /\ \A x \in OpsIn(stack') : x \in OpsIn(stack) \/ x \in Range(tick.ops)
      /\ \A x \in Range(tick.ops) : x \in OpsIn(stack') \/ x.id \in lost'
      /\ lost \subseteq lost'
  BY <1>1, <1>2, <1>3, AppliedIs
<1>8. \A o \in Range(page.ops) \cup Range(tick.ops) \cup OpsIn(stack) : o \in Ways' \/ o.id \in lost'
  BY <1>2, <1>7 DEF Ways
<1>9. \A o \in Range(tick'.ops) \cup OpsIn(stack') : o \in Range(page.ops) \cup Range(tick.ops) \cup OpsIn(stack)
  BY <1>5, <1>7
<1>10. PageOK(page')
  BY <1>1, <1>2
<1> QED
  BY <1>2, <1>4, <1>6, <1>7, <1>8, <1>9, <1>10, ScriptAction

-----------------------------------------------------------------------------
(* A page whose load has run its scripts. *)
LEMMA Loaded ==
    ASSUME WsAssumption, NEW d \in 1 .. MaxDoc, NEW q \in Runs(NewPage(d, TRUE))
    PROVE  /\ PageOK(Emptied(q)) /\ Emptied(q).n = q.n /\ Emptied(q).doc = d /\ Range(Emptied(q).ops) = {}
           /\ StackOK(<<Apply(Taken(q))>>) /\ EndsIn(<<Apply(Taken(q))>>) = {}
           /\ ReadsIn(<<Apply(Taken(q))>>) = {}
           /\ \A o \in OpsIn(<<Apply(Taken(q))>>) : o.id <= q.n
           /\ \A E, c : \A j \in 1 .. q.n : j \notin Touched(Overflow(q)) =>
                  KeptIn(Emptied(q), OpsIn(<<Apply(Taken(q))>>), E, c, j)
<1> DEFINE p == NewPage(d, TRUE)
           s == <<Apply(Taken(q))>>
<1>1. PageOK(p) /\ p.n = 0 /\ p.doc = d /\ \A j \in Ids : p.rs[j] = CONNECTING
  BY NewPageOK
<1>2. Moves(p, q) /\ PageOK(q)
  BY <1>1, MovesRuns DEF Moves
<1> HIDE DEF p
<1>3. /\ PageOK(Emptied(q)) /\ Emptied(q).n = q.n /\ Emptied(q).doc = d /\ Emptied(q).rs = q.rs
      /\ Range(Emptied(q).ops) = {}
  BY <1>1, <1>2, EmptiedIs DEF Moves
<1>4. /\ Taken(q) \in Seq(OpSet) /\ Range(q.ops) = Range(Taken(q)) \cup Range(Overflow(q))
      /\ \A o \in Range(Taken(q)) : o.id <= q.n
  BY <1>2, TakenIs
<1>5. s = <<Apply(Taken(q))>> \o <<>>
  OBVIOUS
<1>6. StackOK(<<>>) /\ OpsIn(<<>>) = {} /\ EndsIn(<<>>) = {} /\ ReadsIn(<<>>) = {}
  BY StackEmpty
<1>7. StackOK(s) /\ EndsIn(s) = {} /\ ReadsIn(s) = {} /\ OpsIn(s) = Range(Taken(q))
  BY <1>4, <1>5, <1>6, ApplyOver
<1> HIDE DEF s
<1>8. ASSUME NEW E, NEW c, NEW j \in 1 .. q.n, j \notin Touched(Overflow(q))
      PROVE  KeptIn(Emptied(q), OpsIn(s), E, c, j)
  <2>1. j \in Ids /\ j > 0
    BY <1>2, PageFields
  <2>2. \A k \in {"open", "close"} : Op(k, j) \in Range(q.ops) => Op(k, j) \in OpsIn(s)
    BY <1>4, <1>7, <1>8, <2>1, OpIs DEF Touched
  <2>3. Op("open", j) \in OpsIn(s)
    BY <1>1, <1>2, <2>1, <2>2 DEF Moves
  <2>4. q.rs[j] = CONNECTING \/ (q.rs[j] = CLOSING /\ Op("close", j) \in OpsIn(s))
    BY <1>1, <1>2, <2>1, <2>2 DEF Moves
  <2> QED
    BY <1>3, <2>3, <2>4, States DEF KeptIn
<1> QED
  BY <1>3, <1>4, <1>7, <1>8 DEF s

LEMMA KeepsRenderPage ==
    ASSUME WsAssumption, SocketInv, RenderPage
    PROVE  SocketInv' /\ page'.doc # page.doc
<1>1. PageOK(page) /\ TickOK /\ OwnInv
  BY DEF SocketInv, PageInv
<1>2. /\ page.doc < MaxDoc /\ tick.st # "running" /\ tick' = Synced /\ CloseAll
      /\ UNCHANGED <<seq, threads, pipe>>
  BY DEF RenderPage
<1>3. page.doc + 1 \in 1 .. MaxDoc /\ page.doc \in Nat
  BY <1>1, <1>2, PageFields, Bounds
<1>4. PICK q \in Runs(NewPage(page.doc + 1, TRUE)) :
           /\ page' = Emptied(q) /\ stack' = <<Apply(Taken(q))>>
           /\ lost' = Touched(Overflow(q))
  BY DEF RenderPage
<1>5. /\ PageOK(page') /\ page'.n = q.n /\ page'.doc = page.doc + 1 /\ Range(page'.ops) = {}
      /\ StackOK(stack') /\ EndsIn(stack') = {} /\ ReadsIn(stack') = {}
      /\ \A o \in OpsIn(stack') : o.id <= q.n
      /\ \A E, c : \A j \in 1 .. q.n : j \notin lost' => KeptIn(page', OpsIn(stack'), E, c, j)
  BY <1>3, <1>4, Loaded
<1>6. OwnInv'
  BY <1>1, <1>2, OwnCloseAll
<1>7. HubOfPage'
  BY <1>2, HubEmpty
<1>8. TickOK' /\ tick'.ops = <<>>
  BY <1>1, <1>2, SyncedIs
<1>9. Range(tick'.ops) = {}
  BY <1>8 DEF Range
<1>10. PageInv' /\ ReadsOK'
  BY <1>5, <1>8, <1>9 DEF PageInv, ReadsOK
<1>11. NothingForgotten'
  <2>1. Ways' = OpsIn(stack')
    BY <1>5, <1>9 DEF Ways
  <2> QED
    BY <1>5, <2>1, RememberedNext DEF NothingForgotten
<1>12. page'.doc # page.doc
  BY <1>3, <1>5
<1> QED
  BY <1>6, <1>7, <1>10, <1>11, <1>12 DEF SocketInv

LEMMA SocketInit ==
    ASSUME WsAssumption, Init
    PROVE  SocketInv
<1>1. 1 \in 1 .. MaxDoc
  BY Bounds
<1>2. PICK q \in Runs(NewPage(1, TRUE)) :
          page = Emptied(q) /\ stack = <<Apply(Taken(q))>> /\ lost = Touched(Overflow(q))
  BY DEF Init
<1>3. conn = [s \in Slots |-> NoConn] /\ tick = [st |-> "none", ops |-> <<>>]
  BY DEF Init
<1>4. /\ PageOK(page) /\ page.n = q.n /\ Range(page.ops) = {}
      /\ StackOK(stack) /\ EndsIn(stack) = {} /\ ReadsIn(stack) = {}
      /\ \A o \in OpsIn(stack) : o.id <= q.n
      /\ \A E, c : \A j \in 1 .. q.n : j \notin lost => KeptIn(page, OpsIn(stack), E, c, j)
  BY <1>1, <1>2, Loaded
<1>5. OwnInv
  BY OwnInit
<1>6. TickOK /\ tick.ops = <<>>
  BY <1>3 DEF TickOK
<1>7. Range(tick.ops) = {}
  BY <1>6 DEF Range
<1>8. PageInv /\ ReadsOK
  BY <1>4, <1>6, <1>7 DEF PageInv, ReadsOK
<1>9. HubOfPage
  <2>1. \A s \in Slots : conn[s].st = "free"
    BY <1>3, NoConnIs
  <2> QED
    BY <2>1, HubIs
<1>10. NothingForgotten
  <2>1. Ways = OpsIn(stack)
    BY <1>4, <1>7 DEF Ways
  <2> QED
    BY <1>4, <2>1, RememberedIs DEF NothingForgotten
<1> QED
  BY <1>5, <1>8, <1>9, <1>10 DEF SocketInv

LEMMA SocketStep ==
    ASSUME WsAssumption, SocketInv, Next
    PROVE  SocketInv'
<1>1. CASE Calling
  BY <1>1, KeepsReturns, KeepsApplyOpen, KeepsApplyRefused, KeepsApplyClose, KeepsEmitStep, KeepsLeft,
     KeepsThreads, KeepsNotifyOpen, KeepsNotifyFailed, KeepsReadPart, KeepsReadMessage,
     KeepsReadClose, KeepsReadFail DEF Calling
<1>2. CASE Looping
  BY <1>2, KeepsPageOp, KeepsPageEval, KeepsTickStart, KeepsTickApply, KeepsLeft, KeepsRenderPage,
     KeepsNotify, KeepsReadable, KeepsThreads DEF Looping
<1>3. CASE Opening \/ TickRun
  BY <1>3, KeepsThreads, KeepsTickRun
<1> QED
  BY <1>1, <1>2, <1>3 DEF Next

LEMMA SocketIdle ==
    ASSUME WsAssumption, SocketInv, UNCHANGED vars
    PROVE  SocketInv'
<1>1. UNCHANGED <<page, conn, seq, threads, pipe, ws, stack, tick, lost>>
  BY DEF vars
<1>2. OwnInv'
  BY <1>1, OwnSame DEF SocketInv
<1> QED
  BY <1>1, <1>2, KeepsHidden

(* For any pages and sockets, any number of slots and any limits: a socket of the
   page that waits has what it waits for on its way, unless the code dropped it;
   every connection is owned by one slot, one thread or one result in the socket
   pair; and the hub holds nothing of a page that has gone. *)
THEOREM SocketsAlwaysKept == ASSUME WsAssumption PROVE Spec => []SocketsKept
<1>1. Init => SocketInv
  BY SocketInit
<1>2. SocketInv /\ [Next]_vars => SocketInv'
  BY SocketStep, SocketIdle
<1>3. SocketInv => SocketsKept
  BY OwnedOnce DEF SocketInv, SocketsKept
<1> QED
  BY <1>1, <1>2, <1>3, PTL DEF Spec

-----------------------------------------------------------------------------
(***************************************************************************)
(* readyState.                                                             *)
(***************************************************************************)
Forward ==
    page'.doc = page.doc =>
        \A i \in Ids \ lost' : page.rs[i] <= page'.rs[i] \/ Op("close", i) \in Range(page.ops)

LEMMA ForwardSame ==
    ASSUME WsAssumption, SocketInv, page'.rs = page.rs
    PROVE  Forward
<1>1. \A i \in Ids : page.rs[i] \in CONNECTING .. CLOSED
  BY PageFields DEF SocketInv, PageInv
<1> QED
  BY <1>1, States DEF Forward

LEMMA ForwardMoves ==
    ASSUME WsAssumption, SocketInv, NEW q, Moves(page, q), page'.rs = q.rs
    PROVE  Forward
<1>1. \A i \in Ids : page.rs[i] \in CONNECTING .. CLOSED
  BY PageFields DEF SocketInv, PageInv
<1>2. \A i \in Ids : q.rs[i] = page.rs[i] \/ (page.rs[i] \in {CONNECTING, OPEN} /\ q.rs[i] = CLOSING)
  BY DEF Moves
<1>3. \A i \in Ids : page.rs[i] <= q.rs[i]
  BY <1>1, <1>2, States
<1> QED
  BY <1>3 DEF Forward

LEMMA ForwardEmit ==
    ASSUME WsAssumption, SocketInv, NEW i \in Ids, NEW k, k # "open", NEW s, StackOK(s), Emit(i, k, s)
    PROVE  Forward
<1>1. \A j \in Ids : page.rs[j] <= page'.rs[j]
  BY EmitForward DEF SocketInv
<1> QED
  BY <1>1 DEF Forward

(* A connection that is ready while its socket is closing: the close() is still
   in the page's own queue, or the code has dropped it. *)
LEMMA ForwardNotifyOpen ==
    ASSUME WsAssumption, SocketInv, NotifyOpen
    PROVE  Forward
<1>1. PageInv /\ PageOK(page) /\ OwnInv /\ StackOK(stack) /\ NothingForgotten /\ HubOfPage
  BY DEF SocketInv, PageInv
<1> DEFINE i == Head(pipe).id
<1>2. PICK r \in OwnSlot(Head(pipe)) : TRUE
  BY DEF NotifyOpen
<1>3. pipe # <<>> /\ Emit(i, "open", stack) /\ Top("notify")
  BY DEF NotifyOpen
<1>4. r \in Slots /\ conn[r].st = "pending" /\ conn[r].id = i /\ i \in Ids
  BY <1>1, <1>3, OwnSlotIs
<1>5. page.alive /\ i <= page.n
  BY <1>1, <1>4, HubIs
<1> HIDE DEF i
<1>6. /\ \A j \in Ids : \/ page.rs[j] <= page'.rs[j]
                        \/ j = i /\ page.rs[i] = CLOSING
      /\ lost \subseteq lost' /\ \A o \in Range(tick.ops) : o.id \in lost'
  BY <1>1, <1>3, <1>4, <1>5, EmitForward
<1>7. OpsIn(stack) = {} /\ EndsIn(stack) = {}
  <2> DEFINE g == "notify"
  <2>1. Top(g)
    BY <1>3
  <2> HIDE DEF g
  <2>2. /\ Head(stack).f = g /\ FrameOK(Head(stack), Rest)
        /\ OpsIn(stack) = (IF g = "apply" THEN Range(Head(stack).ops) ELSE {}) \cup OpsIn(Rest)
        /\ EndsIn(stack) = (IF g = "emit" THEN {Head(stack).id} ELSE {}) \cup EndsIn(Rest)
    BY <1>1, <2>1, TopIs
  <2>3. FrameOK(Head(stack), Rest) /\ OpsIn(stack) = OpsIn(Rest) /\ EndsIn(stack) = EndsIn(Rest)
        /\ Head(stack).f = "notify"
    BY <2>2 DEF g
  <2>4. Rest = <<>>
    BY <2>3 DEF FrameOK
  <2> QED
    BY <2>3, <2>4, StackEmpty
<1>8. ASSUME i \notin lost', page.rs[i] = CLOSING PROVE Op("close", i) \in Range(page.ops)
  <2>1. i \in 1 .. page.n /\ i \notin lost
    BY <1>1, <1>4, <1>5, <1>6, <1>8, PageFields
  <2>2. KeptIn(page, Ways, EndsIn(stack), conn, i)
    BY <1>1, <1>5, <2>1, RememberedIs DEF NothingForgotten
  <2>3. Op("close", i) \in Ways /\ Op("close", i).id = i
    BY <1>4, <1>7, <1>8, <2>2, OpIs DEF KeptIn
  <2> QED
    BY <1>6, <1>7, <1>8, <2>3 DEF Ways
<1> QED
  BY <1>6, <1>8 DEF Forward

LEMMA ForwardCalling ==
    ASSUME WsAssumption, SocketInv, Calling
    PROVE  Forward
<1>1. PageInv /\ PageOK(page) /\ OwnInv /\ StackOK(stack)
  BY DEF SocketInv, PageInv
<1>2. CASE ApplyEnd \/ ApplyOpen \/ NotifyEnd \/ NotifyLate \/ ReadEnd \/ ReadPart
  <2>1. page' = page
    BY <1>2 DEF ApplyEnd, ApplyOpen, NotifyEnd, NotifyLate, ReadEnd, ReadPart
  <2> QED
    BY <2>1, ForwardSame
<1>3. CASE LeaveStep
  <2>1. page'.rs = page.rs
    BY <1>1, <1>3 DEF LeaveStep, PageOK, PageSet
  <2> QED
    BY <2>1, ForwardSame
<1>4. CASE ApplyRefused
  <2>1. /\ CurOp.id \in Ids /\ StackOK(ApplyRest)
    BY <1>1, <1>4, ApplyingIs DEF ApplyRefused
  <2>2. StackOK(<<EmitClose(CurOp.id)>> \o ApplyRest)
    BY <2>1, EmitOver
  <2> QED
    BY <1>4, <2>1, <2>2, ForwardEmit DEF ApplyRefused
<1>5. CASE ApplyClose
  <2>1. /\ CurOp.id \in Ids /\ StackOK(ApplyRest)
    BY <1>1, <1>5, ApplyingIs DEF ApplyClose
  <2> QED
    BY <1>5, <2>1, ForwardEmit DEF ApplyClose
<1>6. CASE EmitStep
  <2>1. Head(stack).id \in Ids /\ StackOK(Rest)
    BY <1>1, <1>6, TopIs DEF EmitStep, FrameOK
  <2> QED
    BY <1>6, <2>1, ForwardEmit DEF EmitStep
<1>7. CASE NotifyFailed
  <2>1. PICK r \in OwnSlot(Head(pipe)) : TRUE
    BY <1>7 DEF NotifyFailed
  <2>2. Head(pipe).id \in Ids
    BY <1>1, <1>7, <2>1, OwnSlotIs DEF NotifyFailed
  <2>3. StackOK(<<EmitClose(Head(pipe).id)>> \o stack)
    BY <1>1, <2>2, EmitOver
  <2> QED
    BY <1>7, <2>2, <2>3, ForwardEmit DEF NotifyFailed
<1>8. CASE ReadMessage \/ ReadClose \/ ReadFail
  <2>1. Top("read")
    BY <1>8 DEF ReadMessage, ReadClose, ReadFail, Reading
  <2>2. Head(stack).id \in Ids /\ StackOK(Rest) /\ StackOK(Again)
    BY <2>1, ReadingIs, AgainIs
  <2>3. StackOK(<<EmitClose(Head(stack).id)>> \o Rest)
    BY <2>2, EmitOver
  <2> QED
    BY <1>8, <2>2, <2>3, ForwardEmit DEF ReadMessage, ReadClose, ReadFail
<1> QED
  BY <1>2, <1>3, <1>4, <1>5, <1>6, <1>7, <1>8, ForwardNotifyOpen DEF Calling

LEMMA ForwardLooping ==
    ASSUME WsAssumption, SocketInv, Looping \/ Opening \/ TickRun
    PROVE  Forward
<1>1. PageOK(page)
  BY DEF SocketInv, PageInv
<1>2. CASE TickStart \/ TickApply \/ Notify \/ (\E i \in Ids : Readable(i)) \/ Drain \/ Drained \/ Idle \/ Opening
  <2>1. page' = page
    BY <1>2 DEF TickStart, TickApply, Notify, Readable, Drain, Drained, Idle, Opening, Opened, HandOver, vars
  <2> QED
    BY <2>1, ForwardSame
<1>3. CASE Leave \/ Exit
  <2>1. page'.rs = page.rs
    BY <1>1, <1>3 DEF Leave, Exit, PageOK, PageSet
  <2> QED
    BY <2>1, ForwardSame
<1>4. CASE RenderPage
  BY <1>4, KeepsRenderPage DEF Forward
<1>5. CASE PageOp \/ TickRun
  <2>1. PICK q \in Runs(page) : page' = Emptied(q)
    BY <1>5 DEF PageOp, TickRun, Answer
  <2>2. Moves(page, q)
    BY <1>1, MovesRuns
  <2>3. page'.rs = q.rs
    BY <2>1, <2>2, EmptiedIs DEF Moves
  <2> QED
    BY <2>2, <2>3, ForwardMoves
<1>6. CASE PageEval
  <2>1. PICK q \in Runs(page) : page' = q
    BY <1>6 DEF PageEval
  <2>2. Moves(page, q)
    BY <1>1, MovesRuns
  <2> QED
    BY <2>1, <2>2, ForwardMoves
<1> QED
  BY <1>2, <1>3, <1>4, <1>5, <1>6 DEF Looping

(* Whatever the order of late results, handlers and closes, the readyState of a
   socket moves forward, but for a close() that the code dropped or that still
   waits in the page for its next answer. *)
THEOREM StatesMoveForward == ASSUME WsAssumption PROVE Spec => ReadyStateForward
<1>1. Init => SocketInv
  BY SocketInit
<1>2. SocketInv /\ [Next]_vars => SocketInv'
  BY SocketStep, SocketIdle
<1>3. SocketInv /\ [Next]_vars => [Forward]_vars
  BY ForwardCalling, ForwardLooping DEF Next
<1>4. Spec => [][Forward]_vars
  BY <1>1, <1>2, <1>3, PTL DEF Spec
<1> QED
  BY <1>4 DEF ReadyStateForward, Forward
=============================================================================
