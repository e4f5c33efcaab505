---------------------------- MODULE Window_proofs ----------------------------
(***************************************************************************)
(* Proofs about what the window keeps for the user and does for a page, for *)
(* every value of the constants: the profile on the disk (Profile), the    *)
(* requests of a page's handlers (PageEvents) and the controls of its forms *)
(* (FormInput).                                                            *)
(***************************************************************************)
EXTENDS Window, WellFoundedInduction, SequenceTheorems, TLAPS

(***************************************************************************)
(* Profile.  The history is what was visited, and a profile that was saved *)
(* opens again, through any number of saves, loads and stops of the        *)
(* machine; the file, its temporary copy and the key are one register.     *)
(***************************************************************************)
(* A set of numbers that is not empty has a least one, and from it induction. *)
LEMMA NatMin ==
    ASSUME NEW T \in SUBSET Nat, T # {}
    PROVE  \E x \in T : \A y \in T : x <= y
<1> DEFINE R == OpToRel(<, Nat)
<1>1. \A u, v \in Nat : u < v => <<u, v>> \in R
  BY DEF OpToRel
<1>2. IsWellFoundedOn(R, Nat)
  BY NatLessThanWellFounded
<1> HIDE DEF R
<1>3. PICK x \in T : \A y \in T : ~(<<y, x>> \in R)
  BY <1>2, WFMin
<1>4. \A y \in T : ~(y < x)
  BY <1>1, <1>3
<1>5. \A y \in T : x <= y
  BY <1>4
<1> QED
  BY <1>5

LEMMA Induction ==
    ASSUME NEW T \in SUBSET Nat, 0 \in T, \A n \in T : n + 1 \in T
    PROVE  T = Nat
<1> SUFFICES ASSUME T # Nat PROVE FALSE
  OBVIOUS
<1>1. PICK x \in Nat \ T : \A y \in Nat \ T : x <= y
  BY NatMin
<1>2. x # 0
  OBVIOUS
<1>3. x - 1 \in Nat /\ x - 1 \notin Nat \ T /\ (x - 1) + 1 = x
  BY <1>1, <1>2
<1> QED
  BY <1>3, <1>1


(* A bounded set of numbers has a greatest one. *)
LEMMA NatMax ==
    ASSUME NEW n \in Nat, NEW T \in SUBSET (1 .. n), T # {}
    PROVE  \E x \in T : \A y \in T : y <= x
<1> DEFINE U == {k \in Nat : \A y \in T : y <= k}
<1>1. n \in U
  OBVIOUS
<1>2. U \in SUBSET Nat
  OBVIOUS
<1> HIDE DEF U
<1>3. PICK x \in U : \A y \in U : x <= y
  BY <1>1, <1>2, NatMin
<1> USE DEF U
<1>4. \A y \in T : y <= x /\ x \in Nat
  BY <1>3
<1>5. x \in T
  <2> SUFFICES ASSUME x \notin T PROVE FALSE
    OBVIOUS
  <2>1. PICK y \in T : TRUE
    OBVIOUS
  <2>2. x >= 1 /\ x - 1 \in Nat
    BY <1>4, <2>1
  <2>3. x - 1 \in U
    BY <1>4, <2>2
  <2> QED
    BY <1>3, <2>2, <2>3
<1> QED
  BY <1>4, <1>5

(* What SelectInSeq finds: the first place of a page, or 0. *)
LEMMA PageFound ==
    ASSUME NEW s, Len(s) \in Nat, NEW u
    PROVE  LET k == SelectInSeq(s, LAMBDA x : x = u)
           IN  \/ k = 0 /\ \A i \in 1 .. Len(s) : s[i] # u
               \/ k \in 1 .. Len(s) /\ s[k] = u /\ \A i \in 1 .. k - 1 : s[i] # u
<1> DEFINE I == {i \in 1 .. Len(s) : s[i] = u}
<1>1. SelectInSeq(s, LAMBDA x : x = u) = IF I # {} THEN Min(I) ELSE 0
  BY DEF SelectInSeq
<1>2. CASE I = {}
  BY <1>1, <1>2
<1>3. CASE I # {}
  <2>0. I \in SUBSET Nat
    OBVIOUS
  <2> HIDE DEF I
  <2>1. \E x \in I : \A y \in I : x <= y
    BY <1>3, <2>0, NatMin
  <2> USE DEF I
  <2>2. Min(I) \in I /\ \A y \in I : Min(I) <= y
    BY <2>1 DEF Min
  <2> DEFINE m == Min(I)
  <2>3. m \in I /\ \A y \in I : m <= y
    BY <2>2
  <2> HIDE DEF m
  <2>4. m \in 1 .. Len(s) /\ s[m] = u
    BY <2>3
  <2>5. ASSUME NEW i \in 1 .. m - 1 PROVE s[i] # u
    BY <2>3, <2>4
  <2>6. SelectInSeq(s, LAMBDA x : x = u) = m
    BY <1>1, <1>3 DEF m
  <2> QED
    BY <2>4, <2>5, <2>6
<1> QED
  BY <1>2, <1>3

(* RemoveAt closes the gap: what was behind moves up one place. *)
LEMMA Removed ==
    ASSUME NEW S, NEW s \in Seq(S), NEW at \in 1 .. Len(s), NEW rest, rest = RemoveAt(s, at)
    PROVE  /\ rest \in Seq(S) /\ Len(rest) = Len(s) - 1
           /\ \A i \in 1 .. Len(rest) : rest[i] = IF i < at THEN s[i] ELSE s[i + 1]
<1> DEFINE a == SubSeq(s, 1, at - 1)
           b == SubSeq(s, at + 1, Len(s))
<1>2. a \in Seq(S) /\ Len(a) = at - 1 /\ \A i \in 1 .. at - 1 : a[i] = s[i]
  OBVIOUS
<1>3. b \in Seq(S) /\ Len(b) = Len(s) - at /\ \A i \in 1 .. Len(s) - at : b[i] = s[at + i]
  OBVIOUS
<1>4. rest = a \o b
  BY DEF RemoveAt
<1> HIDE DEF a, b
<1>5. rest \in Seq(S) /\ Len(rest) = Len(s) - 1
  <2>1. rest \in Seq(S) /\ Len(rest) = Len(a) + Len(b)
    BY <1>2, <1>3, <1>4, ConcatProperties
  <2> QED
    BY <1>2, <1>3, <2>1
<1>6. ASSUME NEW i \in 1 .. Len(rest) PROVE rest[i] = IF i < at THEN s[i] ELSE s[i + 1]
  <2>1. CASE i < at
    <3>1. i \in 1 .. Len(a) /\ rest[i] = a[i]
      BY <1>2, <1>3, <1>4, <1>5, <2>1
    <3> QED
      BY <1>2, <2>1, <3>1
  <2>2. CASE ~(i < at)
    <3>1. i - (at - 1) \in 1 .. Len(b) /\ rest[i] = b[i - (at - 1)]
      BY <1>2, <1>3, <1>4, <1>5, <2>2
    <3>2. at + (i - (at - 1)) = i + 1
      BY <1>5
    <3> QED
      BY <1>3, <2>2, <3>1, <3>2
  <2> QED
    BY <2>1, <2>2
<1> QED
  BY <1>5, <1>6

OnceEach(s) == \A i, j \in 1 .. Len(s) : s[i] = s[j] => i = j

(* A first part of a sequence grows by the next element, which is new to it. *)
LEMMA SubSeqGrows ==
    ASSUME NEW S, NEW s \in Seq(S), NEW i \in Nat, i < Len(s)
    PROVE  /\ Append(SubSeq(s, 1, i), s[i + 1]) = SubSeq(s, 1, i + 1)
           /\ Len(SubSeq(s, 1, i)) = i
           /\ OnceEach(s) => ~Contains(SubSeq(s, 1, i), s[i + 1])
<1> DEFINE a == SubSeq(s, 1, i)
           b == SubSeq(s, 1, i + 1)
           c == Append(a, s[i + 1])
<1>1. a \in Seq(S) /\ Len(a) = i /\ \A k \in 1 .. i : a[k] = s[k]
  OBVIOUS
<1>2. b \in Seq(S) /\ Len(b) = i + 1 /\ \A k \in 1 .. i + 1 : b[k] = s[k]
  OBVIOUS
<1>3. s[i + 1] \in S
  OBVIOUS
<1> HIDE DEF a, b
<1>4. c \in Seq(S) /\ Len(c) = i + 1 /\ \A k \in 1 .. i + 1 : c[k] = IF k <= i THEN a[k] ELSE s[i + 1]
  BY <1>1, <1>3
<1> HIDE DEF c
<1>5. \A k \in 1 .. i + 1 : c[k] = b[k]
  BY <1>1, <1>2, <1>4
<1>6. c = b
  BY <1>2, <1>4, <1>5, SeqEqual
<1>7. OnceEach(s) => ~Contains(a, s[i + 1])
  BY <1>1 DEF OnceEach, Contains
<1> QED
  BY <1>1, <1>6, <1>7 DEF a, b, c

LEMMA SubSeqEnds ==
    ASSUME NEW S, NEW s \in Seq(S)
    PROVE  SubSeq(s, 1, 0) = <<>> /\ SubSeq(s, 1, Len(s)) = s
  OBVIOUS

(* prefs_parse is a fold: what is read after each line follows from the line before. *)
LEMMA ParseSteps ==
    ASSUME NEW text, Len(text) \in Nat
    PROVE  \E f : /\ f[0] = Defaults /\ Parse(text) = f[Len(text)]
                  /\ \A k \in 1 .. Len(text) : f[k] = ParseLine(f[k - 1], text[k])
<1> DEFINE N == Len(text)
           R(x, k) == ParseLine(x, text[k])
<1>r. Parse(text) = LET upTo[k \in 0 .. N] == IF k = 0 THEN Defaults ELSE R(upTo[k - 1], k)
                    IN  upTo[N]
  BY DEF Parse
<1>n. N \in Nat
  OBVIOUS
<1>z. \A x, k : R(x, k) = ParseLine(x, text[k])
  OBVIOUS
<1> HIDE DEF R, N
<1> DEFINE P(f, m) == f = [k \in 0 .. m |-> IF k = 0 THEN Defaults ELSE R(f[k - 1], k)]
           T == {m \in Nat : \E f : P(f, m)}
<1>1. 0 \in T
  <2> DEFINE f == [k \in 0 .. 0 |-> Defaults]
  <2>1. P(f, 0)
    OBVIOUS
  <2> QED
    BY <2>1
<1>2. ASSUME NEW n \in T PROVE n + 1 \in T
  <2>1. PICK f : P(f, n)
    OBVIOUS
  <2>n. n \in Nat
    OBVIOUS
  <2> DEFINE last == R(f[n], n + 1)
             h == [k \in 0 .. n + 1 |-> IF k = n + 1 THEN last ELSE f[k]]
  <2>l. last = R(f[n], n + 1)
    OBVIOUS
  <2> HIDE DEF last
  <2>2. ASSUME NEW k \in 0 .. n + 1 PROVE h[k] = IF k = 0 THEN Defaults ELSE R(h[k - 1], k)
    <3>1. CASE k = 0
      BY <2>1, <2>n, <3>1
    <3>2. CASE k = n + 1
      <4>1. h[k] = last /\ k - 1 \in 0 .. n + 1 /\ h[k - 1] = f[n] /\ k # 0
        BY <2>n, <3>2
      <4> QED
        BY <4>1, <2>l, <3>2
    <3>3. CASE k # 0 /\ k # n + 1
      <4>1. k \in 0 .. n /\ k - 1 \in 0 .. n + 1 /\ k - 1 # n + 1
        BY <2>n, <3>3
      <4>2. h[k] = f[k] /\ h[k - 1] = f[k - 1]
        BY <4>1, <3>3
      <4>3. f[k] = R(f[k - 1], k)
        BY <2>1, <4>1, <3>3
      <4> QED
        BY <4>2, <4>3, <3>3
    <3> QED
      BY <3>1, <3>2, <3>3
  <2>3. P(h, n + 1)
    BY <2>2
  <2>4. n + 1 \in Nat
    BY <2>n
  <2> QED
    BY <2>3, <2>4
<1>3. T = Nat
  <2> HIDE DEF T
  <2>1. T \in SUBSET Nat
    BY DEF T
  <2> QED
    BY <1>1, <1>2, <2>1, Induction
<1>4. \E f : P(f, N)
  BY <1>3, <1>n
<1> DEFINE g == CHOOSE f : P(f, N)
<1>5. P(g, N)
  BY <1>4
<1>6. Parse(text) = g[N]
  BY <1>r
<1> HIDE DEF g
<1>7. g[0] = Defaults
  BY <1>5, <1>n
<1>8. ASSUME NEW k \in 1 .. N PROVE g[k] = ParseLine(g[k - 1], text[k])
  BY <1>5, <1>n, <1>z
<1> QED
  BY <1>6, <1>7, <1>8 DEF N

PrefsType == [zoom : Zooms, rem : BOOLEAN, bookmarks : Seq(URLs), history : Seq(URLs), visits : Seq(URLs)]

(* The preferences a session can have. *)
Good(p) ==
    /\ p \in PrefsType
    /\ Len(p.bookmarks) <= MaxBookmarks /\ OnceEach(p.bookmarks)
    /\ OnceEach(p.history) /\ Recent(p.history, p.visits)

(* The lines of prefs_format: the settings, the bookmarks, then the history. *)
LEMMA FormatIs ==
    ASSUME NEW p, Good(p)
    PROVE  LET t == Format(p)
               B == Len(p.bookmarks)
               H == Len(p.history)
           IN  /\ Len(t) = 2 + B + H
               /\ t[1] = [is |-> "zoom", of |-> p.zoom]
               /\ t[2] = [is |-> "remhist", of |-> p.rem]
               /\ \A i \in 1 .. B : t[2 + i] = [is |-> "b", of |-> p.bookmarks[i]]
               /\ \A i \in 1 .. H : t[2 + B + i] = [is |-> "h", of |-> p.history[i]]
<1> DEFINE B == Len(p.bookmarks)
           H == Len(p.history)
           bline(k) == [is |-> "b", of |-> p.bookmarks[k]]
           hline(k) == [is |-> "h", of |-> p.history[k]]
           z == [is |-> "zoom", of |-> p.zoom]
           r == [is |-> "remhist", of |-> p.rem]
           first == <<z, r>>
           bs == [k \in 1 .. B |-> bline(k)]
           hs == [k \in 1 .. H |-> hline(k)]
           S == {z, r} \cup {bline(k) : k \in 1 .. B} \cup {hline(k) : k \in 1 .. H}
<1>1. B \in Nat /\ H \in Nat
  BY DEF Good, PrefsType
<1>2. Format(p) = (first \o bs) \o hs
  BY DEF Format
<1>b. \A k \in 1 .. B : bline(k) \in S
  OBVIOUS
<1>h. \A k \in 1 .. H : hline(k) \in S
  OBVIOUS
<1>z. z \in S /\ r \in S
  OBVIOUS
<1> HIDE DEF B, H, bline, hline, z, r, S
<1>3. first \in Seq(S) /\ Len(first) = 2 /\ first[1] = z /\ first[2] = r
  BY <1>z
<1>4. bs \in Seq(S) /\ Len(bs) = B /\ \A k \in 1 .. B : bs[k] = bline(k)
  BY <1>1, <1>b
<1>5. hs \in Seq(S) /\ Len(hs) = H /\ \A k \in 1 .. H : hs[k] = hline(k)
  BY <1>1, <1>h
<1> HIDE DEF first, bs, hs
<1> DEFINE u == first \o bs
           t == u \o hs
<1>6. u \in Seq(S) /\ Len(u) = 2 + B
  <2>1. u \in Seq(S) /\ Len(u) = Len(first) + Len(bs)
    BY <1>3, <1>4, ConcatProperties
  <2> QED
    BY <1>3, <1>4, <2>1
<1>7. u[1] = z /\ u[2] = r /\ \A i \in 1 .. B : u[2 + i] = bline(i)
  <2>0. \A i \in 1 .. Len(first) + Len(bs) : u[i] = IF i <= Len(first) THEN first[i] ELSE bs[i - Len(first)]
    <3>1. \A i \in 1 .. Len(first) + Len(bs) : (first \o bs)[i] = IF i <= Len(first) THEN first[i] ELSE bs[i - Len(first)]
      BY <1>3, <1>4, ConcatProperties
    <3> QED
      BY <3>1
  <2>1. u[1] = first[1] /\ u[2] = first[2]
    <3>1. 1 \in 1 .. Len(first) + Len(bs) /\ 2 \in 1 .. Len(first) + Len(bs) /\ 1 <= Len(first) /\ 2 <= Len(first)
      BY <1>1, <1>3, <1>4
    <3> QED
      BY <2>0, <3>1
  <2>2. ASSUME NEW i \in 1 .. B PROVE u[2 + i] = bs[i]
    <3>1. 2 + i \in 1 .. Len(first) + Len(bs) /\ ~(2 + i <= Len(first)) /\ (2 + i) - Len(first) = i
      BY <1>1, <1>3, <1>4
    <3> QED
      BY <2>0, <3>1
  <2> QED
    BY <1>3, <1>4, <2>1, <2>2
<1> HIDE DEF u
<1>8. t \in Seq(S) /\ Len(t) = 2 + B + H
  <2>1. t \in Seq(S) /\ Len(t) = Len(u) + Len(hs)
    BY <1>5, <1>6, ConcatProperties
  <2> QED
    BY <1>1, <1>5, <1>6, <2>1
<1>9. \A i \in 1 .. 2 + B : t[i] = u[i]
  BY <1>1, <1>5, <1>6
<1>10. \A i \in 1 .. H : t[2 + B + i] = hs[i]
  BY <1>1, <1>5, <1>6
<1> HIDE DEF t
<1>11. t[1] = z /\ t[2] = r
  BY <1>1, <1>7, <1>9
<1>12. \A i \in 1 .. B : t[2 + i] = bline(i)
  BY <1>1, <1>7, <1>9
<1>13. \A i \in 1 .. H : t[2 + B + i] = hline(i)
  BY <1>5, <1>10
<1>14. Format(p) = t
  BY <1>2 DEF t, u
<1> QED
  BY <1>8, <1>11, <1>12, <1>13, <1>14 DEF B, H, z, r, bline, hline

(* What is sealed is read back as it was: the text keeps all of it. *)
LEMMA RoundTrip ==
    ASSUME ProfileAssumption, NEW p, Good(p)
    PROVE  [Parse(Format(p)) EXCEPT !.visits = p.visits] = p
<1> DEFINE B == Len(p.bookmarks)
           H == Len(p.history)
           t == Format(p)
           zoomAt(k) == IF k < 1 THEN DefaultZoom ELSE p.zoom
           remAt(k) == IF k < 2 THEN TRUE ELSE p.rem
           bs(k) == IF k < 2 THEN 0 ELSE IF k <= 2 + B THEN k - 2 ELSE B
           hs(k) == IF k <= 2 + B THEN 0 ELSE k - (2 + B)
           Q(z, r, b, h) == [zoom |-> z, rem |-> r, bookmarks |-> SubSeq(p.bookmarks, 1, b),
                             history |-> SubSeq(p.history, 1, h), visits |-> <<>>]
           E(k) == Q(zoomAt(k), remAt(k), bs(k), hs(k))
<1>p. /\ p.bookmarks \in Seq(URLs) /\ p.history \in Seq(URLs) /\ B \in Nat /\ H \in Nat
      /\ B <= MaxBookmarks /\ H <= MaxHistory /\ MaxBookmarks \in Nat /\ MaxHistory \in Nat
      /\ OnceEach(p.bookmarks) /\ OnceEach(p.history)
  BY DEF Good, PrefsType, Recent, ProfileAssumption
<1>t. /\ Len(t) = 2 + B + H
      /\ t[1] = [is |-> "zoom", of |-> p.zoom]
      /\ t[2] = [is |-> "remhist", of |-> p.rem]
      /\ \A i \in 1 .. B : t[2 + i] = [is |-> "b", of |-> p.bookmarks[i]]
      /\ \A i \in 1 .. H : t[2 + B + i] = [is |-> "h", of |-> p.history[i]]
  BY FormatIs
<1> HIDE DEF t, B, H
<1>l. Len(t) \in Nat
  BY <1>p, <1>t
<1>f. PICK f : /\ f[0] = Defaults /\ Parse(t) = f[Len(t)]
               /\ \A k \in 1 .. Len(t) : f[k] = ParseLine(f[k - 1], t[k])
  BY <1>l, ParseSteps
<1> DEFINE N == 2 + B + H
           T == {k \in Nat : k <= N => f[k] = E(k)}
<1>N. N \in Nat /\ N = Len(t)
  BY <1>p, <1>t
<1>e. \A k : E(k) = Q(zoomAt(k), remAt(k), bs(k), hs(k))
  OBVIOUS
<1>q. \A z, r, b, h : Q(z, r, b, h) =
         [zoom |-> z, rem |-> r, bookmarks |-> SubSeq(p.bookmarks, 1, b),
          history |-> SubSeq(p.history, 1, h), visits |-> <<>>]
  OBVIOUS
<1> HIDE DEF E, Q, N
<1>0. 0 \in T
  <2>1. SubSeq(p.bookmarks, 1, 0) = <<>> /\ SubSeq(p.history, 1, 0) = <<>>
    BY <1>p, SubSeqEnds
  <2>2. zoomAt(0) = DefaultZoom /\ remAt(0) = TRUE /\ bs(0) = 0 /\ hs(0) = 0
    BY <1>p
  <2>3. E(0) = Defaults
    BY <2>1, <2>2, <1>e, <1>q DEF Defaults
  <2> QED
    BY <1>f, <2>3
<1>1. ASSUME NEW k \in T PROVE k + 1 \in T
  <2>k. k \in Nat /\ (k <= N => f[k] = E(k))
    OBVIOUS
  <2> SUFFICES ASSUME k + 1 <= N PROVE f[k + 1] = E(k + 1)
    BY <2>k
  <2>1. /\ k \in Nat /\ f[k] = E(k) /\ k + 1 \in 1 .. Len(t) /\ (k + 1) - 1 = k
    BY <1>N, <2>k
  <2>N. k + 1 <= 2 + B + H
    BY DEF N
  <2>2. f[k + 1] = ParseLine(E(k), t[k + 1])
    BY <1>f, <2>1
  <2>3. CASE k = 0
    <3>1. t[k + 1] = [is |-> "zoom", of |-> p.zoom]
      BY <1>t, <2>3
    <3>2. bs(k) = 0 /\ bs(k + 1) = 0 /\ hs(k) = 0 /\ hs(k + 1) = 0
          /\ zoomAt(k + 1) = p.zoom /\ remAt(k) = remAt(k + 1)
      BY <1>p, <2>3
    <3> HIDE DEF bs, hs, zoomAt, remAt
    <3>3. f[k + 1] = [E(k) EXCEPT !.zoom = p.zoom]
      BY <2>2, <3>1 DEF ParseLine
    <3> QED
      BY <3>2, <3>3, <1>e, <1>q
  <2>4. CASE k = 1
    <3>1. t[k + 1] = [is |-> "remhist", of |-> p.rem]
      BY <1>t, <2>4
    <3>2. bs(k) = 0 /\ bs(k + 1) = 0 /\ hs(k) = 0 /\ hs(k + 1) = 0
          /\ zoomAt(k + 1) = zoomAt(k) /\ remAt(k + 1) = p.rem
      BY <1>p, <2>4
    <3> HIDE DEF bs, hs, zoomAt, remAt
    <3>3. f[k + 1] = [E(k) EXCEPT !.rem = p.rem]
      BY <2>2, <3>1 DEF ParseLine
    <3> QED
      BY <3>2, <3>3, <1>e, <1>q
  <2>5. CASE k >= 2 /\ k < 2 + B
    <3> DEFINE i == k - 2
    <3>0. i \in Nat /\ i < B /\ i + 1 \in 1 .. B /\ 2 + (i + 1) = k + 1
      BY <1>p, <2>1, <2>5, SMTT(20)
    <3>1. t[k + 1] = [is |-> "b", of |-> p.bookmarks[i + 1]]
      BY <1>t, <3>0
    <3>2. bs(k) = i /\ bs(k + 1) = i + 1 /\ hs(k) = 0 /\ hs(k + 1) = 0
          /\ zoomAt(k + 1) = zoomAt(k) /\ remAt(k + 1) = remAt(k)
      <4>1. zoomAt(k + 1) = zoomAt(k) /\ remAt(k + 1) = remAt(k)
        <5>1. ~(k < 1) /\ ~(k < 2) /\ ~(k + 1 < 1) /\ ~(k + 1 < 2)
          BY <2>1, <1>p, <2>5
        <5> QED
          BY <5>1, Zenon
      <4>2. bs(k) = i
        BY <2>1, <1>p, <2>5
      <4>3. bs(k + 1) = i + 1
        BY <2>1, <1>p, <2>5
      <4>4. hs(k) = 0 /\ hs(k + 1) = 0
        BY <2>1, <1>p, <2>5
      <4> QED
        BY <4>1, <4>2, <4>3, <4>4
    <3> HIDE DEF bs, hs, zoomAt, remAt, i
    <3> DEFINE a == SubSeq(p.bookmarks, 1, i)
    <3>3. Append(a, p.bookmarks[i + 1]) = SubSeq(p.bookmarks, 1, i + 1) /\ Len(a) = i
          /\ ~Contains(a, p.bookmarks[i + 1])
      BY <1>p, <3>0, SubSeqGrows DEF B, H
    <3>4. E(k).bookmarks = a
      BY <3>2, <1>e, <1>q
    <3>5. ~(Len(a) >= MaxBookmarks)
      BY <1>p, <3>0, <3>3
    <3> HIDE DEF a
    <3> DEFINE x == p.bookmarks[i + 1]
               l == t[k + 1]
    <3>6. l.is = "b" /\ l.of = x
      BY <3>1
    <3>7. f[k + 1] = ParseLine(E(k), l) /\ ~Contains(E(k).bookmarks, x) /\ ~(Len(E(k).bookmarks) >= MaxBookmarks)
      BY <2>2, <3>3, <3>4, <3>5
    <3> HIDE DEF x, l
    <3>8. f[k + 1] = [E(k) EXCEPT !.bookmarks = Append(E(k).bookmarks, x)]
      BY <3>6, <3>7 DEF ParseLine
    <3>9. Append(E(k).bookmarks, x) = SubSeq(p.bookmarks, 1, i + 1)
      BY <3>3, <3>4 DEF x
    <3>10. f[k + 1] = [E(k) EXCEPT !.bookmarks = SubSeq(p.bookmarks, 1, i + 1)]
      BY <3>8, <3>9
    <3> QED
      BY <3>2, <3>10, <1>e, <1>q
  <2>6. CASE k >= 2 + B
    <3> DEFINE i == k - (2 + B)
    <3>0. i \in Nat /\ i < H /\ i + 1 \in 1 .. H /\ 2 + B + (i + 1) = k + 1
      BY <1>p, <2>1, <2>6, <2>N
    <3>1. t[k + 1] = [is |-> "h", of |-> p.history[i + 1]]
      BY <1>t, <3>0
    <3>2. hs(k) = i /\ hs(k + 1) = i + 1 /\ bs(k) = B /\ bs(k + 1) = B
          /\ zoomAt(k + 1) = zoomAt(k) /\ remAt(k + 1) = remAt(k)
      <4>1. zoomAt(k + 1) = zoomAt(k) /\ remAt(k + 1) = remAt(k)
        <5>1. ~(k < 1) /\ ~(k < 2) /\ ~(k + 1 < 1) /\ ~(k + 1 < 2)
          BY <2>1, <1>p, <2>6
        <5> QED
          BY <5>1, Zenon
      <4>2. hs(k) = i
        BY <2>1, <1>p, <2>6
      <4>3. hs(k + 1) = i + 1
        BY <2>1, <1>p, <2>6
      <4>4. bs(k) = B /\ bs(k + 1) = B
        BY <2>1, <1>p, <2>6
      <4> QED
        BY <4>1, <4>2, <4>3, <4>4
    <3> HIDE DEF bs, hs, zoomAt, remAt, i
    <3> DEFINE a == SubSeq(p.history, 1, i)
    <3>3. Append(a, p.history[i + 1]) = SubSeq(p.history, 1, i + 1) /\ Len(a) = i
          /\ ~Contains(a, p.history[i + 1])
      BY <1>p, <3>0, SubSeqGrows DEF B, H
    <3>4. E(k).history = a
      BY <3>2, <1>e, <1>q
    <3>5. ~(Len(a) >= MaxHistory)
      BY <1>p, <3>0, <3>3
    <3> HIDE DEF a
    <3> DEFINE x == p.history[i + 1]
               l == t[k + 1]
    <3>6. l.is = "h" /\ l.of = x
      BY <3>1
    <3>7. f[k + 1] = ParseLine(E(k), l) /\ ~Contains(E(k).history, x) /\ ~(Len(E(k).history) >= MaxHistory)
      BY <2>2, <3>3, <3>4, <3>5
    <3> HIDE DEF x, l
    <3>8. f[k + 1] = [E(k) EXCEPT !.history = Append(E(k).history, x)]
      BY <3>6, <3>7 DEF ParseLine
    <3>9. Append(E(k).history, x) = SubSeq(p.history, 1, i + 1)
      BY <3>3, <3>4 DEF x
    <3>10. f[k + 1] = [E(k) EXCEPT !.history = SubSeq(p.history, 1, i + 1)]
      BY <3>8, <3>9
    <3> QED
      BY <3>2, <3>10, <1>e, <1>q
  <2> QED
    BY <1>p, <2>1, <2>3, <2>4, <2>5, <2>6
<1>2. T = Nat
  <2> HIDE DEF T
  <2>1. T \in SUBSET Nat
    BY DEF T
  <2> QED
    BY <1>0, <1>1, <2>1, Induction
<1>3. f[N] = E(N)
  BY <1>2, <1>N
<1>4. zoomAt(N) = p.zoom /\ remAt(N) = p.rem /\ bs(N) = B /\ hs(N) = H
  <2>1. ~(N < 1) /\ ~(N < 2)
    BY <1>p DEF N
  <2>2. zoomAt(N) = p.zoom /\ remAt(N) = p.rem
    BY <2>1, Zenon
  <2>3. bs(N) = B /\ hs(N) = H
    BY <1>p DEF N
  <2> QED
    BY <2>2, <2>3
<1>5. SubSeq(p.bookmarks, 1, B) = p.bookmarks /\ SubSeq(p.history, 1, H) = p.history
  BY <1>p, SubSeqEnds DEF B, H
<1>6. Parse(t) = E(N)
  BY <1>f, <1>N, <1>3
<1> HIDE DEF zoomAt, remAt, bs, hs
<1>7. E(N) = [zoom |-> p.zoom, rem |-> p.rem, bookmarks |-> p.bookmarks, history |-> p.history,
              visits |-> <<>>]
  BY <1>4, <1>5, <1>e, <1>q
<1>8. [Parse(t) EXCEPT !.visits = p.visits] =
         [zoom |-> p.zoom, rem |-> p.rem, bookmarks |-> p.bookmarks, history |-> p.history,
          visits |-> p.visits]
  BY <1>6, <1>7
<1>9. p = [zoom |-> p.zoom, rem |-> p.rem, bookmarks |-> p.bookmarks, history |-> p.history,
           visits |-> p.visits]
  BY DEF Good, PrefsType
<1> QED
  BY <1>8, <1>9 DEF t

(* A visit moves every other page's last one by a place. *)
LEMMA LastVisitIs ==
    ASSUME NEW v \in Seq(URLs), NEW x
    PROVE  \/ LastVisit(v, x) = 0 /\ \A i \in 1 .. Len(v) : v[i] # x
           \/ /\ LastVisit(v, x) \in 1 .. Len(v) /\ v[LastVisit(v, x)] = x
              /\ \A i \in 1 .. LastVisit(v, x) - 1 : v[i] # x
<1>1. Len(v) \in Nat
  OBVIOUS
<1> QED
  BY <1>1, PageFound DEF LastVisit

(* A visit put in front of the others. *)
LEMMA VisitIs ==
    ASSUME NEW v \in Seq(URLs), NEW u \in URLs, NEW w, w = <<u>> \o v
    PROVE  /\ w \in Seq(URLs) /\ Len(w) = Len(v) + 1 /\ w[1] = u
           /\ \A i \in 1 .. Len(v) : w[i + 1] = v[i]
<1> DEFINE a == <<u>>
<1>1. a \in Seq(URLs) /\ Len(a) = 1 /\ a[1] = u
  OBVIOUS
<1> HIDE DEF a
<1>2. w = a \o v
  BY DEF a
<1>3. w \in Seq(URLs) /\ Len(w) = Len(a) + Len(v)
  BY <1>1, <1>2, ConcatProperties
<1>4. \A i \in 1 .. Len(a) + Len(v) : w[i] = IF i <= Len(a) THEN a[i] ELSE v[i - Len(a)]
  BY <1>1, <1>2, ConcatProperties
<1>5. Len(v) \in Nat
  OBVIOUS
<1>6. w[1] = u
  BY <1>1, <1>4, <1>5
<1>7. ASSUME NEW i \in 1 .. Len(v) PROVE w[i + 1] = v[i]
  <2>1. i + 1 \in 1 .. Len(a) + Len(v) /\ ~(i + 1 <= Len(a)) /\ (i + 1) - Len(a) = i
    BY <1>1, <1>5
  <2> QED
    BY <1>4, <2>1
<1> QED
  BY <1>1, <1>3, <1>5, <1>6, <1>7

Prepends(w, u, v) ==
    /\ w \in Seq(URLs) /\ Len(w) = Len(v) + 1 /\ w[1] = u
    /\ \A i \in 1 .. Len(v) : w[i + 1] = v[i]

(* A visit moves every other page one place back and brings its own to the front. *)
LEMMA LastVisitMoves ==
    ASSUME NEW v \in Seq(URLs), NEW u \in URLs, NEW w, Prepends(w, u, v), NEW x
    PROVE  /\ x = u => LastVisit(w, x) = 1
           /\ \A k \in Nat : x # u /\ k # 0 /\ LastVisit(v, x) = k => LastVisit(w, x) = k + 1
<1>1. /\ w \in Seq(URLs) /\ Len(w) = Len(v) + 1 /\ w[1] = u /\ Len(v) \in Nat
      /\ \A i \in 1 .. Len(v) : w[i + 1] = v[i]
  BY DEF Prepends
<1> DEFINE m == LastVisit(v, x)
           n == LastVisit(w, x)
<1>2. \/ m = 0 /\ \A i \in 1 .. Len(v) : v[i] # x
      \/ m \in 1 .. Len(v) /\ v[m] = x /\ \A i \in 1 .. m - 1 : v[i] # x
  BY LastVisitIs
<1>3. \/ n = 0 /\ \A i \in 1 .. Len(w) : w[i] # x
      \/ n \in 1 .. Len(w) /\ w[n] = x /\ \A i \in 1 .. n - 1 : w[i] # x
  BY <1>1, LastVisitIs
<1> HIDE DEF m, n
<1>4. CASE x = u
  <2>1. 1 \in 1 .. Len(w)
    BY <1>1
  <2>2. n # 0 /\ ~(1 \in 1 .. n - 1)
    BY <1>1, <1>3, <1>4, <2>1
  <2>3. n = 1
    BY <1>1, <1>3, <2>2
  <2> QED
    BY <1>4, <2>3 DEF m, n
<1>5. CASE x # u
  <2>1. n # 0 => n # 1
    BY <1>1, <1>3, <1>5
  <2>2. n # 0 => n - 1 \in 1 .. Len(v) /\ v[n - 1] = x /\ w[n] = v[n - 1]
    <3> SUFFICES ASSUME n # 0 PROVE n - 1 \in 1 .. Len(v) /\ v[n - 1] = x /\ w[n] = v[n - 1]
      OBVIOUS
    <3>1. n - 1 \in 1 .. Len(v) /\ (n - 1) + 1 = n
      BY <1>1, <1>3, <2>1
    <3> QED
      BY <1>1, <1>3, <3>1
  <2>3. CASE m = 0
    <3>1. n = 0
      BY <1>2, <2>2, <2>3
    <3> QED
      BY <1>5, <2>3, <3>1 DEF m, n
  <2>4. CASE m # 0
    <3>1. m + 1 \in 1 .. Len(w) /\ w[m + 1] = x
      BY <1>1, <1>2, <2>4
    <3>2. n # 0
      BY <1>3, <3>1
    <3>3. ~(m + 1 \in 1 .. n - 1)
      BY <1>3, <3>1, <3>2
    <3>4. ~(n - 1 \in 1 .. m - 1)
      BY <1>2, <2>2, <2>4, <3>2
    <3>5. n = m + 1
      BY <1>1, <1>2, <1>3, <2>2, <2>4, <3>2, <3>3, <3>4
    <3> QED
      BY <1>5, <2>4, <3>5 DEF m, n
  <2> QED
    BY <2>3, <2>4
<1> QED
  BY <1>4, <1>5

(* What stays of the history behind a page visited: its other pages, in their order. *)
Behind(h, u, r, g) ==
    /\ r \in Seq(URLs) /\ Len(r) < MaxHistory
    /\ g \in [1 .. Len(r) -> 1 .. Len(h)]
    /\ \A i \in 1 .. Len(r) : r[i] = h[g[i]] /\ r[i] # u
    /\ \A i, j \in 1 .. Len(r) : i < j => g[i] < g[j]
    /\ Len(h) = MaxHistory => Len(r) = MaxHistory - 1
    /\ \A k \in 1 .. Len(h) :
          \/ h[k] = u
          \/ \E i \in 1 .. Len(r) : r[i] = h[k]
          \/ k = MaxHistory /\ Len(h) = MaxHistory

(* What stays behind a page put in front: the rest of the history in its order. *)
LEMMA BehindExists ==
    ASSUME ProfileAssumption, NEW h \in Seq(URLs), NEW u \in URLs, OnceEach(h), Len(h) <= MaxHistory
    PROVE  \E r, g : HistoryAdd(h, u) = <<u>> \o r /\ Behind(h, u, r, g)
<1> DEFINE at == SelectInSeq(h, LAMBDA x : x = u)
           r == IF at # 0 THEN RemoveAt(h, at)
                ELSE IF Len(h) >= MaxHistory THEN Front(h) ELSE h
<1>1. HistoryAdd(h, u) = <<u>> \o r
  BY DEF HistoryAdd
<1>2. MaxHistory \in Nat \ {0} /\ Len(h) \in Nat
  BY DEF ProfileAssumption
<1>3. \/ at = 0 /\ \A i \in 1 .. Len(h) : h[i] # u
      \/ at \in 1 .. Len(h) /\ h[at] = u
  BY <1>2, PageFound
<1> HIDE DEF at
<1> SUFFICES \E g : Behind(h, u, r, g)
  BY <1>1
<1>4. CASE at # 0
  <2>1. r = RemoveAt(h, at) /\ at \in 1 .. Len(h) /\ h[at] = u
    BY <1>3, <1>4
  <2> HIDE DEF r
  <2>2. /\ r \in Seq(URLs) /\ Len(r) = Len(h) - 1
        /\ \A i \in 1 .. Len(r) : r[i] = IF i < at THEN h[i] ELSE h[i + 1]
    BY <2>1, Removed, SMTT(20)
  <2> DEFINE g == [i \in 1 .. Len(r) |-> IF i < at THEN i ELSE i + 1]
  <2>3. g \in [1 .. Len(r) -> 1 .. Len(h)]
    BY <1>2, <2>1, <2>2
  <2>4. ASSUME NEW i \in 1 .. Len(r) PROVE r[i] = h[g[i]] /\ g[i] # at /\ g[i] \in 1 .. Len(h)
    BY <1>2, <2>1, <2>2
  <2>5. \A i, j \in 1 .. Len(r) : i < j => g[i] < g[j]
    BY <1>2, <2>1, <2>2
  <2>6. ASSUME NEW k \in 1 .. Len(h), h[k] # u PROVE \E i \in 1 .. Len(r) : r[i] = h[k]
    <3>1. k # at
      BY <2>1, <2>6
    <3>2. CASE k < at
      <4>1. k \in 1 .. Len(r) /\ r[k] = h[k]
        BY <1>2, <2>1, <2>2, <3>2
      <4> QED
        BY <4>1
    <3>3. CASE k > at
      <4>1. k - 1 \in 1 .. Len(r) /\ r[k - 1] = h[k]
        BY <1>2, <2>1, <2>2, <3>3
      <4> QED
        BY <4>1
    <3> QED
      BY <2>1, <3>1, <3>2, <3>3
  <2> HIDE DEF g
  <2>7. \A i \in 1 .. Len(r) : r[i] # u
    BY <2>1, <2>4 DEF OnceEach
  <2>8. Len(r) < MaxHistory /\ (Len(h) = MaxHistory => Len(r) = MaxHistory - 1)
    BY <1>2, <2>2
  <2>9. Behind(h, u, r, g)
    BY <2>2, <2>3, <2>4, <2>5, <2>6, <2>7, <2>8 DEF Behind
  <2> QED
    BY <2>9
<1>5. CASE at = 0 /\ Len(h) >= MaxHistory
  <2>1. r = SubSeq(h, 1, Len(h) - 1) /\ Len(h) = MaxHistory /\ \A i \in 1 .. Len(h) : h[i] # u
    BY <1>2, <1>3, <1>5 DEF Front
  <2> HIDE DEF r
  <2>2. r \in Seq(URLs) /\ Len(r) = MaxHistory - 1 /\ \A i \in 1 .. Len(r) : r[i] = h[i]
    BY <1>2, <2>1
  <2> DEFINE g == [i \in 1 .. Len(r) |-> i]
  <2>3. g \in [1 .. Len(r) -> 1 .. Len(h)]
    BY <1>2, <2>1, <2>2
  <2>4. ASSUME NEW i \in 1 .. Len(r) PROVE r[i] = h[g[i]] /\ r[i] # u
    BY <1>2, <2>1, <2>2
  <2>5. \A i, j \in 1 .. Len(r) : i < j => g[i] < g[j]
    OBVIOUS
  <2>6. ASSUME NEW k \in 1 .. Len(h), k # MaxHistory PROVE \E i \in 1 .. Len(r) : r[i] = h[k]
    <3>1. k \in 1 .. Len(r) /\ r[k] = h[k]
      BY <1>2, <2>1, <2>2, <2>6
    <3> QED
      BY <3>1
  <2> HIDE DEF g
  <2>7. Len(r) < MaxHistory
    BY <1>2, <2>2
  <2>8. Behind(h, u, r, g)
    BY <2>1, <2>2, <2>3, <2>4, <2>5, <2>6, <2>7 DEF Behind
  <2> QED
    BY <2>8
<1>6. CASE at = 0 /\ ~(Len(h) >= MaxHistory)
  <2>1. r = h /\ Len(h) < MaxHistory /\ \A i \in 1 .. Len(h) : h[i] # u
    BY <1>2, <1>3, <1>6
  <2> HIDE DEF r
  <2> DEFINE g == [i \in 1 .. Len(r) |-> i]
  <2>2. g \in [1 .. Len(r) -> 1 .. Len(h)] /\ \A i \in 1 .. Len(r) : g[i] = i
    BY <2>1
  <2> HIDE DEF g
  <2>3. \A i, j \in 1 .. Len(r) : i < j => g[i] < g[j]
    BY <2>2
  <2>4. Behind(h, u, r, g)
    BY <1>2, <2>1, <2>2, <2>3 DEF Behind
  <2> QED
    BY <2>4
<1> QED
  BY <1>4, <1>5, <1>6

(* prefs_history_add keeps the recent pages, each once, the latest first. *)
LEMMA RecentAdd ==
    ASSUME ProfileAssumption, NEW h \in Seq(URLs), NEW v \in Seq(URLs), NEW u \in URLs,
           OnceEach(h), Recent(h, v), NEW h2, h2 = HistoryAdd(h, u), NEW v2, v2 = <<u>> \o v
    PROVE  h2 \in Seq(URLs) /\ v2 \in Seq(URLs) /\ OnceEach(h2) /\ Recent(h2, v2)
<1> DEFINE when(k) == LastVisit(v, h[k])
           when2(k) == LastVisit(v2, h2[k])
<1>0. MaxHistory \in Nat \ {0} /\ Len(h) \in Nat /\ Len(v) \in Nat
  BY DEF ProfileAssumption
<1>1. /\ Len(h) <= MaxHistory
      /\ \A k \in 1 .. Len(h) : when(k) # 0
      /\ \A j, k \in 1 .. Len(h) : j < k => when(j) < when(k)
      /\ \A i \in 1 .. Len(v) :
            \/ \E k \in 1 .. Len(h) : h[k] = v[i]
            \/ Len(h) = MaxHistory /\ when(MaxHistory) < i
  BY DEF Recent
<1>2. \A k \in 1 .. Len(h) : when(k) \in 1 .. Len(v) /\ \A i \in 1 .. Len(v) : v[i] = h[k] => when(k) <= i
  <2> SUFFICES ASSUME NEW k \in 1 .. Len(h)
               PROVE  when(k) \in 1 .. Len(v) /\ \A i \in 1 .. Len(v) : v[i] = h[k] => when(k) <= i
    OBVIOUS
  <2>1. when(k) \in 1 .. Len(v) /\ \A i \in 1 .. when(k) - 1 : v[i] # h[k]
    BY <1>1, LastVisitIs
  <2> HIDE DEF when
  <2> QED
    BY <1>0, <2>1
<1>3. PICK r, g : h2 = <<u>> \o r /\ Behind(h, u, r, g)
  BY <1>1, BehindExists
<1>4. /\ r \in Seq(URLs) /\ Len(r) < MaxHistory /\ Len(r) \in Nat
      /\ g \in [1 .. Len(r) -> 1 .. Len(h)]
      /\ \A i \in 1 .. Len(r) : r[i] = h[g[i]] /\ r[i] # u /\ g[i] \in 1 .. Len(h)
      /\ \A i, j \in 1 .. Len(r) : i < j => g[i] < g[j]
      /\ Len(h) = MaxHistory => Len(r) = MaxHistory - 1
  <2>1. r \in Seq(URLs) /\ Len(r) < MaxHistory /\ g \in [1 .. Len(r) -> 1 .. Len(h)]
    BY <1>3 DEF Behind
  <2>2. \A i \in 1 .. Len(r) : r[i] = h[g[i]] /\ r[i] # u
    BY <1>3 DEF Behind
  <2>3. \A i, j \in 1 .. Len(r) : i < j => g[i] < g[j]
    BY <1>3 DEF Behind
  <2>4. Len(h) = MaxHistory => Len(r) = MaxHistory - 1
    BY <1>3 DEF Behind
  <2>5. Len(r) \in Nat
    BY <2>1
  <2>6. \A i \in 1 .. Len(r) : g[i] \in 1 .. Len(h)
    BY <2>1
  <2> QED
    BY <2>1, <2>2, <2>3, <2>4, <2>5, <2>6
<1>5. \A k \in 1 .. Len(h) :
          \/ h[k] = u
          \/ \E i \in 1 .. Len(r) : r[i] = h[k]
          \/ k = MaxHistory /\ Len(h) = MaxHistory
  BY <1>3 DEF Behind
<1>6. /\ h2 \in Seq(URLs) /\ Len(h2) = Len(r) + 1 /\ h2[1] = u
      /\ \A i \in 1 .. Len(r) : h2[i + 1] = r[i]
  BY <1>3, <1>4, VisitIs
<1>7. /\ v2 \in Seq(URLs) /\ Len(v2) = Len(v) + 1 /\ v2[1] = u
      /\ \A i \in 1 .. Len(v) : v2[i + 1] = v[i]
  BY VisitIs
<1>p. Prepends(v2, u, v)
  BY <1>7 DEF Prepends
<1>m. ASSUME NEW x
      PROVE  /\ x = u => LastVisit(v2, x) = 1
             /\ x # u /\ LastVisit(v, x) # 0 => LastVisit(v2, x) = LastVisit(v, x) + 1
  <2>1. x = u => LastVisit(v2, x) = 1
    BY <1>p, LastVisitMoves
  <2>2. ASSUME x # u, LastVisit(v, x) # 0 PROVE LastVisit(v2, x) = LastVisit(v, x) + 1
    <3> DEFINE k == LastVisit(v, x)
    <3>1. k \in Nat
      BY <1>0, LastVisitIs
    <3>2. k # 0
      BY <2>2
    <3>3. LastVisit(v, x) = k
      OBVIOUS
    <3> HIDE DEF k
    <3>4. LastVisit(v2, x) = k + 1
      BY <1>p, <2>2, <3>1, <3>2, <3>3, LastVisitMoves
    <3> QED
      BY <3>3, <3>4
  <2> QED
    BY <2>1, <2>2
<1>8. when2(1) = 1
  BY <1>6, <1>m
<1>9. ASSUME NEW i \in 1 .. Len(r) PROVE when2(i + 1) = when(g[i]) + 1
  <2>1. h2[i + 1] = h[g[i]] /\ h[g[i]] # u /\ when(g[i]) # 0
    BY <1>1, <1>4, <1>6
  <2> DEFINE x == h[g[i]]
  <2>x. x # u /\ LastVisit(v, x) # 0
    BY <2>1
  <2> HIDE DEF x
  <2>y. LastVisit(v2, x) = LastVisit(v, x) + 1
    BY <2>x, <1>m
  <2>2. LastVisit(v2, h[g[i]]) = LastVisit(v, h[g[i]]) + 1
    BY <2>y DEF x
  <2> QED
    BY <2>1, <2>2
<1> HIDE DEF when, when2
<1>10. \A k \in 1 .. Len(h2) : k = 1 \/ (k - 1 \in 1 .. Len(r) /\ (k - 1) + 1 = k)
  BY <1>4, <1>6
<1>11. \A i \in 1 .. Len(r) : when2(i + 1) \in Nat /\ when2(i + 1) > 1
  <2> SUFFICES ASSUME NEW i \in 1 .. Len(r) PROVE when2(i + 1) \in Nat /\ when2(i + 1) > 1
    OBVIOUS
  <2>1. when(g[i]) \in 1 .. Len(v)
    BY <1>2, <1>4
  <2> QED
    BY <1>0, <1>9, <2>1
<1>12. \A k \in 1 .. Len(h2) : when2(k) # 0
  <2> SUFFICES ASSUME NEW k \in 1 .. Len(h2) PROVE when2(k) # 0
    OBVIOUS
  <2>1. CASE k = 1
    BY <1>8, <2>1
  <2>2. CASE k # 1
    <3>1. k - 1 \in 1 .. Len(r) /\ (k - 1) + 1 = k
      BY <1>10, <2>2
    <3>2. when2((k - 1) + 1) > 1
      BY <1>11, <3>1
    <3>3. when2(k) > 1
      BY <3>1, <3>2
    <3> QED
      BY <3>3
  <2> QED
    BY <2>1, <2>2
<1>13. ASSUME NEW j \in 1 .. Len(h2), NEW k \in 1 .. Len(h2), j < k PROVE when2(j) < when2(k)
  <2>1. k # 1 /\ k - 1 \in 1 .. Len(r) /\ (k - 1) + 1 = k
    BY <1>10, <1>13, <1>4, <1>6
  <2>2. CASE j = 1
    BY <1>8, <1>11, <2>1, <2>2
  <2>3. CASE j # 1
    <3>1. j - 1 \in 1 .. Len(r) /\ (j - 1) + 1 = j /\ j - 1 < k - 1
      BY <1>10, <2>3, <1>13, <1>4, <1>6
    <3>2. g[j - 1] < g[k - 1] /\ g[j - 1] \in 1 .. Len(h) /\ g[k - 1] \in 1 .. Len(h)
      BY <1>4, <2>1, <3>1
    <3>3. when(g[j - 1]) < when(g[k - 1]) /\ when(g[j - 1]) \in Nat /\ when(g[k - 1]) \in Nat
      BY <1>1, <1>2, <1>0, <3>2, SMTT(20)
    <3>4. when2(j) = when(g[j - 1]) + 1 /\ when2(k) = when(g[k - 1]) + 1
      BY <1>9, <2>1, <3>1
    <3> QED
      BY <3>3, <3>4
  <2> QED
    BY <2>2, <2>3
<1>14. OnceEach(h2)
  <2> SUFFICES ASSUME NEW i \in 1 .. Len(h2), NEW j \in 1 .. Len(h2), h2[i] = h2[j] PROVE i = j
    BY DEF OnceEach
  <2>1. when2(i) = when2(j)
    BY DEF when2
  <2>2. \A k \in 1 .. Len(h2) : when2(k) \in Nat
    BY <1>8, <1>10, <1>11
  <2>3. ~(when2(i) < when2(j)) /\ ~(when2(j) < when2(i))
    BY <2>1, <2>2
  <2> QED
    BY <1>13, <2>3
<1>15. ASSUME Len(h) = MaxHistory
       PROVE  /\ Len(h2) = MaxHistory /\ when2(MaxHistory) \in Nat /\ when(MaxHistory) \in Nat
              /\ when2(MaxHistory) <= when(MaxHistory) + 1
              /\ (\A i \in 1 .. Len(r) : r[i] # h[MaxHistory]) => when2(MaxHistory) <= when(MaxHistory)
  <2>1. Len(r) = MaxHistory - 1 /\ Len(h2) = MaxHistory /\ MaxHistory \in 1 .. Len(h)
    BY <1>0, <1>15, <1>4, <1>6
  <2>2. when(MaxHistory) \in 1 .. Len(v)
    BY <1>2, <2>1
  <2>3. CASE MaxHistory = 1
    BY <1>0, <1>8, <2>1, <2>2, <2>3
  <2>4. CASE MaxHistory # 1
    <3> DEFINE i == MaxHistory - 1
    <3>1. i \in 1 .. Len(r) /\ i + 1 = MaxHistory
      BY <1>0, <2>1, <2>4
    <3>2. when2(i + 1) = when(g[i]) + 1 /\ g[i] \in 1 .. Len(h) /\ when(g[i]) \in 1 .. Len(v)
      BY <1>9, <1>4, <1>2, <3>1
    <3>3. CASE g[i] < MaxHistory
      <4>1. when(g[i]) < when(MaxHistory)
        BY <1>1, <2>1, <3>2, <3>3
      <4> QED
        BY <1>0, <2>1, <2>2, <3>1, <3>2, <4>1
    <3>4. CASE g[i] = MaxHistory
      <4>1. r[i] = h[MaxHistory]
        BY <1>4, <3>1, <3>4
      <4>2. when2(MaxHistory) = when(MaxHistory) + 1
        BY <3>1, <3>2, <3>4
      <4> QED
        BY <1>0, <2>1, <2>2, <3>1, <4>1, <4>2
    <3> QED
      BY <1>0, <1>15, <3>2, <3>3, <3>4
  <2> QED
    BY <2>3, <2>4
<1>16. ASSUME NEW i \in 1 .. Len(v2)
       PROVE  \/ \E k \in 1 .. Len(h2) : h2[k] = v2[i]
              \/ Len(h2) = MaxHistory /\ when2(MaxHistory) < i
  <2>0. 1 \in 1 .. Len(h2)
    BY <1>4, <1>6
  <2>1. CASE v2[i] = u
    BY <1>6, <2>0, <2>1
  <2>2. CASE v2[i] # u
    <3> DEFINE j == i - 1
    <3>1. i # 1
      BY <1>7, <2>2
    <3>2. j \in 1 .. Len(v) /\ j + 1 = i
      BY <1>0, <1>7, <3>1
    <3>3. v2[i] = v[j] /\ v[j] # u
      BY <1>7, <2>2, <3>2
    <3> HIDE DEF j
    <3>4. CASE Len(h) = MaxHistory /\ when(MaxHistory) < j
      BY <1>0, <1>15, <3>2, <3>4
    <3>5. ASSUME NEW k \in 1 .. Len(h), h[k] = v[j]
          PROVE  \/ \E n \in 1 .. Len(h2) : h2[n] = v2[i]
                 \/ Len(h2) = MaxHistory /\ when2(MaxHistory) < i
      <4>1. CASE \E n \in 1 .. Len(r) : r[n] = h[k]
        <5>1. PICK n \in 1 .. Len(r) : r[n] = h[k]
          BY <4>1
        <5>2. n + 1 \in 1 .. Len(h2) /\ h2[n + 1] = v2[i]
          BY <1>4, <1>6, <3>3, <3>5, <5>1
        <5> QED
          BY <5>2
      <4>2. CASE ~\E n \in 1 .. Len(r) : r[n] = h[k]
        <5>1. k = MaxHistory /\ Len(h) = MaxHistory
          BY <1>5, <3>3, <3>5, <4>2
        <5>2. when2(MaxHistory) <= when(MaxHistory) /\ Len(h2) = MaxHistory
              /\ when2(MaxHistory) \in Nat /\ when(MaxHistory) \in Nat
          BY <1>15, <4>2, <5>1
        <5>3. when(MaxHistory) <= j
          BY <1>2, <3>2, <3>5, <5>1
        <5> QED
          BY <3>2, <5>2, <5>3
      <4> QED
        BY <4>1, <4>2
    <3> QED
      BY <1>1, <3>2, <3>4, <3>5
  <2> QED
    BY <2>1, <2>2
<1>17. Len(h2) <= MaxHistory
  BY <1>0, <1>4, <1>6
<1>18. Recent(h2, v2)
  <2> USE DEF when2
  <2> QED
    BY <1>12, <1>13, <1>16, <1>17 DEF Recent
<1> QED
  BY <1>6, <1>7, <1>14, <1>18

(* ------------------------- the directory ------------------------- *)

(* After n renames a name holds what the last of its renames left. *)
LEMMA AfterIs ==
    ASSUME NEW d, NEW l, NEW n \in Nat, NEW f \in DOMAIN d
    PROVE  \/ After(d, l, n)[f] = d[f] /\ \A k \in 1 .. n : l[k].file # f
           \/ \E k \in 1 .. n : /\ l[k].file = f /\ After(d, l, n)[f] = l[k].content
                                /\ \A j \in 1 .. n : l[j].file = f => j <= k
<1> DEFINE mine == {k \in 1 .. n : l[k].file = f}
<1>1. After(d, l, n)[f] = IF mine = {} THEN d[f] ELSE l[Max(mine)].content
  BY DEF After
<1>2. CASE mine = {}
  BY <1>1, <1>2
<1>3. CASE mine # {}
  <2>0. mine \in SUBSET (1 .. n)
    OBVIOUS
  <2> HIDE DEF mine
  <2>1. \E x \in mine : \A y \in mine : y <= x
    BY <1>3, <2>0, NatMax
  <2>2. Max(mine) \in mine /\ \A y \in mine : y <= Max(mine)
    <3>1. Max(mine) = CHOOSE x \in mine : \A y \in mine : x >= y
      BY DEF Max
    <3>2. \E x \in mine : \A y \in mine : x >= y
      BY <2>0, <2>1
    <3> QED
      BY <2>0, <3>1, <3>2
  <2> DEFINE m == Max(mine)
  <2>3. m \in mine /\ (\A y \in mine : y <= m) /\ After(d, l, n)[f] = l[m].content
    BY <1>1, <1>3, <2>2
  <2> HIDE DEF m
  <2>4. m \in 1 .. n /\ l[m].file = f
    BY <2>3 DEF mine
  <2>5. \A j \in 1 .. n : l[j].file = f => j <= m
    BY <2>3 DEF mine
  <2> QED
    BY <2>3, <2>4, <2>5
<1> QED
  BY <1>2, <1>3

GoodPrefs == {p \in PrefsType : Good(p)}
SealedWith(kk) == {Sealed(kk, p) : p \in GoodPrefs}
Renames(kk) == {[file |-> "key", content |-> KeyFile(kk)]}
               \cup {[file |-> "prefs", content |-> c] : c \in SealedWith(kk)}

(* The directory and the renames under way know one key, kk; where the key is not
   on the disk, nothing else is, and its rename comes before all others. *)
Dir(d, l, kk) ==
    /\ DOMAIN d = {"key", "prefs"}
    /\ d["key"] \in {Absent, KeyFile(kk)} /\ d["prefs"] \in {Absent} \cup SealedWith(kk)
    /\ l \in Seq(Renames(kk))
    /\ d["key"] = Absent => d["prefs"] = Absent /\ (l # <<>> => l[1].file = "key")
    /\ \A i \in 1 .. Len(l) : l[i].file = "key" => i = 1 /\ d["key"] = Absent

(* The key file, a sealed file and no file are told apart. *)
LEMMA Contents ==
    ASSUME NEW kk
    PROVE  /\ Absent # KeyFile(kk) /\ Absent \notin SealedWith(kk) /\ KeyFile(kk) \notin SealedWith(kk)
           /\ Absent.is = "absent" /\ KeyFile(kk).is = "key" /\ KeyFile(kk).key = kk
           /\ \A c \in SealedWith(kk) : c.is = "sealed" /\ c.key = kk
           /\ \A r \in Renames(kk) : \/ r.file = "key" /\ r.content = KeyFile(kk)
                                     \/ r.file = "prefs" /\ r.content \in SealedWith(kk)
<1>1. Absent.is = "absent" /\ KeyFile(kk).is = "key" /\ KeyFile(kk).key = kk
  BY DEF Absent, KeyFile
<1>2. ASSUME NEW c \in SealedWith(kk) PROVE c.is = "sealed" /\ c.key = kk
  <2>1. PICK p : c = Sealed(kk, p)
    BY DEF SealedWith
  <2> QED
    BY <2>1 DEF Sealed
<1>3. \A r \in Renames(kk) : \/ r.file = "key" /\ r.content = KeyFile(kk)
                             \/ r.file = "prefs" /\ r.content \in SealedWith(kk)
  BY DEF Renames
<1> QED
  BY <1>1, <1>2, <1>3

(* After any part of the renames the key on the disk is the one the file was sealed with. *)
LEMMA DirAt ==
    ASSUME NEW d, NEW l, NEW kk, Dir(d, l, kk), NEW n \in 0 .. Len(l), NEW e, e = After(d, l, n)
    PROVE  /\ DOMAIN e = {"key", "prefs"}
           /\ e["key"] = IF d["key"] = Absent /\ n = 0 THEN Absent ELSE KeyFile(kk)
           /\ e["prefs"] = IF n = 0 \/ l[n].file = "key" THEN d["prefs"] ELSE l[n].content
           /\ e["prefs"] \in {Absent} \cup SealedWith(kk)
           /\ e["key"] = Absent => e["prefs"] = Absent
<1>0. /\ DOMAIN d = {"key", "prefs"} /\ l \in Seq(Renames(kk)) /\ Len(l) \in Nat /\ n \in Nat
      /\ d["key"] \in {Absent, KeyFile(kk)} /\ d["prefs"] \in {Absent} \cup SealedWith(kk)
      /\ d["key"] = Absent => d["prefs"] = Absent /\ (l # <<>> => l[1].file = "key")
      /\ \A i \in 1 .. Len(l) : l[i].file = "key" => i = 1 /\ d["key"] = Absent
  BY DEF Dir
<1>1. \A i \in 1 .. Len(l) : l[i] \in Renames(kk)
  BY <1>0
<1>2. \A i \in 1 .. Len(l) : \/ l[i].file = "key" /\ l[i].content = KeyFile(kk)
                             \/ l[i].file = "prefs" /\ l[i].content \in SealedWith(kk)
  BY <1>1, Contents
<1>3. \A i \in 1 .. n : i \in 1 .. Len(l)
  BY <1>0
<1>4. DOMAIN e = {"key", "prefs"}
  BY <1>0 DEF After
<1>5. e["key"] = IF d["key"] = Absent /\ n = 0 THEN Absent ELSE KeyFile(kk)
  <2>1. \/ e["key"] = d["key"] /\ \A k \in 1 .. n : l[k].file # "key"
        \/ \E k \in 1 .. n : l[k].file = "key" /\ e["key"] = l[k].content
    BY <1>0, AfterIs
  <2>2. CASE n = 0
    BY <1>0, <2>1, <2>2
  <2>3. CASE n # 0
    <3>1. 1 \in 1 .. n /\ l # <<>>
      BY <1>0, <2>3
    <3>2. CASE d["key"] = Absent
      BY <1>0, <1>2, <1>3, <2>1, <2>3, <3>1, <3>2
    <3>3. CASE d["key"] # Absent
      BY <1>0, <1>3, <2>1, <3>3
    <3> QED
      BY <3>2, <3>3
  <2> QED
    BY <2>2, <2>3
<1>6. e["prefs"] = IF n = 0 \/ l[n].file = "key" THEN d["prefs"] ELSE l[n].content
  <2>1. \/ e["prefs"] = d["prefs"] /\ \A k \in 1 .. n : l[k].file # "prefs"
        \/ \E k \in 1 .. n : /\ l[k].file = "prefs" /\ e["prefs"] = l[k].content
                             /\ \A j \in 1 .. n : l[j].file = "prefs" => j <= k
    BY <1>0, AfterIs
  <2>2. CASE n = 0
    BY <1>0, <2>1, <2>2
  <2>3. CASE n # 0 /\ l[n].file = "key"
    <3>1. n = 1
      BY <1>0, <1>3, <2>3
    <3> QED
      BY <2>1, <2>3, <3>1
  <2>4. CASE n # 0 /\ l[n].file # "key"
    <3>1. n \in 1 .. n /\ l[n].file = "prefs"
      BY <1>0, <1>2, <1>3, <2>4
    <3> QED
      BY <1>0, <2>1, <2>4, <3>1
  <2> QED
    BY <2>2, <2>3, <2>4
<1>7. e["prefs"] \in {Absent} \cup SealedWith(kk)
  <2>1. CASE n = 0 \/ l[n].file = "key"
    BY <1>0, <1>6, <2>1
  <2>2. CASE n # 0 /\ l[n].file # "key"
    <3>1. n \in 1 .. n
      BY <1>0, <2>2
    <3> QED
      BY <1>2, <1>3, <1>6, <2>2, <3>1
  <2> QED
    BY <2>1, <2>2
<1>8. e["key"] = Absent => e["prefs"] = Absent
  BY <1>0, <1>5, <1>6, Contents
<1> QED
  BY <1>4, <1>5, <1>6, <1>7, <1>8

(* prefs_init is a good profile. *)
LEMMA GoodDefaults ==
    ASSUME ProfileAssumption
    PROVE  Good(Defaults)
<1> DEFINE none == <<>>
<1>1. none \in Seq(URLs) /\ Len(none) = 0
  OBVIOUS
<1> HIDE DEF none
<1>2. Defaults = [zoom |-> DefaultZoom, rem |-> TRUE, bookmarks |-> none, history |-> none, visits |-> none]
  BY DEF Defaults, none
<1>3. Defaults \in PrefsType
  BY <1>1, <1>2 DEF PrefsType, ProfileAssumption
<1>4. OnceEach(none) /\ Recent(none, none) /\ Len(none) <= MaxBookmarks
  BY <1>1 DEF OnceEach, Recent, ProfileAssumption
<1>5. Defaults.bookmarks = none /\ Defaults.history = none /\ Defaults.visits = none
  BY <1>2
<1> QED
  BY <1>3, <1>4, <1>5 DEF Good

(* A sealed file reads as the preferences it was written from. *)
LEMMA SealedReads ==
    ASSUME ProfileAssumption, NEW kk, NEW p, Good(p)
    PROVE  PrefsOf(Sealed(kk, p)) = p
<1> DEFINE c == Sealed(kk, p)
<1>1. c.is = "sealed" /\ c.text = Format(p) /\ c.visits = p.visits
  BY DEF Sealed
<1> HIDE DEF c
<1>2. [Parse(c.text) EXCEPT !.visits = c.visits] = p
  BY <1>1, RoundTrip
<1>3. PrefsOf(c) = [Parse(c.text) EXCEPT !.visits = c.visits]
  BY <1>1 DEF PrefsOf
<1> QED
  BY <1>2, <1>3 DEF c

(* Whatever is found in place of prefs.bin reads as a good profile. *)
LEMMA PrefsOfGood ==
    ASSUME ProfileAssumption, NEW kk, NEW c \in {Absent} \cup SealedWith(kk)
    PROVE  /\ Good(PrefsOf(c)) /\ PrefsOf(c) \in PrefsType
           /\ c = Absent => PrefsOf(c) = Defaults
           /\ c \in SealedWith(kk) => PrefsOf(c) = [Parse(c.text) EXCEPT !.visits = c.visits]
<1>1. CASE c = Absent
  <2>1. PrefsOf(c) = Defaults
    BY <1>1 DEF PrefsOf, Absent
  <2> QED
    BY <1>1, <2>1, GoodDefaults, Contents DEF Good
<1>2. CASE c \in SealedWith(kk)
  <2>1. PICK p \in GoodPrefs : c = Sealed(kk, p)
    BY <1>2 DEF SealedWith
  <2>2. Good(p)
    BY DEF GoodPrefs
  <2>3. PrefsOf(c) = p
    BY <2>1, <2>2, SealedReads
  <2>4. c.is = "sealed" /\ c # Absent
    BY <1>2, Contents
  <2>5. PrefsOf(c) = [Parse(c.text) EXCEPT !.visits = c.visits]
    BY <2>4 DEF PrefsOf
  <2> QED
    BY <2>2, <2>3, <2>4, <2>5 DEF Good
<1> QED
  BY <1>1, <1>2

(* prefs_bookmark_toggle keeps each bookmark once, and the list within its bound. *)
LEMMA ToggleOnce ==
    ASSUME ProfileAssumption, NEW b \in Seq(URLs), NEW u \in URLs, OnceEach(b), Len(b) <= MaxBookmarks,
           NEW c, c = BookmarkToggle(b, u)
    PROVE  c \in Seq(URLs) /\ OnceEach(c) /\ Len(c) <= MaxBookmarks
<1> DEFINE at == SelectInSeq(b, LAMBDA x : x = u)
<1>1. c = IF at # 0 THEN RemoveAt(b, at) ELSE IF Len(b) >= MaxBookmarks THEN b ELSE Append(b, u)
  BY DEF BookmarkToggle
<1>2. MaxBookmarks \in Nat \ {0} /\ Len(b) \in Nat
  BY DEF ProfileAssumption
<1>3. \/ at = 0 /\ \A i \in 1 .. Len(b) : b[i] # u
      \/ at \in 1 .. Len(b) /\ b[at] = u
  BY <1>2, PageFound
<1> HIDE DEF at
<1>4. CASE at # 0
  <2>1. at \in 1 .. Len(b) /\ c = RemoveAt(b, at)
    BY <1>1, <1>3, <1>4
  <2>2. /\ c \in Seq(URLs) /\ Len(c) = Len(b) - 1
        /\ \A i \in 1 .. Len(c) : c[i] = IF i < at THEN b[i] ELSE b[i + 1]
    BY <2>1, Removed
  <2>3. OnceEach(c)
    <3> SUFFICES ASSUME NEW i \in 1 .. Len(c), NEW j \in 1 .. Len(c), c[i] = c[j] PROVE i = j
      BY DEF OnceEach
    <3> DEFINE f(k) == IF k < at THEN k ELSE k + 1
    <3>1. ASSUME NEW k \in 1 .. Len(c) PROVE f(k) \in 1 .. Len(b) /\ c[k] = b[f(k)]
      BY <1>2, <2>1, <2>2
    <3>2. f(i) = f(j)
      <4> HIDE DEF f
      <4> QED
        BY <3>1 DEF OnceEach
    <3> QED
      BY <2>1, <2>2, <3>2
  <2> QED
    BY <1>2, <2>2, <2>3
<1>5. CASE at = 0 /\ Len(b) >= MaxBookmarks
  BY <1>1, <1>5
<1>6. CASE at = 0 /\ ~(Len(b) >= MaxBookmarks)
  <2>1. c = Append(b, u) /\ \A i \in 1 .. Len(b) : b[i] # u
    BY <1>1, <1>2, <1>3, <1>6
  <2>2. /\ c \in Seq(URLs) /\ Len(c) = Len(b) + 1 /\ c[Len(b) + 1] = u
        /\ \A i \in 1 .. Len(b) : c[i] = b[i]
    BY <1>2, <2>1
  <2>3. OnceEach(c)
    <3>1. \A i \in 1 .. Len(c) : i = Len(b) + 1 \/ i \in 1 .. Len(b)
      BY <1>2, <2>2
    <3> QED
      BY <2>1, <2>2, <3>1 DEF OnceEach
  <2> QED
    BY <1>2, <1>6, <2>2, <2>3
<1> QED
  BY <1>4, <1>5, <1>6

(* remember_visit keeps a profile good, *)
LEMMA GoodVisit ==
    ASSUME ProfileAssumption, NEW p, Good(p), NEW u \in URLs,
           NEW q, q = [p EXCEPT !.history = HistoryAdd(@, u), !.visits = <<u>> \o @]
    PROVE  Good(q)
<1> DEFINE h == HistoryAdd(p.history, u)
           v == <<u>> \o p.visits
<1>1. /\ p \in PrefsType /\ p.history \in Seq(URLs) /\ p.visits \in Seq(URLs)
      /\ OnceEach(p.history) /\ Recent(p.history, p.visits)
  BY DEF Good, PrefsType
<1>2. h \in Seq(URLs) /\ v \in Seq(URLs) /\ OnceEach(h) /\ Recent(h, v)
  BY <1>1, RecentAdd
<1>3. q = [p EXCEPT !.history = h, !.visits = v]
  OBVIOUS
<1> HIDE DEF h, v
<1>4. q \in PrefsType /\ q.history = h /\ q.visits = v /\ q.bookmarks = p.bookmarks
  BY <1>1, <1>2, <1>3 DEF PrefsType
<1> QED
  BY <1>2, <1>4 DEF Good

(* as does the toggle of a bookmark, *)
LEMMA GoodBookmark ==
    ASSUME ProfileAssumption, NEW p, Good(p), NEW u \in URLs,
           NEW q, q = [p EXCEPT !.bookmarks = BookmarkToggle(@, u)]
    PROVE  Good(q)
<1> DEFINE b == BookmarkToggle(p.bookmarks, u)
<1>1. /\ p \in PrefsType /\ p.bookmarks \in Seq(URLs) /\ OnceEach(p.bookmarks)
      /\ Len(p.bookmarks) <= MaxBookmarks
  BY DEF Good, PrefsType
<1>2. b \in Seq(URLs) /\ OnceEach(b) /\ Len(b) <= MaxBookmarks
  BY <1>1, ToggleOnce
<1>3. q = [p EXCEPT !.bookmarks = b]
  OBVIOUS
<1> HIDE DEF b
<1>4. q \in PrefsType /\ q.history = p.history /\ q.visits = p.visits /\ q.bookmarks = b
  BY <1>1, <1>2, <1>3 DEF PrefsType
<1> QED
  BY <1>2, <1>4 DEF Good

(* and every other change of the menu. *)
LEMMA GoodOthers ==
    ASSUME ProfileAssumption, NEW p, Good(p)
    PROVE  /\ Good([p EXCEPT !.rem = FALSE, !.history = <<>>, !.visits = <<>>])
           /\ Good([p EXCEPT !.rem = TRUE])
           /\ \A z \in Zooms : Good([p EXCEPT !.zoom = z])
<1> DEFINE none == <<>>
<1>1. none \in Seq(URLs) /\ Len(none) = 0
  OBVIOUS
<1> HIDE DEF none
<1>2. OnceEach(none) /\ Recent(none, none)
  BY <1>1 DEF OnceEach, Recent, ProfileAssumption
<1>3. p \in PrefsType
  BY DEF Good
<1>4. Good([p EXCEPT !.rem = FALSE, !.history = none, !.visits = none])
  <2> DEFINE q == [p EXCEPT !.rem = FALSE, !.history = none, !.visits = none]
  <2>1. q \in PrefsType /\ q.history = none /\ q.visits = none /\ q.bookmarks = p.bookmarks
    BY <1>1, <1>3 DEF PrefsType
  <2> HIDE DEF q
  <2>2. Good(q)
    BY <1>2, <2>1 DEF Good
  <2> QED
    BY <2>2 DEF q
<1>5. Good([p EXCEPT !.rem = TRUE])
  <2> DEFINE q == [p EXCEPT !.rem = TRUE]
  <2>1. q \in PrefsType /\ q.history = p.history /\ q.visits = p.visits /\ q.bookmarks = p.bookmarks
    BY <1>3 DEF PrefsType
  <2> HIDE DEF q
  <2>2. Good(q)
    BY <2>1 DEF Good
  <2> QED
    BY <2>2 DEF q
<1>6. ASSUME NEW z \in Zooms PROVE Good([p EXCEPT !.zoom = z])
  <2> DEFINE q == [p EXCEPT !.zoom = z]
  <2>1. q \in PrefsType /\ q.history = p.history /\ q.visits = p.visits /\ q.bookmarks = p.bookmarks
    BY <1>3 DEF PrefsType
  <2> HIDE DEF q
  <2>2. Good(q)
    BY <2>1 DEF Good
  <2> QED
    BY <2>2 DEF q
<1> QED
  BY <1>4, <1>5, <1>6 DEF none

-----------------------------------------------------------------------------

Saving == {"seal", "sync", "rename", "dirsync"}
Outside == {"off", "open", "mkkey", "load"}

(* The session: nothing is held before it has begun, what it holds is good, and it
   saves with the key of the device alone. *)
SessionOK ==
    /\ Good(prefs) /\ rw \in BOOLEAN /\ quitting \in BOOLEAN /\ nkey \in Nat
    /\ pc \in Outside \cup {"idle"} \cup Saving
    /\ pc \in Outside => prefs = Defaults /\ ~rw
    /\ pc \in Saving => rw
    /\ pc \in {"sync", "rename"} => tmp = Sealed(key, prefs)

KeyOK(kk) ==
    /\ Dir(ddir, log, kk)
    /\ pc = "load" \/ rw => key = kk /\ (ddir["key"] # Absent \/ log # <<>>)
    /\ pc = "mkkey" => ddir["key"] = Absent /\ log = <<>>

ProfileInv == SessionOK /\ \E kk : KeyOK(kk)

LEMMA ProfileBegins ==
    ASSUME ProfileAssumption, Init
    PROVE  ProfileInv
<1>1. SessionOK
  BY GoodDefaults DEF Init, SessionOK, Outside, Saving
<1>2. KeyOK(0)
  <2>1. ddir = [f \in {"key", "prefs"} |-> Absent] /\ log = <<>> /\ pc = "off" /\ rw = FALSE
    BY DEF Init
  <2>2. DOMAIN ddir = {"key", "prefs"} /\ ddir["key"] = Absent /\ ddir["prefs"] = Absent
    BY <2>1
  <2>3. log \in Seq(Renames(0)) /\ Len(log) = 0
    BY <2>1
  <2>4. Dir(ddir, log, 0)
    BY <2>1, <2>2, <2>3 DEF Dir
  <2> QED
    BY <2>1, <2>4 DEF KeyOK
<1> QED
  BY <1>1, <1>2 DEF ProfileInv

(* What is visible, and what a stop leaves, is again a directory with one key. *)
LEMMA DirStays ==
    ASSUME NEW d, NEW l, NEW kk, Dir(d, l, kk), NEW n \in 0 .. Len(l), NEW e, e = After(d, l, n)
    PROVE  /\ Dir(e, <<>>, kk)
           /\ d["key"] # Absent \/ n # 0 => e["key"] # Absent
<1>1. /\ DOMAIN e = {"key", "prefs"}
      /\ e["key"] = IF d["key"] = Absent /\ n = 0 THEN Absent ELSE KeyFile(kk)
      /\ e["prefs"] \in {Absent} \cup SealedWith(kk)
      /\ e["key"] = Absent => e["prefs"] = Absent
  BY DirAt
<1>2. Dir(e, <<>>, kk)
  <2>1. <<>> \in Seq(Renames(kk)) /\ Len(<<>>) = 0
    OBVIOUS
  <2> QED
    BY <1>1, <2>1 DEF Dir
<1>3. Absent # KeyFile(kk)
  BY Contents
<1> QED
  BY <1>1, <1>2, <1>3

(* The system writes one rename: the directory and what is left again know one key. *)
LEMMA DirWrites ==
    ASSUME NEW d, NEW l, NEW kk, Dir(d, l, kk), l # <<>>, NEW e, e = After(d, l, 1)
    PROVE  Dir(e, Tail(l), kk) /\ e["key"] # Absent
<1>0. /\ l \in Seq(Renames(kk)) /\ Len(l) \in Nat /\ 1 \in 0 .. Len(l)
      /\ \A i \in 1 .. Len(l) : l[i].file = "key" => i = 1 /\ d["key"] = Absent
  BY DEF Dir
<1>1. /\ DOMAIN e = {"key", "prefs"} /\ e["key"] = KeyFile(kk)
      /\ e["prefs"] \in {Absent} \cup SealedWith(kk)
  BY <1>0, DirAt
<1>2. e["key"] # Absent
  BY <1>1, Contents
<1> DEFINE r == Tail(l)
<1>3. r \in Seq(Renames(kk)) /\ Len(r) = Len(l) - 1 /\ \A i \in 1 .. Len(r) : r[i] = l[i + 1] /\ i + 1 \in 1 .. Len(l)
  BY <1>0
<1> HIDE DEF r
<1>4. \A i \in 1 .. Len(r) : r[i].file # "key"
  <2> SUFFICES ASSUME NEW i \in 1 .. Len(r) PROVE r[i].file # "key"
    OBVIOUS
  <2>1. i + 1 # 1
    BY <1>3
  <2> QED
    BY <1>0, <1>3, <2>1
<1>5. Dir(e, r, kk)
  BY <1>1, <1>2, <1>3, <1>4 DEF Dir
<1> QED
  BY <1>2, <1>5 DEF r

(* What the program sees of the directory. *)
LEMMA VisibleIs ==
    ASSUME NEW kk, Dir(ddir, log, kk)
    PROVE  /\ Len(log) \in 0 .. Len(log) /\ Visible = After(ddir, log, Len(log))
           /\ Visible["key"] = IF ddir["key"] = Absent /\ log = <<>> THEN Absent ELSE KeyFile(kk)
           /\ Visible["prefs"] \in {Absent} \cup SealedWith(kk)
<1>1. Len(log) \in 0 .. Len(log) /\ (Len(log) = 0 <=> log = <<>>)
  BY DEF Dir
<1>2. Visible = After(ddir, log, Len(log))
  BY DEF Visible
<1> QED
  BY <1>1, <1>2, DirAt

(* profile_save returns to the window or to the end of the session. *)
LEMMA ReturnedKeeps ==
    ASSUME ProfileAssumption, SessionOK, Returned, pc \in Saving, nkey' = nkey
    PROVE  /\ SessionOK' /\ pc' \in {"off", "idle"}
           /\ rw' => rw /\ key' = key
           /\ pc' = "idle" => prefs' = prefs
           /\ pc' = "off" => ~rw'
  BY GoodDefaults DEF SessionOK, Returned, Saving, Outside

(* The steps that leave the directory and the renames alone. *)
LEMMA SessionSteps ==
    ASSUME ProfileAssumption, ProfileInv,
           \/ Launch \/ OpenKey \/ MakeKeyFails \/ Load
           \/ (\E u \in URLs : Visit(u) \/ Bookmark(u))
           \/ RememberHistory \/ (\E z \in Zooms : Setting(z)) \/ Quit
           \/ Seal \/ SyncFile \/ SaveFails
    PROVE  ProfileInv'
<1> PICK kk : KeyOK(kk)
  BY DEF ProfileInv
<1>s. SessionOK
  BY DEF ProfileInv
<1>v. /\ Visible["key"] = IF ddir["key"] = Absent /\ log = <<>> THEN Absent ELSE KeyFile(kk)
      /\ Visible["prefs"] \in {Absent} \cup SealedWith(kk)
  BY VisibleIs DEF KeyOK
<1>c. /\ Absent # KeyFile(kk) /\ Absent.is = "absent" /\ KeyFile(kk).is = "key" /\ KeyFile(kk).key = kk
      /\ \A c \in SealedWith(kk) : c.is = "sealed" /\ c.key = kk
  BY Contents
<1>k. /\ Dir(ddir, log, kk)
      /\ pc = "load" \/ rw => key = kk /\ (ddir["key"] # Absent \/ log # <<>>)
      /\ pc = "mkkey" => ddir["key"] = Absent /\ log = <<>>
  BY DEF KeyOK
<1> SUFFICES ddir' = ddir /\ log' = log /\ SessionOK'
             /\ (pc' = "load" \/ rw' => key' = kk /\ (ddir["key"] # Absent \/ log # <<>>))
             /\ (pc' = "mkkey" => ddir["key"] = Absent /\ log = <<>>)
  <2>1. KeyOK(kk)'
    BY <1>k DEF KeyOK
  <2> QED
    BY <2>1 DEF ProfileInv
<1> USE DEF Outside, Saving
<1>1. CASE Launch
  BY <1>1, <1>s, <1>k DEF Launch, SessionOK
<1>2. CASE OpenKey
  <2>1. pc = "open" /\ ~rw /\ prefs = Defaults
    BY <1>2, <1>s DEF OpenKey, OpenKeyOr, SessionOK
  <2>2. /\ prefs' = prefs /\ rw' = rw /\ quitting' = quitting /\ ddir' = ddir /\ log' = log /\ tmp' = tmp
        /\ nkey' = nkey
    BY <1>2 DEF OpenKey, OpenKeyOr
  <2>3. \/ Visible["key"].is = "key" /\ key' = Visible["key"].key /\ pc' = "load"
        \/ Visible["key"].is = "absent" /\ pc' = "mkkey" /\ key' = key
        \/ pc' = "idle" /\ key' = key
    BY <1>2 DEF OpenKey, OpenKeyOr
  <2>4. SessionOK'
    BY <1>s, <2>1, <2>2, <2>3 DEF SessionOK
  <2> QED
    BY <1>v, <1>c, <2>1, <2>2, <2>3, <2>4
<1>3. CASE MakeKeyFails
  BY <1>3, <1>s, <1>k DEF MakeKeyFails, SessionOK
<1>4. CASE Load
  <2>1. pc = "load" /\ pc' = "idle" /\ UNCHANGED <<key, quitting, ddir, log, tmp, nkey>>
    BY <1>4 DEF Load
  <2>2. \/ /\ rw' = (Visible["prefs"].is = "absent" \/ Opens(Visible, key))
           /\ prefs' = IF Opens(Visible, key) THEN ReadPrefs(Visible) ELSE Defaults
        \/ rw' = FALSE /\ prefs' = Defaults
    BY <1>4 DEF Load
  <2>3. Good(prefs')
    <3>1. CASE prefs' = Defaults
      BY <3>1, GoodDefaults
    <3>2. CASE Opens(Visible, key) /\ prefs' = ReadPrefs(Visible)
      <4> DEFINE c == Visible["prefs"]
      <4>1. c.is = "sealed"
        BY <3>2 DEF Opens
      <4>2. c \in SealedWith(kk)
        BY <1>v, <1>c, <4>1
      <4>3. prefs' = [Parse(c.text) EXCEPT !.visits = c.visits]
        BY <3>2 DEF ReadPrefs
      <4> HIDE DEF c
      <4>4. prefs' = PrefsOf(c) /\ Good(PrefsOf(c))
        BY <4>2, <4>3, PrefsOfGood
      <4> QED
        BY <4>4
    <3> QED
      BY <2>2, <3>1, <3>2
  <2>4. rw' \in BOOLEAN
    BY <2>2
  <2>5. SessionOK'
    BY <1>s, <2>1, <2>3, <2>4 DEF SessionOK
  <2> QED
    BY <1>k, <2>1, <2>5
<1>5. ASSUME NEW u \in URLs, Visit(u) PROVE ddir' = ddir /\ log' = log /\ SessionOK'
             /\ (pc' = "load" \/ rw' => key' = kk /\ (ddir["key"] # Absent \/ log # <<>>))
             /\ (pc' = "mkkey" => ddir["key"] = Absent /\ log = <<>>)
  <2>1. /\ prefs' = [prefs EXCEPT !.history = HistoryAdd(@, u), !.visits = <<u>> \o @]
        /\ pc = "idle" /\ pc' = IF rw THEN "seal" ELSE "idle"
        /\ UNCHANGED <<key, rw, quitting, ddir, log, tmp, nkey>>
    BY <1>5 DEF Visit, SaveOrNot
  <2>2. Good(prefs')
    BY <1>s, <2>1, GoodVisit DEF SessionOK
  <2>3. SessionOK'
    BY <1>s, <2>1, <2>2 DEF SessionOK
  <2> QED
    BY <1>k, <2>1, <2>3
<1>6. ASSUME NEW u \in URLs, Bookmark(u) PROVE ddir' = ddir /\ log' = log /\ SessionOK'
             /\ (pc' = "load" \/ rw' => key' = kk /\ (ddir["key"] # Absent \/ log # <<>>))
             /\ (pc' = "mkkey" => ddir["key"] = Absent /\ log = <<>>)
  <2>1. /\ prefs' = [prefs EXCEPT !.bookmarks = BookmarkToggle(@, u)]
        /\ pc = "idle" /\ pc' = IF rw THEN "seal" ELSE "idle"
        /\ UNCHANGED <<key, rw, quitting, ddir, log, tmp, nkey>>
    BY <1>6 DEF Bookmark, SaveOrNot
  <2>2. Good(prefs')
    BY <1>s, <2>1, GoodBookmark DEF SessionOK
  <2>3. SessionOK'
    BY <1>s, <2>1, <2>2 DEF SessionOK
  <2> QED
    BY <1>k, <2>1, <2>3
<1>7. CASE RememberHistory
  <2>1. /\ prefs' = IF prefs.rem THEN [prefs EXCEPT !.rem = FALSE, !.history = <<>>, !.visits = <<>>]
                             ELSE [prefs EXCEPT !.rem = TRUE]
        /\ pc = "idle" /\ pc' = IF rw THEN "seal" ELSE "idle"
        /\ UNCHANGED <<key, rw, quitting, ddir, log, tmp, nkey>>
    BY <1>7 DEF RememberHistory, SaveOrNot
  <2>2. Good(prefs')
    BY <1>s, <2>1, GoodOthers DEF SessionOK
  <2>3. SessionOK'
    BY <1>s, <2>1, <2>2 DEF SessionOK
  <2> QED
    BY <1>k, <2>1, <2>3
<1>8. ASSUME NEW z \in Zooms, Setting(z) PROVE ddir' = ddir /\ log' = log /\ SessionOK'
             /\ (pc' = "load" \/ rw' => key' = kk /\ (ddir["key"] # Absent \/ log # <<>>))
             /\ (pc' = "mkkey" => ddir["key"] = Absent /\ log = <<>>)
  <2>1. /\ prefs' = [prefs EXCEPT !.zoom = z]
        /\ pc = "idle" /\ pc' = IF rw THEN "seal" ELSE "idle"
        /\ UNCHANGED <<key, rw, quitting, ddir, log, tmp, nkey>>
    BY <1>8 DEF Setting, SaveOrNot
  <2>2. Good(prefs')
    BY <1>s, <2>1, GoodOthers DEF SessionOK
  <2>3. SessionOK'
    BY <1>s, <2>1, <2>2 DEF SessionOK
  <2> QED
    BY <1>k, <2>1, <2>3
<1>9. CASE Quit
  BY <1>9, <1>s, <1>k, GoodDefaults DEF Quit, SessionOK
<1>10. CASE Seal
  BY <1>10, <1>s, <1>k DEF Seal, SessionOK
<1>11. CASE SyncFile
  BY <1>11, <1>s, <1>k DEF SyncFile, SessionOK
<1>12. CASE SaveFails
  <2>1. Returned /\ pc \in Saving /\ nkey' = nkey /\ ddir' = ddir /\ log' = log
    BY <1>12 DEF SaveFails
  <2> QED
    BY <1>s, <1>k, <2>1, ReturnedKeeps
<1> QED
  BY <1>1, <1>2, <1>3, <1>4, <1>5, <1>6, <1>7, <1>8, <1>9, <1>10, <1>11, <1>12

(* The steps that change the directory or the renames under way. *)
LEMMA DiskSteps ==
    ASSUME ProfileAssumption, ProfileInv,
           MakeKey \/ Rename \/ SyncDirectory \/ Crash \/ WriteBack
    PROVE  ProfileInv'
<1> PICK kk : KeyOK(kk)
  BY DEF ProfileInv
<1>s. SessionOK
  BY DEF ProfileInv
<1>k. /\ Dir(ddir, log, kk)
      /\ pc = "load" \/ rw => key = kk /\ (ddir["key"] # Absent \/ log # <<>>)
      /\ pc = "mkkey" => ddir["key"] = Absent /\ log = <<>>
  BY DEF KeyOK
<1>d. /\ DOMAIN ddir = {"key", "prefs"} /\ log \in Seq(Renames(kk)) /\ Len(log) \in Nat
      /\ ddir["key"] \in {Absent, KeyFile(kk)} /\ ddir["prefs"] \in {Absent} \cup SealedWith(kk)
      /\ ddir["key"] = Absent => ddir["prefs"] = Absent /\ (log # <<>> => log[1].file = "key")
      /\ \A i \in 1 .. Len(log) : log[i].file = "key" => i = 1 /\ ddir["key"] = Absent
  BY <1>k DEF Dir
<1> USE DEF Outside, Saving
<1>1. CASE MakeKey
  <2>0. PICK k2 : k2 = Keys[nkey + 1]
    OBVIOUS
  <2> DEFINE r == [file |-> "key", content |-> KeyFile(k2)]
  <2>1. /\ pc = "mkkey" /\ pc' = "load" /\ key' = k2 /\ log' = Append(log, r) /\ nkey' = nkey + 1
        /\ UNCHANGED <<prefs, rw, quitting, ddir, tmp>>
    BY <1>1, <2>0 DEF MakeKey
  <2>2. ddir["key"] = Absent /\ log = <<>> /\ ddir["prefs"] = Absent /\ ~rw
    BY <1>k, <1>d, <1>s, <2>1 DEF SessionOK
  <2>3. r \in Renames(k2) /\ r.file = "key"
    BY DEF Renames
  <2> HIDE DEF r
  <2>4. log' = <<r>>
    BY <2>1, <2>2
  <2>5. log' \in Seq(Renames(k2)) /\ Len(log') = 1 /\ log'[1] = r /\ log' # <<>>
    BY <2>3, <2>4
  <2>6. Dir(ddir', log', k2)
    BY <1>d, <2>1, <2>2, <2>3, <2>5 DEF Dir
  <2>7. KeyOK(k2)'
    BY <2>1, <2>5, <2>6 DEF KeyOK
  <2>8. SessionOK'
    BY <1>s, <2>1 DEF SessionOK
  <2> QED
    BY <2>7, <2>8 DEF ProfileInv
<1>2. CASE Rename
  <2> DEFINE c == Sealed(key, prefs)
             r == [file |-> "prefs", content |-> c]
  <2>1. /\ pc = "rename" /\ pc' = "dirsync" /\ log' = Append(log, [file |-> "prefs", content |-> tmp])
        /\ UNCHANGED <<prefs, key, rw, quitting, ddir, nkey>>
    BY <1>2 DEF Rename
  <2>2. rw /\ tmp = c /\ key = kk /\ Good(prefs)
    BY <1>s, <1>k, <2>1 DEF SessionOK
  <2>3. c \in SealedWith(kk)
    BY <2>2 DEF SealedWith, GoodPrefs, Good
  <2>4. r \in Renames(kk) /\ r.file = "prefs"
    BY <2>3 DEF Renames
  <2>5. log' = Append(log, r)
    BY <2>1, <2>2
  <2> HIDE DEF c, r
  <2>6. /\ log' \in Seq(Renames(kk)) /\ Len(log') = Len(log) + 1 /\ log' # <<>> /\ log'[Len(log) + 1] = r
        /\ \A i \in 1 .. Len(log) : log'[i] = log[i]
    BY <1>d, <2>4, <2>5
  <2>7. \A i \in 1 .. Len(log') : log'[i].file = "key" => i = 1 /\ ddir["key"] = Absent
    <3> SUFFICES ASSUME NEW i \in 1 .. Len(log'), log'[i].file = "key" PROVE i = 1 /\ ddir["key"] = Absent
      OBVIOUS
    <3>1. i # Len(log) + 1
      BY <2>4, <2>6
    <3>2. i \in 1 .. Len(log)
      BY <1>d, <2>6, <3>1
    <3> QED
      BY <1>d, <2>6, <3>2
  <2>8. ddir["key"] = Absent => log'[1].file = "key"
    <3> SUFFICES ASSUME ddir["key"] = Absent PROVE log'[1].file = "key"
      OBVIOUS
    <3>1. log # <<>> /\ log[1].file = "key"
      BY <1>k, <1>d, <2>2
    <3>2. 1 \in 1 .. Len(log)
      BY <1>d, <3>1
    <3> QED
      BY <2>6, <3>1, <3>2
  <2>9. Dir(ddir', log', kk)
    BY <1>d, <2>1, <2>6, <2>7, <2>8 DEF Dir
  <2>10. KeyOK(kk)'
    BY <1>k, <2>1, <2>2, <2>6, <2>9 DEF KeyOK
  <2>11. SessionOK'
    BY <1>s, <2>1 DEF SessionOK
  <2> QED
    BY <2>10, <2>11 DEF ProfileInv
<1>3. CASE SyncDirectory
  <2>1. /\ pc = "dirsync" /\ Returned /\ nkey' = nkey
        /\ (ddir' = Visible /\ log' = <<>>) \/ (ddir' = ddir /\ log' = log)
    BY <1>3 DEF SyncDirectory
  <2>2. /\ SessionOK' /\ pc' \in {"off", "idle"}
        /\ rw' => rw /\ key' = key
    BY <1>s, <2>1, ReturnedKeeps
  <2>3. CASE ddir' = ddir /\ log' = log
    <3>1. KeyOK(kk)'
      BY <1>k, <2>2, <2>3 DEF KeyOK
    <3> QED
      BY <2>2, <3>1 DEF ProfileInv
  <2>4. CASE ddir' = Visible /\ log' = <<>>
    <3>1. Len(log) \in 0 .. Len(log) /\ Visible = After(ddir, log, Len(log)) /\ (Len(log) = 0 <=> log = <<>>)
      BY <1>d DEF Visible
    <3>2. Dir(ddir', <<>>, kk) /\ (ddir["key"] # Absent \/ Len(log) # 0 => ddir'["key"] # Absent)
      BY <1>k, <2>4, <3>1, DirStays
    <3>3. KeyOK(kk)'
      BY <1>k, <2>2, <2>4, <3>1, <3>2 DEF KeyOK
    <3> QED
      BY <2>2, <3>3 DEF ProfileInv
  <2> QED
    BY <2>1, <2>3, <2>4
<1>4. CASE Crash
  <2>1. PICK n \in 0 .. Len(log) : ddir' = After(ddir, log, n)
    BY <1>4 DEF Crash
  <2>2. /\ log' = <<>> /\ pc' = "off" /\ quitting' = FALSE /\ prefs' = Defaults /\ rw' = FALSE
        /\ nkey' = nkey
    BY <1>4 DEF Crash
  <2>3. Dir(ddir', <<>>, kk)
    BY <1>k, <2>1, DirStays
  <2>4. KeyOK(kk)'
    BY <2>2, <2>3 DEF KeyOK
  <2>5. SessionOK'
    BY <1>s, <2>2, GoodDefaults DEF SessionOK
  <2> QED
    BY <2>4, <2>5 DEF ProfileInv
<1>5. CASE WriteBack
  <2>1. /\ log # <<>> /\ ddir' = After(ddir, log, 1) /\ log' = Tail(log)
        /\ UNCHANGED <<prefs, key, rw, pc, quitting, tmp, nkey>>
    BY <1>5 DEF WriteBack
  <2>2. Dir(ddir', log', kk) /\ ddir'["key"] # Absent
    BY <1>k, <2>1, DirWrites
  <2>3. KeyOK(kk)'
    BY <1>k, <2>1, <2>2 DEF KeyOK
  <2>4. SessionOK'
    BY <1>s, <2>1 DEF SessionOK
  <2> QED
    BY <2>3, <2>4 DEF ProfileInv
<1> QED
  BY <1>1, <1>2, <1>3, <1>4, <1>5

LEMMA ProfileSteps ==
    ASSUME ProfileAssumption, ProfileInv, [Next]_vars
    PROVE  ProfileInv'
<1>1. CASE UNCHANGED vars
  <2>1. /\ prefs' = prefs /\ key' = key /\ rw' = rw /\ pc' = pc /\ quitting' = quitting
        /\ ddir' = ddir /\ log' = log /\ tmp' = tmp /\ nkey' = nkey
    BY <1>1 DEF vars
  <2> QED
    BY <2>1 DEF ProfileInv, SessionOK, KeyOK
<1> QED
  BY <1>1, SessionSteps, DiskSteps DEF Next

(* The invariant is strong enough for what the run checks. *)
LEMMA ProfileInvKeeps ==
    ASSUME ProfileAssumption, ProfileInv
    PROVE  ProfileKept
<1> PICK kk : KeyOK(kk)
  BY DEF ProfileInv
<1>1. HistoryRecent
  BY DEF ProfileInv, SessionOK, Good, HistoryRecent
<1>2. ASSUME NEW n \in 0 .. Len(log)
      PROVE  LET d == After(ddir, log, n)
             IN d.prefs.is # "absent" => d.key.is = "key" /\ Opens(d, d.key.key)
  <2> DEFINE d == After(ddir, log, n)
  <2>1. /\ d["key"] \in {Absent, KeyFile(kk)} /\ d["prefs"] \in {Absent} \cup SealedWith(kk)
        /\ d["key"] = Absent => d["prefs"] = Absent
    BY DirAt DEF KeyOK
  <2> HIDE DEF d
  <2>2. d["prefs"].is # "absent" => d["key"].is = "key" /\ d["prefs"].is = "sealed" /\ d["prefs"].key = d["key"].key
    BY <2>1, Contents
  <2> QED
    BY <2>2 DEF Opens, d
<1> QED
  BY <1>1, <1>2 DEF ProfileKept, OpensAgain

(* The history is the recent pages, once each, and whenever the machine stops the
   profile opens again with the key that is on the disk (prefs_history_add,
   profile_open, ds_write).  *)
THEOREM KeepsProfile == ASSUME ProfileAssumption PROVE Spec => []ProfileKept
<1>1. Init => ProfileInv
  BY ProfileBegins
<1>2. ProfileInv /\ [Next]_vars => ProfileInv'
  BY ProfileSteps
<1>3. ProfileInv => ProfileKept
  BY ProfileInvKeeps
<1> QED
  BY <1>1, <1>2, <1>3, PTL DEF Spec

-----------------------------------------------------------------------------

(* The rename of the key is no save. *)
KeyFirst(l) == IF l # <<>> /\ l[1].file = "key" THEN 1 ELSE 0

(* What was saved, value by value: the disk first, then each rename of prefs.bin. *)
LEMMA SavedIs ==
    ASSUME ProfileAssumption, NEW d, NEW l, NEW kk, Dir(d, l, kk)
    PROVE  /\ SavedIn(d, l) \in Seq(PrefsType) /\ KeyFirst(l) \in 0 .. Len(l)
           /\ Len(SavedIn(d, l)) = Len(l) - KeyFirst(l) + 1
           /\ SavedIn(d, l)[1] = PrefsOf(d["prefs"])
           /\ \A k \in 1 .. Len(l) - KeyFirst(l) : SavedIn(d, l)[k + 1] = PrefsOf(l[k + KeyFirst(l)].content)
<1> DEFINE off == KeyFirst(l)
           rs == IF l # <<>> /\ l[1].file = "key" THEN Tail(l) ELSE l
           cs == [k \in 1 .. Len(rs) |-> rs[k].content]
           one == <<d["prefs"]>>
           left == one \o cs
           S == {Absent} \cup SealedWith(kk)
<1>0. /\ l \in Seq(Renames(kk)) /\ Len(l) \in Nat /\ d["prefs"] \in S
      /\ \A i \in 1 .. Len(l) : l[i].file = "key" => i = 1
  BY DEF Dir
<1>1. SavedIn(d, l) = [k \in 1 .. Len(left) |-> PrefsOf(left[k])]
  BY DEF SavedIn
<1>2. /\ rs \in Seq(Renames(kk)) /\ Len(rs) = Len(l) - off /\ off \in 0 .. Len(l) /\ off \in {0, 1}
      /\ \A k \in 1 .. Len(rs) : rs[k] = l[k + off] /\ k + off \in 1 .. Len(l)
  BY <1>0 DEF KeyFirst
<1>3. \A k \in 1 .. Len(rs) : rs[k].content \in S /\ rs[k].content = l[k + off].content
  <2> SUFFICES ASSUME NEW k \in 1 .. Len(rs) PROVE rs[k].content \in S /\ rs[k].content = l[k + off].content
    OBVIOUS
  <2>1. l[k + off].file # "key"
    <3>1. CASE off = 0
      <4>1. l = <<>> \/ l[1].file # "key"
        BY <3>1 DEF KeyFirst
      <4> QED
        BY <1>0, <1>2, <3>1, <4>1
    <3>2. CASE off = 1
      <4>1. k + off # 1
        BY <1>2, <3>2
      <4> QED
        BY <1>0, <1>2, <4>1
    <3> QED
      BY <1>2, <3>1, <3>2
  <2>2. rs[k] = l[k + off] /\ rs[k] \in Renames(kk)
    BY <1>2
  <2> QED
    BY <2>1, <2>2, Contents
<1> HIDE DEF rs, off
<1>4. Len(rs) \in Nat
  BY <1>2
<1>5. cs \in Seq(S) /\ Len(cs) = Len(rs) /\ \A k \in 1 .. Len(rs) : cs[k] = rs[k].content
  BY <1>3, <1>4
<1>6. one \in Seq(S) /\ Len(one) = 1 /\ one[1] = d["prefs"]
  BY <1>0
<1> HIDE DEF cs, one, S
<1>7. left \in Seq(S) /\ Len(left) = 1 + Len(rs)
  <2>1. left \in Seq(S) /\ Len(left) = Len(one) + Len(cs)
    BY <1>5, <1>6, ConcatProperties
  <2> QED
    BY <1>5, <1>6, <2>1
<1>8. \A i \in 1 .. Len(one) + Len(cs) : (one \o cs)[i] = IF i <= Len(one) THEN one[i] ELSE cs[i - Len(one)]
  <2>1. one \in Seq(S) /\ cs \in Seq(S)
    BY <1>5, <1>6
  <2> QED
    BY ONLY <2>1, ConcatProperties
<1>9. left[1] = d["prefs"]
  <2>0. left = one \o cs
    OBVIOUS
  <2> HIDE DEF left
  <2>1. 1 \in 1 .. Len(one) + Len(cs) /\ 1 <= Len(one)
    BY <1>4, <1>5, <1>6
  <2> QED
    BY <1>6, <1>8, <2>0, <2>1
<1>10. ASSUME NEW k \in 1 .. Len(rs) PROVE left[k + 1] = l[k + off].content
  <2>0. left = one \o cs
    OBVIOUS
  <2> HIDE DEF left
  <2>1. k + 1 \in 1 .. Len(one) + Len(cs) /\ ~(k + 1 <= Len(one)) /\ (k + 1) - Len(one) = k
    BY <1>4, <1>5, <1>6
  <2> QED
    BY <1>3, <1>5, <1>8, <2>0, <2>1
<1>11. \A c \in S : PrefsOf(c) \in PrefsType
  BY PrefsOfGood DEF S
<1> HIDE DEF left
<1>12. \A i \in 1 .. Len(left) : left[i] \in S
  BY <1>7
<1> DEFINE sv == [k \in 1 .. Len(left) |-> PrefsOf(left[k])]
<1>13. sv \in Seq(PrefsType) /\ Len(sv) = Len(left) /\ \A k \in 1 .. Len(left) : sv[k] = PrefsOf(left[k])
  BY <1>4, <1>7, <1>11, <1>12
<1> HIDE DEF sv
<1>14. SavedIn(d, l) = sv
  BY <1>1 DEF sv
<1>15. Len(sv) = Len(l) - off + 1
  BY <1>0, <1>2, <1>7, <1>13
<1>16. sv[1] = PrefsOf(d["prefs"])
  BY <1>4, <1>7, <1>9, <1>13
<1>17. ASSUME NEW k \in 1 .. Len(l) - off PROVE sv[k + 1] = PrefsOf(l[k + off].content)
  <2>1. k \in 1 .. Len(rs) /\ k + 1 \in 1 .. Len(left)
    BY <1>2, <1>4, <1>7
  <2> QED
    BY <1>10, <1>13, <2>1
<1> QED
  BY <1>2, <1>13, <1>14, <1>15, <1>16, <1>17 DEF off

(* What a directory after n renames reads is one of the values saved. *)
LEMMA SavedAt ==
    ASSUME ProfileAssumption, NEW d, NEW l, NEW kk, Dir(d, l, kk), NEW n \in 0 .. Len(l)
    PROVE  LET m == IF n = 0 THEN 1 ELSE n - KeyFirst(l) + 1
           IN  /\ m \in 1 .. Len(SavedIn(d, l))
               /\ PrefsOf(After(d, l, n)["prefs"]) = SavedIn(d, l)[m]
<1> DEFINE off == KeyFirst(l)
           m == IF n = 0 THEN 1 ELSE n - off + 1
           e == After(d, l, n)
           sv == SavedIn(d, l)
<1>1. e["prefs"] = IF n = 0 \/ l[n].file = "key" THEN d["prefs"] ELSE l[n].content
  BY DirAt
<1>2. /\ Len(sv) = Len(l) - off + 1 /\ off \in 0 .. Len(l) /\ sv[1] = PrefsOf(d["prefs"])
      /\ \A k \in 1 .. Len(l) - off : sv[k + 1] = PrefsOf(l[k + off].content)
  BY SavedIs
<1>3. /\ Len(l) \in Nat /\ off \in {0, 1} /\ (off = 1 <=> l # <<>> /\ l[1].file = "key")
      /\ \A i \in 1 .. Len(l) : l[i].file = "key" => i = 1
  BY DEF Dir, KeyFirst
<1> HIDE DEF off, e, sv
<1>4. CASE n = 0
  <2>1. m = 1 /\ m \in 1 .. Len(sv)
    BY <1>2, <1>3, <1>4
  <2> QED
    BY <1>1, <1>2, <1>4, <2>1 DEF off, e, sv
<1>5. CASE n # 0 /\ l[n].file = "key"
  <2>1. n = 1 /\ l # <<>>
    BY <1>3, <1>5
  <2>2. off = 1
    BY <1>3, <1>5, <2>1
  <2>3. m = 1 /\ m \in 1 .. Len(sv)
    BY <1>2, <1>3, <2>1, <2>2
  <2> QED
    BY <1>1, <1>2, <1>5, <2>3 DEF off, e, sv
<1>6. CASE n # 0 /\ l[n].file # "key"
  <2>1. off = 0 \/ n # 1
    BY <1>3, <1>6
  <2>2. n - off \in 1 .. Len(l) - off /\ (n - off) + off = n /\ m = (n - off) + 1 /\ m \in 1 .. Len(sv)
    <3>1. CASE off = 0
      <4>1. n \in 1 .. Len(l) /\ m = n + 1
        BY <1>3, <1>6, <3>1
      <4> QED
        BY <1>2, <1>3, <3>1, <4>1
    <3>2. CASE off = 1
      <4>1. n \in 2 .. Len(l) /\ m = n
        BY <1>3, <1>6, <2>1, <3>2
      <4> QED
        BY <1>2, <1>3, <3>2, <4>1
    <3> QED
      BY <1>3, <3>1, <3>2
  <2>3. sv[m] = PrefsOf(l[n].content)
    <3>1. sv[(n - off) + 1] = PrefsOf(l[(n - off) + off].content)
      BY <1>2, <2>2
    <3> QED
      BY <2>2, <3>1
  <2> QED
    BY <1>1, <1>6, <2>2, <2>3 DEF off, e, sv
<1> QED
  BY <1>4, <1>5, <1>6

(* Without a save under way there is one value. *)
LEMMA SavedAlone ==
    ASSUME ProfileAssumption, NEW d, NEW l, NEW kk, Dir(d, l, kk), Len(l) = KeyFirst(l)
    PROVE  SavedIn(d, l) = <<PrefsOf(d["prefs"])>>
<1> DEFINE sv == SavedIn(d, l)
           x == PrefsOf(d["prefs"])
<1>1. sv \in Seq(PrefsType) /\ Len(sv) = Len(l) - KeyFirst(l) + 1 /\ sv[1] = x /\ KeyFirst(l) \in 0 .. Len(l)
  BY SavedIs
<1>2. Len(l) \in Nat
  BY DEF Dir
<1>3. x \in PrefsType
  BY PrefsOfGood DEF Dir
<1> HIDE DEF sv, x
<1>4. Len(sv) = 1
  BY <1>1, <1>2
<1>5. <<x>> \in Seq(PrefsType) /\ Len(<<x>>) = 1 /\ <<x>>[1] = x
  BY <1>3
<1> DEFINE one == <<x>>
<1> HIDE DEF one
<1>a. one \in Seq(PrefsType) /\ Len(one) = 1 /\ one[1] = x
  BY <1>5 DEF one
<1>b. Len(sv) = Len(one) /\ \A i \in 1 .. Len(sv) : sv[i] = one[i]
  BY <1>1, <1>4, <1>a
<1>c. sv = one
  BY <1>1, <1>a, <1>b, SeqEqual
<1>6. sv = <<x>>
  BY <1>c DEF one
<1> QED
  BY <1>6 DEF sv, x

(* What a stop after n renames leaves is one of the values saved. *)
LEMMA SavedStops ==
    ASSUME ProfileAssumption, NEW d, NEW l, NEW kk, Dir(d, l, kk), NEW n \in 0 .. Len(l),
           NEW e, e = After(d, l, n)
    PROVE  \E m \in 1 .. Len(SavedIn(d, l)) :
              /\ SavedIn(e, <<>>) = <<SavedIn(d, l)[m]>>
              /\ n = Len(l) => m = Len(SavedIn(d, l))
<1>0. PICK m : m = IF n = 0 THEN 1 ELSE n - KeyFirst(l) + 1
  OBVIOUS
<1>1. m \in 1 .. Len(SavedIn(d, l)) /\ PrefsOf(e["prefs"]) = SavedIn(d, l)[m]
  BY <1>0, SavedAt
<1>2. Dir(e, <<>>, kk)
  BY DirStays
<1>3. Len(<<>>) = KeyFirst(<<>>)
  BY DEF KeyFirst
<1>4. SavedIn(e, <<>>) = <<PrefsOf(e["prefs"])>>
  BY <1>2, <1>3, SavedAlone
<1>5. n = Len(l) => m = Len(SavedIn(d, l))
  <2>1. Len(SavedIn(d, l)) = Len(l) - KeyFirst(l) + 1 /\ KeyFirst(l) \in 0 .. Len(l)
    BY SavedIs
  <2>2. Len(l) \in Nat
    BY DEF Dir
  <2> QED
    BY <1>0, <2>1, <2>2
<1> QED
  BY <1>1, <1>4, <1>5

Appends(w, s, x) == w = Append(s, x)

(* A save adds its value at the end. *)
LEMMA SavedAppend ==
    ASSUME ProfileAssumption, NEW d, NEW l, NEW kk, Dir(d, l, kk), NEW r, r.file # "key",
           NEW l2, Appends(l2, l, r), Dir(d, l2, kk)
    PROVE  Appends(SavedIn(d, l2), SavedIn(d, l), PrefsOf(r.content))
<1> DEFINE sv == SavedIn(d, l)
           sw == SavedIn(d, l2)
           x == PrefsOf(r.content)
           ap == Append(sv, x)
<1>1. /\ sv \in Seq(PrefsType) /\ KeyFirst(l) \in 0 .. Len(l) /\ Len(sv) = Len(l) - KeyFirst(l) + 1
      /\ sv[1] = PrefsOf(d["prefs"])
      /\ \A k \in 1 .. Len(l) - KeyFirst(l) : sv[k + 1] = PrefsOf(l[k + KeyFirst(l)].content)
  BY SavedIs
<1>2. /\ sw \in Seq(PrefsType) /\ KeyFirst(l2) \in 0 .. Len(l2) /\ Len(sw) = Len(l2) - KeyFirst(l2) + 1
      /\ sw[1] = PrefsOf(d["prefs"])
      /\ \A k \in 1 .. Len(l2) - KeyFirst(l2) : sw[k + 1] = PrefsOf(l2[k + KeyFirst(l2)].content)
  BY SavedIs
<1>3. l \in Seq(Renames(kk)) /\ l2 \in Seq(Renames(kk)) /\ Len(l) \in Nat
  BY DEF Dir
<1>4. Len(l2) = Len(l) + 1 /\ l2[Len(l) + 1] = r /\ \A i \in 1 .. Len(l) : l2[i] = l[i]
  BY <1>3 DEF Appends
<1>5. KeyFirst(l2) = KeyFirst(l)
  <2>1. CASE l = <<>>
    <3>1. l2[1] = r
      BY <1>4, <2>1
    <3> QED
      BY <2>1, <3>1 DEF KeyFirst
  <2>2. CASE l # <<>>
    <3>1. l2[1] = l[1] /\ l2 # <<>>
      BY <1>3, <1>4, <2>2
    <3> QED
      BY <2>2, <3>1 DEF KeyFirst
  <2> QED
    BY <2>1, <2>2
<1>6. PICK off : off = KeyFirst(l)
  OBVIOUS
<1> HIDE DEF sv, sw, x, ap
<1>7. off \in 0 .. Len(l) /\ Len(sv) = Len(l) - off + 1 /\ Len(sw) = Len(sv) + 1 /\ Len(sv) \in Nat
  BY <1>1, <1>2, <1>3, <1>4, <1>5, <1>6
<1>8. sw[Len(sv) + 1] = x
  <2>1. Len(sv) \in 1 .. Len(l2) - off /\ Len(sv) + off = Len(l) + 1
    BY <1>3, <1>4, <1>7
  <2>2. sw[Len(sv) + 1] = PrefsOf(l2[Len(sv) + off].content)
    BY <1>2, <1>5, <1>6, <2>1
  <2> QED
    BY <1>4, <2>1, <2>2 DEF x
<1>9. ASSUME NEW i \in 1 .. Len(sv) PROVE sw[i] = sv[i]
  <2>1. CASE i = 1
    BY <1>1, <1>2, <2>1
  <2>2. CASE i # 1
    <3>1. PICK k \in 1 .. Len(l) - off : i = k + 1
      <4>1. i - 1 \in 1 .. Len(l) - off /\ i = (i - 1) + 1
        BY <1>3, <1>7, <2>2
      <4> QED
        BY <4>1
    <3>2. k \in 1 .. Len(l2) - off /\ k + off \in 1 .. Len(l)
      BY <1>3, <1>4, <1>7
    <3>3. sw[k + 1] = PrefsOf(l2[k + off].content) /\ sv[k + 1] = PrefsOf(l[k + off].content)
      BY <1>1, <1>2, <1>5, <1>6, <3>2
    <3> QED
      BY <1>4, <3>1, <3>2, <3>3
  <2> QED
    BY <2>1, <2>2
<1>10. x \in PrefsType
  <2>1. Len(sv) + 1 \in 1 .. Len(sw)
    BY <1>7
  <2> QED
    BY <1>2, <1>8, <2>1
<1>11. /\ ap \in Seq(PrefsType) /\ Len(ap) = Len(sv) + 1 /\ ap[Len(sv) + 1] = x
       /\ \A i \in 1 .. Len(sv) : ap[i] = sv[i]
  BY <1>1, <1>10 DEF ap
<1>12. Len(sw) = Len(ap) /\ \A i \in 1 .. Len(sw) : sw[i] = ap[i]
  <2> SUFFICES ASSUME NEW i \in 1 .. Len(sw) PROVE sw[i] = ap[i]
    BY <1>7, <1>11
  <2>1. i \in 1 .. Len(sv) \/ i = Len(sv) + 1
    BY <1>7
  <2> QED
    BY <1>8, <1>9, <1>11, <2>1
<1>13. sw = ap
  BY <1>2, <1>11, <1>12, SeqEqual
<1> QED
  BY <1>13 DEF Appends, sw, ap, sv, x

(* The write of a rename by the system forgets the oldest value, or nothing. *)
LEMMA SavedWritten ==
    ASSUME ProfileAssumption, NEW d, NEW l, NEW kk, Dir(d, l, kk), l # <<>>, NEW e, e = After(d, l, 1)
    PROVE  \E k \in 1 .. Len(SavedIn(d, l)) : SavedIn(e, Tail(l)) = SubSeq(SavedIn(d, l), k, Len(SavedIn(d, l)))
<1> DEFINE r == Tail(l)
           sv == SavedIn(d, l)
           sw == SavedIn(e, r)
<1>0. Dir(e, r, kk)
  BY DirWrites
<1>1. /\ sv \in Seq(PrefsType) /\ KeyFirst(l) \in 0 .. Len(l) /\ Len(sv) = Len(l) - KeyFirst(l) + 1
      /\ sv[1] = PrefsOf(d["prefs"])
      /\ \A k \in 1 .. Len(l) - KeyFirst(l) : sv[k + 1] = PrefsOf(l[k + KeyFirst(l)].content)
  BY SavedIs
<1>2. /\ sw \in Seq(PrefsType) /\ KeyFirst(r) \in 0 .. Len(r) /\ Len(sw) = Len(r) - KeyFirst(r) + 1
      /\ sw[1] = PrefsOf(e["prefs"])
      /\ \A k \in 1 .. Len(r) - KeyFirst(r) : sw[k + 1] = PrefsOf(r[k + KeyFirst(r)].content)
  BY <1>0, SavedIs
<1>3. /\ l \in Seq(Renames(kk)) /\ Len(l) \in Nat /\ Len(l) >= 1
      /\ \A i \in 1 .. Len(l) : l[i].file = "key" => i = 1
  BY DEF Dir
<1>4. r \in Seq(Renames(kk)) /\ Len(r) = Len(l) - 1 /\ \A i \in 1 .. Len(r) : r[i] = l[i + 1] /\ i + 1 \in 1 .. Len(l)
  BY <1>3
<1>5. KeyFirst(r) = 0
  <2> HIDE DEF r
  <2>1. CASE r = <<>>
    BY <2>1 DEF KeyFirst
  <2>2. CASE r # <<>>
    <3>1. 1 \in 1 .. Len(r) /\ 1 + 1 # 1
      BY <1>4, <2>2
    <3>2. r[1].file # "key"
      BY <1>3, <1>4, <3>1
    <3> QED
      BY <3>2 DEF KeyFirst
  <2> QED
    BY <2>1, <2>2
<1>6. e["prefs"] = IF l[1].file = "key" THEN d["prefs"] ELSE l[1].content
  <2>1. 1 \in 0 .. Len(l) /\ 1 # 0
    BY <1>3
  <2> QED
    BY <2>1, DirAt
<1> HIDE DEF r, sv, sw
<1>7. Len(sw) = Len(l) /\ \A k \in 1 .. Len(l) - 1 : sw[k + 1] = PrefsOf(l[k + 1].content)
  <2>1. Len(sw) = Len(l)
    BY <1>2, <1>3, <1>4, <1>5
  <2>2. ASSUME NEW k \in 1 .. Len(l) - 1 PROVE sw[k + 1] = PrefsOf(l[k + 1].content)
    <3>1. k \in 1 .. Len(r) - KeyFirst(r) /\ k + KeyFirst(r) = k /\ k \in 1 .. Len(r)
      BY <1>3, <1>4, <1>5
    <3>2. sw[k + 1] = PrefsOf(r[k + KeyFirst(r)].content)
      BY <1>2, <3>1
    <3> QED
      BY <1>4, <3>1, <3>2
  <2> QED
    BY <2>1, <2>2
<1>8. CASE l[1].file = "key"
  <2>1. KeyFirst(l) = 1
    BY <1>8 DEF KeyFirst
  <2>2. Len(sv) = Len(l) /\ sw[1] = sv[1]
    BY <1>1, <1>2, <1>3, <1>6, <1>8, <2>1
  <2>3. ASSUME NEW i \in 1 .. Len(sw) PROVE sw[i] = sv[i]
    <3>1. CASE i = 1
      BY <2>2, <3>1
    <3>2. CASE i # 1
      <4>1. PICK k \in 1 .. Len(l) - 1 : i = k + 1
        <5>1. i - 1 \in 1 .. Len(l) - 1 /\ i = (i - 1) + 1
          BY <1>3, <1>7, <3>2
        <5> QED
          BY <5>1
      <4>2. sv[k + 1] = PrefsOf(l[k + 1].content)
        BY <1>1, <2>1
      <4> QED
        BY <1>7, <4>1, <4>2
    <3> QED
      BY <3>1, <3>2
  <2>4. sw = sv
    BY <1>1, <1>2, <1>7, <2>2, <2>3, SeqEqual
  <2>5. SubSeq(sv, 1, Len(sv)) = sv
    <3> DEFINE u == SubSeq(sv, 1, Len(sv))
    <3>1. u \in Seq(PrefsType) /\ Len(u) = Len(sv) /\ \A i \in 1 .. Len(u) : u[i] = sv[i]
      BY <1>1, <1>3, <2>2
    <3> HIDE DEF u
    <3>2. u = sv
      BY <1>1, <3>1, SeqEqual
    <3> QED
      BY <3>2 DEF u
  <2>6. 1 \in 1 .. Len(sv)
    BY <1>3, <2>2
  <2>7. sw = SubSeq(sv, 1, Len(sv))
    BY <2>4, <2>5
  <2> QED
    BY <2>6, <2>7 DEF sw, sv, r
<1>9. CASE l[1].file # "key"
  <2>1. KeyFirst(l) = 0
    BY <1>9 DEF KeyFirst
  <2>2. Len(sv) = Len(l) + 1 /\ \A k \in 1 .. Len(l) : sv[k + 1] = PrefsOf(l[k].content)
    <3>1. ASSUME NEW k \in 1 .. Len(l) PROVE sv[k + 1] = PrefsOf(l[k].content)
      <4>1. k \in 1 .. Len(l) - KeyFirst(l) /\ k + KeyFirst(l) = k
        BY <1>3, <2>1
      <4>2. sv[k + 1] = PrefsOf(l[k + KeyFirst(l)].content)
        BY <1>1, <4>1
      <4> QED
        BY <4>1, <4>2
    <3>2. Len(sv) = Len(l) + 1
      BY <1>1, <1>3, <2>1
    <3> QED
      BY <3>1, <3>2
  <2>3. ASSUME NEW i \in 1 .. Len(l) PROVE sw[i] = PrefsOf(l[i].content)
    <3>1. CASE i = 1
      BY <1>2, <1>6, <1>9, <3>1
    <3>2. CASE i # 1
      <4>1. PICK k \in 1 .. Len(l) - 1 : i = k + 1
        <5>1. i - 1 \in 1 .. Len(l) - 1 /\ i = (i - 1) + 1
          BY <1>3, <3>2
        <5> QED
          BY <5>1
      <4> QED
        BY <1>7, <4>1
    <3> QED
      BY <3>1, <3>2
  <2> DEFINE u == SubSeq(sv, 2, Len(sv))
  <2>4. u \in Seq(PrefsType) /\ Len(u) = Len(l) /\ \A i \in 1 .. Len(l) : u[i] = sv[i + 1]
    BY <1>1, <1>3, <2>2
  <2> HIDE DEF u
  <2>5. Len(sw) = Len(u) /\ \A i \in 1 .. Len(sw) : sw[i] = u[i]
    BY <1>7, <2>2, <2>3, <2>4
  <2>6. sw = u
    BY <1>2, <2>4, <2>5, SeqEqual
  <2>7. 2 \in 1 .. Len(sv)
    BY <1>3, <2>2
  <2>8. sw = SubSeq(sv, 2, Len(sv))
    BY <2>6 DEF u
  <2> QED
    BY <2>7, <2>8 DEF sw, sv, r
<1> QED
  BY <1>8, <1>9

(* What the register sees of a step: its value changes by a step of it, or not. *)
RegisterStep == Register!Next \/ (SavedValues' = SavedValues /\ Held' = Held)

(* A step that leaves the disk alone: a session starts from what was saved last or
   from the defaults, changes what it holds, or ends. *)
LEMMA MemorySteps ==
    ASSUME ProfileAssumption, SessionOK', ddir' = ddir, log' = log,
           \/ pc' \in Outside
           \/ pc \notin Outside
           \/ pc \in Outside /\ prefs' \in {Defaults, SavedValues[Len(SavedValues)]}
    PROVE  RegisterStep
<1>1. SavedValues' = SavedValues
  BY DEF SavedValues
<1>2. prefs' \in PrefsType
  BY DEF SessionOK, Good
<1>3. CASE pc' \in Outside
  <2>1. Held' = <<>>
    BY <1>3 DEF Held, Outside
  <2>2. Register!Stop
    BY <1>1, <2>1 DEF Register!Stop
  <2> QED
    BY <2>2 DEF RegisterStep, Register!Next
<1>4. CASE pc \notin Outside /\ pc' \notin Outside
  <2>1. Held = <<prefs>> /\ Held' = <<prefs'>>
    BY <1>4 DEF Held, Outside
  <2>2. Held # <<>> /\ Len(Held') = 1 /\ Held'[1] = prefs'
    BY <2>1
  <2>3. Register!Change
    BY <1>1, <1>2, <2>2 DEF Register!Change, PrefsType
  <2> QED
    BY <2>3 DEF RegisterStep, Register!Next
<1>5. CASE pc \in Outside /\ pc' \notin Outside
  <2>1. Held = <<>> /\ Held' = <<prefs'>>
    BY <1>5 DEF Held, Outside
  <2>2. CASE prefs' = Defaults
    <3>1. Register!StartEmpty
      BY <1>1, <2>1, <2>2 DEF Register!StartEmpty
    <3> QED
      BY <3>1 DEF RegisterStep, Register!Next
  <2>3. CASE prefs' = SavedValues[Len(SavedValues)]
    <3>1. Register!Start
      BY <1>1, <2>1, <2>3 DEF Register!Start
    <3> QED
      BY <3>1 DEF RegisterStep, Register!Next
  <2> QED
    BY <1>5, <2>2, <2>3
<1> QED
  BY <1>3, <1>4, <1>5

(* profile_load takes what was saved last. *)
LEMMA LoadsLast ==
    ASSUME ProfileAssumption, NEW kk, Dir(ddir, log, kk), NEW k, Opens(Visible, k)
    PROVE  ReadPrefs(Visible) = SavedValues[Len(SavedValues)]
<1>1. Len(log) \in 0 .. Len(log) /\ Visible = After(ddir, log, Len(log))
  BY VisibleIs
<1>2. Visible["prefs"] \in {Absent} \cup SealedWith(kk) /\ Visible["prefs"].is = "sealed"
  BY VisibleIs DEF Opens
<1>3. Visible["prefs"] \in SealedWith(kk)
  BY <1>2, Contents
<1>4. PrefsOf(Visible["prefs"]) = ReadPrefs(Visible)
  BY <1>2, <1>3, PrefsOfGood DEF ReadPrefs
<1>5. PICK m : m = IF Len(log) = 0 THEN 1 ELSE Len(log) - KeyFirst(log) + 1
  OBVIOUS
<1>6. PrefsOf(Visible["prefs"]) = SavedIn(ddir, log)[m]
  BY <1>1, <1>5, SavedAt
<1>7. m = Len(SavedIn(ddir, log))
  <2>1. Len(SavedIn(ddir, log)) = Len(log) - KeyFirst(log) + 1 /\ KeyFirst(log) \in 0 .. Len(log)
    BY SavedIs
  <2>2. Len(log) \in Nat
    BY DEF Dir
  <2> QED
    BY <1>5, <2>1, <2>2
<1> QED
  BY <1>4, <1>6, <1>7 DEF SavedValues

(* Steps of the session are steps of the register. *)
LEMMA SessionRefines ==
    ASSUME ProfileAssumption, ProfileInv, ProfileInv',
           \/ Launch \/ OpenKey \/ MakeKeyFails \/ Load
           \/ (\E u \in URLs : Visit(u) \/ Bookmark(u))
           \/ RememberHistory \/ (\E z \in Zooms : Setting(z)) \/ Quit
           \/ Seal \/ SyncFile \/ SaveFails
    PROVE  RegisterStep
<1> PICK kk : KeyOK(kk)
  BY DEF ProfileInv
<1>s. SessionOK /\ SessionOK'
  BY DEF ProfileInv
<1>d. ddir' = ddir /\ log' = log
  BY DEF Launch, OpenKey, OpenKeyOr, MakeKeyFails, Load, Visit, Bookmark, RememberHistory, Setting, Quit,
         Seal, SyncFile, SaveFails
<1> USE DEF Outside
<1>1. CASE Launch \/ OpenKey \/ MakeKeyFails
  <2>1. pc \in Outside /\ prefs' = prefs
    BY <1>1 DEF Launch, OpenKey, OpenKeyOr, MakeKeyFails
  <2>2. prefs' = Defaults
    BY <1>s, <2>1 DEF SessionOK
  <2> QED
    BY <1>s, <1>d, <2>1, <2>2, MemorySteps
<1>2. CASE Load
  <2>1. pc \in Outside /\ (prefs' = Defaults \/ (Opens(Visible, key) /\ prefs' = ReadPrefs(Visible)))
    BY <1>2 DEF Load
  <2>2. Dir(ddir, log, kk)
    BY DEF KeyOK
  <2>3. prefs' \in {Defaults, SavedValues[Len(SavedValues)]}
    BY <2>1, <2>2, LoadsLast
  <2> QED
    BY <1>s, <1>d, <2>1, <2>3, MemorySteps
<1>3. CASE \/ (\E u \in URLs : Visit(u) \/ Bookmark(u))
           \/ RememberHistory \/ (\E z \in Zooms : Setting(z)) \/ Quit
           \/ Seal \/ SyncFile \/ SaveFails
  <2>1. pc \notin Outside
    BY <1>3 DEF Visit, Bookmark, RememberHistory, Setting, Quit, Seal, SyncFile, SaveFails
  <2> QED
    BY <1>s, <1>d, <2>1, MemorySteps
<1> QED
  BY <1>1, <1>2, <1>3

(* So are the steps on the disk: a rename saves, a sync forgets what is older, a stop keeps one value. *)
LEMMA DiskRefines ==
    ASSUME ProfileAssumption, ProfileInv, ProfileInv',
           MakeKey \/ Rename \/ SyncDirectory \/ Crash \/ WriteBack
    PROVE  RegisterStep
<1> PICK kk : KeyOK(kk)
  BY DEF ProfileInv
<1>s. SessionOK /\ SessionOK'
  BY DEF ProfileInv
<1>k. /\ Dir(ddir, log, kk)
      /\ pc = "load" \/ rw => key = kk /\ (ddir["key"] # Absent \/ log # <<>>)
      /\ pc = "mkkey" => ddir["key"] = Absent /\ log = <<>>
  BY DEF KeyOK
<1>l. log \in Seq(Renames(kk)) /\ Len(log) \in Nat /\ Len(log) \in 0 .. Len(log)
  BY <1>k DEF Dir
<1>v. SavedValues \in Seq(PrefsType) /\ Len(SavedValues) \in Nat
  BY <1>k, SavedIs DEF SavedValues
<1>1. CASE MakeKey
  <2>0. PICK r : r.file = "key" /\ log' = Append(log, r)
    BY <1>1 DEF MakeKey
  <2>1. pc = "mkkey" /\ pc' = "load" /\ ddir' = ddir
    BY <1>1 DEF MakeKey
  <2>2. log = <<>>
    BY <1>k, <2>1
  <2>3. PICK k2 : Dir(ddir', log', k2)
    BY DEF ProfileInv, KeyOK
  <2>4. log' = <<r>>
    BY <2>0, <2>2
  <2>5. Len(log') = KeyFirst(log') /\ Len(log) = KeyFirst(log)
    BY <2>0, <2>2, <2>4 DEF KeyFirst
  <2>6. SavedIn(ddir', log') = <<PrefsOf(ddir'["prefs"])>>
    BY <2>3, <2>5, SavedAlone
  <2>7. SavedIn(ddir, log) = <<PrefsOf(ddir["prefs"])>>
    BY <1>k, <2>5, SavedAlone
  <2>8. Held' = Held
    BY <2>1 DEF Held
  <2>9. SavedValues' = SavedValues
    BY <2>1, <2>6, <2>7 DEF SavedValues
  <2> QED
    BY <2>8, <2>9 DEF RegisterStep
<1>2. CASE Rename
  <2>0. PICK r : r = [file |-> "prefs", content |-> tmp]
    OBVIOUS
  <2>1. pc = "rename" /\ pc' = "dirsync" /\ ddir' = ddir /\ prefs' = prefs /\ log' = Append(log, r)
    BY <1>2, <2>0 DEF Rename
  <2>2. r.file # "key" /\ r.content = Sealed(key, prefs) /\ Good(prefs)
    BY <1>s, <2>0, <2>1 DEF SessionOK
  <2>3. PrefsOf(r.content) = prefs
    BY <2>2, SealedReads
  <2>4. PICK l2 : l2 = log'
    OBVIOUS
  <2>5. Dir(ddir, l2, kk) /\ Appends(l2, log, r)
    <3>1. rw /\ key = kk
      BY <1>s, <1>k, <2>1 DEF SessionOK, Saving
    <3>2. PICK k3 : KeyOK(k3)'
      BY DEF ProfileInv
    <3>3. Dir(ddir', log', k3) /\ (rw' => key' = k3)
      BY <3>2 DEF KeyOK
    <3>4. rw' /\ key' = key
      BY <1>2, <3>1 DEF Rename
    <3> QED
      BY <2>1, <2>4, <3>1, <3>3, <3>4 DEF Appends
  <2>6. Appends(SavedIn(ddir, l2), SavedIn(ddir, log), PrefsOf(r.content))
    BY <1>k, <2>2, <2>5, SavedAppend
  <2>7. SavedValues' = Append(SavedValues, prefs)
    BY <2>1, <2>3, <2>4, <2>6 DEF Appends, SavedValues
  <2>8. Held = <<prefs>> /\ Held' = Held
    BY <2>1 DEF Held
  <2>9. Held # <<>> /\ Held[1] = prefs
    BY <2>8
  <2>10. Register!Save
    BY <2>7, <2>8, <2>9 DEF Register!Save
  <2> QED
    BY <2>10 DEF RegisterStep, Register!Next
<1>3. CASE SyncDirectory
  <2>1. /\ pc = "dirsync" /\ Returned
        /\ (ddir' = Visible /\ log' = <<>>) \/ (ddir' = ddir /\ log' = log)
    BY <1>3 DEF SyncDirectory
  <2>2. pc' \in Outside \/ Held' = Held
    BY <2>1 DEF Returned, Held, Outside
  <2>3. CASE ddir' = ddir /\ log' = log
    <3>1. pc \notin Outside
      BY <2>1 DEF Outside
    <3> QED
      BY <1>s, <2>3, <3>1, MemorySteps
  <2>4. CASE ddir' = Visible /\ log' = <<>>
    <3>1. ddir' = After(ddir, log, Len(log))
      BY <2>4 DEF Visible
    <3>2. PICK m \in 1 .. Len(SavedIn(ddir, log)) :
              /\ SavedIn(ddir', <<>>) = <<SavedIn(ddir, log)[m]>>
              /\ Len(log) = Len(log) => m = Len(SavedIn(ddir, log))
      BY <1>k, <1>l, <3>1, SavedStops
    <3>3. m \in 1 .. Len(SavedValues) /\ m = Len(SavedValues) /\ SavedValues' = <<SavedValues[m]>>
      BY <2>4, <3>2 DEF SavedValues
    <3>4. CASE pc' \in Outside
      <4>1. Held' = <<>>
        BY <3>4 DEF Held, Outside
      <4>2. Register!Crash
        BY <3>3, <4>1 DEF Register!Crash
      <4> QED
        BY <4>2 DEF RegisterStep, Register!Next
    <3>5. CASE Held' = Held
      <4>1. SubSeq(SavedValues, m, Len(SavedValues)) = <<SavedValues[m]>>
        <5> DEFINE sv == SavedValues
        <5> HIDE DEF sv
        <5>1. sv \in Seq(PrefsType) /\ m \in 1 .. Len(sv) /\ m = Len(sv)
          BY <1>v, <3>3 DEF sv
        <5>2. SubSeq(sv, m, m) = <<sv[m]>>
          <6> DEFINE u == SubSeq(sv, m, m)
                     o == <<sv[m]>>
          <6>1. u \in Seq(PrefsType) /\ Len(u) = 1 /\ u[1] = sv[m]
            BY <5>1
          <6>2. o \in Seq(PrefsType) /\ Len(o) = 1 /\ o[1] = sv[m]
            BY <5>1
          <6> HIDE DEF u, o
          <6>3. Len(u) = Len(o) /\ \A i \in 1 .. Len(u) : u[i] = o[i]
            BY <6>1, <6>2
          <6>4. u = o
            BY <6>1, <6>2, <6>3, SeqEqual
          <6> QED
            BY <6>4 DEF u, o
        <5> QED
          BY <3>3, <5>2 DEF sv
      <4>2. Register!Sync
        BY <3>3, <3>5, <4>1 DEF Register!Sync
      <4> QED
        BY <4>2 DEF RegisterStep, Register!Next
    <3> QED
      BY <2>2, <3>4, <3>5
  <2> QED
    BY <2>1, <2>3, <2>4
<1>4. CASE Crash
  <2>1. PICK n \in 0 .. Len(log) : ddir' = After(ddir, log, n)
    BY <1>4 DEF Crash
  <2>2. log' = <<>> /\ pc' = "off"
    BY <1>4 DEF Crash
  <2>3. PICK m \in 1 .. Len(SavedIn(ddir, log)) : SavedIn(ddir', <<>>) = <<SavedIn(ddir, log)[m]>>
    BY <1>k, <2>1, SavedStops
  <2>4. m \in 1 .. Len(SavedValues) /\ SavedValues' = <<SavedValues[m]>>
    BY <2>2, <2>3 DEF SavedValues
  <2>5. Held' = <<>>
    BY <2>2 DEF Held
  <2>6. Register!Crash
    BY <2>4, <2>5 DEF Register!Crash
  <2> QED
    BY <2>6 DEF RegisterStep, Register!Next
<1>5. CASE WriteBack
  <2>1. /\ log # <<>> /\ ddir' = After(ddir, log, 1) /\ log' = Tail(log)
        /\ pc' = pc /\ prefs' = prefs
    BY <1>5 DEF WriteBack
  <2>2. PICK k \in 1 .. Len(SavedIn(ddir, log)) :
            SavedIn(ddir', Tail(log)) = SubSeq(SavedIn(ddir, log), k, Len(SavedIn(ddir, log)))
    BY <1>k, <2>1, SavedWritten
  <2>3. k \in 1 .. Len(SavedValues) /\ SavedValues' = SubSeq(SavedValues, k, Len(SavedValues))
    BY <2>1, <2>2 DEF SavedValues
  <2>4. Held' = Held
    BY <2>1 DEF Held
  <2>5. Register!Sync
    BY <2>3, <2>4 DEF Register!Sync
  <2> QED
    BY <2>5 DEF RegisterStep, Register!Next
<1> QED
  BY <1>1, <1>2, <1>3, <1>4, <1>5

(* Both begin with the defaults. *)
LEMMA RegisterBegins ==
    ASSUME ProfileAssumption, Init
    PROVE  Register!Init
<1>1. ddir = [f \in {"key", "prefs"} |-> Absent] /\ log = <<>> /\ pc = "off"
  BY DEF Init
<1>2. PICK kk : Dir(ddir, log, kk)
  BY ProfileBegins DEF ProfileInv, KeyOK
<1>3. Len(log) = KeyFirst(log)
  BY <1>1 DEF KeyFirst
<1>4. SavedIn(ddir, log) = <<PrefsOf(ddir["prefs"])>>
  BY <1>2, <1>3, SavedAlone
<1>5. PrefsOf(ddir["prefs"]) = Defaults
  BY <1>1, PrefsOfGood
<1>6. SavedValues = <<Defaults>> /\ Held = <<>>
  BY <1>1, <1>4, <1>5 DEF SavedValues, Held
<1> QED
  BY <1>6 DEF Register!Init

(* Every save is whole or absent, and a session starts from one that was made: the
   temporary file, sync and rename of ds_write, the key file and the parser of the
   profile implement a register that survives stops. *)
THEOREM AtomicSaves == ASSUME ProfileAssumption PROVE Spec => SavesAtomic
<1>1. Init => ProfileInv /\ Register!Init
  BY ProfileBegins, RegisterBegins
<1>2. ProfileInv /\ [Next]_vars => ProfileInv'
  BY ProfileSteps
<1>3. ProfileInv /\ ProfileInv' /\ [Next]_vars => [Register!Next]_(Register!vars)
  <2> SUFFICES ASSUME ProfileInv, ProfileInv', [Next]_vars PROVE RegisterStep
    BY DEF RegisterStep, Register!vars
  <2>1. CASE UNCHANGED vars
    BY <2>1 DEF RegisterStep, vars, SavedValues, Held
  <2> QED
    BY <2>1, SessionRefines, DiskRefines DEF Next
<1> QED
  BY <1>1, <1>2, <1>3, PTL DEF Spec, SavesAtomic, Register!Spec

(***************************************************************************)
(* PageEvents.  What a page's handlers ask for is done for that page and   *)
(* no other, and what they stored is kept.                                 *)
(***************************************************************************)
(* What SelectInSeq finds. *)

LEMMA EntryFound ==
    ASSUME NEW s, Len(s) \in Nat, NEW o
    PROVE  LET k == Events!SelectInSeq(s, LAMBDA e : e.origin = o)
           IN  \/ k = 0 /\ \A i \in 1 .. Len(s) : s[i].origin # o
               \/ k \in 1 .. Len(s) /\ s[k].origin = o /\ \A i \in 1 .. k - 1 : s[i].origin # o
<1> DEFINE I == {i \in 1 .. Len(s) : s[i].origin = o}
<1>1. Events!SelectInSeq(s, LAMBDA e : e.origin = o) = IF I # {} THEN Events!Min(I) ELSE 0
  BY DEF Events!SelectInSeq
<1>2. CASE I = {}
  BY <1>1, <1>2
<1>3. CASE I # {}
  <2>0. I \in SUBSET Nat
    OBVIOUS
  <2> HIDE DEF I
  <2>1. \E x \in I : \A y \in I : x <= y
    BY <1>3, <2>0, NatMin
  <2> USE DEF I
  <2>2. Events!Min(I) \in I /\ \A y \in I : Events!Min(I) <= y
    BY <2>1 DEF Events!Min
  <2> DEFINE m == Events!Min(I)
  <2>3. m \in I /\ \A y \in I : m <= y
    BY <2>2
  <2> HIDE DEF m
  <2>4. m \in 1 .. Len(s) /\ s[m].origin = o
    BY <2>3
  <2>5. ASSUME NEW i \in 1 .. m - 1 PROVE s[i].origin # o
    BY <2>3, <2>4
  <2>6. Events!SelectInSeq(s, LAMBDA e : e.origin = o) = m
    BY <1>1, <1>3 DEF m
  <2> QED
    BY <2>4, <2>5, <2>6
<1> QED
  BY <1>2, <1>3

Writes == [by : Origins, id : Nat]
Entry == [origin : Trusted, val : SUBSET Writes]

(* Every entry of s but that of o, and the oldest one of a full store, is in t. *)
Survive(s, o, t) ==
    \A k \in 1 .. Len(s) : s[k].origin # o /\ (k # 1 \/ Len(s) # MaxOrigins) =>
        \E i \in 1 .. Len(t) : t[i] = s[k]

Distinct(s) == \A i, j \in 1 .. Len(s) : s[i].origin = s[j].origin => i = j
Replaced(s, o, v, t) ==
    /\ t \in Seq(Entry) /\ Len(t) <= MaxOrigins /\ Len(t) > 0 /\ Distinct(t)
    /\ t[Len(t)] = [origin |-> o, val |-> v]
    /\ \A i \in 1 .. Len(t) - 1 : \E j \in 1 .. Len(s) : t[i] = s[j] /\ s[j].origin # o

(* wst_replace: one entry for each site, the one just written last, at most MaxOrigins. *)
LEMMA PutKeeps ==
    ASSUME NEW s \in Seq(Entry), NEW o \in Trusted, NEW v \in SUBSET Writes, Distinct(s),
           MaxOrigins \in Nat \ {0}, Len(s) <= MaxOrigins,
           NEW t, t = Events!Put(s, o, v)
    PROVE  Replaced(s, o, v, t) /\ Survive(s, o, t)
<1>0. \A i, j \in 1 .. Len(s) : s[i].origin = s[j].origin => i = j
  BY DEF Distinct
<1> DEFINE mine == Events!SelectInSeq(s, LAMBDA e : e.origin = o)
           new == [origin |-> o, val |-> v]
           rest == IF mine # 0 THEN Events!RemoveAt(s, mine)
                   ELSE IF Len(s) >= MaxOrigins THEN Tail(s) ELSE s
<1>1. t = Append(rest, new)
  BY DEF Events!Put
<1>2. \/ mine = 0 /\ \A i \in 1 .. Len(s) : s[i].origin # o
      \/ mine \in 1 .. Len(s) /\ s[mine].origin = o
  <2>1. Len(s) \in Nat
    OBVIOUS
  <2> QED
    BY <2>1, EntryFound
<1> HIDE DEF mine
<1>3. new \in Entry /\ new.origin = o
  BY DEF Entry
<1> SUFFICES
      /\ rest \in Seq(Entry) /\ Len(rest) < MaxOrigins
      /\ \A i, j \in 1 .. Len(rest) : rest[i].origin = rest[j].origin => i = j
      /\ \A i \in 1 .. Len(rest) : \E j \in 1 .. Len(s) : rest[i] = s[j] /\ s[j].origin # o
      /\ \A k \in 1 .. Len(s) : s[k].origin # o /\ (k # 1 \/ Len(s) # MaxOrigins) =>
            \E i \in 1 .. Len(rest) : rest[i] = s[k]
  <2> HIDE DEF rest, new
  <2>1. t \in Seq(Entry) /\ Len(t) = Len(rest) + 1 /\ Len(rest) \in Nat
    BY <1>1, <1>3
  <2>2. t[Len(t)] = new /\ \A i \in 1 .. Len(t) - 1 : i \in 1 .. Len(rest) /\ t[i] = rest[i]
    BY <1>1, <1>3, <2>1
  <2>3. \A i \in 1 .. Len(t) - 1 : \E j \in 1 .. Len(s) : t[i] = s[j] /\ s[j].origin # o
    BY <2>2
  <2>4. \A i, j \in 1 .. Len(t) : t[i].origin = t[j].origin => i = j
    <3> SUFFICES ASSUME NEW i \in 1 .. Len(t), NEW j \in 1 .. Len(t), t[i].origin = t[j].origin
                 PROVE  i = j
      OBVIOUS
    <3>1. \A k \in 1 .. Len(t) : k # Len(t) => k \in 1 .. Len(t) - 1
      BY <2>1
    <3>2. \A k \in 1 .. Len(t) - 1 : t[k].origin # o
      BY <2>3
    <3>3. t[Len(t)].origin = o
      BY <2>2, <1>3
    <3>4. CASE i # Len(t) /\ j # Len(t)
      BY <2>2, <3>1, <3>4
    <3> QED
      BY <3>1, <3>2, <3>3, <3>4
  <2>5. ASSUME NEW k \in 1 .. Len(s), s[k].origin # o, k # 1 \/ Len(s) # MaxOrigins
        PROVE  \E i \in 1 .. Len(t) : t[i] = s[k]
    <3>1. PICK i \in 1 .. Len(rest) : rest[i] = s[k]
      BY <2>5
    <3>2. i \in 1 .. Len(t) - 1 /\ i \in 1 .. Len(t)
      BY <2>1
    <3> QED
      BY <2>2, <3>1, <3>2
  <2>7. Len(t) <= MaxOrigins /\ Len(t) > 0
    BY <2>1
  <2> QED
    BY <2>1, <2>2, <2>3, <2>4, <2>5, <2>7 DEF new, Survive, Replaced, Distinct
<1>4. CASE mine # 0
  <2>1. rest = SubSeq(s, 1, mine - 1) \o SubSeq(s, mine + 1, Len(s))
    BY <1>4 DEF Events!RemoveAt
  <2> HIDE DEF rest
  <2>2. /\ rest \in Seq(Entry) /\ Len(rest) = Len(s) - 1
        /\ \A i \in 1 .. Len(rest) : rest[i] = IF i < mine THEN s[i] ELSE s[i + 1]
    <3>1. mine \in 1 .. Len(s) /\ Len(s) \in Nat
      BY <1>2, <1>4
    <3> DEFINE a == SubSeq(s, 1, mine - 1)
               b == SubSeq(s, mine + 1, Len(s))
    <3>2. a \in Seq(Entry) /\ Len(a) = mine - 1 /\ \A i \in 1 .. mine - 1 : a[i] = s[i]
      BY <3>1
    <3>3. b \in Seq(Entry) /\ Len(b) = Len(s) - mine /\ \A i \in 1 .. Len(s) - mine : b[i] = s[mine + i]
      BY <3>1
    <3> HIDE DEF a, b
    <3>4. rest = a \o b
      BY <2>1 DEF a, b
    <3>5. rest \in Seq(Entry) /\ Len(rest) = Len(s) - 1
      <4>1. rest \in Seq(Entry) /\ Len(rest) = Len(a) + Len(b)
        <5>1. a \in Seq(Entry) /\ b \in Seq(Entry)
          BY <3>2, <3>3
        <5>2. a \o b \in Seq(Entry) /\ Len(a \o b) = Len(a) + Len(b)
          BY ONLY <5>1, ConcatProperties
        <5> QED
          BY <3>4, <5>2
      <4> QED
        BY <3>1, <3>2, <3>3, <4>1
    <3>6. ASSUME NEW i \in 1 .. Len(rest) PROVE rest[i] = IF i < mine THEN s[i] ELSE s[i + 1]
      <4>1. CASE i < mine
        <5>1. i \in 1 .. Len(a) /\ rest[i] = a[i]
          BY <3>1, <3>2, <3>3, <3>4, <3>5, <4>1
        <5> QED
          BY <3>2, <4>1, <5>1
      <4>2. CASE ~(i < mine)
        <5>1. i - (mine - 1) \in 1 .. Len(b) /\ rest[i] = b[i - (mine - 1)]
          BY <3>1, <3>2, <3>3, <3>4, <3>5, <4>2
        <5>2. mine + (i - (mine - 1)) = i + 1
          BY <3>1, <3>5
        <5> QED
          BY <3>3, <4>2, <5>1, <5>2
      <4> QED
        BY <4>1, <4>2
    <3> QED
      BY <3>5, <3>6
  <2>3. \A k \in 1 .. Len(s) : s[k].origin # o =>
            \E i \in 1 .. Len(rest) : rest[i] = s[k]
    <3> SUFFICES ASSUME NEW k \in 1 .. Len(s), s[k].origin # o
                 PROVE  \E i \in 1 .. Len(rest) : rest[i] = s[k]
      OBVIOUS
    <3>1. k # mine
      BY <1>2
    <3>2. CASE k < mine
      <4>1. k \in 1 .. Len(rest) /\ rest[k] = s[k]
        BY <1>2, <1>4, <2>2, <3>2
      <4> QED
        BY <4>1
    <3>3. CASE k > mine
      <4>1. k - 1 \in 1 .. Len(rest) /\ rest[k - 1] = s[k]
        BY <1>2, <1>4, <2>2, <3>3
      <4> QED
        BY <4>1
    <3> QED
      BY <1>2, <1>4, <3>1, <3>2, <3>3
  <2>4. \A i \in 1 .. Len(rest) : \E j \in 1 .. Len(s) : rest[i] = s[j] /\ s[j].origin # o
    <3> SUFFICES ASSUME NEW i \in 1 .. Len(rest)
                 PROVE  \E j \in 1 .. Len(s) : rest[i] = s[j] /\ s[j].origin # o
      OBVIOUS
    <3> DEFINE j == IF i < mine THEN i ELSE i + 1
    <3>1. j \in 1 .. Len(s) /\ rest[i] = s[j] /\ j # mine
      BY <1>2, <1>4, <2>2
    <3> QED
      BY <1>0, <1>2, <1>4, <3>1
  <2>5. \A i, j \in 1 .. Len(rest) : rest[i].origin = rest[j].origin => i = j
    <3> SUFFICES ASSUME NEW i \in 1 .. Len(rest), NEW j \in 1 .. Len(rest),
                        rest[i].origin = rest[j].origin
                 PROVE  i = j
      OBVIOUS
    <3> DEFINE f(k) == IF k < mine THEN k ELSE k + 1
    <3>1. f(i) \in 1 .. Len(s) /\ f(j) \in 1 .. Len(s) /\ rest[i] = s[f(i)] /\ rest[j] = s[f(j)]
      BY <1>2, <1>4, <2>2
    <3>2. f(i) = f(j)
      <4> HIDE DEF f
      <4> QED
        BY <1>0, <3>1
    <3> QED
      BY <3>2, <1>2, <1>4
  <2>6. Len(rest) < MaxOrigins
    BY <2>2
  <2> QED
    BY <2>2, <2>3, <2>4, <2>5, <2>6
<1>5. CASE mine = 0 /\ Len(s) >= MaxOrigins
  <2>1. rest = Tail(s) /\ s # <<>>
    BY <1>5
  <2> HIDE DEF rest
  <2>2. /\ rest \in Seq(Entry) /\ Len(rest) = Len(s) - 1
        /\ \A i \in 1 .. Len(rest) : rest[i] = s[i + 1]
    BY <2>1
  <2>3. ASSUME NEW k \in 1 .. Len(s), k # 1 \/ Len(s) # MaxOrigins
        PROVE  \E i \in 1 .. Len(rest) : rest[i] = s[k]
    <3>1. k - 1 \in 1 .. Len(rest) /\ rest[k - 1] = s[k]
      BY <1>5, <2>2, <2>3
    <3> QED
      BY <3>1
  <2>4. \A i \in 1 .. Len(rest) : \E j \in 1 .. Len(s) : rest[i] = s[j] /\ s[j].origin # o
    <3>1. \A i \in 1 .. Len(rest) : i + 1 \in 1 .. Len(s)
      BY <2>2
    <3> QED
      BY <1>2, <1>5, <2>2, <3>1
  <2>5. \A i, j \in 1 .. Len(rest) : rest[i].origin = rest[j].origin => i = j
    <3>1. \A i \in 1 .. Len(rest) : i + 1 \in 1 .. Len(s)
      BY <2>2
    <3>2. \A i, j \in 1 .. Len(rest) : rest[i].origin = rest[j].origin => i + 1 = j + 1
      BY <1>0, <2>2, <3>1, SMTT(20)
    <3> QED
      BY <3>2
  <2>6. Len(rest) < MaxOrigins
    BY <2>2
  <2> QED
    BY <2>2, <2>3, <2>4, <2>5, <2>6
<1>6. CASE mine = 0 /\ Len(s) < MaxOrigins
  <2>1. rest = s
    BY <1>6
  <2> HIDE DEF rest
  <2>2. \A i \in 1 .. Len(rest) : \E j \in 1 .. Len(s) : rest[i] = s[j] /\ s[j].origin # o
    BY <1>2, <1>6, <2>1
  <2>3. \A k \in 1 .. Len(s) : \E i \in 1 .. Len(rest) : rest[i] = s[k]
    BY <2>1
  <2> QED
    BY <1>0, <1>6, <2>1, <2>2, <2>3
<1>7. mine = 0 => Len(s) >= MaxOrigins \/ Len(s) < MaxOrigins
  OBVIOUS
<1> QED
  BY <1>4, <1>5, <1>6, <1>7

(* The handlers run in turn: what one handler keeps, all of them keep. *)

LEMMA RunStays ==
    ASSUME NEW W, NEW w \in W, NEW codes, NEW op, Len(codes) \in Nat,
           \A x \in W, k \in 1 .. Len(codes) : Events!RunOne(x, codes[k], op, asks + k) \in W
    PROVE  Events!Run(w, codes, op) \in W
<1> DEFINE N == Len(codes)
           R(x, k) == Events!RunOne(x, codes[k], op, asks + k)
<1>0. \A x \in W, k \in 1 .. N : R(x, k) \in W
  OBVIOUS
<1>r. Events!Run(w, codes, op) = LET after[k \in 0 .. N] == IF k = 0 THEN w ELSE R(after[k - 1], k)
                         IN  after[N]
  BY DEF Events!Run
<1>n. N \in Nat
  OBVIOUS
<1> HIDE DEF R, N
<1> DEFINE P(f, m) == f = [k \in 0 .. m |-> IF k = 0 THEN w ELSE R(f[k - 1], k)]
           T == {m \in Nat : \E f : P(f, m)}
<1>1. 0 \in T
  <2> DEFINE f == [k \in 0 .. 0 |-> w]
  <2>1. P(f, 0)
    OBVIOUS
  <2> QED
    BY <2>1
<1>2. ASSUME NEW n \in T PROVE n + 1 \in T
  <2>1. PICK f : P(f, n)
    OBVIOUS
  <2>n. n \in Nat
    OBVIOUS
  <2> DEFINE last == R(f[n], n + 1)
             h == [k \in 0 .. n + 1 |-> IF k = n + 1 THEN last ELSE f[k]]
  <2>l. last = R(f[n], n + 1)
    OBVIOUS
  <2> HIDE DEF last
  <2>2. ASSUME NEW k \in 0 .. n + 1 PROVE h[k] = IF k = 0 THEN w ELSE R(h[k - 1], k)
    <3>1. CASE k = 0
      BY <2>1, <2>n, <3>1
    <3>2. CASE k = n + 1
      <4>1. h[k] = last /\ k - 1 \in 0 .. n + 1 /\ h[k - 1] = f[n] /\ k # 0
        BY <2>n, <3>2
      <4> QED
        BY <4>1, <2>l, <3>2
    <3>3. CASE k # 0 /\ k # n + 1
      <4>1. k \in 0 .. n /\ k - 1 \in 0 .. n + 1 /\ k - 1 # n + 1
        BY <2>n, <3>3
      <4>2. h[k] = f[k] /\ h[k - 1] = f[k - 1]
        BY <4>1, <3>3
      <4>3. f[k] = R(f[k - 1], k)
        BY <2>1, <4>1, <3>3
      <4> QED
        BY <4>2, <4>3, <3>3
    <3> QED
      BY <3>1, <3>2, <3>3
  <2>3. P(h, n + 1)
    BY <2>2
  <2>4. n + 1 \in Nat
    BY <2>n
  <2> QED
    BY <2>3, <2>4
<1>3. T = Nat
  <2> HIDE DEF T
  <2>1. T \in SUBSET Nat
    BY DEF T
  <2> QED
    BY <1>1, <1>2, <2>1, Induction
<1>4. \E f : P(f, N)
  BY <1>3, <1>n
<1> DEFINE g == CHOOSE f : P(f, N)
<1>5. P(g, N)
  BY <1>4
<1>6. Events!Run(w, codes, op) = g[N]
  BY <1>r
<1> HIDE DEF g
<1> DEFINE U == {m \in Nat : m <= N => g[m] \in W}
<1>7. 0 \in U
  BY <1>5, <1>n
<1>8. ASSUME NEW m \in U PROVE m + 1 \in U
  <2> SUFFICES ASSUME m + 1 <= N PROVE g[m + 1] \in W
    OBVIOUS
  <2>1. g[m] \in W /\ m + 1 \in 1 .. N /\ m + 1 \in 0 .. N /\ m + 1 # 0 /\ (m + 1) - 1 = m
    BY <1>n
  <2>2. g[m + 1] = R(g[m], m + 1)
    BY <1>5, <2>1
  <2> QED
    BY <1>0, <2>1, <2>2
<1>9. U = Nat
  <2> HIDE DEF U
  <2>1. U \in SUBSET Nat
    BY DEF U
  <2> QED
    BY <1>7, <1>8, <2>1, Induction
<1> QED
  BY <1>6, <1>9, <1>n

OpNames == Events!Ops \cup {"load"}
Asks == [id : Nat, op : OpNames, page : Nat]
Requests == [nav : {<<>>} \cup {<<o>> : o \in Origins}, opens : Seq(Asks),
             val : SUBSET Writes, dirty : BOOLEAN]
Results == [is : {"result"}, nav : {<<>>} \cup {<<o>> : o \in Origins}, storage : BOOLEAN,
            val : SUBSET Writes, opens : Seq(Asks)]
Openings == [id : Nat, op : OpNames, by : Nat, at : Nat]

EventTypes ==
    /\ page \in [n : Nat, origin : Origins \cup {NoOrigin}] /\ live \in BOOLEAN
    /\ wk \in Requests /\ job \in {Events!NoJob} \cup Results
    /\ loading \in Origins \cup {NoOrigin} /\ asks \in Nat
    /\ store \in Seq(Entry) /\ opened \in Seq(Openings)

(* One entry for an origin, within the bound, and none with more than the page has. *)
OneEntry == \A i, j \in 1 .. Len(store) : store[i].origin = store[j].origin => i = j
PageHasAll ==
    live => \A k \in 1 .. Len(store) : store[k].origin = page.origin => store[k].val \subseteq wk.val

(* The requests that wait in the worker are the page's own, and of operations without an answer. *)
Waiting(w, n) == \A i \in 1 .. Len(w.opens) : w.opens[i].page = n /\ ~Events!Reports(w.opens[i].op)

(* A tick's result is of the page that is still there. *)
TickOfPage == job # Events!NoJob => live /\ job.val = wk.val /\ job.opens = <<>>

EventsInv ==
    /\ EventTypes /\ OneEntry /\ Len(store) <= MaxOrigins /\ PageHasAll
    /\ Waiting(wk, page.n) /\ TickOfPage
    /\ Events!OwnOrigin /\ Events!OpensFresh

(* What the page can have asked for once the handlers of an operation ran. *)
AfterRun(w, op) ==
    {x \in Requests :
        /\ w.val \subseteq x.val /\ \A y \in x.val : y.by = page'.origin
        /\ \A i \in 1 .. Len(x.opens) :
              x.opens[i].page = page'.n /\ (x.opens[i].op = op \/ ~Events!Reports(x.opens[i].op))}

(* One handler adds requests of its own page and operation, and takes nothing back. *)
LEMMA OneHandler ==
    ASSUME Events!EventsAssumption, page' \in [n : Nat, origin : Origins \cup {NoOrigin}],
           NEW op \in OpNames, NEW k \in Nat, NEW act \in Events!Acts(page'.origin),
           NEW w, NEW x \in AfterRun(w, op)
    PROVE  Events!RunOne(x, act, op, k) \in AfterRun(w, op)
<1> DEFINE y == Events!RunOne(x, act, op, k)
<1>x. /\ x \in Requests /\ w.val \subseteq x.val /\ \A z \in x.val : z.by = page'.origin
      /\ \A i \in 1 .. Len(x.opens) :
            x.opens[i].page = page'.n /\ (x.opens[i].op = op \/ ~Events!Reports(x.opens[i].op))
  BY DEF AfterRun
<1>a. \/ act.is = "none"
      \/ act.is = "nav" /\ act.to \in Origins
      \/ act.is \in {"open", "store"} /\ page'.origin \in Trusted
  BY DEF Events!Acts
<1>1. CASE act.is = "none"
  BY <1>1 DEF Events!RunOne
<1>2. CASE act.is = "nav" /\ act.to \in Origins
  <2>1. y = [x EXCEPT !.nav = <<act.to>>]
    BY <1>2 DEF Events!RunOne
  <2> HIDE DEF y
  <2>2. y \in Requests /\ y.opens = x.opens /\ y.val = x.val
    BY <1>2, <1>x, <2>1 DEF Requests
  <2>3. y \in AfterRun(w, op)
    BY <1>x, <2>2 DEF AfterRun
  <2> QED
    BY <2>3 DEF y
<1>3. CASE act.is = "open"
  <2> DEFINE ask == [id |-> k, op |-> op, page |-> page'.n]
  <2>1. y = Events!AskOpen(x, ask)
    BY <1>3 DEF Events!RunOne
  <2>2. ask \in Asks /\ ask.op = op /\ ask.page = page'.n
    BY DEF Asks
  <2>q. x.opens \in Seq(Asks)
    BY <1>x DEF Requests
  <2> HIDE DEF y, ask
  <2>3. CASE y = x
    BY <2>3 DEF y
  <2>4. CASE y = [x EXCEPT !.opens = Append(x.opens, ask)]
    <3>1. y \in Requests /\ y.opens = Append(x.opens, ask) /\ y.val = x.val
      <4> DEFINE more == Append(x.opens, ask)
      <4>1. more \in Seq(Asks)
        BY <2>2, <2>q
      <4> HIDE DEF more
      <4>2. y = [x EXCEPT !.opens = more]
        BY <2>4 DEF more
      <4>3. y \in Requests /\ y.opens = more /\ y.val = x.val
        BY <1>x, <4>1, <4>2 DEF Requests
      <4> QED
        BY <4>3 DEF more
    <3>2. ASSUME NEW i \in 1 .. Len(y.opens)
          PROVE  \/ i \in 1 .. Len(x.opens) /\ y.opens[i] = x.opens[i]
                 \/ y.opens[i] = ask
      BY <3>1, <2>2, <2>q
    <3>3. y \in AfterRun(w, op)
      BY <1>x, <2>2, <3>1, <3>2 DEF AfterRun
    <3> QED
      BY <3>3 DEF y
  <2> QED
    BY <2>1, <2>3, <2>4 DEF Events!AskOpen
<1>4. CASE act.is = "store" /\ page'.origin \in Trusted
  <2> DEFINE z == [by |-> page'.origin, id |-> k]
  <2>1. y = [x EXCEPT !.val = x.val \cup {z}, !.dirty = TRUE]
    BY <1>4 DEF Events!RunOne
  <2>2. z \in Writes /\ z.by = page'.origin
    BY <1>4 DEF Events!EventsAssumption, Writes
  <2> HIDE DEF y, z
  <2>3. y \in Requests /\ y.opens = x.opens /\ y.val = x.val \cup {z}
    BY <1>x, <2>1, <2>2 DEF Requests
  <2>4. y \in AfterRun(w, op)
    BY <1>x, <2>2, <2>3 DEF AfterRun
  <2> QED
    BY <2>4 DEF y
<1> QED
  BY <1>1, <1>2, <1>3, <1>4, <1>a

(* So do all the handlers that an operation dispatches. *)
LEMMA AllHandlers ==
    ASSUME Events!EventsAssumption, EventsInv, page' = page, NEW op \in Events!Ops,
           NEW codes \in Events!Scripts(op, page.origin)
    PROVE  Events!Run(wk, codes, op) \in AfterRun(wk, op) /\ Len(codes) \in Nat
<1> DEFINE W == AfterRun(wk, op)
<1>1. page' \in [n : Nat, origin : Origins \cup {NoOrigin}] /\ op \in OpNames /\ asks \in Nat
  BY DEF EventsInv, EventTypes, OpNames
<1>2. wk \in W
  BY DEF AfterRun, EventsInv, EventTypes, Waiting, Events!OwnOrigin
<1>3. Len(Events!Dispatches(op)) \in Nat /\ codes \in [1 .. Len(Events!Dispatches(op)) -> Events!Acts(page.origin)]
  BY DEF Events!Dispatches, Events!Scripts
<1>4. Len(codes) \in Nat /\ \A k \in 1 .. Len(codes) : codes[k] \in Events!Acts(page'.origin) /\ asks + k \in Nat
  BY <1>1, <1>3
<1>5. ASSUME NEW x \in W, NEW k \in 1 .. Len(codes) PROVE Events!RunOne(x, codes[k], op, asks + k) \in W
  BY <1>1, <1>4, OneHandler
<1> HIDE DEF W
<1>6. Events!Run(wk, codes, op) \in W
  BY <1>2, <1>4, <1>5, RunStays
<1> QED
  BY <1>4, <1>6 DEF W

(* What is seeded is the origin's own, and all that is kept of it. *)
LEMMA SeedOwn ==
    ASSUME Events!EventsAssumption, EventsInv, NEW o \in Origins
    PROVE  /\ Events!Seed(o) \in SUBSET Writes /\ \A x \in Events!Seed(o) : x.by = o
           /\ o \in Trusted => \A k \in 1 .. Len(store) : store[k].origin = o => store[k].val \subseteq Events!Seed(o)
<1> DEFINE mine == Events!SelectInSeq(store, LAMBDA e : e.origin = o)
<1>1. Events!Seed(o) = IF o \in Trusted /\ mine # 0 THEN store[mine].val ELSE {}
  BY DEF Events!Seed
<1>2. store \in Seq(Entry) /\ Len(store) \in Nat
  BY DEF EventsInv, EventTypes
<1>3. \/ mine = 0 /\ \A i \in 1 .. Len(store) : store[i].origin # o
      \/ mine \in 1 .. Len(store) /\ store[mine].origin = o
  BY <1>2, EntryFound
<1> HIDE DEF mine
<1>4. \A k \in 1 .. Len(store) : store[k].val \in SUBSET Writes
  <2> SUFFICES ASSUME NEW k \in 1 .. Len(store) PROVE store[k].val \in SUBSET Writes
    OBVIOUS
  <2>1. store[k] \in Entry
    BY <1>2
  <2> QED
    BY <2>1 DEF Entry
<1> QED
  BY <1>1, <1>3, <1>4 DEF EventsInv, Events!OwnOrigin, OneEntry

(* Every change of the store is a snapshot of an origin, with all it had. *)
StoreStep ==
    \/ store' = store
    \/ \E o \in Trusted, v \in SUBSET Writes :
          /\ store' = Events!Put(store, o, v)
          /\ \A k \in 1 .. Len(store) : store[k].origin = o => store[k].val \subseteq v
          /\ \A x \in v : x.by = o
          /\ live' /\ o = page'.origin => v \subseteq wk'.val

(* A snapshot that holds what the site had keeps the storage as it must be. *)
LEMMA StoreStepKeeps ==
    ASSUME Events!EventsAssumption, EventsInv, StoreStep, wk' \in Requests,
           live' => \/ \A k \in 1 .. Len(store) : store[k].origin = page'.origin => store[k].val \subseteq wk'.val
    PROVE  /\ store' \in Seq(Entry) /\ OneEntry' /\ Len(store') <= MaxOrigins /\ PageHasAll'
           /\ \A k \in 1 .. Len(store') : \A x \in store'[k].val : x.by = store'[k].origin
<1>0. /\ store \in Seq(Entry) /\ Len(store) <= MaxOrigins /\ MaxOrigins \in Nat \ {0}
      /\ \A i, j \in 1 .. Len(store) : store[i].origin = store[j].origin => i = j
  BY DEF EventsInv, EventTypes, OneEntry, Events!EventsAssumption
<1>1. CASE store' = store
  BY <1>1 DEF EventsInv, EventTypes, OneEntry, PageHasAll, Events!OwnOrigin
<1>2. CASE store' # store
  <2>1. PICK o \in Trusted, v \in SUBSET Writes :
          /\ store' = Events!Put(store, o, v)
          /\ \A k \in 1 .. Len(store) : store[k].origin = o => store[k].val \subseteq v
          /\ \A x \in v : x.by = o
          /\ live' /\ o = page'.origin => v \subseteq wk'.val
    BY <1>2 DEF StoreStep
  <2>2. /\ store' \in Seq(Entry) /\ Len(store') <= MaxOrigins /\ Len(store') > 0
        /\ \A i, j \in 1 .. Len(store') : store'[i].origin = store'[j].origin => i = j
        /\ store'[Len(store')] = [origin |-> o, val |-> v]
        /\ \A i \in 1 .. Len(store') - 1 : \E j \in 1 .. Len(store) : store'[i] = store[j] /\ store[j].origin # o
    <3>1. Distinct(store) /\ store' = Events!Put(store, o, v)
      BY <1>0, <2>1 DEF Distinct
    <3>2. Replaced(store, o, v, store')
      BY <1>0, <3>1, PutKeeps
    <3> QED
      BY <3>2 DEF Replaced, Distinct
  <2>3. ASSUME NEW k \in 1 .. Len(store')
        PROVE  \/ store'[k].origin = o /\ store'[k].val = v
               \/ \E j \in 1 .. Len(store) : store'[k] = store[j]
    <3>1. k = Len(store') \/ k \in 1 .. Len(store') - 1
      BY <2>2
    <3> QED
      BY <3>1, <2>2
  <2>4. \A k \in 1 .. Len(store') : \A x \in store'[k].val : x.by = store'[k].origin
    BY <2>1, <2>3 DEF EventsInv, Events!OwnOrigin
  <2>5. PageHasAll'
    BY <2>1, <2>3 DEF PageHasAll
  <2> QED
    BY <2>2, <2>4, <2>5 DEF OneEntry
<1> QED
  BY <1>1, <1>2

(* After a snapshot every site has what it had, or was the oldest of a full storage. *)
LEMMA StoreStepKeepsWrites ==
    ASSUME Events!EventsAssumption, EventsInv, StoreStep, NEW k \in 1 .. Len(store)
    PROVE  LET e == store[k]
               now == Events!SelectInSeq(store', LAMBDA x : x.origin = e.origin)
           IN IF now = 0 THEN k = 1 /\ Len(store) = MaxOrigins
              ELSE e.val \subseteq store'[now].val
<1> DEFINE e == store[k]
           now == Events!SelectInSeq(store', LAMBDA x : x.origin = e.origin)
<1>0. /\ store \in Seq(Entry) /\ Len(store) <= MaxOrigins /\ MaxOrigins \in Nat \ {0}
      /\ \A i, j \in 1 .. Len(store) : store[i].origin = store[j].origin => i = j
  BY DEF EventsInv, EventTypes, OneEntry, Events!EventsAssumption
<1>f. Len(store') \in Nat =>
      \/ now = 0 /\ \A i \in 1 .. Len(store') : store'[i].origin # e.origin
      \/ now \in 1 .. Len(store') /\ store'[now].origin = e.origin
  BY EntryFound
<1> SUFFICES IF now = 0 THEN k = 1 /\ Len(store) = MaxOrigins
             ELSE e.val \subseteq store'[now].val
  OBVIOUS
<1> HIDE DEF now
<1>1. CASE store' = store
  BY <1>0, <1>1, <1>f
<1>2. CASE store' # store
  <2>1. PICK o \in Trusted, v \in SUBSET Writes :
          /\ store' = Events!Put(store, o, v)
          /\ \A i \in 1 .. Len(store) : store[i].origin = o => store[i].val \subseteq v
    BY <1>2 DEF StoreStep
  <2>2. /\ store' \in Seq(Entry) /\ Len(store') > 0
        /\ store'[Len(store')] = [origin |-> o, val |-> v]
        /\ \A i \in 1 .. Len(store') - 1 : \E j \in 1 .. Len(store) : store'[i] = store[j] /\ store[j].origin # o
    <3>1. Distinct(store) /\ store' = Events!Put(store, o, v)
      BY <1>0, <2>1 DEF Distinct
    <3>2. Replaced(store, o, v, store')
      BY <1>0, <3>1, PutKeeps
    <3> QED
      BY <3>2 DEF Replaced
  <2>k. ASSUME e.origin # o, k # 1 \/ Len(store) # MaxOrigins
        PROVE  \E j \in 1 .. Len(store') : store'[j] = e
    <3>1. Survive(store, o, store')
      <4>1. Distinct(store) /\ store' = Events!Put(store, o, v)
        BY <1>0, <2>1 DEF Distinct
      <4> QED
        BY <1>0, <4>1, PutKeeps
    <3> QED
      BY <3>1, <2>k DEF Survive
  <2>n. Len(store') \in Nat /\ Len(store') \in 1 .. Len(store')
    BY <2>2
  <2>3. \A i \in 1 .. Len(store') : i = Len(store') \/ i \in 1 .. Len(store') - 1
    BY <2>n
  <2>4. store'[Len(store')].origin = o /\ store'[Len(store')].val = v
    BY <2>2
  <2>5. CASE now = 0
    <3>1. \A i \in 1 .. Len(store') : store'[i].origin # e.origin
      BY <1>f, <2>n, <2>5
    <3>2. e.origin # o
      BY <2>n, <2>4, <3>1
    <3> QED
      BY <1>0, <2>k, <2>5, <3>1, <3>2
  <2>6. CASE now # 0
    <3>1. now \in 1 .. Len(store') /\ store'[now].origin = e.origin
      BY <1>f, <2>n, <2>6
    <3>2. CASE e.origin = o
      <4>1. now = Len(store')
        BY <2>2, <2>3, <3>1, <3>2
      <4> QED
        BY <2>1, <2>4, <2>6, <3>2, <4>1
    <3>3. CASE e.origin # o
      <4>1. now \in 1 .. Len(store') - 1
        BY <2>3, <2>4, <3>1, <3>3
      <4>2. PICK j \in 1 .. Len(store) : store'[now] = store[j]
        BY <2>2, <4>1
      <4>3. j = k
        BY <1>0, <3>1, <4>2
      <4> QED
        BY <2>6, <4>2, <4>3
    <3> QED
      BY <3>2, <3>3
  <2> QED
    BY <2>5, <2>6
<1> QED
  BY <1>1, <1>2

(* The requests of a page that has just been loaded. *)
LEMMA FreshIs ==
    ASSUME NEW v \in SUBSET Writes
    PROVE  Events!Fresh(v) \in Requests /\ Events!Fresh(v).val = v /\ Events!Fresh(v).opens = <<>> /\ Len(Events!Fresh(v).opens) = 0
<1> DEFINE none == <<>>
<1>1. none \in Seq(Asks) /\ Len(none) = 0 /\ none \in {<<>>} \cup {<<o>> : o \in Origins}
  OBVIOUS
<1> HIDE DEF none
<1>2. Events!Fresh(v) = [nav |-> none, opens |-> none, val |-> v, dirty |-> FALSE]
  BY DEF Events!Fresh, Events!NoNav, none
<1>3. Events!Fresh(v) \in Requests
  BY <1>1, <1>2 DEF Requests
<1>4. Events!Fresh(v).val = v /\ Events!Fresh(v).opens = none
  BY <1>2
<1> QED
  BY <1>1, <1>3, <1>4 DEF none

LEMMA EventsBegin ==
    ASSUME Events!EventsAssumption, Events!Init
    PROVE  EventsInv
<1>1. page \in [n : Nat, origin : Origins \cup {NoOrigin}] /\ live = FALSE /\ loading \in Origins
  BY DEF Events!Init
<1>3. wk \in Requests /\ wk.val = {} /\ Len(wk.opens) = 0
  <2>1. wk = Events!Fresh({})
    BY DEF Events!Init
  <2> QED
    BY <2>1, FreshIs
<1>4. store = <<>> /\ opened = <<>> /\ job = Events!NoJob /\ asks = 0
  BY DEF Events!Init
<1>5. store \in Seq(Entry) /\ opened \in Seq(Openings) /\ Len(store) = 0 /\ Len(opened) = 0
  BY <1>4
<1>6. Len(store) <= MaxOrigins
  BY <1>5 DEF Events!EventsAssumption
<1>7. EventTypes
  BY <1>1, <1>3, <1>4, <1>5 DEF EventTypes
<1>8. OneEntry /\ PageHasAll /\ TickOfPage
  BY <1>1, <1>4, <1>5 DEF OneEntry, PageHasAll, TickOfPage
<1>9. Waiting(wk, page.n) /\ Events!OwnOrigin /\ Events!OpensFresh
  BY <1>3, <1>5 DEF Waiting, Events!OwnOrigin, Events!OpensFresh
<1> QED
  BY <1>6, <1>7, <1>8, <1>9 DEF EventsInv

(* A reply that is applied: the answer r, and the requests w that stay. *)
Applied(r, w) == Events!Apply(r, w, loading' \in Origins \cup {NoOrigin})

(* An answer of the worker is applied to the window. *)
LEMMA AppliedKeeps ==
    ASSUME Events!EventsAssumption, EventsInv, live, page' = page, job' = Events!NoJob, asks' \in Nat,
           NEW w \in Requests, NEW r \in Results, Applied(r, w),
           r.val = w.val, wk.val \subseteq w.val, \A x \in w.val : x.by = page.origin,
           Waiting(w, page.n),
           \A i \in 1 .. Len(r.opens) : /\ r.opens[i].page = page.n
                                        /\ Events!Gesture(r.opens[i].op) \/ ~Events!Reports(r.opens[i].op)
    PROVE  EventsInv' /\ StoreStep
<1>p. page \in [n : Nat, origin : Origins \cup {NoOrigin}] /\ page.n \in Nat
  BY DEF EventsInv, EventTypes
<1>r. r.val \in SUBSET Writes /\ r.opens \in Seq(Asks) /\ r.nav \in {<<>>} \cup {<<o>> : o \in Origins}
  BY DEF Results
<1>w. Events!Fresh({}) \in Requests /\ Events!Fresh({}).val = {} /\ Len(Events!Fresh({}).opens) = 0
  BY FreshIs
<1>0. \A k \in 1 .. Len(store) : store[k].origin = page.origin => store[k].val \subseteq w.val
  BY DEF EventsInv, PageHasAll
<1>1. CASE r.nav # Events!NoNav /\ depth < NavMax
  <2>1. loading' = r.nav[1] /\ wk' = w /\ store' = store /\ live' = live /\ opened' = opened
    BY <1>1 DEF Applied, Events!Apply
  <2>2. loading' \in Origins
    BY <1>1, <1>r, <2>1 DEF Events!NoNav
  <2> QED
    BY <1>p, <1>0, <2>1, <2>2 DEF EventsInv, EventTypes, OneEntry, PageHasAll, Waiting, TickOfPage,
       Events!OwnOrigin, Events!OpensFresh, StoreStep
<1>2. CASE ~(r.nav # Events!NoNav /\ depth < NavMax)
  <2>1. /\ Events!Collect(r)
        /\ IF r.opens # <<>> THEN Events!OpenTabs(r)
           ELSE loading' \in Origins \cup {NoOrigin} /\ wk' = w /\ live' = live /\ opened' = opened
    BY <1>2 DEF Applied, Events!Apply
  <2>2. store' = store \/ (page.origin \in Trusted /\ store' = Events!Put(store, page.origin, r.val))
    BY <2>1 DEF Events!Collect
  <2>3. (live' = FALSE /\ wk' = Events!Fresh({})) \/ wk' = w
    BY <2>1 DEF Events!OpenTabs
  <2>4. live' \in BOOLEAN /\ wk' \in Requests
    BY <2>1, <1>w DEF Events!OpenTabs, EventsInv, EventTypes
  <2>5. StoreStep
    BY <2>2, <2>3, <1>r, <1>0 DEF StoreStep
  <2>6. live' => \A k \in 1 .. Len(store) : store[k].origin = page'.origin => store[k].val \subseteq wk'.val
    BY <1>0, <2>3
  <2>7. /\ store' \in Seq(Entry) /\ OneEntry' /\ Len(store') <= MaxOrigins /\ PageHasAll'
        /\ \A k \in 1 .. Len(store') : \A x \in store'[k].val : x.by = store'[k].origin
    BY <2>4, <2>5, <2>6, StoreStepKeeps
  <2>8. Events!OwnOrigin'
    BY <2>3, <2>7, <1>w DEF Events!OwnOrigin
  <2>9. Waiting(wk', page'.n)
    BY <2>3, <1>w DEF Waiting
  <2>10. loading' \in Origins \cup {NoOrigin}
    BY <2>1 DEF Events!OpenTabs
  <2>11. opened' \in Seq(Openings) /\ Events!OpensFresh'
    <3>0. opened \in Seq(Openings)
      BY DEF EventsInv, EventTypes
    <3>1. CASE r.opens = <<>>
      BY <2>1, <3>0, <3>1 DEF EventsInv, Events!OpensFresh
    <3>2. CASE r.opens # <<>>
      <4> DEFINE new(k) == [id |-> r.opens[k].id, op |-> r.opens[k].op, by |-> r.opens[k].page, at |-> page.n]
                 more == [k \in 1 .. Len(r.opens) |-> new(k)]
      <4>1. opened' = opened \o more
        BY <2>1, <3>2 DEF Events!OpenTabs
      <4>2. \A k \in 1 .. Len(r.opens) : r.opens[k] \in Asks
        BY <1>r
      <4>3. \A k \in 1 .. Len(r.opens) : /\ new(k) \in Openings /\ new(k).by = new(k).at
                                         /\ Events!Gesture(new(k).op) \/ ~Events!Reports(new(k).op)
        <5> SUFFICES ASSUME NEW k \in 1 .. Len(r.opens)
                     PROVE  /\ new(k) \in Openings /\ new(k).by = new(k).at
                            /\ Events!Gesture(new(k).op) \/ ~Events!Reports(new(k).op)
          OBVIOUS
        <5>1. new(k) \in Openings
          BY <4>2, <1>p DEF Asks, Openings
        <5>2. new(k).by = r.opens[k].page /\ new(k).at = page.n /\ new(k).op = r.opens[k].op
          OBVIOUS
        <5>3. r.opens[k].page = page.n /\ (Events!Gesture(r.opens[k].op) \/ ~Events!Reports(r.opens[k].op))
          OBVIOUS
        <5> HIDE DEF new
        <5> QED
          BY <5>1, <5>2, <5>3 DEF Events!Gesture, Events!Reports
      <4> HIDE DEF new
      <4>4. more \in Seq(Openings) /\ Len(more) = Len(r.opens) /\ \A k \in 1 .. Len(more) : more[k] = new(k)
        BY <4>3, <1>r
      <4> HIDE DEF more
      <4>5. /\ opened' \in Seq(Openings) /\ Len(opened') = Len(opened) + Len(more)
            /\ \A i \in 1 .. Len(opened) + Len(more) :
                  opened'[i] = IF i <= Len(opened) THEN opened[i] ELSE more[i - Len(opened)]
        <5>1. /\ opened \o more \in Seq(Openings) /\ Len(opened \o more) = Len(opened) + Len(more)
              /\ \A i \in 1 .. Len(opened) + Len(more) :
                    (opened \o more)[i] = IF i <= Len(opened) THEN opened[i] ELSE more[i - Len(opened)]
          <6>1. opened \o more \in Seq(Openings) /\ Len(opened \o more) = Len(opened) + Len(more)
            BY <3>0, <4>4, ConcatProperties
          <6>2. \A i \in 1 .. Len(opened) + Len(more) :
                    (opened \o more)[i] = IF i <= Len(opened) THEN opened[i] ELSE more[i - Len(opened)]
            BY <3>0, <4>4
          <6> QED
            BY <6>1, <6>2
        <5> QED
          BY <4>1, <5>1
      <4>6. ASSUME NEW i \in 1 .. Len(opened')
            PROVE  (i \in 1 .. Len(opened) /\ opened'[i] = opened[i])
                   \/ \E k \in 1 .. Len(r.opens) : opened'[i] = new(k)
        <5>1. CASE i <= Len(opened)
          BY <3>0, <4>5, <5>1
        <5>2. CASE ~(i <= Len(opened))
          <6>1. i - Len(opened) \in 1 .. Len(more) /\ opened'[i] = more[i - Len(opened)]
            BY <3>0, <4>4, <4>5, <5>2
          <6> QED
            BY <4>4, <6>1
        <5> QED
          BY <5>1, <5>2
      <4> QED
        BY <4>3, <4>5, <4>6 DEF EventsInv, Events!OpensFresh
    <3> QED
      BY <3>1, <3>2
  <2> QED
    BY <1>p, <2>4, <2>5, <2>7, <2>8, <2>9, <2>10, <2>11 DEF EventsInv, EventTypes, TickOfPage
<1> QED
  BY <1>1, <1>2

LEMMA AskedCounts ==
    ASSUME EventsInv, NEW codes, Len(codes) \in Nat, Events!Asked(codes)
    PROVE  asks' \in Nat
  BY DEF Events!Asked, EventsInv, EventTypes

(* An operation whose reply carries the page's requests. *)
LEMMA OperateKeeps ==
    ASSUME Events!EventsAssumption, EventsInv, NEW op \in Events!Ops, Events!Operate(op)
    PROVE  EventsInv' /\ StoreStep
<1>1. live /\ page' = page /\ job' = Events!NoJob /\ Events!Reports(op)
  BY DEF Events!Operate, Events!Stay, Events!Reports
<1>2. PICK codes \in Events!Scripts(op, page.origin) :
        LET w == Events!Run(wk, codes, op)
        IN /\ Events!Asked(codes)
           /\ Events!Apply(Events!Result(w, op), Events!Taken(w),
                    \/ UNCHANGED loading
                    \/ op = "click" /\ \E o \in Origins : loading' = o)
  BY DEF Events!Operate
<1> DEFINE w == Events!Run(wk, codes, op)
           r == Events!Result(w, op)
<1>3. w \in AfterRun(wk, op) /\ asks' \in Nat
  BY <1>1, <1>2, AllHandlers, AskedCounts
<1>4. Applied(r, Events!Taken(w))
  <2>1. loading \in Origins \cup {NoOrigin}
    BY DEF EventsInv, EventTypes
  <2> QED
    BY <1>2, <2>1 DEF Applied, Events!Apply
<1> HIDE DEF w
<1>5. /\ w \in Requests /\ wk.val \subseteq w.val /\ \A y \in w.val : y.by = page.origin
      /\ \A i \in 1 .. Len(w.opens) :
            w.opens[i].page = page.n /\ (w.opens[i].op = op \/ ~Events!Reports(w.opens[i].op))
  BY <1>1, <1>3 DEF AfterRun
<1>6. w.val \in SUBSET Writes /\ w.opens \in Seq(Asks)
  BY <1>5 DEF Requests
<1>7. /\ Events!Taken(w) \in Requests /\ Events!Taken(w).val = w.val /\ Events!Taken(w).opens = <<>>
      /\ Len(Events!Taken(w).opens) = 0
  BY <1>6, FreshIs DEF Events!Taken
<1>8. /\ r.val = w.val /\ (r.opens = <<>> \/ (Events!Gesture(op) /\ r.opens = w.opens))
      /\ r \in Results
  <2>1. <<>> \in Seq(Asks)
    OBVIOUS
  <2> DEFINE opens == IF Events!Gesture(op) THEN w.opens ELSE <<>>
  <2>2. opens \in Seq(Asks) /\ (opens = <<>> \/ (Events!Gesture(op) /\ opens = w.opens))
    BY <1>6, <2>1
  <2> HIDE DEF opens
  <2>3. r = [is |-> "result", nav |-> w.nav, storage |-> w.dirty, val |-> w.val, opens |-> opens]
    BY DEF Events!Result, opens
  <2>4. w.nav \in {<<>>} \cup {<<o>> : o \in Origins} /\ w.dirty \in BOOLEAN
    BY <1>5 DEF Requests
  <2>5. r \in Results
    BY <1>6, <2>2, <2>3, <2>4 DEF Results
  <2>6. r.val = w.val /\ r.opens = opens
    BY <2>3
  <2> QED
    BY <2>2, <2>5, <2>6
<1> HIDE DEF r
<1>9. \A i \in 1 .. Len(r.opens) : /\ r.opens[i].page = page.n
                                   /\ Events!Gesture(r.opens[i].op) \/ ~Events!Reports(r.opens[i].op)
  <2>1. CASE r.opens = <<>>
    BY <2>1
  <2>2. CASE Events!Gesture(op) /\ r.opens = w.opens
    BY <1>5, <2>2 DEF Events!Gesture, Events!Reports
  <2> QED
    BY <1>8, <2>1, <2>2
<1>10. Waiting(Events!Taken(w), page.n)
  BY <1>7 DEF Waiting
<1>11. r.val = Events!Taken(w).val /\ wk.val \subseteq Events!Taken(w).val /\ \A y \in Events!Taken(w).val : y.by = page.origin
  BY <1>5, <1>7, <1>8
<1> DEFINE w2 == Events!Taken(w)
<1>12. w2 \in Requests /\ Applied(r, w2) /\ r.val = w2.val /\ wk.val \subseteq w2.val
       /\ (\A y \in w2.val : y.by = page.origin) /\ Waiting(w2, page.n)
  BY <1>4, <1>7, <1>10, <1>11 DEF r
<1> HIDE DEF w2
<1> QED
  BY <1>1, <1>3, <1>8, <1>9, <1>12, AppliedKeeps

(* An operation whose reply does not carry them: they wait for the next one. *)
LEMMA SilentKeeps ==
    ASSUME Events!EventsAssumption, EventsInv, NEW op \in Events!Ops, Events!OperateSilent(op)
    PROVE  EventsInv' /\ StoreStep
<1>1. /\ live /\ page' = page /\ job' = Events!NoJob /\ ~Events!Reports(op)
      /\ live' = live /\ store' = store /\ opened' = opened
  BY DEF Events!OperateSilent, Events!Stay, Events!Reports
<1>2. PICK codes \in Events!Scripts(op, page.origin) : wk' = Events!Run(wk, codes, op) /\ Events!Asked(codes)
  BY DEF Events!OperateSilent
<1>3. wk' \in AfterRun(wk, op) /\ asks' \in Nat
  BY <1>1, <1>2, AllHandlers, AskedCounts
<1>4. /\ wk' \in Requests /\ wk.val \subseteq wk'.val /\ \A y \in wk'.val : y.by = page.origin
      /\ \A i \in 1 .. Len(wk'.opens) : wk'.opens[i].page = page.n /\ ~Events!Reports(wk'.opens[i].op)
  BY <1>1, <1>3 DEF AfterRun
<1>5. loading' \in Origins \cup {NoOrigin}
  BY DEF Events!OperateSilent, EventsInv, EventTypes
<1> QED
  BY <1>1, <1>3, <1>4, <1>5
     DEF EventsInv, EventTypes, OneEntry, PageHasAll, Waiting, TickOfPage, Events!OwnOrigin, Events!OpensFresh, StoreStep

(* A tick runs in the background, *)
LEMMA TickKeeps ==
    ASSUME Events!EventsAssumption, EventsInv, Events!Tick
    PROVE  EventsInv' /\ StoreStep
<1>1. /\ live /\ page' = page /\ "tick" \in Events!Ops
      /\ live' = live /\ store' = store /\ opened' = opened /\ loading' = loading
  BY DEF Events!Tick, Events!Stay, Events!Ops
<1>2. PICK codes \in Events!Scripts("tick", page.origin) :
        LET w == Events!Run(wk, codes, "tick")
        IN Events!Asked(codes) /\ job' = Events!Result(w, "tick") /\ wk' = Events!Taken(w)
  BY DEF Events!Tick
<1> DEFINE w == Events!Run(wk, codes, "tick")
<1>3. w \in AfterRun(wk, "tick") /\ asks' \in Nat /\ job' = Events!Result(w, "tick") /\ wk' = Events!Taken(w)
  BY <1>1, <1>2, AllHandlers, AskedCounts
<1> HIDE DEF w
<1>4. w \in Requests /\ wk.val \subseteq w.val /\ \A y \in w.val : y.by = page.origin
  BY <1>1, <1>3 DEF AfterRun
<1>5. w.val \in SUBSET Writes
  BY <1>4 DEF Requests
<1>6. wk' \in Requests /\ wk'.val = w.val /\ Len(wk'.opens) = 0
  BY <1>3, <1>5, FreshIs DEF Events!Taken
<1>7. job' \in Results /\ job'.val = w.val /\ job'.opens = <<>>
  <2> DEFINE none == <<>>
  <2>1. none \in Seq(Asks)
    OBVIOUS
  <2>2. job' = [is |-> "result", nav |-> w.nav, storage |-> w.dirty, val |-> w.val, opens |-> none]
    BY <1>3 DEF Events!Result, Events!Gesture
  <2> HIDE DEF none
  <2>3. w.nav \in {<<>>} \cup {<<o>> : o \in Origins} /\ w.dirty \in BOOLEAN
    BY <1>4 DEF Requests
  <2>4. job' \in Results /\ job'.val = w.val /\ job'.opens = none
    BY <1>5, <2>1, <2>2, <2>3 DEF Results
  <2> QED
    BY <2>4 DEF none
<1>8. EventTypes'
  BY <1>1, <1>3, <1>6, <1>7 DEF EventsInv, EventTypes
<1>9. OneEntry' /\ Events!OpensFresh' /\ (Len(store) <= MaxOrigins)' /\ StoreStep
  BY <1>1 DEF EventsInv, OneEntry, Events!OpensFresh, StoreStep
<1>10. PageHasAll' /\ Events!OwnOrigin'
  BY <1>1, <1>4, <1>6 DEF EventsInv, PageHasAll, Events!OwnOrigin
<1>11. Waiting(wk, page.n)' /\ TickOfPage'
  BY <1>1, <1>6, <1>7 DEF Waiting, TickOfPage
<1> QED
  BY <1>8, <1>9, <1>10, <1>11 DEF EventsInv

(* and its answer is applied to the page it came from. *)
LEMMA TickDoneKeeps ==
    ASSUME Events!EventsAssumption, EventsInv, Events!TickDone
    PROVE  EventsInv' /\ StoreStep
<1>1. /\ live /\ job # Events!NoJob /\ page' = page /\ job' = Events!NoJob /\ asks' = asks
      /\ Events!Apply(job, wk, UNCHANGED loading)
  BY DEF Events!TickDone
<1>2. asks' \in Nat /\ wk \in Requests /\ loading \in Origins \cup {NoOrigin} /\ job \in Results
  BY <1>1 DEF EventsInv, EventTypes
<1>3. Applied(job, wk)
  BY <1>1, <1>2 DEF Applied, Events!Apply
<1>4. job.val = wk.val /\ job.opens = <<>> /\ Len(job.opens) = 0 /\ Waiting(wk, page.n)
  BY <1>1 DEF EventsInv, TickOfPage
<1>5. \A x \in wk.val : x.by = page.origin
  BY DEF EventsInv, Events!OwnOrigin
<1>6. \A i \in 1 .. Len(job.opens) : /\ job.opens[i].page = page.n
                                     /\ Events!Gesture(job.opens[i].op) \/ ~Events!Reports(job.opens[i].op)
  BY <1>4
<1> QED
  BY <1>1, <1>2, <1>3, <1>4, <1>5, <1>6, AppliedKeeps

(* A load replaces the page, its worker and what it asked for. *)
LEMMA LoadKeeps ==
    ASSUME Events!EventsAssumption, EventsInv, Events!Load
    PROVE  EventsInv' /\ StoreStep
<1>1. /\ loading \in Origins /\ job = Events!NoJob /\ job' = Events!NoJob /\ opened' = opened
      /\ page' = [n |-> page.n + 1, origin |-> loading] /\ page.n \in Nat
  BY DEF Events!Load, Events!LoadArrives, EventsInv, EventTypes
<1>2. PICK act \in {a \in Events!Acts(loading) : a.is # "none" => asks < MaxAsks} :
        LET w == Events!RunOne(Events!Fresh(Events!Seed(loading)), act, "load", asks + 1)
        IN /\ asks' = IF act.is # "none" THEN asks + 1 ELSE asks
           /\ IF w.nav # Events!NoNav /\ depth < NavMax
              THEN /\ loading' = w.nav[1] /\ depth' = depth + 1
                   /\ live' = FALSE /\ wk' = Events!Fresh({})
                   /\ UNCHANGED store
              ELSE /\ loading' = NoOrigin /\ live' = TRUE /\ wk' = Events!Taken(w)
                   /\ depth' = IF w.nav = Events!NoNav THEN 0 ELSE depth
                   /\ store' = IF w.dirty THEN Events!Put(store, loading, w.val) ELSE store
  BY DEF Events!Load
<1> DEFINE s == Events!Fresh(Events!Seed(loading))
           w == Events!RunOne(s, act, "load", asks + 1)
<1>3. /\ Events!Seed(loading) \in SUBSET Writes /\ \A x \in Events!Seed(loading) : x.by = loading
      /\ loading \in Trusted =>
            \A k \in 1 .. Len(store) : store[k].origin = loading => store[k].val \subseteq Events!Seed(loading)
  BY <1>1, SeedOwn
<1>4. s \in Requests /\ s.val = Events!Seed(loading) /\ Len(s.opens) = 0 /\ s.dirty = FALSE
  BY <1>3, FreshIs DEF Events!Fresh
<1>p. page' \in [n : Nat, origin : Origins \cup {NoOrigin}] /\ page'.n \in Nat /\ page'.origin = loading
  BY <1>1
<1>5. s \in AfterRun(s, "load")
  BY <1>3, <1>4, <1>p DEF AfterRun
<1> HIDE DEF s
<1>6. "load" \in OpNames /\ asks + 1 \in Nat /\ act \in Events!Acts(page'.origin) /\ asks' \in Nat
  BY <1>2, <1>p DEF OpNames, EventsInv, EventTypes
<1>7. w \in AfterRun(s, "load")
  BY <1>5, <1>6, <1>p, OneHandler
<1>8. w.dirty => loading \in Trusted
  <2>1. CASE loading \in Trusted
    BY <2>1
  <2>2. CASE loading \notin Trusted
    <3>1. act.is = "none" \/ act.is = "nav"
      BY <1>6, <1>p, <2>2 DEF Events!Acts
    <3>2. w = s \/ w = [s EXCEPT !.nav = <<act.to>>]
      BY <3>1 DEF Events!RunOne
    <3> QED
      BY <1>4, <3>2 DEF Requests
  <2> QED
    BY <2>1, <2>2
<1>w. /\ IF w.nav # Events!NoNav /\ depth < NavMax
         THEN loading' = w.nav[1] /\ live' = FALSE /\ wk' = Events!Fresh({}) /\ store' = store
         ELSE /\ loading' = NoOrigin /\ live' = TRUE /\ wk' = Events!Taken(w)
              /\ store' = IF w.dirty THEN Events!Put(store, loading, w.val) ELSE store
  BY <1>2 DEF s
<1> HIDE DEF w
<1>9. /\ w \in Requests /\ Events!Seed(loading) \subseteq w.val /\ \A y \in w.val : y.by = loading
  BY <1>4, <1>7, <1>p DEF AfterRun
<1>10. w.val \in SUBSET Writes /\ w.nav \in {<<>>} \cup {<<o>> : o \in Origins}
  BY <1>9 DEF Requests
<1>11. /\ Events!Taken(w) \in Requests /\ Events!Taken(w).val = w.val /\ Len(Events!Taken(w).opens) = 0
       /\ Events!Fresh({}) \in Requests /\ Events!Fresh({}).val = {} /\ Len(Events!Fresh({}).opens) = 0
  BY <1>10, FreshIs DEF Events!Taken
<1>12. loading' \in Origins \cup {NoOrigin}
  BY <1>10, <1>w DEF Events!NoNav
<1>13. /\ wk' \in Requests /\ live' \in BOOLEAN /\ Len(wk'.opens) = 0
       /\ \A y \in wk'.val : y.by = loading
  BY <1>w, <1>9, <1>11
<1>14. ASSUME NEW k \in 1 .. Len(store), store[k].origin = loading
       PROVE  loading \in Trusted
  <2>1. store[k] \in Entry
    BY DEF EventsInv, EventTypes
  <2> QED
    BY <1>14, <2>1 DEF Entry
<1>15. \A k \in 1 .. Len(store) : store[k].origin = loading => store[k].val \subseteq w.val
  BY <1>3, <1>9, <1>14
<1>16. StoreStep
  BY <1>w, <1>1, <1>8, <1>9, <1>10, <1>11, <1>15 DEF StoreStep
<1>17. live' => \A k \in 1 .. Len(store) : store[k].origin = page'.origin => store[k].val \subseteq wk'.val
  BY <1>w, <1>11, <1>15, <1>p
<1>18. /\ store' \in Seq(Entry) /\ OneEntry' /\ Len(store') <= MaxOrigins /\ PageHasAll'
       /\ \A k \in 1 .. Len(store') : \A x \in store'[k].val : x.by = store'[k].origin
  BY <1>13, <1>16, <1>17, StoreStepKeeps
<1>19. Events!OwnOrigin' /\ Waiting(wk, page.n)' /\ TickOfPage'
  BY <1>1, <1>13, <1>18, <1>p DEF Events!OwnOrigin, Waiting, TickOfPage
<1>20. opened' \in Seq(Openings) /\ Events!OpensFresh'
  BY <1>1 DEF EventsInv, EventTypes, Events!OpensFresh
<1> QED
  BY <1>1, <1>6, <1>p, <1>12, <1>13, <1>16, <1>18, <1>19, <1>20 DEF EventsInv, EventTypes

LEMMA EventsStep ==
    ASSUME Events!EventsAssumption, EventsInv, [Events!Next]_(Events!vars)
    PROVE  EventsInv' /\ StoreStep
<1>1. ASSUME NEW op \in Events!Ops, Events!Operate(op) PROVE EventsInv' /\ StoreStep
  BY <1>1, OperateKeeps
<1>2. ASSUME NEW op \in Events!Ops, Events!OperateSilent(op) PROVE EventsInv' /\ StoreStep
  BY <1>2, SilentKeeps
<1>3. CASE Events!Tick
  BY <1>3, TickKeeps
<1>4. CASE Events!TickDone
  BY <1>4, TickDoneKeeps
<1>5. CASE Events!Load
  BY <1>5, LoadKeeps
<1>6. CASE UNCHANGED Events!vars
  <2>1. /\ page' = page /\ live' = live /\ wk' = wk /\ job' = job /\ loading' = loading
        /\ store' = store /\ asks' = asks /\ opened' = opened
    BY <1>6 DEF Events!vars
  <2> QED
    BY <2>1 DEF EventsInv, EventTypes, OneEntry, PageHasAll, Waiting, TickOfPage, Events!OwnOrigin,
       Events!OpensFresh, StoreStep
<1> QED
  BY <1>1, <1>2, <1>3, <1>4, <1>5, <1>6 DEF Events!Next

(* What the storage holds for a site was written by that site, and a window that opens
   was asked for by the page shown (collect_storage, open_requested_tabs). *)
THEOREM RequestsOwn == ASSUME Events!EventsAssumption PROVE Events!Spec => []OwnRequests
<1>1. Events!Init => EventsInv
  BY EventsBegin
<1>2. EventsInv /\ [Events!Next]_(Events!vars) => EventsInv'
  BY EventsStep
<1>3. EventsInv => OwnRequests
  BY DEF EventsInv, OwnRequests, Events!OwnRequests
<1> QED
  BY <1>1, <1>2, <1>3, PTL DEF Events!Spec

(* What was collected of a site stays until it is the least recently written one and its
   place is needed (wst_replace). *)
THEOREM WritesKept == ASSUME Events!EventsAssumption PROVE Events!Spec => KeepsWrites
<1>1. Events!Init => EventsInv
  BY EventsBegin
<1>2. EventsInv /\ [Events!Next]_(Events!vars) => EventsInv'
  BY EventsStep
<1>3. EventsInv /\ [Events!Next]_(Events!vars) =>
        \A k \in 1 .. Len(store) :
          LET e == store[k]
              now == Events!SelectInSeq(store', LAMBDA x : x.origin = e.origin)
          IN IF now = 0 THEN k = 1 /\ Len(store) = MaxOrigins
             ELSE e.val \subseteq store'[now].val
  BY EventsStep, StoreStepKeepsWrites
<1> QED
  BY <1>1, <1>2, <1>3, PTL DEF Events!Spec, KeepsWrites, Events!KeepsWrites

(***************************************************************************)
(* FormInput.  What the user typed is what is sent.                        *)
(***************************************************************************)
(* The state of the controls is a record, whatever its parts are. *)
IsWin(w) ==
    /\ w = [shown |-> w.shown, markup |-> w.markup, inputs |-> w.inputs,
            focus |-> w.focus, gen |-> w.gen]
    /\ w.gen \in Nat

(* Where no script runs, the controls are as the user left them. *)
AsFilled == ~js /\ ~stray => win.inputs = want

(* A page with scripts never has the keyboard, which is why no control is
   read in the array that an answer has replaced. *)
NoKeyboard == js => win.focus = 0

FormInv ==
    /\ IsWin(win) /\ js \in BOOLEAN /\ stray \in BOOLEAN
    /\ NoKeyboard /\ AsFilled
    /\ Form!NoFreedRead /\ Form!OneLoadPerPress /\ Form!FilledIn

USE DEF FormInv, NoKeyboard, Form!NoFreedRead, Form!OneLoadPerPress

LEMMA FormInit == Form!Init => FormInv
<1> SUFFICES ASSUME Form!Init PROVE FormInv
  OBVIOUS
<1>1. IsWin(win) /\ win.focus = 0
  BY DEF Form!Init, IsWin, Form!Seeded, Form!Rebuilt
<1>2. win.inputs = want
  BY DEF Form!Init, Form!Seeded, Form!Rebuilt, Form!Blank
<1>3. js \in BOOLEAN /\ stray \in BOOLEAN /\ ~ub
  BY DEF Form!Init
<1>4. begun = 0
  BY Zenon DEF Form!Init
<1>5. sent.is # "sent"
  BY DEF Form!Init, Form!NotSent
<1> QED
  BY <1>1, <1>2, <1>3, <1>4, <1>5 DEF AsFilled, Form!FilledIn, Form!SubmitsTyped

(* What is rebuilt, and what an answer leaves: the focus is gone, and at
   most one load has begun. *)
LEMMA HandledKeeps ==
    ASSUME NEW w, IsWin(w), NEW e
    PROVE  IsWin(Form!Handled(w, e)) /\ Form!Handled(w, e).gen = w.gen
  BY DEF IsWin, Form!Handled

(* apply_click_result: a navigation begins one load, anything else rebuilds the controls. *)
LEMMA AnswerKeeps ==
    ASSUME NEW w, IsWin(w), w.focus = 0, NEW e
    PROVE  /\ IsWin(Form!ApplyClickResult(w, e)) /\ Form!ApplyClickResult(w, e).focus = 0
           /\ Form!ApplyClickResult(w, e).gen = IF e.is = "nav" THEN w.gen + 1 ELSE w.gen
<1>1. ASSUME NEW x, IsWin(x)
      PROVE  IsWin(Form!Rebuilt(x)) /\ Form!Rebuilt(x).focus = 0 /\ Form!Rebuilt(x).gen = x.gen
  <2> DEFINE r == [c \in x.shown |-> x.markup[c]]
  <2>1. Form!Rebuilt(x) = [x EXCEPT !.inputs = r, !.focus = 0]
    BY DEF Form!Rebuilt
  <2> HIDE DEF r
  <2> QED
    BY <1>1, <2>1 DEF IsWin
<1>2. CASE e.is = "nav"
  BY <1>2 DEF Form!ApplyClickResult, IsWin
<1>3. CASE e.is # "nav"
  BY <1>1, <1>3, HandledKeeps DEF Form!ApplyClickResult
<1> QED
  BY <1>2, <1>3

LEMMA UnfocusedKeeps ==
    ASSUME NEW w, IsWin(w)
    PROVE  /\ IsWin([w EXCEPT !.focus = 0]) /\ [w EXCEPT !.focus = 0].focus = 0
           /\ [w EXCEPT !.focus = 0].gen = w.gen /\ [w EXCEPT !.focus = 0].inputs = w.inputs
  BY DEF IsWin

LEMMA BegunKeeps ==
    ASSUME NEW w, IsWin(w)
    PROVE  /\ IsWin([w EXCEPT !.gen = @ + 1]) /\ [w EXCEPT !.gen = @ + 1].focus = w.focus
           /\ [w EXCEPT !.gen = @ + 1].gen = w.gen + 1
           /\ [w EXCEPT !.gen = @ + 1].inputs = w.inputs
  BY DEF IsWin

(* An event without a value leaves the page without the keyboard. *)
LEMMA DispatchKeeps ==
    ASSUME NEW w, IsWin(w), NEW node, NEW e, js
    PROVE  LET d == Form!DispatchJsEvent(w, node, FALSE, e)
           IN  /\ IsWin(d.w) /\ d.w.focus = 0 /\ ~d.freed
               /\ d.w.gen \in {w.gen, w.gen + 1}
<1> DEFINE bare == [w EXCEPT !.focus = 0]
<1> DEFINE next == Form!ApplyClickResult(bare, e)
<1>1. IsWin(bare) /\ bare.focus = 0 /\ bare.gen = w.gen
  BY UnfocusedKeeps
<1> HIDE DEF bare
<1>2. IsWin(next) /\ next.focus = 0 /\ next.gen \in {w.gen, w.gen + 1}
  BY <1>1, AnswerKeeps
<1> HIDE DEF next
<1> DEFINE d == Form!DispatchJsEvent(w, node, FALSE, e)
<1>3. IF e.is = "fail" THEN d = [w |-> bare, freed |-> FALSE] ELSE d = [w |-> next, freed |-> FALSE]
  BY DEF Form!DispatchJsEvent, bare, next
<1> HIDE DEF d
<1>4. CASE e.is = "fail"
  <2>1. d.w = bare /\ ~d.freed
    BY <1>3, <1>4
  <2> QED
    BY <1>1, <2>1 DEF d
<1>5. CASE e.is # "fail"
  <2>1. d.w = next /\ ~d.freed
    BY <1>3, <1>5
  <2> QED
    BY <1>2, <2>1 DEF d
<1> QED
  BY <1>4, <1>5

(* The blur of a control on the way to another. *)
LEMMA BlurKeeps ==
    ASSUME NEW w, IsWin(w), js => w.focus = 0, NEW e
    PROVE  /\ IsWin(Form!Blurred(w, e).w) /\ Form!Blurred(w, e).w.focus = 0
           /\ ~Form!Blurred(w, e).stale
           /\ Form!Blurred(w, e).w.gen = w.gen /\ Form!Blurred(w, e).w.inputs = w.inputs
  BY UnfocusedKeeps DEF Form!Blurred, Form!DispatchJsEvent

(* The window after the mousedown of a press: without scripts it is as it was. *)
LEMMA PressedKeeps ==
    ASSUME FormInv, NEW m
    PROVE  /\ IsWin(Form!Pressed(m)) /\ (js => Form!Pressed(m).focus = 0)
           /\ (~js => Form!Pressed(m) = win)
<1>1. CASE ~js \/ m.is = "fail"
  BY <1>1 DEF Form!Pressed
<1>2. CASE ~(~js \/ m.is = "fail")
  <2> DEFINE w == Form!ApplyClickResult(win, m)
  <2>1. IsWin(w) /\ w.focus = 0
    BY <1>2, AnswerKeeps
  <2>2. Form!Pressed(m) = w
    BY <1>2 DEF Form!Pressed
  <2> QED
    BY <1>2, <2>1, <2>2
<1> QED
  BY <1>1, <1>2

(* What is gathered of controls that are as wanted. *)
LEMMA GatheredIsWanted ==
    ASSUME NEW w, w.inputs = want', sent' = [is |-> "sent", values |-> Form!Gather(w), shown |-> w.shown, want |-> want']
    PROVE  Form!SubmitsTyped'
  BY DEF Form!SubmitsTyped, Form!Gather

(* Without scripts a handler does nothing. *)
LEMMA NoEffect ==
    /\ ~js => Form!Effect = {[is |-> "none"]}
    /\ \A w : ~js \/ w.focus = 0 => Form!BlurEffect(w) = {[is |-> "none"]}
    /\ Form!Follows(want, [is |-> "none"]) = want
  BY DEF Form!Effect, Form!BlurEffect, Form!Follows

(* A submit begins one load and sends the controls as they are. *)
LEMMA SubmitKeeps ==
    ASSUME FormInv, NEW w, IsWin(w), w.focus = 0, Form!SubmitForm(w, want'),
           NEW v, w.gen = v.gen, Form!CountedFrom(v), ~js /\ ~stray' => w.inputs = want',
           stray \in BOOLEAN, stray' \in BOOLEAN, ~js /\ ~stray' => ~stray, UNCHANGED js, ~ub'
    PROVE  FormInv'
<1>1. IsWin(win') /\ win'.focus = 0 /\ win'.gen \in {w.gen, w.gen + 1} /\ win'.inputs = w.inputs
  BY BegunKeeps DEF Form!SubmitForm
<1>2. begun' <= 1
  BY <1>1 DEF Form!CountedFrom, IsWin
<1>3. Form!FilledIn'
  <2>1. CASE js
    BY <2>1 DEF Form!FilledIn
  <2>2. CASE ~js
    BY <2>2, GatheredIsWanted DEF Form!FilledIn, Form!SubmitForm, Form!SubmitsTyped
  <2> QED BY <2>1, <2>2
<1> QED
  BY <1>1, <1>2, <1>3 DEF AsFilled

(* Actions. *)
LEMMA StayKeeps ==
    ASSUME FormInv, IsWin(win'), js => win'.focus = 0, ~js /\ ~stray' => win'.inputs = want',
           stray' \in BOOLEAN, UNCHANGED <<js, sent>>, ~ub', ~js /\ ~stray' => ~stray,
           NEW v, v.gen \in Nat, Form!CountedFrom(v), win'.gen \in {v.gen, v.gen + 1}
    PROVE  FormInv'
<1>1. begun' <= 1
  BY DEF Form!CountedFrom
<1>2. Form!FilledIn'
  BY DEF Form!FilledIn, Form!SubmitsTyped
<1> QED
  BY <1>1, <1>2 DEF AsFilled

LEMMA EditKeeps ==
    ASSUME FormInv, NEW text, Form!Edit(text)
    PROVE  FormInv'
<1>1. ~js /\ UNCHANGED <<js, sent, stray>> /\ Form!CountedFrom(win)
  BY DEF Form!Edit, Form!Act, Form!Step, Form!Counted
<1> DEFINE typed == [win EXCEPT !.inputs[Form!Focused(win)].text = text]
<1>2. win' = typed /\ ~ub' /\ want' = [want EXCEPT ![Form!Focused(win)].text = text]
  BY <1>1, NoEffect DEF Form!Edit, Form!DispatchJsEvent, Form!Follows
<1>3. IsWin(win') /\ win'.gen = win.gen /\ win'.inputs = [win.inputs EXCEPT ![Form!Focused(win)].text = text]
  BY <1>2 DEF IsWin
<1> QED
  BY <1>1, <1>2, <1>3, StayKeeps DEF AsFilled, IsWin

LEMMA EscapeKeeps ==
    ASSUME FormInv, Form!Escape
    PROVE  FormInv'
<1>1. ~js /\ UNCHANGED <<js, sent, stray, ub>> /\ Form!CountedFrom(win)
  BY DEF Form!Escape, Form!Act, Form!Step, Form!Counted
<1>2. win' = [win EXCEPT !.focus = 0] /\ want' = want
  BY <1>1, NoEffect DEF Form!Escape, Form!DispatchJsEvent
<1> QED
  BY <1>1, <1>2, UnfocusedKeeps, StayKeeps DEF AsFilled, IsWin

LEMMA EnterKeeps ==
    ASSUME FormInv, Form!Enter
    PROVE  FormInv'
<1>1. ~js /\ UNCHANGED <<js, stray>> /\ Form!CountedFrom(win) /\ win.focus # 0
  BY DEF Form!Enter, Form!Act, Form!Step, Form!Counted
<1>2. want' = want /\ ~ub' /\ Form!SubmitForm([win EXCEPT !.focus = 0], want')
  BY <1>1, NoEffect DEF Form!Enter, Form!DispatchJsEvent
<1> DEFINE w == [win EXCEPT !.focus = 0]
<1>3. IsWin(w) /\ w.focus = 0 /\ w.gen = win.gen /\ w.inputs = win.inputs
  BY UnfocusedKeeps
<1> HIDE DEF w
<1> QED
  BY <1>1, <1>2, <1>3, SubmitKeeps DEF AsFilled, w

LEMMA ClickTextKeeps ==
    ASSUME FormInv, NEW c, Form!ClickText(c)
    PROVE  FormInv'
<1>1. UNCHANGED <<js, sent, stray>>
  BY DEF Form!ClickText, Form!Step
<1>2. PICK m \in Form!Effect, f \in Form!Effect : \E e \in Form!BlurEffect(Form!Pressed(m)) :
        LET w == Form!Pressed(m)
            i == Form!SelectInSeq(Form!Fields(w), LAMBDA d : d = c)
            blur == IF w.focus # 0 /\ Form!Focused(w) = c
                    THEN [w |-> [w EXCEPT !.focus = 0], stale |-> FALSE] ELSE Form!Blurred(w, e)
        IN /\ ub' = blur.stale
           /\ win' = IF ub' THEN blur.w
                     ELSE Form!DispatchJsEvent([blur.w EXCEPT !.focus = i], c, FALSE, f).w
           /\ want' = Form!Follows(Form!Follows(Form!Follows(want, m), e), f)
           /\ Form!CountedFrom(w)
  BY DEF Form!ClickText
<1> DEFINE v == Form!Pressed(m)
<1> DEFINE i == Form!SelectInSeq(Form!Fields(v), LAMBDA d : d = c)
<1>3. PICK e \in Form!BlurEffect(v) :
        LET blur == IF v.focus # 0 /\ Form!Focused(v) = c
                    THEN [w |-> [v EXCEPT !.focus = 0], stale |-> FALSE] ELSE Form!Blurred(v, e)
        IN /\ ub' = blur.stale
           /\ win' = IF ub' THEN blur.w
                     ELSE Form!DispatchJsEvent([blur.w EXCEPT !.focus = i], c, FALSE, f).w
           /\ want' = Form!Follows(Form!Follows(Form!Follows(want, m), e), f)
           /\ Form!CountedFrom(v)
  BY <1>2
<1>v. IsWin(v) /\ (js => v.focus = 0) /\ (~js => v = win)
  BY PressedKeeps
<1> HIDE DEF i, v
<1> DEFINE blur == IF v.focus # 0 /\ Form!Focused(v) = c
                   THEN [w |-> [v EXCEPT !.focus = 0], stale |-> FALSE] ELSE Form!Blurred(v, e)
<1>4. ~blur.stale /\ IsWin(blur.w) /\ blur.w.gen = v.gen /\ blur.w.inputs = v.inputs
  BY <1>v, UnfocusedKeeps, BlurKeeps
<1> DEFINE put == [blur.w EXCEPT !.focus = i]
<1>5. ~ub' /\ win' = Form!DispatchJsEvent(put, c, FALSE, f).w
  BY <1>3, <1>4
<1> HIDE DEF blur
<1>6. IsWin(put) /\ put.gen = v.gen /\ put.inputs = v.inputs
  BY <1>4 DEF IsWin
<1> HIDE DEF put
<1>7. v.gen \in Nat /\ Form!CountedFrom(v)
  BY <1>3, <1>v DEF IsWin
<1>8. CASE js
  <2>1. IsWin(win') /\ win'.focus = 0 /\ win'.gen \in {v.gen, v.gen + 1}
    BY <1>5, <1>6, <1>8, DispatchKeeps
  <2> QED
    BY <1>1, <1>5, <1>7, <1>8, <2>1, StayKeeps
<1>9. CASE ~js
  <2>1. win' = put
    BY <1>5, <1>9 DEF Form!DispatchJsEvent
  <2>2. m = [is |-> "none"] /\ e = [is |-> "none"] /\ f = [is |-> "none"]
    BY <1>9, NoEffect
  <2>3. want' = want
    BY <1>3, <2>2, NoEffect
  <2> QED
    BY <1>1, <1>5, <1>6, <1>7, <1>9, <1>v, <2>1, <2>3, StayKeeps DEF AsFilled
<1> QED
  BY <1>8, <1>9

LEMMA ClickBoxKeeps ==
    ASSUME FormInv, NEW c, Form!ClickBox(c)
    PROVE  FormInv'
<1>1. UNCHANGED <<js, sent, stray, ub>>
  BY DEF Form!ClickBox, Form!Act, Form!Step
<1>2. PICK m \in Form!Effect :
        LET w == Form!Pressed(m)
        IN /\ win' = [w EXCEPT !.focus = 0, !.inputs[c].checked = ~@]
           /\ want' = [Form!Follows(want, m) EXCEPT ![c].checked = ~w.inputs[c].checked]
           /\ Form!CountedFrom(w)
  BY DEF Form!ClickBox
<1> DEFINE v == Form!Pressed(m)
<1>3. /\ win' = [v EXCEPT !.focus = 0, !.inputs[c].checked = ~@]
      /\ want' = [Form!Follows(want, m) EXCEPT ![c].checked = ~v.inputs[c].checked]
      /\ Form!CountedFrom(v)
  BY <1>2
<1>4. IsWin(v) /\ (~js => v = win)
  BY PressedKeeps
<1> HIDE DEF v
<1>5. /\ IsWin(win') /\ win'.gen = v.gen /\ win'.focus = 0
      /\ win'.inputs = [v.inputs EXCEPT ![c].checked = ~v.inputs[c].checked]
  BY <1>3, <1>4 DEF IsWin
<1>6. v.gen \in Nat
  BY <1>4 DEF IsWin
<1>7. ~js => Form!Follows(want, m) = want
  BY NoEffect
<1>8. ~js /\ ~stray => win'.inputs = want'
  BY <1>3, <1>4, <1>5, <1>7 DEF AsFilled
<1> QED
  BY <1>1, <1>3, <1>5, <1>6, <1>8, StayKeeps

LEMMA ClickSubmitKeeps ==
    ASSUME FormInv, Form!ClickSubmit
    PROVE  FormInv'
<1>1. UNCHANGED <<js, stray>>
  BY DEF Form!ClickSubmit, Form!Act, Form!Step
<1>2. PICK m \in Form!Effect : \E e \in Form!BlurEffect(Form!Pressed(m)) :
        LET w == Form!Pressed(m)
            blur == Form!Blurred(w, e)
        IN /\ ub' = blur.stale
           /\ want' = Form!Follows(Form!Follows(want, m), e)
           /\ IF ub' THEN win' = blur.w /\ UNCHANGED sent
              ELSE Form!SubmitForm(blur.w, want')
           /\ Form!CountedFrom(w)
  BY DEF Form!ClickSubmit
<1> DEFINE v == Form!Pressed(m)
<1>3. PICK e \in Form!BlurEffect(v) :
        /\ ub' = Form!Blurred(v, e).stale
        /\ want' = Form!Follows(Form!Follows(want, m), e)
        /\ IF ub' THEN win' = Form!Blurred(v, e).w /\ UNCHANGED sent
           ELSE Form!SubmitForm(Form!Blurred(v, e).w, want')
        /\ Form!CountedFrom(v)
  BY <1>2
<1>4. IsWin(v) /\ (js => v.focus = 0) /\ (~js => v = win)
  BY PressedKeeps
<1> HIDE DEF v
<1> DEFINE b == Form!Blurred(v, e)
<1>5. IsWin(b.w) /\ b.w.focus = 0 /\ ~b.stale /\ b.w.gen = v.gen /\ b.w.inputs = v.inputs
  BY <1>4, BlurKeeps
<1>6. ~ub' /\ Form!SubmitForm(b.w, want') /\ Form!CountedFrom(v)
  BY <1>3, <1>5
<1> HIDE DEF b
<1>7. ~js => m = [is |-> "none"] /\ e = [is |-> "none"]
  BY NoEffect
<1>8. ~js => want' = want
  BY <1>3, <1>7, NoEffect
<1>9. ~js /\ ~stray => b.w.inputs = want'
  BY <1>4, <1>5, <1>8 DEF AsFilled
<1> QED
  BY <1>1, <1>5, <1>6, <1>9, SubmitKeeps

LEMMA ClickContentKeeps ==
    ASSUME FormInv, NEW linked \in BOOLEAN, NEW button \in BOOLEAN, Form!ClickContent(linked, button)
    PROVE  FormInv'
<1>1. stray' = TRUE /\ UNCHANGED <<js, ub>>
  BY DEF Form!ClickContent, Form!Act, Form!Step
<1>2. PICK m \in Form!Effect, f \in Form!Effect \cup {[is |-> "fail"]} :
      \E e \in Form!BlurEffect(Form!Pressed(m)) :
        LET before == Form!Blurred(Form!Pressed(m), e).w
            clicked == IF f.is = "fail" THEN before ELSE Form!ApplyClickResult(before, f)
            after == IF linked /\ f.is \notin {"nav", "fail"}
                     THEN [clicked EXCEPT !.gen = @ + 1] ELSE clicked
        IN /\ IF ~button \/ Form!Superseded(before, after)
              THEN win' = after /\ UNCHANGED sent
              ELSE Form!SubmitForm(after, want')
           /\ Form!CountedFrom(Form!Pressed(m))
  BY DEF Form!ClickContent
<1> DEFINE v == Form!Pressed(m)
<1>3. PICK e :
        LET before == Form!Blurred(v, e).w
            clicked == IF f.is = "fail" THEN before ELSE Form!ApplyClickResult(before, f)
            after == IF linked /\ f.is \notin {"nav", "fail"}
                     THEN [clicked EXCEPT !.gen = @ + 1] ELSE clicked
        IN /\ IF ~button \/ Form!Superseded(before, after)
              THEN win' = after /\ UNCHANGED sent
              ELSE Form!SubmitForm(after, want')
           /\ Form!CountedFrom(v)
  BY <1>2
<1>v. IsWin(v) /\ (js => v.focus = 0)
  BY PressedKeeps
<1> HIDE DEF v
<1> DEFINE before == Form!Blurred(v, e).w
           clicked == IF f.is = "fail" THEN before ELSE Form!ApplyClickResult(before, f)
           after == IF linked /\ f.is \notin {"nav", "fail"}
                    THEN [clicked EXCEPT !.gen = @ + 1] ELSE clicked
<1>b. IsWin(before) /\ before.focus = 0 /\ before.gen = v.gen
  BY <1>v, BlurKeeps
<1>s. /\ IF ~button \/ after.gen # before.gen THEN win' = after /\ UNCHANGED sent
         ELSE Form!SubmitForm(after, want')
      /\ Form!CountedFrom(v)
  BY <1>3 DEF Form!Superseded
<1> HIDE DEF before
<1>4. /\ IsWin(clicked) /\ clicked.focus = 0
      /\ clicked.gen = IF f.is = "nav" THEN v.gen + 1 ELSE v.gen
  <2>1. CASE f.is = "fail"
    BY <1>b, <2>1
  <2>2. CASE f.is # "fail"
    <3>1. clicked = Form!ApplyClickResult(before, f)
      BY <2>2
    <3> HIDE DEF clicked
    <3> QED
      BY <1>b, <3>1, AnswerKeeps
  <2> QED
    BY <2>1, <2>2
<1> HIDE DEF clicked
<1>5. IsWin(after) /\ after.focus = 0 /\ after.gen \in {v.gen, v.gen + 1}
  BY <1>4, BegunKeeps
<1> HIDE DEF after
<1>6. v.gen \in Nat
  BY <1>v DEF IsWin
<1>7. CASE ~button \/ after.gen # before.gen
  BY <1>1, <1>s, <1>5, <1>6, <1>7, StayKeeps
<1>8. CASE ~(~button \/ after.gen # before.gen)
  BY <1>1, <1>b, <1>s, <1>5, <1>8, SubmitKeeps
<1> QED
  BY <1>7, <1>8

LEMMA PageEventKeeps ==
    ASSUME FormInv, Form!PageEvent
    PROVE  FormInv'
<1>1. js /\ UNCHANGED <<js, sent, ub, stray>> /\ Form!CountedFrom(win)
  BY DEF Form!PageEvent, Form!Act, Form!Step, Form!Counted
<1>2. PICK e : win' = Form!ApplyClickResult(win, e)
  BY DEF Form!PageEvent
<1> QED
  BY <1>1, <1>2, AnswerKeeps, StayKeeps DEF IsWin

LEMMA LoadedKeeps ==
    ASSUME FormInv, Form!Loaded
    PROVE  FormInv'
<1>1. IsWin(win') /\ win'.focus = 0 /\ win'.inputs = want'
  BY DEF Form!Loaded, IsWin, Form!Seeded, Form!Rebuilt, Form!Blank
<1>2. js' = js /\ stray' \in BOOLEAN /\ ub' = ub
  BY DEF Form!Loaded, Form!Act, Form!Step
<1>3. begun' <= 1 /\ Form!SubmitsTyped'
  BY DEF Form!Loaded, Form!SubmitsTyped, Form!NotSent
<1> QED
  BY <1>1, <1>2, <1>3 DEF AsFilled, Form!FilledIn

LEMMA FormNext == FormInv /\ [Form!Next]_(Form!vars) => FormInv'
<1> SUFFICES ASSUME FormInv, [Form!Next]_(Form!vars) PROVE FormInv'
  OBVIOUS
<1>1. CASE Form!Type \/ Form!Backspace
  BY <1>1, EditKeeps DEF Form!Type, Form!Backspace
<1>2. CASE UNCHANGED Form!vars
  BY <1>2 DEF Form!vars, AsFilled, Form!FilledIn, Form!SubmitsTyped
<1> QED
  BY <1>1, <1>2, EscapeKeeps, EnterKeeps, ClickSubmitKeeps, PageEventKeeps, LoadedKeeps,
     ClickTextKeeps, ClickBoxKeeps, ClickContentKeeps DEF Form!Next

(* Without scripts a submit sends what the user last made of the controls, no freed
   control is read, and a press begins at most one load after its mousedown
   (submit_form, dispatch_js_event, ptr_button). *)
THEOREM FormsSound == Form!Spec => []FormSound
<1>1. FormInv => FormSound
  BY DEF FormSound, Form!FormSound
<1> QED
  BY <1>1, FormInit, FormNext, PTL DEF Form!Spec
=============================================================================
