------------------------- MODULE Navigation_proofs --------------------------
(***************************************************************************)
(* For any number of tabs, addresses, fetches and entries, and with every  *)
(* part of the environment taking part: the session histories are in       *)
(* order, the fetch whose result will be painted is the current one,       *)
(* clicks reach the page on screen, no stale page is painted, and loads    *)
(* take the address of the current entry.                                  *)
(***************************************************************************)
EXTENDS Navigation, FiniteSetTheorems, SequenceTheorems, TLAPS

-----------------------------------------------------------------------------
(* Session histories (src/browser.c).                                      *)

LEMMA CutAndAppend ==
    ASSUME NEW E, NEW s \in Seq(E), NEW n \in 0 .. Len(s), NEW e \in E
    PROVE  /\ Append(SubSeq(s, 1, n), e) \in Seq(E)
           /\ Append(SubSeq(s, 1, n), e) # <<>>
           /\ Len(Append(SubSeq(s, 1, n), e)) = n + 1
           /\ Append(SubSeq(s, 1, n), e)[n + 1] = e
           /\ \A i \in 1 .. n : Append(SubSeq(s, 1, n), e)[i] = s[i]
<1>1. \A i \in 1 .. n : s[i] \in E
  BY ElementOfSeq, LenProperties
<1>2. /\ SubSeq(s, 1, n) \in Seq(E) /\ Len(SubSeq(s, 1, n)) = n
      /\ \A i \in 1 .. n : SubSeq(s, 1, n)[i] = s[i]
  BY <1>1, SubSeqProperties, LenProperties
<1> QED
  BY <1>2, AppendProperties

Entries == [url : Urls, doc : Nat \ {0}]
GoodHistory(b) == b \in Histories /\ Ordered(b)

LEMMA HistoryFields ==
    ASSUME NEW b, GoodHistory(b)
    PROVE  /\ b.hist \in Seq(Entries) /\ Len(b.hist) \in Nat
           /\ b.pos \in 0 .. Len(b.hist) /\ b.next \in Nat \ {0}
           /\ b.hist # <<>> => b.pos \in 1 .. Len(b.hist)
           /\ \A i \in 1 .. Len(b.hist) :
                 b.hist[i] \in Entries /\ b.hist[i].doc \in Nat \ {0}
                 /\ b.hist[i].url \in Urls /\ b.hist[i].doc < b.next
           /\ \A i, j \in 1 .. Len(b.hist) : i <= j => b.hist[i].doc <= b.hist[j].doc
<1>1. b.hist \in Seq(Entries) /\ b.pos \in Nat /\ b.next \in Nat \ {0}
  BY DEF GoodHistory, Histories, Entries
<1>2. Len(b.hist) \in Nat /\ \A i \in 1 .. Len(b.hist) : b.hist[i] \in Entries
  BY <1>1, ElementOfSeq, LenProperties
<1>3. \A e \in Entries : e.doc \in Nat \ {0} /\ e.url \in Urls
  BY DEF Entries
<1> QED
  BY <1>1, <1>2, <1>3 DEF GoodHistory, Ordered

LEMMA CurrentTyped ==
    ASSUME NEW b, GoodHistory(b)
    PROVE  /\ b.hist # <<>> => CurUrl(b) \in Urls /\ CurDoc(b) \in Nat \ {0}
                               /\ CurDoc(b) = b.hist[b.pos].doc
           /\ CurDoc(b) \in Nat /\ CurUrl(b) \in Urls \cup {NoUrl}
<1> QED
  BY HistoryFields DEF CurUrl, CurDoc, NoEntry

(* append_entry with a document not older than the entries that stay. *)
Appended(c, b, u, d, n) ==
    /\ GoodHistory(c)
    /\ c.hist # <<>> /\ c.pos = b.pos + 1 /\ c.next = n /\ Len(c.hist) = b.pos + 1
    /\ c.hist[b.pos + 1] = [url |-> u, doc |-> d]
    /\ \A i \in 1 .. b.pos : c.hist[i] = b.hist[i]
    /\ CurUrl(c) = u /\ CurDoc(c) = d

LEMMA AppendOrdered ==
    ASSUME NEW b, GoodHistory(b), NEW u \in Urls, NEW d \in Nat \ {0}, NEW n \in Nat,
           d < n, b.next <= n,
           \A i \in 1 .. b.pos : b.hist[i].doc <= d
    PROVE  Appended(AppendEntry(b, u, d, n), b, u, d, n)
<1> DEFINE c == AppendEntry(b, u, d, n)
           e == [url |-> u, doc |-> d]
           h == Append(SubSeq(b.hist, 1, b.pos), e)
<1>1. /\ b.hist \in Seq(Entries) /\ Len(b.hist) \in Nat /\ b.pos \in 0 .. Len(b.hist)
      /\ b.next \in Nat /\ e \in Entries /\ e.doc = d /\ e.url = u
      /\ \A i \in 1 .. Len(b.hist) : b.hist[i].doc \in Nat /\ b.hist[i].doc < b.next
      /\ \A i, j \in 1 .. Len(b.hist) : i <= j => b.hist[i].doc <= b.hist[j].doc
  BY HistoryFields DEF Entries
<1> HIDE DEF e
<1>2. /\ h \in Seq(Entries) /\ h # <<>> /\ Len(h) = b.pos + 1 /\ h[b.pos + 1] = e
      /\ \A i \in 1 .. b.pos : h[i] = b.hist[i]
  BY <1>1, CutAndAppend
<1>3. c = [hist |-> h, pos |-> b.pos + 1, next |-> n]
  BY DEF AppendEntry, Entry, e
<1> HIDE DEF h, c
<1>4. c.hist = h /\ c.pos = b.pos + 1 /\ c.next = n
  BY <1>3
<1>5. c \in Histories
  BY <1>1, <1>2, <1>3 DEF Histories, Entries
<1>6. \A i, j \in 1 .. b.pos + 1 : i <= j => h[i].doc <= h[j].doc
  <2> SUFFICES ASSUME NEW i \in 1 .. b.pos + 1, NEW j \in 1 .. b.pos + 1, i <= j
               PROVE  h[i].doc <= h[j].doc
    OBVIOUS
  <2>1. CASE j = b.pos + 1 /\ i = j
    BY <1>1, <1>2, <2>1
  <2>2. CASE j = b.pos + 1 /\ i # j
    <3>1. i \in 1 .. b.pos
      BY <1>1, <2>2
    <3> QED
      BY <1>1, <1>2, <2>2, <3>1
  <2>3. CASE j # b.pos + 1
    <3> DEFINE p == b.pos
               L == Len(b.hist)
    <3>1. p \in Nat /\ L \in Nat /\ p <= L /\ i \in 1 .. p + 1 /\ j \in 1 .. p + 1 /\ j # p + 1
      BY <1>1, <2>3
    <3>2. i \in 1 .. p /\ j \in 1 .. p /\ i \in 1 .. L /\ j \in 1 .. L
      <4> HIDE DEF p, L
      <4> QED
        BY <3>1
    <3> QED
      BY <1>1, <1>2, <3>2
  <2> QED
    BY <2>1, <2>2, <2>3
<1>7. \A i \in 1 .. b.pos + 1 : h[i].doc < n
  <2> SUFFICES ASSUME NEW i \in 1 .. b.pos + 1 PROVE h[i].doc < n
    OBVIOUS
  <2>1. CASE i = b.pos + 1
    BY <1>1, <1>2, <2>1
  <2>2. CASE i # b.pos + 1
    <3>1. i \in 1 .. b.pos /\ i \in 1 .. Len(b.hist)
      BY <1>1, <2>2
    <3>2. b.hist[i].doc \in Nat /\ b.hist[i].doc < b.next
      BY <1>1, <3>1
    <3> QED
      BY <1>1, <1>2, <3>1, <3>2
  <2> QED
    BY <2>1, <2>2
<1>8. Ordered(c)
  BY <1>1, <1>2, <1>4, <1>6, <1>7 DEF Ordered
<1>9. CurUrl(c) = u /\ CurDoc(c) = d
  BY <1>1, <1>2, <1>4 DEF CurUrl, CurDoc
<1> QED
  BY <1>2, <1>4, <1>5, <1>8, <1>9 DEF GoodHistory, Appended, c, e

LEMMA NavigateOrdered ==
    ASSUME NEW b, GoodHistory(b), NEW u \in Urls
    PROVE  /\ GoodHistory(NavigateTo(b, u)) /\ NavigateTo(b, u).hist # <<>>
           /\ NavigateTo(b, u).next = b.next + 1
           /\ CurUrl(NavigateTo(b, u)) = u
<1>1. b.next \in Nat \ {0} /\ b.next + 1 \in Nat /\ b.next < b.next + 1
      /\ \A i \in 1 .. b.pos : b.hist[i].doc <= b.next
  BY HistoryFields
<1> DEFINE d == b.next
           m == b.next + 1
<1>2. NavigateTo(b, u) = AppendEntry(b, u, d, m)
  BY DEF NavigateTo
<1>3. d \in Nat \ {0} /\ m \in Nat /\ d < m /\ b.next <= m
      /\ \A i \in 1 .. b.pos : b.hist[i].doc <= d
  BY <1>1
<1> HIDE DEF d, m
<1>4. Appended(AppendEntry(b, u, d, m), b, u, d, m)
  BY <1>3, AppendOrdered
<1> QED
  BY <1>2, <1>4 DEF m, Appended

LEMMA PushOrdered ==
    ASSUME NEW b, GoodHistory(b), b.hist # <<>>, NEW u \in Urls
    PROVE  /\ GoodHistory(PushState(b, u)) /\ PushState(b, u).hist # <<>>
           /\ PushState(b, u).next = b.next
           /\ CurUrl(PushState(b, u)) = u /\ CurDoc(PushState(b, u)) = CurDoc(b)
           /\ Appended(PushState(b, u), b, u, CurDoc(b), b.next)
<1> DEFINE d == b.hist[b.pos].doc
<1>1. /\ b.next \in Nat /\ d \in Nat \ {0} /\ d < b.next /\ b.next <= b.next
      /\ \A i \in 1 .. b.pos : b.hist[i].doc <= d
  BY HistoryFields
<1>2. PushState(b, u) = AppendEntry(b, u, d, b.next) /\ CurDoc(b) = d
  BY DEF PushState, CurDoc
<1> DEFINE m == b.next
<1>3. m \in Nat /\ d < m /\ b.next <= m /\ PushState(b, u) = AppendEntry(b, u, d, m)
  BY <1>1, <1>2
<1> HIDE DEF d, m
<1>4. Appended(AppendEntry(b, u, d, m), b, u, d, m)
  BY <1>1, <1>3, AppendOrdered
<1> QED
  BY <1>2, <1>3, <1>4 DEF m, Appended

LEMMA ReplaceOrdered ==
    ASSUME NEW b, GoodHistory(b), b.hist # <<>>, NEW u \in Urls
    PROVE  /\ GoodHistory(ReplaceState(b, u)) /\ ReplaceState(b, u).hist # <<>>
           /\ ReplaceState(b, u).next = b.next /\ ReplaceState(b, u).pos = b.pos
           /\ Len(ReplaceState(b, u).hist) = Len(b.hist)
           /\ \A i \in 1 .. Len(b.hist) :
                 ReplaceState(b, u).hist[i] =
                    IF i = b.pos THEN [url |-> u, doc |-> b.hist[i].doc] ELSE b.hist[i]
           /\ CurUrl(ReplaceState(b, u)) = u /\ CurDoc(ReplaceState(b, u)) = CurDoc(b)
<1> DEFINE c == ReplaceState(b, u)
           e == [url |-> u, doc |-> b.hist[b.pos].doc]
           h == [b.hist EXCEPT ![b.pos] = e]
<1>1. /\ b.hist \in Seq(Entries) /\ Len(b.hist) \in Nat /\ b.pos \in 1 .. Len(b.hist)
      /\ b.next \in Nat \ {0} /\ e \in Entries /\ e.doc = b.hist[b.pos].doc /\ e.url = u
      /\ \A i \in 1 .. Len(b.hist) : b.hist[i].doc \in Nat /\ b.hist[i].doc < b.next
      /\ \A i, j \in 1 .. Len(b.hist) : i <= j => b.hist[i].doc <= b.hist[j].doc
  BY HistoryFields DEF Entries
<1>2. c = [b EXCEPT !.hist = h]
  BY DEF ReplaceState, Entry
<1> HIDE DEF e
<1>3. /\ h \in Seq(Entries) /\ Len(h) = Len(b.hist)
      /\ \A i \in 1 .. Len(b.hist) : h[i] = IF i = b.pos THEN e ELSE b.hist[i]
  BY <1>1, ExceptSeq
<1>4. h # <<>>
  BY <1>1, <1>3, EmptySeq
<1> HIDE DEF h
<1>5. c \in Histories /\ c.hist = h /\ c.pos = b.pos /\ c.next = b.next
  BY <1>1, <1>2, <1>3 DEF GoodHistory, Histories, Entries
<1> HIDE DEF c
<1>6. \A i \in 1 .. Len(b.hist) : h[i].doc = b.hist[i].doc
  BY <1>1, <1>3
<1>7. Ordered(c)
  BY <1>1, <1>3, <1>5, <1>6 DEF Ordered
<1>8. CurUrl(c) = u /\ CurDoc(c) = CurDoc(b)
  BY <1>1, <1>3, <1>4, <1>5 DEF CurUrl, CurDoc
<1> QED
  BY <1>3, <1>4, <1>5, <1>7, <1>8 DEF GoodHistory, c, e

LEMMA MoveOrdered ==
    ASSUME NEW b, GoodHistory(b), NEW n \in Int
    PROVE  /\ GoodHistory(MovePos(b, n)) /\ MovePos(b, n).hist = b.hist
           /\ MovePos(b, n).next = b.next
           /\ b.hist = <<>> => MovePos(b, n) = b
           /\ b.hist # <<>> =>
                 MovePos(b, n).pos = IF b.pos + n < 1 THEN 1
                                     ELSE IF b.pos + n > Len(b.hist) THEN Len(b.hist)
                                     ELSE b.pos + n
<1>1. CASE b.hist = <<>>
  BY <1>1 DEF MovePos
<1>2. CASE b.hist # <<>>
  <2> DEFINE q == IF b.pos + n < 1 THEN 1
                  ELSE IF b.pos + n > Len(b.hist) THEN Len(b.hist) ELSE b.pos + n
  <2>1. MovePos(b, n) = [b EXCEPT !.pos = q]
    BY <1>2 DEF MovePos
  <2>2. Len(b.hist) \in Nat /\ b.pos \in 1 .. Len(b.hist)
    BY <1>2, HistoryFields
  <2>3. q \in 1 .. Len(b.hist)
    BY <2>2
  <2>4. q \in Nat /\ q # 0
    BY <2>2, <2>3
  <2> HIDE DEF q
  <2>5. /\ [b EXCEPT !.pos = q] \in Histories /\ [b EXCEPT !.pos = q].hist = b.hist
        /\ [b EXCEPT !.pos = q].next = b.next /\ [b EXCEPT !.pos = q].pos = q
    BY <2>4 DEF GoodHistory, Histories
  <2>6. Ordered([b EXCEPT !.pos = q])
    BY <2>2, <2>3, <2>4, <2>5 DEF GoodHistory, Ordered
  <2> QED
    BY <1>2, <2>1, <2>5, <2>6 DEF GoodHistory, q
<1> QED
  BY <1>1, <1>2

-----------------------------------------------------------------------------
(* The tabs of the window.                                                 *)

(* What is on screen is what is in cache, when something is in both. *)
GoodTab(t) ==
    /\ t \in Tab /\ Ordered(t.b) /\ t.ld = FALSE
    /\ t.view # NoDoc /\ t.cache # NoDoc => t.view = t.cache

TabsInv ==
    /\ tabs \in Seq(Tab) /\ act \in 1 .. Len(tabs) /\ Len(tabs) <= MaxTabs
    /\ \A k \in 1 .. Len(tabs) : GoodTab(tabs[k])
    /\ \A i, j \in 1 .. Len(tabs) : tabs[i].id = tabs[j].id => i = j

LEMMA GoodTabFields ==
    ASSUME NEW t, GoodTab(t)
    PROVE  /\ GoodHistory(t.b) /\ t.id \in 1 .. MaxTabs
           /\ t.top \in Urls \cup {NoUrl} /\ t.cache \in Int /\ t.view \in Int
<1> QED
  BY DEF GoodTab, Tab, GoodHistory

LEMMA CurGood ==
    ASSUME TabsInv
    PROVE  GoodTab(Cur) /\ Cur \in Tab
<1> QED
  BY DEF TabsInv, GoodTab, Cur

LEMMA EditTab ==
    ASSUME TabsInv, NEW t, GoodTab(t), t.id = Cur.id,
           tabs' = [tabs EXCEPT ![act] = t], act' = act
    PROVE  TabsInv' /\ Cur' = t /\ Len(tabs') = Len(tabs)
<1>1. t \in Tab
  BY DEF GoodTab
<1>2. /\ tabs' \in Seq(Tab) /\ Len(tabs') = Len(tabs)
      /\ \A j \in 1 .. Len(tabs) : tabs'[j] = IF j = act THEN t ELSE tabs[j]
  BY <1>1, ExceptSeq DEF TabsInv
<1>3. \A j \in 1 .. Len(tabs) : tabs'[j].id = tabs[j].id /\ GoodTab(tabs'[j])
  BY <1>2 DEF TabsInv, Cur
<1>4. Cur' = t
  BY <1>2 DEF TabsInv, Cur
<1>5. TabsInv'
  BY <1>2, <1>3 DEF TabsInv, GoodTab
<1> QED
  BY <1>2, <1>4, <1>5

LEMMA SameTabs ==
    ASSUME TabsInv, tabs' = tabs, act' = act
    PROVE  TabsInv' /\ Cur' = Cur /\ Len(tabs') = Len(tabs)
<1> QED
  BY DEF TabsInv, Cur, GoodTab

(* No parked tab is loading, so parking one changes nothing. *)
LEMMA ParkIsIdle ==
    ASSUME NEW t, GoodTab(t)
    PROVE  Park(t) = t
<1> QED
  BY DEF GoodTab, Park, Tab

LEMMA WithoutOne ==
    ASSUME NEW E, NEW s \in Seq(E), Len(s) > 1, NEW i \in 1 .. Len(s)
    PROVE  /\ Without(s, i) \in Seq(E) /\ Len(Without(s, i)) = Len(s) - 1
           /\ \A k \in 1 .. Len(s) - 1 :
                 Without(s, i)[k] = s[IF k < i THEN k ELSE k + 1]
<1>1. Len(s) \in Nat /\ \A k \in 1 .. Len(s) : s[k] \in E
  BY ElementOfSeq, LenProperties
<1>2. Len(s) - 1 \in Nat /\ \A k \in 1 .. Len(s) - 1 : k \in 1 .. Len(s) /\ k + 1 \in 1 .. Len(s)
  BY <1>1
<1>3. Without(s, i) \in [1 .. Len(s) - 1 -> E]
  BY <1>1, <1>2 DEF Without
<1> QED
  BY <1>2, <1>3 DEF Without

LEMMA InsertedOne ==
    ASSUME NEW E, NEW s \in Seq(E), NEW i \in 1 .. Len(s) + 1, NEW t \in E
    PROVE  /\ Inserted(s, i, t) \in Seq(E) /\ Len(Inserted(s, i, t)) = Len(s) + 1
           /\ \A k \in 1 .. Len(s) + 1 :
                 Inserted(s, i, t)[k] = IF k = i THEN t ELSE s[IF k < i THEN k ELSE k - 1]
<1>1. Len(s) \in Nat /\ \A k \in 1 .. Len(s) : s[k] \in E
  BY ElementOfSeq, LenProperties
<1>2. \A k \in 1 .. Len(s) + 1 : /\ k < i => k \in 1 .. Len(s)
                                /\ ~(k < i) /\ k # i => k - 1 \in 1 .. Len(s)
  BY <1>1
<1>3. Inserted(s, i, t) \in [1 .. Len(s) + 1 -> E]
  BY <1>1, <1>2 DEF Inserted
<1> QED
  BY <1>1, <1>3 DEF Inserted

LEMMA FreeIdIsFree ==
    ASSUME TabsInv, MaxTabs \in Nat, Len(tabs) < MaxTabs
    PROVE  FreeId \in 1 .. MaxTabs /\ \A k \in 1 .. Len(tabs) : tabs[k].id # FreeId
<1> DEFINE n == Len(tabs)
           f == [k \in 1 .. n |-> tabs[k].id]
           Used == {tabs[k].id : k \in 1 .. n}
<1>1. n \in Nat /\ \A k \in 1 .. n : tabs[k].id \in 1 .. MaxTabs
  BY LenProperties, GoodTabFields DEF TabsInv
<1> HIDE DEF n
<1>2. f \in Surjection(1 .. n, Used)
  BY DEF Surjection
<1>3. IsFiniteSet(1 .. n) /\ Cardinality(1 .. n) = n
  <2>1. 1 \in Int /\ n \in Int /\ n >= 0
    BY <1>1
  <2>2. IsFiniteSet(1 .. n) /\ Cardinality(1 .. n) = IF 1 > n THEN 0 ELSE n - 1 + 1
    BY <2>1, FS_Interval
  <2> QED
    BY <2>1, <2>2
<1>4. IsFiniteSet(Used) /\ Cardinality(Used) <= n /\ Cardinality(Used) \in Nat
  <2>1. IsFiniteSet(Used) /\ Cardinality(Used) <= Cardinality(1 .. n)
    <3> HIDE DEF f, Used
    <3> QED
      BY <1>2, <1>3, FS_Surjection
  <2>2. Cardinality(Used) \in Nat
    BY <2>1, FS_CardinalityType
  <2> QED
    BY <1>3, <2>1, <2>2
<1>5. Cardinality(1 .. MaxTabs) = MaxTabs
  BY FS_Interval
<1>6. n < MaxTabs
  BY DEF n
<1>7. Used # 1 .. MaxTabs
  <2> HIDE DEF Used
  <2> QED
    BY <1>1, <1>4, <1>5, <1>6
<1>8. \E i \in 1 .. MaxTabs : i \notin Used
  BY <1>1, <1>7
<1>9. \E i \in 1 .. MaxTabs : \A k \in 1 .. n : tabs[k].id # i
  BY <1>8
<1> QED
  BY <1>9 DEF FreeId, n

-----------------------------------------------------------------------------
(* The calls to be made.  m is the number of tabs.                         *)

GoodCall(c, m) ==
    /\ c \in Calls
    /\ c.f = "switch" => c.n \in 1 .. m
    /\ c.f = "render" => c.n \in Nat /\ c.u \in Urls
    /\ c.f = "step" => c.n \in {-1, 1}

(* Calls that wait behind another one. *)
GoodCalls(s, m) == s \in Seq(Calls) /\ \A i \in 1 .. Len(s) : GoodCall(s[i], m) /\ s[i].f # "pop"

HasLoad(s) == \E i \in 1 .. Len(s) : s[i].f = "load"

(* A tab_popstate is made at once, to a live worker. *)
StackInv ==
    /\ stack \in Seq(Calls)
    /\ stack # <<>> => /\ GoodCall(Head(stack), Len(tabs))
                       /\ Head(stack).f = "pop" => wk.up
                       /\ GoodCalls(Tail(stack), Len(tabs))

Pushed(c, s) ==
    /\ <<c>> \o s \in Seq(Calls) /\ <<c>> \o s # <<>>
    /\ Head(<<c>> \o s) = c /\ Tail(<<c>> \o s) = s
    /\ HasLoad(<<c>> \o s) <=> c.f = "load" \/ HasLoad(s)

LEMMA PushCall ==
    ASSUME NEW c \in Calls, NEW s \in Seq(Calls)
    PROVE  Pushed(c, s)
<1> DEFINE p == <<c>> \o s
<1>1. <<c>> \in Seq(Calls) /\ Len(<<c>>) = 1 /\ <<c>>[1] = c
  OBVIOUS
<1>2. /\ p \in Seq(Calls) /\ Len(s) \in Nat /\ Len(p) = 1 + Len(s)
      /\ \A i \in 1 .. 1 + Len(s) : p[i] = IF i <= 1 THEN <<c>>[i] ELSE s[i - 1]
  BY <1>1, ConcatProperties, LenProperties
<1> HIDE DEF p
<1>3. p[1] = c /\ \A i \in 1 .. Len(s) : p[i + 1] = s[i]
  BY <1>1, <1>2
<1>4. p # <<>>
  BY <1>2, EmptySeq
<1>5. Head(p) = c
  BY <1>2, <1>3, <1>4
<1>6. Tail(p) \in Seq(Calls) /\ Len(Tail(p)) = Len(s)
      /\ \A i \in 1 .. Len(s) : Tail(p)[i] = s[i]
  BY <1>2, <1>3, <1>4, HeadTailProperties
<1>7. Tail(p) = s
  BY <1>6, SeqEqual
<1>8. HasLoad(p) <=> c.f = "load" \/ HasLoad(s)
  <2>1. ASSUME HasLoad(p) PROVE c.f = "load" \/ HasLoad(s)
    <3>1. PICK i \in 1 .. Len(p) : p[i].f = "load"
      BY <2>1 DEF HasLoad
    <3>2. CASE i = 1
      BY <1>3, <3>1, <3>2
    <3>3. CASE i # 1
      <4>1. i - 1 \in 1 .. Len(s) /\ p[(i - 1) + 1] = s[i - 1] /\ (i - 1) + 1 = i
        BY <1>2, <1>3, <3>1, <3>3
      <4> QED
        BY <3>1, <4>1 DEF HasLoad
    <3> QED
      BY <3>2, <3>3
  <2>2. ASSUME c.f = "load" PROVE HasLoad(p)
    <3>1. 1 \in 1 .. Len(p)
      BY <1>2
    <3> QED
      BY <1>3, <2>2, <3>1 DEF HasLoad
  <2>3. ASSUME HasLoad(s) PROVE HasLoad(p)
    <3>1. PICK i \in 1 .. Len(s) : s[i].f = "load"
      BY <2>3 DEF HasLoad
    <3>2. i + 1 \in 1 .. Len(p)
      BY <1>2, <3>1
    <3> QED
      BY <1>3, <3>1, <3>2 DEF HasLoad
  <2> QED
    BY <2>1, <2>2, <2>3
<1> QED
  BY <1>2, <1>4, <1>5, <1>7, <1>8 DEF Pushed, p

(* The stack after a call or an event: calls that wait, or one before them. *)
LEMMA NextStack ==
    ASSUME NEW s, GoodCalls(s, Len(tabs')), tabs' \in Seq(Tab),
           \/ stack' = s
           \/ \E c : GoodCall(c, Len(tabs')) /\ (c.f = "pop" => wk'.up) /\ stack' = <<c>> \o s
    PROVE  StackInv'
<1>1. s \in Seq(Calls) /\ Len(s) \in Nat
  BY LenProperties DEF GoodCalls
<1>2. CASE stack' = s
  <2>1. CASE s = <<>>
    BY <1>1, <1>2, <2>1 DEF StackInv
  <2>2. CASE s # <<>>
    <3>1. 1 \in 1 .. Len(s) /\ Head(s) = s[1]
      BY <1>1, <2>2, EmptySeq
    <3>2. GoodCall(Head(s), Len(tabs')) /\ Head(s).f # "pop"
      BY <3>1 DEF GoodCalls
    <3>3. /\ Tail(s) \in Seq(Calls) /\ Len(Tail(s)) = Len(s) - 1
          /\ \A i \in 1 .. Len(Tail(s)) : Tail(s)[i] = s[i + 1]
      BY <1>1, <2>2, HeadTailProperties
    <3>4. \A i \in 1 .. Len(Tail(s)) : i + 1 \in 1 .. Len(s)
      BY <1>1, <3>3
    <3>5. GoodCalls(Tail(s), Len(tabs'))
      <4> DEFINE r == Tail(s)
      <4>1. \A i \in 1 .. Len(r) : r[i] = s[i + 1] /\ i + 1 \in 1 .. Len(s)
        BY <3>3, <3>4
      <4>2. \A i \in 1 .. Len(s) : GoodCall(s[i], Len(tabs')) /\ s[i].f # "pop"
        BY DEF GoodCalls
      <4>3. r \in Seq(Calls)
        BY <3>3
      <4> HIDE DEF r
      <4>4. ASSUME NEW i \in 1 .. Len(r) PROVE GoodCall(r[i], Len(tabs')) /\ r[i].f # "pop"
        <5> DEFINE k == i + 1
        <5>1. k \in 1 .. Len(s) /\ r[i] = s[k]
          BY <4>1
        <5> HIDE DEF k
        <5> QED
          BY <4>2, <5>1
      <4>5. GoodCalls(r, Len(tabs'))
        BY <4>3, <4>4, Zenon DEF GoodCalls
      <4> QED
        BY <4>5 DEF r
    <3> QED
      BY <1>1, <1>2, <3>2, <3>5 DEF StackInv
  <2> QED
    BY <2>1, <2>2
<1>3. ASSUME NEW c, GoodCall(c, Len(tabs')), c.f = "pop" => wk'.up, stack' = <<c>> \o s
      PROVE  StackInv'
  <2>1. Pushed(c, s)
    BY <1>1, <1>3, PushCall DEF GoodCall
  <2> QED
    BY <1>3, <2>1 DEF Pushed, StackInv
<1> QED
  BY <1>2, <1>3

LEMMA WaitingCalls ==
    ASSUME StackInv, stack # <<>>
    PROVE  /\ GoodCalls(Tail(stack), Len(tabs))
           /\ Head(stack).f # "pop" => GoodCalls(stack, Len(tabs))
           /\ HasLoad(stack) <=> Head(stack).f = "load" \/ HasLoad(Tail(stack))
<1>1. /\ stack \in Seq(Calls) /\ Len(stack) \in Nat \ {0} /\ Head(stack) = stack[1]
      /\ Tail(stack) \in Seq(Calls) /\ Len(Tail(stack)) = Len(stack) - 1
      /\ \A i \in 1 .. Len(Tail(stack)) : Tail(stack)[i] = stack[i + 1]
  BY HeadTailProperties, EmptySeq DEF StackInv
<1>2. \A i \in 2 .. Len(stack) : i - 1 \in 1 .. Len(Tail(stack)) /\ stack[i] = Tail(stack)[i - 1]
  <2> SUFFICES ASSUME NEW i \in 2 .. Len(stack)
               PROVE  i - 1 \in 1 .. Len(Tail(stack)) /\ stack[i] = Tail(stack)[i - 1]
    OBVIOUS
  <2>1. i - 1 \in 1 .. Len(Tail(stack)) /\ (i - 1) + 1 = i
    BY <1>1
  <2>2. Tail(stack)[i - 1] = stack[(i - 1) + 1]
    BY <1>1, <2>1
  <2> QED
    BY <2>1, <2>2
<1>3. \A i \in 1 .. Len(stack) : i = 1 \/ i \in 2 .. Len(stack)
  BY <1>1
<1>4. \A i \in 1 .. Len(Tail(stack)) : i + 1 \in 1 .. Len(stack)
  BY <1>1
<1>5. Head(stack).f # "pop" => GoodCalls(stack, Len(tabs))
  BY <1>1, <1>2, <1>3 DEF StackInv, GoodCalls
<1>6. HasLoad(stack) <=> Head(stack).f = "load" \/ HasLoad(Tail(stack))
  <2>1. 1 \in 1 .. Len(stack)
    BY <1>1
  <2> QED
    BY <1>1, <1>2, <1>3, <1>4, <2>1 DEF HasLoad
<1> QED
  BY <1>5, <1>6 DEF StackInv

LEMMA NothingWaits ==
    ASSUME NEW m
    PROVE  /\ GoodCalls(<<>>, m) /\ ~HasLoad(<<>>)
           /\ \A c \in Calls : <<c>> \o <<>> = <<c>>
<1>1. <<>> \in Seq(Calls) /\ Len(<<>>) = 0
  BY EmptySeq
<1>2. \A c \in Calls : <<c>> \o <<>> = <<c>>
  <2> SUFFICES ASSUME NEW c \in Calls PROVE <<c>> \o <<>> = <<c>>
    OBVIOUS
  <2>1. <<c>> \in Seq(Calls)
    OBVIOUS
  <2> QED
    BY <2>1, ConcatEmptySeq
<1> QED
  BY <1>1, <1>2 DEF GoodCalls, HasLoad

(* The calls there are. *)
LEMMA CallsGood ==
    ASSUME NEW m \in Nat, NEW u \in Urls \cup {NoUrl}, NEW d \in Nat
    PROVE  /\ GoodCall(LoadCall(u), m) /\ LoadCall(u).f = "load" /\ LoadCall(u).u = u
           /\ GoodCall(TabCall(u), m) /\ TabCall(u).f = "tab" /\ TabCall(u).u = u
           /\ GoodCall(LeaveCall, m) /\ LeaveCall.f = "leave"
           /\ GoodCall(PopCall(d), m) /\ PopCall(d).f = "pop" /\ PopCall(d).d = d
           /\ u # NoUrl => GoodCall(RenderCall(u, d), m)
           /\ RenderCall(u, d).f = "render" /\ RenderCall(u, d).n = d
           /\ RenderCall(u, d).u = u
           /\ \A n \in {-1, 1} : GoodCall(StepCall(n, d), m) /\ StepCall(n, d).f = "step"
                                  /\ StepCall(n, d).n = n
           /\ \A i \in 1 .. m : GoodCall(SwitchCall(i), m) /\ SwitchCall(i).f = "switch"
<1> QED
  BY DEF GoodCall, Calls, Call, LoadCall, TabCall, LeaveCall, PopCall, RenderCall, StepCall,
         SwitchCall

-----------------------------------------------------------------------------
(* What scripts report, and the worker.                                    *)

GoodResult(r) ==
    /\ r \in Result
    /\ r.k \in {"push", "replace", "nav", "open"} => r.u \in Urls
    /\ r.k = "go" => r.n \in {-1, 1}

GoodWorker(w) == w \in Worker /\ (w.up => w.hi < Len(w.H) /\ Len(w.H) <= HMax)

LEMMA ResultsGood ==
    ASSUME NEW r \in Results \cup Opens
    PROVE  GoodResult(r) /\ r # NoTick
<1>1. ASSUME NEW k \in {"push", "replace", "nav", "open"}, NEW u \in Urls, r = Res(k, u, 0)
      PROVE  GoodResult(r) /\ r # NoTick
  BY <1>1 DEF Res, GoodResult, Result, NoTick
<1>2. ASSUME NEW n \in {-1, 1}, r = Res("go", NoUrl, n)
      PROVE  GoodResult(r) /\ r # NoTick
  BY <1>2 DEF Res, GoodResult, Result, NoTick
<1>3. CASE r = Quiet
  BY <1>3 DEF Quiet, Res, GoodResult, Result, NoTick
<1> QED
  BY <1>1, <1>2, <1>3 DEF Results, Opens

LEMMA ReportGood ==
    ASSUME NEW w, NEW r, GoodResult(r)
    PROVE  /\ GoodResult(Report(w, r)) /\ Moves(Report(w, r)) = Moves(r)
           /\ Report(w, r).u = r.u /\ Report(w, r).n = r.n
           /\ Report(w, r).k = "push" => w.hi + 1 < HMax \/ ~(w.hi + 1 >= HMax)
           /\ r.k \notin {"push", "replace"} => Report(w, r) = r
           /\ r.k # "notick" => Report(w, r) # NoTick
<1>1. CASE r.k = "push" /\ w.hi + 1 >= HMax
  <2>1. Report(w, r) = [r EXCEPT !.k = "replace"]
    BY <1>1 DEF Report
  <2> QED
    BY <1>1, <2>1 DEF GoodResult, Result, Moves, NoTick, Res
<1>2. CASE ~(r.k = "push" /\ w.hi + 1 >= HMax)
  <2>1. Report(w, r) = r
    BY <1>2 DEF Report
  <2> QED
    BY <1>2, <2>1 DEF GoodResult, NoTick, Res
<1> QED
  BY <1>1, <1>2

(* A script changes the list and the index of its worker and nothing else. *)
SameWorker(v, w) ==
    v.up = w.up /\ v.doc = w.doc /\ v.tab = w.tab /\ v.upto = w.upto

LEMMA RunScriptGood ==
    ASSUME HMax \in Nat, NEW w, GoodWorker(w), w.up, NEW r, GoodResult(r)
    PROVE  /\ GoodWorker(RunScript(w, r)) /\ SameWorker(RunScript(w, r), w)
           /\ RunScript(w, r).exact = w.exact
<1> DEFINE o == Report(w, r)
           U == Urls \cup {NoUrl}
<1>1. /\ w.H \in Seq(U) /\ Len(w.H) \in Nat /\ w.hi \in Nat /\ w.hi < Len(w.H)
      /\ Len(w.H) <= HMax
  BY LenProperties DEF GoodWorker, Worker
<1>2. GoodResult(o) /\ (o.k = "push" => w.hi + 1 < HMax \/ ~(w.hi + 1 >= HMax))
  BY ReportGood
<1> HIDE DEF o
<1>3. CASE o.k = "push"
  <2> DEFINE h == Append(SubSeq(w.H, 1, w.hi + 1), o.u)
  <2>1. RunScript(w, r) = [w EXCEPT !.H = h, !.hi = w.hi + 1]
    BY <1>3 DEF RunScript, o
  <2>2. o.u \in U /\ w.hi + 1 \in 0 .. Len(w.H) /\ w.hi + 2 <= HMax
    BY <1>1, <1>2, <1>3 DEF GoodResult
  <2>3. h \in Seq(U) /\ Len(h) = w.hi + 2
    <3> DEFINE n == w.hi + 1
    <3>1. n \in 0 .. Len(w.H) /\ n + 1 = w.hi + 2
      BY <1>1, <2>2
    <3> HIDE DEF n
    <3>2. Append(SubSeq(w.H, 1, n), o.u) \in Seq(U) /\ Len(Append(SubSeq(w.H, 1, n), o.u)) = n + 1
      BY <1>1, <2>2, <3>1, CutAndAppend
    <3> QED
      BY <3>1, <3>2 DEF n
  <2> DEFINE k == w.hi + 1
  <2>4. k \in Nat /\ k < Len(h) /\ Len(h) <= HMax /\ RunScript(w, r) = [w EXCEPT !.H = h, !.hi = k]
    BY <1>1, <2>1, <2>2, <2>3
  <2> HIDE DEF h, k
  <2>5. [w EXCEPT !.H = h, !.hi = k] \in Worker
    BY <2>3, <2>4 DEF GoodWorker, Worker
  <2>6. [w EXCEPT !.H = h, !.hi = k].H = h /\ [w EXCEPT !.H = h, !.hi = k].hi = k
    BY DEF GoodWorker, Worker
  <2> QED
    BY <2>4, <2>5, <2>6 DEF GoodWorker, Worker, SameWorker
<1>4. CASE o.k = "replace"
  <2> DEFINE h == [w.H EXCEPT ![w.hi + 1] = o.u]
  <2>1. RunScript(w, r) = [w EXCEPT !.H = h]
    BY <1>4 DEF RunScript, o
  <2>2. o.u \in U /\ w.hi + 1 \in 1 .. Len(w.H)
    BY <1>1, <1>2, <1>4 DEF GoodResult
  <2>3. h \in Seq(U) /\ Len(h) = Len(w.H)
    BY <1>1, <2>2, ExceptSeq
  <2> HIDE DEF h
  <2> QED
    BY <1>1, <2>1, <2>3 DEF GoodWorker, Worker, SameWorker
<1>5. CASE o.k \notin {"push", "replace"}
  BY <1>5 DEF RunScript, o, SameWorker
<1> QED
  BY <1>3, <1>4, <1>5

LEMMA HistPopGood ==
    ASSUME NEW w, GoodWorker(w), w.up, NEW i
    PROVE  GoodWorker(HistPop(w, i)) /\ SameWorker(HistPop(w, i), w)
           /\ HistPop(w, i).exact = w.exact /\ HistPop(w, i).H = w.H
<1>1. /\ w.H \in Seq(Urls \cup {NoUrl}) /\ Len(w.H) \in Nat /\ w.hi \in Nat
  BY LenProperties DEF GoodWorker, Worker
<1>2. CASE i \in 0 .. Len(w.H) - 1
  <2>1. HistPop(w, i) = [w EXCEPT !.hi = i] /\ i \in Nat /\ i < Len(w.H)
    BY <1>1, <1>2 DEF HistPop
  <2> QED
    BY <2>1 DEF GoodWorker, Worker, SameWorker
<1>3. CASE i \notin 0 .. Len(w.H) - 1
  BY <1>3 DEF HistPop, SameWorker
<1> QED
  BY <1>2, <1>3

(* What becomes of the bookkeeping of exact. *)
Marked(v, w) ==
    GoodWorker(v) /\ SameWorker(v, w) /\ v.H = w.H /\ v.hi = w.hi

LEMMA MarkGood ==
    ASSUME NEW w, GoodWorker(w), NEW x \in BOOLEAN
    PROVE  Marked([w EXCEPT !.exact = x], w) /\ [w EXCEPT !.exact = x].exact = x
<1> QED
  BY DEF GoodWorker, Worker, Marked, SameWorker

LEMMA AppliedGood ==
    ASSUME NEW w, GoodWorker(w), NEW r
    PROVE  /\ Marked(Applied(w, r), w) /\ Marked(Discarded(w, r), w)
           /\ Applied(w, r).exact => w.exact /\ (Moves(r) => w.doc = CurDoc(Cur.b))
           /\ Discarded(w, r).exact => w.exact /\ ~Moves(r)
<1> DEFINE x == w.exact /\ (Moves(r) => w.doc = CurDoc(tabs[act].b))
           y == w.exact /\ ~Moves(r)
<1>1. x \in BOOLEAN /\ y \in BOOLEAN
  OBVIOUS
<1>2. Applied(w, r) = [w EXCEPT !.exact = x] /\ Discarded(w, r) = [w EXCEPT !.exact = y]
  BY DEF Applied, Discarded
<1>3. (x => w.exact /\ (Moves(r) => w.doc = CurDoc(Cur.b))) /\ (y => w.exact /\ ~Moves(r))
  BY DEF Cur
<1> HIDE DEF x, y
<1>4. Marked([w EXCEPT !.exact = x], w) /\ [w EXCEPT !.exact = x].exact = x
  BY <1>1, MarkGood
<1>5. Marked([w EXCEPT !.exact = y], w) /\ [w EXCEPT !.exact = y].exact = y
  BY <1>1, MarkGood
<1> QED
  BY <1>2, <1>3, <1>4, <1>5

LEMMA LoadedGood ==
    ASSUME HMax \in Nat \ {0}, NEW t, GoodHistory(t.b), t.id \in Nat,
           NEW u \in Urls \cup {NoUrl}, NEW d \in Int
    PROVE  /\ GoodWorker(Loaded(t, u, d)) /\ Loaded(t, u, d).up
           /\ Loaded(t, u, d).doc = d /\ Loaded(t, u, d).tab = t.id
           /\ Loaded(t, u, d).upto = t.b.next
           /\ Loaded(t, u, d).H = <<u>> /\ Loaded(t, u, d).hi = 0
           /\ Loaded(t, u, d).exact =>
                 t.b.hist # <<>> /\ d = CurDoc(t.b) /\ RunUrls(t.b) = <<u>>
<1> DEFINE x == t.b.hist # <<>> /\ d = CurDoc(t.b) /\ RunUrls(t.b) = <<u>>
<1>1. x \in BOOLEAN
  OBVIOUS
<1>2. t.id \in Nat /\ t.b.next \in Nat
  BY HistoryFields
<1>3. <<u>> \in Seq(Urls \cup {NoUrl}) /\ Len(<<u>>) = 1
  OBVIOUS
<1>4. Loaded(t, u, d) = [up |-> TRUE, doc |-> d, tab |-> t.id, H |-> <<u>>, hi |-> 0,
                         exact |-> x, upto |-> t.b.next]
  BY DEF Loaded
<1>5. x => t.b.hist # <<>> /\ d = CurDoc(t.b) /\ RunUrls(t.b) = <<u>>
  OBVIOUS
<1> HIDE DEF x
<1> QED
  BY <1>1, <1>2, <1>3, <1>4, <1>5 DEF GoodWorker, Worker

-----------------------------------------------------------------------------
(* The inductive invariant.                                                *)

(* The live worker is of the active tab, and of the page it holds. *)
WorkerInv ==
    /\ GoodWorker(wk)
    /\ wk.up => /\ wk.tab = Cur.id
                /\ Cur.cache # NoDoc => wk.doc = Cur.cache
                /\ Cur.view # NoDoc => wk.doc = Cur.view

TickInv == tick # NoTick => wk.up /\ GoodResult(tick)

(* While no load waits to be made, the fetch of the current generation is the *)
(* active tab's and its current document's, and what the buffer of the        *)
(* progressive render holds is of it or of a superseded fetch.                *)
StreamInv ==
    /\ stream \in [open : BOOLEAN, doc : Int, sig : BOOLEAN]
    /\ HasLoad(stack) \/ stream.doc \in {NoDoc, OldDoc, CurDoc(Cur.b)}

FetchInv ==
    /\ gen \in Gens \cup {0} /\ loading \in BOOLEAN /\ jobs \subseteq Job
    /\ LoadingHasJob
    /\ \A i, j \in jobs : i.gen = gen /\ j.gen = gen => i = j
    /\ HasLoad(stack) \/ \A j \in jobs : j.gen = gen => j.tab = Cur.id /\ j.doc = CurDoc(Cur.b)
    /\ StreamInv

(* Unless a tick's report came in between, one call is to be made, about the *)
(* current entry.                                                            *)
CurrentCall(c, b) ==
    /\ c.f = "load" => c.u = NoUrl \/ b.hist = <<>> \/ c.u = CurUrl(b)
    /\ c.f = "render" => c.n = CurDoc(b)

LateInv == ~late => stack = <<>> \/ (Tail(stack) = <<>> /\ CurrentCall(Head(stack), Cur.b))

Inv == /\ TabsInv /\ StackInv /\ WorkerInv /\ TickInv /\ FetchInv /\ LateInv
       /\ jsnav \in 0 .. JsNavMax

(* What every step must do, besides keeping Inv. *)
StepOK == Inv' /\ PaintsCurrent /\ LoadsOwnEntry /\ InputsStable

LateNext == late' = (stack' # <<>> /\ (late \/ Settles)) /\ stream' = Superseded

(* The active tab is changed in place. *)
Edits(t) == GoodTab(t) /\ t.id = Cur.id /\ tabs' = [tabs EXCEPT ![act] = t] /\ act' = act

LEMMA EditsTabs ==
    ASSUME TabsInv, NEW t, Edits(t)
    PROVE  TabsInv' /\ Cur' = t /\ Len(tabs') = Len(tabs) /\ tabs' \in Seq(Tab)
           /\ tabs'[act'] = t
<1>1. TabsInv' /\ Cur' = t /\ Len(tabs') = Len(tabs)
  BY EditTab DEF Edits
<1> QED
  BY <1>1 DEF TabsInv, Cur

LEMMA NoEdit ==
    ASSUME TabsInv, tabs' = tabs, act' = act
    PROVE  Edits(Cur)
<1>1. GoodTab(Cur)
  BY CurGood
<1>2. tabs = [tabs EXCEPT ![act] = tabs[act]]
  BY LenProperties DEF TabsInv
<1> QED
  BY <1>1, <1>2 DEF Edits, Cur

LEMMA LateKept ==
    ASSUME LateNext, StackInv, NEW s, s \in Seq(Calls),
           \/ stack' = s /\ (~late /\ ~Settles /\ s # <<>> =>
                                 Tail(s) = <<>> /\ CurrentCall(Head(s), Cur'.b))
           \/ \E c \in Calls : /\ stack' = <<c>> \o s
                               /\ ~late /\ ~Settles => s = <<>> /\ CurrentCall(c, Cur'.b)
    PROVE  LateInv'
<1>1. CASE stack' = s /\ (~late /\ ~Settles /\ s # <<>> =>
                                 Tail(s) = <<>> /\ CurrentCall(Head(s), Cur'.b))
  BY <1>1 DEF LateNext, LateInv, CurrentCall, CurUrl, CurDoc
<1>2. ASSUME NEW c \in Calls, stack' = <<c>> \o s,
             ~late /\ ~Settles => s = <<>> /\ CurrentCall(c, Cur'.b)
      PROVE  LateInv'
  <2>1. Pushed(c, s)
    BY PushCall
  <2> QED
    BY <1>2, <2>1 DEF LateNext, LateInv, CurrentCall, CurUrl, CurDoc, Pushed
<1> QED
  BY <1>1, <1>2

LEMMA StreamKept ==
    ASSUME StreamInv, LateNext,
           \/ gen' # gen
           \/ HasLoad(stack')
           \/ CurDoc(Cur'.b) = CurDoc(Cur.b) /\ ~HasLoad(stack)
    PROVE  StreamInv'
<1>1. CurDoc(Cur.b)' = CurDoc(Cur'.b)
  BY DEF CurDoc, Cur
<1>2. HasLoad(stack)' = HasLoad(stack')
  BY DEF HasLoad
<1>3. CASE gen' = gen
  BY <1>1, <1>2, <1>3 DEF StreamInv, LateNext, Superseded
<1>4. CASE gen' # gen
  <2>1. NoDoc \in Int /\ OldDoc \in Int
    BY DEF NoDoc, OldDoc
  <2> HIDE DEF NoDoc, OldDoc
  <2>2. /\ stream' \in [open : BOOLEAN, doc : Int, sig : BOOLEAN]
        /\ stream'.doc \in {NoDoc, OldDoc}
    BY <1>4, <2>1 DEF StreamInv, LateNext, Superseded
  <2> QED
    BY <2>2 DEF StreamInv
<1> QED
  BY <1>3, <1>4

LEMMA FetchKept ==
    ASSUME FetchInv, LateNext, UNCHANGED <<gen, loading, jobs>>, Cur'.id = Cur.id,
           \/ HasLoad(stack')
           \/ CurDoc(Cur'.b) = CurDoc(Cur.b) /\ ~HasLoad(stack)
    PROVE  FetchInv'
<1>1. CurDoc(Cur.b)' = CurDoc(Cur'.b)
  BY DEF CurDoc, Cur
<1>2. HasLoad(stack)' = HasLoad(stack')
  BY DEF HasLoad
<1>3. LoadingHasJob'
  BY DEF FetchInv, LoadingHasJob
<1>4. StreamInv'
  BY StreamKept DEF FetchInv
<1> QED
  BY <1>1, <1>2, <1>3, <1>4 DEF FetchInv

(* net_gen++ and a fetch under the new generation, or none. *)
LEMMA FetchBumped ==
    ASSUME TabsInv, FetchInv, LateNext, Bump, Cur'.id = Cur.id, CurDoc(Cur'.b) = CurDoc(Cur.b),
           \/ \E u \in Urls, p \in BOOLEAN : Launch(u, p)
           \/ loading' = FALSE /\ jobs' = jobs
    PROVE  FetchInv'
<1>1. CurDoc(Cur.b)' = CurDoc(Cur'.b)
  BY DEF CurDoc, Cur
<1>2. gen' \in Gens /\ gen' # gen /\ \A j \in jobs : j.gen # gen'
  BY DEF Bump, NextGen
<1>5. StreamInv'
  BY <1>2, StreamKept DEF FetchInv
<1>3. ASSUME NEW u \in Urls, NEW p \in BOOLEAN, Launch(u, p)
      PROVE  FetchInv'
  <2> DEFINE n == [gen |-> gen', url |-> u, tab |-> Cur.id, doc |-> CurDoc(Cur.b), post |-> p]
  <2>1. jobs' = jobs \cup {n} /\ loading' = TRUE
    BY <1>3 DEF Launch
  <2>2. GoodTab(Cur) /\ Cur.id \in 1 .. MaxTabs /\ CurDoc(Cur.b) \in Nat
    BY CurGood, GoodTabFields, CurrentTyped
  <2>3. n \in Job /\ n.gen = gen' /\ n.tab = Cur.id /\ n.doc = CurDoc(Cur.b)
    BY <1>2, <2>2 DEF Job
  <2> HIDE DEF n
  <2>4. \A j \in jobs' : j.gen = gen' => j = n
    BY <1>2, <2>1
  <2>5. LoadingHasJob'
    BY <2>1, <2>3 DEF LoadingHasJob
  <2>6. jobs' \subseteq Job
    BY <2>1, <2>3 DEF FetchInv
  <2> QED
    BY <1>1, <1>2, <1>5, <2>1, <2>3, <2>4, <2>5, <2>6 DEF FetchInv
<1>4. CASE loading' = FALSE /\ jobs' = jobs
  <2>1. LoadingHasJob'
    BY <1>4 DEF LoadingHasJob
  <2> QED
    BY <1>2, <1>4, <1>5, <2>1 DEF FetchInv
<1> QED
  BY <1>3, <1>4

-----------------------------------------------------------------------------
(* apply_click_result.                                                     *)

(* A report without a navigation shows the worker's page and keeps the      *)
(* document of the current entry.                                           *)
Shown(x, t, d) ==
    /\ GoodTab(x) /\ x.id = t.id /\ x.cache = t.cache /\ x.view = d
    /\ CurDoc(x.b) = CurDoc(t.b) /\ x.b.next = t.b.next

LEMMA OpsShown ==
    ASSUME NEW v, GoodTab(v), NEW r, GoodResult(r)
    PROVE  /\ Shown(ApplyOps(v, r), v, v.view)
           /\ ~Moves(r) => ApplyOps(v, r) = v
<1>1. GoodHistory(v.b) /\ v \in Tab
  BY GoodTabFields DEF GoodTab
<1>2. ASSUME NEW c, GoodHistory(c), CurDoc(c) = CurDoc(v.b), c.next = v.b.next,
             NEW u \in Urls
      PROVE  Shown([v EXCEPT !.b = c, !.top = u], v, v.view)
  <2> DEFINE x == [v EXCEPT !.b = c, !.top = u]
  <2>1. c \in Histories /\ u \in Urls \cup {NoUrl}
    BY <1>2 DEF GoodHistory
  <2>2. /\ x \in Tab /\ x.id = v.id /\ x.cache = v.cache /\ x.view = v.view /\ x.b = c
        /\ x.ld = v.ld
    BY <1>1, <2>1 DEF Tab
  <2> HIDE DEF x
  <2>3. GoodTab(x)
    BY <1>2, <2>2 DEF GoodTab, GoodHistory
  <2> QED
    BY <1>2, <2>2, <2>3 DEF x, Shown
<1>3. CASE v.b.hist # <<>> /\ r.k = "push"
  <2> DEFINE c == PushState(v.b, r.u)
  <2>1. r.u \in Urls /\ GoodHistory(c) /\ CurDoc(c) = CurDoc(v.b) /\ c.next = v.b.next
    BY <1>1, <1>3, PushOrdered DEF GoodResult
  <2>2. ApplyOps(v, r) = [v EXCEPT !.b = c, !.top = r.u]
    BY <1>3 DEF ApplyOps
  <2> HIDE DEF c
  <2>3. Shown([v EXCEPT !.b = c, !.top = r.u], v, v.view)
    BY <1>2, <2>1
  <2>4. Moves(r)
    BY <1>3 DEF Moves
  <2> QED
    BY <2>2, <2>3, <2>4
<1>4. CASE v.b.hist # <<>> /\ r.k = "replace"
  <2> DEFINE c == ReplaceState(v.b, r.u)
  <2>1. r.u \in Urls /\ GoodHistory(c) /\ CurDoc(c) = CurDoc(v.b) /\ c.next = v.b.next
    BY <1>1, <1>4, ReplaceOrdered DEF GoodResult
  <2>2. ApplyOps(v, r) = [v EXCEPT !.b = c, !.top = r.u]
    BY <1>4 DEF ApplyOps
  <2> HIDE DEF c
  <2>3. Shown([v EXCEPT !.b = c, !.top = r.u], v, v.view)
    BY <1>2, <2>1
  <2>4. Moves(r)
    BY <1>4 DEF Moves
  <2> QED
    BY <2>2, <2>3, <2>4
<1>5. CASE ~(v.b.hist # <<>> /\ r.k \in {"push", "replace"})
  <2>1. ApplyOps(v, r) = v
    BY <1>5 DEF ApplyOps
  <2> QED
    BY <2>1 DEF Shown
<1>6. ~Moves(r) => ApplyOps(v, r) = v
  BY DEF Moves, ApplyOps
<1> QED
  BY <1>3, <1>4, <1>5, <1>6

(* The page of a live worker on screen. *)
LEMMA ViewsWorker ==
    ASSUME TabsInv, WorkerInv, wk.up,
           NEW t, GoodTab(t), t.id = Cur.id, t.b = Cur.b, t.cache = Cur.cache
    PROVE  Shown([t EXCEPT !.view = wk.doc], t, wk.doc)
           /\ [t EXCEPT !.view = wk.doc].b = t.b /\ [t EXCEPT !.view = wk.doc].top = t.top
<1> DEFINE v == [t EXCEPT !.view = wk.doc]
<1>1. wk.doc \in Int /\ t \in Tab
  BY DEF WorkerInv, GoodWorker, Worker, GoodTab
<1>2. /\ v \in Tab /\ v.id = t.id /\ v.b = t.b /\ v.cache = t.cache /\ v.view = wk.doc
      /\ v.top = t.top /\ v.ld = t.ld
  BY <1>1 DEF Tab
<1>3. wk.doc # NoDoc /\ Cur.cache # NoDoc => wk.doc = Cur.cache
  BY DEF WorkerInv
<1> HIDE DEF v
<1>4. GoodTab(v)
  BY <1>2, <1>3 DEF GoodTab
<1> QED
  BY <1>2, <1>4 DEF v, Shown

(* A navigation cuts the forward entries and changes nothing else. *)
LEMMA Navigates ==
    ASSUME NEW t, GoodTab(t), NEW u \in Urls
    PROVE  LET x == [t EXCEPT !.b = NavigateTo(t.b, u)]
           IN  /\ GoodTab(x) /\ x.id = t.id /\ x.cache = t.cache /\ x.view = t.view
               /\ x.top = t.top /\ x.b.hist # <<>> /\ CurUrl(x.b) = u
               /\ x.b.next = t.b.next + 1
<1> DEFINE c == NavigateTo(t.b, u)
           x == [t EXCEPT !.b = c]
<1>1. GoodHistory(c) /\ c.hist # <<>> /\ CurUrl(c) = u /\ c.next = t.b.next + 1
  BY GoodTabFields, NavigateOrdered
<1> HIDE DEF c
<1>2. /\ x \in Tab /\ x.id = t.id /\ x.cache = t.cache /\ x.view = t.view /\ x.top = t.top
      /\ x.b = c /\ x.ld = t.ld
  BY <1>1 DEF GoodTab, GoodHistory, Tab
<1> HIDE DEF x
<1>3. GoodTab(x)
  BY <1>1, <1>2 DEF GoodTab, GoodHistory
<1> QED
  BY <1>1, <1>2, <1>3 DEF x, c

(* The call an operation ends with, and the tab it leaves. *)
Follows(x, r, calls) ==
    \/ /\ r.k = "nav" /\ x.view = Cur.view /\ x.b.hist # <<>> /\ r.u \in Urls
       /\ CurUrl(x.b) = r.u /\ stack' = <<LoadCall(r.u)>> \o calls
    \/ /\ x.view = wk.doc /\ CurDoc(x.b) = CurDoc(Cur.b)
       /\ r.k = "none" => x.b = Cur.b
       /\ \/ stack' = calls
          \/ \E c : /\ r.k # "none" /\ GoodCall(c, Len(tabs)) /\ c.f \in {"tab", "step"}
                    /\ stack' = <<c>> \o calls

LEMMA ResultApplied ==
    ASSUME NavAssumption, Inv, wk.up, NEW r, GoodResult(r), NEW d \in Nat, NEW calls,
           NEW t, GoodTab(t), t.id = Cur.id, t.b = Cur.b, t.cache = Cur.cache,
           t.view = Cur.view,
           ApplyResult(t, r, d, calls), act' = act
    PROVE  /\ \E x : Edits(x) /\ x.cache = Cur.cache /\ Follows(x, r, calls)
           /\ jsnav' \in 0 .. JsNavMax
<1>1. JsNavMax \in Nat /\ jsnav \in 0 .. JsNavMax /\ TabsInv /\ WorkerInv
  BY DEF NavAssumption, Inv
<1>2. CASE Jumps(r)
  <2> DEFINE x == [t EXCEPT !.b = NavigateTo(t.b, r.u)]
  <2>1. r.k = "nav" /\ r.u \in Urls /\ jsnav < JsNavMax
    BY <1>2 DEF Jumps, GoodResult
  <2>2. /\ GoodTab(x) /\ x.id = t.id /\ x.cache = t.cache /\ x.view = t.view
        /\ x.b.hist # <<>> /\ CurUrl(x.b) = r.u
    BY <2>1, Navigates
  <2>3. tabs' = [tabs EXCEPT ![act] = x]
    BY <1>2 DEF ApplyResult, SetCur
  <2>4. stack' = <<LoadCall(r.u)>> \o calls
    BY <1>2, <2>1 DEF ApplyResult
  <2>5. jsnav' = jsnav + 1
    BY <1>2 DEF ApplyResult
  <2> HIDE DEF x
  <2>6. Edits(x) /\ x.cache = Cur.cache
    BY <2>2, <2>3 DEF Edits
  <2>7. Follows(x, r, calls)
    BY <2>1, <2>2, <2>4 DEF Follows
  <2>8. jsnav' \in 0 .. JsNavMax
    BY <1>1, <2>1, <2>5
  <2> QED
    BY <2>6, <2>7, <2>8
<1>3. CASE ~Jumps(r)
  <2> DEFINE v == [t EXCEPT !.view = wk.doc]
             x == ApplyOps(v, r)
  <2>1. tabs' = [tabs EXCEPT ![act] = x] /\ jsnav' = jsnav
    BY <1>3 DEF ApplyResult, SetCur
  <2>2. \/ stack' = calls
        \/ r.k = "open" /\ stack' = <<TabCall(r.u)>> \o calls
        \/ r.k = "go" /\ stack' = <<StepCall(r.n, d + 1)>> \o calls
    BY <1>3 DEF ApplyResult
  <2>3. Shown(v, t, wk.doc) /\ v.b = t.b
    BY <1>1, ViewsWorker
  <2> HIDE DEF v
  <2>4. Shown(x, v, v.view) /\ (~Moves(r) => x = v)
    BY <2>3, OpsShown DEF Shown
  <2> HIDE DEF x
  <2>5. \/ stack' = calls
        \/ \E c : /\ r.k # "none" /\ GoodCall(c, Len(tabs)) /\ c.f \in {"tab", "step"}
                  /\ stack' = <<c>> \o calls
    <3>1. Len(tabs) \in Nat
      BY <1>1, LenProperties DEF TabsInv
    <3>2. CASE r.k = "open" /\ stack' = <<TabCall(r.u)>> \o calls
      <4>1. GoodCall(TabCall(r.u), Len(tabs)) /\ TabCall(r.u).f = "tab"
        BY <3>1, <3>2, CallsGood DEF GoodResult
      <4> QED
        BY <3>2, <4>1
    <3>3. CASE r.k = "go" /\ stack' = <<StepCall(r.n, d + 1)>> \o calls
      <4> DEFINE e == d + 1
      <4>1. e \in Nat /\ r.n \in {-1, 1} /\ stack' = <<StepCall(r.n, e)>> \o calls
        BY <3>3 DEF GoodResult
      <4> HIDE DEF e
      <4>2. GoodCall(StepCall(r.n, e), Len(tabs)) /\ StepCall(r.n, e).f = "step"
        BY <4>1 DEF GoodCall, Calls, Call, StepCall
      <4> QED
        BY <3>3, <4>1, <4>2
    <3> QED
      BY <2>2, <3>2, <3>3
  <2> QED
    BY <1>1, <2>1, <2>3, <2>4, <2>5 DEF Edits, Follows, Shown, Moves
<1> QED
  BY <1>2, <1>3

(* Whatever applies a result to the page on screen keeps the invariant. *)
LEMMA ApplyKeeps ==
    ASSUME NavAssumption, Inv, LateNext, wk.up, NEW r, GoodResult(r), NEW d \in Nat,
           NEW calls, GoodCalls(calls, Len(tabs)),
           NEW t, GoodTab(t), t.id = Cur.id, t.b = Cur.b, t.cache = Cur.cache,
           t.view = Cur.view,
           ApplyResult(t, r, d, calls),
           HasLoad(stack) => HasLoad(calls),
           \/ late \/ Settles \/ calls = <<>> \/ (calls = stack /\ r.k = "none"),
           UNCHANGED <<act, gen, loading, jobs>>, tick' = NoTick,
           GoodWorker(wk'), SameWorker(wk', wk)
    PROVE  StepOK
<1>1. TabsInv /\ StackInv /\ WorkerInv /\ TickInv /\ FetchInv /\ LateInv
  BY DEF Inv
<1>2. PICK x : Edits(x) /\ x.cache = Cur.cache /\ Follows(x, r, calls)
  BY ResultApplied
<1>3. jsnav' \in 0 .. JsNavMax
  BY ResultApplied
<1>4. TabsInv' /\ Cur' = x /\ Len(tabs') = Len(tabs) /\ tabs' \in Seq(Tab) /\ tabs'[act'] = x
  BY <1>1, <1>2, EditsTabs
<1>5. GoodTab(x) /\ x.id = Cur.id
  BY <1>2 DEF Edits
<1>6. Len(tabs) \in Nat /\ calls \in Seq(Calls)
  BY <1>1, LenProperties DEF TabsInv, GoodCalls
<1>7. WorkerInv'
  <2>1. x.view = Cur.view \/ x.view = wk.doc
    BY <1>2 DEF Follows
  <2> QED
    BY <1>1, <1>2, <1>4, <1>5, <2>1 DEF WorkerInv, SameWorker, GoodWorker
<1>8. TickInv' /\ InputsStable /\ LoadsOwnEntry
  BY DEF TickInv, InputsStable, LoadsOwnEntry
<1>9. PaintsCurrent
  <2>1. x.view # Cur.view => x.view = wk.doc
    BY <1>2 DEF Follows
  <2> QED
    BY <1>1, <1>4, <2>1 DEF PaintsCurrent, WorkerInv
<1>10. CASE r.k = "nav" /\ x.view = Cur.view /\ x.b.hist # <<>> /\ r.u \in Urls
            /\ CurUrl(x.b) = r.u /\ stack' = <<LoadCall(r.u)>> \o calls
  <2> DEFINE c == LoadCall(r.u)
  <2>1. GoodCall(c, Len(tabs)) /\ c.f = "load" /\ c.u = r.u
    BY <1>6, <1>10 DEF LoadCall, Call, Calls, GoodCall
  <2>2. stack' = <<c>> \o calls /\ c \in Calls
    BY <1>10, <2>1 DEF GoodCall
  <2> HIDE DEF c
  <2>3. StackInv'
    BY <1>4, <2>1, <2>2, NextStack
  <2>4. CurrentCall(c, Cur'.b)
    BY <1>4, <1>10, <2>1 DEF CurrentCall
  <2>5. ~late /\ ~Settles => calls = <<>>
    BY <1>10
  <2>6. LateInv'
    BY <1>1, <1>6, <2>2, <2>4, <2>5, LateKept
  <2>7. HasLoad(stack')
    BY <1>6, <2>1, <2>2, PushCall DEF Pushed
  <2>8. FetchInv'
    BY <1>1, <1>4, <1>5, <2>7, FetchKept
  <2> QED
    BY <1>3, <1>4, <1>7, <1>8, <1>9, <2>3, <2>6, <2>8 DEF StepOK, Inv
<1>11. CASE /\ x.view = wk.doc /\ CurDoc(x.b) = CurDoc(Cur.b)
            /\ r.k = "none" => x.b = Cur.b
            /\ stack' = calls
  <2>1. StackInv'
    BY <1>4, <1>11, NextStack
  <2>2. ~late /\ ~Settles /\ calls # <<>> =>
           Tail(calls) = <<>> /\ CurrentCall(Head(calls), Cur'.b)
    BY <1>1, <1>4, <1>11 DEF LateInv
  <2>3. LateInv'
    BY <1>1, <1>6, <1>11, <2>2, LateKept
  <2>4. FetchInv'
    <3>1. HasLoad(stack') \/ (CurDoc(Cur'.b) = CurDoc(Cur.b) /\ ~HasLoad(stack))
      BY <1>4, <1>11
    <3> QED
      BY <1>1, <1>4, <1>5, <3>1, FetchKept
  <2> QED
    BY <1>3, <1>4, <1>7, <1>8, <1>9, <2>1, <2>3, <2>4 DEF StepOK, Inv
<1>12. ASSUME x.view = wk.doc, CurDoc(x.b) = CurDoc(Cur.b), r.k # "none",
              NEW c, GoodCall(c, Len(tabs)), c.f \in {"tab", "step"}, stack' = <<c>> \o calls
       PROVE  StepOK
  <2>1. c \in Calls
    BY <1>12 DEF GoodCall
  <2>2. StackInv'
    BY <1>4, <1>12, NextStack
  <2>3. CurrentCall(c, Cur'.b)
    BY <1>12 DEF CurrentCall
  <2>4. LateInv'
    BY <1>1, <1>6, <1>12, <2>1, <2>3, LateKept
  <2>5. HasLoad(stack') <=> HasLoad(calls)
    BY <1>6, <1>12, <2>1, PushCall DEF Pushed
  <2>6. FetchInv'
    <3>1. HasLoad(stack') \/ (CurDoc(Cur'.b) = CurDoc(Cur.b) /\ ~HasLoad(stack))
      BY <1>4, <1>12, <2>5
    <3> QED
      BY <1>1, <1>4, <1>5, <3>1, FetchKept
  <2> QED
    BY <1>3, <1>4, <1>7, <1>8, <1>9, <2>2, <2>4, <2>6 DEF StepOK, Inv
<1> QED
  BY <1>2, <1>10, <1>11, <1>12 DEF Follows

LEMMA WorkerEventOK ==
    ASSUME NavAssumption, Inv, LateNext, NEW r \in Results \cup Opens, WorkerEvent(r)
    PROVE  StepOK
<1>1. TabsInv /\ StackInv /\ WorkerInv /\ TickInv
  BY DEF Inv
<1>2. HMax \in Nat /\ stack = <<>> /\ wk.up /\ tick' = NoTick /\ UNCHANGED <<act, gen, loading, jobs>>
      /\ ApplyResult(Cur, Report(wk, r), 0, <<>>)
      /\ wk' = Applied(RunScript(Discarded(wk, tick), r), r)
  BY DEF WorkerEvent, Idle, NavAssumption
<1>3. GoodResult(r) /\ GoodResult(Report(wk, r))
  BY ResultsGood, ReportGood
<1> DEFINE w == Discarded(wk, tick)
           v == RunScript(w, r)
<1>4. Marked(w, wk) /\ w.up /\ GoodWorker(w)
  BY <1>1, <1>2, AppliedGood DEF WorkerInv, Marked, SameWorker
<1> HIDE DEF w
<1>5. GoodWorker(v) /\ SameWorker(v, w)
  BY <1>2, <1>3, <1>4, RunScriptGood
<1> HIDE DEF v
<1>6. Marked(Applied(v, r), v)
  BY <1>5, AppliedGood
<1>7. GoodWorker(wk') /\ SameWorker(wk', wk)
  BY <1>2, <1>4, <1>5, <1>6 DEF Marked, SameWorker, v, w
<1>8. GoodTab(Cur) /\ GoodCalls(<<>>, Len(tabs)) /\ ~HasLoad(<<>>)
  BY <1>1, CurGood, NothingWaits
<1> DEFINE o == Report(wk, r)
           calls == <<>>
<1>9. ApplyResult(Cur, o, 0, calls) /\ GoodResult(o) /\ GoodCalls(calls, Len(tabs))
      /\ (HasLoad(stack) => HasLoad(calls)) /\ calls = <<>>
  BY <1>2, <1>3, <1>8
<1> HIDE DEF o, calls
<1> QED
  BY <1>2, <1>7, <1>8, <1>9, ApplyKeeps

LEMMA TickDoneOK ==
    ASSUME NavAssumption, Inv, LateNext, TickDone
    PROVE  StepOK
<1>1. TabsInv /\ StackInv /\ WorkerInv /\ TickInv
  BY DEF Inv
<1>2. stack = <<>> /\ tick # NoTick /\ tick' = NoTick /\ UNCHANGED <<act, gen, loading, jobs>>
      /\ ApplyResult(Cur, tick, 0, <<>>) /\ wk' = Applied(wk, tick)
  BY DEF TickDone, Idle
<1>3. GoodResult(tick) /\ wk.up
  BY <1>1, <1>2 DEF TickInv
<1>4. GoodWorker(wk') /\ SameWorker(wk', wk)
  BY <1>1, <1>2, AppliedGood DEF WorkerInv, Marked
<1>5. GoodTab(Cur) /\ GoodCalls(<<>>, Len(tabs)) /\ ~HasLoad(<<>>)
  BY <1>1, CurGood, NothingWaits
<1> DEFINE calls == <<>>
<1>6. ApplyResult(Cur, tick, 0, calls) /\ GoodCalls(calls, Len(tabs))
      /\ (HasLoad(stack) => HasLoad(calls)) /\ calls = <<>>
  BY <1>2, <1>5
<1> HIDE DEF calls
<1> QED
  BY <1>2, <1>3, <1>4, <1>5, <1>6, ApplyKeeps

LEMMA QuiesceOK ==
    ASSUME NavAssumption, Inv, LateNext, Quiesce
    PROVE  StepOK
<1>1. TabsInv /\ StackInv /\ WorkerInv /\ TickInv
  BY DEF Inv
<1>2. /\ stack # <<>> /\ Head(stack).f \in Quiesces /\ tick # NoTick /\ tick' = NoTick
      /\ UNCHANGED <<act, gen, loading, jobs>>
      /\ ApplyResult(Cur, tick, 0, stack) /\ wk' = Applied(wk, tick)
  BY DEF Quiesce
<1>3. GoodResult(tick) /\ wk.up
  BY <1>1, <1>2 DEF TickInv
<1>4. GoodWorker(wk') /\ SameWorker(wk', wk)
  BY <1>1, <1>2, AppliedGood DEF WorkerInv, Marked
<1>5. Head(stack).f # "pop"
  BY <1>2 DEF Quiesces
<1>6. GoodTab(Cur) /\ GoodCalls(stack, Len(tabs))
  BY <1>1, <1>2, <1>5, CurGood, WaitingCalls
<1>7. Settles \/ tick.k = "none"
  BY <1>2 DEF Settles, Quiet, Res
<1> QED
  BY <1>2, <1>3, <1>4, <1>6, <1>7, ApplyKeeps

LEMMA PopStepOK ==
    ASSUME NavAssumption, Inv, LateNext, NEW r \in Results, PopStep(r)
    PROVE  StepOK
<1> DEFINE w0 == Discarded(wk, tick)
           i  == DocIndex(Cur.b)
           w  == HistPop(w0, i)
           v  == RunScript(w, r)
           t  == [Cur EXCEPT !.top = CurUrl(Cur.b)]
           o  == Report(w, r)
           d  == Head(stack).d
           calls == Tail(stack)
           e  == Applied(v, r).exact /\ w.doc = CurDoc(Cur.b)
<1>1. TabsInv /\ StackInv /\ WorkerInv /\ TickInv /\ LateInv
  BY DEF Inv
<1>2. /\ HMax \in Nat /\ stack # <<>> /\ Head(stack).f = "pop" /\ tick' = NoTick
      /\ UNCHANGED <<act, gen, loading, jobs>>
      /\ ApplyResult(t, o, d, calls) /\ wk' = [Applied(v, r) EXCEPT !.exact = e]
  BY DEF PopStep, Top, NavAssumption
<1>3. wk.up /\ Head(stack) \in Calls /\ GoodCalls(calls, Len(tabs))
  BY <1>1, <1>2 DEF StackInv, GoodCall
<1>4. d \in Nat
  BY <1>3 DEF Calls
<1>5. HasLoad(stack) => HasLoad(calls)
  BY <1>1, <1>2, WaitingCalls
<1>6. ~late => calls = <<>>
  BY <1>1, <1>2 DEF LateInv
<1>7. e \in BOOLEAN
  OBVIOUS
<1>8. GoodResult(r) /\ GoodResult(o)
  BY ResultsGood, ReportGood
<1> HIDE DEF d, calls, o, e
<1>9. GoodTab(Cur) /\ CurUrl(Cur.b) \in Urls \cup {NoUrl}
  BY <1>1, CurGood, GoodTabFields, CurrentTyped
<1>10. GoodTab(t) /\ t.id = Cur.id /\ t.b = Cur.b /\ t.cache = Cur.cache /\ t.view = Cur.view
  BY <1>9 DEF GoodTab, Tab
<1> HIDE DEF t
<1>11. Marked(w0, wk) /\ w0.up /\ GoodWorker(w0)
  BY <1>1, <1>3, AppliedGood DEF WorkerInv, Marked, SameWorker
<1> HIDE DEF w0, i
<1>12. GoodWorker(w) /\ SameWorker(w, w0) /\ w.up
  BY <1>11, HistPopGood DEF SameWorker
<1> HIDE DEF w
<1>13. GoodWorker(v) /\ SameWorker(v, w)
  BY <1>2, <1>8, <1>12, RunScriptGood
<1> HIDE DEF v
<1> DEFINE a == Applied(v, r)
<1>14. Marked(a, v) /\ GoodWorker(a)
  BY <1>13, AppliedGood DEF Marked
<1> HIDE DEF a
<1>15. Marked([a EXCEPT !.exact = e], a)
  BY <1>7, <1>14, MarkGood
<1>16. GoodWorker(wk') /\ SameWorker(wk', wk)
  BY <1>2, <1>11, <1>12, <1>13, <1>14, <1>15 DEF Marked, SameWorker, a
<1> QED
  BY <1>2, <1>3, <1>4, <1>5, <1>6, <1>8, <1>10, <1>16, ApplyKeeps

-----------------------------------------------------------------------------
(* Steps that change the active tab in place.                              *)

(* A worker w of the page of tab x, and a tick's report k of it. *)
Binds(w, x) ==
    /\ GoodWorker(w)
    /\ w.up => /\ w.tab = x.id
               /\ x.cache # NoDoc => w.doc = x.cache
               /\ x.view # NoDoc => w.doc = x.view

Ticks(w, k) == k # NoTick => w.up /\ GoodResult(k)

(* A step that leaves the calls s, or one more before them. *)
Leaves(s, x) ==
    \/ stack' = s /\ (~late /\ ~Settles /\ s # <<>> =>
                          Tail(s) = <<>> /\ CurrentCall(Head(s), x.b))
    \/ \E c : /\ GoodCall(c, Len(tabs)) /\ (c.f = "pop" => wk'.up) /\ stack' = <<c>> \o s
              /\ ~late /\ ~Settles => s = <<>> /\ CurrentCall(c, x.b)

LEMMA InPlace ==
    ASSUME Inv, LateNext, NEW x, Edits(x), Binds(wk', x), Ticks(wk', tick'),
           NEW s, GoodCalls(s, Len(tabs)), Leaves(s, x),
           FetchInv', jsnav' \in 0 .. JsNavMax
    PROVE  Inv'
<1>1. TabsInv /\ StackInv
  BY DEF Inv
<1>2. TabsInv' /\ Cur' = x /\ Len(tabs') = Len(tabs) /\ tabs' \in Seq(Tab)
  BY <1>1, EditsTabs
<1>3. WorkerInv' /\ TickInv'
  BY <1>2 DEF WorkerInv, GoodWorker, TickInv, GoodResult, Binds, Ticks
<1>4. s \in Seq(Calls)
  BY DEF GoodCalls
<1>5. CASE stack' = s /\ (~late /\ ~Settles /\ s # <<>> =>
                                 Tail(s) = <<>> /\ CurrentCall(Head(s), x.b))
  <2>1. StackInv'
    BY <1>2, <1>5, NextStack
  <2>2. LateInv'
    BY <1>1, <1>2, <1>4, <1>5, LateKept
  <2> QED
    BY <1>2, <1>3, <2>1, <2>2 DEF Inv
<1>6. ASSUME NEW c, GoodCall(c, Len(tabs)), c.f = "pop" => wk'.up, stack' = <<c>> \o s,
             ~late /\ ~Settles => s = <<>> /\ CurrentCall(c, x.b)
      PROVE  Inv'
  <2>1. StackInv'
    BY <1>2, <1>6, NextStack
  <2>2. c \in Calls
    BY <1>6 DEF GoodCall
  <2>3. LateInv'
    BY <1>1, <1>2, <1>4, <1>6, <2>2, LateKept
  <2> QED
    BY <1>2, <1>3, <2>1, <2>3 DEF Inv
<1> QED
  BY <1>5, <1>6 DEF Leaves

(* An event that leaves one call to make. *)
LEMMA EventKeeps ==
    ASSUME Inv, LateNext, stack = <<>>, NEW x, Edits(x),
           x.cache = Cur.cache, x.view = Cur.view, x.top = Cur.top,
           UNCHANGED <<gen, loading, jobs, wk, tick, jsnav>>,
           NEW c, GoodCall(c, Len(tabs)), c.f # "pop", stack' = <<c>>, CurrentCall(c, x.b),
           c.f = "load" \/ CurDoc(x.b) = CurDoc(Cur.b)
    PROVE  StepOK
<1>1. TabsInv /\ StackInv /\ WorkerInv /\ TickInv /\ FetchInv /\ jsnav \in 0 .. JsNavMax
  BY DEF Inv
<1>2. TabsInv' /\ Cur' = x /\ tabs'[act'] = x /\ x.id = Cur.id
  BY <1>1, EditsTabs DEF Edits
<1>3. c \in Calls
  BY DEF GoodCall
<1> DEFINE s == <<>>
<1>4. GoodCalls(s, Len(tabs)) /\ s \in Seq(Calls) /\ s = <<>> /\ ~HasLoad(s) /\ ~HasLoad(stack)
  BY NothingWaits DEF GoodCalls
<1>5. stack' = <<c>> \o s
  BY <1>3, NothingWaits
<1> HIDE DEF s
<1>6. HasLoad(stack') <=> c.f = "load"
  <2>1. Pushed(c, s)
    BY <1>3, <1>4, PushCall
  <2> QED
    BY <1>4, <1>5, <2>1 DEF Pushed
<1>7. FetchInv'
  <2>1. UNCHANGED <<gen, loading, jobs>> /\ Cur'.id = Cur.id
    BY <1>2
  <2>2. HasLoad(stack') \/ (CurDoc(Cur'.b) = CurDoc(Cur.b) /\ ~HasLoad(stack))
    BY <1>2, <1>4, <1>6
  <2> QED
    BY <1>1, <2>1, <2>2, FetchKept
<1>8. Inv'
  <2>1. Binds(wk', x) /\ Ticks(wk', tick')
    BY <1>1, <1>2 DEF WorkerInv, TickInv, Binds, Ticks
  <2>2. jsnav' \in 0 .. JsNavMax
    BY <1>1
  <2>3. Leaves(s, x)
    BY <1>4, <1>5 DEF Leaves
  <2> QED
    BY <1>4, <1>7, <2>1, <2>2, <2>3, InPlace
<1>9. PaintsCurrent /\ LoadsOwnEntry /\ InputsStable
  BY <1>2 DEF PaintsCurrent, LoadsOwnEntry, InputsStable
<1> QED
  BY <1>8, <1>9 DEF StepOK

LEMMA NavigateOK ==
    ASSUME NavAssumption, Inv, LateNext, NEW u \in Urls, Navigate(u)
    PROVE  StepOK
<1> DEFINE x == [Cur EXCEPT !.b = NavigateTo(Cur.b, u)]
           c == LoadCall(u)
<1>1. TabsInv /\ GoodTab(Cur)
  BY CurGood DEF Inv
<1>2. /\ stack = <<>> /\ tabs' = [tabs EXCEPT ![act] = x] /\ stack' = <<c>>
      /\ UNCHANGED <<act, gen, loading, jobs, wk, tick, jsnav>>
  BY DEF Navigate, Idle, SetCur
<1>3. /\ GoodTab(x) /\ x.id = Cur.id /\ x.cache = Cur.cache /\ x.view = Cur.view
      /\ x.top = Cur.top /\ CurUrl(x.b) = u
  BY <1>1, Navigates
<1> HIDE DEF x
<1>4. GoodCall(c, Len(tabs)) /\ c.f = "load" /\ c.u = u
  BY DEF GoodCall, Calls, LoadCall, Call
<1> HIDE DEF c
<1>5. Edits(x) /\ CurrentCall(c, x.b)
  BY <1>2, <1>3, <1>4 DEF Edits, CurrentCall
<1> QED
  BY <1>2, <1>3, <1>4, <1>5, EventKeeps

LEMMA UneditedEvent ==
    ASSUME Inv, LateNext, stack = <<>>,
           UNCHANGED <<tabs, act, gen, loading, jobs, wk, tick, jsnav>>,
           NEW c, GoodCall(c, Len(tabs)), c.f # "pop", stack' = <<c>>, CurrentCall(c, Cur.b)
    PROVE  StepOK
<1>1. Edits(Cur)
  BY NoEdit DEF Inv
<1> QED
  BY <1>1, EventKeeps

LEMMA SimpleEventsOK ==
    ASSUME NavAssumption, Inv, LateNext,
           \/ GoBlank \/ Reload \/ OpenTab
           \/ \E n \in {-1, 1} : Step(n)
           \/ \E i \in 1 .. MaxTabs : SwitchTab(i)
    PROVE  StepOK
<1>1. TabsInv /\ GoodHistory(Cur.b)
  BY CurGood, GoodTabFields DEF Inv
<1>2. CASE GoBlank
  <2> DEFINE c == LoadCall(NoUrl)
  <2>1. GoodCall(c, Len(tabs)) /\ c.f # "pop" /\ CurrentCall(c, Cur.b)
    BY DEF GoodCall, Calls, LoadCall, Call, CurrentCall
  <2>2. stack = <<>> /\ stack' = <<c>> /\ UNCHANGED <<tabs, act, gen, loading, jobs, wk, tick, jsnav>>
    BY <1>2 DEF GoBlank, Idle
  <2> HIDE DEF c
  <2> QED
    BY <2>1, <2>2, UneditedEvent
<1>3. CASE Reload
  <2> DEFINE c == LoadCall(CurUrl(Cur.b))
  <2>1. stack = <<>> /\ stack' = <<c>> /\ UNCHANGED <<tabs, act, gen, loading, jobs, wk, tick, jsnav>>
    BY <1>3 DEF Reload, Idle
  <2>2. CurUrl(Cur.b) \in Urls \cup {NoUrl}
    BY <1>1, CurrentTyped
  <2>3. GoodCall(c, Len(tabs)) /\ c.f # "pop" /\ CurrentCall(c, Cur.b)
    BY <2>2 DEF GoodCall, Calls, LoadCall, Call, CurrentCall
  <2> HIDE DEF c
  <2> QED
    BY <2>1, <2>3, UneditedEvent
<1>4. CASE OpenTab
  <2> DEFINE c == TabCall(NoUrl)
  <2>1. GoodCall(c, Len(tabs)) /\ c.f # "pop" /\ CurrentCall(c, Cur.b)
    BY DEF GoodCall, Calls, TabCall, Call, CurrentCall
  <2>2. stack = <<>> /\ stack' = <<c>> /\ UNCHANGED <<tabs, act, gen, loading, jobs, wk, tick, jsnav>>
    BY <1>4 DEF OpenTab, Idle
  <2> HIDE DEF c
  <2> QED
    BY <2>1, <2>2, UneditedEvent
<1>5. ASSUME NEW n \in {-1, 1}, Step(n) PROVE StepOK
  <2> DEFINE c == StepCall(n, 0)
  <2>1. GoodCall(c, Len(tabs)) /\ c.f # "pop" /\ CurrentCall(c, Cur.b)
    BY DEF GoodCall, Calls, StepCall, Call, CurrentCall
  <2>2. stack = <<>> /\ stack' = <<c>> /\ UNCHANGED <<tabs, act, gen, loading, jobs, wk, tick, jsnav>>
    BY <1>5 DEF Step, Idle
  <2> HIDE DEF c
  <2> QED
    BY <2>1, <2>2, UneditedEvent
<1>6. ASSUME NEW i \in 1 .. MaxTabs, SwitchTab(i) PROVE StepOK
  <2> DEFINE c == SwitchCall(i)
  <2>1. /\ stack = <<>> /\ stack' = <<c>> /\ i \in 1 .. Len(tabs)
        /\ UNCHANGED <<tabs, act, gen, loading, jobs, wk, tick, jsnav>>
    BY <1>6 DEF SwitchTab, Idle
  <2>2. GoodCall(c, Len(tabs)) /\ c.f # "pop" /\ CurrentCall(c, Cur.b)
    BY <2>1 DEF GoodCall, Calls, SwitchCall, Call, CurrentCall
  <2> HIDE DEF c
  <2> QED
    BY <2>1, <2>2, UneditedEvent
<1> QED
  BY <1>2, <1>3, <1>4, <1>5, <1>6

(* An event that leaves no call. *)
LEMMA IdleKeeps ==
    ASSUME Inv, LateNext, stack = <<>>, stack' = <<>>, NEW x, Edits(x),
           CurDoc(x.b) = CurDoc(Cur.b), UNCHANGED <<gen, loading, jobs>>,
           Binds(wk', x), Ticks(wk', tick'), jsnav' \in 0 .. JsNavMax
    PROVE  Inv'
<1>1. TabsInv /\ FetchInv
  BY DEF Inv
<1>2. Cur' = x /\ x.id = Cur.id
  BY <1>1, EditsTabs DEF Edits
<1> DEFINE s == <<>>
<1>3. GoodCalls(s, Len(tabs)) /\ ~HasLoad(stack) /\ stack' = s /\ s = <<>>
  BY NothingWaits
<1> HIDE DEF s
<1>4. FetchInv'
  BY <1>1, <1>2, <1>3, FetchKept
<1>5. Leaves(s, x)
  BY <1>3 DEF Leaves
<1> QED
  BY <1>3, <1>4, <1>5, InPlace

LEMMA NoWorkerGood == GoodWorker(NoWorker) /\ ~NoWorker.up
<1>1. <<>> \in Seq(Urls \cup {NoUrl})
  OBVIOUS
<1> QED
  BY <1>1 DEF NoWorker, GoodWorker, Worker, NoDoc

LEMMA TickStartOK ==
    ASSUME NavAssumption, Inv, LateNext, NEW r \in Results, TickStart(r)
    PROVE  StepOK
<1>1. TabsInv /\ WorkerInv /\ jsnav \in 0 .. JsNavMax
  BY DEF Inv
<1>2. /\ HMax \in Nat /\ stack = <<>> /\ wk.up /\ wk' = RunScript(wk, r) /\ tick' = Report(wk, r)
      /\ UNCHANGED <<tabs, act, gen, loading, jobs, jsnav, stack>>
      /\ tick = NoTick
  BY DEF TickStart, Idle, NavAssumption
<1>3. GoodResult(r) /\ GoodResult(tick')
  BY <1>2, ResultsGood, ReportGood
<1>4. GoodWorker(wk') /\ SameWorker(wk', wk)
  BY <1>1, <1>2, <1>3, RunScriptGood DEF WorkerInv
<1>5. Edits(Cur)
  BY <1>1, <1>2, NoEdit
<1>6. Binds(wk', Cur) /\ Ticks(wk', tick')
  BY <1>1, <1>2, <1>3, <1>4 DEF Binds, Ticks, WorkerInv, SameWorker
<1>7. Inv'
  BY <1>1, <1>2, <1>5, <1>6, IdleKeeps
<1>8. PaintsCurrent /\ LoadsOwnEntry /\ InputsStable
  BY <1>2 DEF PaintsCurrent, LoadsOwnEntry, InputsStable, Cur
<1> QED
  BY <1>7, <1>8 DEF StepOK

LEMMA FromCacheGood ==
    ASSUME NavAssumption, NEW t, GoodTab(t), NEW r, GoodResult(r)
    PROVE  /\ GoodWorker(FromCache(t, r)) /\ FromCache(t, r).up
           /\ FromCache(t, r).doc = t.cache /\ FromCache(t, r).tab = t.id
<1> DEFINE w == Loaded(t, t.top, t.cache)
           v == RunScript(w, r)
<1>1. HMax \in Nat \ {0} /\ HMax \in Nat
  BY DEF NavAssumption
<1>2. GoodHistory(t.b) /\ t.id \in Nat /\ t.top \in Urls \cup {NoUrl} /\ t.cache \in Int
  BY GoodTabFields
<1>3. GoodWorker(w) /\ w.up /\ w.doc = t.cache /\ w.tab = t.id
  BY <1>1, <1>2, LoadedGood
<1> HIDE DEF w
<1>4. GoodWorker(v) /\ SameWorker(v, w)
  BY <1>1, <1>3, RunScriptGood
<1> HIDE DEF v
<1>5. Marked(Discarded(v, r), v)
  BY <1>4, AppliedGood
<1> QED
  BY <1>3, <1>4, <1>5 DEF Marked, SameWorker, FromCache, v, w

LEMMA CacheEventsOK ==
    ASSUME NavAssumption, Inv, LateNext,
           \/ LoseWorker
           \/ \E r \in Results : Rerender(r) \/ Rebind(r)
    PROVE  StepOK
<1>1. TabsInv /\ WorkerInv /\ TickInv /\ jsnav \in 0 .. JsNavMax /\ GoodTab(Cur) /\ JsNavMax \in Nat
  BY CurGood DEF Inv, NavAssumption
<1>2. CASE LoseWorker
  <2>1. /\ stack = <<>> /\ wk' = NoWorker /\ tick' = NoTick
        /\ UNCHANGED <<tabs, act, gen, loading, jobs, jsnav, stack>>
    BY <1>2 DEF LoseWorker, Idle
  <2>2. Edits(Cur)
    BY <1>1, <2>1, NoEdit
  <2>3. Binds(wk', Cur) /\ Ticks(wk', tick')
    BY <2>1, NoWorkerGood DEF Binds, Ticks
  <2>4. Inv'
    BY <1>1, <2>1, <2>2, <2>3, IdleKeeps
  <2>5. PaintsCurrent /\ LoadsOwnEntry /\ InputsStable
    BY <2>1 DEF PaintsCurrent, LoadsOwnEntry, InputsStable, Cur
  <2> QED
    BY <2>4, <2>5 DEF StepOK
<1>3. ASSUME NEW r \in Results, Rerender(r) PROVE StepOK
  <2> DEFINE x == [Cur EXCEPT !.view = Cur.cache]
  <2>1. /\ stack = <<>> /\ wk' = FromCache(Cur, r) /\ tick' = NoTick /\ jsnav' = 0
        /\ tabs' = [tabs EXCEPT ![act] = x]
        /\ UNCHANGED <<act, gen, loading, jobs, stack>>
    BY <1>3 DEF Rerender, Idle, SetCur
  <2>2. GoodWorker(wk') /\ wk'.up /\ wk'.doc = Cur.cache /\ wk'.tab = Cur.id
    BY <1>1, <2>1, FromCacheGood, ResultsGood
  <2>3. GoodTab(x) /\ x.id = Cur.id /\ x.b = Cur.b /\ x.cache = Cur.cache /\ x.view = Cur.cache
    BY <1>1 DEF GoodTab, Tab
  <2> HIDE DEF x
  <2>4. Edits(x) /\ Binds(wk', x) /\ Ticks(wk', tick') /\ jsnav' \in 0 .. JsNavMax
    BY <1>1, <2>1, <2>2, <2>3 DEF Edits, Binds, Ticks
  <2>5. Inv'
    BY <2>1, <2>3, <2>4, IdleKeeps
  <2>6. tabs'[act'] = x
    BY <1>1, <2>4, EditsTabs
  <2>7. PaintsCurrent
    BY <2>3, <2>6 DEF PaintsCurrent
  <2>8. LoadsOwnEntry /\ InputsStable
    BY <2>1 DEF LoadsOwnEntry, InputsStable
  <2> QED
    BY <2>5, <2>7, <2>8 DEF StepOK
<1>4. ASSUME NEW r \in Results, Rebind(r) PROVE StepOK
  <2>1. /\ stack = <<>> /\ wk' = FromCache(Cur, r) /\ ~wk.up /\ Cur.cache # NoDoc
        /\ UNCHANGED <<tabs, act, gen, loading, jobs, tick, jsnav, stack>>
    BY <1>4 DEF Rebind, Idle
  <2>2. GoodWorker(wk') /\ wk'.up /\ wk'.doc = Cur.cache /\ wk'.tab = Cur.id
    BY <1>1, <2>1, FromCacheGood, ResultsGood
  <2>3. Edits(Cur)
    BY <1>1, <2>1, NoEdit
  <2>4. Binds(wk', Cur) /\ Ticks(wk', tick')
    BY <1>1, <2>1, <2>2 DEF Binds, Ticks, TickInv, GoodTab
  <2>5. Inv'
    BY <1>1, <2>1, <2>3, <2>4, IdleKeeps
  <2>6. PaintsCurrent /\ LoadsOwnEntry /\ InputsStable
    BY <2>1 DEF PaintsCurrent, LoadsOwnEntry, InputsStable, Cur
  <2> QED
    BY <2>5, <2>6 DEF StepOK
<1> QED
  BY <1>2, <1>3, <1>4

(* clear_doc, and set_cache(NULL). *)
LEMMA ClearGood ==
    ASSUME NEW t, GoodTab(t)
    PROVE  /\ GoodTab(ClearDoc(t)) /\ ClearDoc(t).id = t.id /\ ClearDoc(t).b = t.b
           /\ ClearDoc(t).cache = t.cache /\ ClearDoc(t).top = t.top /\ ClearDoc(t).view = NoDoc
           /\ GoodTab(Uncache(t)) /\ Uncache(t).id = t.id /\ Uncache(t).b = t.b
           /\ Uncache(t).cache = NoDoc /\ Uncache(t).view = t.view
<1>1. NoDoc \in Int
  BY DEF NoDoc
<1> HIDE DEF NoDoc
<1> QED
  BY <1>1 DEF GoodTab, Tab, ClearDoc, Uncache

LEMMA SubmitPostOK ==
    ASSUME NavAssumption, Inv, LateNext, NEW u \in Urls, SubmitPost(u)
    PROVE  StepOK
<1>1. TabsInv /\ WorkerInv /\ TickInv /\ FetchInv /\ jsnav \in 0 .. JsNavMax /\ GoodTab(Cur)
  BY CurGood DEF Inv
<1>2. /\ stack = <<>> /\ Bump /\ UNCHANGED <<act, wk, tick, jsnav>>
      /\ \/ Launch(u, TRUE) /\ stack' = stack /\ tabs' = tabs
         \/ /\ loading' = FALSE /\ jobs' = jobs /\ stack' = <<LeaveCall>>
            /\ tabs' = [tabs EXCEPT ![act] = ClearDoc(Cur)]
  BY DEF SubmitPost, Idle, SetCur
<1>3. PICK x : /\ Edits(x) /\ x.id = Cur.id /\ x.b = Cur.b /\ x.cache = Cur.cache /\ x.top = Cur.top
               /\ x.view \in {Cur.view, NoDoc}
  <2>1. CASE tabs' = tabs
    BY <1>1, <1>2, <2>1, NoEdit
  <2>2. CASE tabs' = [tabs EXCEPT ![act] = ClearDoc(Cur)]
    <3>1. Edits(ClearDoc(Cur))
      BY <1>1, <1>2, <2>2, ClearGood DEF Edits
    <3> QED
      BY <1>1, <3>1, ClearGood
  <2> QED
    BY <1>2, <2>1, <2>2
<1>13. Cur' = x /\ tabs'[act'] = x
  BY <1>1, <1>3, EditsTabs
<1>4. FetchInv'
  <2>1. Cur'.id = Cur.id /\ CurDoc(Cur'.b) = CurDoc(Cur.b)
    BY <1>3, <1>13
  <2>2. \/ \E v \in Urls, p \in BOOLEAN : Launch(v, p)
        \/ loading' = FALSE /\ jobs' = jobs
    BY <1>2
  <2> QED
    BY <1>1, <1>2, <2>1, <2>2, FetchBumped
<1> DEFINE s == <<>>
           c == LeaveCall
<1>5. GoodCalls(s, Len(tabs)) /\ s = <<>>
  BY NothingWaits
<1>6. GoodCall(c, Len(tabs)) /\ c.f = "leave" /\ c \in Calls
  BY DEF GoodCall, Calls, LeaveCall, Call
<1>7. <<c>> = <<c>> \o s
  BY <1>6, NothingWaits
<1>8. stack' = s \/ stack' = <<c>> \o s
  BY <1>2, <1>7
<1> HIDE DEF s, c
<1>9. Leaves(s, x)
  BY <1>5, <1>6, <1>8 DEF Leaves, CurrentCall
<1>10. Binds(wk', x) /\ Ticks(wk', tick') /\ jsnav' \in 0 .. JsNavMax
  BY <1>1, <1>2, <1>3 DEF WorkerInv, TickInv, Binds, Ticks
<1>11. Inv'
  BY <1>3, <1>4, <1>5, <1>9, <1>10, InPlace
<1>12. PaintsCurrent /\ LoadsOwnEntry /\ InputsStable
  BY <1>2, <1>3, <1>13 DEF PaintsCurrent, LoadsOwnEntry, InputsStable, Top
<1> QED
  BY <1>11, <1>12 DEF StepOK

(* A result leaves the pipe: it is dropped, or it clears the spinner. *)
LEMMA FetchDelivered ==
    ASSUME FetchInv, LateNext, NEW j \in jobs, jobs' = jobs \ {j}, gen' = gen, Cur'.id = Cur.id,
           loading' = FALSE \/ (loading' = loading /\ j.gen # gen),
           HasLoad(stack') \/ (CurDoc(Cur'.b) = CurDoc(Cur.b) /\ ~HasLoad(stack))
    PROVE  FetchInv'
<1>1. CurDoc(Cur.b)' = CurDoc(Cur'.b)
  BY DEF CurDoc, Cur
<1>2. HasLoad(stack)' = HasLoad(stack')
  BY DEF HasLoad
<1>3. LoadingHasJob'
  BY DEF FetchInv, LoadingHasJob
<1>4. StreamInv'
  BY StreamKept DEF FetchInv
<1> QED
  BY <1>1, <1>2, <1>3, <1>4 DEF FetchInv

LEMMA DeliverOK ==
    ASSUME NavAssumption, Inv, LateNext, NEW j \in jobs, Deliver(j)
    PROVE  StepOK
<1>1. TabsInv /\ WorkerInv /\ TickInv /\ FetchInv /\ jsnav \in 0 .. JsNavMax /\ GoodTab(Cur)
  BY CurGood DEF Inv
<1>2. /\ stack = <<>> /\ jobs' = jobs \ {j} /\ UNCHANGED <<act, gen, wk, tick, jsnav>>
      /\ \/ DropResult(j) \/ DeliverPage(j) \/ (\E u \in Urls : DeliverRedirect(j, u))
         \/ DeliverFailure(j) \/ DeliverDownload(j)
  BY DEF Deliver, Idle
<1>3. j.url \in Urls /\ j.doc \in Nat
  BY <1>1 DEF FetchInv, Job
<1> DEFINE s == <<>>
<1>4. GoodCalls(s, Len(tabs)) /\ s = <<>> /\ s \in Seq(Calls) /\ ~HasLoad(stack) /\ ~HasLoad(s)
  BY <1>2, NothingWaits DEF GoodCalls
<1>5. ~Stale(j) => j.tab = Cur.id /\ j.doc = CurDoc(Cur.b)
  BY <1>1, <1>4 DEF Stale, FetchInv
<1>6. \A c \in Calls : <<c>> = <<c>> \o s
  BY NothingWaits
<1> HIDE DEF s
<1>7. ASSUME NEW x, Edits(x), x.cache = Cur.cache, x.view \in {Cur.view, NoDoc}, x.top = Cur.top,
             loading' = FALSE \/ (loading' = loading /\ j.gen # gen),
             \/ stack' = s /\ CurDoc(x.b) = CurDoc(Cur.b)
             \/ \E c : /\ GoodCall(c, Len(tabs)) /\ c.f # "pop" /\ stack' = <<c>>
                       /\ CurrentCall(c, x.b)
                       /\ c.f = "load" \/ CurDoc(x.b) = CurDoc(Cur.b)
      PROVE  StepOK
  <2>1. Cur' = x /\ x.id = Cur.id /\ tabs'[act'] = x
    BY <1>1, <1>7, EditsTabs DEF Edits
  <2>2. Binds(wk', x) /\ Ticks(wk', tick') /\ jsnav' \in 0 .. JsNavMax
    BY <1>1, <1>2, <1>7, <2>1 DEF WorkerInv, TickInv, Binds, Ticks
  <2>3. Leaves(s, x)
    BY <1>4, <1>6, <1>7 DEF Leaves, GoodCall
  <2>4. HasLoad(stack') \/ CurDoc(x.b) = CurDoc(Cur.b)
    <3>1. ASSUME NEW c, GoodCall(c, Len(tabs)), stack' = <<c>>, c.f = "load" PROVE HasLoad(stack')
      <4>1. c \in Calls /\ stack' = <<c>> \o s
        BY <1>6, <3>1 DEF GoodCall
      <4> QED
        BY <1>4, <3>1, <4>1, PushCall DEF Pushed
    <3> QED
      BY <1>7, <3>1
  <2>5. FetchInv'
    BY <1>1, <1>2, <1>4, <1>7, <2>1, <2>4, FetchDelivered
  <2>6. Inv'
    BY <1>4, <1>7, <2>2, <2>3, <2>5, InPlace
  <2>7. PaintsCurrent /\ LoadsOwnEntry /\ InputsStable
    BY <1>2, <1>7, <2>1 DEF PaintsCurrent, LoadsOwnEntry, InputsStable
  <2> QED
    BY <2>6, <2>7 DEF StepOK
<1>8. ASSUME tabs' = tabs, loading' = FALSE \/ (loading' = loading /\ j.gen # gen),
             \/ stack' = s
             \/ \E c : /\ GoodCall(c, Len(tabs)) /\ c.f # "pop" /\ stack' = <<c>>
                       /\ CurrentCall(c, Cur.b)
      PROVE  StepOK
  <2>1. Edits(Cur)
    BY <1>1, <1>2, <1>8, NoEdit
  <2> QED
    BY <1>7, <1>8, <2>1
<1>9. CASE DropResult(j)
  BY <1>2, <1>4, <1>8, <1>9 DEF DropResult, Stale
<1>10. CASE DeliverPage(j)
  <2> DEFINE c == RenderCall(j.url, j.doc)
  <2>1. tabs' = tabs /\ loading' = FALSE /\ stack' = <<c>> /\ ~Stale(j)
    BY <1>10 DEF DeliverPage
  <2>2. GoodCall(c, Len(tabs)) /\ c.f = "render" /\ c.n = j.doc
    BY <1>3 DEF GoodCall, Calls, RenderCall, Call
  <2> HIDE DEF c
  <2>3. CurrentCall(c, Cur.b)
    BY <1>5, <2>1, <2>2 DEF CurrentCall
  <2> QED
    BY <1>8, <2>1, <2>2, <2>3
<1>11. ASSUME NEW u \in Urls, DeliverRedirect(j, u) PROVE StepOK
  <2> DEFINE c == LoadCall(u)
             x == [Cur EXCEPT !.b = NavigateTo(Cur.b, u)]
  <2>1. tabs' = [tabs EXCEPT ![act] = x] /\ loading' = FALSE /\ stack' = <<c>>
    BY <1>11 DEF DeliverRedirect, SetCur
  <2>2. GoodCall(c, Len(tabs)) /\ c.f = "load" /\ c.u = u
    BY DEF GoodCall, Calls, LoadCall, Call
  <2>3. /\ GoodTab(x) /\ x.id = Cur.id /\ x.cache = Cur.cache /\ x.view = Cur.view
        /\ x.top = Cur.top /\ CurUrl(x.b) = u
    BY <1>1, Navigates
  <2> HIDE DEF c, x
  <2>4. Edits(x) /\ CurrentCall(c, x.b)
    BY <1>2, <2>1, <2>2, <2>3 DEF Edits, CurrentCall
  <2> QED
    BY <1>7, <2>1, <2>2, <2>3, <2>4
<1>12. CASE DeliverFailure(j)
  <2> DEFINE c == LeaveCall
             x == ClearDoc(Cur)
  <2>1. tabs' = [tabs EXCEPT ![act] = x] /\ loading' = FALSE /\ stack' = <<c>>
    BY <1>12 DEF DeliverFailure, SetCur
  <2>2. GoodCall(c, Len(tabs)) /\ c.f = "leave"
    BY DEF GoodCall, Calls, LeaveCall, Call
  <2>3. /\ GoodTab(x) /\ x.id = Cur.id /\ x.b = Cur.b /\ x.cache = Cur.cache /\ x.top = Cur.top
        /\ x.view = NoDoc
    BY <1>1, ClearGood
  <2> HIDE DEF c, x
  <2>4. CurrentCall(c, x.b) /\ Edits(x)
    BY <1>2, <2>1, <2>2, <2>3 DEF CurrentCall, Edits
  <2> QED
    BY <1>7, <2>1, <2>2, <2>3, <2>4
<1>13. CASE DeliverDownload(j)
  BY <1>2, <1>4, <1>8, <1>13 DEF DeliverDownload
<1> QED
  BY <1>2, <1>9, <1>10, <1>11, <1>12, <1>13

-----------------------------------------------------------------------------
(* The calls.                                                              *)

LEMMA CallContext ==
    ASSUME Inv, stack # <<>>
    PROVE  /\ GoodCalls(Tail(stack), Len(tabs)) /\ Tail(stack) \in Seq(Calls)
           /\ GoodCall(Head(stack), Len(tabs))
           /\ ~late => Tail(stack) = <<>> /\ CurrentCall(Head(stack), Cur.b)
           /\ <<>> \o Tail(stack) = Tail(stack)
           /\ HasLoad(stack) <=> Head(stack).f = "load" \/ HasLoad(Tail(stack))
<1>1. StackInv /\ LateInv
  BY DEF Inv
<1>2. GoodCalls(Tail(stack), Len(tabs)) /\ GoodCall(Head(stack), Len(tabs))
  BY <1>1 DEF StackInv
<1>3. Tail(stack) \in Seq(Calls)
  BY <1>2 DEF GoodCalls
<1>4. <<>> \o Tail(stack) = Tail(stack)
  BY <1>3, ConcatEmptySeq
<1> QED
  BY <1>1, <1>2, <1>3, <1>4, WaitingCalls DEF LateInv

(* A call that leaves no other call. *)
LEMMA LeavesNone ==
    ASSUME Inv, stack # <<>>, Done(<<>>), NEW x
    PROVE  Leaves(Tail(stack), x) /\ stack' = Tail(stack)
<1>1. stack' = Tail(stack)
  BY CallContext DEF Done
<1> QED
  BY <1>1, CallContext DEF Leaves

(* A call that makes another one. *)
LEMMA LeavesOne ==
    ASSUME Inv, stack # <<>>, NEW c, Done(<<c>>), GoodCall(c, Len(tabs)),
           c.f = "pop" => wk'.up, NEW x, ~late => CurrentCall(c, x.b)
    PROVE  /\ Leaves(Tail(stack), x)
           /\ HasLoad(stack') <=> c.f = "load" \/ HasLoad(Tail(stack))
<1>1. stack' = <<c>> \o Tail(stack) /\ c \in Calls
  BY DEF Done, GoodCall
<1>2. HasLoad(stack') <=> c.f = "load" \/ HasLoad(Tail(stack))
  BY <1>1, CallContext, PushCall DEF Pushed
<1> QED
  BY <1>1, <1>2, CallContext DEF Leaves

LEMMA BlankGood ==
    ASSUME NEW t, GoodTab(t)
    PROVE  /\ GoodTab(Blank(t)) /\ Blank(t).id = t.id /\ Blank(t).b = t.b
           /\ Blank(t).cache = NoDoc /\ Blank(t).view = NoDoc
<1>1. NoDoc \in Int
  BY DEF NoDoc
<1> HIDE DEF NoDoc
<1> QED
  BY <1>1 DEF GoodTab, Tab, Blank

LEMMA LoadStepOK ==
    ASSUME NavAssumption, Inv, LateNext, LoadStep
    PROVE  StepOK
<1> DEFINE u == Head(stack).u
           s == Tail(stack)
<1>1. TabsInv /\ WorkerInv /\ TickInv /\ FetchInv /\ jsnav \in 0 .. JsNavMax /\ GoodTab(Cur)
  BY CurGood DEF Inv
<1>2. /\ stack # <<>> /\ Head(stack).f = "load" /\ tick = NoTick /\ Bump
      /\ UNCHANGED <<act, wk, tick, jsnav>>
      /\ \/ u \in Urls \ {Start} /\ Launch(u, FALSE) /\ Done(<<>>) /\ tabs' = tabs
         \/ /\ u = Start /\ loading' = FALSE /\ jobs' = jobs /\ tabs' = tabs
            /\ Done(<<RenderCall(u, CurDoc(Cur.b))>>)
         \/ /\ loading' = FALSE /\ jobs' = jobs /\ SetCur(Blank(Cur)) /\ Done(<<>>)
  BY DEF LoadStep, Runs, Top, Quiesces
<1>3. GoodCalls(s, Len(tabs)) /\ (~late => CurrentCall(Head(stack), Cur.b))
  BY <1>2, CallContext
<1> HIDE DEF s
<1>4. LoadsOwnEntry
  BY <1>2, <1>3 DEF LoadsOwnEntry, CurrentCall
<1>5. InputsStable
  BY <1>2 DEF InputsStable
<1>6. CASE u \in Urls \ {Start} /\ Launch(u, FALSE) /\ Done(<<>>) /\ tabs' = tabs
  <2>1. Edits(Cur) /\ Cur' = Cur
    BY <1>1, <1>2, <1>6, NoEdit, SameTabs
  <2>2. FetchInv'
    BY <1>1, <1>2, <1>6, <2>1, FetchBumped
  <2>3. Leaves(s, Cur)
    BY <1>2, <1>6, LeavesNone DEF s
  <2>4. Binds(wk', Cur) /\ Ticks(wk', tick') /\ jsnav' \in 0 .. JsNavMax
    BY <1>1, <1>2 DEF WorkerInv, TickInv, Binds, Ticks
  <2>5. Inv'
    BY <1>3, <2>1, <2>2, <2>3, <2>4, InPlace
  <2>6. PaintsCurrent
    BY <1>2, <1>6 DEF PaintsCurrent, Cur
  <2> QED
    BY <1>4, <1>5, <2>5, <2>6 DEF StepOK
<1>7. CASE /\ u = Start /\ loading' = FALSE /\ jobs' = jobs /\ tabs' = tabs
           /\ Done(<<RenderCall(u, CurDoc(Cur.b))>>)
  <2>1. Edits(Cur) /\ Cur' = Cur
    BY <1>1, <1>2, <1>7, NoEdit, SameTabs
  <2>2. FetchInv'
    BY <1>1, <1>2, <1>7, <2>1, FetchBumped
  <2> DEFINE c == RenderCall(u, CurDoc(Cur.b))
  <2>3. u \in Urls /\ CurDoc(Cur.b) \in Nat
    BY <1>1, <1>7, CurGood, GoodTabFields, CurrentTyped DEF NavAssumption
  <2>4. GoodCall(c, Len(tabs)) /\ c.f = "render" /\ c.n = CurDoc(Cur.b) /\ Done(<<c>>)
    BY <1>7, <2>3 DEF GoodCall, Calls, RenderCall, Call
  <2> HIDE DEF c
  <2>5. CurrentCall(c, Cur.b)
    BY <2>4 DEF CurrentCall
  <2>6. Leaves(s, Cur)
    BY <1>2, <2>4, <2>5, LeavesOne DEF s
  <2>7. Binds(wk', Cur) /\ Ticks(wk', tick') /\ jsnav' \in 0 .. JsNavMax
    BY <1>1, <1>2 DEF WorkerInv, TickInv, Binds, Ticks
  <2>8. Inv'
    BY <1>3, <2>1, <2>2, <2>6, <2>7, InPlace
  <2>9. PaintsCurrent
    BY <1>2, <1>7 DEF PaintsCurrent, Cur
  <2> QED
    BY <1>4, <1>5, <2>8, <2>9 DEF StepOK
<1>8. CASE loading' = FALSE /\ jobs' = jobs /\ SetCur(Blank(Cur)) /\ Done(<<>>)
  <2> DEFINE x == Blank(Cur)
  <2>1. GoodTab(x) /\ x.id = Cur.id /\ x.b = Cur.b /\ x.cache = NoDoc /\ x.view = NoDoc
    BY <1>1, BlankGood
  <2>2. tabs' = [tabs EXCEPT ![act] = x]
    BY <1>8 DEF SetCur
  <2> HIDE DEF x
  <2>3. Edits(x)
    BY <1>2, <2>1, <2>2 DEF Edits
  <2>4. Cur' = x /\ tabs'[act'] = x
    BY <1>1, <2>3, EditsTabs
  <2>5. FetchInv'
    BY <1>1, <1>2, <1>8, <2>1, <2>4, FetchBumped
  <2>6. Leaves(s, x)
    BY <1>2, <1>8, LeavesNone DEF s
  <2>7. Binds(wk', x) /\ Ticks(wk', tick') /\ jsnav' \in 0 .. JsNavMax
    BY <1>1, <1>2, <2>1 DEF WorkerInv, TickInv, Binds, Ticks
  <2>8. Inv'
    BY <1>3, <2>3, <2>5, <2>6, <2>7, InPlace
  <2>9. PaintsCurrent
    BY <2>1, <2>4 DEF PaintsCurrent
  <2> QED
    BY <1>4, <1>5, <2>8, <2>9 DEF StepOK
<1> QED
  BY <1>2, <1>6, <1>7, <1>8

LEMMA LeaveStepOK ==
    ASSUME NavAssumption, Inv, LateNext, LeaveStep
    PROVE  StepOK
<1> DEFINE x == Uncache(Cur)
           s == Tail(stack)
<1>1. TabsInv /\ WorkerInv /\ TickInv /\ FetchInv /\ jsnav \in 0 .. JsNavMax /\ GoodTab(Cur)
  BY CurGood DEF Inv
<1>2. /\ stack # <<>> /\ Head(stack).f = "leave" /\ tick = NoTick
      /\ UNCHANGED <<act, gen, loading, jobs, wk, tick, jsnav>>
      /\ tabs' = [tabs EXCEPT ![act] = x] /\ Done(<<>>)
  BY DEF LeaveStep, Runs, Top, Quiesces, SetCur
<1>3. GoodTab(x) /\ x.id = Cur.id /\ x.b = Cur.b /\ x.cache = NoDoc /\ x.view = Cur.view
  BY <1>1, ClearGood
<1>4. GoodCalls(s, Len(tabs)) /\ Leaves(s, x) /\ stack' = s /\ (HasLoad(stack) <=> HasLoad(s))
  BY <1>2, CallContext, LeavesNone
<1> HIDE DEF x, s
<1>5. Edits(x)
  BY <1>2, <1>3 DEF Edits
<1>6. Cur' = x /\ tabs'[act'] = x
  BY <1>1, <1>5, EditsTabs
<1>7. FetchInv'
  BY <1>1, <1>2, <1>3, <1>4, <1>6, FetchKept
<1>8. Binds(wk', x) /\ Ticks(wk', tick') /\ jsnav' \in 0 .. JsNavMax
  BY <1>1, <1>2, <1>3 DEF WorkerInv, TickInv, Binds, Ticks
<1>9. Inv'
  BY <1>4, <1>5, <1>7, <1>8, InPlace
<1>10. PaintsCurrent /\ LoadsOwnEntry /\ InputsStable
  BY <1>2, <1>3, <1>6 DEF PaintsCurrent, LoadsOwnEntry, InputsStable
<1> QED
  BY <1>9, <1>10 DEF StepOK

(* The document of a render is in cache and v on screen. *)
Holds(x, t, u, n, v) ==
    GoodTab(x) /\ x.id = t.id /\ x.b = t.b /\ x.cache = n /\ x.view = v /\ x.top = u

LEMMA Cached ==
    ASSUME NEW t, GoodTab(t), NEW u \in Urls \cup {NoUrl}, NEW n \in Int, NEW v,
           v \in {n, NoDoc}
    PROVE  Holds([t EXCEPT !.top = u, !.cache = n, !.view = v], t, u, n, v)
<1> DEFINE x == [t EXCEPT !.top = u, !.cache = n, !.view = v]
<1>1. v \in Int /\ t \in Tab
  BY DEF NoDoc, GoodTab
<1>2. x \in Tab /\ x.id = t.id /\ x.b = t.b /\ x.cache = n /\ x.view = v /\ x.top = u /\ x.ld = t.ld
  BY <1>1 DEF Tab
<1> HIDE DEF x
<1>3. GoodTab(x)
  BY <1>2 DEF GoodTab
<1> QED
  BY <1>2, <1>3 DEF x, Holds

LEMMA RenderFailsOK ==
    ASSUME NavAssumption, Inv, LateNext, RenderFails
    PROVE  StepOK
<1> DEFINE u == Head(stack).u
           n == Head(stack).n
           x == [Cur EXCEPT !.top = u, !.cache = n, !.view = NoDoc]
           s == Tail(stack)
<1>1. TabsInv /\ FetchInv /\ jsnav \in 0 .. JsNavMax /\ GoodTab(Cur)
  BY CurGood DEF Inv
<1>2. /\ stack # <<>> /\ Head(stack).f = "render" /\ tick = NoTick /\ wk' = NoWorker
      /\ UNCHANGED <<act, gen, loading, jobs, tick, jsnav>>
      /\ tabs' = [tabs EXCEPT ![act] = x] /\ Done(<<>>)
  BY DEF RenderFails, Runs, Top, Quiesces, SetCur
<1>3. u \in Urls /\ n \in Int
  BY <1>2, CallContext DEF GoodCall
<1>4. GoodCalls(s, Len(tabs)) /\ Leaves(s, x) /\ stack' = s /\ (HasLoad(stack) <=> HasLoad(s))
  BY <1>2, CallContext, LeavesNone
<1> HIDE DEF u, n, s
<1>5. GoodTab(x) /\ x.id = Cur.id /\ x.b = Cur.b /\ x.cache = n /\ x.view = NoDoc
  <2>1. u \in Urls \cup {NoUrl} /\ NoDoc \in {n, NoDoc}
    BY <1>1, <1>3
  <2>2. Holds(x, Cur, u, n, NoDoc)
    BY <1>1, <1>3, <2>1, Cached
  <2> QED
    BY <2>2 DEF Holds
<1> HIDE DEF x
<1>6. Edits(x)
  BY <1>2, <1>5 DEF Edits
<1>7. Cur' = x /\ tabs'[act'] = x
  BY <1>1, <1>6, EditsTabs
<1>8. FetchInv'
  BY <1>1, <1>2, <1>4, <1>5, <1>7, FetchKept
<1>9. Binds(wk', x) /\ Ticks(wk', tick') /\ jsnav' \in 0 .. JsNavMax
  BY <1>1, <1>2, NoWorkerGood DEF Binds, Ticks
<1>10. Inv'
  BY <1>4, <1>6, <1>8, <1>9, InPlace
<1>11. PaintsCurrent /\ LoadsOwnEntry /\ InputsStable
  BY <1>2, <1>5, <1>7 DEF PaintsCurrent, LoadsOwnEntry, InputsStable
<1> QED
  BY <1>10, <1>11 DEF StepOK

LEMMA RenderStepOK ==
    ASSUME NavAssumption, Inv, LateNext, NEW r \in Results, RenderStep(r)
    PROVE  StepOK
<1> DEFINE u == Head(stack).u
           n == Head(stack).n
           t == [Cur EXCEPT !.top = u, !.cache = n]
           w == Loaded(t, u, t.cache)
           s == Tail(stack)
<1>1. /\ TabsInv /\ FetchInv /\ jsnav \in 0 .. JsNavMax /\ JsNavMax \in Nat
      /\ GoodTab(Cur) /\ Cur \in Tab /\ GoodHistory(Cur.b)
  BY CurGood, GoodTabFields DEF Inv, NavAssumption
<1>2. /\ stack # <<>> /\ Head(stack).f = "render" /\ tick = NoTick
      /\ UNCHANGED <<act, gen, loading, jobs, tick>>
  BY DEF RenderStep, Runs, Top, Quiesces
<1>3. \/ /\ Jumps(r) /\ wk' = NoWorker /\ Done(<<LoadCall(r.u)>>)
         /\ SetCur([t EXCEPT !.b = NavigateTo(t.b, r.u), !.view = NoDoc])
      \/ /\ ~Jumps(r) /\ wk' = RunScript(w, r) /\ Done(<<>>)
         /\ SetCur(ApplyOps([t EXCEPT !.view = t.cache], Report(w, r)))
  BY DEF RenderStep
<1>4. jsnav' \in 0 .. JsNavMax
  <2>1. jsnav' = 0 \/ jsnav' = jsnav \/ (jsnav' = jsnav + 1 /\ jsnav < JsNavMax)
    BY DEF RenderStep, Jumps
  <2> QED
    BY <1>1, <2>1
<1>5. u \in Urls /\ n \in Int
  BY <1>2, CallContext DEF GoodCall
<1>6. /\ GoodCalls(s, Len(tabs)) /\ (HasLoad(stack) <=> HasLoad(s))
      /\ ~late => n = CurDoc(Cur.b)
  BY <1>2, CallContext DEF CurrentCall
<1>7. GoodResult(r)
  BY ResultsGood
<1> HIDE DEF u, n, s
<1>8. LoadsOwnEntry /\ InputsStable
  BY <1>2 DEF LoadsOwnEntry, InputsStable
<1>9. t.b = Cur.b /\ t.cache = n /\ t.id = Cur.id
  BY <1>1, <1>5 DEF Tab
<1>10. CASE /\ Jumps(r) /\ wk' = NoWorker /\ Done(<<LoadCall(r.u)>>)
            /\ SetCur([t EXCEPT !.b = NavigateTo(t.b, r.u), !.view = NoDoc])
  <2> DEFINE v == [Cur EXCEPT !.top = u, !.cache = n, !.view = NoDoc]
             x == [v EXCEPT !.b = NavigateTo(v.b, r.u)]
             c == LoadCall(r.u)
  <2>1. r.u \in Urls
    BY <1>7, <1>10 DEF GoodResult, Jumps
  <2>2. GoodTab(v) /\ v.id = Cur.id /\ v.b = Cur.b /\ v.view = NoDoc
    <3>1. u \in Urls \cup {NoUrl} /\ NoDoc \in {n, NoDoc}
      BY <1>1, <1>5
    <3>2. Holds(v, Cur, u, n, NoDoc)
      BY <1>1, <1>5, <3>1, Cached
    <3> QED
      BY <3>2 DEF Holds
  <2>3. tabs' = [tabs EXCEPT ![act] = x]
    <3>1. x = [t EXCEPT !.b = NavigateTo(t.b, r.u), !.view = NoDoc]
      BY <1>1, <1>9, <2>2 DEF Tab
    <3> QED
      BY <1>10, <3>1 DEF SetCur
  <2> HIDE DEF v
  <2>4. GoodTab(x) /\ x.id = v.id /\ x.view = v.view /\ CurUrl(x.b) = r.u
    BY <2>1, <2>2, Navigates
  <2> HIDE DEF x
  <2>5. GoodCall(c, Len(tabs)) /\ c.f = "load" /\ c.u = r.u
    BY <2>1 DEF GoodCall, Calls, LoadCall, Call
  <2>6. Done(<<c>>)
    BY <1>10
  <2> HIDE DEF c
  <2>7. Edits(x) /\ CurrentCall(c, x.b)
    BY <1>2, <2>2, <2>3, <2>4, <2>5 DEF Edits, CurrentCall
  <2>8. Leaves(s, x) /\ HasLoad(stack')
    BY <1>2, <2>5, <2>6, <2>7, LeavesOne DEF s
  <2>9. Cur' = x /\ tabs'[act'] = x
    BY <1>1, <2>7, EditsTabs
  <2>10. FetchInv'
    BY <1>1, <1>2, <2>2, <2>4, <2>8, <2>9, FetchKept
  <2>11. Binds(wk', x) /\ Ticks(wk', tick')
    BY <1>2, <1>10, NoWorkerGood DEF Binds, Ticks
  <2>12. Inv'
    BY <1>4, <1>6, <2>7, <2>8, <2>10, <2>11, InPlace
  <2>13. PaintsCurrent
    BY <2>2, <2>4, <2>9 DEF PaintsCurrent
  <2> QED
    BY <1>8, <2>12, <2>13 DEF StepOK
<1>11. CASE /\ ~Jumps(r) /\ wk' = RunScript(w, r) /\ Done(<<>>)
            /\ SetCur(ApplyOps([t EXCEPT !.view = t.cache], Report(w, r)))
  <2> DEFINE v == [Cur EXCEPT !.top = u, !.cache = n, !.view = n]
             o == Report(w, r)
             x == ApplyOps(v, o)
  <2>1. GoodTab(v) /\ v.id = Cur.id /\ v.b = Cur.b /\ v.view = n /\ v.cache = n
    <3>1. u \in Urls \cup {NoUrl} /\ n \in {n, NoDoc}
      BY <1>1, <1>5
    <3>2. Holds(v, Cur, u, n, n)
      BY <1>1, <1>5, <3>1, Cached
    <3> QED
      BY <3>2 DEF Holds
  <2>2. tabs' = [tabs EXCEPT ![act] = x]
    <3>1. v = [t EXCEPT !.view = t.cache]
      BY <1>1, <1>9 DEF Tab
    <3> QED
      BY <1>11, <3>1 DEF SetCur
  <2>3. GoodWorker(w) /\ w.up /\ w.doc = n /\ w.tab = Cur.id
    <3> HIDE DEF t
    <3>1. GoodHistory(t.b) /\ t.id \in Nat /\ t.cache \in Int /\ u \in Urls \cup {NoUrl}
          /\ HMax \in Nat \ {0}
      BY <1>1, <1>5, <1>9, GoodTabFields DEF NavAssumption
    <3> QED
      BY <1>9, <3>1, LoadedGood, SMTT(30)
  <2> HIDE DEF v, w
  <2>4. GoodResult(o)
    BY <1>7, ReportGood
  <2> HIDE DEF o
  <2>5. Shown(x, v, v.view)
    BY <2>1, <2>4, OpsShown
  <2> HIDE DEF x
  <2>6. GoodWorker(wk') /\ SameWorker(wk', w)
    BY <1>7, <1>11, <2>3, RunScriptGood DEF NavAssumption
  <2>7. Leaves(s, x) /\ stack' = s
    BY <1>2, <1>11, LeavesNone DEF s
  <2>8. Edits(x) /\ x.id = Cur.id /\ x.view = n /\ x.cache = n /\ CurDoc(x.b) = CurDoc(Cur.b)
    BY <1>2, <2>1, <2>2, <2>5 DEF Edits, Shown
  <2>9. Cur' = x /\ tabs'[act'] = x
    BY <1>1, <2>8, EditsTabs
  <2>10. FetchInv'
    BY <1>1, <1>2, <1>6, <2>7, <2>8, <2>9, FetchKept
  <2>11. Binds(wk', x) /\ Ticks(wk', tick')
    BY <1>2, <2>3, <2>6, <2>8 DEF Binds, Ticks, SameWorker
  <2>12. Inv'
    BY <1>4, <1>6, <2>7, <2>8, <2>10, <2>11, InPlace
  <2>13. PaintsCurrent
    BY <1>6, <2>8, <2>9 DEF PaintsCurrent
  <2> QED
    BY <1>8, <2>12, <2>13 DEF StepOK
<1> QED
  BY <1>3, <1>10, <1>11

LEMMA StepStepOK ==
    ASSUME NavAssumption, Inv, LateNext, StepStep
    PROVE  StepOK
<1> DEFINE n == Head(stack).n
           d == Head(stack).d
           b == MovePos(Cur.b, n)
           x == [Cur EXCEPT !.b = b]
           s == Tail(stack)
<1>1. /\ TabsInv /\ FetchInv /\ WorkerInv /\ TickInv /\ jsnav \in 0 .. JsNavMax
      /\ GoodTab(Cur) /\ Cur \in Tab /\ GoodHistory(Cur.b)
  BY CurGood, GoodTabFields DEF Inv
<1>2. /\ stack # <<>> /\ Head(stack).f = "step" /\ tabs' = [tabs EXCEPT ![act] = x]
      /\ UNCHANGED <<act, gen, loading, jobs, wk, tick, jsnav>>
      /\ Done(AfterMove(Cur.b, b, d))
  BY DEF StepStep, Top, SetCur
<1>3. /\ GoodCalls(s, Len(tabs)) /\ (HasLoad(stack) <=> HasLoad(s))
      /\ n \in Int /\ d \in Nat
  BY <1>2, CallContext DEF GoodCall, Calls
<1> HIDE DEF n, d, s
<1>4. GoodHistory(b) /\ b.hist = Cur.b.hist
  BY <1>1, <1>3, MoveOrdered
<1>5. CurUrl(b) \in Urls \cup {NoUrl}
  BY <1>4, CurrentTyped
<1>6. \/ b.pos = Cur.b.pos /\ Done(<<>>)
      \/ wk.up /\ CurDoc(b) = CurDoc(Cur.b) /\ Done(<<PopCall(d)>>)
      \/ Done(<<LoadCall(CurUrl(b))>>)
  BY <1>2 DEF AfterMove
<1> HIDE DEF b
<1>7. /\ GoodTab(x) /\ x.id = Cur.id /\ x.b = b /\ x.cache = Cur.cache /\ x.view = Cur.view
      /\ x.top = Cur.top
  <2>1. x \in Tab /\ x.id = Cur.id /\ x.b = b /\ x.cache = Cur.cache /\ x.view = Cur.view
        /\ x.top = Cur.top /\ x.ld = Cur.ld
    BY <1>1, <1>4 DEF Tab, GoodHistory
  <2> QED
    BY <1>1, <1>4, <2>1 DEF GoodTab, GoodHistory
<1> HIDE DEF x
<1>8. Edits(x)
  BY <1>2, <1>7 DEF Edits
<1>9. Cur' = x /\ tabs'[act'] = x
  BY <1>1, <1>8, EditsTabs
<1>10. Leaves(s, x) /\ (HasLoad(stack') \/ (CurDoc(b) = CurDoc(Cur.b) /\ ~HasLoad(stack)))
  <2>1. CASE b.pos = Cur.b.pos /\ Done(<<>>)
    <3>1. CurDoc(b) = CurDoc(Cur.b)
      BY <1>4, <2>1 DEF CurDoc
    <3>2. Leaves(s, x) /\ stack' = s
      BY <1>2, <2>1, LeavesNone DEF s
    <3> QED
      BY <1>3, <3>1, <3>2
  <2>2. CASE wk.up /\ CurDoc(b) = CurDoc(Cur.b) /\ Done(<<PopCall(d)>>)
    <3> DEFINE c == PopCall(d)
    <3>1. GoodCall(c, Len(tabs)) /\ c.f = "pop" /\ Done(<<c>>)
      BY <1>3, <2>2 DEF GoodCall, Calls, PopCall, Call
    <3> HIDE DEF c
    <3>2. CurrentCall(c, x.b) /\ wk'.up
      BY <1>2, <2>2, <3>1 DEF CurrentCall
    <3>3. Leaves(s, x) /\ (HasLoad(stack') <=> HasLoad(s))
      BY <1>2, <3>1, <3>2, LeavesOne DEF s
    <3> QED
      BY <1>3, <2>2, <3>3
  <2>3. CASE Done(<<LoadCall(CurUrl(b))>>)
    <3> DEFINE c == LoadCall(CurUrl(b))
    <3>1. GoodCall(c, Len(tabs)) /\ c.f = "load" /\ Done(<<c>>) /\ c.u = CurUrl(b)
      BY <1>5, <2>3 DEF GoodCall, Calls, LoadCall, Call
    <3> HIDE DEF c
    <3>2. CurrentCall(c, x.b)
      BY <1>7, <3>1 DEF CurrentCall
    <3> QED
      BY <1>2, <3>1, <3>2, LeavesOne DEF s
  <2> QED
    BY <1>6, <2>1, <2>2, <2>3
<1>11. FetchInv'
  BY <1>1, <1>2, <1>7, <1>9, <1>10, FetchKept
<1>12. Binds(wk', x) /\ Ticks(wk', tick') /\ jsnav' \in 0 .. JsNavMax
  BY <1>1, <1>2, <1>7 DEF WorkerInv, TickInv, Binds, Ticks
<1>13. Inv'
  BY <1>3, <1>8, <1>10, <1>11, <1>12, InPlace
<1>14. PaintsCurrent /\ LoadsOwnEntry /\ InputsStable
  BY <1>2, <1>7, <1>9 DEF PaintsCurrent, LoadsOwnEntry, InputsStable
<1> QED
  BY <1>13, <1>14 DEF StepOK

LEMMA PopFailsOK ==
    ASSUME NavAssumption, Inv, LateNext, PopFails
    PROVE  StepOK
<1> DEFINE c == LoadCall(CurUrl(Cur.b))
           s == Tail(stack)
<1>1. TabsInv /\ FetchInv /\ WorkerInv /\ jsnav \in 0 .. JsNavMax /\ GoodHistory(Cur.b)
  BY CurGood, GoodTabFields DEF Inv
<1>2. /\ stack # <<>> /\ Head(stack).f = "pop" /\ Done(<<c>>) /\ tick' = NoTick
      /\ wk' = [wk EXCEPT !.exact = FALSE]
      /\ UNCHANGED <<tabs, act, gen, loading, jobs, jsnav>>
  BY DEF PopFails, Top
<1>3. CurUrl(Cur.b) \in Urls \cup {NoUrl}
  BY <1>1, CurrentTyped
<1>4. GoodCall(c, Len(tabs)) /\ c.f = "load" /\ c.u = CurUrl(Cur.b)
  BY <1>3 DEF GoodCall, Calls, LoadCall, Call
<1> HIDE DEF c
<1>5. CurrentCall(c, Cur.b)
  BY <1>4 DEF CurrentCall
<1>6. GoodCalls(s, Len(tabs)) /\ Leaves(s, Cur) /\ HasLoad(stack')
  BY <1>2, <1>4, <1>5, CallContext, LeavesOne
<1> HIDE DEF s
<1>7. Edits(Cur) /\ Cur' = Cur
  BY <1>1, <1>2, NoEdit, SameTabs
<1>8. FetchInv'
  BY <1>1, <1>2, <1>6, <1>7, FetchKept
<1>9. GoodWorker(wk') /\ SameWorker(wk', wk)
  BY <1>1, <1>2, MarkGood DEF WorkerInv, Marked
<1>10. Binds(wk', Cur) /\ Ticks(wk', tick') /\ jsnav' \in 0 .. JsNavMax
  BY <1>1, <1>2, <1>9 DEF WorkerInv, Binds, Ticks, SameWorker
<1>11. Inv'
  BY <1>6, <1>7, <1>8, <1>10, InPlace
<1>12. PaintsCurrent /\ LoadsOwnEntry /\ InputsStable
  BY <1>2 DEF PaintsCurrent, LoadsOwnEntry, InputsStable, Cur
<1> QED
  BY <1>11, <1>12 DEF StepOK

-----------------------------------------------------------------------------
(* Steps that change which tab is active.                                  *)

(* The worker is dropped and another tab, whose history is b, comes up with *)
(* the calls s, or with a load before them.                                 *)
Raised(s, b) ==
    \/ stack' = s
    \/ \E c : /\ GoodCall(c, Len(tabs')) /\ c.f = "load" /\ stack' = <<c>> \o s
              /\ CurrentCall(c, b)

LEMMA OtherTab ==
    ASSUME Inv, LateNext, TabsInv', wk' = NoWorker, tick' = NoTick, loading' = FALSE,
           jobs' = jobs, jsnav' = jsnav,
           NEW s, GoodCalls(s, Len(tabs')), ~late => s = <<>>, Raised(s, Cur'.b),
           Bump \/ (gen' = gen /\ HasLoad(stack')),
           ~Top("load"),
           tabs'[act'].id = Cur.id => tabs'[act'].view \in {Cur.view, NoDoc}
    PROVE  StepOK
<1>1. StackInv /\ FetchInv /\ jsnav \in 0 .. JsNavMax
  BY DEF Inv
<1>2. tabs' \in Seq(Tab) /\ s \in Seq(Calls)
  BY DEF TabsInv, GoodCalls
<1>3. WorkerInv'
  BY NoWorkerGood DEF WorkerInv, GoodWorker
<1>4. TickInv' /\ LoadsOwnEntry /\ InputsStable
  BY DEF TickInv, LoadsOwnEntry, InputsStable
<1>5. PaintsCurrent
  BY DEF PaintsCurrent
<1>6. HasLoad(stack)' = HasLoad(stack')
  BY DEF HasLoad
<1>7. FetchInv'
  <2>1. LoadingHasJob'
    BY DEF LoadingHasJob
  <2>2. CASE Bump
    <3>1. gen' \in Gens /\ gen' # gen /\ \A j \in jobs : j.gen # gen'
      BY <2>2 DEF Bump, NextGen
    <3>2. StreamInv'
      BY <1>1, <3>1, StreamKept DEF FetchInv
    <3> QED
      BY <1>1, <2>1, <3>1, <3>2 DEF FetchInv
  <2>3. CASE gen' = gen /\ HasLoad(stack')
    <3>1. StreamInv'
      BY <1>1, <2>3, StreamKept DEF FetchInv
    <3> QED
      BY <1>1, <1>6, <2>1, <2>3, <3>1 DEF FetchInv
  <2> QED
    BY <2>2, <2>3
<1>8. CASE stack' = s
  <2>1. StackInv'
    BY <1>2, <1>8, NextStack
  <2>2. LateInv'
    BY <1>1, <1>2, <1>8, LateKept
  <2> QED
    BY <1>1, <1>3, <1>4, <1>5, <1>7, <2>1, <2>2 DEF StepOK, Inv
<1>9. ASSUME NEW c, GoodCall(c, Len(tabs')), c.f = "load", stack' = <<c>> \o s, CurrentCall(c, Cur'.b)
      PROVE  StepOK
  <2>1. c \in Calls
    BY <1>9 DEF GoodCall
  <2>2. StackInv'
    BY <1>2, <1>9, NextStack
  <2>3. LateInv'
    BY <1>1, <1>2, <1>9, <2>1, LateKept
  <2> QED
    BY <1>1, <1>3, <1>4, <1>5, <1>7, <2>2, <2>3 DEF StepOK, Inv
<1> QED
  BY <1>8, <1>9 DEF Raised

LEMMA SwitchStepOK ==
    ASSUME NavAssumption, Inv, LateNext, SwitchStep
    PROVE  StepOK
<1> DEFINE s == Tail(stack)
           i == Head(stack).n
<1>1. TabsInv /\ GoodTab(Cur)
  BY CurGood DEF Inv
<1>2. /\ stack # <<>> /\ Head(stack).f = "switch" /\ tick = NoTick /\ Bump /\ wk' = NoWorker
      /\ tabs' = [tabs EXCEPT ![act] = Park(Cur)] /\ act' = i /\ loading' = tabs[i].ld
      /\ Done(<<>>) /\ UNCHANGED <<jobs, tick, jsnav>>
  BY DEF SwitchStep, Runs, Top, Quiesces, DropWorker
<1>3. i \in 1 .. Len(tabs) /\ GoodCalls(s, Len(tabs)) /\ (~late => s = <<>>)
  BY <1>2, CallContext DEF GoodCall
<1>4. stack' = s
  BY <1>2, LeavesNone
<1> HIDE DEF s, i
<1>5. tabs' = tabs
  <2>1. Park(Cur) = tabs[act]
    BY <1>1, ParkIsIdle DEF Cur
  <2> QED
    BY <1>1, <1>2, <2>1, LenProperties DEF TabsInv
<1>6. TabsInv'
  BY <1>1, <1>2, <1>3, <1>5 DEF TabsInv, GoodTab
<1>7. loading' = FALSE
  BY <1>1, <1>2, <1>3 DEF TabsInv, GoodTab
<1>8. tabs'[act'].id = Cur.id => tabs'[act'].view \in {Cur.view, NoDoc}
  BY <1>1, <1>2, <1>3, <1>5 DEF TabsInv, Cur
<1>9. ~Top("load")
  BY <1>2 DEF Top
<1>10. Raised(s, Cur'.b) /\ GoodCalls(s, Len(tabs'))
  BY <1>3, <1>4, <1>5 DEF Raised
<1> QED
  BY <1>2, <1>3, <1>6, <1>7, <1>8, <1>9, <1>10, OtherTab

(* Closing tab i leaves the other tabs. *)
LEMMA WithoutTab ==
    ASSUME MaxTabs \in Nat, TabsInv, NEW i \in 1 .. Len(tabs), Len(tabs) > 1,
           tabs' = Without(tabs, i),
           act' \in 1 .. Len(tabs) - 1
    PROVE  /\ TabsInv' /\ Len(tabs') = Len(tabs) - 1
           /\ \A k \in 1 .. Len(tabs) - 1 : /\ k < i => tabs'[k] = tabs[k]
                                            /\ ~(k < i) => tabs'[k] = tabs[k + 1]
           /\ \A k \in 1 .. Len(tabs) - 1 : tabs'[k].id # tabs[i].id
<1>1. tabs \in Seq(Tab) /\ Len(tabs) \in Nat /\ Len(tabs) <= MaxTabs
  BY LenProperties DEF TabsInv
<1>2. /\ tabs' \in Seq(Tab) /\ Len(tabs') = Len(tabs) - 1
      /\ \A k \in 1 .. Len(tabs) - 1 : tabs'[k] = tabs[IF k < i THEN k ELSE k + 1]
  BY <1>1, WithoutOne
<1> DEFINE f(k) == IF k < i THEN k ELSE k + 1
<1>3. \A k \in 1 .. Len(tabs) - 1 : f(k) \in 1 .. Len(tabs) /\ f(k) # i /\ tabs'[k] = tabs[f(k)]
  BY <1>1, <1>2
<1>4. \A k, m \in 1 .. Len(tabs) - 1 : f(k) = f(m) => k = m
  BY <1>1
<1>5. \A k \in 1 .. Len(tabs) - 1 : /\ k < i => tabs'[k] = tabs[k]
                                    /\ ~(k < i) => tabs'[k] = tabs[k + 1]
  BY <1>2
<1> HIDE DEF f
<1>6. \A k \in 1 .. Len(tabs') : GoodTab(tabs'[k])
  BY <1>2, <1>3 DEF TabsInv
<1>7. \A k, m \in 1 .. Len(tabs') : tabs'[k].id = tabs'[m].id => k = m
  <2> SUFFICES ASSUME NEW k \in 1 .. Len(tabs'), NEW m \in 1 .. Len(tabs'),
                      tabs'[k].id = tabs'[m].id
               PROVE  k = m
    OBVIOUS
  <2>1. k \in 1 .. Len(tabs) - 1 /\ m \in 1 .. Len(tabs) - 1
    BY <1>2
  <2>2. /\ f(k) \in 1 .. Len(tabs) /\ tabs'[k] = tabs[f(k)]
        /\ f(m) \in 1 .. Len(tabs) /\ tabs'[m] = tabs[f(m)]
    BY <1>3, <2>1
  <2>3. \A x, y \in 1 .. Len(tabs) : tabs[x].id = tabs[y].id => x = y
    BY DEF TabsInv
  <2>4. f(k) = f(m)
    BY <2>2, <2>3
  <2> QED
    BY <1>4, <2>1, <2>4
<1>8. \A k \in 1 .. Len(tabs) - 1 : tabs'[k].id # tabs[i].id
  <2>1. \A x, y \in 1 .. Len(tabs) : tabs[x].id = tabs[y].id => x = y
    BY DEF TabsInv
  <2> QED
    BY <1>3, <2>1
<1>9. act' \in 1 .. Len(tabs') /\ Len(tabs') <= MaxTabs
  <2>1. Len(tabs) - 1 <= MaxTabs
    BY <1>1
  <2> QED
    BY <1>2, <2>1
<1>10. TabsInv'
  BY <1>2, <1>6, <1>7, <1>9 DEF TabsInv, GoodTab
<1> QED
  BY <1>2, <1>5, <1>8, <1>10

LEMMA CloseActiveOK ==
    ASSUME NavAssumption, Inv, LateNext, CloseActive
    PROVE  StepOK
<1>1. TabsInv
  BY DEF Inv
<1>2. /\ stack = <<>> /\ Len(tabs) > 1 /\ Bump /\ wk' = NoWorker /\ tick' = NoTick
      /\ tabs' = Without(tabs, act)
      /\ act' = (IF act > Len(tabs) - 1 THEN Len(tabs) - 1 ELSE act)
      /\ loading' = tabs'[act'].ld
      /\ UNCHANGED <<jobs, jsnav, stack>>
  BY DEF CloseActive, Idle, DropWorker
<1>3. act \in 1 .. Len(tabs) /\ Len(tabs) \in Nat
  BY <1>1, LenProperties DEF TabsInv
<1>4. act' \in 1 .. Len(tabs) - 1
  BY <1>2, <1>3
<1>5. /\ TabsInv' /\ Len(tabs') = Len(tabs) - 1
      /\ \A k \in 1 .. Len(tabs) - 1 : tabs'[k].id # tabs[act].id
  BY <1>1, <1>2, <1>3, <1>4, WithoutTab DEF NavAssumption
<1>6. tabs'[act'].id # Cur.id
  BY <1>4, <1>5 DEF Cur
<1>7. loading' = FALSE
  BY <1>2, <1>5 DEF TabsInv, GoodTab
<1> DEFINE s == <<>>
<1>8. GoodCalls(s, Len(tabs')) /\ s = <<>> /\ Raised(s, Cur'.b)
  BY <1>2, NothingWaits DEF Raised
<1> HIDE DEF s
<1>9. ~Top("load")
  BY <1>2 DEF Top
<1> QED
  BY <1>2, <1>5, <1>6, <1>7, <1>8, <1>9, OtherTab

(* Closing a parked tab leaves the active one where it is. *)
LEMMA ParkedClosed ==
    ASSUME NavAssumption, TabsInv, NEW i, CloseParked(i)
    PROVE  TabsInv' /\ Cur' = Cur
<1>1. /\ i \in 1 .. Len(tabs) \ {act} /\ tabs' = Without(tabs, i)
      /\ act' = (IF i < act THEN act - 1 ELSE act)
  BY DEF CloseParked
<1>2. act \in 1 .. Len(tabs) /\ Len(tabs) \in Nat
  BY LenProperties DEF TabsInv
<1>3. Len(tabs) > 1 /\ act' \in 1 .. Len(tabs) - 1
  BY <1>1, <1>2
<1>4. /\ TabsInv'
      /\ \A k \in 1 .. Len(tabs) - 1 : /\ k < i => tabs'[k] = tabs[k]
                                       /\ ~(k < i) => tabs'[k] = tabs[k + 1]
  BY <1>1, <1>3, WithoutTab DEF NavAssumption
<1>5. tabs'[act'] = tabs[act]
  <2>1. CASE i < act
    <3>1. act' = act - 1 /\ ~(act' < i) /\ act' + 1 = act
      BY <1>1, <1>2, <2>1
    <3> QED
      BY <1>3, <1>4, <3>1
  <2>2. CASE ~(i < act)
    <3>1. act' = act /\ act' < i
      BY <1>1, <1>2, <2>2
    <3> QED
      BY <1>3, <1>4, <3>1
  <2> QED
    BY <2>1, <2>2
<1> QED
  BY <1>4, <1>5 DEF Cur

LEMMA CloseParkedOK ==
    ASSUME NavAssumption, Inv, LateNext, NEW i \in 1 .. MaxTabs, CloseParked(i)
    PROVE  StepOK
<1>1. /\ TabsInv /\ StackInv /\ WorkerInv /\ TickInv /\ FetchInv
      /\ jsnav \in 0 .. JsNavMax
  BY DEF Inv
<1>2. stack = <<>> /\ UNCHANGED <<gen, loading, jobs, wk, tick, jsnav, stack>>
  BY DEF CloseParked, Idle
<1>3. TabsInv' /\ Cur' = Cur
  BY <1>1, ParkedClosed
<1>4. ~HasLoad(stack)
  BY <1>2, NothingWaits
<1>5. FetchInv'
  BY <1>1, <1>2, <1>3, <1>4, FetchKept
<1>6. WorkerInv' /\ TickInv'
  BY <1>1, <1>2, <1>3 DEF WorkerInv, TickInv, GoodWorker, GoodResult
<1>7. StackInv' /\ LateInv'
  BY <1>1, <1>2 DEF StackInv, LateInv
<1>8. PaintsCurrent /\ LoadsOwnEntry /\ InputsStable
  BY <1>2, <1>3 DEF PaintsCurrent, LoadsOwnEntry, InputsStable, Cur
<1> QED
  BY <1>1, <1>2, <1>3, <1>5, <1>6, <1>7, <1>8 DEF StepOK, Inv

(* Calls keep a tab to switch to while tabs are added. *)
LEMMA MoreTabs ==
    ASSUME NEW s, NEW m \in Nat, GoodCalls(s, m)
    PROVE  GoodCalls(s, m + 1)
<1>1. \A c : GoodCall(c, m) => GoodCall(c, m + 1)
  BY DEF GoodCall
<1> QED
  BY <1>1 DEF GoodCalls

LEMMA NewTabGood ==
    ASSUME NEW b, GoodHistory(b), NEW i \in 1 .. MaxTabs
    PROVE  /\ GoodTab(NewTab(i, b)) /\ NewTab(i, b).id = i /\ NewTab(i, b).b = b
           /\ NewTab(i, b).view = NoDoc
<1>1. NoDoc \in Int
  BY DEF NoDoc
<1> HIDE DEF NoDoc
<1> QED
  BY <1>1 DEF NewTab, GoodTab, Tab, GoodHistory

LEMMA NewHistoryGood == GoodHistory(NewHistory) /\ NewHistory.hist = <<>>
<1>1. <<>> \in Seq([url : Urls, doc : Nat \ {0}]) /\ Len(<<>>) = 0
  OBVIOUS
<1> QED
  BY <1>1 DEF NewHistory, GoodHistory, Histories, Ordered

LEMMA TabStepOK ==
    ASSUME NavAssumption, Inv, LateNext, TabStep
    PROVE  StepOK
<1> DEFINE s == Tail(stack)
           u == Head(stack).u
           b == IF u = NoUrl THEN NewHistory ELSE NavigateTo(NewHistory, u)
           v == IF u = NoUrl THEN Start ELSE u
           c == LoadCall(v)
           t == NewTab(FreeId, b)
           n == Len(tabs)
<1>1. /\ TabsInv /\ GoodTab(Cur) /\ WorkerInv /\ TickInv /\ FetchInv
      /\ jsnav \in 0 .. JsNavMax /\ MaxTabs \in Nat
  BY CurGood DEF Inv, NavAssumption
<1>2. stack # <<>> /\ Head(stack).f = "tab" /\ tick = NoTick /\ UNCHANGED <<gen, jobs, tick, jsnav>>
  BY DEF TabStep, Runs, Top, Quiesces
<1>3. \/ Done(<<>>) /\ UNCHANGED <<tabs, act, loading, wk>>
      \/ /\ ~(n >= MaxTabs)
         /\ tabs' = Inserted([tabs EXCEPT ![act] = Park(Cur)], act + 1, t)
         /\ act' = act + 1 /\ loading' = FALSE /\ wk' = NoWorker /\ Done(<<c>>)
  BY DEF TabStep, DropWorker
<1>4. /\ GoodCalls(s, n) /\ s \in Seq(Calls) /\ (~late => s = <<>>) /\ u \in Urls \cup {NoUrl}
      /\ HasLoad(stack) <=> HasLoad(s)
  BY <1>2, CallContext DEF GoodCall, Calls
<1> HIDE DEF u
<1>5. CASE Done(<<>>) /\ UNCHANGED <<tabs, act, loading, wk>>
  <2>1. Edits(Cur) /\ Cur' = Cur
    BY <1>1, <1>5, NoEdit, SameTabs
  <2>2. Leaves(s, Cur) /\ stack' = s
    BY <1>2, <1>5, LeavesNone
  <2> HIDE DEF s
  <2>3. FetchInv'
    BY <1>1, <1>2, <1>4, <1>5, <2>1, <2>2, FetchKept
  <2>4. Binds(wk', Cur) /\ Ticks(wk', tick') /\ jsnav' \in 0 .. JsNavMax
    BY <1>1, <1>2, <1>5 DEF WorkerInv, TickInv, Binds, Ticks
  <2>5. Inv'
    BY <1>4, <2>1, <2>2, <2>3, <2>4, InPlace
  <2>6. PaintsCurrent /\ LoadsOwnEntry /\ InputsStable
    BY <1>2, <1>5 DEF PaintsCurrent, LoadsOwnEntry, InputsStable, Cur
  <2> QED
    BY <2>5, <2>6 DEF StepOK
<1>6. CASE /\ ~(n >= MaxTabs)
           /\ tabs' = Inserted([tabs EXCEPT ![act] = Park(Cur)], act + 1, t)
           /\ act' = act + 1 /\ loading' = FALSE /\ wk' = NoWorker /\ Done(<<c>>)
  <2>1. tabs \in Seq(Tab) /\ n \in Nat /\ act \in 1 .. n /\ n < MaxTabs
    BY <1>1, <1>6, LenProperties DEF TabsInv
  <2>2. tabs' = Inserted(tabs, act + 1, t)
    <3>1. Park(Cur) = tabs[act]
      BY <1>1, ParkIsIdle DEF Cur
    <3>2. [tabs EXCEPT ![act] = tabs[act]] = tabs
      BY <2>1, LenProperties
    <3> QED
      BY <1>6, <3>1, <3>2
  <2>3. GoodHistory(b) /\ (b.hist = <<>> \/ CurUrl(b) = v) /\ v \in Urls
    BY <1>4, NewHistoryGood, NavigateOrdered DEF NavAssumption
  <2> HIDE DEF b, v
  <2>4. FreeId \in 1 .. MaxTabs /\ \A k \in 1 .. n : tabs[k].id # FreeId
    BY <1>1, <2>1, FreeIdIsFree
  <2>5. GoodTab(t) /\ t.id = FreeId /\ t.b = b /\ t.view = NoDoc
    BY <2>3, <2>4, NewTabGood
  <2> HIDE DEF t
  <2> DEFINE i == act + 1
  <2>6. i \in 1 .. n + 1 /\ i \in 1 .. Len(tabs) + 1 /\ t \in Tab
    BY <2>1, <2>5 DEF GoodTab
  <2>7. tabs' = Inserted(tabs, i, t) /\ act' = i
    BY <1>6, <2>2
  <2> HIDE DEF i
  <2>8. /\ tabs' \in Seq(Tab) /\ Len(tabs') = n + 1
        /\ \A k \in 1 .. n + 1 : tabs'[k] = IF k = i THEN t ELSE tabs[IF k < i THEN k ELSE k - 1]
    <3> DEFINE v1 == Inserted(tabs, i, t)
    <3>1. /\ v1 \in Seq(Tab) /\ Len(v1) = Len(tabs) + 1
          /\ \A k \in 1 .. Len(tabs) + 1 :
                v1[k] = IF k = i THEN t ELSE tabs[IF k < i THEN k ELSE k - 1]
      BY <2>1, <2>6, InsertedOne
    <3>2. tabs' = v1
      BY <2>7
    <3> HIDE DEF v1
    <3> QED
      BY <3>1, <3>2
  <2> DEFINE f(k) == IF k < i THEN k ELSE k - 1
  <2>9. \A k \in 1 .. n + 1 : k # i => f(k) \in 1 .. n /\ tabs'[k] = tabs[f(k)]
    <3>1. n \in Nat /\ i \in 1 .. n + 1
      BY <2>1, <2>6
    <3>2. \A k \in 1 .. n + 1 : k # i => f(k) \in 1 .. n
      <4> HIDE DEF n
      <4> QED
        BY <3>1
    <3> QED
      BY <2>8, <3>2
  <2>10. tabs'[i] = t
    BY <2>6, <2>8
  <2>11. \A k, m \in 1 .. n + 1 : k # i /\ m # i /\ f(k) = f(m) => k = m
    BY <2>1, <2>6
  <2> HIDE DEF f
  <2>12. \A k \in 1 .. n + 1 : GoodTab(tabs'[k])
    BY <1>1, <2>5, <2>9, <2>10 DEF TabsInv
  <2>13. ASSUME NEW k \in 1 .. n + 1, NEW m \in 1 .. n + 1, tabs'[k].id = tabs'[m].id
         PROVE  k = m
    <3>1. CASE k = i /\ m # i
      BY <2>4, <2>5, <2>9, <2>10, <2>13, <3>1
    <3>2. CASE k # i /\ m = i
      BY <2>4, <2>5, <2>9, <2>10, <2>13, <3>2
    <3>3. CASE k # i /\ m # i
      <4>1. f(k) = f(m)
        BY <1>1, <2>9, <2>13, <3>3 DEF TabsInv
      <4> QED
        BY <2>11, <3>3, <4>1
    <3> QED
      BY <3>1, <3>2, <3>3
  <2>14. act' \in 1 .. Len(tabs') /\ Len(tabs') <= MaxTabs
    BY <1>1, <2>1, <2>6, <2>7, <2>8
  <2>15. TabsInv'
    BY <2>8, <2>12, <2>13, <2>14 DEF TabsInv, GoodTab
  <2>16. GoodCalls(s, Len(tabs'))
    BY <1>4, <2>1, <2>8, MoreTabs
  <2>17. GoodCall(c, Len(tabs')) /\ c.f = "load" /\ c.u = v /\ c \in Calls
    BY <2>3 DEF GoodCall, Calls, LoadCall, Call
  <2>18. stack' = <<c>> \o s
    BY <1>6 DEF Done
  <2> HIDE DEF c, s
  <2>19. Cur' = t
    BY <2>7, <2>10 DEF Cur
  <2>20. Raised(s, Cur'.b)
    BY <2>3, <2>5, <2>17, <2>18, <2>19 DEF Raised, CurrentCall
  <2>21. HasLoad(stack')
    BY <1>4, <2>17, <2>18, PushCall DEF Pushed
  <2>22. ~Top("load")
    BY <1>2 DEF Top
  <2>23. tabs'[act'].id = Cur.id => tabs'[act'].view \in {Cur.view, NoDoc}
    BY <2>5, <2>7, <2>10
  <2> QED
    BY <1>2, <1>4, <1>6, <2>15, <2>16, <2>20, <2>21, <2>22, <2>23, OtherTab
<1> QED
  BY <1>3, <1>5, <1>6

-----------------------------------------------------------------------------
(* The theorems.                                                           *)

LEMMA InitHolds ==
    ASSUME NavAssumption, Init
    PROVE  Inv
<1>1. PICK u \in Urls \ {Start} :
         tabs = <<NewTab(1, NavigateTo(NewHistory, u))>> /\ stack = <<LoadCall(u)>>
  BY DEF Init
<1>2. /\ act = 1 /\ gen = 0 /\ loading = FALSE /\ jobs = {} /\ wk = NoWorker
      /\ tick = NoTick /\ jsnav = 0 /\ stream = NoStream /\ late = FALSE
  BY DEF Init
<1>3. MaxTabs \in Nat \ {0} /\ JsNavMax \in Nat
  BY DEF NavAssumption
<1> DEFINE b == NavigateTo(NewHistory, u)
           t == NewTab(1, b)
           c == LoadCall(u)
<1>4. GoodHistory(b) /\ CurUrl(b) = u
  BY NewHistoryGood, NavigateOrdered
<1> HIDE DEF b
<1>5. GoodTab(t) /\ t.b = b /\ t \in Tab
  <2> DEFINE i == 1
  <2>1. i \in 1 .. MaxTabs /\ t = NewTab(i, b)
    BY <1>3
  <2> HIDE DEF i, t
  <2> QED
    BY <1>4, <2>1, NewTabGood DEF GoodTab
<1>6. tabs = <<t>> /\ stack = <<c>>
  BY <1>1 DEF b
<1> HIDE DEF t
<1>7. tabs \in Seq(Tab) /\ Len(tabs) = 1 /\ tabs[1] = t
  BY <1>5, <1>6
<1>8. TabsInv /\ Cur = t
  BY <1>2, <1>3, <1>5, <1>7 DEF TabsInv, Cur
<1>9. GoodCall(c, Len(tabs)) /\ c.f = "load" /\ c.u = u /\ c \in Calls
  BY DEF GoodCall, Calls, LoadCall, Call
<1> HIDE DEF c
<1> DEFINE s == <<>>
<1>10. s \in Seq(Calls) /\ GoodCalls(s, Len(tabs)) /\ stack = <<c>> \o s /\ s = <<>>
  BY <1>6, <1>9, NothingWaits DEF GoodCalls
<1> HIDE DEF s
<1>11. /\ stack \in Seq(Calls) /\ stack # <<>> /\ Head(stack) = c /\ Tail(stack) = s
  BY <1>9, <1>10, PushCall DEF Pushed
<1>12. StackInv
  BY <1>9, <1>10, <1>11 DEF StackInv
<1>13. LateInv
  BY <1>4, <1>5, <1>8, <1>9, <1>10, <1>11 DEF LateInv, CurrentCall
<1>14. WorkerInv /\ TickInv
  BY <1>2, NoWorkerGood DEF WorkerInv, TickInv
<1>15. FetchInv
  <2>1. StreamInv
    BY <1>2 DEF StreamInv, NoStream, NoDoc
  <2> QED
    BY <1>2, <2>1 DEF FetchInv, LoadingHasJob
<1>16. jsnav \in 0 .. JsNavMax
  BY <1>2, <1>3
<1> QED
  BY <1>8, <1>12, <1>13, <1>14, <1>15, <1>16 DEF Inv

(* A step that leaves all but the buffer of the progressive render. *)
LEMMA OnlyStream ==
    ASSUME Inv, UNCHANGED <<tabs, act, gen, loading, jobs, wk, tick, jsnav, stack, late>>,
           StreamInv'
    PROVE  StepOK
<1>2. Cur' = Cur /\ CurDoc(Cur.b)' = CurDoc(Cur.b)
  BY DEF Cur, CurDoc
<1>3. TabsInv' /\ StackInv' /\ WorkerInv' /\ TickInv'
  BY <1>2 DEF Inv, TabsInv, GoodTab, StackInv, WorkerInv, TickInv, GoodWorker
<1>4. FetchInv'
  BY <1>2 DEF Inv, FetchInv, LoadingHasJob, HasLoad
<1>5. LateInv' /\ jsnav' \in 0 .. JsNavMax
  BY <1>2 DEF Inv, LateInv, CurrentCall, CurUrl, CurDoc
<1>6. PaintsCurrent /\ LoadsOwnEntry /\ InputsStable
  BY DEF PaintsCurrent, LoadsOwnEntry, InputsStable, Cur
<1> QED
  BY <1>3, <1>4, <1>5, <1>6 DEF StepOK, Inv

LEMMA StreamPaintOK ==
    ASSUME NavAssumption, Inv, UNCHANGED late, NEW r \in Results, StreamPaint(r)
    PROVE  StepOK
<1> DEFINE x == [Cur EXCEPT !.cache = stream.doc, !.view = stream.doc]
<1>1. /\ TabsInv /\ StackInv /\ FetchInv /\ StreamInv /\ LateInv /\ GoodTab(Cur)
      /\ JsNavMax \in Nat
  BY CurGood DEF Inv, FetchInv, NavAssumption
<1>2. /\ stack = <<>> /\ stream.sig /\ loading /\ stream.doc # NoDoc
      /\ wk' = FromCache(x, r) /\ tick' = NoTick /\ jsnav' = 0
      /\ tabs' = [tabs EXCEPT ![act] = x]
      /\ stream' = [stream EXCEPT !.doc = NoDoc, !.sig = FALSE]
      /\ UNCHANGED <<act, gen, loading, jobs, stack>>
  BY DEF StreamPaint, Idle, SetCur
<1>3. ~HasLoad(stack)
  BY <1>2, NothingWaits
<1>4. stream.doc \in Int /\ stream.doc \in {NoDoc, OldDoc, CurDoc(Cur.b)}
  BY <1>1, <1>3 DEF StreamInv
<1>5. /\ GoodTab(x) /\ x.id = Cur.id /\ x.b = Cur.b /\ x.cache = stream.doc /\ x.view = stream.doc
  BY <1>1, <1>4 DEF GoodTab, Tab
<1> HIDE DEF x
<1>6. GoodWorker(wk') /\ wk'.up /\ wk'.doc = stream.doc /\ wk'.tab = Cur.id
  BY <1>2, <1>5, FromCacheGood, ResultsGood
<1>7. Edits(x)
  BY <1>2, <1>5 DEF Edits
<1>8. TabsInv' /\ Cur' = x /\ Len(tabs') = Len(tabs) /\ tabs'[act'] = x /\ tabs' \in Seq(Tab)
  BY <1>1, <1>7, EditsTabs
<1>9. WorkerInv' /\ TickInv'
  BY <1>2, <1>5, <1>6, <1>8 DEF WorkerInv, GoodWorker, TickInv
<1>10. StackInv'
  <2> DEFINE s == <<>>
  <2>1. GoodCalls(s, Len(tabs)) /\ stack' = s
    BY <1>2, NothingWaits
  <2> HIDE DEF s
  <2> QED
    BY <1>8, <2>1, NextStack
<1>11. FetchInv'
  <2>1. CurDoc(Cur.b)' = CurDoc(Cur.b)
    BY <1>5, <1>8 DEF CurDoc
  <2>2. HasLoad(stack)' = HasLoad(stack) /\ LoadingHasJob'
    BY <1>1, <1>2 DEF HasLoad, FetchInv, LoadingHasJob
  <2>3. NoDoc \in Int
    BY DEF NoDoc
  <2> HIDE DEF NoDoc
  <2>4. StreamInv'
    BY <1>1, <1>2, <2>3 DEF StreamInv
  <2> QED
    BY <1>1, <1>2, <1>5, <1>8, <2>1, <2>2, <2>4 DEF FetchInv
<1>12. LateInv' /\ jsnav' \in 0 .. JsNavMax
  BY <1>1, <1>2 DEF LateInv
<1>13. PaintsCurrent
  BY <1>2, <1>4, <1>5, <1>8 DEF PaintsCurrent
<1>14. LoadsOwnEntry /\ InputsStable
  BY <1>2 DEF LoadsOwnEntry, InputsStable
<1> QED
  BY <1>8, <1>9, <1>10, <1>11, <1>12, <1>13, <1>14 DEF StepOK, Inv

(* What a fetch thread and the loop do with the buffer. *)
LEMMA StreamOK ==
    ASSUME NavAssumption, Inv, UNCHANGED late, StreamStep
    PROVE  StepOK
<1>1. StreamInv /\ FetchInv
  BY DEF Inv, FetchInv
<1>2. NoDoc \in Int /\ OldDoc \in Int
  BY DEF NoDoc, OldDoc
<1> HIDE DEF NoDoc, OldDoc
<1>3. ASSUME NEW j \in jobs, StreamChunk(j) PROVE StepOK
  <2>1. /\ UNCHANGED <<tabs, act, gen, loading, jobs, wk, tick, jsnav, stack>>
        /\ stream' = [stream EXCEPT !.doc = IF j.gen = gen THEN j.doc ELSE OldDoc, !.sig = TRUE]
    BY <1>3 DEF StreamChunk
  <2>2. j.doc \in Int
    BY <1>1 DEF FetchInv, Job
  <2>3. stream' \in [open : BOOLEAN, doc : Int, sig : BOOLEAN]
        /\ stream'.doc = IF j.gen = gen THEN j.doc ELSE OldDoc
    BY <1>1, <1>2, <2>1, <2>2 DEF StreamInv
  <2>4. HasLoad(stack) \/ stream'.doc \in {NoDoc, OldDoc, CurDoc(Cur.b)}
    BY <1>1, <2>3 DEF FetchInv
  <2>5. CurDoc(Cur.b)' = CurDoc(Cur.b) /\ HasLoad(stack)' = HasLoad(stack)
    BY <2>1 DEF Cur, CurDoc, HasLoad
  <2>6. StreamInv'
    BY <2>3, <2>4, <2>5 DEF StreamInv
  <2> QED
    BY <2>1, <2>6, OnlyStream
<1>4. CASE StreamSkip
  <2>1. /\ UNCHANGED <<tabs, act, gen, loading, jobs, wk, tick, jsnav, stack>>
        /\ stream' = [stream EXCEPT !.sig = FALSE]
    BY <1>4 DEF StreamSkip
  <2>2. CurDoc(Cur.b)' = CurDoc(Cur.b) /\ HasLoad(stack)' = HasLoad(stack)
    BY <2>1 DEF Cur, CurDoc, HasLoad
  <2>3. StreamInv'
    BY <1>1, <2>1, <2>2 DEF StreamInv
  <2> QED
    BY <2>1, <2>3, OnlyStream
<1>5. ASSUME NEW r \in Results, StreamPaint(r) PROVE StepOK
  BY <1>5, StreamPaintOK
<1> QED
  BY <1>3, <1>4, <1>5 DEF StreamStep

(* One step per action of the window's loop. *)
LEMMA NextKeeps ==
    ASSUME NavAssumption, Inv, Next
    PROVE  StepOK
<1>4. CASE StreamStep /\ UNCHANGED late
  BY <1>4, StreamOK
<1> SUFFICES ASSUME Event \/ CallStep, LateNext PROVE StepOK
  BY <1>4 DEF Next, LateNext
<1>1. LateNext
  OBVIOUS
<1>2. ASSUME Event PROVE StepOK
  <2>1. ASSUME NEW u \in Urls, Navigate(u) \/ SubmitPost(u) PROVE StepOK
    BY <1>1, <2>1, NavigateOK, SubmitPostOK
  <2>2. CASE GoBlank \/ Reload \/ OpenTab \/ (\E n \in {-1, 1} : Step(n))
             \/ (\E i \in 1 .. MaxTabs : SwitchTab(i))
    BY <1>1, <2>2, SimpleEventsOK
  <2>3. ASSUME NEW r \in Results \cup Opens, WorkerEvent(r) PROVE StepOK
    BY <1>1, <2>3, WorkerEventOK
  <2>4. ASSUME NEW r \in Results, TickStart(r) PROVE StepOK
    BY <1>1, <2>4, TickStartOK
  <2>5. CASE LoseWorker \/ (\E r \in Results : Rerender(r) \/ Rebind(r))
    BY <1>1, <2>5, CacheEventsOK
  <2>6. CASE TickDone
    BY <1>1, <2>6, TickDoneOK
  <2>7. ASSUME NEW j \in jobs, Deliver(j) PROVE StepOK
    BY <1>1, <2>7, DeliverOK
  <2>8. ASSUME NEW i \in 1 .. MaxTabs, CloseParked(i) PROVE StepOK
    BY <1>1, <2>8, CloseParkedOK
  <2>9. CASE CloseActive
    BY <1>1, <2>9, CloseActiveOK
  <2> QED
    BY <1>2, <2>1, <2>2, <2>3, <2>4, <2>5, <2>6, <2>7, <2>8, <2>9 DEF Event
<1>3. ASSUME CallStep PROVE StepOK
  <2>1. CASE Quiesce
    BY <1>1, <2>1, QuiesceOK
  <2>2. CASE LoadStep
    BY <1>1, <2>2, LoadStepOK
  <2>3. ASSUME NEW r \in Results, RenderStep(r) PROVE StepOK
    BY <1>1, <2>3, RenderStepOK
  <2>4. ASSUME NEW r \in Results, PopStep(r) PROVE StepOK
    BY <1>1, <2>4, PopStepOK
  <2>5. CASE RenderFails \/ LeaveStep
    BY <1>1, <2>5, RenderFailsOK, LeaveStepOK
  <2>6. CASE StepStep \/ PopFails
    BY <1>1, <2>6, StepStepOK, PopFailsOK
  <2>7. CASE SwitchStep \/ TabStep
    BY <1>1, <2>7, SwitchStepOK, TabStepOK
  <2> QED
    BY <1>3, <2>1, <2>2, <2>3, <2>4, <2>5, <2>6, <2>7 DEF CallStep
<1> QED
  BY <1>2, <1>3

LEMMA StutterKeeps ==
    ASSUME Inv, UNCHANGED vars
    PROVE  StepOK
<1>1. UNCHANGED <<tabs, act, gen, loading, jobs, wk, tick, jsnav, stack, late>> /\ stream' = stream
  BY DEF vars
<1>2. StreamInv
  BY DEF Inv, FetchInv
<1>3. CurDoc(Cur.b)' = CurDoc(Cur.b) /\ HasLoad(stack)' = HasLoad(stack)
  BY <1>1 DEF Cur, CurDoc, HasLoad
<1>4. StreamInv'
  BY <1>1, <1>2, <1>3 DEF StreamInv
<1> QED
  BY <1>1, <1>4, OnlyStream

LEMMA StepsOK ==
    ASSUME NavAssumption, Inv, [Next]_vars
    PROVE  Inv' /\ StepOK
<1>1. StepOK
  BY NextKeeps, StutterKeeps
<1> QED
  BY <1>1 DEF StepOK

LEMMA InvHolds ==
    ASSUME NavAssumption
    PROVE  Spec => []Inv
<1>1. Init => Inv
  BY InitHolds
<1>2. Inv /\ [Next]_vars => Inv'
  BY StepsOK
<1> QED
  BY <1>1, <1>2, PTL DEF Spec

(* The types of the window's state: an active tab that exists, histories   *)
(* with a position on an entry, a worker whose index is in its list and    *)
(* whose list HMAX bounds, calls and results of the kinds the code has.    *)
THEOREM NavigationTyped ==
    ASSUME NavAssumption
    PROVE  Spec => []TypeOK
<1>1. Inv => TypeOK
  <2>1. NoTick \in Result
    BY DEF NoTick, Res, Result
  <2> QED
    BY <2>1 DEF Inv, TabsInv, FetchInv, StreamInv, WorkerInv, GoodWorker, TickInv, GoodResult, StackInv, TypeOK
<1> QED
  BY <1>1, InvHolds, PTL

(* Every tab's history is in order (append_entry, browser_navigate): the   *)
(* position is on an entry, each document's entries are contiguous, and no *)
(* entry is of a document still to be opened.                              *)
THEOREM HistoriesOrdered ==
    ASSUME NavAssumption
    PROVE  Spec => []HistoryOrdered
<1>1. Inv => HistoryOrdered
  BY DEF Inv, TabsInv, GoodTab, HistoryOrdered
<1> QED
  BY <1>1, InvHolds, PTL

(* The spinner shows only while a fetch of the current generation is in    *)
(* flight, and the result that deliver_fetch_result would take is the      *)
(* active tab's and its current document's.                                *)
THEOREM FetchIsCurrent ==
    ASSUME NavAssumption
    PROVE  Spec => []FetchesCurrent
<1>1. Inv => FetchesCurrent
  <2> SUFFICES ASSUME Inv PROVE FetchesCurrent
    OBVIOUS
  <2>1. Idle => ~HasLoad(stack)
    BY NothingWaits DEF Idle
  <2> QED
    BY <2>1 DEF Inv, FetchInv, FetchesCurrent, InFlightCurrent
<1> QED
  BY <1>1, InvHolds, PTL

(* Clicks and keys go to the worker of the page on screen (dispatch_click, *)
(* drop_repl_worker).                                                      *)
THEOREM ClicksReachTheirPage ==
    ASSUME NavAssumption
    PROVE  Spec => []ClicksReachPage
<1>1. Inv => ClicksReachPage
  BY DEF Inv, WorkerInv, ClicksReachPage
<1> QED
  BY <1>1, InvHolds, PTL

(* No step puts a page on screen that is not the current entry's or the    *)
(* cached one, but for the cases PaintsCurrent names: the page that a      *)
(* failed load left, the report of a tick applied late, and the superseded *)
(* page that the buffer of the progressive render holds during a load.     *)
THEOREM StaleNeverPainted ==
    ASSUME NavAssumption
    PROVE  Spec => NeverPaintStale
<1>1. Inv /\ [Next]_vars => [PaintsCurrent]_vars
  BY StepsOK DEF StepOK
<1> QED
  BY <1>1, InvHolds, PTL DEF Spec, NeverPaintStale

(* do_load takes the address of the current entry, and the base URL that   *)
(* the fetcher of a background tick reads stays as it is while it runs.    *)
THEOREM LoadsAreStable ==
    ASSUME NavAssumption
    PROVE  Spec => LoadsStable
<1>1. Inv /\ [Next]_vars => [LoadsOwnEntry]_vars /\ [InputsStable]_vars
  BY StepsOK DEF StepOK
<1> QED
  BY <1>1, InvHolds, PTL DEF Spec, LoadsStable, LoadsCurrent, FetcherInputsStable

-----------------------------------------------------------------------------
(* The worker's list and the session history.                              *)

EntryUrls(b, f, g) == [i \in 1 .. g - f + 1 |-> b.hist[f + i - 1].url]

(* The entries f .. g of history b are those of document d, their addresses *)
(* are the list H, and h is an index of it.                                 *)
Matched(b, d, H, h, f, g) ==
    /\ f \in 1 .. Len(b.hist) /\ g \in f .. Len(b.hist) /\ h \in 0 .. g - f
    /\ \A i \in 1 .. Len(b.hist) : b.hist[i].doc = d <=> i \in f .. g
    /\ H = EntryUrls(b, f, g)

(* The index of the worker is the entry the window is at or, when it went on *)
(* to another document's entries, the one it left from.                      *)
At(b, f, g, h) ==
    /\ b.pos < f => h = 0
    /\ b.pos > g => h = g - f
    /\ b.pos \in f .. g => b.pos - f = h

(* The list and the index H, hi are H0, h0 after the operation k. *)
Ran(H, hi, H0, h0, k) ==
    /\ k.k = "push" => H = Append(SubSeq(H0, 1, h0 + 1), k.u) /\ hi = h0 + 1
    /\ k.k = "replace" => H = [H0 EXCEPT ![h0 + 1] = k.u] /\ hi = h0
    /\ ~Moves(k) => H = H0 /\ hi = h0

LEMMA UrlsOfEntries ==
    ASSUME NEW b, GoodHistory(b), NEW f \in 1 .. Len(b.hist), NEW g \in f .. Len(b.hist)
    PROVE  /\ EntryUrls(b, f, g) \in Seq(Urls) /\ Len(EntryUrls(b, f, g)) = g - f + 1
           /\ \A i \in 1 .. g - f + 1 : EntryUrls(b, f, g)[i] = b.hist[f + i - 1].url
<1>1. Len(b.hist) \in Nat /\ \A i \in 1 .. Len(b.hist) : b.hist[i].url \in Urls
  BY HistoryFields
<1>2. g - f + 1 \in Nat /\ \A i \in 1 .. g - f + 1 : f + i - 1 \in 1 .. Len(b.hist)
  BY <1>1
<1> DEFINE m == g - f + 1
           e == [i \in 1 .. m |-> b.hist[f + i - 1].url]
<1>3. m \in Nat /\ \A i \in 1 .. m : b.hist[f + i - 1].url \in Urls
  BY <1>1, <1>2
<1>4. EntryUrls(b, f, g) = e
  BY DEF EntryUrls
<1> HIDE DEF m
<1>5. e \in [1 .. m -> Urls]
  BY <1>3
<1>6. e \in Seq(Urls) /\ Len(e) = m
  BY <1>3, <1>5
<1> QED
  BY <1>4, <1>6 DEF m

LEMMA MatchedCurrent ==
    ASSUME NEW b, GoodHistory(b), NEW d, NEW H, NEW h, NEW f, NEW g, Matched(b, d, H, h, f, g)
    PROVE  /\ b.hist # <<>> /\ b.pos \in 1 .. Len(b.hist) /\ Len(b.hist) \in Nat
           /\ f \in Nat /\ g \in Nat /\ h \in Nat /\ f >= 1 /\ f <= g /\ g <= Len(b.hist)
           /\ H \in Seq(Urls) /\ Len(H) = g - f + 1
           /\ \A i \in 1 .. g - f + 1 : H[i] = b.hist[f + i - 1].url
           /\ CurDoc(b) = d <=> b.pos \in f .. g
<1>1. Len(b.hist) \in Nat /\ (b.hist # <<>> => b.pos \in 1 .. Len(b.hist))
  BY HistoryFields
<1>2. f \in 1 .. Len(b.hist) /\ g \in f .. Len(b.hist) /\ h \in 0 .. g - f
      /\ H = EntryUrls(b, f, g)
  BY DEF Matched
<1>3. b.hist # <<>>
  BY <1>1, <1>2, EmptySeq
<1>4. H \in Seq(Urls) /\ Len(H) = g - f + 1
      /\ \A i \in 1 .. g - f + 1 : H[i] = b.hist[f + i - 1].url
  BY <1>2, UrlsOfEntries
<1>5. CurDoc(b) = d <=> b.pos \in f .. g
  BY <1>1, <1>3 DEF CurDoc, Matched
<1> QED
  BY <1>1, <1>2, <1>3, <1>4, <1>5

(* pushState on the current entry. *)
LEMMA PushMatched ==
    ASSUME NEW b, GoodHistory(b), NEW d, NEW H, NEW h, NEW f, NEW g, Matched(b, d, H, h, f, g),
           b.pos \in f .. g, b.pos - f = h, NEW u \in Urls
    PROVE  /\ Matched(PushState(b, u), d, Append(SubSeq(H, 1, h + 1), u), h + 1, f, b.pos + 1)
           /\ At(PushState(b, u), f, b.pos + 1, h + 1)
<1> DEFINE c == PushState(b, u)
           p == b.pos + 1
           n == h + 1
           G == Append(SubSeq(H, 1, n), u)
<1>1. /\ b.hist # <<>> /\ b.pos \in 1 .. Len(b.hist) /\ Len(b.hist) \in Nat
      /\ f \in Nat /\ g \in Nat /\ h \in Nat /\ f >= 1 /\ f <= g /\ g <= Len(b.hist)
      /\ H \in Seq(Urls) /\ Len(H) = g - f + 1
      /\ \A i \in 1 .. g - f + 1 : H[i] = b.hist[f + i - 1].url
      /\ CurDoc(b) = d
  BY MatchedCurrent
<1>2. \A i \in 1 .. Len(b.hist) : b.hist[i].doc = d <=> i \in f .. g
  BY DEF Matched
<1>3. Appended(c, b, u, d, b.next)
  BY <1>1, PushOrdered
<1>4. /\ GoodHistory(c) /\ c.pos = p /\ Len(c.hist) = p
      /\ c.hist[p] = [url |-> u, doc |-> d]
      /\ \A i \in 1 .. b.pos : c.hist[i] = b.hist[i]
  BY <1>3 DEF Appended
<1> HIDE DEF c
<1>5. c.hist[p].url = u /\ c.hist[p].doc = d
  BY <1>4
<1> DEFINE q == b.pos
           L == Len(b.hist)
<1>0. /\ q \in Int /\ L \in Int /\ f \in Int /\ g \in Int /\ h \in Int
      /\ 1 <= f /\ f <= q /\ q <= g /\ g <= L /\ q - f = h /\ p = q + 1 /\ n = h + 1
      /\ Len(H) = g - f + 1
  BY <1>1
<1> HIDE DEF q, L, p, n
<1>6. n \in 0 .. Len(H) /\ n \in Nat /\ n = q - f + 1 /\ p \in Nat /\ p = f + n
  BY <1>0, SMTT(30)
<1>7. G \in Seq(Urls) /\ Len(G) = n + 1 /\ G[n + 1] = u /\ \A i \in 1 .. n : G[i] = H[i]
  BY <1>1, <1>6, CutAndAppend, SMTT(30)
<1> HIDE DEF G
<1>8. \A i \in 1 .. Len(c.hist) : c.hist[i].doc = d <=> i \in f .. p
  <2> SUFFICES ASSUME NEW i \in 1 .. p PROVE c.hist[i].doc = d <=> i \in f .. p
    BY <1>4
  <2>1. CASE i = p
    BY <1>0, <1>5, <2>1
  <2>2. CASE i # p
    <3>1. i \in 1 .. q /\ i \in 1 .. L /\ (i \in f .. p <=> i \in f .. g)
      BY <1>0, <2>2
    <3>2. c.hist[i] = b.hist[i] /\ (b.hist[i].doc = d <=> i \in f .. g)
      BY <1>2, <1>4, <3>1 DEF q, L
    <3> QED
      BY <3>1, <3>2
  <2> QED
    BY <2>1, <2>2
<1>9. f \in 1 .. Len(c.hist) /\ p \in f .. Len(c.hist) /\ n \in 0 .. p - f
  <2>1. f \in 1 .. p /\ p \in f .. p /\ n \in 0 .. p - f
    BY <1>0
  <2> QED
    BY <1>4, <2>1
<1>10. G = EntryUrls(c, f, p)
  <2>1. /\ EntryUrls(c, f, p) \in Seq(Urls) /\ Len(EntryUrls(c, f, p)) = p - f + 1
        /\ \A i \in 1 .. p - f + 1 : EntryUrls(c, f, p)[i] = c.hist[f + i - 1].url
    BY <1>4, <1>9, UrlsOfEntries
  <2>2. p - f + 1 = n + 1
    BY <1>0
  <2>3. ASSUME NEW i \in 1 .. n + 1 PROVE G[i] = EntryUrls(c, f, p)[i]
    <3>1. CASE i = n + 1
      <4>1. f + i - 1 = p
        BY <1>0, <3>1
      <4> QED
        BY <1>5, <1>7, <2>1, <2>2, <3>1, <4>1
    <3>2. CASE i # n + 1
      <4>1. i \in 1 .. n /\ f + i - 1 \in 1 .. q /\ i \in 1 .. g - f + 1
        BY <1>0, <3>2
      <4>2. c.hist[f + i - 1] = b.hist[f + i - 1]
        BY <1>4, <4>1 DEF q
      <4>3. G[i] = b.hist[f + i - 1].url
        BY <1>1, <1>7, <4>1
      <4> QED
        BY <2>1, <2>2, <4>2, <4>3
    <3> QED
      BY <3>1, <3>2
  <2> QED
    BY <1>7, <2>1, <2>2, <2>3, SeqEqual
<1>11. Matched(c, d, G, n, f, p)
  BY <1>8, <1>9, <1>10 DEF Matched
<1>12. At(c, f, p, n)
  BY <1>0, <1>4 DEF At
<1> QED
  BY <1>11, <1>12 DEF c, p, n, G

(* replaceState on the current entry. *)
LEMMA ReplaceMatched ==
    ASSUME NEW b, GoodHistory(b), NEW d, NEW H, NEW h, NEW f, NEW g, Matched(b, d, H, h, f, g),
           b.pos \in f .. g, b.pos - f = h, NEW u \in Urls
    PROVE  /\ Matched(ReplaceState(b, u), d, [H EXCEPT ![h + 1] = u], h, f, g)
           /\ At(ReplaceState(b, u), f, g, h)
<1> DEFINE c == ReplaceState(b, u)
           n == h + 1
           G == [H EXCEPT ![n] = u]
<1>1. /\ b.hist # <<>> /\ b.pos \in 1 .. Len(b.hist) /\ Len(b.hist) \in Nat
      /\ f \in Nat /\ g \in Nat /\ h \in Nat /\ f >= 1 /\ f <= g /\ g <= Len(b.hist)
      /\ H \in Seq(Urls) /\ Len(H) = g - f + 1
      /\ \A i \in 1 .. g - f + 1 : H[i] = b.hist[f + i - 1].url
  BY MatchedCurrent
<1>2. \A i \in 1 .. Len(b.hist) : b.hist[i].doc = d <=> i \in f .. g
  BY DEF Matched
<1>3. /\ GoodHistory(c) /\ c.pos = b.pos /\ Len(c.hist) = Len(b.hist)
      /\ \A i \in 1 .. Len(b.hist) :
            c.hist[i] = IF i = b.pos THEN [url |-> u, doc |-> b.hist[i].doc] ELSE b.hist[i]
  BY <1>1, ReplaceOrdered
<1> HIDE DEF c
<1>4. \A i \in 1 .. Len(b.hist) :
         /\ c.hist[i].doc = b.hist[i].doc
         /\ i = b.pos => c.hist[i].url = u
         /\ i # b.pos => c.hist[i].url = b.hist[i].url
  <2> SUFFICES ASSUME NEW i \in 1 .. Len(b.hist)
               PROVE  /\ c.hist[i].doc = b.hist[i].doc
                      /\ i = b.pos => c.hist[i].url = u
                      /\ i # b.pos => c.hist[i].url = b.hist[i].url
    OBVIOUS
  <2>1. CASE i = b.pos
    <3>1. c.hist[i] = [url |-> u, doc |-> b.hist[i].doc]
      BY <1>3, <2>1
    <3> QED
      BY <2>1, <3>1
  <2>2. CASE i # b.pos
    BY <1>3, <2>2
  <2> QED
    BY <2>1, <2>2
<1> DEFINE q == b.pos
           L == Len(b.hist)
<1>0. /\ q \in Int /\ L \in Int /\ f \in Int /\ g \in Int /\ h \in Int
      /\ 1 <= f /\ f <= q /\ q <= g /\ g <= L /\ q - f = h /\ n = h + 1
      /\ Len(H) = g - f + 1
  BY <1>1
<1> HIDE DEF q, L, n
<1>5. n \in 1 .. Len(H) /\ n = q - f + 1
  BY <1>0
<1>6. G \in Seq(Urls) /\ Len(G) = Len(H) /\ \A i \in 1 .. Len(H) : G[i] = IF i = n THEN u ELSE H[i]
  BY <1>1, <1>5, ExceptSeq
<1> HIDE DEF G
<1>7. \A i \in 1 .. Len(c.hist) : c.hist[i].doc = d <=> i \in f .. g
  BY <1>2, <1>3, <1>4
<1>8. f \in 1 .. Len(c.hist) /\ g \in f .. Len(c.hist) /\ h \in 0 .. g - f
  BY <1>1, <1>3 DEF Matched
<1>9. G = EntryUrls(c, f, g)
  <2>1. /\ EntryUrls(c, f, g) \in Seq(Urls) /\ Len(EntryUrls(c, f, g)) = g - f + 1
        /\ \A i \in 1 .. g - f + 1 : EntryUrls(c, f, g)[i] = c.hist[f + i - 1].url
    BY <1>3, <1>8, UrlsOfEntries
  <2>2. ASSUME NEW i \in 1 .. g - f + 1 PROVE G[i] = EntryUrls(c, f, g)[i]
    <3> DEFINE k == f + i - 1
    <3>1. k \in 1 .. L /\ i \in 1 .. Len(H)
      BY <1>0
    <3>2. i = n <=> k = q
      BY <1>0
    <3>3. EntryUrls(c, f, g)[i] = c.hist[k].url /\ H[i] = b.hist[k].url
      BY <1>1, <2>1
    <3> HIDE DEF k
    <3> QED
      BY <1>4, <1>6, <3>1, <3>2, <3>3 DEF q, L
  <2> QED
    BY <1>1, <1>6, <2>1, <2>2, SeqEqual
<1>10. Matched(c, d, G, h, f, g)
  BY <1>7, <1>8, <1>9 DEF Matched
<1>11. At(c, f, g, h)
  BY <1>1, <1>3 DEF At
<1> QED
  BY <1>10, <1>11 DEF c, n, G

(* apply_click_result follows what the script did to the worker's list. *)
Follow(b, d, H, h) == \E f, g : Matched(b, d, H, h, f, g) /\ At(b, f, g, h)

LEMMA OpsFollow ==
    ASSUME NEW v, GoodTab(v), NEW d, NEW H0, NEW h0, Follow(v.b, d, H0, h0),
           NEW r, GoodResult(r), Moves(r) => CurDoc(v.b) = d,
           NEW H, NEW h, Ran(H, h, H0, h0, r)
    PROVE  Follow(ApplyOps(v, r).b, d, H, h)
<1>1. PICK f, g : Matched(v.b, d, H0, h0, f, g) /\ At(v.b, f, g, h0)
  BY DEF Follow
<1>2. GoodHistory(v.b) /\ v \in Tab
  BY GoodTabFields DEF GoodTab
<1>3. /\ v.b.hist # <<>>
      /\ Moves(r) => v.b.pos \in f .. g /\ v.b.pos - f = h0
  BY <1>1, <1>2, MatchedCurrent DEF At
<1>4. CASE r.k = "push"
  <2> DEFINE c == PushState(v.b, r.u)
  <2>1. r.u \in Urls /\ Moves(r)
    BY <1>4 DEF GoodResult, Moves
  <2>2. H = Append(SubSeq(H0, 1, h0 + 1), r.u) /\ h = h0 + 1
    BY <1>4 DEF Ran
  <2>3. Matched(c, d, H, h, f, v.b.pos + 1) /\ At(c, f, v.b.pos + 1, h)
    BY <1>1, <1>2, <1>3, <2>1, <2>2, PushMatched
  <2>4. ApplyOps(v, r) = [v EXCEPT !.b = c, !.top = r.u]
    BY <1>3, <1>4 DEF ApplyOps
  <2> HIDE DEF c
  <2>5. ApplyOps(v, r).b = c
    BY <1>2, <2>4 DEF Tab
  <2> QED
    BY <2>3, <2>5 DEF Follow
<1>5. CASE r.k = "replace"
  <2> DEFINE c == ReplaceState(v.b, r.u)
  <2>1. r.u \in Urls /\ Moves(r)
    BY <1>5 DEF GoodResult, Moves
  <2>2. H = [H0 EXCEPT ![h0 + 1] = r.u] /\ h = h0
    BY <1>5 DEF Ran
  <2>3. Matched(c, d, H, h, f, g) /\ At(c, f, g, h)
    BY <1>1, <1>2, <1>3, <2>1, <2>2, ReplaceMatched
  <2>4. ApplyOps(v, r) = [v EXCEPT !.b = c, !.top = r.u]
    BY <1>3, <1>5 DEF ApplyOps
  <2> HIDE DEF c
  <2>5. ApplyOps(v, r).b = c
    BY <1>2, <2>4 DEF Tab
  <2> QED
    BY <2>3, <2>5 DEF Follow
<1>6. CASE ~Moves(r)
  <2>1. H = H0 /\ h = h0 /\ ApplyOps(v, r) = v
    BY <1>6 DEF Ran, Moves, ApplyOps
  <2> QED
    BY <2>1
<1> QED
  BY <1>4, <1>5, <1>6 DEF Moves

(* Back and Forward: one entry at a time, so the window leaves a document's *)
(* entries from the first or the last of them.                              *)
LEMMA StepFollow ==
    ASSUME NEW b, GoodHistory(b), NEW d, NEW H, NEW h, NEW f, NEW g,
           Matched(b, d, H, h, f, g), NEW n \in {-1, 1}
    PROVE  LET c == MovePos(b, n)
           IN  /\ Matched(c, d, H, h, f, g)
               /\ At(b, f, g, h) /\ (c.pos = b.pos \/ CurDoc(c) # CurDoc(b)) => At(c, f, g, h)
<1> DEFINE c == MovePos(b, n)
           q == b.pos
           p == c.pos
           L == Len(b.hist)
<1>1. /\ b.hist # <<>> /\ q \in 1 .. L /\ L \in Nat
      /\ f \in Nat /\ g \in Nat /\ h \in Nat /\ f >= 1 /\ f <= g /\ g <= L
      /\ CurDoc(b) = d <=> q \in f .. g
  BY MatchedCurrent
<1>2. /\ GoodHistory(c) /\ c.hist = b.hist
      /\ p = IF q + n < 1 THEN 1 ELSE IF q + n > L THEN L ELSE q + n
  <2>1. n \in Int /\ b.hist # <<>>
    BY <1>1
  <2> QED
    BY <2>1, MoveOrdered
<1> HIDE DEF c
<1>3. Matched(c, d, H, h, f, g)
  <2>1. EntryUrls(c, f, g) = EntryUrls(b, f, g)
    BY <1>2 DEF EntryUrls
  <2> QED
    BY <1>2, <2>1 DEF Matched
<1>4. CurDoc(c) = d <=> p \in f .. g
  BY <1>2, <1>3, MatchedCurrent
<1>5. q \in Int /\ p \in Int /\ (p = q \/ p = q + 1 \/ p = q - 1)
  BY <1>1, <1>2
<1> HIDE DEF q, p, L
<1>6. ASSUME At(b, f, g, h), p = q \/ CurDoc(c) # CurDoc(b)
      PROVE  At(c, f, g, h)
  <2>1. (q < f => h = 0) /\ (q > g => h = g - f) /\ (q \in f .. g => q - f = h)
    BY <1>6 DEF At, q
  <2>2. (p < f => h = 0) /\ (p > g => h = g - f) /\ (p \in f .. g => p - f = h)
    <3>1. CASE p = q
      BY <2>1, <3>1
    <3>2. CASE p # q /\ q \in f .. g
      <4>1. ~(p \in f .. g)
        BY <1>1, <1>4, <1>6, <3>2
      <4> QED
        BY <1>1, <1>5, <2>1, <3>2, <4>1
    <3>3. CASE p # q /\ ~(q \in f .. g)
      BY <1>1, <1>5, <2>1, <3>3
    <3> QED
      BY <3>1, <3>2, <3>3
  <2> QED
    BY <2>2 DEF At, p
<1> QED
  BY <1>3, <1>6 DEF c, p, q

(* Where the model of the code counts the entries of the current document. *)
LEMMA DocIndexOf ==
    ASSUME NEW b, GoodHistory(b), NEW d, NEW H, NEW h, NEW f, NEW g, Matched(b, d, H, h, f, g),
           CurDoc(b) = d
    PROVE  DocIndex(b) = b.pos - f /\ RunUrls(b) = H /\ b.pos \in f .. g
<1>1. /\ b.pos \in f .. g /\ Len(b.hist) \in Nat
      /\ f \in Nat /\ g \in Nat /\ f >= 1 /\ f <= g /\ g <= Len(b.hist)
      /\ \A i \in 1 .. Len(b.hist) : b.hist[i].doc = d <=> i \in f .. g
      /\ H = EntryUrls(b, f, g)
  <2>1. /\ b.pos \in f .. g /\ Len(b.hist) \in Nat
        /\ f \in Nat /\ g \in Nat /\ f >= 1 /\ f <= g /\ g <= Len(b.hist)
    BY MatchedCurrent
  <2>2. /\ \A i \in 1 .. Len(b.hist) : b.hist[i].doc = d <=> i \in f .. g
        /\ H = EntryUrls(b, f, g)
    BY DEF Matched
  <2> QED
    BY <2>1, <2>2
<1>2. RunOf(b, CurDoc(b)) = f .. g
  <2>1. \A i : i \in RunOf(b, CurDoc(b)) <=> i \in 1 .. Len(b.hist) /\ b.hist[i].doc = d
    BY DEF RunOf
  <2>2. \A i \in f .. g : i \in 1 .. Len(b.hist)
    BY <1>1
  <2>3. \A i : i \in RunOf(b, CurDoc(b)) <=> i \in f .. g
    BY <1>1, <2>1, <2>2
  <2> QED
    BY <2>3
<1>3. DocStart(b) = f
  <2>1. f \in f .. g /\ \A j \in f .. g : f <= j
    BY <1>1
  <2>2. \A i \in f .. g : (\A j \in f .. g : i <= j) => i = f
    BY <1>1, <2>1
  <2> QED
    BY <1>2, <2>1, <2>2 DEF DocStart
<1>4. Cardinality(f .. g) = g - f + 1
  <2>1. Cardinality(f .. g) = IF f > g THEN 0 ELSE g - f + 1
    BY <1>1, FS_Interval
  <2> QED
    BY <1>1, <2>1
<1>5. RunUrls(b) = EntryUrls(b, f, g)
  BY <1>2, <1>3, <1>4 DEF RunUrls, EntryUrls
<1> QED
  BY <1>1, <1>3, <1>5 DEF DocIndex

(* A document loaded at its only entry. *)
LEMMA LoadedFollow ==
    ASSUME NEW b, GoodHistory(b), b.hist # <<>>, NEW u, RunUrls(b) = <<u>>
    PROVE  Follow(b, CurDoc(b), <<u>>, 0)
<1> DEFINE R == RunOf(b, CurDoc(b))
           n == Cardinality(R)
           p == b.pos
           H == <<u>>
<1>1. p \in 1 .. Len(b.hist) /\ Len(b.hist) \in Nat /\ CurDoc(b) = b.hist[p].doc
  BY HistoryFields, CurrentTyped
<1>2. R \subseteq 1 .. Len(b.hist) /\ p \in R
  BY <1>1 DEF RunOf
<1>3. IsFiniteSet(R) /\ n \in Nat
  <2>1. IsFiniteSet(1 .. Len(b.hist))
    BY <1>1, FS_Interval
  <2>2. IsFiniteSet(R)
    <3> HIDE DEF R
    <3> QED
      BY <1>2, <2>1, FS_Subset
  <2> QED
    BY <2>2, FS_CardinalityType
<1>4. n = 1
  <2>1. DOMAIN RunUrls(b) = 1 .. n
    BY DEF RunUrls
  <2>2. DOMAIN <<u>> = 1 .. 1
    OBVIOUS
  <2>3. 1 .. n = 1 .. 1
    BY <2>1, <2>2
  <2> QED
    BY <1>3, <2>3
<1>5. R = {p}
  <2> HIDE DEF R, p
  <2>1. \E x : R = {x}
    BY <1>3, <1>4, FS_Singleton
  <2> QED
    BY <1>2, <2>1
<1>6. DocStart(b) = p
  BY <1>1, <1>5 DEF DocStart
<1>7. b.hist[p].url = u
  <2>1. RunUrls(b)[1] = b.hist[DocStart(b) + 1 - 1].url
    BY <1>4 DEF RunUrls
  <2>2. DocStart(b) + 1 - 1 = p
    BY <1>1, <1>6
  <2> QED
    BY <2>1, <2>2
<1>8. H = EntryUrls(b, p, p)
  <2>1. /\ EntryUrls(b, p, p) \in Seq(Urls) /\ Len(EntryUrls(b, p, p)) = p - p + 1
        /\ \A i \in 1 .. p - p + 1 : EntryUrls(b, p, p)[i] = b.hist[p + i - 1].url
    <3>1. p \in p .. Len(b.hist)
      BY <1>1
    <3> HIDE DEF p
    <3> QED
      BY <1>1, <3>1, UrlsOfEntries
  <2>2. p - p + 1 = 1 /\ p + 1 - 1 = p
    BY <1>1
  <2>3. EntryUrls(b, p, p)[1] = u
    BY <1>7, <2>1, <2>2
  <2>4. u \in Urls
    BY <1>1, <1>7, HistoryFields
  <2>5. H \in Seq(Urls) /\ Len(H) = 1 /\ H[1] = u
    BY <2>4
  <2> HIDE DEF H, p
  <2> QED
    BY <2>1, <2>2, <2>3, <2>5, SeqEqual
<1>9. \A i \in 1 .. Len(b.hist) : b.hist[i].doc = CurDoc(b) <=> i \in p .. p
  <2>1. \A i \in 1 .. Len(b.hist) : b.hist[i].doc = CurDoc(b) <=> i = p
    <3>1. \A i \in 1 .. Len(b.hist) : b.hist[i].doc = CurDoc(b) <=> i \in R
      BY DEF RunOf
    <3> QED
      BY <1>5, <3>1
  <2> QED
    BY <1>1, <2>1
<1> HIDE DEF H
<1>10. Matched(b, CurDoc(b), H, 0, p, p)
  BY <1>1, <1>8, <1>9 DEF Matched
<1>11. At(b, p, p, 0)
  BY <1>1 DEF At
<1> QED
  BY <1>10, <1>11 DEF Follow, H

(* Worker w follows history b, but for the tick's report k that is to be    *)
(* applied and, while a tab_popstate is to be made (p), for the index.      *)
TracksOf(b, w, k, p) ==
    /\ w.up => w.upto <= b.next
    /\ w.up /\ w.exact /\ w.upto = b.next =>
          \E H0, h0, f, g : /\ Matched(b, w.doc, H0, h0, f, g)
                            /\ Ran(w.H, w.hi, H0, h0, k)
                            /\ p \/ At(b, f, g, h0)

TrackInv == TracksOf(Cur.b, wk, tick, Top("pop"))

LEMMA TrackNext ==
    ASSUME \/ TracksOf(Cur'.b, wk', tick', FALSE)
           \/ TracksOf(Cur'.b, wk', tick', TRUE) /\ Top("pop")'
    PROVE  TrackInv'
<1>1. Cur.b' = Cur'.b
  OBVIOUS
<1>2. TrackInv' <=> TracksOf(Cur'.b, wk', tick', Top("pop")')
  BY DEF TrackInv, TracksOf, Matched, EntryUrls, At, Ran, Moves
<1> QED
  BY <1>2 DEF TracksOf

(* The window is at no tab_popstate: the list and the index agree. *)
LEMMA TrackNow ==
    ASSUME TrackInv, ~Top("pop")
    PROVE  /\ TracksOf(Cur.b, wk, tick, FALSE)
           /\ wk.up /\ wk.exact /\ wk.upto = Cur.b.next =>
                 \E H0, h0 : Follow(Cur.b, wk.doc, H0, h0) /\ Ran(wk.H, wk.hi, H0, h0, tick)
<1> QED
  BY DEF TrackInv, TracksOf, Follow

LEMMA TrackSame ==
    ASSUME TrackInv, ~Top("pop"), Cur'.b = Cur.b, wk' = wk, tick' = tick
    PROVE  TrackInv'
<1>1. TracksOf(Cur'.b, wk', tick', FALSE)
  BY TrackNow
<1> QED
  BY <1>1, TrackNext

(* No worker, or one that a step was lost on. *)
LEMMA TrackLost ==
    ASSUME ~wk'.up \/ (~wk'.exact /\ wk'.upto <= Cur'.b.next)
    PROVE  TrackInv'
<1>1. TracksOf(Cur'.b, wk', tick', FALSE)
  BY DEF TracksOf
<1> QED
  BY <1>1, TrackNext

(* A new document was opened after the worker's. *)
LEMMA TrackOpened ==
    ASSUME TabsInv, WorkerInv, TrackInv, Cur'.b.next = Cur.b.next + 1, wk'.up => wk.up,
           wk'.upto = wk.upto
    PROVE  TrackInv'
<1>1. wk.upto \in Nat /\ Cur.b.next \in Nat
  BY CurGood, GoodTabFields, HistoryFields DEF WorkerInv, GoodWorker, Worker
<1>2. wk.up => wk.upto <= Cur.b.next
  BY DEF TrackInv, TracksOf
<1>3. wk'.up => wk'.upto <= Cur'.b.next /\ wk'.upto # Cur'.b.next
  BY <1>1, <1>2
<1>4. TracksOf(Cur'.b, wk', tick', FALSE)
  BY <1>3 DEF TracksOf
<1> QED
  BY <1>4, TrackNext

(* What a script does to its worker is what it reports. *)
LEMMA ScriptRan ==
    ASSUME NEW w, GoodWorker(w), NEW r, GoodResult(r)
    PROVE  Ran(RunScript(w, r).H, RunScript(w, r).hi, w.H, w.hi, Report(w, r))
<1> DEFINE o == Report(w, r)
           v == RunScript(w, r)
<1>1. w \in Worker
  BY DEF GoodWorker
<1>2. CASE o.k = "push"
  <2> DEFINE h == Append(SubSeq(w.H, 1, w.hi + 1), o.u)
             i == w.hi + 1
  <2>1. v = [w EXCEPT !.H = h, !.hi = i]
    BY <1>2 DEF RunScript
  <2> HIDE DEF h, i, v
  <2>2. v.H = h /\ v.hi = i
    BY <1>1, <2>1 DEF Worker
  <2> QED
    BY <1>2, <2>2 DEF Ran, Moves, v, h, i
<1>3. CASE o.k = "replace"
  <2> DEFINE h == [w.H EXCEPT ![w.hi + 1] = o.u]
  <2>1. v = [w EXCEPT !.H = h]
    BY <1>3 DEF RunScript
  <2> HIDE DEF h, v
  <2>2. v.H = h /\ v.hi = w.hi
    BY <1>1, <2>1 DEF Worker
  <2> QED
    BY <1>3, <2>2 DEF Ran, Moves, v, h
<1>4. CASE o.k \notin {"push", "replace"}
  <2>1. v = w
    BY <1>4 DEF RunScript
  <2> QED
    BY <1>4, <2>1 DEF Ran, Moves
<1> QED
  BY <1>2, <1>3, <1>4

(* Whatever applies a result, the session history follows the worker. *)
LEMMA ApplyTracks ==
    ASSUME NavAssumption, Inv, TrackInv, wk.up, NEW r, GoodResult(r), NEW d, NEW calls,
           NEW t, GoodTab(t), t.id = Cur.id, t.b = Cur.b, t.cache = Cur.cache,
           ApplyResult(t, r, d, calls), act' = act, tick' = NoTick,
           SameWorker(wk', wk),
           wk'.exact /\ wk'.upto = Cur.b.next =>
              /\ Moves(r) => wk.doc = CurDoc(Cur.b)
              /\ \E H0, h0 : Follow(Cur.b, wk.doc, H0, h0) /\ Ran(wk'.H, wk'.hi, H0, h0, r)
    PROVE  TrackInv'
<1>1. TabsInv /\ WorkerInv /\ wk'.upto = wk.upto /\ wk'.doc = wk.doc
  BY DEF Inv, SameWorker
<1>2. CASE Jumps(r)
  <2> DEFINE x == [t EXCEPT !.b = NavigateTo(t.b, r.u)]
  <2>1. r.u \in Urls
    BY <1>2 DEF Jumps, GoodResult
  <2>2. GoodTab(x) /\ x.id = t.id /\ x.b.next = t.b.next + 1
    BY <2>1, Navigates
  <2>3. tabs' = [tabs EXCEPT ![act] = x]
    BY <1>2 DEF ApplyResult, SetCur
  <2> HIDE DEF x
  <2>4. Edits(x)
    BY <2>2, <2>3 DEF Edits
  <2>5. Cur' = x
    BY <1>1, <2>4, EditsTabs
  <2> QED
    BY <1>1, <2>2, <2>5, TrackOpened
<1>3. CASE ~Jumps(r)
  <2> DEFINE v == [t EXCEPT !.view = wk.doc]
             x == ApplyOps(v, r)
  <2>1. tabs' = [tabs EXCEPT ![act] = x]
    BY <1>3 DEF ApplyResult, SetCur
  <2>2. Shown(v, t, wk.doc) /\ v.b = t.b
    BY <1>1, ViewsWorker
  <2> HIDE DEF v
  <2>3. Shown(x, v, v.view)
    BY <2>2, OpsShown DEF Shown
  <2>4. ASSUME NEW H0, NEW h0, Follow(Cur.b, wk.doc, H0, h0), Ran(wk'.H, wk'.hi, H0, h0, r),
               Moves(r) => wk.doc = CurDoc(Cur.b)
        PROVE  Follow(x.b, wk.doc, wk'.H, wk'.hi)
    BY <2>2, <2>4, OpsFollow DEF Shown
  <2> HIDE DEF x
  <2>5. Edits(x) /\ x.b.next = Cur.b.next
    BY <2>1, <2>2, <2>3 DEF Edits, Shown
  <2>6. Cur' = x
    BY <1>1, <2>5, EditsTabs
  <2>7. wk'.exact /\ wk'.upto = Cur'.b.next => Follow(Cur'.b, wk'.doc, wk'.H, wk'.hi)
    BY <1>1, <2>4, <2>5, <2>6
  <2>8. Ran(wk'.H, wk'.hi, wk'.H, wk'.hi, tick')
    BY DEF Ran, Moves, NoTick, Res
  <2>9. wk.upto <= Cur.b.next
    BY DEF TrackInv, TracksOf
  <2>10. TracksOf(Cur'.b, wk', tick', FALSE)
    BY <1>1, <2>5, <2>6, <2>7, <2>8, <2>9 DEF TracksOf, Follow
  <2> QED
    BY <2>10, TrackNext
<1> QED
  BY <1>2, <1>3

LEMMA ApplyEventsTrack ==
    ASSUME NavAssumption, Inv, TrackInv,
           TickDone \/ Quiesce \/ \E r \in Results \cup Opens : WorkerEvent(r)
    PROVE  TrackInv'
<1>1. TabsInv /\ WorkerInv /\ TickInv /\ GoodTab(Cur) /\ HMax \in Nat
  BY CurGood DEF Inv, NavAssumption
<1>2. CASE TickDone \/ Quiesce
  <2>1. PICK calls : ApplyResult(Cur, tick, 0, calls)
    BY <1>2 DEF TickDone, Quiesce
  <2>2. /\ tick # NoTick /\ tick' = NoTick /\ act' = act /\ wk' = Applied(wk, tick)
        /\ ~Top("pop")
    BY <1>2 DEF TickDone, Quiesce, Idle, Top, Quiesces
  <2>3. GoodResult(tick) /\ wk.up
    BY <1>1, <2>2 DEF TickInv
  <2>4. /\ Marked(wk', wk)
        /\ wk'.exact => wk.exact /\ (Moves(tick) => wk.doc = CurDoc(Cur.b))
    BY <1>1, <2>2, AppliedGood DEF WorkerInv
  <2>5. SameWorker(wk', wk) /\ wk'.H = wk.H /\ wk'.hi = wk.hi /\ wk'.upto = wk.upto
    BY <2>4 DEF Marked, SameWorker
  <2>6. wk'.exact /\ wk'.upto = Cur.b.next =>
              /\ Moves(tick) => wk.doc = CurDoc(Cur.b)
              /\ \E H0, h0 : Follow(Cur.b, wk.doc, H0, h0) /\ Ran(wk'.H, wk'.hi, H0, h0, tick)
    BY <2>2, <2>3, <2>4, <2>5, TrackNow
  <2> QED
    BY <1>1, <2>1, <2>2, <2>3, <2>5, <2>6, ApplyTracks
<1>3. ASSUME NEW r \in Results \cup Opens, WorkerEvent(r) PROVE TrackInv'
  <2> DEFINE w == Discarded(wk, tick)
             v == RunScript(w, r)
             o == Report(wk, r)
             calls == <<>>
  <2>1. /\ wk.up /\ tick' = NoTick /\ act' = act /\ ApplyResult(Cur, o, 0, calls)
        /\ wk' = Applied(v, r) /\ ~Top("pop")
    BY <1>3 DEF WorkerEvent, Idle, Top
  <2>2. GoodResult(r) /\ GoodResult(o) /\ Moves(o) = Moves(r)
    BY ResultsGood, ReportGood
  <2>3. Marked(w, wk) /\ GoodWorker(w) /\ w.up /\ w.H = wk.H /\ w.hi = wk.hi
        /\ (w.exact => wk.exact /\ ~Moves(tick))
    BY <1>1, <2>1, AppliedGood DEF WorkerInv, Marked, SameWorker
  <2>4. Report(w, r) = o
    BY <2>3 DEF Report
  <2> HIDE DEF w, o, calls
  <2>5. GoodWorker(v) /\ SameWorker(v, w) /\ v.exact = w.exact /\ Ran(v.H, v.hi, wk.H, wk.hi, o)
    <3>1. GoodWorker(v) /\ SameWorker(v, w) /\ v.exact = w.exact
      BY <1>1, <2>2, <2>3, RunScriptGood
    <3>2. Ran(v.H, v.hi, w.H, w.hi, Report(w, r))
      BY <2>2, <2>3, ScriptRan
    <3> QED
      BY <2>3, <2>4, <3>1, <3>2
  <2> HIDE DEF v
  <2>6. /\ Marked(wk', v)
        /\ wk'.exact => v.exact /\ (Moves(r) => v.doc = CurDoc(Cur.b))
    BY <2>1, <2>5, AppliedGood
  <2>7. SameWorker(wk', wk) /\ wk'.H = v.H /\ wk'.hi = v.hi /\ v.doc = wk.doc
        /\ wk'.upto = wk.upto
    BY <2>3, <2>5, <2>6 DEF Marked, SameWorker
  <2>8. wk'.exact /\ wk'.upto = Cur.b.next =>
              /\ Moves(o) => wk.doc = CurDoc(Cur.b)
              /\ \E H0, h0 : Follow(Cur.b, wk.doc, H0, h0) /\ Ran(wk'.H, wk'.hi, H0, h0, o)
    <3> SUFFICES ASSUME wk'.exact, wk'.upto = Cur.b.next
                 PROVE  /\ Moves(o) => wk.doc = CurDoc(Cur.b)
                        /\ \E H0, h0 : Follow(Cur.b, wk.doc, H0, h0)
                                       /\ Ran(wk'.H, wk'.hi, H0, h0, o)
      OBVIOUS
    <3>1. wk.exact /\ ~Moves(tick) /\ (Moves(r) => wk.doc = CurDoc(Cur.b))
      BY <2>3, <2>5, <2>6, <2>7
    <3>2. PICK H0, h0 : Follow(Cur.b, wk.doc, H0, h0) /\ Ran(wk.H, wk.hi, H0, h0, tick)
      BY <2>1, <2>7, <3>1, TrackNow
    <3>3. wk.H = H0 /\ wk.hi = h0
      BY <3>1, <3>2 DEF Ran
    <3> QED
      BY <2>2, <2>5, <2>7, <3>1, <3>2, <3>3
  <2> QED
    BY <1>1, <2>1, <2>2, <2>7, <2>8, ApplyTracks
<1> QED
  BY <1>2, <1>3

LEMMA PopTracks ==
    ASSUME NavAssumption, Inv, TrackInv, NEW r \in Results, PopStep(r)
    PROVE  TrackInv'
<1> DEFINE w0 == Discarded(wk, tick)
           i  == DocIndex(Cur.b)
           w  == HistPop(w0, i)
           v  == RunScript(w, r)
           t  == [Cur EXCEPT !.top = CurUrl(Cur.b)]
           o  == Report(w, r)
           d  == Head(stack).d
           calls == Tail(stack)
           e  == Applied(v, r).exact /\ w.doc = CurDoc(Cur.b)
<1>1. TabsInv /\ StackInv /\ WorkerInv /\ TickInv /\ HMax \in Nat
  BY DEF Inv, NavAssumption
<1>2. /\ stack # <<>> /\ Head(stack).f = "pop" /\ tick' = NoTick /\ act' = act
      /\ ApplyResult(t, o, d, calls) /\ wk' = [Applied(v, r) EXCEPT !.exact = e]
  BY DEF PopStep, Top
<1>3. wk.up
  BY <1>1, <1>2 DEF StackInv
<1>4. e \in BOOLEAN /\ (e => Applied(v, r).exact /\ w.doc = CurDoc(Cur.b))
  OBVIOUS
<1>5. GoodResult(r) /\ GoodResult(o) /\ Moves(o) = Moves(r)
  BY ResultsGood, ReportGood
<1> HIDE DEF d, calls, e
<1>6. GoodTab(Cur) /\ CurUrl(Cur.b) \in Urls \cup {NoUrl} /\ GoodHistory(Cur.b)
  BY <1>1, CurGood, GoodTabFields, CurrentTyped
<1>7. GoodTab(t) /\ t.id = Cur.id /\ t.b = Cur.b /\ t.cache = Cur.cache
  BY <1>6 DEF GoodTab, Tab
<1> HIDE DEF t
<1>8. /\ Marked(w0, wk) /\ w0.up /\ GoodWorker(w0) /\ w0.H = wk.H /\ w0.doc = wk.doc
      /\ w0.exact => wk.exact /\ ~Moves(tick)
  BY <1>1, <1>3, AppliedGood DEF WorkerInv, Marked, SameWorker
<1>9. w0 \in Worker
  BY <1>8 DEF GoodWorker
<1> HIDE DEF w0, i
<1>10. /\ GoodWorker(w) /\ SameWorker(w, w0) /\ w.up /\ w.exact = w0.exact /\ w.H = w0.H
       /\ i \in 0 .. Len(w0.H) - 1 => w.hi = i
  <2>1. GoodWorker(w) /\ SameWorker(w, w0) /\ w.exact = w0.exact /\ w.H = w0.H
    BY <1>8, HistPopGood
  <2>2. i \in 0 .. Len(w0.H) - 1 => w.hi = i
    BY <1>9 DEF HistPop, Worker
  <2> QED
    BY <1>8, <2>1, <2>2 DEF SameWorker
<1> HIDE DEF w
<1>11. GoodWorker(v) /\ SameWorker(v, w) /\ v.exact = w.exact /\ Ran(v.H, v.hi, w.H, w.hi, o)
  BY <1>1, <1>5, <1>10, RunScriptGood, ScriptRan
<1> HIDE DEF v, o
<1> DEFINE a == Applied(v, r)
<1>12. /\ Marked(a, v) /\ GoodWorker(a)
       /\ a.exact => v.exact
  BY <1>11, AppliedGood DEF Marked
<1>13. wk' = [a EXCEPT !.exact = e] /\ (e => a.exact)
  BY <1>2, <1>4
<1> HIDE DEF a
<1>14. Marked(wk', a) /\ wk'.exact = e
  BY <1>4, <1>12, <1>13, MarkGood
<1>15. /\ SameWorker(wk', wk) /\ wk'.H = v.H /\ wk'.hi = v.hi /\ wk'.upto = wk.upto
       /\ w.doc = wk.doc
  BY <1>8, <1>10, <1>11, <1>12, <1>14 DEF Marked, SameWorker
<1>16. wk'.exact /\ wk'.upto = Cur.b.next =>
              /\ Moves(o) => wk.doc = CurDoc(Cur.b)
              /\ \E H0, h0 : Follow(Cur.b, wk.doc, H0, h0) /\ Ran(wk'.H, wk'.hi, H0, h0, o)
  <2> SUFFICES ASSUME wk'.exact, wk'.upto = Cur.b.next
               PROVE  /\ wk.doc = CurDoc(Cur.b)
                      /\ \E H0, h0 : Follow(Cur.b, wk.doc, H0, h0)
                                     /\ Ran(wk'.H, wk'.hi, H0, h0, o)
    OBVIOUS
  <2>1. wk.doc = CurDoc(Cur.b)
    BY <1>4, <1>14, <1>15
  <2>2. wk.exact /\ ~Moves(tick)
    BY <1>4, <1>8, <1>10, <1>11, <1>12, <1>13, <1>14
  <2>3. PICK H0, h0, f, g : /\ Matched(Cur.b, wk.doc, H0, h0, f, g)
                            /\ Ran(wk.H, wk.hi, H0, h0, tick)
    BY <1>3, <1>15, <2>2 DEF TrackInv, TracksOf
  <2>4. wk.H = H0
    BY <2>2, <2>3 DEF Ran
  <2>5. i = Cur.b.pos - f /\ Cur.b.pos \in f .. g
    BY <1>6, <2>1, <2>3, DocIndexOf DEF i
  <2>6. f \in Nat /\ g \in Nat /\ Len(H0) = g - f + 1
    BY <1>6, <2>3, MatchedCurrent
  <2>7. i \in 0 .. g - f /\ i \in 0 .. Len(H0) - 1
    BY <2>5, <2>6
  <2>8. w.hi = i /\ w.H = H0
    BY <1>8, <1>10, <2>4, <2>7
  <2>9. Matched(Cur.b, wk.doc, H0, i, f, g)
    BY <2>3, <2>7 DEF Matched
  <2>10. At(Cur.b, f, g, i)
    BY <2>5, <2>6 DEF At
  <2>11. Follow(Cur.b, wk.doc, H0, i)
    BY <2>9, <2>10 DEF Follow
  <2> QED
    BY <1>11, <1>15, <2>1, <2>8, <2>11
<1> QED
  BY <1>2, <1>3, <1>5, <1>7, <1>15, <1>16, ApplyTracks

LEMMA TickTracks ==
    ASSUME NavAssumption, Inv, TrackInv, NEW r \in Results, TickStart(r)
    PROVE  TrackInv'
<1>1. TabsInv /\ WorkerInv /\ HMax \in Nat
  BY DEF Inv, NavAssumption
<1>2. /\ wk.up /\ tick = NoTick /\ wk' = RunScript(wk, r) /\ tick' = Report(wk, r)
      /\ tabs' = tabs /\ act' = act /\ ~Top("pop")
  BY DEF TickStart, Idle, Top
<1>3. GoodResult(r) /\ GoodWorker(wk)
  BY <1>1, ResultsGood DEF WorkerInv
<1>4. SameWorker(wk', wk) /\ wk'.exact = wk.exact
  BY <1>1, <1>2, <1>3, RunScriptGood
<1>5. Ran(wk'.H, wk'.hi, wk.H, wk.hi, tick')
  BY <1>2, <1>3, ScriptRan
<1>6. wk.exact /\ wk.upto = Cur.b.next =>
         \E f, g : Matched(Cur.b, wk.doc, wk.H, wk.hi, f, g) /\ At(Cur.b, f, g, wk.hi)
  <2> SUFFICES ASSUME wk.exact, wk.upto = Cur.b.next
               PROVE  Follow(Cur.b, wk.doc, wk.H, wk.hi)
    BY DEF Follow
  <2>1. PICK H0, h0 : Follow(Cur.b, wk.doc, H0, h0) /\ Ran(wk.H, wk.hi, H0, h0, tick)
    BY <1>2, TrackNow
  <2>2. ~Moves(tick)
    BY <1>2 DEF Moves, NoTick, Res
  <2>3. wk.H = H0 /\ wk.hi = h0
    BY <2>1, <2>2 DEF Ran
  <2> QED
    BY <2>1, <2>3
<1>7. Cur' = Cur
  BY <1>2 DEF Cur
<1>8. wk.upto <= Cur.b.next
  BY <1>2 DEF TrackInv, TracksOf
<1>9. TracksOf(Cur'.b, wk', tick', FALSE)
  BY <1>4, <1>5, <1>6, <1>7, <1>8 DEF TracksOf, SameWorker
<1> QED
  BY <1>9, TrackNext

LEMMA StepTracks ==
    ASSUME NavAssumption, Inv, TrackInv, StepStep
    PROVE  TrackInv'
<1> DEFINE n == Head(stack).n
           c == MovePos(Cur.b, n)
           x == [Cur EXCEPT !.b = c]
           s == Tail(stack)
           d == Head(stack).d
<1>1. TabsInv /\ GoodTab(Cur) /\ Cur \in Tab /\ GoodHistory(Cur.b)
  BY CurGood, GoodTabFields DEF Inv
<1>2. /\ stack # <<>> /\ Head(stack).f = "step" /\ tabs' = [tabs EXCEPT ![act] = x]
      /\ act' = act /\ wk' = wk /\ tick' = tick
      /\ stack' = AfterMove(Cur.b, c, d) \o s /\ ~Top("pop")
  BY DEF StepStep, Top, SetCur, Done
<1>3. n \in {-1, 1} /\ n \in Int /\ d \in Nat /\ s \in Seq(Calls)
  BY <1>2, CallContext DEF GoodCall, Calls
<1> HIDE DEF n, d, s
<1>4. GoodHistory(c) /\ c.next = Cur.b.next
  BY <1>1, <1>3, MoveOrdered
<1>5. \/ c.pos = Cur.b.pos \/ ~wk.up \/ CurDoc(c) # CurDoc(Cur.b)
      \/ stack' = <<PopCall(d)>> \o s
  BY <1>2 DEF AfterMove
<1> HIDE DEF c
<1>6. Cur' = x /\ x.b = c
  <2>1. x \in Tab /\ x.b = c /\ x.id = Cur.id /\ x.ld = Cur.ld /\ x.view = Cur.view
        /\ x.cache = Cur.cache
    BY <1>1, <1>4 DEF Tab, GoodHistory
  <2> HIDE DEF x
  <2>2. Edits(x)
    BY <1>1, <1>2, <1>4, <2>1 DEF Edits, GoodTab, GoodHistory
  <2> QED
    BY <1>1, <2>1, <2>2, EditsTabs
<1> HIDE DEF x
<1>7. wk.up => wk.upto <= Cur.b.next
  BY DEF TrackInv, TracksOf
<1>8. ASSUME wk.up, wk.exact, wk.upto = Cur.b.next
      PROVE  \E H0, h0, f, g :
                /\ Matched(c, wk.doc, H0, h0, f, g) /\ Ran(wk.H, wk.hi, H0, h0, tick)
                /\ c.pos = Cur.b.pos \/ CurDoc(c) # CurDoc(Cur.b) => At(c, f, g, h0)
  <2>1. PICK H0, h0, f, g : /\ Matched(Cur.b, wk.doc, H0, h0, f, g) /\ At(Cur.b, f, g, h0)
                            /\ Ran(wk.H, wk.hi, H0, h0, tick)
    BY <1>2, <1>8 DEF TrackInv, TracksOf
  <2>2. /\ Matched(c, wk.doc, H0, h0, f, g)
        /\ c.pos = Cur.b.pos \/ CurDoc(c) # CurDoc(Cur.b) => At(c, f, g, h0)
    BY <1>1, <1>3, <2>1, StepFollow DEF c
  <2> QED
    BY <2>1, <2>2
<1>9. CASE c.pos = Cur.b.pos \/ ~wk.up \/ CurDoc(c) # CurDoc(Cur.b)
  <2>1. TracksOf(Cur'.b, wk', tick', FALSE)
    BY <1>2, <1>4, <1>6, <1>7, <1>8, <1>9 DEF TracksOf
  <2> QED
    BY <2>1, TrackNext
<1>10. CASE stack' = <<PopCall(d)>> \o s
  <2>1. TracksOf(Cur'.b, wk', tick', TRUE)
    BY <1>2, <1>4, <1>6, <1>7, <1>8 DEF TracksOf
  <2> DEFINE k == PopCall(d)
  <2>2. k \in Calls /\ k.f = "pop" /\ stack' = <<k>> \o s
    BY <1>3, <1>10 DEF PopCall, Call, Calls
  <2> HIDE DEF k
  <2>3. Pushed(k, s)
    BY <1>3, <2>2, PushCall
  <2>4. Top("pop")'
    BY <2>2, <2>3 DEF Pushed, Top
  <2> QED
    BY <2>1, <2>4, TrackNext
<1> QED
  BY <1>5, <1>9, <1>10

(* A document loaded from t, whose history is the active tab's. *)
LEMMA LoadTracks ==
    ASSUME NavAssumption, NEW t, GoodHistory(t.b), t.id \in Nat,
           NEW u \in Urls \cup {NoUrl}, NEW e \in Int, Loaded(t, u, e).exact
    PROVE  e = CurDoc(t.b) /\ Follow(t.b, e, Loaded(t, u, e).H, Loaded(t, u, e).hi)
<1>1. HMax \in Nat \ {0}
  BY DEF NavAssumption
<1>2. /\ Loaded(t, u, e).H = <<u>> /\ Loaded(t, u, e).hi = 0
      /\ t.b.hist # <<>> /\ e = CurDoc(t.b) /\ RunUrls(t.b) = <<u>>
  BY <1>1, LoadedGood
<1>3. Follow(t.b, CurDoc(t.b), <<u>>, 0)
  BY <1>2, LoadedFollow
<1> QED
  BY <1>2, <1>3

(* A page run again from the cache, or from the buffer: its history is the *)
(* active tab's.                                                           *)
LEMMA RunTracks ==
    ASSUME NavAssumption, NEW r \in Results, NEW t, GoodTab(t), t.b = Cur'.b,
           wk' = FromCache(t, r), tick' = NoTick
    PROVE  TrackInv'
<1> DEFINE w == Loaded(t, t.top, t.cache)
           v == RunScript(w, r)
<1>1. /\ GoodHistory(t.b) /\ t.id \in Nat
      /\ t.top \in Urls \cup {NoUrl} /\ t.cache \in Int
      /\ HMax \in Nat \ {0} /\ HMax \in Nat
  BY GoodTabFields DEF NavAssumption
<1>2. wk' = Discarded(v, r)
  BY DEF FromCache
<1>4. GoodResult(r)
  BY ResultsGood
<1>5. GoodWorker(w) /\ w.up /\ w.doc = t.cache /\ w.upto = t.b.next
  BY <1>1, LoadedGood, ZenonT(40)
<1>6. w.exact => Follow(t.b, w.doc, w.H, w.hi)
  BY <1>1, <1>5, LoadTracks
<1> HIDE DEF w
<1>7. GoodWorker(v) /\ SameWorker(v, w) /\ v.exact = w.exact
      /\ Ran(v.H, v.hi, w.H, w.hi, Report(w, r)) /\ Moves(Report(w, r)) = Moves(r)
  BY <1>1, <1>4, <1>5, RunScriptGood, ScriptRan, ReportGood
<1> HIDE DEF v
<1>8. Marked(wk', v) /\ (wk'.exact => v.exact /\ ~Moves(r))
  BY <1>2, <1>7, AppliedGood
<1>9. /\ wk'.up /\ wk'.upto = t.b.next /\ wk'.doc = w.doc /\ wk'.H = v.H /\ wk'.hi = v.hi
  BY <1>5, <1>7, <1>8 DEF Marked, SameWorker
<1>10. wk'.exact => Follow(t.b, wk'.doc, wk'.H, wk'.hi)
  BY <1>6, <1>7, <1>8, <1>9 DEF Ran
<1>11. Ran(wk'.H, wk'.hi, wk'.H, wk'.hi, tick')
  BY <1>2 DEF Ran, Moves, NoTick, Res
<1>12. t.b.next \in Nat
  BY <1>1, HistoryFields
<1>13. TracksOf(t.b, wk', tick', FALSE)
  BY <1>9, <1>10, <1>11, <1>12 DEF TracksOf, Follow
<1> QED
  BY <1>13, TrackNext

LEMMA CacheTracks ==
    ASSUME NavAssumption, Inv, NEW r \in Results, Rerender(r) \/ Rebind(r)
    PROVE  TrackInv'
<1>1. TabsInv /\ TickInv /\ GoodTab(Cur)
  BY CurGood DEF Inv
<1>2. wk' = FromCache(Cur, r) /\ tick' = NoTick /\ act' = act
      /\ (tabs' = tabs \/ tabs' = [tabs EXCEPT ![act] = [Cur EXCEPT !.view = Cur.cache]])
  BY <1>1 DEF Rerender, Rebind, SetCur, TickInv
<1>3. Cur.b = Cur'.b
  <2> DEFINE x == [Cur EXCEPT !.view = Cur.cache]
  <2>1. GoodTab(x) /\ x.b = Cur.b /\ x.id = Cur.id
    BY <1>1 DEF GoodTab, Tab
  <2> HIDE DEF x
  <2>2. tabs' = [tabs EXCEPT ![act] = x] => Cur' = x
    BY <1>1, <1>2, <2>1, EditsTabs DEF Edits
  <2>3. tabs' = tabs => Cur' = Cur
    BY <1>2 DEF Cur
  <2> QED
    BY <1>2, <2>1, <2>2, <2>3 DEF x
<1> QED
  BY <1>1, <1>2, <1>3, RunTracks

LEMMA StreamTracks ==
    ASSUME NavAssumption, Inv, TrackInv, StreamStep
    PROVE  TrackInv'
<1>1. TabsInv /\ GoodTab(Cur) /\ StreamInv
  BY CurGood DEF Inv, FetchInv
<1>2. CASE UNCHANGED <<tabs, act, wk, tick, stack>>
  <2>1. Cur' = Cur /\ Top("pop")' = Top("pop")
    BY <1>2 DEF Cur, Top
  <2>2. TracksOf(Cur'.b, wk', tick', Top("pop")')
    BY <1>2, <2>1 DEF TrackInv
  <2> QED
    BY <2>2, TrackNext DEF TracksOf
<1>3. ASSUME NEW r \in Results, StreamPaint(r) PROVE TrackInv'
  <2> DEFINE x == [Cur EXCEPT !.cache = stream.doc, !.view = stream.doc]
  <2>1. wk' = FromCache(x, r) /\ tick' = NoTick /\ act' = act /\ tabs' = [tabs EXCEPT ![act] = x]
    BY <1>3 DEF StreamPaint, SetCur
  <2>2. stream.doc \in Int
    BY <1>1 DEF StreamInv
  <2>3. GoodTab(x) /\ x.id = Cur.id /\ x.b = Cur.b
    BY <1>1, <2>2 DEF GoodTab, Tab
  <2> HIDE DEF x
  <2>4. Cur' = x
    BY <1>1, <2>1, <2>3, EditsTabs DEF Edits
  <2>5. x.b = Cur'.b
    BY <2>3, <2>4
  <2> QED
    BY <2>1, <2>3, <2>5, RunTracks
<1> QED
  BY <1>2, <1>3 DEF StreamStep, StreamChunk, StreamSkip

LEMMA RenderTracks ==
    ASSUME NavAssumption, Inv, NEW r \in Results, RenderStep(r)
    PROVE  TrackInv'
<1> DEFINE u == Head(stack).u
           n == Head(stack).n
           t == [Cur EXCEPT !.top = u, !.cache = n]
           w == Loaded(t, u, t.cache)
<1>1. /\ TabsInv /\ GoodTab(Cur) /\ Cur \in Tab /\ GoodHistory(Cur.b) /\ Cur.id \in Nat
      /\ HMax \in Nat \ {0} /\ HMax \in Nat
  BY CurGood, GoodTabFields DEF Inv, NavAssumption
<1>2. /\ stack # <<>> /\ Head(stack).f = "render" /\ tick = NoTick /\ act' = act /\ tick' = tick
  BY DEF RenderStep, Runs, Top, Quiesces
<1>3. \/ wk' = NoWorker
      \/ /\ wk' = RunScript(w, r)
         /\ SetCur(ApplyOps([t EXCEPT !.view = t.cache], Report(w, r)))
  BY DEF RenderStep
<1>4. u \in Urls /\ n \in Int /\ u \in Urls \cup {NoUrl}
  BY <1>2, CallContext DEF GoodCall
<1>5. GoodResult(r)
  BY ResultsGood
<1> HIDE DEF u, n
<1>6. t.b = Cur.b /\ t.cache = n /\ t.id = Cur.id
  BY <1>1, <1>4 DEF Tab
<1>7. CASE wk' = NoWorker
  BY <1>7, NoWorkerGood, TrackLost
<1>8. CASE /\ wk' = RunScript(w, r)
           /\ SetCur(ApplyOps([t EXCEPT !.view = t.cache], Report(w, r)))
  <2> DEFINE v == [Cur EXCEPT !.top = u, !.cache = n, !.view = n]
             o == Report(w, r)
             x == ApplyOps(v, o)
  <2>1. GoodTab(v) /\ v.id = Cur.id /\ v.b = Cur.b
    <3>1. n \in {n, NoDoc}
      OBVIOUS
    <3>2. Holds(v, Cur, u, n, n)
      BY <1>1, <1>4, <3>1, Cached
    <3> QED
      BY <3>2 DEF Holds
  <2>2. tabs' = [tabs EXCEPT ![act] = x]
    <3>1. v = [t EXCEPT !.view = t.cache]
      BY <1>1, <1>6 DEF Tab
    <3> QED
      BY <1>8, <3>1 DEF SetCur
  <2>3. /\ GoodWorker(w) /\ w.up /\ w.doc = n /\ w.upto = Cur.b.next
        /\ w.exact => n = CurDoc(Cur.b) /\ Follow(Cur.b, n, w.H, w.hi)
    <3> HIDE DEF t
    <3>1. GoodHistory(t.b) /\ t.id \in Nat /\ t.cache \in Int
      BY <1>1, <1>4, <1>6
    <3>2. GoodWorker(w) /\ w.up /\ w.doc = n /\ w.upto = Cur.b.next
      BY <1>1, <1>4, <1>6, <3>1, LoadedGood
    <3>3. w.exact => n = CurDoc(Cur.b) /\ Follow(Cur.b, n, w.H, w.hi)
      BY <1>4, <1>6, <3>1, LoadTracks
    <3> QED
      BY <3>2, <3>3
  <2> HIDE DEF v, w
  <2>4. GoodResult(o)
    BY <1>5, ReportGood
  <2>5. GoodWorker(wk') /\ SameWorker(wk', w) /\ wk'.exact = w.exact /\ Ran(wk'.H, wk'.hi, w.H, w.hi, o)
    BY <1>1, <1>5, <1>8, <2>3, RunScriptGood, ScriptRan
  <2> HIDE DEF o
  <2>6. Shown(x, v, v.view)
    BY <2>1, <2>4, OpsShown
  <2>7. w.exact => Follow(x.b, n, wk'.H, wk'.hi)
    BY <2>1, <2>3, <2>4, <2>5, OpsFollow
  <2> HIDE DEF x
  <2>8. Edits(x) /\ x.b.next = Cur.b.next
    BY <1>2, <2>1, <2>2, <2>6 DEF Edits, Shown
  <2>9. Cur' = x
    BY <1>1, <2>8, EditsTabs
  <2>10. Ran(wk'.H, wk'.hi, wk'.H, wk'.hi, tick')
    BY <1>2 DEF Ran, Moves, NoTick, Res
  <2>11. wk'.upto = Cur'.b.next /\ wk'.doc = n /\ Cur.b.next \in Nat
    BY <1>1, <2>3, <2>5, <2>8, <2>9, HistoryFields DEF SameWorker
  <2>12. TracksOf(Cur'.b, wk', tick', FALSE)
    BY <2>5, <2>7, <2>8, <2>9, <2>10, <2>11 DEF TracksOf, Follow
  <2> QED
    BY <2>12, TrackNext
<1> QED
  BY <1>3, <1>7, <1>8

(* Steps that leave the worker, the tick and the active tab's history.     *)
LEMMA QuietTracks ==
    ASSUME NavAssumption, Inv, TrackInv,
           \/ GoBlank \/ Reload \/ OpenTab \/ LoadStep \/ LeaveStep
           \/ \E n \in {-1, 1} : Step(n)
           \/ \E i \in 1 .. MaxTabs : SwitchTab(i) \/ CloseParked(i)
           \/ \E u \in Urls : SubmitPost(u)
           \/ \E j \in jobs : Deliver(j) /\ ~(\E u \in Urls : DeliverRedirect(j, u))
           \/ TabStep /\ Len(tabs) >= MaxTabs
    PROVE  TrackInv'
<1>1. TabsInv /\ GoodTab(Cur)
  BY CurGood DEF Inv
<1>2. ~Top("pop") /\ wk' = wk /\ tick' = tick
  BY DEF GoBlank, Reload, OpenTab, LoadStep, LeaveStep, Step, SwitchTab, CloseParked, SubmitPost,
         Deliver, TabStep, Idle, Runs, Top
<1>3. \/ tabs' = tabs /\ act' = act
      \/ \E x \in {Blank(Cur), ClearDoc(Cur), Uncache(Cur)} :
            tabs' = [tabs EXCEPT ![act] = x] /\ act' = act
      \/ \E i : CloseParked(i)
  BY DEF GoBlank, Reload, OpenTab, LoadStep, LeaveStep, Step, SwitchTab, SubmitPost,
         Deliver, DropResult, DeliverPage, DeliverFailure, DeliverDownload, TabStep, SetCur
<1>4. CASE tabs' = tabs /\ act' = act
  <2>1. Cur' = Cur
    BY <1>4 DEF Cur
  <2> QED
    BY <1>2, <2>1, TrackSame
<1>5. ASSUME NEW x \in {Blank(Cur), ClearDoc(Cur), Uncache(Cur)},
             tabs' = [tabs EXCEPT ![act] = x], act' = act
      PROVE  TrackInv'
  <2>1. GoodTab(x) /\ x.id = Cur.id /\ x.b = Cur.b
    BY <1>1, <1>5, BlankGood, ClearGood
  <2>3. Edits(x)
    BY <1>5, <2>1 DEF Edits
  <2>4. Cur' = x
    BY <1>1, <2>3, EditsTabs
  <2> QED
    BY <1>2, <2>1, <2>4, TrackSame
<1>6. ASSUME NEW i, CloseParked(i) PROVE TrackInv'
  <2>1. Cur' = Cur
    BY <1>1, <1>6, ParkedClosed
  <2> QED
    BY <1>2, <2>1, TrackSame
<1> QED
  BY <1>3, <1>4, <1>5, <1>6

(* Steps that open a document in the active tab. *)
LEMMA OpenTracks ==
    ASSUME NavAssumption, Inv, TrackInv, NEW u \in Urls,
           Navigate(u) \/ \E j \in jobs : Deliver(j) /\ DeliverRedirect(j, u)
    PROVE  TrackInv'
<1> DEFINE x == [Cur EXCEPT !.b = NavigateTo(Cur.b, u)]
<1>1. TabsInv /\ WorkerInv /\ GoodTab(Cur) /\ Cur \in Tab /\ GoodHistory(Cur.b)
  BY CurGood, GoodTabFields DEF Inv
<1>2. wk' = wk /\ act' = act /\ tabs' = [tabs EXCEPT ![act] = x]
  BY DEF Navigate, Deliver, DeliverRedirect, SetCur
<1>3. GoodTab(x) /\ x.id = Cur.id
  BY <1>1, Navigates
<1>4. x.b.next = Cur.b.next + 1
  <2>1. x.b = NavigateTo(Cur.b, u)
    BY <1>1 DEF Tab
  <2> QED
    BY <1>1, <2>1, NavigateOrdered
<1> HIDE DEF x
<1>5. Edits(x)
  BY <1>2, <1>3 DEF Edits
<1>6. Cur' = x
  BY <1>1, <1>5, EditsTabs
<1> QED
  BY <1>1, <1>2, <1>4, <1>6, TrackOpened

(* Steps that lose the worker, or a step of it. *)
LEMMA LostTracks ==
    ASSUME NavAssumption, Inv, TrackInv,
           \/ LoseWorker \/ RenderFails \/ SwitchStep \/ CloseActive \/ PopFails
           \/ TabStep /\ ~(Len(tabs) >= MaxTabs)
    PROVE  TrackInv'
<1>1. wk' = NoWorker \/ PopFails
  BY DEF LoseWorker, RenderFails, SwitchStep, CloseActive, TabStep, DropWorker
<1>2. CASE wk' = NoWorker
  BY <1>2, NoWorkerGood, TrackLost
<1>3. CASE PopFails
  <2>1. TabsInv /\ WorkerInv
    BY DEF Inv
  <2>2. wk' = [wk EXCEPT !.exact = FALSE] /\ tabs' = tabs /\ act' = act
    BY <1>3 DEF PopFails
  <2>3. wk'.up = wk.up /\ wk'.upto = wk.upto /\ ~wk'.exact
    BY <2>1, <2>2 DEF WorkerInv, GoodWorker, Worker
  <2>4. Cur' = Cur
    BY <2>2 DEF Cur
  <2>5. wk.up => wk.upto <= Cur.b.next
    BY DEF TrackInv, TracksOf
  <2> QED
    BY <2>3, <2>4, <2>5, TrackLost
<1> QED
  BY <1>1, <1>2, <1>3

LEMMA TrackSteps ==
    ASSUME NavAssumption, Inv, TrackInv, Next
    PROVE  TrackInv'
<1>1. ASSUME Event PROVE TrackInv'
  <2>1. ASSUME NEW u \in Urls, Navigate(u) \/ SubmitPost(u) PROVE TrackInv'
    BY <2>1, OpenTracks, QuietTracks
  <2>2. CASE GoBlank \/ Reload \/ OpenTab \/ (\E n \in {-1, 1} : Step(n))
             \/ (\E i \in 1 .. MaxTabs : SwitchTab(i) \/ CloseParked(i))
    BY <2>2, QuietTracks
  <2>3. CASE TickDone \/ \E r \in Results \cup Opens : WorkerEvent(r)
    BY <2>3, ApplyEventsTrack
  <2>4. ASSUME NEW r \in Results, TickStart(r) \/ Rerender(r) \/ Rebind(r) PROVE TrackInv'
    BY <2>4, TickTracks, CacheTracks
  <2>5. CASE LoseWorker \/ CloseActive
    BY <2>5, LostTracks
  <2>6. ASSUME NEW j \in jobs, Deliver(j) PROVE TrackInv'
    BY <2>6, OpenTracks, QuietTracks
  <2> QED
    BY <1>1, <2>1, <2>2, <2>3, <2>4, <2>5, <2>6 DEF Event
<1>2. ASSUME CallStep PROVE TrackInv'
  <2>1. CASE Quiesce
    BY <2>1, ApplyEventsTrack
  <2>2. CASE LoadStep \/ LeaveStep
    BY <2>2, QuietTracks
  <2>3. ASSUME NEW r \in Results, RenderStep(r) \/ PopStep(r) PROVE TrackInv'
    BY <2>3, RenderTracks, PopTracks
  <2>4. CASE StepStep
    BY <2>4, StepTracks
  <2>5. CASE RenderFails \/ PopFails \/ SwitchStep
    BY <2>5, LostTracks
  <2>6. CASE TabStep
    BY <2>6, LostTracks, QuietTracks
  <2> QED
    BY <1>2, <2>1, <2>2, <2>3, <2>4, <2>5, <2>6 DEF CallStep
<1>3. CASE StreamStep
  BY <1>3, StreamTracks
<1> QED
  BY <1>1, <1>2, <1>3 DEF Next

(* The list and the index of the worker, where nothing is still to come. *)
LEMMA TrackMirrors ==
    ASSUME Inv, TrackInv
    PROVE  Mirror
<1> SUFFICES ASSUME Idle, tick = NoTick, wk.up, wk.exact, wk.upto = Cur.b.next,
                    wk.doc = CurDoc(Cur.b)
             PROVE  RunUrls(Cur.b) = wk.H /\ DocIndex(Cur.b) = wk.hi
  BY DEF Mirror
<1>1. GoodHistory(Cur.b)
  BY CurGood, GoodTabFields DEF Inv
<1>2. ~Top("pop")
  BY DEF Idle, Top
<1>3. PICK H0, h0, f, g : /\ Matched(Cur.b, wk.doc, H0, h0, f, g) /\ At(Cur.b, f, g, h0)
                          /\ Ran(wk.H, wk.hi, H0, h0, tick)
  BY <1>2, TrackNow DEF Follow
<1>4. wk.H = H0 /\ wk.hi = h0
  BY <1>3 DEF Ran, Moves, NoTick, Res
<1>5. DocIndex(Cur.b) = Cur.b.pos - f /\ RunUrls(Cur.b) = H0 /\ Cur.b.pos \in f .. g
  BY <1>1, <1>3, DocIndexOf
<1>6. Cur.b.pos - f = h0
  BY <1>3, <1>5 DEF At
<1> QED
  BY <1>4, <1>5, <1>6

(* Each document's entries are contiguous in the session history, and the  *)
(* list and index that the history shim of the live page keeps are those   *)
(* of the session history (pushState, replaceState, __histPop and          *)
(* browser_doc_index), wherever no report of its scripts was discarded, no *)
(* step was lost on it and no document was opened after it.                *)
THEOREM HistoriesAlwaysAgree ==
    ASSUME NavAssumption
    PROVE  Spec => []HistoriesAgree
<1>1. Init => TrackInv
  BY NoWorkerGood DEF Init, TrackInv, TracksOf
<1>2. Inv /\ TrackInv /\ [Next]_vars => TrackInv'
  <2>1. ASSUME Inv, TrackInv, UNCHANGED vars PROVE TrackInv'
    <3>1. UNCHANGED <<tabs, act, wk, tick, stack>>
      BY <2>1 DEF vars
    <3>2. Cur' = Cur /\ Top("pop")' = Top("pop")
      BY <3>1 DEF Cur, Top
    <3>3. TracksOf(Cur'.b, wk', tick', Top("pop")')
      BY <2>1, <3>1, <3>2 DEF TrackInv
    <3> QED
      BY <3>3, TrackNext DEF TracksOf
  <2> QED
    BY <2>1, TrackSteps
<1>3. Inv /\ TrackInv => HistoriesAgree
  <2>1. Inv => HistoryOrdered
    BY DEF Inv, TabsInv, GoodTab, HistoryOrdered
  <2> QED
    BY <2>1, TrackMirrors DEF HistoriesAgree
<1> QED
  BY <1>1, <1>2, <1>3, InvHolds, PTL DEF Spec
=============================================================================
