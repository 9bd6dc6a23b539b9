--------------------------- MODULE WindowsProofs ---------------------------
(***************************************************************************)
(* Proofs about the window list, for every screen, every set of windows    *)
(* and all mouse input.  get_next_z_order, insert_sorted, remove_from_list *)
(* and wm_focus_window keep each other's promises: the first part says     *)
(* what each does to a list in ascending order, the second part is the     *)
(* inductive invariant WmInv.                                              *)
(***************************************************************************)
EXTENDS Windows, TLAPS, SequenceTheorems, WellFoundedInduction

\* The list is strictly ascending in z_order.
Ascending(l, zo) == \A i, j \in 1 .. Len(l) : i < j => zo[l[i]] < zo[l[j]]

\* A list of windows and the z_order of every window.
Lists == Seq(Windows)
Orders == [Windows -> Nat]

\* The next z_order is above those of the list: its last window has the highest.
LEMMA NextAbove ==
    ASSUME NEW l \in Lists, NEW zo \in Orders, Ascending(l, zo)
    PROVE  /\ get_next_z_order(l, zo) \in Nat
           /\ \A i \in 1 .. Len(l) : zo[l[i]] < get_next_z_order(l, zo)
           /\ \A k \in Nat : (\A i \in 1 .. Len(l) : zo[l[i]] <= k) => get_next_z_order(l, zo) <= k + 1
<1> DEFINE zs == {0} \cup {zo[v] : v \in Range(l)}
           top == IF l = << >> THEN 0 ELSE zo[l[Len(l)]]
<1>1. Len(l) \in Nat /\ DOMAIN l = 1 .. Len(l) /\ \A i \in 1 .. Len(l) : l[i] \in Windows
  BY DEF Lists
<1>2. Range(l) = {l[i] : i \in 1 .. Len(l)}
  BY <1>1 DEF Range
<1>3. \A i \in 1 .. Len(l) : zo[l[i]] \in Nat /\ zo[l[i]] \in zs
  BY <1>1, <1>2 DEF Orders
<1>4. zs \subseteq Nat
  BY <1>1, <1>2 DEF Orders
<1>5. top \in zs /\ \A v \in zs : v <= top
  <2>1. CASE l = << >>
    <3>1. Range(l) = {}
      BY <1>2, <2>1
    <3>2. QED
      BY <2>1, <3>1
  <2>2. CASE l # << >>
    <3>1. Len(l) \in 1 .. Len(l)
      BY <1>1, <2>2 DEF Lists
    <3>2. top = zo[l[Len(l)]] /\ top \in Nat
      BY <1>3, <2>2, <3>1
    <3>3. \A i \in 1 .. Len(l) : zo[l[i]] <= zo[l[Len(l)]]
      <4> TAKE i \in 1 .. Len(l)
      <4>1. CASE i = Len(l)
        BY <1>3, <4>1
      <4>2. CASE i # Len(l)
        <5>1. i < Len(l)
          <6>1. Len(l) \in Nat
            BY <1>1
          <6>2. QED
            BY <4>2, <6>1
        <5>2. zo[l[i]] < zo[l[Len(l)]]
          BY <3>1, <5>1 DEF Ascending
        <5>3. QED
          BY <1>3, <3>1, <5>2
      <4>3. QED
        BY <4>1, <4>2
    <3>4. \A v \in zs : v <= top
      <4> TAKE v \in zs
      <4>1. CASE v = 0
        BY <3>2, <4>1
      <4>2. CASE v # 0
        <5>1. PICK i \in 1 .. Len(l) : v = zo[l[i]]
          BY <1>2, <4>2
        <5>2. QED
          BY <3>2, <3>3, <5>1
      <4>3. QED
        BY <4>1, <4>2
    <3>5. QED
      BY <1>3, <3>1, <3>2, <3>4
  <2>3. QED
    BY <2>1, <2>2
<1> DEFINE m == CHOOSE m \in zs : \A v \in zs : v <= m
<1>6. m \in zs /\ \A v \in zs : v <= m
  <2> HIDE DEF zs, top
  <2>1. \E x \in zs : \A v \in zs : v <= x
    BY <1>5
  <2>2. QED
    BY <2>1
<1>7. MaxZOf(l, zo) = m
  BY DEF MaxZOf
<1>8. \A k \in Nat : (\A i \in 1 .. Len(l) : zo[l[i]] <= k) => \A v \in zs : v <= k
  BY <1>2
<1> HIDE DEF m, zs
<1>9. QED
  BY <1>3, <1>4, <1>6, <1>7, <1>8 DEF get_next_z_order

\* A window above all others goes to the end of the list.
LEMMA InsertOnTop ==
    ASSUME NEW l \in Lists, NEW zo \in Orders, NEW w \in Windows,
           \A i \in 1 .. Len(l) : zo[l[i]] < zo[w]
    PROVE  insert_sorted(l, zo, w) = Append(l, w)
<1>1. Len(l) \in Nat /\ zo[w] \in Nat /\ \A i \in 1 .. Len(l) : l[i] \in Windows /\ zo[l[i]] \in Nat
  BY DEF Lists, Orders
<1>2. CASE l = << >>
  <2>1. <<w>> \o l = Append(l, w)
    BY <1>2
  <2>2. QED
    BY <1>2, <2>1 DEF insert_sorted
<1>3. CASE l # << >>
  <2> DEFINE k == Len(l) + 1
             ends == {i \in 2 .. Len(l) + 1 : i = Len(l) + 1 \/ zo[l[i]] > zo[w]}
  <2>1. Len(l) >= 1
    BY <1>1, <1>3 DEF Lists
  <2>2. ~(zo[w] < zo[l[1]])
    BY <1>1, <2>1
  <2>3. ends = {k}
    BY <1>1, <2>1
  <2>4. (CHOOSE i \in ends : \A j \in ends : i <= j) = k
    <3> HIDE DEF ends
    <3>1. k \in Nat /\ k <= k
      BY <1>1
    <3> HIDE DEF k
    <3>2. \E i \in ends : \A j \in ends : i <= j
      BY <2>3, <3>1
    <3>3. QED
      BY <2>3, <3>2
  <2>5. insert_sorted(l, zo, w) = InsertAt(l, k, w)
    BY <1>3, <2>2, <2>4 DEF insert_sorted
  <2>6. InsertAt(l, k, w) = Append(l, w)
    <3>1. InsertAt(l, k, w) = SubSeq(l, 1, k - 1) \o <<w>> \o SubSeq(l, k, Len(l))
      BY DEF InsertAt
    <3>2. k - 1 = Len(l) /\ SubSeq(l, 1, Len(l)) = l
      BY <1>1, SubSeqFull DEF Lists
    <3>3. SubSeq(l, k, Len(l)) = << >>
      BY <1>1, SubSeqEmpty
    <3>4. l \o <<w>> = Append(l, w) /\ Append(l, w) \in Seq(Windows)
      BY AppendIsConcat, AppendProperties DEF Lists
    <3>5. Append(l, w) \o << >> = Append(l, w)
      BY <3>4, ConcatEmptySeq
    <3>6. QED
      BY <3>1, <3>2, <3>3, <3>4, <3>5
  <2>7. QED
    BY <2>5, <2>6
<1>4. QED
  BY <1>2, <1>3

\* Removing a window that is in the list once closes the gap it leaves.
LEMMA RemoveCloses ==
    ASSUME NEW l \in Lists, NEW k \in 1 .. Len(l),
           \A i \in 1 .. Len(l) : l[i] = l[k] => i = k
    PROVE  /\ remove_from_list(l, l[k]) \in Lists
           /\ Len(remove_from_list(l, l[k])) = Len(l) - 1
           /\ \A i \in 1 .. Len(l) - 1 :
                 remove_from_list(l, l[k])[i] = IF i < k THEN l[i] ELSE l[i + 1]
<1> DEFINE w == l[k]
           I == {i \in 1 .. Len(l) : l[i] = w}
           f == SubSeq(l, 1, k - 1)
           g == SubSeq(l, k + 1, Len(l))
<1>1. Len(l) \in Nat /\ \A i \in 1 .. Len(l) : l[i] \in Windows
  BY DEF Lists
<1>2. I = {k}
  OBVIOUS
<1>3. Min(I) = k
  <2> HIDE DEF I
  <2>1. k \in Nat /\ k <= k
    BY <1>1
  <2>2. \E x \in I : \A y \in I : x =< y
    BY <1>2, <2>1
  <2>3. QED
    BY <1>2, <2>2 DEF Min
<1>4. SelectInSeq(l, LAMBDA v : v = w) = k
  BY <1>2, <1>3 DEF SelectInSeq
<1>5. remove_from_list(l, w) = f \o g
  BY <1>4 DEF remove_from_list, RemoveFirst, RemoveAt
<1>6. /\ f \in Seq(Windows) /\ Len(f) = k - 1 /\ \A i \in 1 .. k - 1 : f[i] = l[i]
  <2>1. \A i \in 1 .. k - 1 : l[i] \in Windows
    BY <1>1
  <2>2. f \in Seq(Windows) /\ Len(f) = (IF 1 <= k - 1 THEN k - 1 - 1 + 1 ELSE 0)
        /\ \A i \in 1 .. k - 1 - 1 + 1 : f[i] = l[1 + i - 1]
    BY <1>1, <2>1, SubSeqProperties
  <2> HIDE DEF f
  <2>3. QED
    BY <1>1, <2>2
<1>7. /\ g \in Seq(Windows) /\ Len(g) = Len(l) - k /\ \A i \in 1 .. Len(l) - k : g[i] = l[k + i]
  <2>1. \A i \in k + 1 .. Len(l) : l[i] \in Windows
    BY <1>1
  <2>2. g \in Seq(Windows) /\ Len(g) = (IF k + 1 <= Len(l) THEN Len(l) - (k + 1) + 1 ELSE 0)
        /\ \A i \in 1 .. Len(l) - (k + 1) + 1 : g[i] = l[k + 1 + i - 1]
    BY <1>1, <2>1, SubSeqProperties
  <2> HIDE DEF g
  <2>3. QED
    BY <1>1, <2>2
<1> HIDE DEF f, g, w, I
<1>8. /\ f \o g \in Seq(Windows) /\ Len(f \o g) = Len(f) + Len(g)
      /\ \A i \in 1 .. Len(f) + Len(g) : (f \o g)[i] = IF i <= Len(f) THEN f[i] ELSE g[i - Len(f)]
  BY <1>6, <1>7, ConcatProperties
<1>9. ASSUME NEW i \in 1 .. Len(l) - 1
      PROVE  (f \o g)[i] = IF i < k THEN l[i] ELSE l[i + 1]
  <2>1. i \in Nat /\ k \in Nat /\ i \in 1 .. Len(f) + Len(g)
    BY <1>1, <1>6, <1>7
  <2>2. CASE i < k
    BY <1>6, <1>8, <2>1, <2>2
  <2>3. CASE ~(i < k)
    <3>1. ~(i <= Len(f)) /\ i - Len(f) \in 1 .. Len(l) - k /\ k + (i - Len(f)) = i + 1
      BY <1>1, <1>6, <1>7, <2>1, <2>3
    <3>2. (f \o g)[i] = g[i - Len(f)]
      BY <1>8, <2>1, <3>1
    <3>3. g[i - Len(f)] = l[k + (i - Len(f))]
      BY <1>7, <3>1
    <3>4. QED
      BY <2>3, <3>1, <3>2, <3>3
  <2>4. QED
    BY <2>2, <2>3
<1>10. Len(f \o g) = Len(l) - 1
  BY <1>1, <1>6, <1>7, <1>8
<1>11. QED
  BY <1>5, <1>8, <1>9, <1>10 DEF w, Lists

-----------------------------------------------------------------------------

\* The list and the focus.
StackInv ==
    /\ windows \in Lists /\ z \in [Windows -> 0 .. MaxZ] /\ Ascending(windows, z)
    /\ count = Len(windows) /\ count <= WM_MAX_WINDOWS
    /\ focused \in Windows \cup {NULL}
    /\ focused # NULL => windows # << >> /\ windows[Len(windows)] = focused
    /\ flagged = {focused} \ {NULL}

\* While the kernel boots only the windows of Boot before phase.next are in the list;
\* at a click there is a z_order left for wm_focus_window.
PlaceInv ==
    /\ phase \in [at : {"boot", "idle", "update", "click"}, next : Nat]
    /\ Booting => /\ phase.next \in 1 .. Len(Boot) + 1
                  /\ \A v \in Windows : z[v] <= 2 * (phase.next - 1)
                  /\ \A i \in 1 .. Len(windows) : \E j \in 1 .. phase.next - 1 : windows[i] = Boot[j]
    /\ At("click") => get_next_z_order(windows, z) <= MaxZ

\* The cursor is on the screen and the counters within their bounds.
ScreenInv ==
    /\ needs_composite \in BOOLEAN /\ base \in Nat /\ n \in 0 .. MaxBatch
    /\ cursor[1] \in 0 .. FB_WIDTH - CURSOR_WIDTH
    /\ cursor[2] \in 0 .. FB_HEIGHT - CURSOR_HEIGHT

\* wm_buttons_last is the button of the last event, except in wm_handle_click, where
\* the button has just gone down.
ButtonInv ==
    /\ last \in BOOLEAN /\ before \in BOOLEAN /\ ev \in BOOLEAN
    /\ ~At("click") => last = ev
    /\ At("click") => ev /\ ~before

\* The inductive invariant.
WmInv == StackInv /\ PlaceInv /\ ScreenInv /\ ButtonInv

\* wm_focus_window moves the window to the end of the list, above the others.
LEMMA FocusTops ==
    ASSUME NEW l \in Lists, NEW zo \in Orders, Ascending(l, zo), NEW k \in 1 .. Len(l),
           focused # l[k], FocusVars(l[k], l, zo)
    PROVE  /\ z' = [zo EXCEPT ![l[k]] = get_next_z_order(l, zo)]
           /\ windows' \in Lists /\ Ascending(windows', z') /\ Len(windows') = Len(l)
           /\ windows' # << >> /\ windows'[Len(windows')] = l[k]
           /\ focused' = l[k] /\ flagged' = (flagged \ {focused}) \cup {l[k]}
           /\ \A i \in 1 .. Len(windows') : \E j \in 1 .. Len(l) : windows'[i] = l[j]
           /\ \A j \in 1 .. Len(l) : \E i \in 1 .. Len(windows') : windows'[i] = l[j]
<1> DEFINE w == l[k]
           nz == get_next_z_order(l, zo)
           zo1 == [zo EXCEPT ![w] = nz]
           r == remove_from_list(l, w)
<1>1. /\ flagged' = (flagged \ {focused}) \cup {w} /\ focused' = w /\ z' = zo1
      /\ windows' = insert_sorted(r, zo1, w)
  BY DEF FocusVars
<1>2. Len(l) \in Nat /\ \A i \in 1 .. Len(l) : l[i] \in Windows /\ zo[l[i]] \in Nat
  BY DEF Lists, Orders
<1>3. \A i \in 1 .. Len(l) : l[i] = l[k] => i = k
  <2> SUFFICES ASSUME NEW i \in 1 .. Len(l), l[i] = l[k], i # k PROVE FALSE
    OBVIOUS
  <2>1. i < k \/ k < i
    BY <1>2
  <2>2. zo[l[i]] < zo[l[k]] \/ zo[l[k]] < zo[l[i]]
    BY <2>1 DEF Ascending
  <2>3. QED
    BY <1>2, <2>2
<1>4. /\ r \in Lists /\ Len(r) = Len(l) - 1
      /\ \A i \in 1 .. Len(l) - 1 : r[i] = IF i < k THEN l[i] ELSE l[i + 1]
  BY <1>3, RemoveCloses
<1>5. /\ nz \in Nat /\ \A i \in 1 .. Len(l) : zo[l[i]] < nz
  BY NextAbove
<1>6. zo1 \in Orders /\ zo1[w] = nz /\ \A v \in Windows : v # w => zo1[v] = zo[v]
  BY <1>2, <1>5 DEF Orders
<1> HIDE DEF nz, zo1, r
\* The place in l of the window at i of r.
<1> DEFINE f(i) == IF i < k THEN i ELSE i + 1
<1>7. ASSUME NEW i \in 1 .. Len(r)
      PROVE  f(i) \in 1 .. Len(l) /\ f(i) # k /\ r[i] = l[f(i)]
  BY <1>2, <1>4
<1>8. \A i, j \in 1 .. Len(r) : i < j => f(i) < f(j)
  BY <1>2, <1>4
<1> HIDE DEF f
<1>9. ASSUME NEW i \in 1 .. Len(r)
      PROVE  r[i] # w /\ r[i] \in Windows /\ zo1[r[i]] = zo[r[i]] /\ zo1[r[i]] < nz
  BY <1>2, <1>3, <1>5, <1>6, <1>7
<1>10. windows' = Append(r, w)
  <2>1. \A i \in 1 .. Len(r) : zo1[r[i]] < zo1[w]
    BY <1>6, <1>9
  <2>2. QED
    BY <1>1, <1>2, <1>4, <1>6, <2>1, InsertOnTop
<1>11. /\ Append(r, w) \in Lists /\ Len(Append(r, w)) = Len(r) + 1 /\ Append(r, w) # << >>
       /\ Append(r, w)[Len(r) + 1] = w
       /\ \A i \in 1 .. Len(r) : Append(r, w)[i] = r[i]
  <2>1. r \in Seq(Windows) /\ w \in Windows
    BY <1>2, <1>4 DEF Lists
  <2>2. QED
    BY <2>1, AppendProperties DEF Lists
<1>12. Len(r) \in Nat /\ Len(windows') = Len(r) + 1 /\ Len(r) + 1 = Len(l)
  BY <1>2, <1>4, <1>10, <1>11
<1>13. Ascending(windows', z')
  <2> SUFFICES ASSUME NEW i \in 1 .. Len(r) + 1, NEW j \in 1 .. Len(r) + 1, i < j
               PROVE  zo1[windows'[i]] < zo1[windows'[j]]
    BY <1>1, <1>12 DEF Ascending
  <2>1. i \in 1 .. Len(r) /\ windows'[i] = r[i]
    BY <1>10, <1>11, <1>12
  <2>2. CASE j = Len(r) + 1
    BY <1>6, <1>9, <1>10, <1>11, <2>1, <2>2
  <2>3. CASE j # Len(r) + 1
    <3>1. j \in 1 .. Len(r)
      BY <1>12, <2>3
    <3>2. windows'[j] = r[j]
      BY <1>10, <1>11, <3>1
    <3>3. zo[r[i]] < zo[r[j]]
      BY <1>7, <1>8, <2>1, <3>1 DEF Ascending
    <3>4. QED
      BY <1>9, <2>1, <3>1, <3>2, <3>3
  <2>4. QED
    BY <2>2, <2>3
<1>14. \A i \in 1 .. Len(windows') : \E j \in 1 .. Len(l) : windows'[i] = l[j]
  <2> TAKE i \in 1 .. Len(windows')
  <2>1. CASE i = Len(r) + 1
    BY <1>10, <1>11, <2>1
  <2>2. CASE i # Len(r) + 1
    <3>1. i \in 1 .. Len(r)
      BY <1>12, <2>2
    <3>2. QED
      BY <1>7, <1>10, <1>11, <3>1
  <2>3. QED
    BY <2>1, <2>2
<1>15. \A j \in 1 .. Len(l) : \E i \in 1 .. Len(windows') : windows'[i] = l[j]
  <2> TAKE j \in 1 .. Len(l)
  <2>1. CASE j = k
    <3>1. Len(r) + 1 \in 1 .. Len(windows') /\ windows'[Len(r) + 1] = l[j]
      BY <1>10, <1>11, <1>12, <2>1
    <3>2. QED
      BY <3>1
  <2>2. CASE j # k
    <3> DEFINE i == IF j < k THEN j ELSE j - 1
    <3>1. i \in 1 .. Len(r) /\ r[i] = l[j]
      BY <1>2, <1>4, <1>12, <2>2
    <3>2. i \in 1 .. Len(windows') /\ windows'[i] = l[j]
      BY <1>10, <1>11, <1>12, <3>1
    <3> HIDE DEF i
    <3>3. QED
      BY <3>2
  <2>3. QED
    BY <2>1, <2>2
<1>16. QED
  BY <1>1, <1>10, <1>11, <1>12, <1>13, <1>14, <1>15 DEF zo1, nz

\* A set of indices of a list has a last one.
LEMMA LastIndex ==
    ASSUME NEW k \in Nat, NEW I, I \subseteq 1 .. k, I # {}
    PROVE  \E i \in I : \A j \in I : j <= i
<1> DEFINE S == {j \in Nat : k - j \in I}
<1>1. PICK i \in I : TRUE
  OBVIOUS
<1>2. S \in SUBSET Nat /\ k - i \in S
  OBVIOUS
<1>3. PICK j \in S : \A h \in S : ~(<<h, j>> \in OpToRel(<, Nat))
  BY <1>2, NatLessThanWellFounded, WFMin
<1>4. \A h \in S : j <= h
  <2> SUFFICES ASSUME NEW h \in S PROVE ~(h < j)
    BY <1>2
  <2>1. <<h, j>> \in Nat \X Nat
    BY <1>2
  <2>2. QED
    BY <1>3, <2>1 DEF OpToRel
<1>5. ASSUME NEW y \in I PROVE y <= k - j
  <2>1. k - y \in S
    OBVIOUS
  <2>2. j <= k - y
    BY <1>4, <2>1
  <2>3. QED
    BY <2>2
<1>6. QED
  BY <1>5

\* wm_get_window_at finds the window that is drawn last at p.
LEMMA TopAt ==
    ASSUME NEW l \in Lists, NEW p
    PROVE  \/ /\ wm_get_window_at(l, p) = NULL
              /\ \A i \in 1 .. Len(l) : ~window_contains(l[i], p)
           \/ \E k \in 1 .. Len(l) :
                 /\ wm_get_window_at(l, p) = l[k] /\ l[k] \in Windows /\ l[k] # NULL
                 /\ window_contains(l[k], p)
                 /\ \A j \in k + 1 .. Len(l) : ~window_contains(l[j], p)
<1> DEFINE I == {i \in 1 .. Len(l) : window_contains(l[i], p)}
           k == SelectLastInSeq(l, LAMBDA w : window_contains(w, p))
<1>1. wm_get_window_at(l, p) = IF k = 0 THEN NULL ELSE l[k]
  BY DEF wm_get_window_at
<1>2. k = IF I # {} THEN Max(I) ELSE 0
  BY DEF SelectLastInSeq
<1>3. Len(l) \in Nat /\ \A i \in 1 .. Len(l) : l[i] \in Windows /\ l[i] # NULL
  BY WindowsAssumption DEF Lists
<1> HIDE DEF k
<1>4. CASE I = {}
  BY <1>1, <1>2, <1>4
<1>5. CASE I # {}
  <2> HIDE DEF I
  <2>1. I \subseteq 1 .. Len(l)
    BY DEF I
  <2>2. \E i \in I : \A j \in I : i >= j
    <3>1. PICK i \in I : \A j \in I : j <= i
      BY <1>3, <1>5, <2>1, LastIndex
    <3>2. \A j \in I : i >= j
      BY <1>3, <2>1, <3>1
    <3>3. QED
      BY <3>2
  <2>3. Max(I) \in I /\ \A j \in I : Max(I) >= j
    BY <2>2 DEF Max
  <2>4. k \in I /\ \A j \in I : k >= j
    BY <1>2, <1>5, <2>3
  <2>5. k \in 1 .. Len(l) /\ k # 0 /\ window_contains(l[k], p)
    BY <2>1, <2>4 DEF I
  <2>6. \A j \in k + 1 .. Len(l) : ~window_contains(l[j], p)
    <3> SUFFICES ASSUME NEW j \in k + 1 .. Len(l), window_contains(l[j], p) PROVE FALSE
      OBVIOUS
    <3>1. j \in I
      BY <2>5 DEF I
    <3>2. QED
      BY <1>3, <2>4, <2>5, <3>1
  <2>7. QED
    BY <1>1, <1>3, <2>5, <2>6
<1>6. QED
  BY <1>4, <1>5

\* The window a click reaches is in the list.
LEMMA TargetIn ==
    ASSUME windows \in Lists, Target # NULL
    PROVE  \E k \in 1 .. Len(windows) : windows[k] = Target
BY TopAt DEF Target


\* The cursor cannot leave the screen.
LEMMA Clamped ==
    ASSUME NEW p, p[1] \in Int, p[2] \in Int
    PROVE  /\ clamp_position(p)[1] \in 0 .. FB_WIDTH - CURSOR_WIDTH
           /\ clamp_position(p)[2] \in 0 .. FB_HEIGHT - CURSOR_HEIGHT
BY WindowsAssumption DEF clamp_position

\* wm_init and cursor_init.
LEMMA InitWm ==
    ASSUME Init
    PROVE  WmInv
<1>1. Len(Boot) \in Nat /\ \A w \in Windows : z[w] = 0
  BY WindowsAssumption DEF Init
<1>2. StackInv
  <2>1. << >> \in Lists /\ Len(<< >>) = 0
    BY DEF Lists
  <2>2. Ascending(<< >>, z)
    BY <2>1 DEF Ascending
  <2>3. QED
    BY <2>1, <2>2, WindowsAssumption DEF Init, StackInv
<1>3. PlaceInv
  BY <1>1 DEF Init, PlaceInv, Booting, At
<1>4. ScreenInv
  <2>1. Centre[1] \in 0 .. FB_WIDTH - CURSOR_WIDTH /\ Centre[2] \in 0 .. FB_HEIGHT - CURSOR_HEIGHT
    <3>1. FB_WIDTH \div 2 \in Int /\ FB_HEIGHT \div 2 \in Int
      BY WindowsAssumption
    <3>2. QED
      BY <3>1, Clamped DEF Centre
  <2>2. QED
    BY <2>1, WindowsAssumption DEF Init, ScreenInv
<1>5. ButtonInv
  BY DEF Init, ButtonInv, At
<1>6. QED
  BY <1>2, <1>3, <1>4, <1>5 DEF WmInv

\* Drawing moves nothing but the pixels.
LEMMA CompositeKeeps ==
    ASSUME ScreenInv, NEW l, NEW flags, Composite(l, flags), n' \in 0 .. MaxBatch
    PROVE  ScreenInv'
<1>1. needs_composite' = FALSE /\ cursor' = cursor /\ base' \in {base, base + 1}
  BY DEF Composite
<1>2. base' \in Nat
  <2>1. base \in Nat
    BY DEF ScreenInv
  <2>2. QED
    BY <1>1, <2>1
<1>3. n' \in 0 .. MaxBatch
  OBVIOUS
<1>4. QED
  BY <1>1, <1>2, <1>3 DEF ScreenInv

\* wm_create_window.
LEMMA CreateKeeps ==
    ASSUME WmInv, CreateWindow
    PROVE  /\ WmInv'
           /\ \A i \in 1 .. Len(windows) : \E j \in 1 .. Len(windows') : windows'[j] = windows[i]
<1> DEFINE k == phase.next
           w == Boot[k]
           nz == get_next_z_order(windows, z)
           zo == [z EXCEPT ![w] = nz]
           l == insert_sorted(windows, zo, w)
<1>0. StackInv /\ PlaceInv /\ ScreenInv /\ ButtonInv
  BY DEF WmInv
<1>1. /\ Booting /\ k <= Len(Boot) /\ count < WM_MAX_WINDOWS
      /\ FocusVars(w, l, zo) /\ count' = count + 1 /\ needs_composite' = TRUE
      /\ phase' = [phase EXCEPT !.next = k + 1]
      /\ UNCHANGED <<drawVars, n, clicked, last, before, ev>>
  BY DEF CreateWindow
<1>2. /\ Len(Boot) \in Nat /\ k \in 1 .. Len(Boot) /\ w \in Windows /\ MaxZ \in Nat
      /\ MaxZ >= 2 * Len(Boot)
      /\ \A i, j \in 1 .. Len(Boot) : Boot[i] = Boot[j] => i = j
  <2>1. /\ Len(Boot) \in Nat /\ \A i \in 1 .. Len(Boot) : Boot[i] \in Windows
        /\ MaxZ \in Nat /\ MaxZ >= 2 * Len(Boot)
        /\ \A i, j \in 1 .. Len(Boot) : Boot[i] = Boot[j] => i = j
    BY WindowsAssumption
  <2>2. k \in 1 .. Len(Boot)
    BY <1>0, <1>1, <2>1 DEF PlaceInv
  <2>3. QED
    BY <2>1, <2>2
<1>3. /\ \A v \in Windows : z[v] \in Nat /\ z[v] <= 2 * (k - 1)
      /\ \A i \in 1 .. Len(windows) : \E j \in 1 .. k - 1 : windows[i] = Boot[j]
      /\ z \in Orders /\ windows \in Lists /\ Len(windows) \in Nat
      /\ \A i \in 1 .. Len(windows) : windows[i] \in Windows
  <2>1. /\ \A v \in Windows : z[v] <= 2 * (k - 1)
        /\ \A i \in 1 .. Len(windows) : \E j \in 1 .. k - 1 : windows[i] = Boot[j]
    BY <1>0, <1>1 DEF PlaceInv
  <2>2. windows \in Lists /\ Len(windows) \in Nat /\ \A i \in 1 .. Len(windows) : windows[i] \in Windows
    BY <1>0 DEF StackInv, Lists
  <2>3. z \in Orders /\ \A v \in Windows : z[v] \in Nat
    BY <1>0, <1>2 DEF StackInv, Orders
  <2>4. QED
    BY <2>1, <2>2, <2>3
<1>4. \A i \in 1 .. Len(windows) : windows[i] # w
  BY <1>2, <1>3
<1>5. /\ nz \in Nat /\ \A i \in 1 .. Len(windows) : z[windows[i]] < nz
      /\ nz <= 2 * (k - 1) + 1
  <2>1. 2 * (k - 1) \in Nat /\ Ascending(windows, z)
    BY <1>0, <1>2 DEF StackInv
  <2>2. QED
    BY <1>3, <2>1, NextAbove
<1>6. zo \in Orders /\ zo[w] = nz /\ \A v \in Windows : v # w => zo[v] = z[v]
  BY <1>2, <1>3, <1>5 DEF Orders
<1> HIDE DEF nz, zo
<1>7. l = Append(windows, w)
  <2>1. \A i \in 1 .. Len(windows) : zo[windows[i]] < zo[w]
    BY <1>3, <1>4, <1>5, <1>6
  <2>2. QED
    BY <1>2, <1>3, <1>6, <2>1, InsertOnTop
<1> HIDE DEF l
<1>8. /\ l \in Lists /\ Len(l) = Len(windows) + 1 /\ l[Len(windows) + 1] = w
      /\ \A i \in 1 .. Len(windows) : l[i] = windows[i]
  <2>1. windows \in Seq(Windows) /\ w \in Windows
    BY <1>2, <1>3 DEF Lists
  <2>2. QED
    BY <1>7, <2>1, AppendProperties DEF Lists
<1>9. Ascending(l, zo)
  <2> SUFFICES ASSUME NEW i \in 1 .. Len(windows) + 1, NEW j \in 1 .. Len(windows) + 1, i < j
               PROVE  zo[l[i]] < zo[l[j]]
    BY <1>8 DEF Ascending
  <2>1. i \in 1 .. Len(windows) /\ zo[l[i]] = z[windows[i]]
    BY <1>3, <1>4, <1>6, <1>8
  <2>2. CASE j = Len(windows) + 1
    BY <1>5, <1>6, <1>8, <2>1, <2>2
  <2>3. CASE j # Len(windows) + 1
    <3>1. j \in 1 .. Len(windows)
      <4>1. Len(windows) \in Nat
        BY <1>3
      <4>2. QED
        BY <2>3, <4>1
    <3>2. zo[l[j]] = z[windows[j]]
      BY <1>3, <1>4, <1>6, <1>8, <3>1
    <3>3. QED
      BY <1>0, <2>1, <3>1, <3>2 DEF StackInv, Ascending
  <2>4. QED
    BY <2>2, <2>3
<1>10. focused # w
  <2>1. CASE focused = NULL
    BY <1>2, <2>1, WindowsAssumption
  <2>2. CASE focused # NULL
    <3>1. windows # << >> /\ windows[Len(windows)] = focused
      BY <1>0, <2>2 DEF StackInv
    <3>2. Len(windows) \in 1 .. Len(windows)
      BY <1>3, <3>1 DEF Lists
    <3>3. QED
      BY <1>4, <3>1, <3>2
  <2>3. QED
    BY <2>1, <2>2
<1> DEFINE m == Len(windows) + 1
<1>11. /\ z' = [zo EXCEPT ![w] = get_next_z_order(l, zo)]
       /\ windows' \in Lists /\ Ascending(windows', z') /\ Len(windows') = Len(l)
       /\ windows' # << >> /\ windows'[Len(windows')] = w
       /\ focused' = w /\ flagged' = (flagged \ {focused}) \cup {w}
       /\ \A i \in 1 .. Len(windows') : \E j \in 1 .. Len(l) : windows'[i] = l[j]
       /\ \A j \in 1 .. Len(l) : \E i \in 1 .. Len(windows') : windows'[i] = l[j]
  <2>1. m \in 1 .. Len(l) /\ l[m] = w /\ focused # l[m] /\ FocusVars(l[m], l, zo)
    BY <1>1, <1>3, <1>8, <1>10
  <2> HIDE DEF m, w
  <2>2. z' = [zo EXCEPT ![l[m]] = get_next_z_order(l, zo)]
    BY <2>1 DEF FocusVars
  <2>3. /\ windows' \in Lists /\ Ascending(windows', z') /\ Len(windows') = Len(l)
        /\ windows' # << >> /\ windows'[Len(windows')] = l[m]
    BY <1>6, <1>8, <1>9, <2>1, FocusTops
  <2>4. /\ focused' = l[m] /\ flagged' = (flagged \ {focused}) \cup {l[m]}
    BY <1>6, <1>8, <1>9, <2>1, FocusTops
  <2>5. /\ \A i \in 1 .. Len(windows') : \E j \in 1 .. Len(l) : windows'[i] = l[j]
        /\ \A j \in 1 .. Len(l) : \E i \in 1 .. Len(windows') : windows'[i] = l[j]
    BY <1>6, <1>8, <1>9, <2>1, FocusTops
  <2>6. QED
    BY <2>1, <2>2, <2>3, <2>4, <2>5
<1>12. get_next_z_order(l, zo) \in Nat /\ get_next_z_order(l, zo) <= 2 * k
  <2>1. \A i \in 1 .. Len(l) : zo[l[i]] <= 2 * (k - 1) + 1
    <3> TAKE i \in 1 .. Len(l)
    <3>1. l[i] \in Windows
      BY <1>8 DEF Lists
    <3>2. CASE l[i] = w
      BY <1>5, <1>6, <3>2
    <3>3. CASE l[i] # w
      <4>1. zo[l[i]] = z[l[i]] /\ z[l[i]] \in Nat /\ z[l[i]] <= 2 * (k - 1)
        BY <1>3, <1>6, <3>1, <3>3
      <4>2. k \in Nat
        BY <1>2
      <4>3. QED
        BY <4>1, <4>2
    <3>4. QED
      BY <3>2, <3>3
  <2>2. 2 * (k - 1) + 1 \in Nat
    BY <1>2
  <2>3. get_next_z_order(l, zo) \in Nat /\ get_next_z_order(l, zo) <= (2 * (k - 1) + 1) + 1
    BY <1>6, <1>8, <1>9, <2>1, <2>2, NextAbove
  <2>4. QED
    BY <1>2, <2>3
<1>13. /\ z' \in [Windows -> 0 .. MaxZ] /\ \A v \in Windows : z'[v] <= 2 * k
  <2>1. \A v \in Windows : z'[v] \in Nat /\ z'[v] <= 2 * k
    <3> TAKE v \in Windows
    <3>1. CASE v = w
      BY <1>2, <1>6, <1>11, <1>12, <3>1 DEF Orders
    <3>2. CASE v # w
      BY <1>2, <1>3, <1>6, <1>11, <3>2 DEF Orders
    <3>3. QED
      BY <3>1, <3>2
  <2>2. DOMAIN z' = Windows /\ z' = [v \in Windows |-> z'[v]]
    BY <1>6, <1>11 DEF Orders
  <2>3. \A v \in Windows : z'[v] \in 0 .. MaxZ
    BY <1>2, <2>1
  <2>4. QED
    BY <2>1, <2>2, <2>3
<1>14. StackInv'
  <2>1. flagged' = {focused'} \ {NULL}'
    BY <1>0, <1>2, <1>11, WindowsAssumption DEF StackInv, NULL
  <2>2. count' = Len(windows') /\ count' <= WM_MAX_WINDOWS
    BY <1>0, <1>1, <1>3, <1>8, <1>11, WindowsAssumption DEF StackInv
  <2>3. QED
    BY <1>2, <1>11, <1>13, <2>1, <2>2 DEF StackInv, NULL
<1>15. PlaceInv'
  <2>1. /\ phase'.at = "boot" /\ phase'.next = k + 1
        /\ phase' \in [at : {"boot", "idle", "update", "click"}, next : Nat]
    BY <1>0, <1>1 DEF PlaceInv, Booting
  <2>2. k + 1 \in 1 .. Len(Boot) + 1 /\ (k + 1) - 1 = k
    BY <1>2
  <2>3. \A i \in 1 .. Len(windows') : \E j \in 1 .. k : windows'[i] = Boot[j]
    <3> TAKE i \in 1 .. Len(windows')
    <3>1. PICK j \in 1 .. Len(l) : windows'[i] = l[j]
      BY <1>11
    <3>2. CASE j = m
      BY <1>2, <1>8, <3>1, <3>2
    <3>3. CASE j # m
      <4>1. j \in 1 .. Len(windows)
        BY <1>3, <1>8, <3>3
      <4>2. PICK h \in 1 .. k - 1 : windows[j] = Boot[h]
        BY <1>3, <4>1
      <4>3. h \in 1 .. k
        BY <1>2
      <4>4. QED
        BY <1>8, <3>1, <4>1, <4>2, <4>3
    <3>4. QED
      BY <3>2, <3>3
  <2>4. \A v \in Windows : z'[v] <= 2 * ((k + 1) - 1)
    BY <1>13, <2>2
  <2> HIDE DEF k
  <2>5. QED
    BY <2>1, <2>2, <2>3, <2>4 DEF PlaceInv, Booting, At
<1>16. ScreenInv' /\ ButtonInv'
  BY <1>0, <1>1 DEF ScreenInv, ButtonInv, drawVars, At, Booting, PlaceInv
<1>17. \A i \in 1 .. Len(windows) : \E j \in 1 .. Len(windows') : windows'[j] = windows[i]
  <2> TAKE i \in 1 .. Len(windows)
  <2>1. i \in 1 .. Len(l) /\ l[i] = windows[i]
    BY <1>3, <1>8
  <2>2. QED
    BY <1>11, <2>1
<1>18. QED
  BY <1>14, <1>15, <1>16, <1>17 DEF WmInv


\* Steps that leave the list and the focus alone: failed creations, composites and
\* the mouse events between clicks.
LEMMA QuietKeeps ==
    ASSUME WmInv,
           \/ CreateFails \/ FirstComposite \/ Update
           \/ \E d \in Moves, left \in BOOLEAN : MouseEvent(d, left)
           \/ ClickDesktop \/ UpdateEnd
    PROVE  WmInv'
<1>0. StackInv /\ PlaceInv /\ ScreenInv /\ ButtonInv
  BY DEF WmInv
<1>1. UNCHANGED <<windows, z, focused, flagged, count>>
  BY DEF CreateFails, FirstComposite, Update, MouseEvent, ClickDesktop, UpdateEnd, wmVars
<1>2. StackInv'
  BY <1>0, <1>1 DEF StackInv, Ascending, NULL
<1>3. get_next_z_order(windows, z)' = get_next_z_order(windows, z)
  BY <1>1
<1>4. Len(Boot) \in Nat /\ MaxBatch \in Nat /\ 0 \in 0 .. MaxBatch
  BY WindowsAssumption
<1>5. CASE CreateFails
  <2>1. /\ phase.at = "boot" /\ phase.next \in 1 .. Len(Boot)
        /\ phase' = [phase EXCEPT !.next = phase.next + 1]
        /\ UNCHANGED <<needs_composite, drawVars, n, last, before, ev>>
    BY <1>0, <1>4, <1>5 DEF CreateFails, PlaceInv, Booting
  <2>2. phase'.at = "boot" /\ phase'.next = phase.next + 1
    BY <1>0, <2>1 DEF PlaceInv
  <2>3. phase' \in [at : {"boot", "idle", "update", "click"}, next : Nat]
    BY <1>0, <2>1 DEF PlaceInv
  <2>4. \A v \in Windows : z'[v] <= 2 * (phase'.next - 1)
    <3> TAKE v \in Windows
    <3>1. z[v] \in Nat /\ z[v] <= 2 * (phase.next - 1) /\ phase.next \in Nat
      BY <1>0, <1>4, <2>1, WindowsAssumption DEF PlaceInv, Booting, StackInv
    <3>2. QED
      BY <1>1, <2>2, <3>1
  <2>5. \A i \in 1 .. Len(windows') : \E j \in 1 .. phase'.next - 1 : windows'[i] = Boot[j]
    <3> TAKE i \in 1 .. Len(windows')
    <3>1. PICK j \in 1 .. phase.next - 1 : windows[i] = Boot[j]
      BY <1>0, <1>1, <2>1 DEF PlaceInv, Booting
    <3>2. j \in 1 .. phase'.next - 1
      BY <2>1, <2>2
    <3>3. QED
      BY <1>1, <3>1, <3>2
  <2>6. PlaceInv'
    BY <1>4, <2>1, <2>2, <2>3, <2>4, <2>5 DEF PlaceInv, Booting, At
  <2>7. ScreenInv' /\ ButtonInv'
    BY <1>0, <2>1, <2>2 DEF ScreenInv, ButtonInv, drawVars, At
  <2>8. QED
    BY <1>2, <2>6, <2>7 DEF WmInv
<1>6. CASE FirstComposite
  <2>1. /\ phase.at = "boot" /\ phase' = [at |-> "idle", next |-> 0] /\ Composite(windows, flagged)
        /\ UNCHANGED <<n, last, before, ev>>
    BY <1>6 DEF FirstComposite, Booting, Goto
  <2>2. PlaceInv' /\ ButtonInv'
    BY <1>0, <2>1 DEF PlaceInv, ButtonInv, Booting, At
  <2>3. ScreenInv'
    <3>1. n' \in 0 .. MaxBatch
      BY <1>0, <2>1 DEF ScreenInv
    <3>2. QED
      BY <1>0, <2>1, <3>1, CompositeKeeps
  <2>4. QED
    BY <1>2, <2>2, <2>3 DEF WmInv
<1>7. CASE Update
  <2>1. /\ phase.at = "idle" /\ phase' = [at |-> "update", next |-> 0]
        /\ UNCHANGED <<needs_composite, drawVars, n, last, before, ev>>
    BY <1>7 DEF Update, At, Goto
  <2>2. PlaceInv' /\ ButtonInv' /\ ScreenInv'
    BY <1>0, <2>1 DEF PlaceInv, ButtonInv, ScreenInv, drawVars, Booting, At
  <2>3. QED
    BY <1>2, <2>2 DEF WmInv
<1>8. ASSUME NEW d \in Moves, NEW left \in BOOLEAN, MouseEvent(d, left) PROVE WmInv'
  <2>1. /\ phase.at = "update" /\ n < MaxBatch /\ n' = n + 1 /\ before' = ev /\ ev' = left
        /\ left => get_next_z_order(windows, z) <= MaxZ
        /\ CursorMove(d) /\ UNCHANGED needs_composite
    BY <1>8 DEF MouseEvent, At
  <2>2. \/ left /\ ~last /\ phase' = [at |-> "click", next |-> 0] /\ UNCHANGED last
        \/ last' = left /\ UNCHANGED phase
    BY <1>8 DEF MouseEvent, NewPress, Goto
  <2>3. PlaceInv'
    BY <1>0, <1>3, <2>1, <2>2 DEF PlaceInv, Booting, At
  <2>4. ButtonInv'
    BY <1>0, <2>1, <2>2 DEF ButtonInv, At
  <2>5. ScreenInv'
    <3>1. n' \in 0 .. MaxBatch /\ base' = base /\ base \in Nat /\ needs_composite' \in BOOLEAN
      <4>1. base' = base
        BY <2>1 DEF CursorMove, drawVars
      <4>2. n \in Nat /\ base \in Nat /\ needs_composite \in BOOLEAN
        BY <1>0, <1>4 DEF ScreenInv
      <4>3. n' \in 0 .. MaxBatch
        BY <1>4, <2>1, <4>2
      <4>4. QED
        BY <2>1, <4>1, <4>2, <4>3
    <3>2. cursor' = cursor \/ cursor' = clamp_position(Shift(cursor, d))
      BY <2>1 DEF CursorMove, drawVars
    <3>3. Shift(cursor, d)[1] \in Int /\ Shift(cursor, d)[2] \in Int
      <4>1. d[1] \in Int /\ d[2] \in Int
        BY WindowsAssumption
      <4>2. cursor[1] \in Int /\ cursor[2] \in Int
        BY <1>0, WindowsAssumption DEF ScreenInv
      <4>3. QED
        BY <4>1, <4>2 DEF Shift
    <3>4. /\ cursor'[1] \in 0 .. FB_WIDTH - CURSOR_WIDTH
          /\ cursor'[2] \in 0 .. FB_HEIGHT - CURSOR_HEIGHT
      BY <1>0, <3>2, <3>3, Clamped DEF ScreenInv
    <3>5. QED
      BY <3>1, <3>4 DEF ScreenInv
  <2>6. QED
    BY <1>2, <2>3, <2>4, <2>5 DEF WmInv
<1>9. CASE ClickDesktop
  <2>1. /\ phase.at = "click" /\ phase' = [at |-> "update", next |-> 0]
        /\ last' = TRUE /\ UNCHANGED <<needs_composite, drawVars, n, before, ev>>
    BY <1>9 DEF ClickDesktop, Clicked, At, Goto
  <2>2. PlaceInv' /\ ButtonInv' /\ ScreenInv'
    BY <1>0, <2>1 DEF PlaceInv, ButtonInv, ScreenInv, drawVars, Booting, At
  <2>3. QED
    BY <1>2, <2>2 DEF WmInv
<1>10. CASE UpdateEnd
  <2>1. /\ phase.at = "update" /\ phase' = [at |-> "idle", next |-> 0] /\ n' = 0
        /\ UNCHANGED <<last, before, ev>>
        /\ \/ Composite(windows, flagged)
           \/ UNCHANGED <<needs_composite, drawVars>>
    BY <1>10 DEF UpdateEnd, At, Goto
  <2>2. PlaceInv' /\ ButtonInv'
    BY <1>0, <2>1 DEF PlaceInv, ButtonInv, Booting, At
  <2>3. ScreenInv'
    <3>1. CASE Composite(windows, flagged)
      BY <1>0, <1>4, <2>1, <3>1, CompositeKeeps
    <3>2. CASE UNCHANGED <<needs_composite, drawVars>>
      BY <1>0, <1>4, <2>1, <3>2 DEF ScreenInv, drawVars
    <3>3. QED
      BY <2>1, <3>1, <3>2
  <2>4. QED
    BY <1>2, <2>2, <2>3 DEF WmInv
<1>11. QED
  BY <1>5, <1>6, <1>7, <1>8, <1>9, <1>10

\* What every click that reaches a window has in common.
LEMMA ClickFacts ==
    ASSUME WmInv, Clicked, Target # NULL, NEW l, NEW flags, Composite(l, flags)
    PROVE  ScreenInv' /\ ButtonInv' /\ (z' \in [Windows -> 0 .. MaxZ] => PlaceInv')
<1>0. PlaceInv /\ ScreenInv /\ ButtonInv
  BY DEF WmInv
<1>1. /\ phase.at = "click" /\ phase' = [at |-> "update", next |-> 0]
      /\ last' = TRUE /\ UNCHANGED <<n, before, ev>>
  BY DEF Clicked, At, Goto
<1>2. PlaceInv' /\ ButtonInv'
  BY <1>0, <1>1 DEF PlaceInv, ButtonInv, Booting, At
<1>3. n' \in 0 .. MaxBatch
  BY <1>0, <1>1 DEF ScreenInv
<1>4. ScreenInv'
  BY <1>0, <1>3, CompositeKeeps
<1>5. QED
  BY <1>2, <1>4

\* A click on a close button.
LEMMA CloseKeeps ==
    ASSUME WmInv, ClickClose
    PROVE  /\ WmInv'
           /\ \A i \in 1 .. Len(windows) : windows[i] # Target =>
                 \E j \in 1 .. Len(windows') : windows'[j] = windows[i]
           /\ \A j \in 1 .. Len(windows') : windows'[j] # Target
<1> DEFINE l == remove_from_list(windows, Target)
<1>0. StackInv
  BY DEF WmInv
<1>1. /\ Clicked /\ Target # NULL /\ windows' = l
      /\ focused' = (IF focused = Target THEN NULL ELSE focused)
      /\ flagged' = flagged \ {Target} /\ count' = count - 1
      /\ Composite(l, flagged) /\ z' = z
  BY DEF ClickClose
<1>2. PICK k \in 1 .. Len(windows) : windows[k] = Target
  BY <1>0, <1>1, TargetIn DEF StackInv
<1>3. /\ Len(windows) \in Nat /\ Len(windows) = count /\ WM_MAX_WINDOWS \in Nat
      /\ \A i \in 1 .. Len(windows) : windows[i] \in Windows /\ z[windows[i]] \in Nat
  BY <1>0, WindowsAssumption DEF StackInv, Lists
<1>4. \A i \in 1 .. Len(windows) : windows[i] = windows[k] => i = k
  <2> SUFFICES ASSUME NEW i \in 1 .. Len(windows), windows[i] = windows[k], i # k PROVE FALSE
    OBVIOUS
  <2>1. i < k \/ k < i
    BY <1>3
  <2>2. z[windows[i]] < z[windows[k]] \/ z[windows[k]] < z[windows[i]]
    BY <1>0, <2>1 DEF StackInv, Ascending
  <2>3. QED
    BY <1>3, <2>2
<1>5. /\ l \in Lists /\ Len(l) = Len(windows) - 1
      /\ \A i \in 1 .. Len(windows) - 1 : l[i] = IF i < k THEN windows[i] ELSE windows[i + 1]
  BY <1>0, <1>2, <1>4, RemoveCloses DEF StackInv
<1> HIDE DEF l
<1>6. Ascending(l, z)
  <2> SUFFICES ASSUME NEW i \in 1 .. Len(windows) - 1, NEW j \in 1 .. Len(windows) - 1, i < j
               PROVE  z[l[i]] < z[l[j]]
    BY <1>5 DEF Ascending
  <2> DEFINE f(x) == IF x < k THEN x ELSE x + 1
  <2>1. /\ f(i) \in 1 .. Len(windows) /\ f(j) \in 1 .. Len(windows) /\ f(i) < f(j)
    BY <1>3
  <2>2. l[i] = windows[f(i)] /\ l[j] = windows[f(j)]
    BY <1>5
  <2> HIDE DEF f
  <2>3. QED
    BY <1>0, <2>1, <2>2 DEF StackInv, Ascending
<1>7. focused' # NULL => l # << >> /\ l[Len(l)] = focused'
  <2> SUFFICES ASSUME focused' # NULL PROVE l # << >> /\ l[Len(l)] = focused'
    OBVIOUS
  <2>1. focused' = focused /\ focused # Target /\ focused # NULL
    BY <1>1
  <2>2. windows[Len(windows)] = focused
    BY <1>0, <2>1 DEF StackInv
  <2>3. k # Len(windows)
    BY <1>2, <2>1, <2>2
  <2>4. /\ Len(windows) - 1 \in 1 .. Len(windows) - 1 /\ ~(Len(windows) - 1 < k)
        /\ (Len(windows) - 1) + 1 = Len(windows)
    BY <1>3, <2>3
  <2>5. l[Len(l)] = windows[Len(windows)]
    BY <1>5, <2>4
  <2>6. l # << >>
    BY <1>5, <2>4
  <2>7. QED
    BY <2>1, <2>2, <2>5, <2>6
<1>8. StackInv'
  <2>1. flagged' = {focused'} \ {NULL}
    BY <1>0, <1>1 DEF StackInv
  <2>2. focused' \in Windows \cup {NULL}
    BY <1>0, <1>1 DEF StackInv
  <2>3. count' = Len(l) /\ count' <= WM_MAX_WINDOWS
    BY <1>0, <1>1, <1>3, <1>5 DEF StackInv
  <2>4. z' \in [Windows -> 0 .. MaxZ]
    BY <1>0, <1>1 DEF StackInv
  <2>5. QED
    BY <1>1, <1>5, <1>6, <1>7, <2>1, <2>2, <2>3, <2>4 DEF StackInv, NULL
<1>9. ScreenInv' /\ ButtonInv' /\ PlaceInv'
  BY <1>1, <1>8, ClickFacts DEF StackInv
<1>10. ASSUME NEW i \in 1 .. Len(windows), windows[i] # Target
       PROVE  \E j \in 1 .. Len(windows') : windows'[j] = windows[i]
  <2> DEFINE j == IF i < k THEN i ELSE i - 1
  <2>1. i # k
    BY <1>2, <1>10
  <2>2. j \in 1 .. Len(windows) - 1 /\ (IF j < k THEN windows[j] ELSE windows[j + 1]) = windows[i]
    BY <1>3, <2>1
  <2> HIDE DEF j
  <2>3. j \in 1 .. Len(windows') /\ windows'[j] = windows[i]
    BY <1>1, <1>5, <2>2
  <2>4. QED
    BY <2>3
<1>11. ASSUME NEW j \in 1 .. Len(windows') PROVE windows'[j] # Target
  <2> DEFINE i == IF j < k THEN j ELSE j + 1
  <2>1. j \in 1 .. Len(windows) - 1 /\ windows'[j] = IF j < k THEN windows[j] ELSE windows[j + 1]
    BY <1>1, <1>5
  <2>2. i \in 1 .. Len(windows) /\ i # k /\ windows'[j] = windows[i]
    BY <1>3, <2>1
  <2> HIDE DEF i
  <2>3. QED
    BY <1>2, <1>4, <2>2
<1>12. QED
  BY <1>8, <1>9, <1>10, <1>11 DEF WmInv

\* A click elsewhere in a window.
LEMMA FocusKeeps ==
    ASSUME WmInv, ClickFocus
    PROVE  /\ WmInv'
           /\ \A i \in 1 .. Len(windows) : \E j \in 1 .. Len(windows') : windows'[j] = windows[i]
<1>0. StackInv /\ PlaceInv
  BY DEF WmInv
<1>1. /\ Clicked /\ Target # NULL /\ FocusVars(Target, windows, z)
      /\ Composite(windows', flagged') /\ count' = count
  BY DEF ClickFocus
<1>2. PICK k \in 1 .. Len(windows) : windows[k] = Target
  BY <1>0, <1>1, TargetIn DEF StackInv
<1>3. /\ Len(windows) \in Nat /\ Target \in Windows /\ z \in Orders /\ MaxZ \in Nat
  BY <1>0, <1>2, WindowsAssumption DEF StackInv, Lists, Orders
<1>4. StackInv'
  <2>1. CASE focused = Target
    <3>1. windows' = windows /\ z' = z /\ focused' = focused /\ flagged' = flagged \cup {Target}
      BY <1>1, <2>1 DEF FocusVars
    <3>2. flagged' = flagged
      BY <1>0, <1>1, <2>1, <3>1 DEF StackInv
    <3>3. QED
      BY <1>0, <1>1, <3>1, <3>2 DEF StackInv, Ascending, NULL
  <2>2. CASE focused # Target
    <3>1. /\ z' = [z EXCEPT ![windows[k]] = get_next_z_order(windows, z)]
          /\ windows' \in Lists /\ Ascending(windows', z') /\ Len(windows') = Len(windows)
          /\ windows' # << >> /\ windows'[Len(windows')] = windows[k]
          /\ focused' = windows[k] /\ flagged' = (flagged \ {focused}) \cup {windows[k]}
      BY <1>0, <1>1, <1>2, <1>3, <2>2, FocusTops DEF StackInv
    <3>2. z' \in [Windows -> 0 .. MaxZ]
      <4>1. get_next_z_order(windows, z) \in Nat /\ get_next_z_order(windows, z) <= MaxZ
        BY <1>0, <1>1, <1>3, NextAbove DEF StackInv, PlaceInv, Clicked
      <4>2. get_next_z_order(windows, z) \in 0 .. MaxZ /\ z \in [Windows -> 0 .. MaxZ]
        BY <1>0, <1>3, <4>1 DEF StackInv
      <4>3. QED
        BY <3>1, <4>2
    <3>3. flagged' = {focused'} \ {NULL}
      BY <1>0, <1>1, <1>2, <3>1 DEF StackInv
    <3>4. count' = Len(windows') /\ count' <= WM_MAX_WINDOWS
      BY <1>0, <1>1, <3>1 DEF StackInv
    <3>5. QED
      BY <1>2, <1>3, <3>1, <3>2, <3>3, <3>4 DEF StackInv, NULL
  <2>3. QED
    BY <2>1, <2>2
<1>5. ScreenInv' /\ ButtonInv' /\ PlaceInv'
  BY <1>1, <1>4, ClickFacts DEF StackInv
<1>6. \A i \in 1 .. Len(windows) : \E j \in 1 .. Len(windows') : windows'[j] = windows[i]
  <2>1. CASE focused = Target
    BY <1>1, <2>1 DEF FocusVars
  <2>2. CASE focused # Target
    BY <1>0, <1>1, <1>2, <1>3, <2>2, FocusTops DEF StackInv
  <2>3. QED
    BY <2>1, <2>2
<1>7. QED
  BY <1>4, <1>5, <1>6 DEF WmInv

\* Every step keeps the invariant.
LEMMA WmStep ==
    ASSUME WmInv, [Next]_vars
    PROVE  WmInv'
<1>1. CASE CreateWindow
  BY <1>1, CreateKeeps
<1>2. CASE \/ CreateFails \/ FirstComposite \/ Update
           \/ \E d \in Moves, left \in BOOLEAN : MouseEvent(d, left)
           \/ ClickDesktop \/ UpdateEnd
  BY <1>2, QuietKeeps
<1>3. CASE ClickClose
  BY <1>3, CloseKeeps
<1>4. CASE ClickFocus
  BY <1>4, FocusKeeps
<1>5. CASE UNCHANGED vars
  BY <1>5 DEF vars, WmInv, StackInv, PlaceInv, ScreenInv, ButtonInv, Ascending, Booting, At, NULL
<1>6. QED
  BY <1>1, <1>2, <1>3, <1>4, <1>5 DEF Next

\* The window manager's data agree in every state.
THEOREM WmSound == Spec => []WmInv
<1>1. Init => WmInv
  BY InitWm
<1>2. WmInv /\ [Next]_vars => WmInv'
  BY WmStep
<1>3. QED
  BY <1>1, <1>2, PTL DEF Spec

\* The list ascends strictly in z_order, has count members, and ends with the focused
\* window, the only one drawn as focused (StackSound).
THEOREM StackAlwaysSound == Spec => []StackSound
<1>1. WmInv => StackSound
  <2> SUFFICES ASSUME WmInv PROVE StackSound
    OBVIOUS
  <2>0. StackInv /\ ScreenInv
    BY DEF WmInv
  <2>1. /\ Len(windows) \in Nat /\ DOMAIN windows = 1 .. Len(windows)
        /\ \A i \in 1 .. Len(windows) : windows[i] \in Windows
    BY <2>0 DEF StackInv, Lists
  <2>2. Range(windows) \subseteq Windows
    BY <2>1 DEF Range
  <2>3. count \in 0 .. WM_MAX_WINDOWS
    BY <2>0, <2>1, WindowsAssumption DEF StackInv
  <2>4. TypeOK
    BY <2>0, <2>2, <2>3 DEF TypeOK, StackInv, ScreenInv
  <2>5. QED
    BY <2>0, <2>4 DEF StackSound, StackInv, Ascending
<1>2. QED
  BY <1>1, WmSound, PTL

\* A window is destroyed only by a button that has just gone down on its own close
\* button, where it is on top (ClosesOnlyPressed).
THEOREM ClosedOnlyByPress == Spec => ClosesOnlyPressed
<1> DEFINE A == \A w \in Range(windows) \ Range(windows') :
                   /\ ev /\ ~before
                   /\ wm_is_in_close_btn(w, cursor) /\ w = wm_get_window_at(windows, cursor)
<1>1. WmInv /\ [Next]_vars => [A]_vars
  <2> SUFFICES ASSUME WmInv, Next, NEW w \in Range(windows), w \notin Range(windows')
               PROVE  /\ ev /\ ~before
                      /\ wm_is_in_close_btn(w, cursor) /\ w = wm_get_window_at(windows, cursor)
    BY DEF vars
  <2>0. StackInv /\ ButtonInv
    BY DEF WmInv
  <2>1. PICK i \in 1 .. Len(windows) : w = windows[i]
    BY <2>0 DEF Range, StackInv, Lists
  <2>2. \A j \in 1 .. Len(windows') : windows'[j] # w
    <3>1. WmInv'
      BY WmStep
    <3>2. DOMAIN windows' = 1 .. Len(windows')
      BY <3>1 DEF WmInv, StackInv, Lists
    <3>3. QED
      BY <3>2 DEF Range
  <2>3. CASE ClickClose
    <3>1. /\ At("click") /\ Target # NULL /\ wm_is_in_close_btn(Target, cursor)
          /\ windows' = remove_from_list(windows, Target)
      BY <2>3 DEF ClickClose, Clicked
    <3>2. ev /\ ~before
      BY <2>0, <3>1 DEF ButtonInv
    <3>3. w = Target
      BY <2>1, <2>2, <2>3, CloseKeeps
    <3>4. QED
      BY <3>1, <3>2, <3>3 DEF Target
  <2>4. CASE ~ClickClose
    <3>1. \A h \in 1 .. Len(windows) : \E j \in 1 .. Len(windows') : windows'[j] = windows[h]
      <4>1. CASE CreateWindow
        BY <4>1, CreateKeeps
      <4>2. CASE ClickFocus
        BY <4>2, FocusKeeps
      <4>3. CASE windows' = windows
        BY <4>3
      <4>4. QED
        BY <2>4, <4>1, <4>2, <4>3 DEF Next, CreateFails, FirstComposite, Update, MouseEvent,
                                      ClickDesktop, UpdateEnd, wmVars
    <3>2. QED
      BY <2>1, <2>2, <3>1
  <2>5. QED
    BY <2>3, <2>4
<1>2. QED
  BY <1>1, WmSound, PTL DEF Spec, ClosesOnlyPressed

-----------------------------------------------------------------------------
(* The screen.  A composite draws the windows from bottom to top; what that  *)
(* leaves at a point is what wm_get_window_at finds there.                   *)

\* The window w drawn over the picture g.
Over(g, w, flags) ==
    Paint(g, [p \in {q \in Screen : window_contains(w, q)} |-> Drawn(w, flags, p)])

LEMMA OverIs ==
    ASSUME base = 0, NEW g, NEW w, NEW flags
    PROVE  Over(g, w, flags) =
             [p \in Screen |-> IF window_contains(w, p) THEN Drawn(w, flags, p) ELSE g[p]]
BY DEF Over, Paint

\* The last of the first i windows that contains p, and the picture they leave.
LastOf(l, i, p) ==
    CHOOSE k \in 1 .. i : window_contains(l[k], p) /\ \A j \in k + 1 .. i : ~window_contains(l[j], p)

Picture(m, l, flags, i) ==
    [p \in Screen |-> IF \E j \in 1 .. i : window_contains(l[j], p)
                      THEN Drawn(l[LastOf(l, i, p)], flags, p) ELSE m[p]]

LEMMA LastOfIs ==
    ASSUME NEW l, NEW i \in Nat, NEW p, NEW k \in 1 .. i,
           window_contains(l[k], p), \A j \in k + 1 .. i : ~window_contains(l[j], p)
    PROVE  LastOf(l, i, p) = k
<1> DEFINE P(x) == window_contains(l[x], p) /\ \A j \in x + 1 .. i : ~window_contains(l[j], p)
<1>1. P(k)
  OBVIOUS
<1>2. ASSUME NEW x \in 1 .. i, P(x) PROVE x = k
  <2>1. ~(x < k)
    <3>1. x < k => k \in x + 1 .. i
      OBVIOUS
    <3>2. QED
      BY <1>2, <3>1
  <2>2. ~(k < x)
    <3>1. k < x => x \in k + 1 .. i
      OBVIOUS
    <3>2. QED
      BY <1>2, <3>1
  <2>3. QED
    BY <2>1, <2>2
<1> HIDE DEF P
<1>3. (CHOOSE x \in 1 .. i : P(x)) = k
  BY <1>1, <1>2
<1>4. QED
  BY <1>3 DEF LastOf, P

LEMMA LastOfExists ==
    ASSUME NEW l, NEW i \in Nat, NEW p, \E j \in 1 .. i : window_contains(l[j], p)
    PROVE  \E k \in 1 .. i : window_contains(l[k], p) /\ \A j \in k + 1 .. i : ~window_contains(l[j], p)
<1> DEFINE I == {j \in 1 .. i : window_contains(l[j], p)}
<1>1. I \subseteq 1 .. i /\ I # {}
  OBVIOUS
<1> HIDE DEF I
<1>2. PICK k \in I : \A j \in I : j <= k
  BY <1>1, LastIndex
<1>3. k \in 1 .. i /\ window_contains(l[k], p)
  BY <1>2 DEF I
<1>4. ASSUME NEW j \in k + 1 .. i PROVE ~window_contains(l[j], p)
  <2>1. j \in 1 .. i /\ ~(j <= k)
    BY <1>3
  <2>2. QED
    BY <1>2, <2>1 DEF I
<1>5. QED
  BY <1>3, <1>4

\* One more window.
LEMMA PictureGrows ==
    ASSUME base = 0, NEW m, NEW l, NEW flags, NEW i \in Nat \ {0}
    PROVE  Picture(m, l, flags, i) = Over(Picture(m, l, flags, i - 1), l[i], flags)
<1>1. ASSUME NEW p \in Screen
      PROVE  Picture(m, l, flags, i)[p]
               = IF window_contains(l[i], p) THEN Drawn(l[i], flags, p) ELSE Picture(m, l, flags, i - 1)[p]
  <2>0. i - 1 \in Nat /\ i \in 1 .. i
    OBVIOUS
  <2>1. CASE window_contains(l[i], p)
    <3>1. LastOf(l, i, p) = i
      <4>1. i + 1 .. i = {}
        OBVIOUS
      <4>2. QED
        BY <2>0, <2>1, <4>1, LastOfIs
    <3>2. Picture(m, l, flags, i)[p] = Drawn(l[LastOf(l, i, p)], flags, p)
      BY <2>0, <2>1 DEF Picture
    <3>3. QED
      BY <2>1, <3>1, <3>2
  <2>2. CASE ~window_contains(l[i], p)
    <3>1. CASE \E j \in 1 .. i - 1 : window_contains(l[j], p)
      <4>1. PICK k \in 1 .. i - 1 : /\ window_contains(l[k], p)
                                    /\ \A j \in k + 1 .. i - 1 : ~window_contains(l[j], p)
        BY <2>0, <3>1, LastOfExists
      <4>2. LastOf(l, i - 1, p) = k
        BY <2>0, <4>1, LastOfIs
      <4>3. k \in 1 .. i /\ \A j \in k + 1 .. i : ~window_contains(l[j], p)
        <5>1. \A j \in k + 1 .. i : j = i \/ j \in k + 1 .. i - 1
          OBVIOUS
        <5>2. QED
          BY <2>2, <4>1, <5>1
      <4>4. LastOf(l, i, p) = k
        BY <4>1, <4>3, LastOfIs
      <4>5. Picture(m, l, flags, i)[p] = Drawn(l[LastOf(l, i, p)], flags, p)
        BY <4>1, <4>3 DEF Picture
      <4>6. Picture(m, l, flags, i - 1)[p] = Drawn(l[LastOf(l, i - 1, p)], flags, p)
        BY <3>1 DEF Picture
      <4>7. QED
        BY <2>2, <4>2, <4>4, <4>5, <4>6
    <3>2. CASE ~\E j \in 1 .. i - 1 : window_contains(l[j], p)
      <4>1. ~\E j \in 1 .. i : window_contains(l[j], p)
        <5>1. \A j \in 1 .. i : j = i \/ j \in 1 .. i - 1
          OBVIOUS
        <5>2. QED
          BY <2>2, <3>2, <5>1
      <4>2. QED
        BY <2>2, <3>2, <4>1 DEF Picture
    <3>3. QED
      BY <3>1, <3>2
  <2>3. QED
    BY <2>1, <2>2
<1>2. Over(Picture(m, l, flags, i - 1), l[i], flags) =
        [p \in Screen |-> IF window_contains(l[i], p) THEN Drawn(l[i], flags, p)
                          ELSE Picture(m, l, flags, i - 1)[p]]
  BY OverIs
<1>3. Picture(m, l, flags, i) = [p \in Screen |-> Picture(m, l, flags, i)[p]]
  BY DEF Picture
<1>4. QED
  BY <1>1, <1>2, <1>3

\* The loop of wm_composite, by induction over the list.
LEMMA DrawAllIs ==
    ASSUME base = 0, NEW m, m = [p \in Screen |-> m[p]], NEW l \in Lists, NEW flags
    PROVE  DrawAll(m, l, flags) = Picture(m, l, flags, Len(l))
<1> DEFINE L == 0 .. Len(l)
           G == [i \in L |-> Picture(m, l, flags, i)]
           D == CHOOSE d : d = [i \in L |-> IF i = 0 THEN m ELSE Over(d[i - 1], l[i], flags)]
           T == {i \in L : D[i] # Picture(m, l, flags, i)}
<1>0. Len(l) \in Nat
  BY DEF Lists
<1>1. Picture(m, l, flags, 0) = m
  <2>1. 1 .. 0 = {}
    OBVIOUS
  <2>2. Picture(m, l, flags, 0) = [p \in Screen |-> m[p]]
    BY <2>1 DEF Picture
  <2>3. QED
    BY <2>2
<1>2. \E d : d = [i \in L |-> IF i = 0 THEN m ELSE Over(d[i - 1], l[i], flags)]
  <2>1. ASSUME NEW i \in L
        PROVE  G[i] = IF i = 0 THEN m ELSE Over(G[i - 1], l[i], flags)
    <3>1. CASE i = 0
      BY <1>1, <3>1
    <3>2. CASE i # 0
      <4>1. i \in Nat \ {0} /\ i - 1 \in L
        BY <1>0, <3>2
      <4>2. G[i] = Picture(m, l, flags, i) /\ G[i - 1] = Picture(m, l, flags, i - 1)
        BY <4>1
      <4>3. QED
        BY <3>2, <4>1, <4>2, PictureGrows
    <3>3. QED
      BY <3>1, <3>2
  <2>2. G = [i \in L |-> G[i]]
    OBVIOUS
  <2> HIDE DEF G, L
  <2>3. G = [i \in L |-> IF i = 0 THEN m ELSE Over(G[i - 1], l[i], flags)]
    BY <2>1, <2>2
  <2>4. QED
    BY <2>3
<1>3. D = [i \in L |-> IF i = 0 THEN m ELSE Over(D[i - 1], l[i], flags)]
  <2> HIDE DEF L
  <2>1. QED
    BY <1>2
<1>4. DrawAll(m, l, flags) = D[Len(l)]
  BY DEF DrawAll, Over
<1> HIDE DEF D, G
<1>5. T = {}
  <2> SUFFICES ASSUME T # {} PROVE FALSE
    OBVIOUS
  <2>1. T \in SUBSET Nat
    BY <1>0
  <2>2. PICK i \in T : \A h \in T : ~(<<h, i>> \in OpToRel(<, Nat))
    BY <2>1, NatLessThanWellFounded, WFMin
  <2>3. i \in L /\ i # 0
    <3>1. D[0] = m
      BY <1>0, <1>3
    <3>2. QED
      BY <1>1, <3>1
  <2>4. i - 1 \in L /\ i \in Nat \ {0}
    BY <1>0, <2>3
  <2>5. i - 1 \notin T
    <3>1. <<i - 1, i>> \in OpToRel(<, Nat)
      <4>1. <<i - 1, i>> \in Nat \X Nat /\ i - 1 < i
        BY <2>4
      <4>2. QED
        BY <4>1 DEF OpToRel
    <3>2. QED
      BY <2>2, <3>1
  <2>6. D[i - 1] = Picture(m, l, flags, i - 1)
    BY <2>4, <2>5
  <2>7. D[i] = Over(D[i - 1], l[i], flags)
    BY <1>3, <2>3
  <2>8. D[i] = Picture(m, l, flags, i)
    BY <2>4, <2>6, <2>7, PictureGrows
  <2>9. QED
    BY <2>8
<1>6. Len(l) \in L
  BY <1>0
<1>7. QED
  BY <1>4, <1>5, <1>6

\* What the loop leaves at a point.
LEMMA DrawnAt ==
    ASSUME base = 0, NEW m, m = [p \in Screen |-> m[p]], NEW l \in Lists, NEW flags, NEW p \in Screen
    PROVE  DrawAll(m, l, flags)[p] = IF wm_get_window_at(l, p) # NULL
                                     THEN Drawn(wm_get_window_at(l, p), flags, p) ELSE m[p]
<1>0. Len(l) \in Nat
  BY DEF Lists
<1>1. DrawAll(m, l, flags)[p] = IF \E j \in 1 .. Len(l) : window_contains(l[j], p)
                                THEN Drawn(l[LastOf(l, Len(l), p)], flags, p) ELSE m[p]
  BY DrawAllIs DEF Picture
<1>2. CASE /\ wm_get_window_at(l, p) = NULL
           /\ \A i \in 1 .. Len(l) : ~window_contains(l[i], p)
  BY <1>1, <1>2
<1>3. ASSUME NEW k \in 1 .. Len(l),
             wm_get_window_at(l, p) = l[k], l[k] # NULL, window_contains(l[k], p),
             \A j \in k + 1 .. Len(l) : ~window_contains(l[j], p)
      PROVE  DrawAll(m, l, flags)[p] = Drawn(wm_get_window_at(l, p), flags, p)
  <2>1. LastOf(l, Len(l), p) = k
    BY <1>0, <1>3, LastOfIs
  <2>2. QED
    BY <1>1, <1>3, <2>1
<1>4. QED
  BY <1>2, <1>3, TopAt

\* The sprite's places, put at a point of the screen where the whole cursor fits.
Fits(at) == at[1] \in 0 .. FB_WIDTH - CURSOR_WIDTH /\ at[2] \in 0 .. FB_HEIGHT - CURSOR_HEIGHT

LEMMA SpriteAt ==
    ASSUME NEW at, Fits(at), NEW o \in Sprite
    PROVE  /\ Shift(at, o) \in Screen
           /\ <<Shift(at, o)[1] - at[1], Shift(at, o)[2] - at[2]>> = o
<1>1. /\ o = <<o[1], o[2]>> /\ o[1] \in 0 .. CURSOR_WIDTH - 1 /\ o[2] \in 0 .. CURSOR_HEIGHT - 1
      /\ at[1] \in Int /\ at[2] \in Int /\ FB_WIDTH \in Nat /\ FB_HEIGHT \in Nat
      /\ CURSOR_WIDTH \in Nat /\ CURSOR_HEIGHT \in Nat
  BY WindowsAssumption DEF Sprite, Fits
<1>2. Shift(at, o)[1] = at[1] + o[1] /\ Shift(at, o)[2] = at[2] + o[2]
  BY DEF Shift
<1>3. at[1] + o[1] \in 0 .. FB_WIDTH - 1 /\ at[2] + o[2] \in 0 .. FB_HEIGHT - 1
  BY <1>1 DEF Fits
<1>4. (at[1] + o[1]) - at[1] = o[1] /\ (at[2] + o[2]) - at[2] = o[2]
  BY <1>1
<1>5. Shift(at, o) \in Screen
  BY <1>3 DEF Shift, Screen
<1>6. QED
  BY <1>1, <1>2, <1>4, <1>5

\* What is saved under the cursor, by points of the screen.
LEMMA SavedIs ==
    ASSUME NEW at, Fits(at), NEW s
    PROVE  /\ DOMAIN SavedAt(at, s) = {Shift(at, o) : o \in Sprite}
           /\ \A o \in Sprite : SavedAt(at, s)[Shift(at, o)] = s[o]
           /\ DOMAIN SavedAt(at, s) \subseteq Screen
<1>1. DOMAIN SavedAt(at, s) = {Shift(at, o) : o \in Sprite}
  BY DEF SavedAt
<1>2. ASSUME NEW o \in Sprite PROVE SavedAt(at, s)[Shift(at, o)] = s[o]
  <2>1. Shift(at, o) \in {Shift(at, q) : q \in Sprite}
    OBVIOUS
  <2>2. SavedAt(at, s)[Shift(at, o)] = s[<<Shift(at, o)[1] - at[1], Shift(at, o)[2] - at[2]>>]
    BY <2>1 DEF SavedAt
  <2>3. QED
    BY <2>2, SpriteAt
<1>3. QED
  BY <1>1, <1>2, SpriteAt

LEMMA InkIs ==
    ASSUME NEW at, NEW s
    PROVE  /\ DOMAIN InkAt(at) = {Shift(at, o) : o \in Ink}
           /\ \A p \in DOMAIN InkAt(at) : InkAt(at)[p] = Pointer
           /\ DOMAIN InkAt(at) \subseteq DOMAIN SavedAt(at, s)
<1>1. DOMAIN InkAt(at) = {Shift(at, o) : o \in Ink} /\ \A p \in DOMAIN InkAt(at) : InkAt(at)[p] = Pointer
  BY DEF InkAt
<1>2. Ink \subseteq Sprite
  BY WindowsAssumption DEF Sprite
<1>3. DOMAIN SavedAt(at, s) = {Shift(at, o) : o \in Sprite}
  BY DEF SavedAt
<1>4. QED
  BY <1>1, <1>2, <1>3

\* cursor_remove takes the cursor away.
LEMMA BaredIs ==
    ASSUME base = 0
    PROVE  Paint(scr, SavedAt(cursor, saved_bg)) = [p \in Screen |-> Behind(p)]
BY DEF Paint, Behind

\* Saving the background of the picture m and drawing the cursor on it.
LEMMA CursorDrawn ==
    ASSUME base = 0, Fits(cursor'), NEW m,
           saved_bg' = save_background(m, cursor', 0), scr' = Paint(m, InkAt(cursor')),
           NEW p \in Screen
    PROVE  /\ Behind(p)' = m[p]
           /\ scr'[p] = IF p \in DOMAIN InkAt(cursor') THEN Pointer ELSE m[p]
<1> DEFINE at == cursor'
<1>1. scr'[p] = IF p \in DOMAIN InkAt(at) THEN InkAt(at)[p] ELSE m[p]
  BY DEF Paint
<1>2. scr'[p] = IF p \in DOMAIN InkAt(at) THEN Pointer ELSE m[p]
  BY <1>1, InkIs
<1>3. Behind(p)' = IF p \in DOMAIN SavedAt(at, saved_bg') THEN SavedAt(at, saved_bg')[p] ELSE scr'[p]
  BY DEF Behind
<1>4. CASE p \in DOMAIN SavedAt(at, saved_bg')
  <2>1. PICK o \in Sprite : p = Shift(at, o)
    BY <1>4, SavedIs
  <2>2. SavedAt(at, saved_bg')[p] = saved_bg'[o]
    BY <2>1, SavedIs
  <2>3. saved_bg'[o] = m[p]
    BY <2>1 DEF save_background
  <2>4. QED
    BY <1>2, <1>3, <1>4, <2>2, <2>3
<1>5. CASE p \notin DOMAIN SavedAt(at, saved_bg')
  <2>1. p \notin DOMAIN InkAt(at)
    BY <1>5, InkIs
  <2>2. QED
    BY <1>2, <1>3, <1>5, <2>1
<1>6. QED
  BY <1>4, <1>5

\* Until the last window is closed fb.addr is right, the cursor is drawn over
\* what was saved, and no cursor is drawn into anything else; the windows shown
\* are those of the list, in the colours of their flags.
CursorShown(p) == scr[p] = (IF p \in DOMAIN InkAt(cursor) THEN Pointer ELSE Behind(p)) /\ Behind(p) # Pointer

WindowsShown ==
    \A p \in Screen : wm_get_window_at(windows, p) # NULL =>
        Behind(p) = Drawn(wm_get_window_at(windows, p), flagged, p)

DrawInv ==
    /\ Booting \/ count > 0 => base = 0
    /\ base = 0 => \A p \in Screen : CursorShown(p)
    /\ ~Booting /\ count > 0 => WindowsShown

LEMMA NotPointer ==
    /\ \A w, flags, p : Drawn(w, flags, p) # Pointer
    /\ Text # Pointer
BY DEF Drawn, Pointer, Pixel, Text

LEMMA InitDraw == ASSUME Init PROVE DrawInv
<1>1. base = 0 /\ Booting /\ cursor = Centre /\ saved_bg = [o \in Sprite |-> Text]
  BY DEF Init, Booting
<1>2. Fits(cursor)
  BY InitWm DEF WmInv, ScreenInv, Fits
<1>3. ASSUME NEW p \in Screen PROVE CursorShown(p)
  <2>1. scr[p] = IF p \in DOMAIN InkAt(cursor) THEN Pointer ELSE Text
    BY <1>1 DEF Init
  <2>2. Behind(p) = Text
    <3>1. CASE p \in DOMAIN SavedAt(cursor, saved_bg)
      <4>1. PICK o \in Sprite : p = Shift(cursor, o)
        BY <1>2, <3>1, SavedIs
      <4>2. SavedAt(cursor, saved_bg)[p] = saved_bg[o]
        BY <1>2, <4>1, SavedIs
      <4>3. QED
        BY <1>1, <3>1, <4>2 DEF Behind
    <3>2. CASE p \notin DOMAIN SavedAt(cursor, saved_bg)
      <4>1. p \notin DOMAIN InkAt(cursor)
        BY <3>2, InkIs
      <4>2. QED
        BY <2>1, <3>2, <4>1 DEF Behind
    <3>3. QED
      BY <3>1, <3>2
  <2>3. QED
    BY <2>1, <2>2, NotPointer DEF CursorShown
<1>4. QED
  BY <1>1, <1>3 DEF DrawInv

\* wm_composite of a list that is not empty, while fb.addr is right.
LEMMA CompositeDraws ==
    ASSUME ScreenInv, ScreenInv', base = 0, \A p \in Screen : CursorShown(p),
           NEW l \in Lists, l # << >>, NEW flags, Composite(l, flags)
    PROVE  /\ base' = 0
           /\ \A p \in Screen : CursorShown(p)'
           /\ \A p \in Screen : wm_get_window_at(l, p) # NULL =>
                 Behind(p)' = Drawn(wm_get_window_at(l, p), flags, p)
<1> DEFINE m == DrawAll(Bared, l, flags)
           b == [p \in Screen |-> Behind(p)]
<1>1. ~LastClosed(l)
  BY DEF LastClosed, Lists
<1>2. /\ base' = 0 /\ cursor' = cursor /\ saved_bg' = save_background(m, cursor', 0)
      /\ scr' = Paint(m, InkAt(cursor'))
  BY <1>1 DEF Composite
<1>3. Bared = b
  BY BaredIs DEF Bared
<1>4. Fits(cursor')
  BY DEF ScreenInv, Fits
<1>5. ASSUME NEW p \in Screen
      PROVE  /\ CursorShown(p)'
             /\ wm_get_window_at(l, p) # NULL => Behind(p)' = Drawn(wm_get_window_at(l, p), flags, p)
  <2>1. b = [q \in Screen |-> b[q]] /\ b[p] = Behind(p) /\ Behind(p) # Pointer
    BY DEF CursorShown
  <2> HIDE DEF b
  <2>2. m[p] = IF wm_get_window_at(l, p) # NULL THEN Drawn(wm_get_window_at(l, p), flags, p) ELSE Behind(p)
    BY <1>3, <2>1, DrawnAt
  <2> HIDE DEF m
  <2>3. /\ Behind(p)' = m[p]
        /\ scr'[p] = IF p \in DOMAIN InkAt(cursor') THEN Pointer ELSE m[p]
    BY <1>2, <1>4, CursorDrawn
  <2>4. m[p] # Pointer
    BY <2>1, <2>2, NotPointer
  <2>5. QED
    BY <2>2, <2>3, <2>4 DEF CursorShown
<1>6. QED
  BY <1>2, <1>5

\* wm_composite, whatever the list.
LEMMA CompositeShows ==
    ASSUME WmInv, WmInv', DrawInv, Booting \/ count > 0, ~Booting',
           NEW flags, Composite(windows', flags),
           \A w \in Windows : (\E i \in 1 .. Len(windows') : windows'[i] = w) => (w \in flags <=> w \in flagged')
    PROVE  DrawInv'
<1>0. /\ base = 0 /\ ScreenInv /\ ScreenInv' /\ windows' \in Lists /\ count' = Len(windows')
      /\ \A p \in Screen : CursorShown(p)
  BY DEF DrawInv, WmInv, StackInv
<1>1. CASE windows' = << >>
  <2>1. count' = 0 /\ base' = 1
    BY <1>0, <1>1 DEF Composite, LastClosed
  <2>2. QED
    BY <2>1 DEF DrawInv
<1>2. CASE windows' # << >>
  <2>1. /\ base' = 0
        /\ \A p \in Screen : CursorShown(p)'
        /\ \A p \in Screen : wm_get_window_at(windows', p) # NULL =>
              Behind(p)' = Drawn(wm_get_window_at(windows', p), flags, p)
    BY <1>0, <1>2, CompositeDraws
  <2>2. ASSUME NEW p \in Screen, wm_get_window_at(windows', p) # NULL
        PROVE  Behind(p)' = Drawn(wm_get_window_at(windows', p), flagged', p)
    <3> DEFINE w == wm_get_window_at(windows', p)
    <3>1. w \in Windows /\ \E i \in 1 .. Len(windows') : windows'[i] = w
      BY <1>0, <2>2, TopAt
    <3> HIDE DEF w
    <3>2. w \in flags <=> w \in flagged'
      BY <3>1
    <3>3. Drawn(w, flags, p) = Drawn(w, flagged', p)
      BY <3>2 DEF Drawn
    <3>4. QED
      BY <2>1, <2>2, <3>3 DEF w
  <2>3. WindowsShown'
    BY <2>2 DEF WindowsShown
  <2>4. QED
    BY <2>1, <2>3 DEF DrawInv
<1>3. QED
  BY <1>1, <1>2

\* cursor_move leaves the picture behind the cursor as it is.
LEMMA MoveShows ==
    ASSUME WmInv, WmInv', DrawInv, NEW d, CursorMove(d), UNCHANGED wmVars, ~Booting, ~Booting'
    PROVE  DrawInv'
<1>0. base' = base /\ windows' = windows /\ flagged' = flagged /\ count' = count /\ Fits(cursor')
  BY DEF CursorMove, drawVars, wmVars, WmInv, ScreenInv, Fits
<1>1. CASE base # 0
  BY <1>0, <1>1 DEF DrawInv
<1>2. CASE base = 0
  <2>1. ASSUME NEW p \in Screen PROVE Behind(p)' = Behind(p) /\ CursorShown(p)'
    <3>0. CursorShown(p)
      BY <1>2 DEF DrawInv
    <3>1. CASE UNCHANGED drawVars
      BY <3>0, <3>1 DEF drawVars, CursorShown, Behind
    <3>2. CASE ~UNCHANGED drawVars
      <4> DEFINE m == Paint(scr, SavedAt(cursor, saved_bg))
      <4>1. /\ saved_bg' = save_background(m, cursor', 0) /\ scr' = Paint(m, InkAt(cursor'))
        BY <1>2, <3>2 DEF CursorMove
      <4>2. m[p] = Behind(p)
        BY <1>2, BaredIs
      <4> HIDE DEF m
      <4>3. /\ Behind(p)' = m[p]
            /\ scr'[p] = IF p \in DOMAIN InkAt(cursor') THEN Pointer ELSE m[p]
        BY <1>0, <1>2, <4>1, CursorDrawn
      <4>4. QED
        BY <3>0, <4>2, <4>3 DEF CursorShown
    <3>3. QED
      BY <3>1, <3>2
  <2>2. ~Booting /\ count > 0 => WindowsShown'
    BY <1>0, <2>1 DEF DrawInv, WindowsShown
  <2>3. QED
    BY <1>0, <1>2, <2>1, <2>2 DEF DrawInv
<1>3. QED
  BY <1>1, <1>2

LEMMA DrawStep == ASSUME WmInv, DrawInv, [Next]_vars PROVE DrawInv'
<1>0. WmInv' /\ WmInv /\ DrawInv
  BY WmStep
<1>1. CASE CreateWindow \/ CreateFails
  <2>1. Booting /\ Booting' /\ UNCHANGED drawVars
    <3>1. Booting /\ UNCHANGED drawVars /\ phase' = [phase EXCEPT !.next = @ + 1]
      BY <1>1 DEF CreateWindow, CreateFails
    <3>2. QED
      BY <3>1 DEF Booting, WmInv, PlaceInv
  <2>2. QED
    BY <2>1 DEF DrawInv, drawVars, CursorShown, Behind
<1>2. CASE FirstComposite
  <2>1. /\ Booting /\ ~Booting' /\ windows' = windows /\ flagged' = flagged
        /\ Composite(windows', flagged)
    BY <1>2 DEF FirstComposite, Goto, Booting, wmVars
  <2>2. QED
    BY <1>0, <2>1, CompositeShows
<1>3. CASE Update \/ ClickDesktop \/ UNCHANGED vars
  <2>1. UNCHANGED <<drawVars, wmVars>> /\ (Booting' <=> Booting)
    BY <1>3 DEF Update, ClickDesktop, Clicked, vars, Goto, At, Booting, drawVars, wmVars
  <2>2. QED
    BY <2>1 DEF DrawInv, drawVars, wmVars, CursorShown, Behind, WindowsShown
<1>4. ASSUME NEW d \in Moves, NEW left \in BOOLEAN, MouseEvent(d, left) PROVE DrawInv'
  <2>1. CursorMove(d) /\ UNCHANGED wmVars /\ ~Booting /\ ~Booting'
    BY <1>4 DEF MouseEvent, At, Booting, Goto
  <2>2. QED
    BY <1>0, <2>1, MoveShows
<1>5. CASE ClickClose
  <2>1. /\ Clicked /\ Target # NULL /\ windows' = remove_from_list(windows, Target)
        /\ Composite(windows', flagged) /\ flagged' = flagged \ {Target}
    BY <1>5 DEF ClickClose
  <2>2. ~Booting /\ ~Booting'
    BY <2>1 DEF Clicked, At, Goto, Booting
  <2>3. PICK k \in 1 .. Len(windows) : windows[k] = Target
    BY <1>0, <2>1, TargetIn DEF WmInv, StackInv
  <2>4. count > 0
    BY <1>0, <2>3 DEF WmInv, StackInv, Lists
  <2>5. \A i \in 1 .. Len(windows') : windows'[i] # Target
    BY <1>0, <1>5, CloseKeeps
  <2>6. QED
    BY <1>0, <2>1, <2>2, <2>4, <2>5, CompositeShows
<1>6. CASE ClickFocus
  <2>1. Clicked /\ Target # NULL /\ Composite(windows', flagged')
    BY <1>6 DEF ClickFocus
  <2>2. ~Booting /\ ~Booting'
    BY <2>1 DEF Clicked, At, Goto, Booting
  <2>3. PICK k \in 1 .. Len(windows) : windows[k] = Target
    BY <1>0, <2>1, TargetIn DEF WmInv, StackInv
  <2>4. count > 0
    BY <1>0, <2>3 DEF WmInv, StackInv, Lists
  <2>5. QED
    BY <1>0, <2>1, <2>2, <2>4, CompositeShows
<1>7. CASE UpdateEnd
  <2>1. /\ ~Booting /\ ~Booting' /\ UNCHANGED wmVars
        /\ \/ Composite(windows, flagged)
           \/ UNCHANGED drawVars
    BY <1>7 DEF UpdateEnd, At, Goto, Booting
  <2>2. CASE UNCHANGED drawVars
    BY <2>1, <2>2 DEF DrawInv, drawVars, wmVars, CursorShown, Behind, WindowsShown
  <2>3. CASE Composite(windows, flagged) /\ count > 0
    BY <1>0, <2>1, <2>3, CompositeShows DEF wmVars
  <2>4. CASE Composite(windows, flagged) /\ ~(count > 0)
    <3>1. windows = << >> /\ count' = 0 /\ base \in Nat
      BY <1>0, <2>1, <2>4 DEF WmInv, StackInv, ScreenInv, Lists, wmVars
    <3>2. base' = base + 1
      BY <2>4, <3>1 DEF Composite, LastClosed
    <3>3. QED
      BY <2>1, <3>1, <3>2 DEF DrawInv
  <2>5. QED
    BY <2>1, <2>2, <2>3, <2>4
<1>8. QED
  BY <1>1, <1>2, <1>3, <1>4, <1>5, <1>6, <1>7 DEF Next

\* Between updates every point of an open window shows the window that a click
\* there reaches, in the colours of its focus (SeenIsClicked).
THEOREM SeenAlwaysClicked == Spec => []SeenIsClicked
<1>1. Init => WmInv /\ DrawInv
  BY InitWm, InitDraw
<1>2. WmInv /\ DrawInv /\ [Next]_vars => WmInv' /\ DrawInv'
  BY WmStep, DrawStep
<1>3. WmInv /\ DrawInv => SeenIsClicked
  <2> SUFFICES ASSUME WmInv, DrawInv, At("idle"), count > 0, NEW p \in Screen,
                      wm_get_window_at(windows, p) # NULL
               PROVE  Behind(p) = Drawn(wm_get_window_at(windows, p), {focused}, p)
    BY DEF SeenIsClicked
  <2> DEFINE w == wm_get_window_at(windows, p)
  <2>1. Behind(p) = Drawn(w, flagged, p)
    BY DEF DrawInv, WindowsShown, At, Booting
  <2>2. w \in flagged <=> w \in {focused}
    BY DEF WmInv, StackInv
  <2> HIDE DEF w
  <2>3. Drawn(w, flagged, p) = Drawn(w, {focused}, p)
    BY <2>2 DEF Drawn
  <2>4. QED
    BY <2>1, <2>3 DEF w
<1>4. QED
  BY <1>1, <1>2, <1>3, PTL DEF Spec

\* While a window is open the cursor is drawn exactly where it is, and is never
\* saved as background (NoCursorTrail).
THEOREM NoTrailEver == Spec => []NoCursorTrail
<1>1. Init => WmInv /\ DrawInv
  BY InitWm, InitDraw
<1>2. WmInv /\ DrawInv /\ [Next]_vars => WmInv' /\ DrawInv'
  BY WmStep, DrawStep
<1>3. WmInv /\ DrawInv => NoCursorTrail
  <2> SUFFICES ASSUME WmInv, DrawInv, count > 0, ~Booting
               PROVE  /\ {p \in Screen : scr[p] = Pointer} = DOMAIN InkAt(cursor)
                      /\ \A o \in Sprite : saved_bg[o] # Pointer
    BY DEF NoCursorTrail
  <2>1. Fits(cursor) /\ \A p \in Screen : CursorShown(p)
    BY DEF WmInv, ScreenInv, Fits, DrawInv
  <2>2. DOMAIN InkAt(cursor) \subseteq Screen
    BY <2>1, InkIs, SavedIs
  <2>3. {p \in Screen : scr[p] = Pointer} = DOMAIN InkAt(cursor)
    BY <2>1, <2>2 DEF CursorShown
  <2>4. ASSUME NEW o \in Sprite PROVE saved_bg[o] # Pointer
    <3>1. /\ Shift(cursor, o) \in Screen /\ Shift(cursor, o) \in DOMAIN SavedAt(cursor, saved_bg)
          /\ SavedAt(cursor, saved_bg)[Shift(cursor, o)] = saved_bg[o]
      BY <2>1, SpriteAt, SavedIs
    <3>2. Behind(Shift(cursor, o)) = saved_bg[o]
      BY <3>1 DEF Behind
    <3>3. QED
      BY <2>1, <3>1, <3>2 DEF CursorShown
  <2>5. QED
    BY <2>3, <2>4
<1>4. QED
  BY <1>1, <1>2, <1>3, PTL DEF Spec

=============================================================================
