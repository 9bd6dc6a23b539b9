--------------------------- MODULE KmallocProofs ---------------------------
(***************************************************************************)
(* Proofs about the kernel heap, for every heap size, every set of callers *)
(* and everything they store.  The hypothesis Undisturbed is the setting   *)
(* in which the code keeps its promises: calls do not overlap, and no size *)
(* asked for is so large that need_size wraps around.                      *)
(*                                                                         *)
(* The first part is about the tags: Tiling(m, B) says that the memory m   *)
(* describes exactly the blocks B, and marking, splitting, merging and     *)
(* filling blocks preserve it.  The second part is the inductive invariant *)
(* HeapInv and one lemma per action; the theorems follow.                  *)
(***************************************************************************)
EXTENDS Kmalloc, TLAPS, WellFoundedInduction

\* The size the tag of b states in the memory m.
Size(m, b) == BLOCK_SIZE(m[b])

\* The blocks B, as the tags in m describe them, tile the heap.
Tiling(m, B) ==
    /\ m \in [Words -> 0 .. U32 - 1] /\ B \subseteq Words
    /\ 0 \in B /\ m[HEAP_SIZE] = 1
    /\ \A b \in B : /\ b % ALIGN = 0 /\ m[b] % ALIGN \in {0, 1} /\ Size(m, b) >= MIN_BLOCK
                    /\ b + Size(m, b) \in B \cup {HEAP_SIZE}
                    /\ m[b + Size(m, b) - HEADER_SIZE] = m[b]
    /\ \A b, d \in B : d > b => d >= b + Size(m, b)

\* What the macros read back from a tag.
LEMMA TagSize ==
    ASSUME NEW size \in Nat, size % ALIGN = 0, NEW bit \in {0, 1}
    PROVE  /\ BLOCK_SIZE(size + bit) = size /\ (size + bit) % ALIGN = bit
           /\ BLOCK_IS_ALLOC(size + bit) <=> bit = 1
BY DEF BLOCK_SIZE, BLOCK_IS_ALLOC, ALIGN

\* A block of a tiling lies inside the heap, aligned, with its footer inside.
LEMMA BlockFacts ==
    ASSUME NEW m, NEW B, Tiling(m, B), NEW b \in B
    PROVE  /\ b \in Nat /\ m[b] \in Nat /\ Size(m, b) \in Nat /\ Size(m, b) % ALIGN = 0
           /\ b % ALIGN = 0 /\ Size(m, b) >= MIN_BLOCK /\ b + Size(m, b) <= HEAP_SIZE
           /\ m[b] = Size(m, b) \/ m[b] = Size(m, b) + 1
           /\ b \in Words /\ b < HEAP_SIZE
           /\ b + Size(m, b) - HEADER_SIZE \in Words
<1>1. b \in Nat /\ m[b] \in Nat /\ b \in Words
  BY KmallocAssumption DEF Tiling, Words
<1>2. /\ Size(m, b) \in Nat /\ Size(m, b) % ALIGN = 0
      /\ m[b] = Size(m, b) \/ m[b] = Size(m, b) + 1
  BY <1>1 DEF Tiling, Size, BLOCK_SIZE, ALIGN
<1>3. b % ALIGN = 0 /\ Size(m, b) >= MIN_BLOCK /\ b + Size(m, b) \in B \cup {HEAP_SIZE}
  BY DEF Tiling
<1>4. b + Size(m, b) <= HEAP_SIZE
  <2>1. HEAP_SIZE \in Nat /\ \A w \in B : w \in 0 .. HEAP_SIZE
    BY KmallocAssumption DEF Tiling, Words
  <2>2. QED
    BY <1>3, <2>1
<1>5. b + Size(m, b) - HEADER_SIZE \in Words
  BY <1>1, <1>2, <1>3, <1>4, KmallocAssumption DEF Words, MIN_BLOCK, HEADER_SIZE, ALIGN
<1>6. QED
  BY <1>1, <1>2, <1>3, <1>4, <1>5, KmallocAssumption DEF MIN_BLOCK

\* Different blocks have no word in common.
LEMMA BlocksApart ==
    ASSUME NEW m, NEW B, Tiling(m, B), NEW b \in B, NEW d \in B, b # d
    PROVE  b + Size(m, b) <= d \/ d + Size(m, d) <= b
<1>1. b \in Nat /\ d \in Nat
  BY BlockFacts
<1>2. b < d \/ d < b
  BY <1>1
<1>3. QED
  BY <1>2 DEF Tiling

\* Changes inside one block leave the tags of the others alone.
LEMMA TagsApart ==
    ASSUME NEW m, NEW B, Tiling(m, B), NEW a \in B, NEW d \in B, a # d
    PROVE  /\ d < a \/ d >= a + Size(m, a)
           /\ d + Size(m, d) - HEADER_SIZE < a \/ d + Size(m, d) - HEADER_SIZE >= a + Size(m, a)
<1>1. /\ a \in Nat /\ d \in Nat /\ Size(m, a) \in Nat /\ Size(m, d) \in Nat
      /\ Size(m, a) >= MIN_BLOCK /\ Size(m, d) >= MIN_BLOCK
  BY BlockFacts
<1>2. QED
  BY <1>1, BlocksApart DEF MIN_BLOCK, HEADER_SIZE

\* A block other than the first begins where another one ends.
LEMMA Predecessor ==
    ASSUME NEW m, NEW B, Tiling(m, B), NEW a \in B, a # 0
    PROVE  \E b \in B : b + Size(m, b) = a
<1>0. \A b \in B : b \in Nat /\ Size(m, b) \in Nat /\ Size(m, b) > 0
  BY BlockFacts DEF MIN_BLOCK
<1> DEFINE S == {k \in 1 .. a : a - k \in B}
<1>1. S \in SUBSET Nat /\ a \in S
  BY <1>0 DEF Tiling
<1>2. PICK k \in S : \A j \in S : ~(<<j, k>> \in OpToRel(<, Nat))
  BY <1>1, NatLessThanWellFounded, WFMin
<1>3. \A j \in S : k <= j
  <2> SUFFICES ASSUME NEW j \in S PROVE ~(j < k)
    BY <1>1
  <2>1. <<j, k>> \in Nat \X Nat
    BY <1>1
  <2>2. QED
    BY <1>2, <2>1 DEF OpToRel
<1> DEFINE b == a - k
<1>4. b \in B /\ b < a /\ b \in Nat
  BY <1>0
<1>5. b + Size(m, b) <= a
  BY <1>4 DEF Tiling
<1>6. a < HEAP_SIZE
  BY BlockFacts
<1>7. b + Size(m, b) \in B
  BY <1>0, <1>4, <1>5, <1>6, KmallocAssumption DEF Tiling
<1>8. ~(b + Size(m, b) < a)
  <2> SUFFICES ASSUME b + Size(m, b) < a PROVE FALSE
    OBVIOUS
  <2> DEFINE j == a - (b + Size(m, b))
  <2>1. j \in 1 .. a /\ j < k /\ a - j = b + Size(m, b)
    BY <1>0, <1>4
  <2>2. j \in S
    BY <1>7, <2>1
  <2>3. QED
    BY <1>3, <2>1, <2>2
<1>9. QED
  BY <1>0, <1>4, <1>5, <1>8

\* Setting or clearing the allocation bit of a block.
LEMMA RetagTiles ==
    ASSUME NEW m, NEW B, Tiling(m, B), NEW a \in B, NEW bit \in {0, 1}
    PROVE  LET r == Tagged(m, a, Size(m, a), bit)
           IN  /\ Tiling(r, B) /\ r[a] = Size(m, a) + bit /\ Size(r, a) = Size(m, a)
               /\ \A d \in B \ {a} : r[d] = m[d] /\ Size(r, d) = Size(m, d)
<1> DEFINE s == Size(m, a)
           r == Tagged(m, a, s, bit)
           f == a + s - HEADER_SIZE
<1>1. /\ a \in Nat /\ s \in Nat /\ s % ALIGN = 0 /\ s >= MIN_BLOCK /\ a + s <= HEAP_SIZE
      /\ a \in Words /\ f \in Words /\ a % ALIGN = 0 /\ f # a /\ f < HEAP_SIZE /\ a < HEAP_SIZE
  BY BlockFacts, KmallocAssumption DEF MIN_BLOCK, HEADER_SIZE
<1>2. m \in [Words -> 0 .. U32 - 1] /\ HEAP_SIZE \in Words /\ s + bit \in 0 .. U32 - 1
  BY <1>1, KmallocAssumption DEF Tiling, Words, ALIGN, HEADER_SIZE
<1>3. /\ r \in [Words -> 0 .. U32 - 1] /\ r[a] = s + bit /\ r[f] = s + bit
      /\ \A w \in Words \ {a, f} : r[w] = m[w]
  BY <1>1, <1>2 DEF Tagged
<1>4. Size(r, a) = s /\ r[a] % ALIGN = bit
  BY <1>1, <1>3, TagSize DEF Size
<1>5. ASSUME NEW d \in B \ {a}
      PROVE  /\ r[d] = m[d] /\ Size(r, d) = Size(m, d)
             /\ r[d + Size(m, d) - HEADER_SIZE] = m[d + Size(m, d) - HEADER_SIZE]
  <2>1. /\ d \in Words /\ d + Size(m, d) - HEADER_SIZE \in Words /\ d \in Nat /\ Size(m, d) \in Nat
    BY BlockFacts
  <2>2. /\ d < a \/ d >= a + s
        /\ d + Size(m, d) - HEADER_SIZE < a \/ d + Size(m, d) - HEADER_SIZE >= a + s
    BY TagsApart
  <2>3. /\ d # a /\ d # f
        /\ d + Size(m, d) - HEADER_SIZE # a /\ d + Size(m, d) - HEADER_SIZE # f
    BY <1>1, <2>1, <2>2 DEF MIN_BLOCK, HEADER_SIZE
  <2>4. QED
    BY <1>3, <2>1, <2>3 DEF Size
<1> HIDE DEF r, f
<1>6. \A d \in B : Size(r, d) = Size(m, d)
  BY <1>4, <1>5
<1>7. Tiling(r, B)
  <2>1. r[HEAP_SIZE] = 1
    BY <1>1, <1>2, <1>3 DEF Tiling
  <2>2. \A b \in B : /\ b % ALIGN = 0 /\ r[b] % ALIGN \in {0, 1} /\ Size(r, b) >= MIN_BLOCK
                     /\ b + Size(r, b) \in B \cup {HEAP_SIZE}
                     /\ r[b + Size(r, b) - HEADER_SIZE] = r[b]
    <3> TAKE b \in B
    <3>1. CASE b = a
      BY <1>3, <1>4, <3>1 DEF Tiling, f
    <3>2. CASE b # a
      BY <1>5, <3>2 DEF Tiling
    <3>3. QED
      BY <3>1, <3>2
  <2>3. \A b, d \in B : d > b => d >= b + Size(r, b)
    BY <1>6 DEF Tiling
  <2>4. QED
    BY <1>3, <2>1, <2>2, <2>3 DEF Tiling
<1>8. QED
  BY <1>3, <1>4, <1>5, <1>7 DEF r

\* Taking n bytes from the front of a block, the rest becomes a block of its own.
LEMMA SplitTiles ==
    ASSUME NEW m, NEW B, Tiling(m, B), NEW a \in B, NEW n \in Nat, n % ALIGN = 0,
           n >= MIN_BLOCK, Size(m, a) - n >= MIN_BLOCK,
           NEW r, r = Tagged(Tagged(m, a, n, 1), a + n, Size(m, a) - n, 0)
    PROVE  /\ Tiling(r, B \cup {a, a + n})
           /\ r[a] = n + 1 /\ Size(r, a) = n
           /\ r[a + n] = Size(m, a) - n /\ Size(r, a + n) = Size(m, a) - n
           /\ a + n \notin B
           /\ \A d \in B \ {a} : r[d] = m[d] /\ Size(r, d) = Size(m, d)
<1> DEFINE s == Size(m, a)
           e == a + n
           k == s - n
           f == a + n - HEADER_SIZE
           g == a + s - HEADER_SIZE
           C == B \cup {e}
<1>0. r = Tagged(Tagged(m, a, n, 1), e, k, 0)
  OBVIOUS
<1>1. /\ a \in Nat /\ s \in Nat /\ s % ALIGN = 0 /\ s >= MIN_BLOCK /\ a + s <= HEAP_SIZE
      /\ a \in Words /\ g \in Words /\ a % ALIGN = 0 /\ g < HEAP_SIZE /\ a < HEAP_SIZE
  BY BlockFacts, KmallocAssumption DEF MIN_BLOCK, HEADER_SIZE
<1>2. /\ m \in [Words -> 0 .. U32 - 1] /\ HEAP_SIZE \in Words
      /\ n + 1 \in 0 .. U32 - 1 /\ k \in 0 .. U32 - 1 /\ k \in Nat /\ k % ALIGN = 0
      /\ e \in Nat /\ e % ALIGN = 0 /\ e \in Words /\ f \in Words
  BY <1>1, KmallocAssumption DEF Tiling, Words, ALIGN, HEADER_SIZE, MIN_BLOCK
<1>3. /\ a < f /\ f < e /\ e < g /\ g < a + s /\ e + k - HEADER_SIZE = g /\ e + k = a + s
  BY <1>1, <1>2 DEF HEADER_SIZE, MIN_BLOCK
<1>4. /\ r \in [Words -> 0 .. U32 - 1] /\ r[a] = n + 1 /\ r[f] = n + 1 /\ r[e] = k /\ r[g] = k
      /\ \A w \in Words : (w < a \/ w >= a + s) => r[w] = m[w]
  <2> HIDE DEF f, g, s, k, e
  <2>1. r = [m EXCEPT ![a] = n + 1, ![f] = n + 1, ![e] = k + 0, ![g] = k + 0]
    BY <1>0, <1>3 DEF Tagged, f
  <2>2. k + 0 = k
    BY <1>2
  <2>3. QED
    BY <1>1, <1>2, <1>3, <2>1, <2>2
<1> HIDE DEF f, g
<1>5. /\ Size(r, a) = n /\ r[a] % ALIGN = 1 /\ Size(r, e) = k /\ r[e] % ALIGN = 0
  <2>1. BLOCK_SIZE(n + 1) = n /\ (n + 1) % ALIGN = 1
    BY TagSize
  <2>2. BLOCK_SIZE(k) = k /\ k % ALIGN = 0
    BY <1>2 DEF BLOCK_SIZE
  <2>3. QED
    BY <1>4, <2>1, <2>2 DEF Size
<1>6. ASSUME NEW d \in B \ {a}
      PROVE  /\ r[d] = m[d] /\ Size(r, d) = Size(m, d) /\ d \in Nat /\ Size(m, d) \in Nat
             /\ r[d + Size(m, d) - HEADER_SIZE] = m[d + Size(m, d) - HEADER_SIZE]
             /\ \/ d + Size(m, d) <= a
                \/ a + s <= d
  <2>1. /\ d \in Words /\ d + Size(m, d) - HEADER_SIZE \in Words /\ d \in Nat /\ Size(m, d) \in Nat
    BY BlockFacts
  <2>2. /\ d < a \/ d >= a + s
        /\ d + Size(m, d) - HEADER_SIZE < a \/ d + Size(m, d) - HEADER_SIZE >= a + s
    BY TagsApart
  <2>3. d + Size(m, d) <= a \/ a + s <= d
    BY BlocksApart
  <2>4. QED
    BY <1>4, <2>1, <2>2, <2>3 DEF Size
<1>7. e \notin B
  <2> SUFFICES ASSUME e \in B PROVE FALSE
    OBVIOUS
  <2>1. e # a
    BY <1>1, <1>2, <1>3, KmallocAssumption DEF f, HEADER_SIZE
  <2>2. QED
    BY <1>1, <1>2, <1>3, <1>6, <2>1, BlockFacts DEF MIN_BLOCK, g, f, HEADER_SIZE
<1>8. Tiling(r, C)
  <2>1. r[HEAP_SIZE] = 1 /\ C \subseteq Words /\ 0 \in C
    BY <1>1, <1>2, <1>4 DEF Tiling
  <2>2. ASSUME NEW b \in C
        PROVE  /\ b % ALIGN = 0 /\ r[b] % ALIGN \in {0, 1} /\ Size(r, b) >= MIN_BLOCK
               /\ b + Size(r, b) \in C \cup {HEAP_SIZE}
               /\ r[b + Size(r, b) - HEADER_SIZE] = r[b]
    <3>1. CASE b = a
      BY <1>1, <1>4, <1>5, <3>1 DEF f
    <3>2. CASE b = e
      <4>1. a + s \in B \cup {HEAP_SIZE}
        BY DEF Tiling
      <4>2. QED
        BY <1>2, <1>3, <1>4, <1>5, <3>2, <4>1 DEF g
    <3>3. CASE b # a /\ b # e
      BY <1>6, <3>3 DEF Tiling
    <3>4. QED
      BY <3>1, <3>2, <3>3
  <2>3. ASSUME NEW b \in C, NEW d \in C, d > b
        PROVE  d >= b + Size(r, b)
    <3>1. CASE b = a
      <4>1. CASE d = e
        BY <1>5, <3>1, <4>1
      <4>2. CASE d \in B \ {a}
        BY <1>1, <1>2, <1>3, <1>5, <1>6, <2>3, <3>1, <4>2, BlockFacts DEF MIN_BLOCK
      <4>3. QED
        BY <1>1, <2>3, <3>1, <4>1, <4>2
    <3>2. CASE b = e
      <4>1. d \in B \ {a}
        BY <1>1, <1>2, <1>3, <2>3, <3>2 DEF f, HEADER_SIZE
      <4>2. QED
        BY <1>1, <1>2, <1>3, <1>5, <1>6, <2>3, <3>2, <4>1
    <3>3. CASE b \in B \ {a}
      <4>1. CASE d = e
        BY <1>1, <1>2, <1>3, <1>6, <2>3, <3>3, <4>1
      <4>2. CASE d \in B
        BY <1>6, <2>3, <3>3, <4>2 DEF Tiling
      <4>3. QED
        BY <4>1, <4>2
    <3>4. QED
      BY <3>1, <3>2, <3>3
  <2>4. QED
    BY <1>4, <2>1, <2>2, <2>3 DEF Tiling
<1>9. C = B \cup {a, a + n}
  OBVIOUS
<1>10. QED
  BY <1>4, <1>5, <1>6, <1>7, <1>8, <1>9

\* A block and the one behind it become one free block.
LEMMA JoinTiles ==
    ASSUME NEW m, NEW B, Tiling(m, B), NEW a \in B, NEW e \in B, e = a + Size(m, a),
           NEW k, k = Size(m, a) + Size(m, e), NEW r, r = Tagged(m, a, k, 0)
    PROVE  /\ Tiling(r, B \ {e}) /\ r[a] = k /\ Size(r, a) = k
           /\ e # a
           /\ \A d \in B \ {a, e} : r[d] = m[d] /\ Size(r, d) = Size(m, d)
<1> DEFINE s == Size(m, a)
           g == a + k - HEADER_SIZE
           C == B \ {e}
<1>1. /\ a \in Nat /\ s \in Nat /\ s % ALIGN = 0 /\ s >= MIN_BLOCK
      /\ a \in Words /\ a % ALIGN = 0 /\ a < HEAP_SIZE
  BY BlockFacts
<1>2. /\ e \in Nat /\ Size(m, e) \in Nat /\ Size(m, e) % ALIGN = 0 /\ Size(m, e) >= MIN_BLOCK
      /\ e + Size(m, e) <= HEAP_SIZE /\ e + Size(m, e) - HEADER_SIZE \in Words
  BY BlockFacts
<1>3. /\ k \in Nat /\ k % ALIGN = 0 /\ k >= MIN_BLOCK /\ a + k = e + Size(m, e) /\ g \in Words
      /\ a < g /\ g < a + k /\ g < HEAP_SIZE /\ k \in 0 .. U32 - 1 /\ a < e /\ HEAP_SIZE \in Words
  <2>1. k \in Nat /\ k % ALIGN = 0 /\ k >= MIN_BLOCK /\ a + k = e + Size(m, e) /\ a < e
    BY <1>1, <1>2 DEF ALIGN, MIN_BLOCK
  <2>2. g \in Words
    <3>1. g = e + Size(m, e) - HEADER_SIZE
      BY <1>1, <1>2, <2>1 DEF HEADER_SIZE
    <3>2. QED
      BY ONLY <1>2, <3>1
  <2>3. HEAP_SIZE \in Nat /\ HEAP_SIZE \in Words /\ U32 \in Nat /\ U32 > HEAP_SIZE
    BY KmallocAssumption DEF ALIGN, HEADER_SIZE, Words
  <2>4. a + k <= HEAP_SIZE
    BY <1>2, <2>1
  <2>5. a < g /\ g < a + k /\ g < HEAP_SIZE /\ k \in 0 .. U32 - 1
    BY ONLY <1>1, <2>1, <2>3, <2>4 DEF MIN_BLOCK, HEADER_SIZE
  <2>6. QED
    BY <2>1, <2>2, <2>3, <2>5
<1>4. /\ r \in [Words -> 0 .. U32 - 1] /\ r[a] = k /\ r[g] = k
      /\ \A w \in Words : (w < a \/ w >= a + k) => r[w] = m[w]
  <2> HIDE DEF g
  <2>1. r = [m EXCEPT ![a] = k + 0, ![g] = k + 0] /\ m \in [Words -> 0 .. U32 - 1]
    BY DEF Tagged, Tiling, g
  <2>2. k + 0 = k
    BY <1>3
  <2>3. QED
    BY <1>1, <1>3, <2>1, <2>2
<1> HIDE DEF g
<1>5. Size(r, a) = k /\ r[a] % ALIGN = 0
  <2>1. BLOCK_SIZE(k) = k
    BY <1>3 DEF BLOCK_SIZE
  <2>2. QED
    BY <1>3, <1>4, <2>1 DEF Size
<1>6. ASSUME NEW d \in B \ {a, e}
      PROVE  /\ r[d] = m[d] /\ Size(r, d) = Size(m, d) /\ d \in Nat /\ Size(m, d) \in Nat
             /\ r[d + Size(m, d) - HEADER_SIZE] = m[d + Size(m, d) - HEADER_SIZE]
             /\ \/ d + Size(m, d) <= a
                \/ a + k <= d
             /\ d + Size(m, d) # e
  <2>1. /\ d \in Words /\ d + Size(m, d) - HEADER_SIZE \in Words /\ d \in Nat
        /\ Size(m, d) \in Nat /\ Size(m, d) >= MIN_BLOCK
    BY BlockFacts
  <2>2. d + Size(m, d) <= a \/ a + s <= d
    BY BlocksApart
  <2>3. d + Size(m, d) <= e \/ e + Size(m, e) <= d
    BY BlocksApart
  <2>4. d + Size(m, d) <= a \/ a + k <= d
    BY <1>1, <1>2, <1>3, <2>1, <2>2, <2>3 DEF MIN_BLOCK
  <2>5. /\ d < a \/ d >= a + k
        /\ d + Size(m, d) - HEADER_SIZE < a \/ d + Size(m, d) - HEADER_SIZE >= a + k
        /\ d + Size(m, d) # e
    BY <1>1, <1>2, <1>3, <2>1, <2>4 DEF HEADER_SIZE, MIN_BLOCK
  <2>6. QED
    BY <1>4, <2>1, <2>4, <2>5 DEF Size
<1>7. Tiling(r, C)
  <2>1. r[HEAP_SIZE] = 1 /\ C \subseteq Words /\ 0 \in C
    <3>1. a + k <= HEAP_SIZE /\ HEAP_SIZE \in Nat /\ m[HEAP_SIZE] = 1 /\ B \subseteq Words /\ 0 \in B
      BY <1>2, <1>3, KmallocAssumption DEF Tiling
    <3>2. r[HEAP_SIZE] = m[HEAP_SIZE]
      BY <1>1, <1>3, <1>4, <3>1
    <3>3. e # 0
      BY <1>1, <1>2, <1>3
    <3>4. QED
      BY <3>1, <3>2, <3>3
  <2>2. ASSUME NEW b \in C
        PROVE  /\ b % ALIGN = 0 /\ r[b] % ALIGN \in {0, 1} /\ Size(r, b) >= MIN_BLOCK
               /\ b + Size(r, b) \in C \cup {HEAP_SIZE}
               /\ r[b + Size(r, b) - HEADER_SIZE] = r[b]
    <3>1. CASE b = a
      <4>1. e + Size(m, e) \in B \cup {HEAP_SIZE}
        BY DEF Tiling
      <4>2. e + Size(m, e) # e
        BY <1>2 DEF MIN_BLOCK
      <4>3. a + k \in C \cup {HEAP_SIZE}
        BY <1>3, <4>1, <4>2
      <4>4. QED
        BY <1>1, <1>3, <1>4, <1>5, <3>1, <4>3 DEF g
    <3>2. CASE b # a
      BY <1>6, <3>2 DEF Tiling
    <3>3. QED
      BY <3>1, <3>2
  <2>3. ASSUME NEW b \in C, NEW d \in C, d > b
        PROVE  d >= b + Size(r, b)
    <3>1. CASE b = a
      <4>1. d \in B \ {a, e}
        BY <1>1, <2>3, <3>1
      <4>2. QED
        BY <1>1, <1>3, <1>5, <1>6, <2>3, <3>1, <4>1, BlockFacts DEF MIN_BLOCK
    <3>2. CASE b # a
      BY <1>6, <2>3, <3>2 DEF Tiling
    <3>3. QED
      BY <3>1, <3>2
  <2>4. QED
    BY <1>4, <2>1, <2>2, <2>3 DEF Tiling
<1>8. e # a
  BY <1>1, <1>2, <1>3
<1>9. QED
  BY <1>4, <1>5, <1>6, <1>7, <1>8

\* Stores between the tags of a block change no tag.
LEMMA FillTiles ==
    ASSUME NEW m, NEW B, Tiling(m, B), NEW a \in B, NEW W \in SUBSET Words,
           \A w \in W : a < w /\ w < a + Size(m, a) - HEADER_SIZE,
           NEW r \in [Words -> 0 .. U32 - 1], \A w \in Words \ W : r[w] = m[w]
    PROVE  Tiling(r, B) /\ \A d \in B : r[d] = m[d] /\ Size(r, d) = Size(m, d)
<1>1. m \in [Words -> 0 .. U32 - 1] /\ HEAP_SIZE \in Words /\ HEAP_SIZE \in Nat
  BY KmallocAssumption DEF Tiling, Words, ALIGN, HEADER_SIZE
<1>2. \A w \in W : w \in Nat
  BY DEF Words
<1>3. ASSUME NEW d \in B
      PROVE  r[d] = m[d] /\ r[d + Size(m, d) - HEADER_SIZE] = m[d + Size(m, d) - HEADER_SIZE]
  <2>1. /\ d \in Words /\ d + Size(m, d) - HEADER_SIZE \in Words /\ d \in Nat
        /\ Size(m, d) \in Nat /\ Size(m, d) >= MIN_BLOCK
        /\ a \in Nat /\ Size(m, a) \in Nat /\ Size(m, a) >= MIN_BLOCK
    BY BlockFacts
  <2>2. d \notin W /\ d + Size(m, d) - HEADER_SIZE \notin W
    <3>1. CASE d = a
      BY <1>2, <2>1, <3>1 DEF MIN_BLOCK, HEADER_SIZE
    <3>2. CASE d # a
      BY <1>2, <2>1, <3>2, TagsApart DEF HEADER_SIZE
    <3>3. QED
      BY <3>1, <3>2
  <2>3. QED
    BY <2>1, <2>2
<1>4. \A d \in B : r[d] = m[d] /\ Size(r, d) = Size(m, d)
  BY <1>3 DEF Size
<1>5. r[HEAP_SIZE] = 1
  <2>1. a + Size(m, a) <= HEAP_SIZE /\ a \in Nat /\ Size(m, a) \in Nat
    BY BlockFacts
  <2>2. HEAP_SIZE \notin W
    <3> SUFFICES ASSUME HEAP_SIZE \in W PROVE FALSE
      OBVIOUS
    <3>1. HEAP_SIZE < a + Size(m, a) - HEADER_SIZE
      OBVIOUS
    <3>2. QED
      BY <1>1, <2>1, <3>1 DEF HEADER_SIZE
  <2>3. QED
    BY <1>1, <2>2 DEF Tiling
<1>6. r \in [Words -> 0 .. U32 - 1]
  BY <1>1
<1>7. Tiling(r, B)
  BY <1>3, <1>4, <1>5, <1>6 DEF Tiling
<1>8. QED
  BY <1>4, <1>7

-----------------------------------------------------------------------------

\* One call ends before the next begins, and no size makes need_size wrap.
Undisturbed == Preempt = FALSE /\ \A size \in Sizes : size <= U32 - 16

\* The variables besides mem and blocks keep their types.
Types ==
    /\ pc \in [Callers -> {"idle", "search", "take", "mark", "next", "prev"}]
    /\ cur \in [Callers -> Words]
    /\ need \in [Callers -> 0 .. U32 - 1] /\ request \in [Callers -> Nat]

\* At most one call is in progress.
OneAtATime == \A c, d \in Callers : pc[c] # "idle" /\ pc[d] # "idle" => c = d

\* A block of need bytes has room for the request and both tags.
Asked(c) == /\ need[c] % ALIGN = 0 /\ need[c] >= MIN_BLOCK
            /\ request[c] + 2 * HEADER_SIZE <= need[c]

\* What a call holds in its locals is true of the heap it goes on with.
CallsFit ==
    \A c \in Callers :
        /\ pc[c] = "search" => /\ cur[c] \in blocks \cup {HEAP_SIZE} /\ Asked(c)
                               /\ \A b \in blocks : b < cur[c] /\ FreeAt(b) => SizeAt(b) < need[c]
        /\ pc[c] = "take" => /\ cur[c] \in blocks /\ FreeAt(cur[c]) /\ Asked(c)
                             /\ SizeAt(cur[c]) >= need[c]
        /\ pc[c] = "mark" => /\ cur[c] \in blocks /\ ~FreeAt(cur[c])
                             /\ \A p \in owned : p.ptr # cur[c] + HEADER_SIZE
        /\ pc[c] \in {"next", "prev"} => cur[c] \in blocks /\ FreeAt(cur[c])

\* Memory given out is the inside of a block in use, a different one each time.
OwnedFit ==
    /\ owned \in SUBSET [ptr : Nat, size : Nat]
    /\ \A p \in owned : /\ p.ptr - HEADER_SIZE \in blocks /\ ~FreeAt(p.ptr - HEADER_SIZE)
                        /\ p.ptr + p.size <= BLOCK_FOOTER(p.ptr - HEADER_SIZE)
    /\ \A p, q \in owned : p.ptr = q.ptr => p = q

\* A block in use belongs to somebody, or is being freed.
NoneLost ==
    \A b \in blocks :
        ~FreeAt(b) => \/ \E p \in owned : p.ptr = b + HEADER_SIZE
                      \/ \E c \in Callers : pc[c] = "mark" /\ cur[c] = b

\* Two free neighbours are about to be merged.
FreeApart ==
    \A b \in blocks :
        FreeAt(b) /\ NEXT_BLOCK(b) \in blocks /\ FreeAt(NEXT_BLOCK(b)) =>
            \E c \in Callers :
                \/ pc[c] = "next" /\ (b = cur[c] \/ NEXT_BLOCK(b) = cur[c])
                \/ pc[c] = "prev" /\ NEXT_BLOCK(b) = cur[c]

\* The inductive invariant.
HeapInv == /\ Tiling(mem, blocks) /\ Types /\ OneAtATime /\ CallsFit
           /\ OwnedFit /\ NoneLost /\ FreeApart

\* A number below m is its own remainder.
LEMMA ModOnce ==
    ASSUME NEW m \in Nat \ {0}, NEW x \in 0 .. m - 1
    PROVE  x % m = x
BY SMT

\* need_size leaves room for the request and both tags.
LEMMA NeedFits ==
    ASSUME Undisturbed, NEW size \in Sizes
    PROVE  /\ need_size(size) \in 0 .. U32 - 1 /\ need_size(size) % ALIGN = 0
           /\ need_size(size) >= MIN_BLOCK /\ size + 2 * HEADER_SIZE <= need_size(size)
           /\ size \in Nat
<1>1. size \in Nat /\ U32 \in Nat \ {0} /\ size + ALIGN - 1 \in 0 .. U32 - 1 /\ U32 > MIN_BLOCK
  BY KmallocAssumption DEF Undisturbed, ALIGN, MIN_BLOCK
<1>2. Aligned(size) = BLOCK_SIZE(size + ALIGN - 1)
  BY <1>1, ModOnce DEF Aligned
<1>3. /\ Aligned(size) \in Nat /\ Aligned(size) % ALIGN = 0 /\ Aligned(size) >= size
      /\ Aligned(size) <= size + ALIGN - 1
  BY <1>1, <1>2 DEF BLOCK_SIZE, ALIGN
<1>4. HEADER_SIZE + Aligned(size) + HEADER_SIZE \in 0 .. U32 - 1
  BY <1>1, <1>3, KmallocAssumption DEF Undisturbed, HEADER_SIZE, ALIGN
<1> DEFINE n == HEADER_SIZE + Aligned(size) + HEADER_SIZE
<1>5. n % U32 = n
  BY <1>1, <1>4, ModOnce
<1>6. need_size(size) = IF n < MIN_BLOCK THEN MIN_BLOCK ELSE n
  BY <1>5 DEF need_size
<1>7. QED
  BY <1>1, <1>3, <1>4, <1>6 DEF HEADER_SIZE, ALIGN, MIN_BLOCK

\* While a call takes a step, every other caller is idle.
LEMMA Alone ==
    ASSUME Undisturbed, HeapInv, NEW c \in Callers, NEW l, At(c, l)
    PROVE  pc[c] = l /\ \A d \in Callers : d # c => pc[d] = "idle"
BY DEF Undisturbed, At, Runs

\* kmalloc_init makes one free block of the whole heap.
LEMMA InitHeap ==
    ASSUME Init
    PROVE  HeapInv
<1>1. /\ 0 \in Words /\ HEAP_SIZE \in Words /\ HEAP_SIZE - HEADER_SIZE \in Words
      /\ HEAP_SIZE \in Nat /\ HEAP_SIZE >= 16 /\ HEAP_SIZE % 8 = 0 /\ HEAP_SIZE < U32 /\ U32 \in Nat
  BY KmallocAssumption DEF Words, HEADER_SIZE, ALIGN, MIN_BLOCK
<1>2. mem[0] = HEAP_SIZE /\ mem[HEAP_SIZE - HEADER_SIZE] = HEAP_SIZE /\ mem[HEAP_SIZE] = 1
  BY <1>1 DEF Init, HEADER_SIZE
<1>3. mem \in [Words -> 0 .. U32 - 1]
  BY <1>1 DEF Init
<1>4. Size(mem, 0) = HEAP_SIZE /\ FreeAt(0)
  BY <1>1, <1>2 DEF Size, BLOCK_SIZE, ALIGN, FreeAt, BLOCK_IS_ALLOC
<1>5. blocks = {0} /\ owned = {}
  BY DEF Init
<1>6. Tiling(mem, blocks)
  <2>1. blocks \subseteq Words /\ 0 \in blocks
    BY <1>1, <1>5
  <2>2. \A b \in blocks : b = 0
    BY <1>5
  <2>3. /\ 0 % ALIGN = 0 /\ mem[0] % ALIGN = 0 /\ Size(mem, 0) >= MIN_BLOCK
        /\ 0 + Size(mem, 0) = HEAP_SIZE /\ mem[0 + Size(mem, 0) - HEADER_SIZE] = mem[0]
    BY <1>1, <1>2, <1>4 DEF ALIGN, MIN_BLOCK, HEADER_SIZE
  <2>4. \A b, d \in blocks : ~(d > b)
    BY <2>2
  <2>5. \A b \in blocks : /\ b % ALIGN = 0 /\ mem[b] % ALIGN \in {0, 1} /\ Size(mem, b) >= MIN_BLOCK
                           /\ b + Size(mem, b) \in blocks \cup {HEAP_SIZE}
                           /\ mem[b + Size(mem, b) - HEADER_SIZE] = mem[b]
    BY <2>2, <2>3
  <2>6. QED
    BY <1>2, <1>3, <2>1, <2>4, <2>5 DEF Tiling
<1>7. Types /\ OneAtATime /\ CallsFit /\ OwnedFit /\ NoneLost
  BY <1>1, <1>4, <1>5 DEF Init, Types, OneAtATime, CallsFit, OwnedFit, NoneLost
<1>8. FreeApart
  BY <1>1, <1>4, <1>5 DEF FreeApart, NEXT_BLOCK, SizeAt, Size
<1>9. QED
  BY <1>6, <1>7, <1>8 DEF HeapInv

\* Steps of a search, which change nothing but the caller's locals.
LEMMA SearchKeeps ==
    ASSUME Undisturbed, HeapInv, NEW c \in Callers,
           \/ \E size \in Sizes : Kmalloc(c, size)
           \/ SearchEnd(c) \/ SearchSkip(c) \/ SearchFit(c)
    PROVE  HeapInv'
<1>0. /\ Tiling(mem, blocks) /\ Types /\ OneAtATime /\ CallsFit
      /\ OwnedFit /\ NoneLost /\ FreeApart
  BY DEF HeapInv
<1>1. UNCHANGED <<mem, blocks, owned>>
  BY DEF Kmalloc, SearchEnd, SearchSkip, SearchFit
<1>2. \A d \in Callers : d # c => pc[d] = "idle"
  BY Alone DEF Kmalloc, SearchEnd, SearchSkip, SearchFit
<1>3. /\ pc[c] \in {"idle", "search"} /\ pc'[c] \in {"idle", "search", "take"}
      /\ \A d \in Callers : d # c => pc'[d] = "idle"
  BY <1>0, <1>2 DEF Kmalloc, SearchEnd, SearchSkip, SearchFit, At, Goto, Return, Types
<1>4. Tiling(mem, blocks)' /\ OwnedFit'
  BY <1>0, <1>1 DEF OwnedFit, FreeAt, BLOCK_FOOTER, SizeAt
<1>5. NoneLost'
  BY <1>0, <1>1, <1>2, <1>3 DEF NoneLost, FreeAt
<1>6. FreeApart'
  BY <1>0, <1>1, <1>2, <1>3 DEF FreeApart, FreeAt, NEXT_BLOCK, SizeAt
<1>7. OneAtATime'
  BY <1>3 DEF OneAtATime
<1>8. /\ \A b \in blocks : b \in Words /\ b \in Nat /\ SizeAt(b) \in Nat
      /\ 0 \in blocks /\ HEAP_SIZE \in Words /\ HEAP_SIZE \in Nat
  <2>1. \A b \in blocks : b \in Words /\ b \in Nat /\ SizeAt(b) \in Nat
    BY <1>0, BlockFacts DEF SizeAt, Size
  <2>2. HEAP_SIZE \in Words /\ HEAP_SIZE \in Nat
    BY KmallocAssumption DEF Words, ALIGN, HEADER_SIZE
  <2>3. 0 \in blocks
    BY <1>0 DEF Tiling
  <2>4. QED
    BY <2>1, <2>2, <2>3
<1>9. Types' /\ CallsFit'
  <2>1. ASSUME NEW size \in Sizes, Kmalloc(c, size) PROVE Types' /\ CallsFit'
    <3>1. Types'
      BY <1>0, <1>8, <2>1, NeedFits DEF Kmalloc, Types, Goto
    <3>2. /\ pc'[c] = "search" /\ cur'[c] = 0 /\ need'[c] = need_size(size) /\ request'[c] = size
      BY <1>0, <2>1 DEF Kmalloc, Types, Goto
    <3>3. Asked(c)'
      BY <3>2, NeedFits DEF Asked
    <3>4. QED
      BY <1>1, <1>3, <1>8, <3>1, <3>2, <3>3 DEF CallsFit
  <2>2. CASE SearchEnd(c)
    <3>1. Types'
      BY <1>0, <1>8, <2>2, KmallocAssumption DEF SearchEnd, Return, Types, Goto, Tiling
    <3>2. pc'[c] = "idle"
      BY <1>0, <2>2 DEF SearchEnd, Return, Goto, Types
    <3>3. QED
      BY <1>3, <3>1, <3>2 DEF CallsFit
  <2>3. CASE SearchSkip(c)
    <3>1. /\ pc[c] = "search" /\ pc'[c] = "search" /\ cur[c] \in blocks \cup {HEAP_SIZE}
          /\ SizeAt(cur[c]) # 0 /\ ~Fits(c) /\ cur'[c] = NEXT_BLOCK(cur[c]) /\ UNCHANGED <<need, request>>
          /\ cur' = [cur EXCEPT ![c] = NEXT_BLOCK(cur[c])]
          /\ UNCHANGED pc
      BY <1>0, <2>3 DEF SearchSkip, At, CallsFit, Types
    <3>2. cur[c] \in blocks
      BY <1>0, <3>1 DEF Tiling, SizeAt, BLOCK_SIZE, ALIGN
    <3>3. NEXT_BLOCK(cur[c]) \in blocks \cup {HEAP_SIZE}
      BY <1>0, <3>2 DEF Tiling, NEXT_BLOCK, SizeAt, Size
    <3>4. Types'
      BY <1>0, <1>8, <3>1, <3>3 DEF Types
    <3>5. Asked(c) /\ Asked(c)'
      BY <1>0, <3>1 DEF CallsFit, Asked
    <3>6. ASSUME NEW b \in blocks, b < NEXT_BLOCK(cur[c]), FreeAt(b) PROVE SizeAt(b) < need[c]
      <4>1. b <= cur[c]
        <5> SUFFICES ASSUME b > cur[c] PROVE FALSE
          BY <1>8, <3>2
        <5>1. b >= NEXT_BLOCK(cur[c])
          BY <1>0, <3>2 DEF Tiling, NEXT_BLOCK, SizeAt, Size
        <5>2. NEXT_BLOCK(cur[c]) \in Nat /\ b \in Nat
          BY <1>8, <3>2 DEF NEXT_BLOCK
        <5>3. QED
          BY <3>6, <5>1, <5>2
      <4>2. CASE b < cur[c]
        BY <1>0, <3>1, <3>6, <4>2 DEF CallsFit
      <4>3. CASE b = cur[c]
        BY <1>0, <1>8, <3>1, <3>6, <4>3 DEF Fits, Types
      <4>4. QED
        BY <1>8, <3>2, <4>1, <4>2, <4>3
    <3>7. QED
      BY <1>1, <1>3, <3>1, <3>3, <3>4, <3>5, <3>6 DEF CallsFit, FreeAt, SizeAt
  <2>4. CASE SearchFit(c)
    <3>1. /\ pc[c] = "search" /\ pc'[c] = "take" /\ cur[c] \in blocks \cup {HEAP_SIZE}
          /\ SizeAt(cur[c]) # 0 /\ Fits(c) /\ UNCHANGED <<cur, need, request>>
      BY <1>0, <2>4 DEF SearchFit, At, Goto, CallsFit, Types
    <3>2. cur[c] \in blocks
      BY <1>0, <3>1 DEF Tiling, SizeAt, BLOCK_SIZE, ALIGN
    <3>3. Types'
      BY <1>0, <2>4 DEF Types, SearchFit, Goto
    <3>4. Asked(c)'
      BY <1>0, <3>1 DEF CallsFit, Asked
    <3>5. QED
      BY <1>1, <1>3, <3>1, <3>2, <3>3, <3>4 DEF CallsFit, Fits, FreeAt, SizeAt
  <2>5. QED
    BY <2>1, <2>2, <2>3, <2>4
<1>10. QED
  BY <1>4, <1>5, <1>6, <1>7, <1>9 DEF HeapInv


\* A pointer stays good while the block behind it is not touched.
LEMMA OwnedStay ==
    ASSUME OwnedFit,
           \A p \in owned' : /\ p \in owned /\ p.ptr - HEADER_SIZE \in blocks'
                             /\ mem'[p.ptr - HEADER_SIZE] = mem[p.ptr - HEADER_SIZE]
    PROVE  OwnedFit'
<1>1. owned' \in SUBSET [ptr : Nat, size : Nat]
  BY DEF OwnedFit
<1>2. \A p \in owned' : /\ p.ptr - HEADER_SIZE \in blocks' /\ ~FreeAt(p.ptr - HEADER_SIZE)'
                        /\ p.ptr + p.size <= BLOCK_FOOTER(p.ptr - HEADER_SIZE)'
  BY DEF OwnedFit, FreeAt, BLOCK_FOOTER, SizeAt
<1>3. \A p, q \in owned' : p.ptr = q.ptr => p = q
  BY DEF OwnedFit
<1>4. QED
  BY <1>1, <1>2, <1>3 DEF OwnedFit

\* When no call is merging, free blocks are apart.
LEMMA Quiet ==
    ASSUME FreeApart, \A d \in Callers : pc[d] \notin {"next", "prev"}, NEW b \in blocks,
           FreeAt(b), b + Size(mem, b) \in blocks
    PROVE  ~FreeAt(b + Size(mem, b))
BY DEF FreeApart, NEXT_BLOCK, SizeAt, Size

\* kmalloc gives out the block it found.
LEMMA TakeKeeps ==
    ASSUME Undisturbed, HeapInv, NEW c \in Callers, Take(c)
    PROVE  HeapInv'
<1> DEFINE a == cur[c]
           n == need[c]
           s == Size(mem, a)
           e == a + n
           p == [ptr |-> a + HEADER_SIZE, size |-> request[c]]
<1>0. /\ Tiling(mem, blocks) /\ Types /\ OneAtATime /\ CallsFit
      /\ OwnedFit /\ NoneLost /\ FreeApart
  BY DEF HeapInv
<1>1. pc[c] = "take" /\ \A d \in Callers : d # c => pc[d] = "idle"
  BY Alone DEF Take
<1>2. /\ a \in blocks /\ FreeAt(a) /\ s >= n /\ n \in Nat /\ n % ALIGN = 0 /\ n >= MIN_BLOCK
      /\ request[c] \in Nat /\ request[c] + 2 * HEADER_SIZE <= n
  BY <1>0, <1>1, KmallocAssumption DEF CallsFit, Asked, SizeAt, Size, Types
<1>3. /\ a \in Nat /\ s \in Nat /\ s >= MIN_BLOCK /\ a + s <= HEAP_SIZE /\ a < HEAP_SIZE
  BY <1>0, <1>2, BlockFacts
<1>4. /\ owned' = owned \cup {p} /\ Return(c)
  BY DEF Take
<1>5. /\ \A d \in Callers : pc'[d] = "idle"
      /\ Types' /\ OneAtATime' /\ CallsFit'
  <2>1. \A d \in Callers : pc'[d] = "idle"
    BY <1>0, <1>1, <1>4 DEF Return, Goto, Types
  <2>2. 0 \in Words /\ 0 \in 0 .. U32 - 1
    BY <1>0, KmallocAssumption DEF Tiling
  <2>3. Types'
    BY <1>0, <1>4, <2>2 DEF Return, Goto, Types
  <2>4. QED
    BY <2>1, <2>3 DEF OneAtATime, CallsFit
\* What the two ways of giving the block have in common.
<1>6. /\ Tiling(mem', blocks') /\ a \in blocks' /\ BLOCK_IS_ALLOC(mem'[a]) /\ Size(mem', a) >= n
      /\ \A d \in blocks \ {a} : d \in blocks' /\ mem'[d] = mem[d] /\ Size(mem', d) = Size(mem, d)
      /\ \A d \in blocks' \ blocks : d = e /\ Size(mem', d) = s - n /\ ~BLOCK_IS_ALLOC(mem'[d])
  <2>1. CASE Splits(a, n)
    <3>1. /\ mem' = Tagged(Tagged(mem, a, n, 1), a + n, Size(mem, a) - n, 0)
          /\ blocks' = blocks \cup {a, a + n}
      BY <2>1 DEF Take, Remaining, SizeAt, Size
    <3>2. Size(mem, a) - n >= MIN_BLOCK
      BY <2>1 DEF Splits, Remaining, SizeAt, Size
    <3>3. /\ Tiling(mem', blocks \cup {a, a + n})
          /\ mem'[a] = n + 1 /\ Size(mem', a) = n
          /\ mem'[a + n] = Size(mem, a) - n /\ Size(mem', a + n) = Size(mem, a) - n
          /\ \A d \in blocks \ {a} : mem'[d] = mem[d] /\ Size(mem', d) = Size(mem, d)
      <4> HIDE DEF a, n
      <4>1. /\ a \in blocks /\ n \in Nat /\ n % ALIGN = 0 /\ n >= MIN_BLOCK
            /\ Size(mem, a) - n >= MIN_BLOCK /\ Tiling(mem, blocks)
            /\ mem' = Tagged(Tagged(mem, a, n, 1), a + n, Size(mem, a) - n, 0)
        BY <1>0, <1>2, <3>1, <3>2
      <4>2. Tiling(mem', blocks \cup {a, a + n})
        BY <4>1, SplitTiles
      <4>3. QED
        BY <4>1, <4>2, SplitTiles
    <3>4. BLOCK_IS_ALLOC(mem'[a])
      BY <1>2, <3>3, TagSize
    <3>5. s - n \in Nat /\ (s - n) % ALIGN = 0
      <4>1. s % ALIGN = 0
        BY <1>0, <1>2, BlockFacts
      <4>2. QED
        BY <1>2, <1>3, <4>1 DEF ALIGN
    <3>6. ~BLOCK_IS_ALLOC(mem'[e])
      <4>1. mem'[e] = (s - n) + 0
        BY <3>3, <3>5
      <4>2. QED
        BY <3>5, <4>1, TagSize
    <3>7. QED
      BY <1>2, <3>1, <3>3, <3>4, <3>6
  <2>2. CASE ~Splits(a, n)
    <3>1. /\ mem' = Tagged(mem, a, Size(mem, a), 1) /\ blocks' = blocks
      BY <2>2 DEF Take, SizeAt, Size
    <3>2. /\ Tiling(mem', blocks) /\ mem'[a] = s + 1 /\ Size(mem', a) = s
          /\ \A d \in blocks \ {a} : mem'[d] = mem[d] /\ Size(mem', d) = Size(mem, d)
      <4> DEFINE r == Tagged(mem, a, Size(mem, a), 1)
      <4> HIDE DEF a
      <4>1. /\ Tiling(r, blocks) /\ r[a] = Size(mem, a) + 1 /\ Size(r, a) = Size(mem, a)
            /\ \A d \in blocks \ {a} : r[d] = mem[d] /\ Size(r, d) = Size(mem, d)
        BY <1>0, <1>2, RetagTiles
      <4>2. mem' = r
        BY <3>1
      <4> HIDE DEF r
      <4>3. QED
        BY <4>1, <4>2
    <3>3. s % ALIGN = 0
      BY <1>0, <1>2, BlockFacts
    <3>4. BLOCK_IS_ALLOC(mem'[a])
      BY <1>3, <3>2, <3>3, TagSize
    <3>5. QED
      BY <1>2, <3>1, <3>2, <3>4
  <2>3. QED
    BY <2>1, <2>2
<1>7. \A q \in owned : q.ptr - HEADER_SIZE \in blocks \ {a} /\ q \in [ptr : Nat, size : Nat]
  BY <1>0, <1>2 DEF OwnedFit
<1>8. OwnedFit'
  <2>1. p \in [ptr : Nat, size : Nat] /\ p.ptr - HEADER_SIZE = a /\ p.size = request[c] /\ p.ptr = a + HEADER_SIZE
    BY <1>2, <1>3 DEF HEADER_SIZE
  <2> HIDE DEF p
  <2>2. owned' \in SUBSET [ptr : Nat, size : Nat]
    BY <1>4, <1>7, <2>1
  <2>3. ASSUME NEW q \in owned'
        PROVE  /\ q.ptr - HEADER_SIZE \in blocks' /\ ~FreeAt(q.ptr - HEADER_SIZE)'
               /\ q.ptr + q.size <= BLOCK_FOOTER(q.ptr - HEADER_SIZE)'
    <3>1. CASE q = p
      <4>1. Size(mem', a) \in Nat
        BY <1>6, BlockFacts
      <4>2. a + HEADER_SIZE + request[c] <= a + Size(mem', a) - HEADER_SIZE
        BY <1>2, <1>3, <1>6, <4>1 DEF HEADER_SIZE
      <4>3. QED
        BY <1>6, <2>1, <3>1, <4>2 DEF FreeAt, BLOCK_FOOTER, SizeAt, Size
    <3>2. CASE q \in owned
      BY <1>0, <1>6, <1>7, <3>2 DEF OwnedFit, FreeAt, BLOCK_FOOTER, SizeAt, Size
    <3>3. QED
      BY <1>4, <3>1, <3>2
  <2>4. \A q \in owned : q.ptr # p.ptr
    BY <1>7, <2>1
  <2>5. \A q, t \in owned' : q.ptr = t.ptr => q = t
    BY <1>0, <1>4, <2>4 DEF OwnedFit
  <2>6. QED
    BY <2>2, <2>3, <2>5 DEF OwnedFit
<1>9. NoneLost'
  <2> SUFFICES ASSUME NEW b \in blocks', ~FreeAt(b)'
               PROVE  \E q \in owned' : q.ptr = b + HEADER_SIZE
    BY DEF NoneLost
  <2>1. CASE b = a
    <3>1. p \in owned' /\ p.ptr = b + HEADER_SIZE
      BY <1>4, <2>1
    <3>2. QED
      BY <3>1
  <2>2. CASE b # a
    <3>1. b \in blocks /\ ~FreeAt(b)
      BY <1>6, <2>2 DEF FreeAt
    <3>2. \E q \in owned : q.ptr = b + HEADER_SIZE
      BY <1>0, <1>1, <3>1 DEF NoneLost
    <3>3. QED
      BY <1>4, <3>2
  <2>3. QED
    BY <2>1, <2>2
<1>10. FreeApart'
  <2> SUFFICES ASSUME NEW b \in blocks', FreeAt(b)', NEW y \in blocks', y = b + Size(mem', b), FreeAt(y)'
               PROVE  FALSE
    BY DEF FreeApart, NEXT_BLOCK, SizeAt, Size
  <2>0. b # a /\ y # a
    BY <1>6 DEF FreeAt
  <2>1. CASE b \in blocks
    <3>1. y = b + Size(mem, b) /\ FreeAt(b)
      BY <1>6, <2>0, <2>1 DEF FreeAt
    <3>2. y \in blocks
      <4>1. y \in blocks \cup {HEAP_SIZE}
        BY <1>0, <2>1, <3>1 DEF Tiling
      <4>2. y < HEAP_SIZE /\ HEAP_SIZE \in Nat
        BY <1>6, BlockFacts, KmallocAssumption
      <4>3. QED
        BY <4>1, <4>2
    <3>3. FreeAt(y)
      BY <1>6, <2>0, <3>2 DEF FreeAt
    <3>4. QED
      BY <1>0, <1>1, <2>1, <3>1, <3>2, <3>3, Quiet
  <2>2. CASE b \notin blocks
    <3>1. y = a + s
      BY <1>2, <1>3, <1>6, <2>2
    <3>2. y # e
      <4>1. e \in blocks' /\ b = e /\ Size(mem', e) = s - n
        BY <1>6, <2>2
      <4>2. Size(mem', e) >= MIN_BLOCK /\ Size(mem', e) \in Nat /\ e \in Nat
        BY <1>6, <4>1, BlockFacts
      <4>3. QED
        BY <1>2, <1>3, <4>1, <4>2 DEF MIN_BLOCK
    <3>3. y \in blocks
      BY <1>6, <3>2
    <3>4. FreeAt(y)
      BY <1>6, <2>0, <3>3 DEF FreeAt
    <3>5. QED
      BY <1>0, <1>1, <1>2, <3>1, <3>3, <3>4, Quiet
  <2>3. QED
    BY <2>1, <2>2
<1>11. QED
  BY <1>5, <1>6, <1>8, <1>9, <1>10 DEF HeapInv


\* kfree begins: the block stays in use, the pointer is no longer owned.
LEMMA KfreeKeeps ==
    ASSUME Undisturbed, HeapInv, NEW c \in Callers, NEW p \in owned, Kfree(c, p)
    PROVE  HeapInv'
<1> DEFINE a == p.ptr - HEADER_SIZE
<1>0. /\ Tiling(mem, blocks) /\ Types /\ OneAtATime /\ CallsFit
      /\ OwnedFit /\ NoneLost /\ FreeApart
  BY DEF HeapInv
<1>1. \A d \in Callers : pc[d] = "idle"
  BY Alone DEF Kfree
<1>2. /\ UNCHANGED <<mem, need, request, blocks>> /\ owned' = owned \ {p}
      /\ cur' = [cur EXCEPT ![c] = a] /\ pc' = [pc EXCEPT ![c] = "mark"]
  BY DEF Kfree, Goto
<1>3. /\ p.ptr \in Nat /\ a \in blocks /\ ~FreeAt(a) /\ a \in Words
      /\ \A q \in owned : q.ptr \in Nat
      /\ \A q \in owned : q.ptr = p.ptr => q = p
  BY <1>0 DEF OwnedFit, Tiling
<1>4. /\ pc'[c] = "mark" /\ cur'[c] = a /\ \A d \in Callers : d # c => pc'[d] = "idle"
      /\ Types' /\ OneAtATime'
  <2>1. pc'[c] = "mark" /\ cur'[c] = a /\ \A d \in Callers : d # c => pc'[d] = "idle"
    BY <1>0, <1>1, <1>2 DEF Types
  <2>2. Types'
    BY <1>0, <1>2, <1>3 DEF Types
  <2>3. QED
    BY <2>1, <2>2 DEF OneAtATime
<1>5. Tiling(mem, blocks)'
  BY <1>0, <1>2
<1>6. OwnedFit'
  BY <1>0, <1>2, OwnedStay DEF OwnedFit
<1>7. CallsFit'
  <2>1. \A q \in owned' : q.ptr # a + HEADER_SIZE
    BY <1>2, <1>3 DEF HEADER_SIZE
  <2>2. cur'[c] \in blocks' /\ ~FreeAt(cur[c])'
    BY <1>2, <1>3, <1>4 DEF FreeAt
  <2>3. QED
    BY <1>4, <2>1, <2>2 DEF CallsFit
<1>8. NoneLost'
  <2> SUFFICES ASSUME NEW b \in blocks', ~FreeAt(b)'
               PROVE  \/ \E q \in owned' : q.ptr = b + HEADER_SIZE
                      \/ \E d \in Callers : pc'[d] = "mark" /\ cur'[d] = b
    BY DEF NoneLost
  <2>1. PICK q \in owned : q.ptr = b + HEADER_SIZE
    BY <1>0, <1>1, <1>2 DEF NoneLost, FreeAt
  <2>2. CASE q = p
    <3>1. b \in Nat
      BY <1>5, BlockFacts
    <3>2. QED
      BY <1>3, <1>4, <2>1, <2>2, <3>1 DEF HEADER_SIZE
  <2>3. CASE q # p
    BY <1>2, <2>1, <2>3
  <2>4. QED
    BY <2>2, <2>3
<1>9. FreeApart'
  BY <1>0, <1>1, <1>2 DEF FreeApart, FreeAt, NEXT_BLOCK, SizeAt
<1>10. QED
  BY <1>4, <1>5, <1>6, <1>7, <1>8, <1>9 DEF HeapInv

\* kfree clears the bit of its block.
LEMMA FreeMarkKeeps ==
    ASSUME Undisturbed, HeapInv, NEW c \in Callers, FreeMark(c)
    PROVE  HeapInv'
<1> DEFINE a == cur[c]
<1>0. /\ Tiling(mem, blocks) /\ Types /\ OneAtATime /\ CallsFit
      /\ OwnedFit /\ NoneLost /\ FreeApart
  BY DEF HeapInv
<1>1. pc[c] = "mark" /\ \A d \in Callers : d # c => pc[d] = "idle"
  BY Alone DEF FreeMark
<1>2. /\ UNCHANGED <<cur, need, request, blocks, owned>>
      /\ pc' = [pc EXCEPT ![c] = "next"] /\ mem' = Tagged(mem, a, Size(mem, a), 0)
  BY DEF FreeMark, Goto, SizeAt, Size
<1>3. a \in blocks /\ \A p \in owned : p.ptr # a + HEADER_SIZE
  BY <1>0, <1>1 DEF CallsFit
<1>4. /\ pc'[c] = "next" /\ \A d \in Callers : d # c => pc'[d] = "idle"
      /\ Types' /\ OneAtATime'
  <2>1. pc'[c] = "next" /\ \A d \in Callers : d # c => pc'[d] = "idle"
    BY <1>0, <1>1, <1>2 DEF Types
  <2>2. Types'
    BY <1>0, <1>2 DEF Types
  <2>3. QED
    BY <2>1, <2>2 DEF OneAtATime
<1>5. /\ Tiling(mem', blocks) /\ mem'[a] = Size(mem, a) + 0
      /\ \A d \in blocks \ {a} : mem'[d] = mem[d] /\ Size(mem', d) = Size(mem, d)
  <2> DEFINE r == Tagged(mem, a, Size(mem, a), 0)
  <2> HIDE DEF a
  <2>1. /\ Tiling(r, blocks) /\ r[a] = Size(mem, a) + 0
        /\ \A d \in blocks \ {a} : r[d] = mem[d] /\ Size(r, d) = Size(mem, d)
    BY <1>0, <1>3, RetagTiles
  <2>2. mem' = r
    BY <1>2
  <2> HIDE DEF r
  <2>3. QED
    BY <2>1, <2>2
<1>6. ~BLOCK_IS_ALLOC(mem'[a])
  <2>1. Size(mem, a) \in Nat /\ Size(mem, a) % ALIGN = 0
    BY <1>0, <1>3, BlockFacts
  <2>2. QED
    BY <1>5, <2>1, TagSize
<1>7. OwnedFit'
  <2>1. ASSUME NEW p \in owned PROVE p.ptr - HEADER_SIZE \in blocks \ {a}
    <3>1. p.ptr - HEADER_SIZE \in blocks /\ p.ptr \in Nat
      BY <1>0 DEF OwnedFit
    <3>2. a \in Nat
      BY <1>0, <1>3, BlockFacts
    <3>3. QED
      BY <1>3, <3>1, <3>2 DEF HEADER_SIZE
  <2>2. QED
    BY <1>0, <1>2, <1>5, <2>1, OwnedStay
<1>8. CallsFit'
  BY <1>2, <1>3, <1>4, <1>6 DEF CallsFit, FreeAt
<1>9. NoneLost'
  <2> SUFFICES ASSUME NEW b \in blocks, ~FreeAt(b)'
               PROVE  \E q \in owned : q.ptr = b + HEADER_SIZE
    BY <1>2 DEF NoneLost
  <2>1. b # a /\ ~FreeAt(b)
    BY <1>5, <1>6 DEF FreeAt
  <2>2. QED
    BY <1>0, <1>1, <2>1 DEF NoneLost
<1>10. FreeApart'
  <2> SUFFICES ASSUME NEW b \in blocks, FreeAt(b)', NEW y \in blocks, y = b + Size(mem', b), FreeAt(y)',
                      b # a, y # a
               PROVE  FALSE
    BY <1>2, <1>4 DEF FreeApart, NEXT_BLOCK, SizeAt, Size
  <2>1. FreeAt(b) /\ FreeAt(y) /\ y = b + Size(mem, b)
    BY <1>5 DEF FreeAt
  <2>2. QED
    BY <1>0, <1>1, <2>1, Quiet
<1>11. QED
  BY <1>2, <1>4, <1>5, <1>7, <1>8, <1>9, <1>10 DEF HeapInv

\* kfree merges its block with the one behind it.
LEMMA FreeNextKeeps ==
    ASSUME Undisturbed, HeapInv, NEW c \in Callers, FreeNext(c)
    PROVE  HeapInv'
<1> DEFINE a == cur[c]
           e == a + Size(mem, a)
<1>0. /\ Tiling(mem, blocks) /\ Types /\ OneAtATime /\ CallsFit
      /\ OwnedFit /\ NoneLost /\ FreeApart
  BY DEF HeapInv
<1>1. pc[c] = "next" /\ \A d \in Callers : d # c => pc[d] = "idle"
  BY Alone DEF FreeNext
<1>2. UNCHANGED <<cur, need, request, owned>> /\ pc' = [pc EXCEPT ![c] = "prev"]
  BY DEF FreeNext, Goto
<1>3. /\ a \in blocks /\ FreeAt(a) /\ a \in Nat /\ Size(mem, a) \in Nat /\ Size(mem, a) >= MIN_BLOCK
      /\ NEXT_BLOCK(a) = e
  BY <1>0, <1>1, BlockFacts DEF CallsFit, NEXT_BLOCK, SizeAt, Size
<1>4. /\ pc'[c] = "prev" /\ \A d \in Callers : d # c => pc'[d] = "idle"
      /\ Types' /\ OneAtATime'
  <2>1. pc'[c] = "prev" /\ \A d \in Callers : d # c => pc'[d] = "idle"
    BY <1>0, <1>1, <1>2 DEF Types
  <2>2. Types'
    BY <1>0, <1>2 DEF Types
  <2>3. QED
    BY <2>1, <2>2 DEF OneAtATime
\* Before the step, two free neighbours are the block and one next to it.
<1>5. ASSUME NEW b \in blocks, FreeAt(b), b + Size(mem, b) \in blocks, FreeAt(b + Size(mem, b))
      PROVE  b = a \/ b + Size(mem, b) = a
  BY <1>0, <1>1, <1>5 DEF FreeApart, NEXT_BLOCK, SizeAt, Size
<1>6. CASE ~JoinsNext(a)
  <2>1. UNCHANGED <<mem, blocks>>
    BY <1>6 DEF FreeNext
  <2>2. Tiling(mem, blocks)' /\ OwnedFit' /\ CallsFit'
    BY <1>0, <1>2, <1>3, <1>4, <2>1 DEF OwnedFit, CallsFit, FreeAt, BLOCK_FOOTER, SizeAt
  <2>3. NoneLost'
    BY <1>0, <1>1, <1>2, <2>1 DEF NoneLost, FreeAt
  <2>4. FreeApart'
    <3> SUFFICES ASSUME NEW b \in blocks, FreeAt(b), b + Size(mem, b) \in blocks,
                        FreeAt(b + Size(mem, b))
                 PROVE  b + Size(mem, b) = a
      BY <1>2, <1>4, <2>1 DEF FreeApart, NEXT_BLOCK, SizeAt, FreeAt, Size
    <3>1. CASE b = a
      <4>1. Size(mem, e) >= MIN_BLOCK /\ Size(mem, e) \in Nat
        BY <1>0, <3>1, BlockFacts
      <4>2. JoinsNext(a)
        BY <1>3, <3>1, <4>1 DEF JoinsNext, SizeAt, Size, MIN_BLOCK
      <4>3. QED
        BY <1>6, <4>2
    <3>2. QED
      BY <1>5, <3>1
  <2>5. QED
    BY <1>4, <2>2, <2>3, <2>4 DEF HeapInv
<1>7. CASE JoinsNext(a)
  <2> DEFINE k == Size(mem, a) + Size(mem, e)
  <2>1. /\ FreeAt(e) /\ Size(mem, e) > 0
        /\ mem' = Tagged(mem, a, k, 0) /\ blocks' = blocks \ {e}
    BY <1>3, <1>7 DEF FreeNext, JoinsNext, SizeAt, Size
  <2>2. e \in blocks
    <3>1. e \in blocks \cup {HEAP_SIZE} /\ mem[HEAP_SIZE] = 1
      BY <1>0, <1>3 DEF Tiling
    <3>2. e # HEAP_SIZE
      BY <2>1, <3>1 DEF Size, BLOCK_SIZE, ALIGN
    <3>3. QED
      BY <3>1, <3>2
  <2>3. /\ e \in Nat /\ Size(mem, e) \in Nat /\ Size(mem, e) >= MIN_BLOCK /\ e # a /\ e > a
        /\ Size(mem, e) % ALIGN = 0 /\ Size(mem, a) % ALIGN = 0
    <3>1. /\ e \in Nat /\ Size(mem, e) \in Nat /\ Size(mem, e) >= MIN_BLOCK
          /\ Size(mem, e) % ALIGN = 0 /\ Size(mem, a) % ALIGN = 0
      BY <1>0, <1>3, <2>2, BlockFacts
    <3>2. QED
      BY <1>3, <3>1 DEF MIN_BLOCK
  <2>4. /\ Tiling(mem', blocks') /\ mem'[a] = k /\ Size(mem', a) = k
        /\ \A d \in blocks \ {a, e} : mem'[d] = mem[d] /\ Size(mem', d) = Size(mem, d)
    <3>1. e = a + Size(mem, a) /\ k = Size(mem, a) + Size(mem, e)
      OBVIOUS
    <3> HIDE DEF a, e, k
    <3>2. Tiling(mem', blocks \ {e})
      BY <1>0, <1>3, <2>1, <2>2, <3>1, JoinTiles
    <3>3. QED
      BY <1>0, <1>3, <2>1, <2>2, <3>1, <3>2, JoinTiles
  <2>5. ~BLOCK_IS_ALLOC(mem'[a])
    <3>1. k \in Nat /\ k % ALIGN = 0 /\ mem'[a] = k + 0
      <4>1. k = Size(mem, a) + Size(mem, e)
        OBVIOUS
      <4> HIDE DEF a, e, k
      <4>2. QED
        BY <1>3, <2>3, <2>4, <4>1 DEF ALIGN
    <3> HIDE DEF k
    <3>2. QED
      BY <3>1, TagSize
  <2>6. OwnedFit'
    <3>1. \A p \in owned : p.ptr - HEADER_SIZE \in blocks \ {a, e}
      BY <1>0, <1>3, <2>1 DEF OwnedFit
    <3>2. QED
      BY <1>0, <1>2, <2>1, <2>4, <3>1, OwnedStay
  <2>7. CallsFit'
    BY <1>2, <1>3, <1>4, <2>1, <2>3, <2>5 DEF CallsFit, FreeAt
  <2>8. NoneLost'
    <3> SUFFICES ASSUME NEW b \in blocks', ~FreeAt(b)'
                 PROVE  \E q \in owned : q.ptr = b + HEADER_SIZE
      BY <1>2 DEF NoneLost
    <3>1. b \in blocks \ {a, e} /\ ~FreeAt(b)
      BY <2>1, <2>4, <2>5 DEF FreeAt
    <3>2. QED
      BY <1>0, <1>1, <3>1 DEF NoneLost
  <2>9. FreeApart'
    <3> SUFFICES ASSUME NEW b \in blocks', FreeAt(b)', NEW y \in blocks', y = b + Size(mem', b), FreeAt(y)',
                        y # a
                 PROVE  FALSE
      BY <1>2, <1>4 DEF FreeApart, NEXT_BLOCK, SizeAt, Size
    <3>1. y \in blocks \ {a, e} /\ FreeAt(y)
      BY <2>1, <2>4 DEF FreeAt
    <3>2. CASE b = a
      <4>1. y = e + Size(mem, e)
        BY <1>3, <2>3, <2>4, <3>2
      <4>2. QED
        BY <1>5, <2>1, <2>2, <2>3, <3>1, <4>1
    <3>3. CASE b # a
      <4>1. b \in blocks \ {a, e} /\ FreeAt(b) /\ y = b + Size(mem, b)
        BY <2>1, <2>4, <3>3 DEF FreeAt
      <4>2. QED
        BY <1>5, <3>1, <4>1
    <3>4. QED
      BY <3>2, <3>3
  <2>10. QED
    BY <1>4, <2>4, <2>6, <2>7, <2>8, <2>9 DEF HeapInv
<1>8. QED
  BY <1>6, <1>7


\* kfree merges its block with the one in front of it and returns.
LEMMA FreePrevKeeps ==
    ASSUME Undisturbed, HeapInv, NEW c \in Callers, FreePrev(c)
    PROVE  HeapInv'
<1> DEFINE a == cur[c]
<1>0. /\ Tiling(mem, blocks) /\ Types /\ OneAtATime /\ CallsFit
      /\ OwnedFit /\ NoneLost /\ FreeApart
  BY DEF HeapInv
<1>1. pc[c] = "prev" /\ \A d \in Callers : d # c => pc[d] = "idle"
  BY Alone DEF FreePrev
<1>2. UNCHANGED owned /\ Return(c)
  BY DEF FreePrev
<1>3. /\ a \in blocks /\ FreeAt(a) /\ a \in Nat /\ Size(mem, a) \in Nat /\ Size(mem, a) >= MIN_BLOCK
      /\ Size(mem, a) % ALIGN = 0
  BY <1>0, <1>1, BlockFacts DEF CallsFit
<1>4. /\ \A d \in Callers : pc'[d] = "idle"
      /\ Types' /\ OneAtATime' /\ CallsFit'
  <2>1. \A d \in Callers : pc'[d] = "idle"
    BY <1>0, <1>1, <1>2 DEF Return, Goto, Types
  <2>2. 0 \in Words /\ 0 \in 0 .. U32 - 1
    BY <1>0, KmallocAssumption DEF Tiling
  <2>3. Types'
    BY <1>0, <1>2, <2>2 DEF Return, Goto, Types
  <2>4. QED
    BY <2>1, <2>3 DEF OneAtATime, CallsFit
\* The footer in front of the block leads to the block that ends there.
<1>5. ASSUME NEW b \in blocks, b + Size(mem, b) = a
      PROVE  PREV_BLOCK(a) = b /\ a > 0 /\ b # a /\ b \in Nat /\ Size(mem, b) \in Nat
             /\ Size(mem, b) % ALIGN = 0 /\ b < a
  <2>1. b \in Nat /\ Size(mem, b) \in Nat /\ Size(mem, b) >= MIN_BLOCK /\ Size(mem, b) % ALIGN = 0
    BY <1>0, BlockFacts
  <2>2. mem[a - HEADER_SIZE] = mem[b]
    <3>1. mem[b + Size(mem, b) - HEADER_SIZE] = mem[b]
      BY <1>0 DEF Tiling
    <3>2. a - HEADER_SIZE = b + Size(mem, b) - HEADER_SIZE
      BY <1>5, <2>1 DEF HEADER_SIZE
    <3>3. QED
      BY <3>1, <3>2
  <2>3. SizeAt(a - HEADER_SIZE) = Size(mem, b)
    BY <2>2 DEF SizeAt, Size
  <2>4. QED
    BY <1>3, <1>5, <2>1, <2>3 DEF PREV_BLOCK, MIN_BLOCK
\* Before the step, two free neighbours are the block in front and the block.
<1>6. ASSUME NEW b \in blocks, FreeAt(b), b + Size(mem, b) \in blocks, FreeAt(b + Size(mem, b))
      PROVE  b + Size(mem, b) = a
  BY <1>0, <1>1, <1>6 DEF FreeApart, NEXT_BLOCK, SizeAt, Size
<1>7. CASE ~JoinsPrev(a)
  <2>1. UNCHANGED <<mem, blocks>>
    BY <1>7 DEF FreePrev
  <2>2. Tiling(mem, blocks)' /\ OwnedFit'
    BY <1>0, <1>2, <2>1 DEF OwnedFit, FreeAt, BLOCK_FOOTER, SizeAt
  <2>3. NoneLost'
    BY <1>0, <1>1, <1>2, <2>1 DEF NoneLost, FreeAt
  <2>4. FreeApart'
    <3> SUFFICES ASSUME NEW b \in blocks, FreeAt(b), b + Size(mem, b) \in blocks,
                        FreeAt(b + Size(mem, b))
                 PROVE  FALSE
      BY <2>1 DEF FreeApart, NEXT_BLOCK, SizeAt, FreeAt, Size
    <3>1. QED
      BY <1>5, <1>6, <1>7 DEF JoinsPrev
  <2>5. QED
    BY <1>4, <2>2, <2>3, <2>4 DEF HeapInv
<1>8. CASE JoinsPrev(a)
  <2>1. PICK b \in blocks : b + Size(mem, b) = a
    BY <1>0, <1>3, <1>8, Predecessor DEF JoinsPrev
  <2> DEFINE k == Size(mem, b) + Size(mem, a)
  <2>2. /\ FreeAt(b) /\ mem' = Tagged(mem, b, k, 0) /\ blocks' = blocks \ {a}
    BY <1>5, <1>8, <2>1 DEF FreePrev, JoinsPrev, SizeAt, Size
  <2>3. /\ Tiling(mem', blocks') /\ mem'[b] = k /\ Size(mem', b) = k
        /\ \A d \in blocks \ {a, b} : mem'[d] = mem[d] /\ Size(mem', d) = Size(mem, d)
    <3>1. a = b + Size(mem, b) /\ k = Size(mem, b) + Size(mem, a)
      BY <2>1
    <3> HIDE DEF a, k
    <3>2. Tiling(mem', blocks \ {a})
      BY <1>0, <1>3, <2>1, <2>2, <3>1, JoinTiles
    <3>3. QED
      BY <1>0, <1>3, <2>1, <2>2, <3>1, <3>2, JoinTiles
  <2>4. ~BLOCK_IS_ALLOC(mem'[b])
    <3>1. k = Size(mem, b) + Size(mem, a)
      OBVIOUS
    <3> HIDE DEF a, k
    <3>2. k \in Nat /\ k % ALIGN = 0 /\ mem'[b] = k + 0
      BY <1>3, <1>5, <2>1, <2>3, <3>1 DEF ALIGN
    <3>3. QED
      BY <3>2, TagSize
  <2>5. OwnedFit'
    <3>1. \A p \in owned : p.ptr - HEADER_SIZE \in blocks \ {a, b}
      BY <1>0, <1>3, <2>2 DEF OwnedFit
    <3>2. QED
      BY <1>0, <1>2, <2>2, <2>3, <3>1, OwnedStay
  <2>6. NoneLost'
    <3> SUFFICES ASSUME NEW d \in blocks', ~FreeAt(d)'
                 PROVE  \E q \in owned : q.ptr = d + HEADER_SIZE
      BY <1>2 DEF NoneLost
    <3>1. d \in blocks \ {a, b} /\ ~FreeAt(d)
      BY <2>2, <2>3, <2>4 DEF FreeAt
    <3>2. QED
      BY <1>0, <1>1, <3>1 DEF NoneLost
  <2>7. FreeApart'
    <3> SUFFICES ASSUME NEW x \in blocks', FreeAt(x)', NEW y \in blocks', y = x + Size(mem', x), FreeAt(y)'
                 PROVE  FALSE
      BY DEF FreeApart, NEXT_BLOCK, SizeAt, Size
    <3>1. y \in blocks \ {a} /\ FreeAt(y)
      BY <2>2, <2>3 DEF FreeAt
    <3>2. CASE x = b
      <4>1. y = a + Size(mem, a)
        BY <1>3, <1>5, <2>1, <2>3, <3>2
      <4>2. QED
        BY <1>3, <1>6, <3>1, <4>1
    <3>3. CASE x # b
      <4>1. x \in blocks \ {a, b} /\ FreeAt(x) /\ y = x + Size(mem, x)
        BY <2>2, <2>3, <3>3 DEF FreeAt
      <4>2. QED
        BY <1>6, <3>1, <4>1
    <3>4. QED
      BY <3>2, <3>3
  <2>8. QED
    BY <1>4, <2>3, <2>5, <2>6, <2>7 DEF HeapInv
<1>9. QED
  BY <1>7, <1>8

\* An owner fills its memory.
LEMMA StoreKeeps ==
    ASSUME Undisturbed, HeapInv, NEW p \in owned, NEW j \in Junk, Store(p, j)
    PROVE  HeapInv'
<1> DEFINE a == p.ptr - HEADER_SIZE
<1>0. /\ Tiling(mem, blocks) /\ Types /\ OneAtATime /\ CallsFit
      /\ OwnedFit /\ NoneLost /\ FreeApart
  BY DEF HeapInv
<1>1. \A d \in Callers : pc[d] = "idle"
  BY DEF Store, Undisturbed
<1>2. /\ UNCHANGED <<pc, cur, need, request, blocks, owned>>
      /\ mem' = [w \in Words |-> IF w \in Payload(p) THEN j ELSE mem[w]]
  BY DEF Store
<1>3. Tiling(mem', blocks) /\ \A d \in blocks : mem'[d] = mem[d] /\ Size(mem', d) = Size(mem, d)
  <2>1. /\ a \in blocks /\ p.ptr \in Nat /\ p.size \in Nat
        /\ p.ptr + p.size <= a + Size(mem, a) - HEADER_SIZE
    BY <1>0 DEF OwnedFit, BLOCK_FOOTER, SizeAt, Size
  <2>2. a \in Nat /\ Size(mem, a) \in Nat
    BY <1>0, <2>1, BlockFacts
  <2>3. \A w \in Payload(p) : a < w /\ w < a + Size(mem, a) - HEADER_SIZE
    <3> TAKE w \in Payload(p)
    <3>1. w \in Nat /\ p.ptr <= w /\ w < p.ptr + p.size
      BY DEF Payload, Words
    <3>2. QED
      BY <2>1, <2>2, <3>1 DEF HEADER_SIZE
  <2>4. Payload(p) \in SUBSET Words /\ j \in 0 .. U32 - 1
    BY KmallocAssumption DEF Payload
  <2> HIDE DEF a
  <2> DEFINE W == Payload(p)
  <2>5. /\ W \in SUBSET Words /\ \A w \in W : a < w /\ w < a + Size(mem, a) - HEADER_SIZE
        /\ mem' \in [Words -> 0 .. U32 - 1] /\ \A w \in Words \ W : mem'[w] = mem[w]
    BY <1>0, <1>2, <2>3, <2>4 DEF Tiling
  <2> HIDE DEF W
  <2>6. Tiling(mem', blocks)
    BY <1>0, <2>1, <2>4, <2>5, FillTiles
  <2>7. QED
    BY <1>0, <2>1, <2>4, <2>5, <2>6, FillTiles
<1>4. Types' /\ OneAtATime' /\ CallsFit'
  BY <1>0, <1>1, <1>2 DEF Types, OneAtATime, CallsFit
<1>5. OwnedFit'
  BY <1>0, <1>2, <1>3, OwnedStay DEF OwnedFit
<1>6. NoneLost'
  BY <1>0, <1>1, <1>2, <1>3 DEF NoneLost, FreeAt
<1>7. FreeApart'
  <2> SUFFICES ASSUME NEW b \in blocks, FreeAt(b)', NEW y \in blocks, y = b + Size(mem', b), FreeAt(y)'
               PROVE  FALSE
    BY <1>2 DEF FreeApart, NEXT_BLOCK, SizeAt, Size
  <2>1. FreeAt(b) /\ FreeAt(y) /\ y = b + Size(mem, b)
    BY <1>3 DEF FreeAt
  <2>2. QED
    BY <1>0, <1>1, <2>1, Quiet
<1>8. QED
  BY <1>2, <1>3, <1>4, <1>5, <1>6, <1>7 DEF HeapInv

\* The tags, the calls and the owners agree in every state.
THEOREM HeapSound ==
    ASSUME Undisturbed
    PROVE  Spec => []HeapInv
<1>1. Init => HeapInv
  BY InitHeap
<1>2. HeapInv /\ [Next]_vars => HeapInv'
  <2> SUFFICES ASSUME HeapInv, [Next]_vars PROVE HeapInv'
    OBVIOUS
  <2>1. ASSUME NEW c \in Callers,
               \/ \E size \in Sizes : Kmalloc(c, size)
               \/ SearchEnd(c) \/ SearchSkip(c) \/ SearchFit(c)
        PROVE  HeapInv'
    BY <2>1, SearchKeeps
  <2>2. ASSUME NEW c \in Callers, Take(c) PROVE HeapInv'
    BY <2>2, TakeKeeps
  <2>3. ASSUME NEW c \in Callers, NEW p \in owned, Kfree(c, p) PROVE HeapInv'
    BY <2>3, KfreeKeeps
  <2>4. ASSUME NEW c \in Callers, FreeMark(c) \/ FreeNext(c) \/ FreePrev(c) PROVE HeapInv'
    BY <2>4, FreeMarkKeeps, FreeNextKeeps, FreePrevKeeps
  <2>5. ASSUME NEW p \in owned, NEW j \in Junk, Store(p, j) PROVE HeapInv'
    BY <2>5, StoreKeeps
  <2>6. CASE UNCHANGED vars
    BY <2>6 DEF vars, HeapInv, Types, OneAtATime, CallsFit, Asked, OwnedFit, NoneLost, FreeApart,
                FreeAt, SizeAt, NEXT_BLOCK, BLOCK_FOOTER
  <2>7. QED
    BY <2>1, <2>2, <2>3, <2>4, <2>5, <2>6 DEF Next
<1>3. QED
  BY <1>1, <1>2, PTL DEF Spec

\* Whatever callers store in their memory, the blocks tile the heap (HeapTiled).
THEOREM HeapAlwaysTiled ==
    ASSUME Undisturbed
    PROVE  Spec => []HeapTiled
<1>1. HeapInv => HeapTiled
  <2> SUFFICES ASSUME HeapInv PROVE HeapTiled
    OBVIOUS
  <2>1. Tiling(mem, blocks) /\ Types
    BY DEF HeapInv
  <2>2. TypeOK
    BY <2>1 DEF TypeOK, Tiling, Types
  <2>3. QED
    BY <2>1, <2>2 DEF HeapTiled, Tiling, SizeAt, Size, NEXT_BLOCK, BLOCK_FOOTER
<1>2. QED
  BY <1>1, HeapSound, PTL

\* Memory given to a caller lies inside a block in use, and no two callers share a
\* byte (OwnedDisjoint).
THEOREM OwnedAlwaysDisjoint ==
    ASSUME Undisturbed
    PROVE  Spec => []OwnedDisjoint
<1>1. HeapInv => OwnedDisjoint
  <2> SUFFICES ASSUME HeapInv PROVE OwnedDisjoint
    OBVIOUS
  <2>1. Tiling(mem, blocks) /\ OwnedFit
    BY DEF HeapInv
  <2>2. \A p \in owned : /\ p.ptr - HEADER_SIZE \in blocks
                         /\ BLOCK_IS_ALLOC(mem[p.ptr - HEADER_SIZE])
                         /\ p.ptr + p.size <= BLOCK_FOOTER(p.ptr - HEADER_SIZE)
    BY <2>1 DEF OwnedFit, FreeAt
  <2>3. ASSUME NEW p \in owned, NEW q \in owned, p # q
        PROVE  p.ptr + p.size <= q.ptr - HEADER_SIZE \/ q.ptr + q.size <= p.ptr - HEADER_SIZE
    <3> DEFINE b == p.ptr - HEADER_SIZE
               d == q.ptr - HEADER_SIZE
    <3>1. /\ p.ptr \in Nat /\ p.size \in Nat /\ q.ptr \in Nat /\ q.size \in Nat /\ p.ptr # q.ptr
          /\ b \in blocks /\ d \in blocks
          /\ p.ptr + p.size <= b + Size(mem, b) - HEADER_SIZE
          /\ q.ptr + q.size <= d + Size(mem, d) - HEADER_SIZE
      BY <2>1, <2>3 DEF OwnedFit, BLOCK_FOOTER, SizeAt, Size
    <3>2. b \in Nat /\ d \in Nat /\ Size(mem, b) \in Nat /\ Size(mem, d) \in Nat
      BY <2>1, <3>1, BlockFacts
    <3>3. b + Size(mem, b) <= d \/ d + Size(mem, d) <= b
      <4>1. b # d
        BY <3>1 DEF HEADER_SIZE
      <4> HIDE DEF b, d
      <4>2. QED
        BY <2>1, <3>1, <4>1, BlocksApart
    <3>4. QED
      BY <3>1, <3>2, <3>3 DEF HEADER_SIZE
  <2>4. QED
    BY <2>2, <2>3 DEF OwnedDisjoint
<1>2. QED
  BY <1>1, HeapSound, PTL

\* Between calls every block in use has an owner, no two free blocks are neighbours,
\* and a heap nobody owns memory of is one free block again (NothingLost).
THEOREM NothingEverLost ==
    ASSUME Undisturbed
    PROVE  Spec => []NothingLost
<1>1. HeapInv => NothingLost
  <2> SUFFICES ASSUME HeapInv, AllIdle PROVE NothingLost
    BY DEF NothingLost
  <2>0. /\ Tiling(mem, blocks) /\ OwnedFit /\ NoneLost /\ FreeApart
        /\ \A c \in Callers : pc[c] = "idle"
    BY DEF HeapInv, AllIdle
  <2>1. ASSUME NEW b \in blocks
        PROVE  BLOCK_IS_ALLOC(mem[b]) <=> (\E p \in owned : p.ptr = b + HEADER_SIZE)
    <3>1. ASSUME BLOCK_IS_ALLOC(mem[b]) PROVE \E p \in owned : p.ptr = b + HEADER_SIZE
      BY <2>0, <3>1 DEF NoneLost, FreeAt
    <3>2. ASSUME NEW p \in owned, p.ptr = b + HEADER_SIZE PROVE BLOCK_IS_ALLOC(mem[b])
      <4>1. b \in Nat
        BY <2>0, BlockFacts
      <4>2. p.ptr - HEADER_SIZE = b
        BY <3>2, <4>1 DEF HEADER_SIZE
      <4>3. QED
        BY <2>0, <4>2 DEF OwnedFit, FreeAt
    <3>3. QED
      BY <3>1, <3>2
  <2>2. ASSUME NEW b \in blocks, FreeAt(b), NEXT_BLOCK(b) # HEAP_SIZE
        PROVE  BLOCK_IS_ALLOC(mem[NEXT_BLOCK(b)])
    <3>1. NEXT_BLOCK(b) = b + Size(mem, b) /\ NEXT_BLOCK(b) \in blocks
      BY <2>0, <2>2 DEF Tiling, NEXT_BLOCK, SizeAt, Size
    <3>2. QED
      BY <2>0, <2>2, <3>1, Quiet DEF FreeAt
  <2>3. ASSUME owned = {} PROVE blocks = {0} /\ SizeAt(0) = HEAP_SIZE
    <3>1. \A b \in blocks : FreeAt(b)
      BY <2>1, <2>3 DEF FreeAt
    <3>2. \A b \in blocks : b + Size(mem, b) = HEAP_SIZE
      BY <2>0, <2>2, <3>1 DEF Tiling, NEXT_BLOCK, SizeAt, Size, FreeAt
    <3>3. \A b \in blocks : b = 0
      <4> SUFFICES ASSUME NEW a \in blocks, a # 0 PROVE FALSE
        OBVIOUS
      <4>1. PICK b \in blocks : b + Size(mem, b) = a
        BY <2>0, Predecessor
      <4>2. QED
        BY <2>0, <3>2, <4>1, BlockFacts, KmallocAssumption
    <3>4. 0 \in blocks /\ Size(mem, 0) \in Nat
      BY <2>0, BlockFacts DEF Tiling
    <3>5. QED
      BY <3>2, <3>3, <3>4 DEF SizeAt, Size
  <2>4. QED
    BY <2>1, <2>2, <2>3 DEF NothingLost, BLOCK_IS_ALLOC
<1>2. QED
  BY <1>1, HeapSound, PTL

\* kmalloc returns NULL only when no free block is large enough (NullOnlyWhenFull).
THEOREM NullMeansFull ==
    ASSUME Undisturbed
    PROVE  Spec => NullOnlyWhenFull
<1> DEFINE A == \A c \in Callers : pc[c] = "search" /\ pc'[c] = "idle" =>
                    \A b \in blocks : FreeAt(b) => SizeAt(b) < need[c]
<1>1. HeapInv /\ [Next]_vars => [A]_vars
  <2> SUFFICES ASSUME HeapInv, Next, NEW c \in Callers, pc[c] = "search", pc'[c] = "idle",
                      NEW b \in blocks, FreeAt(b)
               PROVE  SizeAt(b) < need[c]
    BY DEF vars
  <2>0. /\ Tiling(mem, blocks) /\ Types /\ OneAtATime /\ CallsFit
    BY DEF HeapInv
  <2>1. SearchEnd(c)
    <3>1. \A d \in Callers : \A l : At(d, l) => d = c /\ l = "search"
      BY DEF At, Runs, Undisturbed
    <3>2. \A p \in owned, j \in Junk : ~Store(p, j)
      BY DEF Store, Undisturbed
    <3>3. SearchEnd(c) \/ SearchSkip(c) \/ SearchFit(c)
      BY <3>1, <3>2 DEF Next, Kmalloc, SearchEnd, SearchSkip, SearchFit, Take, Kfree, FreeMark,
                        FreeNext, FreePrev
    <3>4. QED
      BY <2>0, <3>3 DEF SearchSkip, SearchFit, Goto, Types
  <2>2. SizeAt(cur[c]) = 0 /\ cur[c] \in blocks \cup {HEAP_SIZE}
    BY <2>0, <2>1 DEF SearchEnd, CallsFit
  <2>3. cur[c] = HEAP_SIZE
    <3> SUFFICES ASSUME cur[c] \in blocks PROVE FALSE
      BY <2>2
    <3>1. Size(mem, cur[c]) >= MIN_BLOCK
      BY <2>0, BlockFacts
    <3>2. QED
      BY <2>2, <3>1 DEF SizeAt, Size, MIN_BLOCK
  <2>4. b < HEAP_SIZE
    BY <2>0, BlockFacts
  <2>5. QED
    BY <2>0, <2>3, <2>4 DEF CallsFit
<1>2. QED
  BY <1>1, HeapSound, PTL DEF Spec, NullOnlyWhenFull
=============================================================================
