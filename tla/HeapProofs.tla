----------------------------- MODULE HeapProofs -----------------------------
(***************************************************************************)
(* The invariant of the kernel heap, from what HeapSteps says of the list:  *)
(* kmalloc, kmalloc_aligned, kfree and krealloc keep the list tiling the    *)
(* heap, free blocks merged, and each owner's bytes inside its block; a     *)
(* split that wraps around spoils nothing in front of where it writes.      *)
(***************************************************************************)
EXTENDS HeapSteps, WellFoundedInduction

(***************************************************************************)
(* The walk along the list meets every block.                              *)
(***************************************************************************)

\* A set of numbers has a least one: the induction the walk needs.
LEMMA Least ==
    ASSUME NEW S, S \subseteq Nat, S # {}
    PROVE  \E n \in S : \A k \in S : n <= k
<1>. DEFINE R == OpToRel(<, Nat)
<1>1. IsWellFoundedOn(R, Nat)
  BY NatLessThanWellFounded, Zenon
<1>2. \A x, y \in Nat : <<x, y>> \in R <=> x < y
  BY DEF OpToRel
<1>. HIDE DEF R
<1>3. PICK n \in S : \A k \in S : ~ (<<k, n>> \in R)
  BY <1>1, WFMin, Zenon
<1>4. \A k \in S : ~ (k < n)
  BY <1>2, <1>3, Zenon
<1>. QED  BY <1>4

\* Walk follows the equations it is defined by.
LEMMA WalkDef ==
    ASSUME NEW m, MaxBlocks \in Nat
    PROVE  Walk(m) = [i \in 0 .. MaxBlocks |->
             IF i = 0 THEN heap_first
             ELSE IF Walk(m)[i - 1] \in DOMAIN m THEN m[Walk(m)[i - 1]].next ELSE NULL]
<1>. DEFINE Is(f, n) == f = [i \in 0 .. n |->
             IF i = 0 THEN heap_first
             ELSE IF f[i - 1] \in DOMAIN m THEN m[f[i - 1]].next ELSE NULL]
            S == {n \in Nat : ~ \E f : Is(f, n)}
<1>1. S = {}
  <2>. SUFFICES ASSUME S # {} PROVE FALSE
    OBVIOUS
  <2>1. PICK n \in S : \A k \in S : n <= k
    <3>. HIDE DEF S
    <3>1. S \subseteq Nat
      BY DEF S
    <3>. QED  BY <3>1, Least, Zenon
  <2>2. CASE n = 0
    <3>. DEFINE f == [i \in 0 .. 0 |-> heap_first]
    <3>1. Is(f, 0)
      OBVIOUS
    <3>. QED  BY <2>1, <2>2, <3>1, Zenon
  <2>3. CASE n # 0
    <3>1. n - 1 \in Nat /\ n - 1 \notin S
      <4>1. n \in Nat
        OBVIOUS
      <4>. HIDE DEF S
      <4>. QED  BY <2>1, <2>3, <4>1
    <3>2. PICK g : Is(g, n - 1)
      BY <3>1
    <3>. DEFINE f == [i \in 0 .. n |->
                        IF i = n THEN IF g[n - 1] \in DOMAIN m THEN m[g[n - 1]].next ELSE NULL
                        ELSE g[i]]
    <3>3. \A i \in 0 .. n - 1 : f[i] = g[i]
      BY <2>1
    <3>4. \A i \in 0 .. n - 1 : g[i] = IF i = 0 THEN heap_first
             ELSE IF g[i - 1] \in DOMAIN m THEN m[g[i - 1]].next ELSE NULL
      BY <3>2
    <3>5. \A i \in 0 .. n : f[i] = IF i = 0 THEN heap_first
             ELSE IF f[i - 1] \in DOMAIN m THEN m[f[i - 1]].next ELSE NULL
      BY <2>1, <2>3, <3>3, <3>4
    <3>6. Is(f, n)
      BY <3>5
    <3>. QED  BY <2>1, <3>6, Zenon
  <2>. QED  BY <2>2, <2>3
<1>2. PICK f : Is(f, MaxBlocks)
  BY <1>1, Zenon
<1>3. Walk(m) = CHOOSE f1 : Is(f1, MaxBlocks)
  BY DEF Walk
<1>. QED  BY <1>2, <1>3, Zenon

\* A walk along next from the first block meets every block: if some blocks
\* were not met, consider the one at the least address; the block before it is
\* met, and its next pointer leads to it.
LEMMA WalkReaches ==
    ASSUME NEW m, NEW brk, Chain(m, brk), NEW b \in DOMAIN m
    PROVE  DOMAIN Walk(m) \subseteq Nat /\ \E i \in DOMAIN Walk(m) : Walk(m)[i] = b
<1>. DEFINE K == HEAP_HEADER_SIZE + HEAP_MIN_BLOCK
            c == MaxBlocks
            w == Walk(m)
<1>1. /\ \A a \in DOMAIN m : a \in Nat /\ End(m, a) \in Nat /\ a + K <= End(m, a) /\ a # NULL
      /\ \A a \in DOMAIN m : End(m, a) <= brk
      /\ brk \in Nat /\ brk <= HEAP_MAX_SIZE
  BY Fields, Const DEF Chain, Placed, End, NULL
<1>2. K \in Nat /\ K > 0
  BY Const
<1>. HIDE DEF K
<1>3. c \in Nat /\ \A i \in Nat : i * K <= HEAP_MAX_SIZE => i <= c
  BY <1>2, Const, Divided DEF MaxBlocks, K
<1>. HIDE DEF c, w
<1>4. /\ DOMAIN w = 0 .. c /\ w[0] = heap_first
      /\ \A i \in 1 .. c : w[i] = IF w[i - 1] \in DOMAIN m THEN m[w[i - 1]].next ELSE NULL
  <2>1. w = [i \in 0 .. c |->
               IF i = 0 THEN heap_first
               ELSE IF w[i - 1] \in DOMAIN m THEN m[w[i - 1]].next ELSE NULL]
    BY <1>3, WalkDef DEF c, w
  <2>. QED  BY <1>3, <2>1
<1>5. \A i \in 1 .. c : w[i] \in DOMAIN m => w[i - 1] \in DOMAIN m /\ w[i - 1] + K <= w[i]
  <2>. SUFFICES ASSUME NEW i \in 1 .. c, w[i] \in DOMAIN m
                PROVE  w[i - 1] \in DOMAIN m /\ w[i - 1] + K <= w[i]
    OBVIOUS
  <2>1. w[i] = IF w[i - 1] \in DOMAIN m THEN m[w[i - 1]].next ELSE NULL
    BY <1>4
  <2>2. w[i - 1] \in DOMAIN m /\ m[w[i - 1]].next = w[i] /\ w[i] # NULL
    BY <1>1, <2>1, Zenon
  <2>3. w[i] = End(m, w[i - 1])
    BY <2>2, Zenon DEF Chain, Placed
  <2>. QED  BY <1>1, <2>2, <2>3
<1>6. ASSUME NEW n \in 0 .. c, w[n] \in DOMAIN m PROVE n * K <= w[n]
  <2>. DEFINE Bad == {i \in 0 .. c : w[i] \in DOMAIN m /\ ~(i * K <= w[i])}
  <2>1. Bad = {}
    <3>. SUFFICES ASSUME Bad # {} PROVE FALSE
      OBVIOUS
    <3>1. PICK i \in Bad : \A k \in Bad : i <= k
      <4>1. Bad \subseteq Nat
        BY <1>3
      <4>. QED  BY <4>1, Least, Zenon
    <3>2. i # 0
      BY <1>2, <1>4 DEF heap_first
    <3>3. i \in 1 .. c /\ w[i - 1] \in DOMAIN m /\ w[i - 1] + K <= w[i] /\ i - 1 \notin Bad
      BY <1>3, <1>5, <3>1, <3>2
    <3>4. (i - 1) * K <= w[i - 1] /\ (i - 1) * K + K = i * K
      BY <1>2, <1>3, <3>3
    <3>. QED  BY <1>1, <1>2, <1>3, <3>3, <3>4
  <2>. QED  BY <1>6, <2>1
<1>7. \E i \in 0 .. c : w[i] = b
  <2>. DEFINE Missed == {a \in DOMAIN m : \A i \in 0 .. c : w[i] # a}
  <2>. SUFFICES ASSUME Missed # {} PROVE FALSE
    OBVIOUS
  <2>1. PICK a \in Missed : \A k \in Missed : a <= k
    <3>1. Missed \subseteq Nat
      BY <1>1
    <3>. QED  BY <3>1, Least, Zenon
  <2>2. a \in DOMAIN m /\ a # heap_first
    BY <1>3, <1>4
  <2>3. PICK p \in DOMAIN m : m[p].next = a
    BY <2>2 DEF Chain, Placed
  <2>4. p < a /\ End(m, p) = a
    BY <1>1, <1>2, <2>2, <2>3 DEF Chain, Placed
  <2>5. PICK i \in 0 .. c : w[i] = p
    BY <1>1, <2>1, <2>2, <2>4
  <2>6. i + 1 \in 1 .. c
    <3>1. i * K <= p
      BY <1>6, <2>5
    <3>2. (i + 1) * K = i * K + K /\ i * K \in Int
      BY <1>2, <1>3
    <3>3. (i + 1) * K <= HEAP_MAX_SIZE
      BY <1>1, <1>2, <2>4, <3>1, <3>2, Const
    <3>. QED  BY <1>3, <3>3
  <2>7. w[i + 1] = a
    <3>1. (i + 1) - 1 = i
      BY <1>3
    <3>2. w[i + 1] = IF w[(i + 1) - 1] \in DOMAIN m THEN m[w[(i + 1) - 1]].next ELSE NULL
      BY <1>4, <2>6
    <3>. QED  BY <2>3, <2>5, <3>1, <3>2, Zenon
  <2>. QED  BY <1>3, <2>1, <2>6, <2>7
<1>. QED  BY <1>3, <1>4, <1>7 DEF w

\* The block kmalloc finds is free and large enough.
LEMMA FirstFitFits ==
    ASSUME NEW m, NEW brk, Chain(m, brk), NEW size, Fits(m, size) # {}
    PROVE  LET b == FirstFit(m, size)
           IN  b \in DOMAIN m /\ m[b].flags = FREE /\ m[b].size >= size
<1>1. DOMAIN Walk(m) \subseteq Nat
  BY WalkReaches DEF Chain
<1>2. Fits(m, size) \subseteq Nat
  BY <1>1 DEF Fits
<1>. DEFINE i == CHOOSE n \in Fits(m, size) : \A j \in Fits(m, size) : n <= j
<1>3. i \in Fits(m, size)
  BY <1>2, Least
<1>. QED  BY <1>3 DEF FirstFit, Fits

\* A walk finds a block if there is one that fits.
LEMMA Found ==
    ASSUME NEW m, NEW brk, Chain(m, brk), NEW size, NEW b \in DOMAIN m,
           m[b].flags = FREE, m[b].size >= size
    PROVE  Fits(m, size) # {}
BY WalkReaches DEF Fits

(***************************************************************************)
(* What is left when block_split wraps around.                             *)
(***************************************************************************)
\* m2 is m up to block b, which has the given size, is in use and ends at d,
\* where a header was written.
CutOff(m2, m, b, size, d) ==
    /\ d \in Nat /\ b < d /\ d <= End(m, b) /\ d = b + HEAP_HEADER_SIZE + size
    /\ d \in DOMAIN m2 /\ DOMAIN m2 \subseteq Nat
    /\ \A a \in Nat : a < d => (a \in DOMAIN m2 <=> a \in DOMAIN m /\ a <= b)
    /\ \A a \in DOMAIN m : a < b => m2[a] = m[a]
    /\ Reads(m2[b], USED, size, d, m[b].prev)

\* A negative difference of sizes wraps around once.
LEMMA ModBelow ==
    ASSUME NEW w \in Nat, NEW x \in Int, x < 0, x + w >= 0
    PROVE  x % w = x + w
BY Z3

\* A split that wraps around leaves everything in front of b alone.
LEMMA SplitWraps ==
    ASSUME NEW m, NEW brk, Chain(m, brk), NEW b \in DOMAIN m, NEW size, Asks(size),
           Wraps(m, b, size), m[b].size >= size,
           NEW m3, \/ m3 = [block_split(m, b, size) EXCEPT ![b].flags = USED]
                   \/ m3 = block_split(m, b, size) /\ m[b].flags = USED
    PROVE  CutOff(m3, m, b, size, b + HEAP_HEADER_SIZE + size)
<1>. DEFINE m2 == block_split(m, b, size)
            new == b + HEAP_HEADER_SIZE + size
            next == m[b].next
            diff == m[b].size - size - HEAP_HEADER_SIZE
            remaining == diff % SIZE_WRAP
            kept == {a \in DOMAIN m : a + HEAP_HEADER_SIZE <= new \/ new + HEAP_HEADER_SIZE <= a}
            written == [a \in kept \cup {new} |->
                          IF a = new THEN Header(FREE, remaining, next, b)
                          ELSE IF a = b THEN [m[b] EXCEPT !.next = new, !.size = size]
                          ELSE m[a]]
<1>1. /\ \A a \in DOMAIN m : a \in Nat /\ m[a] \in Headers
      /\ \A a \in DOMAIN m : End(m, a) \in Nat /\ a + HEAP_HEADER_SIZE <= End(m, a)
      /\ \A a \in DOMAIN m : a < b => End(m, a) <= b
      /\ \A a \in DOMAIN m : b < a => End(m, b) <= a
      /\ brk \in Nat /\ brk <= HEAP_MAX_SIZE
  BY Const, Fields DEF Chain, Placed, End
<1>2. m[b].size \in Nat /\ size \in Nat /\ b \in Nat /\ m[b] \in Headers
  BY <1>1, Fields DEF Asks
<1>3. new \in Nat /\ b < new /\ new <= End(m, b) /\ b + HEAP_HEADER_SIZE <= new
  BY <1>2, Const DEF End
<1>4. ~TooSmall(remaining)
  <2>1. diff \in Int /\ diff < 0 /\ diff + HEAP_HEADER_SIZE >= 0
    BY <1>2, Const DEF Wraps
  <2>2. remaining = diff + SIZE_WRAP
    <3>. HIDE DEF diff
    <3>. QED  BY <2>1, ModBelow, Const
  <2>. HIDE DEF remaining, diff
  <2>. QED  BY <2>1, <2>2, Const DEF TooSmall
<1>5. m2 = IF next \in DOMAIN written THEN [written EXCEPT ![next].prev = new] ELSE written
  BY <1>4, Zenon DEF block_split
<1>. HIDE DEF remaining, diff
<1>6. next # NULL => next = End(m, b)
  BY DEF Chain, Placed
<1>7. next = NULL \/ next >= new
  BY <1>1, <1>3, <1>6
<1>. HIDE DEF next
<1>8. \A a \in Nat : a < new => (a \in kept <=> a \in DOMAIN m /\ a <= b)
  BY <1>1, <1>2, <1>3, Const
<1>9. b \in kept /\ new # b /\ kept \subseteq Nat
  BY <1>1, <1>3
<1>10. /\ DOMAIN written = kept \cup {new}
       /\ written[b] = [m[b] EXCEPT !.next = new, !.size = size]
       /\ \A a \in kept : a < b => written[a] = m[a]
  BY <1>1, <1>3, <1>9
<1>. HIDE DEF written, kept
<1>11. /\ DOMAIN m2 = kept \cup {new}
       /\ m2[b] = [m[b] EXCEPT !.next = new, !.size = size]
       /\ \A a \in kept : a < b => m2[a] = m[a]
  <2>1. b # next /\ \A a \in kept : a < b => a # next
    BY <1>2, <1>3, <1>7, <1>9 DEF NULL
  <2>. QED  BY <1>5, <1>9, <1>10, <2>1
<1>. HIDE DEF m2, new
<1>12. Reads(m2[b], m[b].flags, size, new, m[b].prev)
  <2>1. new \in Int
    BY <1>3
  <2>2. Reads([m[b] EXCEPT !.next = new, !.size = size], m[b].flags, size, new, m[b].prev)
    <3>1. m[b] \in Headers /\ size \in Nat
      BY <1>2
    <3>. QED  BY <2>1, <3>1, Resized, Zenon
  <2>3. m2[b] = [m[b] EXCEPT !.next = new, !.size = size]
    BY <1>11
  <2>. QED  BY <2>2, <2>3, Zenon
<1>13. /\ DOMAIN m3 = kept \cup {new}
       /\ \A a \in kept : a < b => m3[a] = m[a]
       /\ m3[b] = [m2[b] EXCEPT !.flags = USED] \/ (m3[b] = m2[b] /\ m[b].flags = USED)
  <2>1. b \in DOMAIN m2 /\ (\A a \in kept : a < b => a # b)
    BY <1>2, <1>9, <1>11
  <2>. QED  BY <1>11, <2>1 DEF m2
<1>14. Reads(m3[b], USED, size, new, m[b].prev)
  BY <1>12, <1>13 DEF Reads, Headers
<1>15. \A a \in Nat : a < new => (a \in DOMAIN m3 <=> a \in DOMAIN m /\ a <= b)
  BY <1>3, <1>8, <1>13
<1>16. \A a \in DOMAIN m : a < b => m3[a] = m[a]
  BY <1>1, <1>2, <1>3, <1>8, <1>13
<1>17. new = b + HEAP_HEADER_SIZE + size
  BY DEF new
<1>. SUFFICES CutOff(m3, m, b, size, new)
  BY DEF new
<1>. QED  BY <1>3, <1>9, <1>13, <1>14, <1>15, <1>16, <1>17 DEF CutOff

\* So the list is well formed up to there.
LEMMA CutOffList ==
    ASSUME NEW m, NEW brk, Chain(m, brk), NEW b \in DOMAIN m, NEW size, Asks(size),
           NEW m2, NEW d, CutOff(m2, m, b, size, d),
           Merged(m)
    PROVE  ListTo(m2, brk, d)
<1>1. /\ \A a \in DOMAIN m : a \in Nat /\ m[a].size \in Nat /\ End(m, a) \in Nat /\ a < End(m, a)
      /\ \A a \in DOMAIN m : Placed(m, brk, a)
      /\ \A a \in DOMAIN m : a < b => End(m, a) <= b
      /\ brk \in Nat
  <2>1. \A a \in DOMAIN m : m[a].size \in Nat
    BY Neighbours
  <2>2. /\ DOMAIN m \subseteq Nat /\ brk \in Nat
        /\ \A a \in DOMAIN m : Placed(m, brk, a)
        /\ \A a \in DOMAIN m : a < b => End(m, a) <= b
    BY DEF Chain
  <2>3. \A a \in DOMAIN m : End(m, a) \in Nat /\ a < End(m, a)
    BY <2>1, <2>2, Const DEF End
  <2>. QED  BY <2>1, <2>2, <2>3
<1>2. /\ m2[b].flags = USED /\ m2[b].size = size /\ m2[b].next = d /\ m2[b].prev = m[b].prev
      /\ End(m2, b) = d
  BY DEF CutOff, Reads, End
<1>3. b \in Nat /\ b < d /\ d \in Nat /\ d <= brk /\ b \in DOMAIN m2
  <2>1. d <= End(m, b) /\ End(m, b) <= brk /\ d \in Nat
    BY <1>1 DEF CutOff, Placed
  <2>. QED  BY <1>1, <2>1 DEF CutOff
<1>4. \A a \in DOMAIN m : a # heap_first =>
         m[a].prev \in DOMAIN m /\ m[a].prev < a /\ m[m[a].prev].next = a
  <2>. SUFFICES ASSUME NEW a \in DOMAIN m, a # heap_first
                PROVE  m[a].prev \in DOMAIN m /\ m[a].prev < a /\ m[m[a].prev].next = a
    OBVIOUS
  <2>1. m[a].prev \in DOMAIN m /\ m[m[a].prev].next = a
    BY <1>1 DEF Placed
  <2>2. a # NULL
    BY <1>1 DEF NULL
  <2>3. End(m, m[a].prev) = a
    BY <1>1, <2>1, <2>2 DEF Placed
  <2>. QED  BY <1>1, <2>1, <2>3
<1>5. \A a \in DOMAIN m : a < b => a \in DOMAIN m2 /\ m2[a] = m[a] /\ End(m2, a) = End(m, a)
  BY <1>1, <1>3 DEF CutOff, End
<1>6. PlacedTo(m2, brk, d, b)
  <2>1. b # heap_first => m2[b].prev \in DOMAIN m2 /\ m2[b].prev < d /\ m2[m2[b].prev].next = b
    <3>. SUFFICES ASSUME b # heap_first
                  PROVE  m[b].prev \in DOMAIN m2 /\ m[b].prev < d /\ m2[m[b].prev].next = b
      BY <1>2
    <3>1. m[b].prev \in DOMAIN m /\ m[b].prev < b /\ m[m[b].prev].next = b
      BY <1>4
    <3>. QED  BY <1>1, <1>3, <1>5, <3>1
  <2>2. b = heap_first => m2[b].prev = NULL
    BY <1>1, <1>2 DEF Placed
  <2>3. ~(d < d) /\ d \in DOMAIN m2 /\ USED # FREE
    BY <1>3 DEF CutOff, USED, FREE
  <2>. QED  BY <1>2, <1>3, <2>1, <2>2, <2>3 DEF PlacedTo, Asks
<1>7. ASSUME NEW a \in DOMAIN m, a < b PROVE PlacedTo(m2, brk, d, a)
  <2>1. m2[a] = m[a] /\ End(m2, a) = End(m, a) /\ Placed(m, brk, a) /\ a < d
    BY <1>1, <1>3, <1>5, <1>7
  <2>2. End(m, a) <= b /\ End(m, a) < brk /\ End(m, a) < d
    BY <1>1, <1>3, <1>7
  <2>3. m[a].next = End(m, a) /\ m[a].next \in DOMAIN m /\ m[m[a].next].prev = a
    BY <1>1, <2>1, <2>2 DEF Placed, NULL
  <2>4. m[a].next \in DOMAIN m2 /\ m2[m[a].next].prev = a
    <3>1. CASE m[a].next = b
      BY <1>2, <1>3, <2>3, <3>1
    <3>2. CASE m[a].next < b
      BY <1>5, <2>3, <3>2
    <3>. QED  BY <1>1, <1>3, <2>2, <2>3, <3>1, <3>2
  <2>5. a # heap_first => m[a].prev \in DOMAIN m2 /\ m[a].prev < d /\ m2[m[a].prev].next = a
    <3>. SUFFICES ASSUME a # heap_first
                  PROVE  m[a].prev \in DOMAIN m2 /\ m[a].prev < d /\ m2[m[a].prev].next = a
      OBVIOUS
    <3>1. m[a].prev \in DOMAIN m /\ m[a].prev < a /\ m[m[a].prev].next = a
      BY <1>4
    <3>2. m[a].prev < b /\ m[a].prev < d
      BY <1>1, <1>3, <1>7, <3>1
    <3>. QED  BY <1>5, <3>1, <3>2
  <2>6. m[a].flags = FREE => m2[m[a].next].flags = USED
    <3>1. CASE m[a].next = b
      BY <1>2, <3>1
    <3>2. CASE m[a].next # b
      <4>1. m[a].next < b /\ m[a].next # NULL
        BY <1>1, <1>3, <2>2, <2>3, <3>2 DEF NULL
      <4>2. m[a].flags = FREE => m[m[a].next].flags = USED
        BY <1>7, <4>1 DEF Merged, Apart
      <4>. QED  BY <1>5, <2>3, <4>1, <4>2
    <3>. QED  BY <3>1, <3>2
  <2>7. a \in Nat /\ m[a].size \in Nat /\ End(m, a) <= brk
    BY <1>1, <1>7, <2>1 DEF Placed
  <2>. QED  BY <2>1, <2>3, <2>4, <2>5, <2>6, <2>7 DEF PlacedTo, Placed
<1>8. ASSUME NEW a \in DOMAIN m2, a < d PROVE PlacedTo(m2, brk, d, a)
  <2>1. a \in DOMAIN m /\ (a = b \/ a < b)
    BY <1>1, <1>3, <1>8 DEF CutOff
  <2>. QED  BY <1>6, <1>7, <2>1
<1>9. heap_first \in DOMAIN m2 /\ heap_first < d
  <2>1. heap_first \in DOMAIN m /\ (heap_first = b \/ heap_first < b)
    BY <1>1, <1>3 DEF Chain, heap_first
  <2>. QED  BY <1>3, <1>5, <2>1 DEF heap_first
<1>. QED  BY <1>3, <1>8, <1>9 DEF ListTo, CutOff

\* What kmalloc and krealloc leave of m when block_split wraps around at d: the
\* blocks in use in front of d are those of m and b, none has become smaller.
KeepsTo(m2, m, b, d) ==
    /\ b < d /\ To(InUse(m2), d) = To(InUse(m) \cup {b}, d)
    /\ \A a \in InUse(m) : a < d => m2[a].size >= m[a].size

\* The blocks in use in front of the damage stay: m has those of m0 and none
\* smaller, but for b, which had no more than size.
LEMMA CutOffKeeps ==
    ASSUME NEW m, NEW brk, Chain(m, brk), NEW b \in DOMAIN m, NEW size, Asks(size),
           NEW m2, NEW d, CutOff(m2, m, b, size, d),
           NEW m0, InUse(m) = InUse(m0), b \in InUse(m0) => size >= m0[b].size,
           \A a \in InUse(m0) : a # b => m[a].size >= m0[a].size
    PROVE  KeepsTo(m2, m0, b, d)
<1>1. \A a \in DOMAIN m : a \in Nat /\ m[a].size \in Nat
  BY Neighbours DEF Chain
<1>2. b \in Nat /\ b < d /\ d \in Nat /\ m2[b].flags = USED /\ m2[b].size = size
  BY <1>1 DEF CutOff, Reads
<1>3. \A a \in Nat : a < d => (a \in DOMAIN m2 <=> a \in DOMAIN m /\ (a = b \/ a < b))
  BY <1>2 DEF CutOff
<1>4. \A a \in DOMAIN m : a < b => m2[a] = m[a]
  BY DEF CutOff
<1>5. To(InUse(m2), d) = To(InUse(m) \cup {b}, d)
  <2>1. DOMAIN m2 \subseteq Nat
    BY DEF CutOff
  <2>2. ASSUME NEW a \in Nat, a < d
        PROVE  a \in InUse(m2) <=> a \in InUse(m) \cup {b}
    <3>1. CASE a = b
      BY <1>2, <1>3, <3>1 DEF InUse
    <3>2. CASE a < b
      BY <1>2, <1>3, <1>4, <2>2, <3>2 DEF InUse
    <3>3. CASE b < a
      <4>1. a \notin DOMAIN m2
        BY <1>2, <1>3, <2>2, <3>3
      <4>2. a \notin DOMAIN m
        <5>1. a \in DOMAIN m => End(m, b) <= a
          BY <3>3 DEF Chain
        <5>2. d <= End(m, b) /\ End(m, b) \in Nat
          BY <1>1, Const DEF CutOff, End
        <5>. QED  BY <1>2, <2>2, <5>1, <5>2
      <4>. QED  BY <1>2, <3>3, <4>1, <4>2 DEF InUse
    <3>. QED  BY <1>2, <3>1, <3>2, <3>3
  <2>3. InUse(m2) \subseteq Nat /\ InUse(m) \cup {b} \subseteq Nat
    BY <1>1, <2>1 DEF InUse
  <2>. QED  BY <2>2, <2>3 DEF To
<1>6. ASSUME NEW a \in InUse(m0), a < d PROVE m2[a].size >= m0[a].size
  <2>1. a \in InUse(m) /\ a \in DOMAIN m /\ a \in Nat
    BY <1>1 DEF InUse
  <2>2. a \in To(InUse(m2), d)
    BY <1>5, <1>6 DEF To
  <2>3. a = b \/ a < b
    BY <1>3, <1>6, <2>1, <2>2 DEF To, InUse
  <2>4. a < b => m2[a] = m[a] /\ a # b
    BY <1>2, <1>4, <2>1
  <2>. QED  BY <1>2, <2>3, <2>4
<1>. QED  BY <1>2, <1>5, <1>6 DEF KeepsTo

\* The owners in front of the damage keep their bytes, and the caller has its own.
LEMMA GivenOwnedTo ==
    ASSUME NEW m, NEW m2, NEW brk, NEW brk2, Chain(m, brk), NEW d, ListTo(m2, brk2, d),
           NEW u, Owned(u, m), NEW b, KeepsTo(m2, m, b, d),
           NEW first \in Nat, NEW n \in Nat,
           block_to_ptr(b) <= first, first + n <= End(m2, b)
    PROVE  OwnedTo(GivenOut(u, b, first, n), m2, d)
<1>. DEFINE u2 == GivenOut(u, b, first, n)
<1>1. /\ DOMAIN u2 = DOMAIN u \cup {b} /\ u2[b] = <<first, n>>
      /\ \A a \in DOMAIN u : a # b => u2[a] = u[a]
  BY DEF GivenOut
<1>. HIDE DEF u2
<1>2. To(DOMAIN u2, d) = To(InUse(m2), d)
  BY <1>1, Zenon DEF Owned, KeepsTo
<1>3. Inside(u2, m2, b)
  BY <1>1 DEF Inside
<1>4. ASSUME NEW a \in DOMAIN u, a # b, a < d PROVE Inside(u2, m2, a)
  <2>1. a \in InUse(m) /\ m2[a].size >= m[a].size /\ Inside(u, m, a) /\ a \in DOMAIN m
    BY <1>4 DEF Owned, KeepsTo, InUse
  <2>2. a \in DOMAIN m2
    <3>1. a \in To(InUse(m2), d)
      BY <1>1, <1>2, <1>4 DEF To
    <3>. QED  BY <3>1 DEF To, InUse
  <2>3. a \in Nat /\ m[a].size \in Nat /\ m2[a].size \in Nat
    BY <1>4, <2>1, <2>2, Neighbours DEF ListTo, PlacedTo
  <2>4. End(m, a) <= End(m2, a) /\ End(m, a) \in Nat /\ End(m2, a) \in Nat
    BY <2>1, <2>3, Const DEF End
  <2>5. u2[a] = u[a]
    BY <1>1, <1>4
  <2>. QED  BY <2>1, <2>4, <2>5 DEF Inside
<1>5. \A a \in To(DOMAIN u2, d) : Inside(u2, m2, a)
  BY <1>1, <1>3, <1>4, Zenon DEF To
<1>. QED  BY <1>2, <1>5 DEF OwnedTo, u2

\* A caller is given n bytes from first on of the block kmalloc found.
Given(b, bytes, first, n) ==
    b \in Nat /\ block_to_ptr(b) <= HEAP_MAX_SIZE =>
        /\ first \in Nat /\ block_to_ptr(b) <= first
        /\ first + n <= block_to_ptr(b) + bytes

\* A block in use that absorbs the free one behind it leaves no free neighbours.
LEMMA GrownMerged ==
    ASSUME NEW m, NEW brk, Chain(m, brk), Merged(m), NEW b \in InUse(m),
           NEW m1, m1 = block_merge_next(m, b)
    PROVE  Chain(m1, brk) /\ Merged(m1) /\ MergeFrom(m1, m, b)
<1>1. b \in DOMAIN m /\ m[b].flags = USED
  BY DEF InUse
<1>2. Chain(m1, brk) /\ MergeFrom(m1, m, b)
  BY <1>1, MergeChain
<1>3. ASSUME NEW a \in DOMAIN m1, m1[a].flags = FREE PROVE Apart(m1, a)
  <2>1. a # b /\ a \in DOMAIN m /\ m[a].flags = FREE
    BY <1>1, <1>2, <1>3 DEF MergeFrom, FREE, USED
  <2>2. Apart(m, a)
    BY <2>1 DEF Merged
  <2>. QED  BY <1>1, <1>2, <2>1, <2>2, MergeApart
<1>. QED  BY <1>2, <1>3 DEF Merged

\* krealloc into the free block behind, when the split wraps around.
LEMMA GrownCut ==
    ASSUME NEW m, NEW brk, Chain(m, brk), Merged(m), NEW b \in InUse(m),
           NEW size, Asks(size), NEW m1, m1 = block_merge_next(m, b),
           Wraps(m1, b, size), m1[b].size >= size, size >= m[b].size,
           NEW m2, m2 = block_split(m1, b, size), NEW d, d = b + HEAP_HEADER_SIZE + size
    PROVE  /\ ListTo(m2, brk, d) /\ KeepsTo(m2, m, b, d) /\ m2[b].size = size
           /\ d # NULL
<1>1. Chain(m1, brk) /\ Merged(m1) /\ MergeFrom(m1, m, b)
  BY GrownMerged
<1>2. b \in DOMAIN m /\ b \in DOMAIN m1 /\ m1[b].flags = USED
  BY <1>1 DEF MergeFrom, InUse
<1>3. CutOff(m2, m1, b, size, d)
  BY <1>1, <1>2, SplitWraps
<1>4. InUse(m1) = InUse(m) /\ \A a \in InUse(m) : a # b => m1[a].size >= m[a].size
  <2>1. \A a \in InUse(m) : m[a].size \in Nat
    BY Neighbours DEF InUse
  <2>. QED  BY <1>1, <1>2, <2>1, MergeUse
<1>5. KeepsTo(m2, m, b, d)
  BY <1>1, <1>2, <1>3, <1>4, CutOffKeeps
<1>6. ListTo(m2, brk, d)
  BY <1>1, <1>2, <1>3, CutOffList
<1>7. m2[b].size = size /\ d \in Nat
  BY <1>3 DEF CutOff, Reads
<1>. QED  BY <1>5, <1>6, <1>7 DEF NULL

\* n bytes from first on, of the bytes asked for, are inside a block that has them.
LEMMA GivenInside ==
    ASSUME NEW m, NEW b \in Nat, m[b].size \in Nat, NEW brk, NEW top, Limits(brk, top),
           End(m, b) <= brk, NEW bytes, Bounded(bytes), m[b].size >= bytes,
           NEW first, NEW n \in Nat, Given(b, bytes, first, n)
    PROVE  first \in Nat /\ block_to_ptr(b) <= first /\ first + n <= End(m, b)
<1>1. block_to_ptr(b) \in Nat /\ block_to_ptr(b) <= HEAP_MAX_SIZE
  BY Const DEF block_to_ptr, End, Limits
<1>2. first \in Nat /\ block_to_ptr(b) <= first /\ first + n <= block_to_ptr(b) + bytes
  BY <1>1, Zenon DEF Given
<1>. QED  BY <1>1, <1>2, Const DEF Bounded, block_to_ptr, End

(***************************************************************************)
(* kmalloc.                                                                *)
(***************************************************************************)
\* Block b is a block below brk that has the bytes.
Holds(m, brk, b, bytes) ==
    b \in DOMAIN m /\ b \in Nat /\ m[b].size \in Nat /\ m[b].size >= bytes /\ End(m, b) <= brk

\* What a kmalloc of bytes may turn headers m and break brk into.
Outcome(r, m, brk, bytes) ==
    /\ Limits(r.heap_break, r.mapped)
    /\ r.block = NULL => r.mem = m /\ r.heap_break = brk /\ r.damage = NULL
    /\ r.block # NULL /\ r.damage = NULL =>
          /\ Chain(r.mem, r.heap_break) /\ Merged(r.mem)
          /\ Keeps(r.mem, m, InUse(m) \cup {r.block}) /\ r.block \notin InUse(m)
    /\ r.block # NULL /\ r.damage # NULL =>
          /\ ListTo(r.mem, r.heap_break, r.damage)
          /\ KeepsTo(r.mem, m, r.block, r.damage)
    /\ r.block # NULL => Holds(r.mem, r.heap_break, r.block, bytes)

\* Handing out the first block that fits from a sound list is a sound outcome.
LEMMA HandedOut ==
    ASSUME NEW m0, NEW brk0, Chain(m0, brk0), NEW m, NEW brk, NEW top, NEW size,
           NEW bytes \in Nat, Chain(m, brk), Merged(m), Keeps(m, m0, InUse(m0)), Limits(brk, top),
           Asks(size), size >= bytes, Fits(m, size) # {}
    PROVE  Outcome(HandOut(m, brk, top, size), m0, brk0, bytes)
<1>. DEFINE r == HandOut(m, brk, top, size)
            b == FirstFit(m, size)
            m3 == [block_split(m, b, size) EXCEPT ![b].flags = USED]
<1>1. b \in DOMAIN m /\ m[b].flags = FREE /\ m[b].size >= size
  BY FirstFitFits
<1>2. /\ r.mem = m3 /\ r.heap_break = brk /\ r.mapped = top /\ r.block = b
      /\ r.damage = Damage(m, b, size)
  BY DEF HandOut
<1>. HIDE DEF r, b, m3
<1>4. b # NULL /\ b \notin InUse(m0)
  BY <1>1, Neighbours DEF Keeps, InUse
<1>5. b \in Nat /\ size \in Nat /\ b + HEAP_HEADER_SIZE + size \in Nat
  BY <1>1, Const DEF Chain, Asks
<1>6. ASSUME r.damage = NULL
      PROVE  /\ Chain(m3, brk) /\ Merged(m3) /\ Keeps(m3, m0, InUse(m0) \cup {b})
             /\ Holds(m3, brk, b, bytes)
  <2>1. ~Wraps(m, b, size)
    BY <1>2, <1>5, <1>6 DEF Damage, NULL
  <2>2. /\ Chain(m3, brk) /\ Merged(m3) /\ Keeps(m3, m, InUse(m) \cup {b})
        /\ m3[b].size >= size
    BY <1>1, <2>1, HandOutChain, Zenon DEF m3
  <2>3. Keeps(m3, m0, InUse(m0) \cup {b}) /\ b \in DOMAIN m3
    BY <1>1, <1>4, <2>2, Neighbours DEF Keeps, InUse
  <2>4. m3[b].size \in Nat /\ End(m3, b) <= brk
    <3>1. Placed(m3, brk, b)
      BY <2>2, <2>3 DEF Chain
    <3>. QED  BY <2>2, <2>3, <3>1, Neighbours DEF Placed
  <2>5. m3[b].size >= bytes
    BY <1>5, <2>2, <2>4
  <2>. QED  BY <1>5, <2>2, <2>3, <2>4, <2>5 DEF Holds
<1>7. ASSUME r.damage # NULL
      PROVE  /\ ListTo(m3, brk, r.damage) /\ KeepsTo(m3, m0, b, r.damage)
             /\ Holds(m3, brk, b, bytes)
  <2>1. Wraps(m, b, size) /\ r.damage = b + HEAP_HEADER_SIZE + size
    BY <1>2, <1>7 DEF Damage
  <2>2. CutOff(m3, m, b, size, r.damage)
    BY <1>1, <2>1, SplitWraps DEF m3
  <2>3. ListTo(m3, brk, r.damage)
    BY <1>1, <2>2, CutOffList, Zenon
  <2>4. KeepsTo(m3, m0, b, r.damage)
    BY <1>1, <1>4, <2>2, CutOffKeeps, Zenon DEF Keeps
  <2>5. b < r.damage /\ b <= b
    BY <1>5, <2>2 DEF CutOff
  <2>6. b \in DOMAIN m3 /\ m3[b].size = size
    BY <1>1, <1>5, <2>2, <2>5, Zenon DEF CutOff, Reads
  <2>7. End(m3, b) <= brk
    BY <2>3, <2>5, <2>6 DEF ListTo, PlacedTo
  <2>. QED  BY <1>5, <2>3, <2>4, <2>6, <2>7 DEF Holds
<1>. QED  BY <1>2, <1>4, <1>6, <1>7, Zenon DEF Outcome, r

\* So is every way through kmalloc: a block found at once, one found after the
\* heap has grown, and the two failures.
LEMMA KMallocOutcome ==
    ASSUME NEW bytes, NEW pages \in Nat, Bounded(bytes), Chain(mem, heap_break),
           Merged(mem), Limits(heap_break, mapped)
    PROVE  Outcome(KMalloc(bytes, pages), mem, heap_break, bytes)
<1>. DEFINE size == Request(bytes)
            more == Growth(size)
            got == IF pages * PAGE_SIZE < more THEN pages * PAGE_SIZE ELSE more
            top == MaxOf(mapped, heap_break + got)
            r == KMalloc(bytes, pages)
<1>1. /\ Asks(size) /\ size >= bytes /\ more \in Nat /\ Aligned(more)
      /\ more >= size + HEAP_HEADER_SIZE
  BY Requested, Zenon
<1>2. r = IF Fits(mem, size) # {} THEN HandOut(mem, heap_break, mapped, size)
          ELSE IF ~MayGrow(more) THEN Fail(mapped)
          ELSE IF ~Expanded(pages, more) THEN Fail(top)
          ELSE HandOut(heap_expand(mem, heap_break, more), heap_break + more, top, size)
  BY Zenon DEF KMalloc, Growth
<1>3. got \in Nat /\ got <= more /\ (Expanded(pages, more) => got = more)
  BY <1>1, HeapAssumption DEF Expanded
<1>. HIDE DEF size, more, got, r
<1>. SUFFICES Outcome(r, mem, heap_break, bytes)
  BY Zenon DEF r
<1>4. Keeps(mem, mem, InUse(mem))
  BY Neighbours DEF Keeps, InUse
<1>5. bytes \in Nat
  BY DEF Bounded
<1>6. CASE Fits(mem, size) # {}
  BY <1>1, <1>2, <1>4, <1>5, <1>6, HandedOut
<1>7. ASSUME NEW t, Limits(heap_break, t), r = Fail(t)
      PROVE  Outcome(r, mem, heap_break, bytes)
  BY <1>7 DEF Fail, Outcome
<1>8. CASE Fits(mem, size) = {} /\ ~MayGrow(more)
  BY <1>2, <1>7, <1>8
<1>9. CASE Fits(mem, size) = {} /\ MayGrow(more)
  <2>1. heap_break + more <= HEAP_MAX_SIZE
    BY <1>9 DEF MayGrow
  <2>2. Limits(heap_break, top) /\ (got = more => Limits(heap_break + more, top))
    BY <1>1, <1>3, <2>1, Const DEF Limits, MaxOf
  <2>3. CASE ~Expanded(pages, more)
    BY <1>2, <1>7, <1>9, <2>2, <2>3, Zenon
  <2>4. CASE Expanded(pages, more)
    <3>. DEFINE m == heap_expand(mem, heap_break, more)
    <3>1. more >= HEAP_HEADER_SIZE + HEAP_MIN_BLOCK
      BY <1>1, Const DEF Asks
    <3>2. /\ Chain(m, heap_break + more) /\ Merged(m) /\ Keeps(m, mem, InUse(mem))
          /\ \E b \in DOMAIN m : m[b].flags = FREE /\ m[b].size >= more - HEAP_HEADER_SIZE
      BY <1>1, <2>1, <3>1, ExpandChain
    <3>. HIDE DEF m
    <3>3. \E b \in DOMAIN m : m[b].flags = FREE /\ m[b].size >= size
      BY <1>1, <3>2, Neighbours, Const DEF Asks
    <3>4. Fits(m, size) # {}
      BY <3>2, <3>3, Found
    <3>5. Limits(heap_break + more, top)
      BY <1>3, <2>2, <2>4
    <3>6. r = HandOut(m, heap_break + more, top, size)
      BY <1>2, <1>9, <2>4 DEF m
    <3>. QED  BY <1>1, <1>5, <3>2, <3>4, <3>5, <3>6, HandedOut
  <2>. QED  BY <2>3, <2>4
<1>. QED  BY <1>6, <1>8, <1>9

\* No request of a caller wraps around when it is rounded up.
LEMMA Requests ==
    ASSUME NEW bytes \in Sizes
    PROVE  /\ Bounded(bytes)
           /\ LET size == ALIGN_UP(bytes, HEAP_ALIGNMENT)
              IN  Bounded(size) /\ Aligned(size) /\ size >= bytes
           /\ \A a \in Alignments :
                 /\ a \in Nat /\ a > 0 /\ Bounded(bytes + a + PTR_SIZE)
                 /\ HEAP_MAX_SIZE + PTR_SIZE + a <= SIZE_WRAP
<1>1. PAGE_SIZE \in Nat /\ PTR_SIZE \in Nat /\ bytes \in Nat
  BY HeapAssumption, RequestAssumption
<1>2. bytes + HEAP_HEADER_SIZE + 2 * HEAP_ALIGNMENT + PAGE_SIZE <= SIZE_WRAP
  BY RequestAssumption DEF Asked
<1>3. ASSUME NEW a \in Alignments
      PROVE  /\ a \in Nat /\ a > 0 /\ Bounded(bytes + a + PTR_SIZE)
             /\ HEAP_MAX_SIZE + PTR_SIZE + a <= SIZE_WRAP
  <2>. DEFINE n == bytes + a + PTR_SIZE
  <2>1. a \in Nat /\ a > 0 /\ HEAP_MAX_SIZE + PTR_SIZE + a <= SIZE_WRAP
    BY RequestAssumption
  <2>2. n \in Asked
    BY DEF Asked
  <2>3. n + HEAP_HEADER_SIZE + 2 * HEAP_ALIGNMENT + PAGE_SIZE <= SIZE_WRAP
    BY <2>2, RequestAssumption
  <2>. QED  BY <1>1, <2>1, <2>3, Const DEF Bounded
<1>4. LET size == ALIGN_UP(bytes, HEAP_ALIGNMENT)
      IN  size \in Nat /\ Aligned(size) /\ size >= bytes /\ size < bytes + HEAP_ALIGNMENT
  BY <1>1, <1>2, RoundUp, Const DEF Aligned
<1>. QED  BY <1>1, <1>2, <1>3, <1>4, Const DEF Bounded

\* A call of kmalloc, whatever part of the block its caller gets.
LEMMA Malloced ==
    ASSUME NEW m, NEW brk, NEW top, NEW u, Healthy(m, brk, top, u),
           NEW bytes, Bounded(bytes), NEW r, Outcome(r, m, brk, bytes),
           NEW first, NEW n \in Nat, Given(r.block, bytes, first, n),
           NEW u2, u2 = IF r.block = NULL THEN u ELSE GivenOut(u, r.block, first, n)
    PROVE  Inv(r.mem, r.heap_break, r.mapped, u2, r.damage)
<1>. DEFINE b == r.block
<1>1. Limits(r.heap_break, r.mapped)
  BY Zenon DEF Outcome
<1>2. CASE b = NULL
  BY <1>1, <1>2, Zenon DEF Outcome, Inv, Healthy
<1>3. CASE b # NULL
  <2>1. Holds(r.mem, r.heap_break, b, bytes) /\ u2 = GivenOut(u, b, first, n)
    BY <1>3 DEF Outcome
  <2>2. first \in Nat /\ block_to_ptr(b) <= first /\ first + n <= End(r.mem, b)
    BY <1>1, <2>1, GivenInside, Zenon DEF Holds
  <2>3. CASE r.damage = NULL
    <3>1. /\ Chain(r.mem, r.heap_break) /\ Merged(r.mem)
          /\ Keeps(r.mem, m, InUse(m) \cup {b})
      BY <1>3, <2>3, Zenon DEF Outcome
    <3>2. Owned(u2, r.mem)
      BY <2>1, <2>2, <3>1, GivenOwned, Zenon DEF Healthy
    <3>. QED  BY <1>1, <2>3, <3>1, <3>2, Zenon DEF Inv, Healthy
  <2>4. CASE r.damage # NULL
    <3>1. ListTo(r.mem, r.heap_break, r.damage) /\ KeepsTo(r.mem, m, b, r.damage)
      BY <1>3, <2>4, Zenon DEF Outcome
    <3>2. OwnedTo(u2, r.mem, r.damage)
      BY <2>1, <2>2, <3>1, GivenOwnedTo, Zenon DEF Healthy
    <3>. QED  BY <1>1, <2>4, <3>1, <3>2, Zenon DEF Inv
  <2>. QED  BY <2>3, <2>4, Zenon
<1>. QED  BY <1>2, <1>3, Zenon

\* So a step that calls kmalloc keeps the invariant.
LEMMA MallocStep ==
    ASSUME IInv, damage = NULL, NEW bytes, NEW pages \in Nat, Bounded(bytes),
           NEW r, r = KMalloc(bytes, pages), Becomes(r),
           NEW first, NEW n \in Nat, Given(r.block, bytes, first, n),
           used' = IF r.block = NULL THEN used ELSE GivenOut(used, r.block, first, n)
    PROVE  IInv'
<1>1. Healthy(mem, heap_break, mapped, used)
  BY Zenon DEF IInv, Inv
<1>2. Outcome(r, mem, heap_break, bytes)
  BY <1>1, KMallocOutcome, Zenon DEF Healthy
<1>3. Inv(r.mem, r.heap_break, r.mapped, used', r.damage)
  BY <1>1, <1>2, Malloced, Zenon
<1>. QED  BY <1>3, Zenon DEF Becomes, IInv

\* kmalloc.
LEMMA KmallocStep ==
    ASSUME IInv, NEW bytes, NEW pages \in Nat, Bounded(bytes), kmalloc(bytes, pages)
    PROVE  IInv'
<1>. DEFINE r == KMalloc(bytes, pages)
            b == r.block
<1>1. /\ damage = NULL /\ Becomes(r)
      /\ used' = IF b = NULL THEN used ELSE GivenOut(used, b, block_to_ptr(b), bytes)
  BY Zenon DEF kmalloc
<1>2. bytes \in Nat
  BY DEF Bounded
<1>3. Given(b, bytes, block_to_ptr(b), bytes)
  <2>. HIDE DEF r
  <2>. QED  BY <1>2, Const DEF Given, block_to_ptr
<1>. QED  BY <1>1, <1>2, <1>3, MallocStep, Zenon

\* kmalloc_aligned: the aligned address, the pointer stored before it and the
\* bytes behind it are inside the block.
LEMMA AlignedStep ==
    ASSUME IInv, NEW bytes \in Sizes, NEW alignment \in Alignments, NEW pages \in Nat,
           kmalloc_aligned(bytes, alignment, pages)
    PROVE  IInv'
<1>. DEFINE total == bytes + alignment + PTR_SIZE
            r == KMalloc(total, pages)
            b == r.block
            ptr == block_to_ptr(b)
            aligned == ALIGN_UP(ptr + PTR_SIZE, alignment)
<1>1. /\ PTR_SIZE \in Nat /\ bytes \in Nat /\ alignment \in Nat /\ alignment > 0
      /\ HEAP_MAX_SIZE + PTR_SIZE + alignment <= SIZE_WRAP
      /\ Bounded(bytes) /\ Bounded(total)
  BY HeapAssumption, Requests DEF Bounded
<1>2. CASE kmalloc(bytes, pages)
  BY <1>1, <1>2, KmallocStep
<1>3. CASE ~kmalloc(bytes, pages)
  <2>1. /\ damage = NULL /\ Becomes(r)
        /\ used' = IF b = NULL THEN used
                   ELSE GivenOut(used, b, aligned - PTR_SIZE, bytes + PTR_SIZE)
    BY <1>3, Zenon DEF kmalloc_aligned
  <2>2. Given(b, total, aligned - PTR_SIZE, bytes + PTR_SIZE)
    <3>. HIDE DEF r, b
    <3>. SUFFICES ASSUME b \in Nat, ptr <= HEAP_MAX_SIZE
                  PROVE  /\ aligned - PTR_SIZE \in Nat /\ ptr <= aligned - PTR_SIZE
                         /\ aligned - PTR_SIZE + (bytes + PTR_SIZE) <= ptr + total
      BY DEF Given
    <3>1. ptr \in Nat
      BY Const DEF block_to_ptr
    <3>. HIDE DEF ptr
    <3>2. aligned \in Nat /\ ptr + PTR_SIZE <= aligned /\ aligned < ptr + PTR_SIZE + alignment
      BY <1>1, <3>1, RoundUp, Const
    <3>. QED  BY <1>1, <3>1, <3>2
  <2>3. bytes + PTR_SIZE \in Nat
    BY <1>1
  <2>. HIDE DEF aligned
  <2>. QED  BY <1>1, <2>1, <2>2, <2>3, MallocStep, Zenon
<1>. QED  BY <1>2, <1>3

\* What krealloc starts from: block b has an owner, and the request rounded up
\* to size does not wrap around.
Starts(m, brk, top, u, b, bytes, size) ==
    /\ Healthy(m, brk, top, u)
    /\ b \in InUse(m) /\ b \in Nat /\ m[b].size \in Nat /\ m[b].size >= HEAP_MIN_BLOCK
    /\ Bounded(size) /\ Aligned(size) /\ size >= bytes /\ size \in Nat /\ bytes \in Nat

\* Every call of krealloc on a healthy heap starts like that.
LEMMA ReallocStart ==
    ASSUME NEW m, NEW brk, NEW top, NEW u, Healthy(m, brk, top, u),
           NEW b \in DOMAIN u, NEW bytes \in Sizes
    PROVE  Starts(m, brk, top, u, b, bytes, ALIGN_UP(bytes, HEAP_ALIGNMENT))
<1>1. b \in InUse(m) /\ b \in DOMAIN m /\ Chain(m, brk)
  BY DEF Healthy, Owned, InUse
<1>2. b \in Nat /\ Placed(m, brk, b) /\ m[b].size \in Nat
  BY <1>1, Neighbours, Zenon DEF Chain
<1>3. m[b].size >= HEAP_MIN_BLOCK
  BY <1>2, Zenon DEF Placed
<1>. QED  BY <1>1, <1>2, <1>3, Requests DEF Bounded, Starts

\* krealloc in place.
LEMMA ReallocInPlace ==
    ASSUME NEW m, NEW brk, NEW top, NEW u, NEW b, NEW bytes, NEW size,
           Starts(m, brk, top, u, b, bytes, size), size <= m[b].size
    PROVE  Healthy(m, brk, top, GivenOut(u, b, block_to_ptr(b), bytes))
<1>. DEFINE ptr == block_to_ptr(b)
<1>1. Keeps(m, m, InUse(m) \cup {b})
  BY Neighbours DEF Keeps, InUse, Starts, Healthy
<1>2. ptr \in Nat /\ ptr <= ptr /\ ptr + bytes <= End(m, b)
  BY Const DEF End, block_to_ptr, Starts
<1>3. Owned(GivenOut(u, b, ptr, bytes), m)
  BY <1>1, <1>2, GivenOwned, Zenon DEF Starts, Healthy
<1>. QED  BY <1>3, Zenon DEF Starts, Healthy

\* krealloc into the free block behind.
LEMMA ReallocGrow ==
    ASSUME NEW m, NEW brk, NEW top, NEW u, NEW b, NEW bytes, NEW size,
           Starts(m, brk, top, u, b, bytes, size), size > m[b].size,
           NEW m1, m1 = block_merge_next(m, b), m1 # m, m1[b].size >= size
    PROVE  Inv(block_split(m1, b, size), brk, top, GivenOut(u, b, block_to_ptr(b), bytes),
               Damage(m1, b, size))
<1>. DEFINE ptr == block_to_ptr(b)
            m2 == block_split(m1, b, size)
            d == Damage(m1, b, size)
            u2 == GivenOut(u, b, ptr, bytes)
<1>1. /\ Asks(size) /\ size >= m[b].size /\ b \in InUse(m)
      /\ Chain(m, brk) /\ Merged(m) /\ Owned(u, m) /\ Limits(brk, top)
      /\ bytes \in Nat /\ size \in Nat /\ size >= size
  BY Const DEF Asks, Starts, Healthy
<1>2. ptr \in Nat /\ ptr <= ptr
  BY Const DEF block_to_ptr, Starts
<1>3. ASSUME m2[b].size \in Nat, m2[b].size >= size PROVE ptr + bytes <= End(m2, b)
  <2>. HIDE DEF m2
  <2>. QED  BY <1>3, Const DEF End, block_to_ptr, Starts
<1>4. CASE Wraps(m1, b, size)
  <2>1. d = b + HEAP_HEADER_SIZE + size
    BY <1>4, Zenon DEF Damage
  <2>. HIDE DEF d
  <2>2. ListTo(m2, brk, d) /\ KeepsTo(m2, m, b, d) /\ m2[b].size = size /\ d # NULL
    BY <1>1, <1>4, <2>1, GrownCut
  <2>. HIDE DEF m2
  <2>3. ptr + bytes <= End(m2, b)
    BY <1>1, <1>3, <2>2, Zenon
  <2>4. OwnedTo(u2, m2, d)
    BY <1>1, <1>2, <2>2, <2>3, GivenOwnedTo, Zenon
  <2>. QED  BY <1>1, <2>2, <2>4, Zenon DEF Inv, m2, d
<1>5. CASE ~Wraps(m1, b, size)
  <2>1. /\ Chain(m2, brk) /\ Merged(m2)
        /\ Keeps(m2, m, InUse(m) \cup {b}) /\ m2[b].size >= size
    BY <1>1, <1>5, GrownChain, Zenon
  <2>2. d = NULL
    BY <1>5, Zenon DEF Damage
  <2>. HIDE DEF m2, d
  <2>3. m2[b].size \in Nat
    <3>1. b \in DOMAIN m2
      BY <2>1, Zenon DEF Keeps, InUse
    <3>. QED  BY <2>1, <3>1, Neighbours, Zenon
  <2>4. Owned(u2, m2)
    BY <1>1, <1>2, <1>3, <2>1, <2>3, GivenOwned, Zenon
  <2>. QED  BY <1>1, <2>1, <2>2, <2>4, Zenon DEF Inv, Healthy, m2, d
<1>. QED  BY <1>4, <1>5, Zenon

\* krealloc by a new block, a copy and kfree.
LEMMA ReallocMove ==
    ASSUME NEW m, NEW brk, NEW top, NEW u, NEW b, NEW bytes, NEW size,
           Starts(m, brk, top, u, b, bytes, size),
           NEW r, Outcome(r, m, brk, size), r.block # NULL, r.damage = NULL,
           NEW c, c = r.block, Given(c, size, block_to_ptr(c), bytes)
    PROVE  Healthy(KFree(r.mem, b), r.heap_break, r.mapped,
                   TakenBack(GivenOut(u, c, block_to_ptr(c), bytes), b))
<1>. DEFINE ptr == block_to_ptr(c)
            u2 == GivenOut(u, c, ptr, bytes)
            m2 == KFree(r.mem, b)
<1>1. /\ Chain(r.mem, r.heap_break) /\ Merged(r.mem)
      /\ Keeps(r.mem, m, InUse(m) \cup {c})
      /\ Holds(r.mem, r.heap_break, c, size) /\ Limits(r.heap_break, r.mapped)
  BY Zenon DEF Outcome
<1>2. ptr \in Nat /\ ptr <= ptr /\ ptr + bytes <= End(r.mem, c)
  BY <1>1, GivenInside, Zenon DEF Holds, Starts
<1>3. Owned(u2, r.mem)
  BY <1>1, <1>2, GivenOwned, Zenon DEF Starts, Healthy
<1>4. b \in InUse(r.mem)
  BY <1>1, Zenon DEF Keeps, Starts
<1>5. Chain(m2, r.heap_break) /\ Merged(m2) /\ Keeps(m2, r.mem, InUse(r.mem) \ {b})
  BY <1>1, <1>4, KFreeChain, Zenon
<1>6. Owned(TakenBack(u2, b), m2)
  BY <1>1, <1>3, <1>5, TakenOwned, Zenon
<1>. QED  BY <1>1, <1>5, <1>6, Zenon DEF Healthy

\* krealloc, on whichever of the three paths; when no block is found the old
\* one stays.
LEMMA ReallocStep ==
    ASSUME IInv, NEW b, NEW bytes \in Sizes, NEW pages \in Nat, krealloc(b, bytes, pages)
    PROVE  IInv'
<1>. DEFINE size == ALIGN_UP(bytes, HEAP_ALIGNMENT)
            merged == block_merge_next(mem, b)
            ptr == block_to_ptr(b)
            r == KMalloc(size, pages)
            c == r.block
            u == GivenOut(used, c, block_to_ptr(c), bytes)
<1>1. /\ b \in DOMAIN used /\ damage = NULL
      /\ \/ /\ size <= mem[b].size
            /\ used' = GivenOut(used, b, ptr, bytes)
            /\ UNCHANGED <<mem, heap_break, mapped, damage>>
         \/ /\ size > mem[b].size /\ merged # mem /\ merged[b].size >= size
            /\ mem' = block_split(merged, b, size) /\ damage' = Damage(merged, b, size)
            /\ used' = GivenOut(used, b, ptr, bytes)
            /\ UNCHANGED <<heap_break, mapped>>
         \/ IF c = NULL THEN Becomes(r) /\ UNCHANGED used
            ELSE IF r.damage # NULL THEN Becomes(r) /\ used' = u
            ELSE Becomes([r EXCEPT !.mem = KFree(r.mem, b)]) /\ used' = TakenBack(u, b)
  BY Zenon DEF krealloc
<1>2. Healthy(mem, heap_break, mapped, used)
  BY <1>1, Zenon DEF IInv, Inv
<1>3. Starts(mem, heap_break, mapped, used, b, bytes, size)
  BY <1>1, <1>2, ReallocStart, Zenon
<1>. HIDE DEF size, merged, ptr, r
<1>4. CASE /\ size <= mem[b].size
           /\ used' = GivenOut(used, b, ptr, bytes)
           /\ UNCHANGED <<mem, heap_break, mapped, damage>>
  <2>1. Healthy(mem, heap_break, mapped, used')
    BY <1>3, <1>4, ReallocInPlace, Zenon DEF ptr
  <2>. QED  BY <1>1, <1>4, <2>1, Zenon DEF IInv, Inv
<1>5. CASE /\ size > mem[b].size /\ merged # mem /\ merged[b].size >= size
           /\ mem' = block_split(merged, b, size) /\ damage' = Damage(merged, b, size)
           /\ used' = GivenOut(used, b, ptr, bytes)
           /\ UNCHANGED <<heap_break, mapped>>
  <2>1. Inv(mem', heap_break, mapped, used', damage')
    BY <1>3, <1>5, ReallocGrow, Zenon DEF ptr, merged
  <2>. QED  BY <1>5, <2>1, Zenon DEF IInv
<1>6. Given(c, size, block_to_ptr(c), bytes) /\ bytes \in Nat /\ Bounded(size)
  BY <1>3, Const DEF Given, block_to_ptr, Starts
<1>7. CASE /\ c = NULL \/ r.damage # NULL
           /\ Becomes(r) /\ used' = IF c = NULL THEN used ELSE u
  BY <1>1, <1>6, <1>7, MallocStep, Zenon DEF r
<1>8. CASE /\ c # NULL /\ r.damage = NULL
           /\ Becomes([r EXCEPT !.mem = KFree(r.mem, b)]) /\ used' = TakenBack(u, b)
  <2>1. Outcome(r, mem, heap_break, size)
    BY <1>2, <1>6, KMallocOutcome, Zenon DEF r, Healthy
  <2>2. Healthy(KFree(r.mem, b), r.heap_break, r.mapped, used')
    BY <1>3, <1>6, <1>8, <2>1, ReallocMove, Zenon
  <2>3. /\ mem' = KFree(r.mem, b) /\ heap_break' = r.heap_break /\ mapped' = r.mapped
        /\ damage' = NULL
    <3>1. {"mem", "heap_break", "mapped", "damage"} \subseteq DOMAIN r
      BY KMallocFields DEF r
    <3>. QED  BY <1>8, <3>1 DEF Becomes
  <2>. QED  BY <2>2, <2>3, Zenon DEF IInv, Inv
<1>. QED  BY <1>1, <1>4, <1>5, <1>7, <1>8, Zenon

\* Every operation keeps the invariant.
LEMMA NextIInv == IInv /\ [Next]_vars => IInv'
<1>. SUFFICES ASSUME IInv, [Next]_vars PROVE IInv'
  OBVIOUS
<1>1. Pages \subseteq Nat
  BY HeapAssumption
<1>2. ASSUME NEW bytes \in Sizes, NEW pages \in Pages, kmalloc(bytes, pages) PROVE IInv'
  BY <1>1, <1>2, Requests, KmallocStep
<1>3. ASSUME NEW bytes \in Sizes, NEW alignment \in Alignments, NEW pages \in Pages,
             kmalloc_aligned(bytes, alignment, pages)
      PROVE  IInv'
  BY <1>1, <1>3, AlignedStep
<1>4. ASSUME NEW b \in DOMAIN used, kfree(b) PROVE IInv'
  BY <1>4, FreeStep
<1>5. ASSUME NEW b \in DOMAIN used, NEW bytes \in Sizes, NEW pages \in Pages,
             krealloc(b, bytes, pages)
      PROVE  IInv'
  BY <1>1, <1>5, ReallocStep
<1>6. CASE UNCHANGED vars
  BY <1>6, Zenon DEF vars, IInv
<1>. QED  BY <1>2, <1>3, <1>4, <1>5, <1>6 DEF Next

\* The inductive invariant holds whatever sequence of kmalloc, kmalloc_aligned,
\* kfree and krealloc is called, for every size of the heap, of headers and of
\* pages, and however often physical memory runs out.
THEOREM HeapInvariant == Spec => []IInv
BY InitIInv, NextIInv, PTL DEF Spec

\* In front of the damage the invariant says what a reader of the list sees.
LEMMA InFront ==
    ASSUME IInv, damage # NULL
    PROVE  /\ Front = To(DOMAIN mem, damage) /\ heap_first \in Front
           /\ \A b \in Front : PlacedTo(mem, heap_break, damage, b)
           /\ \A b \in DOMAIN mem : b \in Front <=> b < damage
BY DEF IInv, Inv, ListTo, Front, To

\* The list runs through the heap without gap or overlap in every state that
\* kmalloc, kmalloc_aligned, kfree and krealloc reach; in the one a wrap-around
\* in block_split leaves, from heap_first up to the address of that damage.
THEOREM HeapTiled == Spec => []Tiled
<1>1. IInv => Tiled
  <2>. SUFFICES ASSUME IInv PROVE Tiled
    OBVIOUS
  <2>1. CASE damage = NULL
    <3>1. Front = DOMAIN mem /\ Chain(mem, heap_break)
      BY <2>1 DEF Front, IInv, Inv, Healthy
    <3>2. heap_first \in DOMAIN mem /\ \A b \in DOMAIN mem : Placed(mem, heap_break, b)
      BY <3>1 DEF Chain
    <3>3. ASSUME NEW b \in DOMAIN mem
          PROVE  /\ mem[b].next = IF damage = NULL /\ End(mem, b) = heap_break THEN NULL
                                  ELSE End(mem, b)
                 /\ mem[b].next # NULL => mem[b].next \in DOMAIN mem
                 /\ mem[b].next \in DOMAIN mem => mem[mem[b].next].prev = b
                 /\ b # heap_first => mem[b].prev \in DOMAIN mem /\ mem[mem[b].prev].next = b
                 /\ b = heap_first => mem[b].prev = NULL
                 /\ mem[b].size % HEAP_ALIGNMENT = 0 /\ mem[b].size >= HEAP_MIN_BLOCK
      BY <2>1, <3>1, <3>2, Neighbours DEF Placed, Aligned
    <3>. QED  BY <3>1, <3>2, <3>3 DEF Tiled
  <2>2. CASE damage # NULL
    <3>1. ASSUME NEW b \in Front
          PROVE  /\ mem[b].next = End(mem, b) /\ mem[b].next \in DOMAIN mem
                 /\ mem[b].next \in Front => mem[mem[b].next].prev = b
                 /\ b # heap_first => mem[b].prev \in Front /\ mem[mem[b].prev].next = b
                 /\ b = heap_first => mem[b].prev = NULL
                 /\ mem[b].size % HEAP_ALIGNMENT = 0 /\ mem[b].size >= HEAP_MIN_BLOCK
      BY <2>2, InFront, ZenonT(30) DEF PlacedTo, Aligned
    <3>. QED  BY <2>2, <3>1, InFront DEF Tiled
  <2>. QED  BY <2>1, <2>2
<1>. QED  BY <1>1, HeapInvariant, PTL

\* No two free blocks are neighbours, whatever was freed, moved or expanded;
\* where block_split wrapped around, no two in front of the damage.
THEOREM HeapCoalesced == Spec => []Coalesced
<1>1. IInv => Coalesced
  <2>. SUFFICES ASSUME IInv PROVE Coalesced
    OBVIOUS
  <2>1. CASE damage = NULL
    BY <2>1, Neighbours DEF IInv, Inv, Coalesced, Front, Healthy, Merged, Apart
  <2>2. CASE damage # NULL
    <3>1. ASSUME NEW b \in Front, mem[b].flags = FREE, mem[b].next \in Front
          PROVE  mem[mem[b].next].flags = USED
      <4>1. mem[b].next < damage
        BY <2>2, <3>1, Zenon DEF Front
      <4>. QED  BY <2>2, <3>1, <4>1, InFront DEF PlacedTo
    <3>. QED  BY <3>1 DEF Coalesced
  <2>. QED  BY <2>1, <2>2
<1>. QED  BY <1>1, HeapInvariant, PTL

\* What callers own is inside blocks in use, and every block in use has an
\* owner; where block_split wrapped around, for the owners in front of the
\* damage, among them the caller whose request it was.
THEOREM HeapOwnersFit == Spec => []OwnersFit
<1>1. IInv => OwnersFit
  <2>. SUFFICES ASSUME IInv PROVE OwnersFit
    OBVIOUS
  <2>1. CASE damage = NULL
    BY <2>1 DEF IInv, Inv, Healthy, OwnersFit, Front, Owned, InUse, Inside
  <2>2. CASE damage # NULL
    <3>1. {b \in DOMAIN used : damage = NULL \/ b < damage} = To(DOMAIN used, damage)
      BY <2>2 DEF To
    <3>2. {b \in Front : mem[b].flags = USED} = To(InUse(mem), damage)
      BY <2>2 DEF To, InUse, Front
    <3>3. OwnedTo(used, mem, damage)
      BY <2>2 DEF IInv, Inv
    <3>4. ASSUME NEW b \in DOMAIN used \cap Front PROVE Inside(used, mem, b)
      <4>1. b \in To(DOMAIN used, damage)
        BY <2>2 DEF To, Front
      <4>. QED  BY <3>3, <4>1 DEF OwnedTo
    <3>. QED  BY <3>1, <3>2, <3>3, <3>4 DEF OwnersFit, OwnedTo, Inside
  <2>. QED  BY <2>1, <2>2
<1>. QED  BY <1>1, HeapInvariant, PTL

\* Every block lies on mapped pages and below HEAP_MAX_SIZE, also after
\* expansions that failed half-way; where block_split wrapped around, every
\* block in front of the damage.
THEOREM HeapBacked == Spec => []Backed
<1>1. IInv => Backed
  <2>1. IInv => heap_break <= mapped /\ mapped <= HEAP_MAX_SIZE
    BY DEF IInv, Inv, Healthy, Limits
  <2>2. ASSUME IInv, NEW b \in Front PROVE End(mem, b) <= mapped
    <3>1. b \in Nat /\ mem[b].size \in Nat /\ End(mem, b) <= heap_break
      <4>1. CASE damage = NULL
        <5>1. Chain(mem, heap_break) /\ b \in DOMAIN mem
          BY <2>2, <4>1 DEF IInv, Inv, Healthy, Front
        <5>. QED  BY <5>1, Neighbours, Zenon DEF Chain, Placed
      <4>2. CASE damage # NULL
        BY <2>2, <4>2, InFront DEF PlacedTo
      <4>. QED  BY <4>1, <4>2, Zenon
    <3>2. heap_break \in Nat /\ mapped \in Nat /\ heap_break <= mapped
      BY <2>2 DEF IInv, Inv, Healthy, Limits
    <3>3. End(mem, b) \in Nat
      BY <3>1, Const DEF End
    <3>. QED  BY <3>1, <3>2, <3>3
  <2>. QED  BY <2>1, <2>2 DEF Backed
<1>. QED  BY <1>1, HeapInvariant, PTL
=============================================================================
