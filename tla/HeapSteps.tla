----------------------------- MODULE HeapSteps -----------------------------
(***************************************************************************)
(* What the helpers of the kernel heap do to the list of blocks, for every  *)
(* choice of the constants: block_split, block_merge_next, heap_expand, the *)
(* first-fit search and kfree each turn a well-formed list into one.        *)
(***************************************************************************)
EXTENDS Heap, TLAPS

(***************************************************************************)
(* The shape of the heap between two steps of a function.                  *)
(***************************************************************************)
Headers == [flags : {FREE, USED}, size : Nat, next : Int, prev : Int]

\* Header h has these fields.
Reads(h, f, s, n, p) ==
    h \in Headers /\ h.flags = f /\ h.size = s /\ h.next = n /\ h.prev = p

\* A multiple of the alignment of all sizes.
Aligned(n) == n % HEAP_ALIGNMENT = 0

\* Block b ends at or below the break, next and prev link it to the blocks
\* right behind and right before it, and its size is one kmalloc deals in.
Placed(m, brk, b) ==
    /\ End(m, b) <= brk
    /\ m[b].next = IF End(m, b) = brk THEN NULL ELSE End(m, b)
    /\ m[b].next # NULL => m[b].next \in DOMAIN m /\ m[m[b].next].prev = b
    /\ b # heap_first => m[b].prev \in DOMAIN m /\ m[m[b].prev].next = b
    /\ b = heap_first => m[b].prev = NULL
    /\ Aligned(m[b].size) /\ m[b].size >= HEAP_MIN_BLOCK

\* The headers m tile the heap up to brk: they lie apart, every block is linked
\* to its neighbours and the last one ends at brk.
Chain(m, brk) ==
    /\ brk \in 0 .. HEAP_MAX_SIZE
    /\ DOMAIN m \subseteq Nat /\ heap_first \in DOMAIN m
    /\ \A b \in DOMAIN m : m[b] \in Headers
    /\ \A b \in DOMAIN m : Placed(m, brk, b)
    /\ \A b, c \in DOMAIN m : b < c => End(m, b) <= c
    /\ \E b \in DOMAIN m : End(m, b) = brk

\* The facts about the constants that the arithmetic needs.
LEMMA Const ==
    /\ HEAP_ALIGNMENT \in Nat /\ HEAP_ALIGNMENT > 0
    /\ HEAP_HEADER_SIZE \in Nat /\ HEAP_HEADER_SIZE > 0
    /\ HEAP_MIN_BLOCK \in Nat /\ HEAP_MIN_BLOCK > 0
    /\ HEAP_MAX_SIZE \in Nat /\ SIZE_WRAP \in Nat
    /\ HEAP_MAX_SIZE + HEAP_HEADER_SIZE + HEAP_MIN_BLOCK < SIZE_WRAP
BY HeapAssumption

\* Size arithmetic that does not reach the end of size_t does not wrap.
LEMMA ModSmall ==
    ASSUME NEW w \in Nat, NEW x \in 0 .. w - 1
    PROVE  x % w = x
BY Z3

\* The fields of a header, with their types.
LEMMA Fields ==
    ASSUME NEW h \in Headers
    PROVE  /\ h.flags \in {FREE, USED} /\ h.size \in Nat
           /\ h.next \in Int /\ h.prev \in Int
BY DEF Headers

\* m2 is m but for the flags of block b.
FlaggedFrom(m2, m, b, f) ==
    /\ DOMAIN m2 = DOMAIN m
    /\ \A a \in DOMAIN m : /\ m2[a].size = m[a].size
                           /\ m2[a].next = m[a].next
                           /\ m2[a].prev = m[a].prev
                           /\ a # b => m2[a].flags = m[a].flags
    /\ m2[b].flags = f

\* Changing the flags of a block leaves the list alone.
LEMMA FlagChain ==
    ASSUME NEW m, NEW brk, Chain(m, brk), NEW b \in DOMAIN m, NEW f \in {FREE, USED},
           NEW m2, m2 = [m EXCEPT ![b].flags = f]
    PROVE  Chain(m2, brk) /\ FlaggedFrom(m2, m, b, f)
<1>1. \A a \in DOMAIN m : m[a] \in Headers
  BY DEF Chain
<1>2. DOMAIN m2 = DOMAIN m
  OBVIOUS
<1>3. \A a \in DOMAIN m : a # b => m2[a] = m[a]
  OBVIOUS
<1>4. m2[b] = [m[b] EXCEPT !.flags = f]
  OBVIOUS
<1>5. /\ m2[b].size = m[b].size /\ m2[b].next = m[b].next /\ m2[b].prev = m[b].prev
      /\ m2[b].flags = f /\ m2[b] \in Headers
  BY <1>1, <1>4 DEF Headers
<1>6. \A a \in DOMAIN m : /\ m2[a].size = m[a].size
                          /\ m2[a].next = m[a].next
                          /\ m2[a].prev = m[a].prev
                          /\ m2[a] \in Headers
  BY <1>1, <1>3, <1>5
<1>7. Chain(m2, brk)
  BY <1>2, <1>6 DEF Chain, Placed, End
<1>. QED  BY <1>2, <1>3, <1>5, <1>6, <1>7 DEF FlaggedFrom

\* A multiple of a is a times something.
LEMMA Quotient ==
    ASSUME NEW a \in Nat, a > 0, NEW x \in Int, x % a = 0
    PROVE  \E i \in Int : x = a * i
<1>1. x \div a \in Int /\ x = a * (x \div a) + (x % a)
  OBVIOUS
<1>. QED  BY <1>1

\* ... and what is a times something is a multiple.
LEMMA Multiple ==
    ASSUME NEW a \in Nat, a > 0, NEW i \in Int
    PROVE  (a * i) % a = 0
OBVIOUS

\* Division rounds down.
LEMMA Divided ==
    ASSUME NEW a \in Nat, a > 0, NEW x \in Nat
    PROVE  x \div a \in Nat /\ \A i \in Nat : i * a <= x => i <= x \div a
<1>. DEFINE q == x \div a
            r == x % a
<1>1. q \in Nat /\ r \in 0 .. a - 1 /\ x = a * q + r
  OBVIOUS
<1>. HIDE DEF q, r
<1>2. ASSUME NEW i \in Nat, i * a <= x, ~(i <= q) PROVE FALSE
  <2>1. i >= q + 1
    BY <1>1, <1>2
  <2>2. i * a >= (q + 1) * a
    BY <1>1, <2>1
  <2>3. (q + 1) * a = a * q + a
    BY <1>1
  <2>4. a * q \in Int /\ i * a \in Int
    BY <1>1
  <2>. QED  BY <1>1, <1>2, <2>2, <2>3, <2>4
<1>. QED  BY <1>1, <1>2 DEF q

\* Sums and differences of aligned sizes are aligned.
LEMMA AlignedSum ==
    ASSUME NEW x \in Int, NEW y \in Int, Aligned(x), Aligned(y)
    PROVE  Aligned(x + y) /\ Aligned(x - y)
<1>. DEFINE a == HEAP_ALIGNMENT
<1>1. PICK i \in Int : x = a * i
  BY Quotient, Const DEF Aligned
<1>2. PICK j \in Int : y = a * j
  BY Quotient, Const DEF Aligned
<1>3. x + y = a * (i + j) /\ x - y = a * (i - j)
  BY <1>1, <1>2, Const
<1>4. (a * (i + j)) % a = 0 /\ (a * (i - j)) % a = 0
  BY Multiple, Const
<1>. QED  BY <1>3, <1>4 DEF Aligned

\* So are those of three.
LEMMA AlignedRest ==
    ASSUME NEW x \in Int, NEW y \in Int, NEW z \in Int, Aligned(x), Aligned(y), Aligned(z)
    PROVE  Aligned(x - y - z) /\ Aligned(x + y + z)
<1>1. x - y \in Int /\ Aligned(x - y) /\ x + y \in Int /\ Aligned(x + y)
  BY AlignedSum
<1>. QED  BY <1>1, AlignedSum

\* ALIGN_UP returns the least multiple that is large enough, unless the sum
\* in it wraps around.
LEMMA RoundUp ==
    ASSUME NEW n \in Nat, NEW a \in Nat, a > 0, n + a <= SIZE_WRAP
    PROVE  /\ ALIGN_UP(n, a) \in Nat /\ ALIGN_UP(n, a) % a = 0
           /\ n <= ALIGN_UP(n, a) /\ ALIGN_UP(n, a) < n + a
<1>. DEFINE x == n + a - 1
            q == x \div a
            r == x % a
<1>1. x \in 0 .. SIZE_WRAP - 1 /\ x % SIZE_WRAP = x
  BY ModSmall, Const
<1>2. ALIGN_UP(n, a) = x - r
  BY <1>1 DEF ALIGN_UP
<1>3. q \in Int /\ r \in 0 .. a - 1 /\ x = a * q + r
  BY <1>1
<1>. HIDE DEF q, r
<1>4. (a * q) % a = 0
  BY <1>3, Multiple, Zenon
<1>5. a * q \in Int
  BY <1>3
<1>. HIDE DEF x
<1>6. x - r = a * q
  BY <1>1, <1>3, <1>5
<1>. QED  BY <1>1, <1>2, <1>3, <1>4, <1>6 DEF x

(***************************************************************************)
(* block_split.                                                            *)
(***************************************************************************)
\* m2 is m with block b cut at new, of which rest bytes are left behind the new
\* header.
Cut(m2, m, b, size, new, rest) ==
    /\ new \in Nat /\ new > b /\ new < End(m, b)
    /\ new \notin DOMAIN m /\ DOMAIN m2 = DOMAIN m \cup {new}
    /\ \A a \in DOMAIN m : a # b /\ a # m[b].next => m2[a] = m[a]
    /\ Reads(m2[b], m[b].flags, size, new, m[b].prev)
    /\ Reads(m2[new], FREE, rest, m[b].next, b)
    /\ rest \in Nat /\ rest >= HEAP_MIN_BLOCK
    /\ LET next == m[b].next
       IN  next # NULL =>
               Reads(m2[next], m[next].flags, m[next].size, m[next].next, new)

\* What a header written by block_split or heap_expand reads back as.
LEMMA NewHeader ==
    ASSUME NEW f \in {FREE, USED}, NEW s \in Nat, NEW n \in Int, NEW p \in Int
    PROVE  Reads(Header(f, s, n, p), f, s, n, p)
BY DEF Header, Headers, Reads

\* ... the header of the block that was split,
LEMMA Resized ==
    ASSUME NEW h \in Headers, NEW n \in Int, NEW s \in Nat
    PROVE  Reads([h EXCEPT !.next = n, !.size = s], h.flags, s, n, h.prev)
BY Zenon DEF Headers, Reads

\* ... and the one whose prev pointer was changed.
LEMMA Relinked ==
    ASSUME NEW h \in Headers, NEW p \in Int
    PROVE  Reads([h EXCEPT !.prev = p], h.flags, h.size, h.next, p)
BY DEF Headers, Reads

\* block_split, when it splits and the subtraction does not wrap, cuts block b
\* behind its first size bytes.
LEMMA SplitShape ==
    ASSUME NEW m, NEW brk, Chain(m, brk), NEW b \in DOMAIN m,
           NEW size \in Nat, size >= HEAP_MIN_BLOCK, ~Wraps(m, b, size),
           block_split(m, b, size) # m
    PROVE  Cut(block_split(m, b, size), m, b, size, b + HEAP_HEADER_SIZE + size,
               m[b].size - size - HEAP_HEADER_SIZE)
<1>. DEFINE m2 == block_split(m, b, size)
            new == b + HEAP_HEADER_SIZE + size
            next == m[b].next
            remaining == (m[b].size - size - HEAP_HEADER_SIZE) % SIZE_WRAP
            kept == {a \in DOMAIN m : a + HEAP_HEADER_SIZE <= new \/ new + HEAP_HEADER_SIZE <= a}
            written == [a \in kept \cup {new} |->
                          IF a = new THEN Header(FREE, remaining, next, b)
                          ELSE IF a = b THEN [m[b] EXCEPT !.next = new, !.size = size]
                          ELSE m[a]]
<1>1. /\ \A a \in DOMAIN m : a \in Nat /\ m[a] \in Headers
      /\ \A a \in DOMAIN m : End(m, a) \in Nat /\ a < End(m, a) /\ End(m, a) <= brk
      /\ \A a \in DOMAIN m : a + HEAP_HEADER_SIZE <= End(m, a)
      /\ brk \in Nat /\ brk <= HEAP_MAX_SIZE
  BY Const, Fields DEF Chain, Placed, End
<1>2. m[b].size \in Nat
  BY <1>1, Fields
<1>3. m[b].size - size - HEAP_HEADER_SIZE \in 0 .. SIZE_WRAP - 1
  BY <1>1, <1>2, Const DEF Wraps, End
<1>4. remaining = m[b].size - size - HEAP_HEADER_SIZE
  BY <1>3, ModSmall, Const
<1>5. m2 = IF TooSmall(remaining) THEN m
           ELSE IF next \in DOMAIN written THEN [written EXCEPT ![next].prev = new]
           ELSE written
  BY DEF block_split
<1>6. ~TooSmall(remaining) /\ remaining >= HEAP_MIN_BLOCK
  BY <1>3, <1>4, <1>5, Const DEF TooSmall
<1>. HIDE DEF remaining
<1>7. new \in Nat /\ new \in Int /\ new > b /\ new + HEAP_HEADER_SIZE + remaining = End(m, b)
  BY <1>1, <1>2, <1>4, Const DEF End
<1>8. new < End(m, b) /\ new + HEAP_HEADER_SIZE <= End(m, b)
  BY <1>1, <1>3, <1>4, <1>7, Const
<1>9. \A a \in DOMAIN m : \/ a = b /\ a + HEAP_HEADER_SIZE <= new
                          \/ a + HEAP_HEADER_SIZE <= b
                          \/ End(m, b) <= a
  <2>. SUFFICES ASSUME NEW a \in DOMAIN m, a # b
                PROVE  a + HEAP_HEADER_SIZE <= b \/ End(m, b) <= a
    BY <1>1, Const
  <2>1. a < b \/ b < a
    BY <1>1
  <2>2. a < b => End(m, a) <= b
    BY DEF Chain
  <2>3. b < a => End(m, b) <= a
    BY DEF Chain
  <2>. QED  BY <1>1, <2>1, <2>2, <2>3, Const
<1>10. new \notin DOMAIN m /\ kept = DOMAIN m
  BY <1>1, <1>7, <1>8, <1>9, Const
<1>11. /\ DOMAIN written = DOMAIN m \cup {new}
       /\ written[new] = Header(FREE, remaining, next, b)
       /\ written[b] = [m[b] EXCEPT !.next = new, !.size = size]
       /\ \A a \in DOMAIN m : a # b => written[a] = m[a]
  BY <1>10
<1>. HIDE DEF kept, written
<1>. HIDE DEF m2, new, next
<1>. SUFFICES Cut(m2, m, b, size, new, remaining)
  BY <1>4 DEF m2, new
<1>a. Reads(written[b], m[b].flags, size, new, m[b].prev)
  <2>1. m[b] \in Headers /\ new \in Int
    <3>1. m[b] \in Headers
      BY <1>1
    <3>2. new \in Int
      BY <1>7, Zenon
    <3>. QED  BY <3>1, <3>2
  <2>2. Reads([m[b] EXCEPT !.next = new, !.size = size], m[b].flags, size, new, m[b].prev)
    BY <2>1, Resized, Zenon
  <2>. QED  BY <1>11, <2>2
<1>b. Reads(written[new], FREE, remaining, next, b)
  <2>1. FREE \in {FREE, USED} /\ remaining \in Nat /\ next \in Int /\ b \in Int
    BY <1>1, <1>3, <1>4, Fields DEF next
  <2>. QED  BY <1>11, <2>1, NewHeader
<1>12. CASE next = NULL
  <2>1. next \notin DOMAIN m \cup {new}
    BY <1>1, <1>7, <1>12 DEF NULL
  <2>2. m2 = written
    BY <1>5, <1>6, <1>11, <2>1
  <2>. QED  BY <1>3, <1>4, <1>6, <1>7, <1>8, <1>10, <1>11, <1>12, <1>a, <1>b, <2>2 DEF Cut, next
<1>13. CASE next # NULL
  <2>1. next \in DOMAIN m /\ next = End(m, b) /\ next # b /\ next # new
    BY <1>1, <1>7, <1>8, <1>13 DEF Chain, Placed, next
  <2>2. m2 = [written EXCEPT ![next].prev = new]
    BY <1>5, <1>6, <1>11, <2>1
  <2>3. DOMAIN m2 = DOMAIN m \cup {new} /\ m2[next] = [m[next] EXCEPT !.prev = new]
    BY <1>11, <2>1, <2>2
  <2>4. \A a \in DOMAIN m \cup {new} : a # next => m2[a] = written[a]
    BY <1>11, <2>2
  <2>5. Reads(m2[next], m[next].flags, m[next].size, m[next].next, new)
    BY <1>1, <1>7, <2>1, <2>3, Relinked
  <2>. QED  BY <1>3, <1>4, <1>6, <1>7, <1>8, <1>10, <1>11, <1>13, <1>a, <1>b, <2>1, <2>3, <2>4, <2>5 DEF Cut, next
<1>. QED  BY <1>12, <1>13

\* What a split keeps: the flags of all blocks, and the sizes and links of the
\* others; a new block is free and is what was linked behind b before.
SplitFrom(m2, m, b, size) ==
    /\ DOMAIN m \subseteq DOMAIN m2
    /\ \A a \in DOMAIN m : m2[a].flags = m[a].flags
    /\ \A a \in DOMAIN m : a # b => m2[a].size = m[a].size /\ m2[a].next = m[a].next
    /\ \A a \in DOMAIN m2 \ DOMAIN m : m2[a].flags = FREE /\ m2[a].next = m[b].next
    /\ m2[b].size >= size

\* block_split keeps the list well formed, and b large enough.
LEMMA SplitChain ==
    ASSUME NEW m, NEW brk, Chain(m, brk), NEW b \in DOMAIN m,
           NEW size \in Nat, size >= HEAP_MIN_BLOCK, Aligned(size), ~Wraps(m, b, size)
    PROVE  Chain(block_split(m, b, size), brk) /\ SplitFrom(block_split(m, b, size), m, b, size)
<1>. DEFINE m2 == block_split(m, b, size)
            new == b + HEAP_HEADER_SIZE + size
            rest == m[b].size - size - HEAP_HEADER_SIZE
            next == m[b].next
<1>1. /\ \A a \in DOMAIN m : a \in Nat /\ m[a] \in Headers
      /\ \A a \in DOMAIN m : /\ m[a].flags \in {FREE, USED} /\ m[a].size \in Nat
                             /\ m[a].next \in Int /\ m[a].prev \in Int
      /\ brk \in Nat /\ b \in Nat
  BY Fields DEF Chain
<1>2. m[b].size >= size + HEAP_HEADER_SIZE
  BY <1>1, Const DEF Wraps
<1>3. CASE m2 = m
  BY <1>1, <1>2, <1>3, Const DEF SplitFrom
<1>4. CASE m2 # m
  <2>1. Cut(m2, m, b, size, new, rest)
    BY <1>4, SplitShape
  <2>2. rest \in Nat /\ Aligned(rest)
    <3>1. Aligned(m[b].size) /\ Aligned(HEAP_HEADER_SIZE)
      BY HeapAssumption DEF Chain, Placed, Aligned
    <3>2. m[b].size \in Int /\ size \in Int /\ HEAP_HEADER_SIZE \in Int
      BY <1>1, Const
    <3>3. Aligned(m[b].size - size - HEAP_HEADER_SIZE)
      BY <3>1, <3>2, AlignedRest, Zenon
    <3>. QED  BY <1>1, <1>2, <3>3, Const
  <2>. HIDE DEF m2, new, rest
  <2>3. /\ m2[new].flags = FREE /\ m2[new].size = rest
        /\ m2[new].next = next /\ m2[new].prev = b
        /\ m2[new] \in Headers
    BY <2>1 DEF Cut, Reads
  <2>4. /\ m2[b].flags = m[b].flags /\ m2[b].size = size
        /\ m2[b].next = new /\ m2[b].prev = m[b].prev
        /\ m2[b] \in Headers
    BY <2>1 DEF Cut, Reads
  <2>5. next # NULL => /\ next \in DOMAIN m /\ next # b /\ next = End(m, b)
                       /\ m2[next].flags = m[next].flags /\ m2[next].size = m[next].size
                       /\ m2[next].next = m[next].next /\ m2[next].prev = new
                       /\ m2[next] \in Headers
    <3>. SUFFICES ASSUME next # NULL
                  PROVE  /\ next \in DOMAIN m /\ next # b /\ next = End(m, b)
                         /\ m2[next].flags = m[next].flags /\ m2[next].size = m[next].size
                         /\ m2[next].next = m[next].next /\ m2[next].prev = new
                         /\ m2[next] \in Headers
      OBVIOUS
    <3>1. next \in DOMAIN m /\ next # b /\ next = End(m, b)
      BY <1>1, <1>2, Const DEF Chain, Placed, End
    <3>. QED  BY <2>1, <3>1 DEF Cut, Reads, next
  <2>. HIDE DEF next
  <2>6. \A a \in DOMAIN m : /\ m2[a] \in Headers
                            /\ m2[a].flags = m[a].flags
                            /\ a # b => m2[a].size = m[a].size /\ m2[a].next = m[a].next
                            /\ a # next => m2[a].prev = m[a].prev
    <3>1. \A a \in DOMAIN m : a # b /\ a # next => m2[a] = m[a]
      BY <2>1 DEF Cut, next
    <3>2. next = NULL => next \notin DOMAIN m
      BY <1>1 DEF NULL
    <3>. QED  BY <1>1, <2>4, <2>5, <3>1, <3>2
  <2>7. /\ End(m2, b) = new /\ End(m2, new) = End(m, b)
        /\ \A a \in DOMAIN m : a # b => End(m2, a) = End(m, a)
        /\ \A a \in DOMAIN m : End(m, a) \in Nat /\ End(m, a) > a
    BY <1>1, <2>1, <2>2, <2>3, <2>4, <2>6, Const DEF Cut, End, rest, new
  <2>8. \A a \in DOMAIN m2 : m2[a] \in Headers /\ a \in Nat
    BY <1>1, <2>1, <2>3, <2>6 DEF Cut
  <2>9. Placed(m2, brk, new)
    BY <1>1, <2>1, <2>2, <2>3, <2>4, <2>5, <2>7 DEF Chain, Cut, Placed, next, heap_first
  <2>10. Placed(m2, brk, b)
    BY <1>1, <2>1, <2>2, <2>3, <2>4, <2>5, <2>7 DEF Chain, Cut, Placed, next, heap_first, NULL
  <2>11. ASSUME NEW a \in DOMAIN m, a # b PROVE Placed(m2, brk, a)
    BY <1>1, <2>1, <2>2, <2>3, <2>4, <2>5, <2>6, <2>7, <2>11 DEF Chain, Cut, Placed, next, heap_first, NULL
  <2>12. \A a, c \in DOMAIN m2 : a < c => End(m2, a) <= c
    BY <1>1, <2>1, <2>7 DEF Chain, Cut
  <2>13. \E a \in DOMAIN m2 : End(m2, a) = brk
    BY <2>1, <2>7 DEF Chain, Cut
  <2>14. Chain(m2, brk)
    BY <1>1, <2>1, <2>8, <2>9, <2>10, <2>11, <2>12, <2>13 DEF Chain, Cut
  <2>15. SplitFrom(m2, m, b, size)
    BY <1>1, <2>1, <2>3, <2>4, <2>6 DEF SplitFrom, Cut, next
  <2>. QED  BY <2>14, <2>15 DEF m2
<1>. QED  BY <1>3, <1>4

(***************************************************************************)
(* block_merge_next on a block that has one behind it.                     *)
(***************************************************************************)
AbsorbFrom(m2, m, b, next) ==
    /\ next \in DOMAIN m /\ next # b /\ DOMAIN m2 = DOMAIN m \ {next}
    /\ \A a \in DOMAIN m2 : m2[a].flags = m[a].flags
    /\ \A a \in DOMAIN m2 : a # b => m2[a].size = m[a].size /\ m2[a].next = m[a].next
    /\ m2[b].size = m[b].size + HEAP_HEADER_SIZE + m[next].size
    /\ m2[b].next = m[next].next
    /\ m2[b].prev = m[b].prev

\* The header of a block that absorbed the next one.
LEMMA Enlarged ==
    ASSUME NEW h \in Headers, NEW n \in Int, NEW s \in Nat
    PROVE  Reads([h EXCEPT !.size = s, !.next = n], h.flags, s, n, h.prev)
BY Zenon DEF Headers, Reads

\* Merging a block with the one behind it keeps the list well formed.
LEMMA AbsorbChain ==
    ASSUME NEW m, NEW brk, Chain(m, brk), NEW b \in DOMAIN m,
           NEW next, next = m[b].next, next # NULL
    PROVE  Chain(Absorb(m, b, next), brk) /\ AbsorbFrom(Absorb(m, b, next), m, b, next)
<1>. DEFINE m2 == Absorb(m, b, next)
            size == m[b].size + HEAP_HEADER_SIZE + m[next].size
            after == m[next].next
<1>1. /\ \A a \in DOMAIN m : a \in Nat /\ m[a] \in Headers
      /\ \A a \in DOMAIN m : /\ m[a].flags \in {FREE, USED} /\ m[a].size \in Nat
                             /\ m[a].next \in Int /\ m[a].prev \in Int
      /\ \A a \in DOMAIN m : End(m, a) \in Nat /\ a < End(m, a)
      /\ brk \in Nat /\ b \in Nat
  BY Fields, Const DEF Chain, End
<1>2. next \in DOMAIN m /\ next = End(m, b) /\ b < next /\ m[next].prev = b
  BY <1>1 DEF Chain, Placed
<1>3. size \in Nat /\ Aligned(size) /\ size >= HEAP_MIN_BLOCK
  <2>1. /\ Aligned(m[b].size) /\ Aligned(HEAP_HEADER_SIZE) /\ Aligned(m[next].size)
        /\ m[b].size >= HEAP_MIN_BLOCK
    BY <1>2, HeapAssumption DEF Chain, Placed, Aligned
  <2>2. m[b].size \in Int /\ HEAP_HEADER_SIZE \in Int /\ m[next].size \in Int
    BY <1>1, <1>2, Const
  <2>3. Aligned(m[b].size + HEAP_HEADER_SIZE + m[next].size)
    BY <2>1, <2>2, AlignedRest, Zenon
  <2>. QED  BY <1>1, <1>2, <2>1, <2>3, Const
<1>4. after # NULL => /\ after \in DOMAIN m /\ after = End(m, next) /\ next < after
                      /\ after # b /\ after # next /\ m[after].prev = next
  BY <1>1, <1>2 DEF Chain, Placed
<1>5. \A a \in DOMAIN m : a # NULL
  BY <1>1 DEF NULL
<1>6. /\ DOMAIN m2 = DOMAIN m \ {next}
      /\ m2[b] = [m[b] EXCEPT !.size = size, !.next = after]
      /\ \A a \in DOMAIN m2 : a # b /\ a # after => m2[a] = m[a]
      /\ after # NULL => m2[after] = [m[after] EXCEPT !.prev = b]
  BY <1>2, <1>4, <1>5, Zenon DEF Absorb
<1>. HIDE DEF m2, size, after
<1>7. Reads(m2[b], m[b].flags, size, after, m[b].prev)
  <2>1. m[b] \in Headers /\ after \in Int /\ size \in Nat
    BY <1>1, <1>2, <1>3 DEF after
  <2>2. Reads([m[b] EXCEPT !.size = size, !.next = after], m[b].flags, size, after, m[b].prev)
    BY <2>1, Enlarged, Zenon
  <2>. QED  BY <1>6, <2>2
<1>8. after # NULL => Reads(m2[after], m[after].flags, m[after].size, m[after].next, b)
  BY <1>1, <1>4, <1>6, Relinked
<1>9. \A a \in DOMAIN m2 : /\ m2[a] \in Headers /\ a \in Nat /\ a \in DOMAIN m
                           /\ m2[a].flags = m[a].flags
                           /\ a # b => m2[a].size = m[a].size /\ m2[a].next = m[a].next
                           /\ a # after => m2[a].prev = m[a].prev
  BY <1>1, <1>4, <1>5, <1>6, <1>7, <1>8, Zenon DEF Reads
<1>10. /\ m2[b].size = size /\ m2[b].next = after /\ m2[b].prev = m[b].prev
       /\ after # NULL => m2[after].prev = b
  BY <1>7, <1>8 DEF Reads
<1>11. /\ End(m2, b) = End(m, next)
       /\ \A a \in DOMAIN m2 : a # b => End(m2, a) = End(m, a)
  BY <1>1, <1>2, <1>9, <1>10, Const DEF End, size
<1>12. \A a \in DOMAIN m : End(m, a) = next => a = b
  <2>. SUFFICES ASSUME NEW a \in DOMAIN m, End(m, a) = next, a # b PROVE FALSE
    OBVIOUS
  <2>1. a < b \/ b < a
    BY <1>1
  <2>2. a < b => End(m, a) <= b
    BY DEF Chain
  <2>3. b < a => next <= a
    BY <1>2 DEF Chain
  <2>. QED  BY <1>1, <1>2, <2>1, <2>2, <2>3
<1>13. Placed(m2, brk, b)
  BY <1>1, <1>2, <1>3, <1>4, <1>6, <1>9, <1>10, <1>11 DEF Chain, Placed, after, heap_first, NULL
<1>14. ASSUME NEW a \in DOMAIN m2, a # b PROVE Placed(m2, brk, a)
  <2>1. a \in DOMAIN m /\ a # next /\ Placed(m, brk, a) /\ End(m2, a) = End(m, a)
    BY <1>6, <1>11, <1>14 DEF Chain
  <2>2. m2[a].next # NULL => m2[a].next \in DOMAIN m2 /\ m2[m2[a].next].prev = a
    BY <1>1, <1>2, <1>4, <1>6, <1>9, <1>12, <1>14, <2>1 DEF Placed
  <2>3. ASSUME a # heap_first PROVE m2[a].prev \in DOMAIN m2 /\ m2[m2[a].prev].next = a
    <3>1. m[a].prev \in DOMAIN m /\ m[m[a].prev].next = a
      BY <2>1, <2>3 DEF Placed
    <3>2. CASE a = after
      <4>1. after # NULL /\ b \in DOMAIN m2
        BY <1>1, <1>2, <1>5, <1>6, <2>1, <3>2
      <4>. QED  BY <1>10, <3>2, <4>1
    <3>3. CASE a # after
      BY <1>2, <1>6, <1>9, <1>14, <2>1, <3>1, <3>3, Zenon DEF after
    <3>. QED  BY <3>2, <3>3
  <2>4. a = heap_first => m2[a].prev = NULL
    BY <1>1, <1>2, <1>4, <1>5, <1>9, <2>1 DEF Placed, heap_first
  <2>. QED  BY <1>9, <1>14, <2>1, <2>2, <2>3, <2>4 DEF Placed
<1>15. \A a, c \in DOMAIN m2 : a < c => End(m2, a) <= c
  BY <1>1, <1>2, <1>6, <1>9, <1>11 DEF Chain
<1>16. \E a \in DOMAIN m2 : End(m2, a) = brk
  <2>1. PICK a \in DOMAIN m : End(m, a) = brk
    BY DEF Chain
  <2>2. b \in DOMAIN m2
    BY <1>1, <1>2, <1>6
  <2>3. CASE a = next \/ a = b
    <3>1. End(m, next) = brk
      BY <1>1, <1>2, <2>1, <2>3 DEF Chain, Placed
    <3>. QED  BY <1>11, <2>2, <3>1
  <2>4. CASE a # next /\ a # b
    BY <1>6, <1>11, <2>1, <2>4
  <2>. QED  BY <2>3, <2>4
<1>17. heap_first \in DOMAIN m2
  BY <1>1, <1>2, <1>6 DEF Chain, heap_first
<1>18. Chain(m2, brk)
  BY <1>9, <1>13, <1>14, <1>15, <1>16, <1>17 DEF Chain
<1>19. AbsorbFrom(m2, m, b, next)
  BY <1>1, <1>2, <1>6, <1>9, <1>10 DEF AbsorbFrom, size, after
<1>. QED  BY <1>18, <1>19 DEF m2

(***************************************************************************)
(* heap_expand: the block linked behind the last one.                      *)
(***************************************************************************)
LEMMA Last ==
    ASSUME NEW m, NEW brk, Chain(m, brk)
    PROVE  /\ LastBlock(m) \in DOMAIN m /\ End(m, LastBlock(m)) = brk
           /\ m[LastBlock(m)].next = NULL
           /\ \A b \in DOMAIN m : End(m, b) = brk => b = LastBlock(m)
<1>1. \A b \in DOMAIN m : /\ b \in Nat /\ End(m, b) \in Nat /\ b < End(m, b)
                          /\ m[b].next = NULL <=> End(m, b) = brk
  BY Fields, Const DEF Chain, Placed, End, NULL
<1>2. \E b \in DOMAIN m : m[b].next = NULL
  BY <1>1 DEF Chain
<1>3. LastBlock(m) \in DOMAIN m /\ m[LastBlock(m)].next = NULL
  BY <1>2 DEF LastBlock
<1>. DEFINE last == LastBlock(m)
<1>. HIDE DEF last
<1>4. ASSUME NEW b \in DOMAIN m, End(m, b) = brk PROVE b = last
  <2>1. b < last => End(m, b) <= last
    BY <1>3 DEF Chain, last
  <2>2. last < b => End(m, last) <= b
    BY <1>3 DEF Chain, last
  <2>. QED  BY <1>1, <1>3, <1>4, <2>1, <2>2 DEF last
<1>. QED  BY <1>1, <1>3, <1>4 DEF last

\* heap_expand, before it merges: the new pages become a block at the end.
Linked(m, brk, size) ==
    LET last == LastBlock(m)
    IN  [a \in DOMAIN m \cup {brk} |->
            IF a = brk THEN Header(FREE, size - HEAP_HEADER_SIZE, NULL, last)
            ELSE IF a = last THEN [m[a] EXCEPT !.next = brk]
            ELSE m[a]]

\* The header of the block that was the last one.
LEMMA Extended ==
    ASSUME NEW h \in Headers, NEW n \in Int
    PROVE  Reads([h EXCEPT !.next = n], h.flags, h.size, n, h.prev)
BY DEF Headers, Reads

\* What linking a new last block keeps.
LinkedFrom(m2, m, last, brk, size) ==
    /\ last \in DOMAIN m /\ brk \notin DOMAIN m /\ DOMAIN m2 = DOMAIN m \cup {brk}
    /\ \A a \in DOMAIN m : m2[a].flags = m[a].flags /\ m2[a].size = m[a].size
    /\ \A a \in DOMAIN m : a # last => m2[a].next = m[a].next
    /\ m2[last].next = brk
    /\ m2[brk].flags = FREE /\ m2[brk].size = size - HEAP_HEADER_SIZE
    /\ m2[brk].next = NULL

\* The list with a new last block reaches to the new break.
LEMMA LinkChain ==
    ASSUME NEW m, NEW brk, Chain(m, brk), NEW size \in Nat, Aligned(size),
           size >= HEAP_HEADER_SIZE + HEAP_MIN_BLOCK, brk + size <= HEAP_MAX_SIZE
    PROVE  /\ Chain(Linked(m, brk, size), brk + size)
           /\ LinkedFrom(Linked(m, brk, size), m, LastBlock(m), brk, size)
<1>. DEFINE m2 == Linked(m, brk, size)
            last == LastBlock(m)
            rest == size - HEAP_HEADER_SIZE
<1>1. /\ \A a \in DOMAIN m : a \in Nat /\ m[a] \in Headers
      /\ \A a \in DOMAIN m : /\ m[a].flags \in {FREE, USED} /\ m[a].size \in Nat
                             /\ m[a].next \in Int /\ m[a].prev \in Int
      /\ \A a \in DOMAIN m : End(m, a) \in Nat /\ a < End(m, a) /\ End(m, a) <= brk
      /\ brk \in Nat
  BY Fields, Const DEF Chain, Placed, End
<1>2. /\ last \in DOMAIN m /\ End(m, last) = brk /\ m[last].next = NULL
      /\ \A b \in DOMAIN m : End(m, b) = brk => b = last
  BY Last
<1>. HIDE DEF last
<1>3. brk \notin DOMAIN m
  BY <1>1
<1>4. rest \in Nat /\ Aligned(rest) /\ rest >= HEAP_MIN_BLOCK
  <2>1. Aligned(HEAP_HEADER_SIZE) /\ size \in Int /\ HEAP_HEADER_SIZE \in Int
    BY HeapAssumption, Const DEF Aligned
  <2>2. Aligned(size - HEAP_HEADER_SIZE)
    BY <2>1, AlignedSum
  <2>. QED  BY <2>2, Const
<1>5. /\ DOMAIN m2 = DOMAIN m \cup {brk}
      /\ m2[brk] = Header(FREE, rest, NULL, last)
      /\ m2[last] = [m[last] EXCEPT !.next = brk]
      /\ \A a \in DOMAIN m : a # last => m2[a] = m[a]
  BY <1>2, <1>3 DEF Linked, last
<1>. HIDE DEF m2, rest
<1>6. /\ m2[brk] \in Headers /\ m2[brk].flags = FREE /\ m2[brk].size = rest
      /\ m2[brk].next = NULL /\ m2[brk].prev = last
  <2>1. FREE \in {FREE, USED} /\ NULL \in Int /\ last \in Int
    BY <1>1, <1>2 DEF NULL
  <2>2. Reads(m2[brk], FREE, rest, NULL, last)
    BY <1>4, <1>5, <2>1, NewHeader
  <2>. QED  BY <2>2 DEF Reads
<1>7. /\ m2[last] \in Headers /\ m2[last].flags = m[last].flags
      /\ m2[last].size = m[last].size /\ m2[last].next = brk
      /\ m2[last].prev = m[last].prev
  <2>1. m[last] \in Headers /\ brk \in Int
    BY <1>1, <1>2
  <2>2. Reads(m2[last], m[last].flags, m[last].size, brk, m[last].prev)
    BY <1>5, <2>1, Extended
  <2>. QED  BY <2>2 DEF Reads
<1>8. \A a \in DOMAIN m : /\ m2[a] \in Headers /\ m2[a].flags = m[a].flags
                          /\ m2[a].size = m[a].size /\ m2[a].prev = m[a].prev
                          /\ a # last => m2[a].next = m[a].next
  BY <1>1, <1>5, <1>7, Zenon
<1>9. /\ \A a \in DOMAIN m : End(m2, a) = End(m, a)
      /\ End(m2, brk) = brk + size
  BY <1>1, <1>4, <1>6, <1>8, Const DEF End, rest
<1>10. brk # heap_first
  BY <1>1, <1>2 DEF heap_first
<1>11. Placed(m2, brk + size, brk)
  <2>1. last \in DOMAIN m2 /\ brk + size \in Nat
    BY <1>1, <1>2, <1>5
  <2>. QED  BY <1>4, <1>6, <1>7, <1>9, <1>10, <2>1 DEF Placed
<1>12. Placed(m2, brk + size, last)
  BY <1>1, <1>2, <1>3, <1>4, <1>5, <1>6, <1>7, <1>8, <1>9, Const DEF Chain, Placed, NULL
<1>13. ASSUME NEW a \in DOMAIN m, a # last PROVE Placed(m2, brk + size, a)
  <2>1. Placed(m, brk, a) /\ End(m, a) # brk /\ m[a].next # NULL
    BY <1>1, <1>2, <1>13 DEF Chain, Placed, NULL
  <2>2. m2[a].next = End(m, a) /\ m2[a].next \in DOMAIN m2 /\ m2[m2[a].next].prev = a
    BY <1>5, <1>8, <1>13, <2>1 DEF Placed
  <2>3. a # heap_first => m2[a].prev \in DOMAIN m2 /\ m2[m2[a].prev].next = a
    BY <1>1, <1>2, <1>5, <1>8, <1>13, <2>1 DEF Placed, NULL
  <2>4. End(m2, a) <= brk + size /\ End(m2, a) # brk + size
    BY <1>1, <1>9, <2>1, Const DEF Placed
  <2>. QED  BY <1>8, <1>9, <2>1, <2>2, <2>3, <2>4 DEF Placed
<1>14. \A a, c \in DOMAIN m2 : a < c => End(m2, a) <= c
  BY <1>1, <1>5, <1>9 DEF Chain
<1>15. brk + size \in 0 .. HEAP_MAX_SIZE
  BY <1>1, Const
<1>16. Chain(m2, brk + size)
  BY <1>1, <1>5, <1>6, <1>8, <1>9, <1>11, <1>12, <1>13, <1>14, <1>15 DEF Chain
<1>17. LinkedFrom(m2, m, last, brk, size)
  BY <1>2, <1>3, <1>5, <1>6, <1>7, <1>8 DEF LinkedFrom, rest
<1>. QED  BY <1>16, <1>17 DEF m2, last

(***************************************************************************)
(* What the functions do to a heap in which no two neighbours are free.    *)
(***************************************************************************)
InUse(m) == {b \in DOMAIN m : m[b].flags = USED}

\* b is a block and it is free.
Free(m, b) == b \in DOMAIN m /\ m[b].flags = FREE

\* No free neighbour behind b.
Apart(m, b) == m[b].next # NULL => m[m[b].next].flags = USED

\* No two neighbours are both free.
Merged(m) == \A b \in DOMAIN m : m[b].flags = FREE => Apart(m, b)

\* The blocks in use are those of S, each as large as it is in m.
Keeps(m2, m, S) == InUse(m2) = S /\ \A a \in S \cap InUse(m) : m2[a].size >= m[a].size

\* next and prev are inverse to each other, and next is injective.
LEMMA Neighbours ==
    ASSUME NEW m, NEW brk, Chain(m, brk)
    PROVE  /\ \A a \in DOMAIN m : /\ m[a].flags \in {FREE, USED} /\ m[a].size \in Nat
                                  /\ a # NULL
                                  /\ m[a].next # NULL =>
                                       /\ m[a].next \in DOMAIN m /\ m[a].next # a
                                       /\ m[m[a].next].prev = a
                                  /\ m[a].prev # NULL =>
                                       /\ m[a].prev \in DOMAIN m /\ m[m[a].prev].next = a
           /\ \A a, c \in DOMAIN m : m[a].next = m[c].next /\ m[a].next # NULL => a = c
           /\ FREE # USED
<1>1. \A a \in DOMAIN m : /\ a \in Nat /\ m[a].flags \in {FREE, USED} /\ m[a].size \in Nat
                          /\ Placed(m, brk, a)
  BY Fields DEF Chain
<1>2. \A a \in DOMAIN m : m[a].next # NULL =>
         m[a].next \in DOMAIN m /\ m[a].next # a /\ m[m[a].next].prev = a
  BY <1>1, Const DEF Placed, End
<1>. QED  BY <1>1, <1>2 DEF Placed, FREE, USED, NULL

\* What block_merge_next keeps: only a free block behind b can disappear.
MergeFrom(m2, m, b) ==
    /\ b \in DOMAIN m2 /\ DOMAIN m2 \subseteq DOMAIN m
    /\ \A a \in DOMAIN m \ DOMAIN m2 : m[a].flags = FREE
    /\ \A a \in DOMAIN m2 : m2[a].flags = m[a].flags
    /\ \A a \in DOMAIN m2 : a # b => m2[a].size = m[a].size /\ m2[a].next = m[a].next
    /\ m2[b].prev = m[b].prev /\ m2[b].size >= m[b].size
    /\ IF Free(m, m[b].next)
       THEN /\ m2[b].next = m[m[b].next].next
            /\ m2[b].size = m[b].size + HEAP_HEADER_SIZE + m[m[b].next].size
       ELSE m2 = m

\* block_merge_next keeps the list well formed, whether it merges or not.
LEMMA MergeChain ==
    ASSUME NEW m, NEW brk, Chain(m, brk), NEW b \in DOMAIN m
    PROVE  Chain(block_merge_next(m, b), brk) /\ MergeFrom(block_merge_next(m, b), m, b)
<1>1. m[b].size \in Nat /\ \A a \in DOMAIN m : m[a].size \in Nat /\ a # NULL
  BY Neighbours
<1>2. CASE Free(m, m[b].next)
  <2>1. block_merge_next(m, b) = Absorb(m, b, m[b].next) /\ m[b].next # NULL
    BY <1>1, <1>2 DEF block_merge_next, Free
  <2>2. /\ Chain(block_merge_next(m, b), brk)
        /\ AbsorbFrom(block_merge_next(m, b), m, b, m[b].next)
    BY <2>1, AbsorbChain
  <2>. QED  BY <1>1, <1>2, <2>2, Const DEF AbsorbFrom, MergeFrom, Free
<1>3. CASE ~Free(m, m[b].next)
  BY <1>1, <1>3 DEF block_merge_next, MergeFrom, Free
<1>. QED  BY <1>2, <1>3

\* A merge keeps the blocks in use, and the sizes of all but b.
LEMMA MergeUse ==
    ASSUME NEW m, NEW b \in DOMAIN m, NEW m2, MergeFrom(m2, m, b)
    PROVE  InUse(m2) = InUse(m) /\ \A a \in InUse(m) : a # b => m2[a].size = m[a].size
BY DEF MergeFrom, InUse, FREE, USED

\* A block other than b that had no free neighbour behind it has none after
\* the merge: a block in use does not disappear.
LEMMA MergeApart ==
    ASSUME NEW m, NEW brk, Chain(m, brk), NEW b \in DOMAIN m, NEW m2, MergeFrom(m2, m, b),
           NEW a \in DOMAIN m2, a # b, Apart(m, a)
    PROVE  Apart(m2, a)
<1>1. a \in DOMAIN m /\ (m[a].next # NULL => m[a].next \in DOMAIN m)
  BY Neighbours DEF MergeFrom
<1>. QED  BY <1>1 DEF MergeFrom, Apart, FREE, USED

\* Block b has none if the block it absorbed had none.
LEMMA MergeBehind ==
    ASSUME NEW m, NEW brk, Chain(m, brk), NEW b \in DOMAIN m, NEW m2, MergeFrom(m2, m, b),
           Free(m, m[b].next), Apart(m, m[b].next)
    PROVE  Apart(m2, b)
<1>. DEFINE k == m[m[b].next].next
<1>1. m2[b].next = k /\ (k # NULL => k \in DOMAIN m)
  BY Neighbours DEF MergeFrom, Free
<1>2. k # NULL => m[k].flags = USED
  BY DEF Apart
<1>. HIDE DEF k
<1>. QED  BY <1>1, <1>2 DEF MergeFrom, Apart, FREE, USED

\* After a split of b no block but b has a free neighbour behind it, if none
\* had before.
LEMMA SplitApart ==
    ASSUME NEW m, NEW brk, Chain(m, brk), NEW b \in DOMAIN m, NEW size,
           NEW m2, SplitFrom(m2, m, b, size), Apart(m, b),
           NEW a \in DOMAIN m2, a # b, a \in DOMAIN m => Apart(m, a)
    PROVE  Apart(m2, a)
<1>1. \A c \in DOMAIN m : m[c].next # NULL => m[c].next \in DOMAIN m
  BY Neighbours
<1>. QED  BY <1>1 DEF SplitFrom, Apart

\* A split keeps the blocks in use, and the sizes of all but b.
LEMMA SplitUse ==
    ASSUME NEW m, NEW b \in DOMAIN m, NEW size, NEW m2, SplitFrom(m2, m, b, size)
    PROVE  InUse(m2) = InUse(m) /\ \A a \in InUse(m) : a # b => m2[a].size = m[a].size
BY DEF SplitFrom, InUse, FREE, USED

\* kfree leaves a well-formed list without free neighbours, and the other
\* blocks in use as they were.
LEMMA KFreeChain ==
    ASSUME NEW m, NEW brk, Chain(m, brk), Merged(m), NEW b \in InUse(m)
    PROVE  /\ Chain(KFree(m, b), brk) /\ Merged(KFree(m, b))
           /\ Keeps(KFree(m, b), m, InUse(m) \ {b})
<1>. DEFINE m1 == [m EXCEPT ![b].flags = FREE]
            m2 == block_merge_next(m1, b)
            p == m2[b].prev
            m3 == block_merge_next(m2, p)
<1>1. Chain(m1, brk) /\ FlaggedFrom(m1, m, b, FREE)
  BY FlagChain DEF InUse
<1>2. b \in DOMAIN m /\ m[b].flags = USED /\ b \in DOMAIN m1
  BY <1>1 DEF InUse, FlaggedFrom
<1>3. Chain(m2, brk) /\ MergeFrom(m2, m1, b)
  BY <1>1, <1>2, MergeChain
<1>4. KFree(m, b) = IF p # NULL /\ m2[p].flags = FREE THEN m3 ELSE m2
  BY DEF KFree
<1>. HIDE DEF m1, m2, p, m3
<1>5. p = m[b].prev /\ (p # NULL => p \in DOMAIN m2 /\ m2[p].next = b)
  <2>1. p = m[b].prev /\ b \in DOMAIN m2
    BY <1>1, <1>2, <1>3 DEF FlaggedFrom, MergeFrom, p
  <2>. QED  BY <1>3, <2>1, Neighbours DEF p
<1>6. InUse(m2) = InUse(m) \ {b} /\ \A a \in InUse(m2) : m2[a].size = m[a].size
  <2>1. InUse(m1) = InUse(m) \ {b} /\ \A a \in InUse(m1) : m1[a].size = m[a].size
    BY <1>1, <1>2 DEF FlaggedFrom, InUse, FREE, USED
  <2>. QED  BY <1>2, <1>3, <2>1, MergeUse
<1>7. Apart(m2, b)
  <2>1. m[b].next # b /\ (m[b].next # NULL => m[b].next \in DOMAIN m)
    BY <1>2, Neighbours
  <2>2. CASE Free(m1, m1[b].next)
    <3>1. m1[m1[b].next].next # b
      <4>1. m2[b].next = m1[m1[b].next].next /\ b \in DOMAIN m2
        BY <1>3, <2>2 DEF MergeFrom
      <4>. QED  BY <1>3, <4>1, Neighbours
    <3>2. m1[b].next = m[b].next /\ Apart(m, m[b].next)
      BY <1>1, <1>2, <2>1, <2>2 DEF FlaggedFrom, Free, Merged
    <3>3. m[m[b].next].next # NULL => m[m[b].next].next \in DOMAIN m
      BY <1>1, <2>2, <3>2, Neighbours DEF FlaggedFrom, Free
    <3>4. Apart(m1, m1[b].next)
      BY <1>1, <2>2, <3>1, <3>2, <3>3 DEF FlaggedFrom, Free, Apart
    <3>. QED  BY <1>1, <1>2, <1>3, <2>2, <3>4, MergeBehind
  <2>3. CASE ~Free(m1, m1[b].next)
    <3>1. m2 = m1
      BY <1>3, <2>3 DEF MergeFrom
    <3>2. m1[b].next # NULL => m1[b].next \in DOMAIN m1 /\ m1[m1[b].next].flags \in {FREE, USED}
      BY <1>1, <1>2, Neighbours
    <3>. QED  BY <2>3, <3>1, <3>2 DEF Free, Apart
  <2>. QED  BY <2>2, <2>3
<1>8. \A a \in DOMAIN m2 : a # b /\ a # p /\ m2[a].flags = FREE => Apart(m2, a)
  <2>. SUFFICES ASSUME NEW a \in DOMAIN m2, a # b, a # p, m2[a].flags = FREE
                PROVE  Apart(m2, a)
    OBVIOUS
  <2>1. a \in DOMAIN m /\ m[a].flags = FREE
    BY <1>1, <1>3 DEF FlaggedFrom, MergeFrom
  <2>2. Apart(m, a)
    BY <2>1 DEF Merged
  <2>3. m[a].next # b /\ (m[a].next # NULL => m[a].next \in DOMAIN m)
    BY <1>2, <1>5, <2>1, Neighbours
  <2>4. Apart(m1, a)
    BY <1>1, <2>1, <2>2, <2>3 DEF FlaggedFrom, Apart
  <2>. QED  BY <1>1, <1>2, <1>3, <2>4, MergeApart
<1>a. \A a \in InUse(m) : m[a].size \in Nat
  BY Neighbours DEF InUse
<1>9. CASE p # NULL /\ m2[p].flags = FREE
  <2>1. Chain(m3, brk) /\ MergeFrom(m3, m2, p)
    BY <1>3, <1>5, <1>9, MergeChain DEF m3
  <2>2. p \in DOMAIN m2 /\ Free(m2, m2[p].next) /\ m2[p].next = b
    BY <1>1, <1>3, <1>5, <1>9 DEF FlaggedFrom, MergeFrom, Free
  <2>3. InUse(m3) = InUse(m2) /\ \A a \in InUse(m3) : m3[a].size = m2[a].size
    BY <1>9, <2>1, <2>2, MergeUse DEF InUse, FREE, USED
  <2>4. Apart(m3, p)
    BY <1>3, <1>7, <2>1, <2>2, MergeBehind
  <2>5. ASSUME NEW a \in DOMAIN m3, a # p, m3[a].flags = FREE PROVE Apart(m3, a)
    <3>1. a \in DOMAIN m2 /\ m2[a].flags = FREE
      BY <2>1, <2>5 DEF MergeFrom
    <3>2. Apart(m2, a)
      BY <1>7, <1>8, <2>5, <3>1
    <3>. QED  BY <1>3, <2>1, <2>2, <2>5, <3>2, MergeApart
  <2>6. Merged(m3)
    BY <2>4, <2>5 DEF Merged
  <2>7. Keeps(m3, m, InUse(m) \ {b})
    <3>1. InUse(m3) = InUse(m) \ {b} /\ \A a \in InUse(m3) : m3[a].size = m[a].size
      BY <1>6, <2>3
    <3>. QED  BY <1>a, <3>1 DEF Keeps
  <2>. QED  BY <1>4, <1>9, <2>1, <2>6, <2>7
<1>10. CASE ~(p # NULL /\ m2[p].flags = FREE)
  <2>1. \A a \in DOMAIN m2 : a # NULL
    BY <1>3, Neighbours
  <2>2. Merged(m2)
    BY <1>7, <1>8, <1>10, <2>1 DEF Merged
  <2>3. Keeps(m2, m, InUse(m) \ {b})
    BY <1>6, <1>a DEF Keeps
  <2>. QED  BY <1>3, <1>4, <1>10, <2>2, <2>3
<1>. QED  BY <1>9, <1>10

\* A size kmalloc looks for.
Asks(size) == size \in Nat /\ size >= HEAP_MIN_BLOCK /\ Aligned(size)

\* Handing out a free block leaves a well-formed list without free neighbours,
\* the blocks in use as they were and the new one large enough.
LEMMA HandOutChain ==
    ASSUME NEW m, NEW brk, Chain(m, brk), Merged(m), NEW size, Asks(size),
           NEW b \in DOMAIN m, m[b].flags = FREE, ~Wraps(m, b, size),
           NEW m3, m3 = [block_split(m, b, size) EXCEPT ![b].flags = USED]
    PROVE  /\ Chain(m3, brk) /\ Merged(m3) /\ Keeps(m3, m, InUse(m) \cup {b})
           /\ m3[b].size >= size
<1>. DEFINE m2 == block_split(m, b, size)
<1>1. Chain(m2, brk) /\ SplitFrom(m2, m, b, size)
  BY SplitChain DEF Asks
<1>. HIDE DEF m2
<1>2. b \in DOMAIN m2 /\ m3 = [m2 EXCEPT ![b].flags = USED]
  BY <1>1 DEF SplitFrom, m2
<1>3. Chain(m3, brk) /\ FlaggedFrom(m3, m2, b, USED)
  BY <1>1, <1>2, FlagChain, Zenon
<1>4. ASSUME NEW a \in DOMAIN m3, m3[a].flags = FREE PROVE Apart(m3, a)
  <2>1. a # b /\ a \in DOMAIN m2 /\ m2[a].flags = FREE
    BY <1>3, <1>4 DEF FlaggedFrom, FREE, USED
  <2>2. Apart(m, b) /\ (a \in DOMAIN m => Apart(m, a))
    BY <1>1, <2>1 DEF SplitFrom, Merged
  <2>3. Apart(m2, a)
    BY <1>1, <2>1, <2>2, SplitApart
  <2>4. m2[a].next # NULL => m2[a].next \in DOMAIN m2
    BY <1>1, <2>1, Neighbours
  <2>. QED  BY <1>3, <2>1, <2>3, <2>4 DEF FlaggedFrom, Apart
<1>5. Merged(m3)
  BY <1>4, Zenon DEF Merged
<1>6. InUse(m2) = InUse(m) /\ \A a \in InUse(m) : a # b /\ m2[a].size = m[a].size
  BY <1>1, SplitUse DEF InUse, FREE, USED
<1>7. InUse(m3) = InUse(m2) \cup {b} /\ \A a \in DOMAIN m2 : m3[a].size = m2[a].size
  BY <1>2, <1>3 DEF FlaggedFrom, InUse
<1>8. \A a \in InUse(m) : a \in DOMAIN m2 /\ m[a].size \in Nat
  BY <1>6, Neighbours DEF InUse
<1>9. Keeps(m3, m, InUse(m) \cup {b})
  <2>1. InUse(m3) = InUse(m) \cup {b}
    BY <1>6, <1>7, Zenon
  <2>2. \A a \in InUse(m) : m3[a].size = m[a].size
    BY <1>6, <1>7, <1>8
  <2>3. \A a \in (InUse(m) \cup {b}) \cap InUse(m) : m3[a].size >= m[a].size
    BY <1>8, <2>2
  <2>. QED  BY <2>1, <2>3, Zenon DEF Keeps
<1>10. m3[b].size >= size
  BY <1>1, <1>2, <1>7 DEF SplitFrom
<1>. QED  BY <1>3, <1>5, <1>9, <1>10

\* So does krealloc when it grows a block into the free one behind it.
LEMMA GrownChain ==
    ASSUME NEW m, NEW brk, Chain(m, brk), Merged(m), NEW b \in InUse(m),
           NEW size, Asks(size), NEW m1, m1 = block_merge_next(m, b), m1 # m,
           ~Wraps(m1, b, size), size >= m[b].size, NEW m2, m2 = block_split(m1, b, size)
    PROVE  /\ Chain(m2, brk) /\ Merged(m2) /\ Keeps(m2, m, InUse(m) \cup {b})
           /\ m2[b].size >= size
<1>1. b \in DOMAIN m /\ m[b].flags = USED /\ m[b].size \in Nat /\ size \in Nat
  BY Neighbours DEF InUse, Asks
<1>2. Chain(m1, brk) /\ MergeFrom(m1, m, b)
  BY <1>1, MergeChain
<1>3. b \in DOMAIN m1 /\ m1[b].flags = USED /\ Free(m, m[b].next)
  BY <1>1, <1>2 DEF MergeFrom
<1>4. Chain(m2, brk) /\ SplitFrom(m2, m1, b, size)
  BY <1>2, <1>3, SplitChain DEF Asks
<1>5. Apart(m1, b)
  <2>1. Apart(m, m[b].next)
    BY <1>3 DEF Merged, Free
  <2>. QED  BY <1>1, <1>2, <1>3, <2>1, MergeBehind
<1>6. ASSUME NEW a \in DOMAIN m1, m1[a].flags = FREE PROVE Apart(m1, a)
  <2>1. a # b /\ a \in DOMAIN m /\ m[a].flags = FREE
    BY <1>2, <1>3, <1>6 DEF MergeFrom, FREE, USED
  <2>2. Apart(m, a)
    BY <2>1 DEF Merged
  <2>. QED  BY <1>1, <1>2, <2>1, <2>2, MergeApart
<1>7. ASSUME NEW a \in DOMAIN m2, m2[a].flags = FREE PROVE Apart(m2, a)
  <2>1. a # b /\ (a \in DOMAIN m1 => m1[a].flags = FREE)
    BY <1>3, <1>4, <1>7 DEF SplitFrom, FREE, USED
  <2>. QED  BY <1>2, <1>3, <1>4, <1>5, <1>6, <2>1, SplitApart
<1>8. InUse(m2) = InUse(m) /\ \A a \in InUse(m) : a # b => m2[a].size = m[a].size
  BY <1>1, <1>2, <1>3, <1>4, MergeUse, SplitUse
<1>9. m2[b].size >= size /\ m2[b].size \in Nat
  BY <1>3, <1>4, Neighbours DEF SplitFrom
<1>10. \A a \in InUse(m) : m[a].size \in Nat
  BY Neighbours DEF InUse
<1>11. Keeps(m2, m, InUse(m) \cup {b})
  BY <1>1, <1>8, <1>9, <1>10 DEF Keeps
<1>. QED  BY <1>4, <1>7, <1>9, <1>11 DEF Merged

\* heap_expand leaves a well-formed list up to the new break, without free
\* neighbours, and with a free block as large as the space added.
LEMMA ExpandChain ==
    ASSUME NEW m, NEW brk, Chain(m, brk), Merged(m), NEW more \in Nat, Aligned(more),
           more >= HEAP_HEADER_SIZE + HEAP_MIN_BLOCK, brk + more <= HEAP_MAX_SIZE,
           NEW m3, m3 = heap_expand(m, brk, more)
    PROVE  /\ Chain(m3, brk + more) /\ Merged(m3) /\ Keeps(m3, m, InUse(m))
           /\ \E b \in DOMAIN m3 : /\ m3[b].flags = FREE
                                   /\ m3[b].size >= more - HEAP_HEADER_SIZE
<1>. DEFINE m2 == Linked(m, brk, more)
            last == LastBlock(m)
<1>1. Chain(m2, brk + more) /\ LinkedFrom(m2, m, last, brk, more)
  BY LinkChain
<1>2. last \in DOMAIN m /\ m[last].next = NULL
  BY Last
<1>3. m3 = IF m2[last].flags = FREE THEN block_merge_next(m2, last) ELSE m2
  BY DEF heap_expand, Linked
<1>. HIDE DEF m2, last
<1>4. InUse(m2) = InUse(m) /\ \A a \in InUse(m) : m2[a].size = m[a].size
  BY <1>1 DEF LinkedFrom, InUse, FREE, USED
<1>5. \A a \in InUse(m) : m[a].size \in Nat
  BY Neighbours DEF InUse
<1>6. ASSUME NEW a \in DOMAIN m2, a # last, m2[a].flags = FREE PROVE Apart(m2, a)
  <2>1. CASE a = brk
    BY <1>1, <2>1 DEF LinkedFrom, Apart
  <2>2. CASE a # brk
    <3>1. a \in DOMAIN m /\ m2[a].next = m[a].next /\ m[a].flags = FREE
      BY <1>1, <1>6, <2>2 DEF LinkedFrom
    <3>2. Apart(m, a) /\ (m[a].next # NULL => m[a].next \in DOMAIN m)
      BY <3>1, Neighbours DEF Merged
    <3>. QED  BY <1>1, <3>1, <3>2 DEF LinkedFrom, Apart
  <2>. QED  BY <2>1, <2>2
<1>7. CASE m2[last].flags = FREE
  <2>1. last \in DOMAIN m2 /\ Free(m2, m2[last].next) /\ m2[last].next = brk /\ brk # last
    BY <1>1 DEF LinkedFrom, Free
  <2>2. Chain(m3, brk + more) /\ MergeFrom(m3, m2, last)
    BY <1>1, <1>3, <1>7, <2>1, MergeChain
  <2>3. /\ m3[last].size >= more - HEAP_HEADER_SIZE
        /\ last \in DOMAIN m3 /\ m3[last].flags = FREE
    <3>1. m2[last].size \in Nat /\ m2[brk].size = more - HEAP_HEADER_SIZE
      BY <1>1, <2>1, Neighbours DEF LinkedFrom
    <3>2. m3[last].size = m2[last].size + HEAP_HEADER_SIZE + m2[brk].size
      BY <2>1, <2>2 DEF MergeFrom
    <3>3. last \in DOMAIN m3 /\ m3[last].flags = FREE
      BY <1>7, <2>2 DEF MergeFrom
    <3>. QED  BY <3>1, <3>2, <3>3, Const
  <2>4. Apart(m3, last)
    <3>1. Apart(m2, brk)
      BY <1>1 DEF LinkedFrom, Apart
    <3>. QED  BY <1>1, <2>1, <2>2, <3>1, MergeBehind
  <2>5. ASSUME NEW a \in DOMAIN m3, a # last, m3[a].flags = FREE PROVE Apart(m3, a)
    <3>1. a \in DOMAIN m2 /\ m2[a].flags = FREE
      BY <2>2, <2>5 DEF MergeFrom
    <3>2. Apart(m2, a)
      BY <1>6, <2>5, <3>1
    <3>. QED  BY <1>1, <2>1, <2>2, <2>5, <3>2, MergeApart
  <2>6. InUse(m3) = InUse(m) /\ \A a \in InUse(m) : m3[a].size = m[a].size
    BY <1>4, <1>7, <2>1, <2>2, MergeUse DEF InUse, FREE, USED
  <2>7. Keeps(m3, m, InUse(m))
    BY <1>5, <2>6 DEF Keeps
  <2>. QED  BY <2>2, <2>3, <2>4, <2>5, <2>7 DEF Merged
<1>8. CASE m2[last].flags # FREE
  <2>1. m3 = m2
    BY <1>3, <1>8
  <2>2. Merged(m3)
    BY <1>6, <1>8, <2>1 DEF Merged
  <2>3. Keeps(m3, m, InUse(m))
    BY <1>4, <1>5, <2>1 DEF Keeps
  <2>4. m3[brk].flags = FREE /\ m3[brk].size >= more - HEAP_HEADER_SIZE /\ brk \in DOMAIN m3
    BY <1>1, <2>1, Const DEF LinkedFrom
  <2>. QED  BY <1>1, <2>1, <2>2, <2>3, <2>4
<1>. QED  BY <1>7, <1>8

\* Rounding up what kmalloc is asked for does not wrap around.
Bounded(n) ==
    n \in Nat /\ n + HEAP_HEADER_SIZE + HEAP_ALIGNMENT + PAGE_SIZE <= SIZE_WRAP

\* A number of whole pages is aligned.
LEMMA PageAligned ==
    ASSUME NEW n \in Nat, n % PAGE_SIZE = 0
    PROVE  Aligned(n)
<1>1. PAGE_SIZE \in Nat /\ PAGE_SIZE > 0 /\ PAGE_SIZE % HEAP_ALIGNMENT = 0
  BY HeapAssumption
<1>2. PICK i \in Int : PAGE_SIZE = HEAP_ALIGNMENT * i
  <2>1. HEAP_ALIGNMENT \in Nat /\ HEAP_ALIGNMENT > 0 /\ PAGE_SIZE \in Int
    BY <1>1, Const
  <2>. QED  BY <1>1, <2>1, Quotient, Zenon
<1>3. PICK j \in Int : n = PAGE_SIZE * j
  BY <1>1, Quotient
<1>4. n = HEAP_ALIGNMENT * (i * j) /\ i * j \in Int
  BY <1>2, <1>3, Const
<1>. QED  BY <1>4, Multiple, Const DEF Aligned

\* By how much kmalloc asks heap_expand to grow the heap.
Growth(size) == ALIGN_UP(MaxOf(size + HEAP_HEADER_SIZE, HEAP_EXPAND_SIZE), PAGE_SIZE)

\* The rounded request is one block_split deals with, and the heap is grown by
\* enough for it.
LEMMA Requested ==
    ASSUME NEW bytes, Bounded(bytes)
    PROVE  /\ Asks(Request(bytes)) /\ Request(bytes) >= bytes
           /\ Growth(Request(bytes)) \in Nat /\ Aligned(Growth(Request(bytes)))
           /\ Growth(Request(bytes)) >= Request(bytes) + HEAP_HEADER_SIZE
<1>. DEFINE up == ALIGN_UP(bytes, HEAP_ALIGNMENT)
            size == Request(bytes)
            least == MaxOf(size + HEAP_HEADER_SIZE, HEAP_EXPAND_SIZE)
<1>1. /\ PAGE_SIZE \in Nat /\ PAGE_SIZE > 0 /\ HEAP_EXPAND_SIZE \in Nat
      /\ Aligned(HEAP_MIN_BLOCK)
      /\ HEAP_MIN_BLOCK + HEAP_HEADER_SIZE + 2 * HEAP_ALIGNMENT + PAGE_SIZE <= SIZE_WRAP
      /\ HEAP_EXPAND_SIZE + HEAP_HEADER_SIZE + 2 * HEAP_ALIGNMENT + PAGE_SIZE <= SIZE_WRAP
  BY HeapAssumption, RequestAssumption DEF Aligned
<1>2. up \in Nat /\ Aligned(up) /\ bytes <= up /\ up < bytes + HEAP_ALIGNMENT
  BY <1>1, RoundUp, Const DEF Bounded, Aligned
<1>3. size = up \/ size = HEAP_MIN_BLOCK
  BY DEF Request, MaxOf
<1>4. size >= up /\ size >= HEAP_MIN_BLOCK
  BY <1>2, Const DEF Request, MaxOf
<1>. HIDE DEF up, size
<1>5. size \in Nat /\ size + HEAP_HEADER_SIZE + PAGE_SIZE <= SIZE_WRAP
  BY <1>1, <1>2, <1>3, Const DEF Bounded
<1>6. least \in Nat /\ least + PAGE_SIZE <= SIZE_WRAP /\ least >= size + HEAP_HEADER_SIZE
  BY <1>1, <1>5, Const DEF MaxOf
<1>. HIDE DEF least
<1>7. LET more == ALIGN_UP(least, PAGE_SIZE)
      IN  more \in Nat /\ Aligned(more) /\ least <= more
  BY <1>1, <1>6, RoundUp, PageAligned
<1>8. Growth(size) = ALIGN_UP(least, PAGE_SIZE)
  BY DEF Growth, least
<1>9. Asks(size) /\ size >= bytes
  BY <1>1, <1>2, <1>3, <1>4, <1>5 DEF Asks, Bounded
<1>10. Growth(size) \in Nat /\ Aligned(Growth(size)) /\ Growth(size) >= size + HEAP_HEADER_SIZE
  BY <1>5, <1>6, <1>7, <1>8, Const
<1>. QED  BY <1>9, <1>10 DEF size

\* The break is on mapped pages, below the limit of the heap.
Limits(brk, top) ==
    brk \in Nat /\ top \in Nat /\ brk <= top /\ top <= HEAP_MAX_SIZE

\* The outcome of kmalloc is a record with these fields, on every path.
LEMMA KMallocFields ==
    ASSUME NEW bytes, NEW pages
    PROVE  {"mem", "heap_break", "mapped", "damage"} \subseteq DOMAIN KMalloc(bytes, pages)
<1>1. /\ \A m, brk, top, size :
            {"mem", "heap_break", "mapped", "damage"} \subseteq DOMAIN HandOut(m, brk, top, size)
      /\ \A top : {"mem", "heap_break", "mapped", "damage"} \subseteq DOMAIN Fail(top)
  BY DEF HandOut, Fail
<1>. QED  BY <1>1 DEF KMalloc

(***************************************************************************)
(* The owners' bytes, and the inductive invariant.                         *)
(***************************************************************************)
Inside(u, m, b) ==
    /\ u[b][1] \in Nat /\ u[b][2] \in Nat
    /\ block_to_ptr(b) <= u[b][1] /\ u[b][1] + u[b][2] <= End(m, b)

\* The blocks in use are those given out, each with its bytes inside.
Owned(u, m) == DOMAIN u = InUse(m) /\ \A b \in DOMAIN u : Inside(u, m, b)

\* What is left of Placed, and of Apart, for a block in front of address d, where
\* block_split wrapped around.
PlacedTo(m, brk, d, b) ==
    /\ b \in Nat /\ m[b].size \in Nat /\ m[b].next = End(m, b) /\ End(m, b) <= brk
    /\ m[b].next \in DOMAIN m
    /\ m[b].next < d => m[m[b].next].prev = b
    /\ b # heap_first => m[b].prev \in DOMAIN m /\ m[b].prev < d /\ m[m[b].prev].next = b
    /\ b = heap_first => m[b].prev = NULL
    /\ Aligned(m[b].size) /\ m[b].size >= HEAP_MIN_BLOCK
    /\ m[b].flags = FREE /\ m[b].next < d => m[m[b].next].flags = USED

\* The list is well formed from heap_first up to address d.
ListTo(m, brk, d) ==
    /\ d \in Nat /\ d <= brk /\ heap_first \in DOMAIN m /\ heap_first < d
    /\ DOMAIN m \subseteq Nat
    /\ \A b \in DOMAIN m : b < d => PlacedTo(m, brk, d, b)

\* The members of S in front of d.
To(S, d) == {b \in S : b < d}

\* In front of d the blocks in use are those given out, with their bytes inside.
OwnedTo(u, m, d) ==
    To(DOMAIN u, d) = To(InUse(m), d) /\ \A b \in To(DOMAIN u, d) : Inside(u, m, b)

\* The heap between two calls.
Healthy(m, brk, top, u) == Chain(m, brk) /\ Merged(m) /\ Owned(u, m) /\ Limits(brk, top)

\* The heap between two calls, or after one in which a split wrapped around at d.
Inv(m, brk, top, u, d) ==
    \/ d = NULL /\ Healthy(m, brk, top, u)
    \/ d # NULL /\ Limits(brk, top) /\ ListTo(m, brk, d) /\ OwnedTo(u, m, d)

\* The inductive invariant.  Beside the properties it says that blocks lie
\* apart and that the last one ends at the break: without that a split or a
\* merge could not be known to stay clear of the other headers.
IInv == Inv(mem, heap_break, mapped, used, damage)

\* A block given out is recorded, and the other owners keep theirs.
LEMMA GivenOwned ==
    ASSUME NEW m, NEW m2, NEW brk, NEW brk2, Chain(m, brk), Chain(m2, brk2),
           NEW u, Owned(u, m), NEW b, Keeps(m2, m, InUse(m) \cup {b}),
           NEW first \in Nat, NEW n \in Nat,
           block_to_ptr(b) <= first, first + n <= End(m2, b)
    PROVE  Owned(GivenOut(u, b, first, n), m2)
<1>. DEFINE u2 == GivenOut(u, b, first, n)
<1>1. /\ DOMAIN u2 = DOMAIN u \cup {b} /\ u2[b] = <<first, n>>
      /\ \A a \in DOMAIN u : a # b => u2[a] = u[a]
  BY DEF GivenOut
<1>. HIDE DEF u2
<1>2. Inside(u2, m2, b)
  BY <1>1 DEF Inside
<1>3. ASSUME NEW a \in DOMAIN u, a # b PROVE Inside(u2, m2, a)
  <2>1. a \in InUse(m) /\ a \in InUse(m2) /\ m2[a].size >= m[a].size /\ Inside(u, m, a)
    BY DEF Owned, Keeps
  <2>2. a \in Nat /\ m[a].size \in Nat /\ m2[a].size \in Nat
    <3>1. a \in DOMAIN m /\ a \in DOMAIN m2
      BY <2>1 DEF InUse
    <3>2. m[a].size \in Nat /\ m2[a].size \in Nat
      BY <3>1, Neighbours
    <3>. QED  BY <3>1, <3>2 DEF Chain
  <2>3. End(m, a) <= End(m2, a) /\ End(m, a) \in Nat /\ End(m2, a) \in Nat
    BY <2>1, <2>2, Const DEF End
  <2>4. u2[a] = u[a]
    BY <1>1, <1>3
  <2>. QED  BY <2>1, <2>3, <2>4 DEF Inside
<1>4. Owned(u2, m2)
  BY <1>1, <1>2, <1>3 DEF Owned, Keeps
<1>. QED  BY <1>4 DEF u2

\* A block taken back is forgotten, and the other owners keep theirs.
LEMMA TakenOwned ==
    ASSUME NEW m, NEW m2, NEW brk, Chain(m, brk), Chain(m2, brk),
           NEW u, Owned(u, m), NEW b, Keeps(m2, m, InUse(m) \ {b})
    PROVE  Owned(TakenBack(u, b), m2)
<1>. DEFINE u2 == TakenBack(u, b)
<1>1. DOMAIN u2 = DOMAIN u \ {b} /\ \A a \in DOMAIN u2 : u2[a] = u[a]
  BY DEF TakenBack
<1>. HIDE DEF u2
<1>2. ASSUME NEW a \in DOMAIN u2 PROVE Inside(u2, m2, a)
  <2>1. a \in InUse(m) /\ a \in InUse(m2) /\ m2[a].size >= m[a].size /\ Inside(u, m, a)
    BY <1>1 DEF Owned, Keeps
  <2>2. a \in Nat /\ m[a].size \in Nat /\ m2[a].size \in Nat
    <3>1. a \in DOMAIN m /\ a \in DOMAIN m2
      BY <2>1 DEF InUse
    <3>2. m[a].size \in Nat /\ m2[a].size \in Nat
      BY <3>1, Neighbours
    <3>. QED  BY <3>1, <3>2 DEF Chain
  <2>3. End(m, a) <= End(m2, a) /\ End(m, a) \in Nat /\ End(m2, a) \in Nat
    BY <2>1, <2>2, Const DEF End
  <2>4. u2[a] = u[a]
    BY <1>1
  <2>. QED  BY <2>1, <2>3, <2>4 DEF Inside
<1>3. Owned(u2, m2)
  BY <1>1, <1>2 DEF Owned, Keeps
<1>. QED  BY <1>3 DEF u2

\* heap_init: one free block.
LEMMA InitIInv == heap_init => IInv
<1>. SUFFICES ASSUME heap_init PROVE IInv
  OBVIOUS
<1>. DEFINE rest == HEAP_INITIAL_SIZE - HEAP_HEADER_SIZE
<1>1. /\ HEAP_INITIAL_SIZE \in Nat /\ HEAP_INITIAL_SIZE <= HEAP_MAX_SIZE
      /\ rest \in Nat /\ rest >= HEAP_MIN_BLOCK
  BY HeapAssumption, Const
<1>2. Aligned(rest)
  <2>1. Aligned(HEAP_INITIAL_SIZE) /\ Aligned(HEAP_HEADER_SIZE)
    BY HeapAssumption DEF Aligned
  <2>. QED  BY <1>1, <2>1, AlignedSum, Const
<1>3. DOMAIN mem = {0} /\ mem[0] = Header(FREE, rest, NULL, NULL)
  BY DEF heap_init, heap_first
<1>. HIDE DEF rest
<1>4. /\ mem[0] \in Headers /\ mem[0].flags = FREE /\ mem[0].size = rest
      /\ mem[0].next = NULL /\ mem[0].prev = NULL
  <2>1. FREE \in {FREE, USED} /\ NULL \in Int
    BY DEF NULL
  <2>2. Reads(mem[0], FREE, rest, NULL, NULL)
    BY <1>1, <1>3, <2>1, NewHeader
  <2>. QED  BY <2>2 DEF Reads
<1>5. End(mem, 0) = HEAP_INITIAL_SIZE
  BY <1>1, <1>4, Const DEF End, rest
<1>6. heap_break = HEAP_INITIAL_SIZE /\ mapped = HEAP_INITIAL_SIZE /\ DOMAIN used = {}
  BY DEF heap_init
<1>7. Chain(mem, heap_break)
  <2>1. Placed(mem, heap_break, 0)
    BY <1>1, <1>2, <1>4, <1>5, <1>6 DEF Placed, heap_first
  <2>2. heap_break \in 0 .. HEAP_MAX_SIZE
    BY <1>1, <1>6, Const
  <2>. QED  BY <1>3, <1>4, <1>5, <1>6, <2>1, <2>2 DEF Chain, heap_first
<1>8. Merged(mem) /\ InUse(mem) = {}
  BY <1>3, <1>4, <1>7, Neighbours DEF Merged, Apart, InUse
<1>9. damage = NULL
  BY DEF heap_init
<1>. QED  BY <1>1, <1>6, <1>7, <1>8, <1>9, Const DEF IInv, Inv, Limits, Healthy, Owned

\* kfree.
LEMMA FreeStep ==
    ASSUME IInv, NEW b, kfree(b)
    PROVE  IInv'
<1>1. /\ Healthy(mem, heap_break, mapped, used) /\ b \in InUse(mem)
      /\ mem' = KFree(mem, b) /\ used' = TakenBack(used, b)
      /\ UNCHANGED <<heap_break, mapped, damage>> /\ damage = NULL
  BY DEF IInv, Inv, Healthy, Owned, kfree
<1>2. Healthy(KFree(mem, b), heap_break, mapped, TakenBack(used, b))
  BY <1>1, KFreeChain, TakenOwned, Zenon DEF Healthy
<1>. QED  BY <1>1, <1>2 DEF IInv, Inv
=============================================================================
