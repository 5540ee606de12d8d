------------------------- MODULE CompactSinkProofs -------------------------
(***************************************************************************)
(* The compact sink implements the store of nodes, proved for every value  *)
(* of the constants: what the parser reads through indices and slices is   *)
(* what NodeStore keeps, and cutting back to lengths is bringing back what *)
(* there was at the mark.                                                  *)
(***************************************************************************)
EXTENDS CompactSinkProps, SequenceTheorems, TLAPS

---------------------------------------------------------------------------
(* Slices and the arena. *)

Slices == [block : Nat, at : Nat, len : Nat, cap : Nat]

\* An arena whose last block is in use up to next.
ArenaOK(a) ==
    /\ a \in [blocks : Seq(Seq(Nat)), next : Nat]
    /\ a.blocks = <<>> => a.next = 0
    /\ a.blocks # <<>> => a.next <= LastSize(a)

\* Slice s was cut out when there were b blocks, the last one in use up to x.
Before(s, b, x) ==
    s.cap > 0 => s.block < b \/ (s.block = b /\ s.at + s.cap <= x)

\* Slice s is one that arena a has given out.
Inside(a, s) ==
    /\ s.len <= s.cap
    /\ s.cap > 0 => /\ s.block \in 1 .. Len(a.blocks)
                    /\ s.at + s.cap <= Len(a.blocks[s.block])
    /\ Before(s, Len(a.blocks), a.next)

\* Slices s and t have no cell in common, not even one not yet used.
Apart(s, t) ==
    \/ s.cap = 0 \/ t.cap = 0
    \/ s.block # t.block
    \/ s.at + s.cap <= t.at \/ t.at + t.cap <= s.at

\* Arena b is a after more was cut out.
Grows(a, b) ==
    /\ Len(a.blocks) <= Len(b.blocks)
    /\ \A i \in DOMAIN a.blocks : Len(b.blocks[i]) = Len(a.blocks[i])
    /\ Len(a.blocks) = Len(b.blocks) => a.next <= b.next

\* On the way from arena a to b slice old became new, which touches no other.
Spares(a, b, old, new) ==
    \A t \in Slices :
        Inside(a, t) /\ Apart(old, t)
            => Inside(b, t) /\ Items(b, t) = Items(a, t) /\ Apart(new, t)

\* A stretch of a sequence, element by element.
LEMMA StretchFacts ==
    ASSUME NEW b \in Seq(Nat), NEW at \in Nat, NEW n \in Nat, at + n <= Len(b)
    PROVE  /\ SubSeq(b, at + 1, at + n) \in Seq(Nat)
           /\ Len(SubSeq(b, at + 1, at + n)) = n
           /\ \A i \in 1 .. n : SubSeq(b, at + 1, at + n)[i] = b[at + i]
  <1>1. Len(b) \in Nat /\ \A i \in 1 .. Len(b) : b[i] \in Nat
    BY LenProperties, ElementOfSeq
  <1>2. \A i \in at + 1 .. at + n : b[i] \in Nat
    BY <1>1
  <1>3. /\ SubSeq(b, at + 1, at + n) \in Seq(Nat)
        /\ Len(SubSeq(b, at + 1, at + n)) = IF at + 1 <= at + n THEN at + n - (at + 1) + 1 ELSE 0
        /\ \A i \in 1 .. at + n - (at + 1) + 1 : SubSeq(b, at + 1, at + n)[i] = b[at + 1 + i - 1]
    <2>1. at + 1 \in Int /\ at + n \in Int
      OBVIOUS
    <2> QED
      BY <1>2, <2>1, SubSeqProperties
  <1> QED
    BY <1>3

\* What an arena holds, block by block.
LEMMA ArenaFacts ==
    ASSUME NEW a, ArenaOK(a)
    PROVE  /\ a.blocks \in Seq(Seq(Nat)) /\ a.next \in Nat
           /\ Len(a.blocks) \in Nat /\ DOMAIN a.blocks = 1 .. Len(a.blocks)
           /\ \A i \in 1 .. Len(a.blocks) :
                 a.blocks[i] \in Seq(Nat) /\ Len(a.blocks[i]) \in Nat
  <1>1. a.blocks \in Seq(Seq(Nat)) /\ a.next \in Nat
    BY DEF ArenaOK
  <1>2. Len(a.blocks) \in Nat /\ DOMAIN a.blocks = 1 .. Len(a.blocks)
    BY <1>1, LenProperties
  <1>3. \A i \in 1 .. Len(a.blocks) : a.blocks[i] \in Seq(Nat)
    BY <1>1, ElementOfSeq
  <1>4. \A i \in 1 .. Len(a.blocks) : Len(a.blocks[i]) \in Nat
    BY <1>3, LenProperties
  <1> QED
    BY <1>1, <1>2, <1>3, <1>4

\* The items of a slice are its cells.
LEMMA ItemsAreCells ==
    ASSUME NEW a, ArenaOK(a), NEW s \in Slices, Inside(a, s)
    PROVE  /\ Items(a, s) \in Seq(Nat)
           /\ Len(Items(a, s)) = s.len
           /\ \A i \in 1 .. s.len : Items(a, s)[i] = a.blocks[s.block][s.at + i]
  <1>1. CASE s.len = 0
    BY <1>1 DEF Items, Slices
  <1>2. CASE s.len # 0
    <2>1. /\ s.len \in Nat /\ s.at \in Nat /\ s.cap \in Nat /\ s.len <= s.cap /\ s.len > 0
          /\ s.block \in 1 .. Len(a.blocks)
          /\ s.at + s.cap <= Len(a.blocks[s.block])
      BY <1>2 DEF Inside, Slices
    <2>2. PICK b \in Seq(Nat) : b = a.blocks[s.block] /\ Len(b) \in Nat
      BY <2>1, ArenaFacts
    <2>3. Items(a, s) = SubSeq(b, s.at + 1, s.at + s.len)
      BY <1>2, <2>2 DEF Items
    <2>4. s.at + s.len <= Len(b)
      BY <2>1, <2>2
    <2>5. PICK at \in Nat, n \in Nat : at = s.at /\ n = s.len /\ at + n <= Len(b)
      BY <2>1, <2>4
    <2>6. /\ SubSeq(b, at + 1, at + n) \in Seq(Nat)
          /\ Len(SubSeq(b, at + 1, at + n)) = n
          /\ \A i \in 1 .. n : SubSeq(b, at + 1, at + n)[i] = b[at + i]
      BY <2>5, StretchFacts
    <2> QED
      BY <2>2, <2>3, <2>5, <2>6
  <1> QED
    BY <1>1, <1>2

\* A slice whose cells are the same has the same items.
LEMMA SameItems ==
    ASSUME NEW a, ArenaOK(a), NEW b, ArenaOK(b), NEW s \in Slices, Inside(a, s), Inside(b, s),
           \A i \in 1 .. s.len : b.blocks[s.block][s.at + i] = a.blocks[s.block][s.at + i]
    PROVE  Items(b, s) = Items(a, s)
  <1>1. /\ Items(a, s) \in Seq(Nat) /\ Items(b, s) \in Seq(Nat)
        /\ Len(Items(a, s)) = s.len /\ Len(Items(b, s)) = s.len
        /\ \A i \in 1 .. s.len : Items(a, s)[i] = Items(b, s)[i]
    BY ItemsAreCells
  <1> QED
    BY <1>1, SeqEqual

\* Two growing steps are one.
LEMMA GrowsOn ==
    ASSUME NEW a, ArenaOK(a), NEW b, ArenaOK(b), NEW c, ArenaOK(c), Grows(a, b), Grows(b, c)
    PROVE  Grows(a, c)
  <1>1. /\ Len(a.blocks) \in Nat /\ Len(b.blocks) \in Nat /\ Len(c.blocks) \in Nat
        /\ a.next \in Nat /\ b.next \in Nat /\ c.next \in Nat
        /\ DOMAIN a.blocks = 1 .. Len(a.blocks) /\ DOMAIN b.blocks = 1 .. Len(b.blocks)
    BY DEF ArenaOK
  <1> QED
    BY <1>1 DEF Grows

\* Two steps that spare the other slices are one.
LEMMA SparesOn ==
    ASSUME NEW a, NEW b, NEW c, NEW r, NEW s, NEW t, Spares(a, b, r, s), Spares(b, c, s, t)
    PROVE  Spares(a, c, r, t)
  BY DEF Spares

---------------------------------------------------------------------------
(* Cutting out, filling and appending. *)

Slice(block, at, len, cap) == [block |-> block, at |-> at, len |-> len, cap |-> cap]

\* Room only adds a block; what fits, fits in the last one.
LEMMA RoomFacts ==
    ASSUME SinkAssumption, NEW a, ArenaOK(a), NEW size \in Nat \ {0}
    PROVE  LET b == Room(a, size) IN
           /\ ArenaOK(b) /\ Grows(a, b)
           /\ Len(b.blocks) > 0 /\ b.next + size <= Len(b.blocks[Len(b.blocks)])
           /\ \A i \in 1 .. Len(a.blocks) : b.blocks[i] = a.blocks[i]
  <1> DEFINE b == Room(a, size)
  <1>1. CASE Fits(a, size)
    <2>1. b = a
      BY <1>1 DEF Room
    <2>2. a.blocks # <<>> /\ Len(a.blocks) \in Nat /\ Len(a.blocks) # 0
      BY <1>1, ArenaFacts, EmptySeq DEF Fits
    <2>3. LastSize(a) \in Nat /\ a.next \in Nat /\ LastSize(a) - a.next >= size
      BY <1>1, <2>2, ArenaFacts DEF LastSize, Fits
    <2>4. a.next + size <= Len(a.blocks[Len(a.blocks)])
      BY <2>3 DEF LastSize
    <2>5. Grows(a, a)
      BY ArenaFacts DEF Grows
    <2> QED
      BY <2>1, <2>2, <2>4, <2>5
  <1>2. CASE ~Fits(a, size)
    <2>1. PICK grown \in Nat : b = [blocks |-> Append(a.blocks, Zeros(Larger(size, grown))), next |-> 0]
      <3> DEFINE g == IF a.blocks = <<>> THEN FirstBlock ELSE Smaller(2 * LastSize(a), LastBlock)
      <3>1. a.blocks # <<>> => LastSize(a) \in Nat
        BY ArenaFacts, EmptySeq DEF LastSize
      <3>2. g \in Nat
        BY <3>1, SinkAssumption DEF Smaller
      <3> QED
        BY <1>2, <3>2 DEF Room
    <2>2. PICK n \in Nat : n = Larger(size, grown) /\ n >= size
      BY DEF Larger
    <2>3. Zeros(n) \in Seq(Nat) /\ Len(Zeros(n)) = n
      BY DEF Zeros
    <2>4. /\ Append(a.blocks, Zeros(n)) \in Seq(Seq(Nat))
          /\ Len(Append(a.blocks, Zeros(n))) = Len(a.blocks) + 1
          /\ Append(a.blocks, Zeros(n))[Len(a.blocks) + 1] = Zeros(n)
          /\ \A i \in 1 .. Len(a.blocks) : Append(a.blocks, Zeros(n))[i] = a.blocks[i]
      BY <2>3, ArenaFacts, AppendProperties
    <2>5. b = [blocks |-> Append(a.blocks, Zeros(n)), next |-> 0]
      BY <2>1, <2>2
    <2> HIDE DEF b
    <2>6. ArenaOK(b)
      BY <2>3, <2>4, <2>5, ArenaFacts DEF ArenaOK, LastSize
    <2>7. Grows(a, b)
      <3>1. DOMAIN a.blocks = 1 .. Len(a.blocks) /\ Len(a.blocks) \in Nat
        BY ArenaFacts
      <3>2. /\ Len(b.blocks) = Len(a.blocks) + 1
            /\ \A i \in 1 .. Len(a.blocks) : b.blocks[i] = a.blocks[i]
        BY <2>4, <2>5
      <3>3. Len(a.blocks) <= Len(b.blocks) /\ Len(a.blocks) # Len(b.blocks)
        BY <3>1, <3>2
      <3> QED
        BY <3>1, <3>2, <3>3 DEF Grows
    <2> QED
      <3>1. Len(b.blocks) = Len(a.blocks) + 1 /\ b.next = 0 /\ b.blocks[Len(a.blocks) + 1] = Zeros(n)
        BY <2>4, <2>5
      <3>2. Len(b.blocks) > 0 /\ b.next + size <= Len(b.blocks[Len(b.blocks)])
        BY <2>2, <2>3, <3>1, ArenaFacts
      <3> QED
        BY <2>4, <2>5, <2>6, <2>7, <3>2 DEF b
  <1> QED
    BY <1>1, <1>2

\* A new slice lies behind everything given out before.
LEMMA AllocFacts ==
    ASSUME SinkAssumption, NEW a, ArenaOK(a), NEW size \in Nat \ {0}
    PROVE  LET r == Alloc(a, size) IN
           /\ ArenaOK(r.arena) /\ Grows(a, r.arena)
           /\ r.slice \in Slices /\ r.slice.len = 0 /\ r.slice.cap = size
           /\ Inside(r.arena, r.slice)
           /\ Spares(a, r.arena, NilSlice, r.slice)
  <1> DEFINE b == Room(a, size)
             r == Alloc(a, size)
  <1>1. /\ ArenaOK(b) /\ Grows(a, b)
        /\ Len(b.blocks) > 0 /\ b.next + size <= Len(b.blocks[Len(b.blocks)])
        /\ \A i \in 1 .. Len(a.blocks) : b.blocks[i] = a.blocks[i]
    BY RoomFacts
  <1>2. r = [arena |-> [b EXCEPT !.next = @ + size],
             slice |-> Slice(Len(b.blocks), b.next, 0, size)]
    BY DEF Alloc, Allocated, Slice
  <1> HIDE DEF b
  <1>3. /\ r.arena.blocks = b.blocks /\ r.arena.next = b.next + size
        /\ r.arena \in [blocks : Seq(Seq(Nat)), next : Nat]
    <2>1. b \in [blocks : Seq(Seq(Nat)), next : Nat]
      BY <1>1 DEF ArenaOK
    <2>2. r.arena = [b EXCEPT !.next = @ + size]
      BY <1>2
    <2>3. b.next \in Nat /\ b.next + size \in Nat
      BY <1>1, ArenaFacts
    <2> HIDE DEF r
    <2> QED
      BY <2>1, <2>2, <2>3
  <1>4. r.slice = Slice(Len(b.blocks), b.next, 0, size)
    BY <1>2
  <1> HIDE DEF r
  <1>5. /\ Len(b.blocks) \in Nat \ {0} /\ b.next \in Nat /\ size \in Nat \ {0}
        /\ Len(b.blocks[Len(b.blocks)]) \in Nat /\ Len(a.blocks) \in Nat /\ a.next \in Nat
        /\ b.blocks # <<>>
    BY <1>1, ArenaFacts, EmptySeq
  <1>6. ArenaOK(r.arena)
    BY <1>1, <1>3, <1>5 DEF ArenaOK, LastSize
  <1>7. Grows(a, r.arena)
    BY <1>1, <1>3, <1>5 DEF Grows
  <1>8. r.slice \in Slices /\ r.slice.len = 0 /\ r.slice.cap = size
    BY <1>4, <1>5 DEF Slices, Slice
  <1>9. Inside(r.arena, r.slice)
    BY <1>1, <1>3, <1>4, <1>5 DEF Inside, Before, Slice
  <1>10. ASSUME NEW t \in Slices, Inside(a, t)
         PROVE  Inside(r.arena, t) /\ Items(r.arena, t) = Items(a, t) /\ Apart(r.slice, t)
    <2>1. t.block \in Nat /\ t.at \in Nat /\ t.len \in Nat /\ t.cap \in Nat /\ t.len <= t.cap
      BY <1>10 DEF Slices, Inside
    <2>2. CASE t.cap = 0
      <3>1. t.len = 0
        BY <2>1, <2>2
      <3> QED
        BY <2>1, <2>2, <3>1 DEF Inside, Before, Items, Apart
    <2>3. CASE t.cap > 0
      <3>1. /\ t.block \in 1 .. Len(a.blocks)
            /\ t.at + t.cap <= Len(a.blocks[t.block])
            /\ t.block < Len(a.blocks) \/ (t.block = Len(a.blocks) /\ t.at + t.cap <= a.next)
        BY <1>10, <2>3 DEF Inside, Before
      <3>2. /\ Len(a.blocks) <= Len(b.blocks)
            /\ Len(a.blocks) = Len(b.blocks) => a.next <= b.next
        BY <1>1 DEF Grows
      <3>3. r.arena.blocks[t.block] = a.blocks[t.block]
        BY <1>1, <1>3, <3>1
      <3>4. Inside(r.arena, t)
        <4>1. t.block \in 1 .. Len(b.blocks)
          BY <1>5, <3>1, <3>2
        <4>2. t.block < Len(b.blocks) \/ (t.block = Len(b.blocks) /\ t.at + t.cap <= b.next + size)
          BY <1>5, <2>1, <3>1, <3>2
        <4> QED
          BY <1>3, <2>1, <3>1, <3>3, <4>1, <4>2 DEF Inside, Before
      <3>5. Items(r.arena, t) = Items(a, t)
        BY <3>3 DEF Items
      <3>6. Apart(r.slice, t)
        BY <1>4, <1>5, <2>1, <3>1, <3>2 DEF Apart, Slice
      <3> QED
        BY <3>4, <3>5, <3>6
    <2> QED
      BY <2>1, <2>2, <2>3
  <1>11. Spares(a, r.arena, NilSlice, r.slice)
    BY <1>10 DEF Spares
  <1> QED
    BY <1>6, <1>7, <1>8, <1>9, <1>11 DEF r

\* One sequence behind another, element by element.
LEMMA JoinFacts ==
    ASSUME NEW s \in Seq(Nat), NEW t \in Seq(Nat)
    PROVE  /\ s \o t \in Seq(Nat) /\ Len(s \o t) = Len(s) + Len(t)
           /\ \A i \in 1 .. Len(s) + Len(t) :
                 (s \o t)[i] = IF i <= Len(s) THEN s[i] ELSE t[i - Len(s)]
  BY ConcatProperties

\* A block with items written over the cells behind "at".
Written(c, at, items) == SubSeq(c, 1, at) \o items \o SubSeq(c, at + Len(items) + 1, Len(c))

\* Items written over a stretch of a block leave the rest of it as it is.
LEMMA WriteFacts ==
    ASSUME NEW c \in Seq(Nat), NEW items \in Seq(Nat), NEW at \in Nat, at + Len(items) <= Len(c)
    PROVE  /\ Written(c, at, items) \in Seq(Nat) /\ Len(Written(c, at, items)) = Len(c)
           /\ \A i \in 1 .. Len(items) : Written(c, at, items)[at + i] = items[i]
           /\ \A i \in 1 .. Len(c) :
                 i <= at \/ i > at + Len(items) => Written(c, at, items)[i] = c[i]
  <1>1. /\ Len(c) \in Nat /\ Len(items) \in Nat
        /\ \A i \in 1 .. Len(c) : c[i] \in Nat
        /\ \A i \in 1 .. Len(items) : items[i] \in Nat
    BY LenProperties, ElementOfSeq
  <1>2. PICK n \in Nat, m \in Nat : n = Len(items) /\ m = Len(c) - at - n
    <2>1. Len(items) \in Nat /\ Len(c) - at - Len(items) \in Nat
      BY <1>1
    <2> QED
      BY <2>1
  <1>3. PICK p \in Seq(Nat) :
            /\ p = SubSeq(c, 1, at) /\ Len(p) = at
            /\ \A i \in 1 .. at : p[i] = c[i]
    <2>1. 0 + at <= Len(c) /\ 0 \in Nat
      BY <1>1
    <2>2. /\ SubSeq(c, 0 + 1, 0 + at) \in Seq(Nat) /\ Len(SubSeq(c, 0 + 1, 0 + at)) = at
          /\ \A i \in 1 .. at : SubSeq(c, 0 + 1, 0 + at)[i] = c[0 + i]
      BY <2>1, StretchFacts
    <2>3. 0 + 1 = 1 /\ 0 + at = at /\ \A i \in 1 .. at : 0 + i = i
      OBVIOUS
    <2> QED
      BY <2>2, <2>3
  <1>4. PICK q \in Seq(Nat) :
            /\ q = SubSeq(c, at + n + 1, Len(c)) /\ Len(q) = m
            /\ \A i \in 1 .. m : q[i] = c[at + n + i]
    <2>1. PICK x \in Nat : x = at + n /\ x + m = Len(c) /\ x + m <= Len(c)
      <3>1. at + n \in Nat /\ (at + n) + m = Len(c) /\ (at + n) + m <= Len(c)
        BY <1>1, <1>2
      <3> QED
        BY <3>1
    <2>2. /\ SubSeq(c, x + 1, x + m) \in Seq(Nat) /\ Len(SubSeq(c, x + 1, x + m)) = m
          /\ \A i \in 1 .. m : SubSeq(c, x + 1, x + m)[i] = c[x + i]
      <3>1. x + m <= Len(c) /\ x \in Nat /\ m \in Nat
        BY <1>2, <2>1
      <3>2. SubSeq(c, x + 1, x + m) \in Seq(Nat)
        BY <3>1, StretchFacts
      <3>3. Len(SubSeq(c, x + 1, x + m)) = m
        BY <3>1, StretchFacts
      <3>4. \A i \in 1 .. m : SubSeq(c, x + 1, x + m)[i] = c[x + i]
        BY <3>1, StretchFacts
      <3> QED
        BY <3>2, <3>3, <3>4
    <2> QED
      BY <2>1, <2>2
  <1>5. PICK e \in Seq(Nat) : e = p \o items
    BY JoinFacts
  <1>6. /\ Len(e) = at + n
        /\ \A i \in 1 .. at + n : e[i] = IF i <= at THEN p[i] ELSE items[i - at]
    <2>1. /\ Len(e) = Len(p) + Len(items)
          /\ \A i \in 1 .. Len(p) + Len(items) :
                e[i] = IF i <= Len(p) THEN p[i] ELSE items[i - Len(p)]
      BY <1>5, JoinFacts
    <2> QED
      BY <1>2, <1>3, <2>1
  <1>7. PICK d \in Seq(Nat) : d = e \o q
    BY JoinFacts
  <1>8. /\ Len(d) = at + n + m
        /\ \A i \in 1 .. at + n + m : d[i] = IF i <= at + n THEN e[i] ELSE q[i - (at + n)]
    <2>1. /\ Len(d) = Len(e) + Len(q)
          /\ \A i \in 1 .. Len(e) + Len(q) :
                d[i] = IF i <= Len(e) THEN e[i] ELSE q[i - Len(e)]
      BY <1>7, JoinFacts
    <2> QED
      BY <1>4, <1>6, <2>1
  <1>9. d = Written(c, at, items)
    BY <1>2, <1>3, <1>4, <1>5, <1>7 DEF Written
  <1>10. Len(d) = Len(c)
    BY <1>1, <1>2, <1>8
  <1>11. ASSUME NEW i \in 1 .. Len(items)
         PROVE  d[at + i] = items[i]
    <2>1. at + i \in 1 .. at + n /\ at + i \in 1 .. at + n + m /\ ~(at + i <= at)
      BY <1>2, <1>11
    <2>2. d[at + i] = e[at + i]
      <3>1. PICK k \in 1 .. at + n + m : k = at + i /\ k <= at + n
        BY <2>1
      <3>2. d[k] = e[k]
        BY <1>8, <3>1
      <3> QED
        BY <3>1, <3>2
    <2>3. e[at + i] = items[(at + i) - at]
      BY <1>6, <2>1
    <2>4. i \in Nat /\ (at + i) - at = i
      BY <1>1, <1>11
    <2> QED
      BY <2>2, <2>3, <2>4
  <1>12. ASSUME NEW i \in 1 .. Len(c), i <= at
         PROVE  d[i] = c[i]
    <2>1. i \in 1 .. at /\ i \in 1 .. at + n /\ i \in 1 .. at + n + m /\ i <= at + n
      BY <1>1, <1>2, <1>12
    <2> QED
      BY <1>3, <1>6, <1>8, <1>12, <2>1
  <1>13. ASSUME NEW i \in 1 .. Len(c), i > at + Len(items)
         PROVE  d[i] = c[i]
    <2>1. i \in 1 .. at + n + m /\ ~(i <= at + n) /\ i - (at + n) \in 1 .. m
      BY <1>1, <1>2, <1>13
    <2>2. at + n + (i - (at + n)) = i
      BY <1>1, <1>13
    <2> QED
      BY <1>4, <1>8, <2>1, <2>2
  <1> QED
    BY <1>9, <1>10, <1>11, <1>12, <1>13

\* Filling a slice writes in its own cells only.
LEMMA FilledFacts ==
    ASSUME NEW a, ArenaOK(a), NEW s \in Slices, Inside(a, s),
           NEW items \in Seq(Nat), Len(items) > 0, Len(items) <= s.cap
    PROVE  LET r == Filled([arena |-> a, slice |-> s], items) IN
           /\ ArenaOK(r.arena) /\ Grows(a, r.arena)
           /\ r.slice \in Slices /\ r.slice.len = Len(items) /\ r.slice.cap = s.cap
           /\ Inside(r.arena, r.slice)
           /\ Items(r.arena, r.slice) = items
           /\ Spares(a, r.arena, s, r.slice)
  <1> DEFINE r == Filled([arena |-> a, slice |-> s], items)
  <1>1. /\ s.block \in Nat /\ s.at \in Nat /\ s.len \in Nat /\ s.cap \in Nat
        /\ Len(items) \in Nat
    BY LenProperties DEF Slices
  <1>2. /\ s.cap > 0 /\ s.block \in 1 .. Len(a.blocks) /\ s.at + s.cap <= Len(a.blocks[s.block])
        /\ s.block < Len(a.blocks) \/ (s.block = Len(a.blocks) /\ s.at + s.cap <= a.next)
    BY <1>1 DEF Inside, Before
  <1>3. PICK c \in Seq(Nat) : c = a.blocks[s.block] /\ Len(c) \in Nat
    BY <1>2, ArenaFacts
  <1>4. s.at + Len(items) <= Len(c)
    <2>1. s.at + s.cap <= Len(c) /\ Len(c) \in Nat
      BY <1>2, <1>3
    <2> QED
      BY <1>1, <2>1
  <1>5. PICK d \in Seq(Nat) :
            /\ d = Written(c, s.at, items)
            /\ Len(d) = Len(c)
            /\ \A i \in 1 .. Len(items) : d[s.at + i] = items[i]
            /\ \A i \in 1 .. Len(c) : i <= s.at \/ i > s.at + Len(items) => d[i] = c[i]
    <2>1. PICK at \in Nat : at = s.at /\ at + Len(items) <= Len(c)
      BY <1>1, <1>4
    <2>2. /\ Written(c, at, items) \in Seq(Nat) /\ Len(Written(c, at, items)) = Len(c)
          /\ \A i \in 1 .. Len(items) : Written(c, at, items)[at + i] = items[i]
          /\ \A i \in 1 .. Len(c) :
                i <= at \/ i > at + Len(items) => Written(c, at, items)[i] = c[i]
      BY <2>1, WriteFacts
    <2> QED
      BY <2>1, <2>2
  <1>6. /\ r.arena = [a EXCEPT !.blocks[s.block] = d]
        /\ r.slice = [s EXCEPT !.len = Len(items)]
    BY <1>3, <1>5 DEF Filled, Written
  <1> HIDE DEF r
  <1>7. /\ a.blocks \in Seq(Seq(Nat)) /\ a.next \in Nat /\ a \in [blocks : Seq(Seq(Nat)), next : Nat]
        /\ Len(a.blocks) \in Nat /\ DOMAIN a.blocks = 1 .. Len(a.blocks)
        /\ \A i \in 1 .. Len(a.blocks) : a.blocks[i] \in Seq(Nat) /\ Len(a.blocks[i]) \in Nat
    BY ArenaFacts DEF ArenaOK
  <1>8. /\ r.arena \in [blocks : Seq(Seq(Nat)), next : Nat]
        /\ r.arena.next = a.next
        /\ Len(r.arena.blocks) = Len(a.blocks)
        /\ r.arena.blocks[s.block] = d
        /\ \A i \in 1 .. Len(a.blocks) : i # s.block => r.arena.blocks[i] = a.blocks[i]
    <2>1. PICK e : e = [a.blocks EXCEPT ![s.block] = d]
      OBVIOUS
    <2>2. /\ e \in Seq(Seq(Nat)) /\ Len(e) = Len(a.blocks) /\ e[s.block] = d
          /\ \A i \in 1 .. Len(a.blocks) : i # s.block => e[i] = a.blocks[i]
      BY <1>2, <1>7, <2>1, ExceptSeq
    <2>3. r.arena.blocks = e /\ r.arena.next = a.next /\ r.arena \in [blocks : Seq(Seq(Nat)), next : Nat]
      BY <1>6, <1>7, <2>1, <2>2
    <2> QED
      BY <2>2, <2>3
  <1>9. \A i \in 1 .. Len(a.blocks) : Len(r.arena.blocks[i]) = Len(a.blocks[i])
    BY <1>3, <1>5, <1>8
  <1>10. ArenaOK(r.arena)
    <2>0. Len(a.blocks) # 0 /\ Len(r.arena.blocks) # 0 /\ r.arena.blocks \in Seq(Seq(Nat))
      BY <1>2, <1>7, <1>8
    <2>1. r.arena.blocks # <<>> /\ a.blocks # <<>> /\ Len(a.blocks) \in 1 .. Len(a.blocks)
      BY <1>7, <2>0, EmptySeq
    <2>2. LastSize(r.arena) = LastSize(a)
      <3>1. PICK k \in 1 .. Len(a.blocks) : k = Len(a.blocks) /\ Len(r.arena.blocks) = k
        BY <1>8, <2>1
      <3>2. Len(r.arena.blocks[k]) = Len(a.blocks[k])
        BY <1>9, <3>1
      <3> QED
        BY <3>1, <3>2 DEF LastSize
    <2>3. r.arena.next <= LastSize(r.arena)
      BY <1>8, <2>1, <2>2 DEF ArenaOK
    <2> QED
      BY <1>8, <2>1, <2>3 DEF ArenaOK
  <1>11. Grows(a, r.arena)
    <2>1. Len(a.blocks) <= Len(r.arena.blocks) /\ a.next <= r.arena.next
      BY <1>7, <1>8
    <2> QED
      BY <1>7, <1>9, <2>1 DEF Grows
  <1>12. /\ r.slice \in Slices /\ r.slice.len = Len(items) /\ r.slice.cap = s.cap
         /\ r.slice.block = s.block /\ r.slice.at = s.at
    BY <1>1, <1>6 DEF Slices
  <1>13. Inside(r.arena, r.slice)
    BY <1>1, <1>2, <1>8, <1>9, <1>12 DEF Inside, Before
  <1>14. Items(r.arena, r.slice) = items
    <2>1. /\ Items(r.arena, r.slice) \in Seq(Nat)
          /\ Len(Items(r.arena, r.slice)) = Len(items)
          /\ \A i \in 1 .. Len(items) : Items(r.arena, r.slice)[i] = d[s.at + i]
      <3>1. PICK b : b = r.arena /\ ArenaOK(b)
        BY <1>10
      <3>2. PICK u \in Slices : u = r.slice /\ Inside(b, u)
        BY <1>12, <1>13, <3>1
      <3>3. /\ Items(b, u) \in Seq(Nat) /\ Len(Items(b, u)) = u.len
            /\ \A i \in 1 .. u.len : Items(b, u)[i] = b.blocks[u.block][u.at + i]
        BY <3>1, <3>2, ItemsAreCells
      <3> QED
        BY <1>8, <1>12, <3>1, <3>2, <3>3
    <2> QED
      BY <1>5, <2>1, SeqEqual
  <1>15. ASSUME NEW t \in Slices, Inside(a, t), Apart(s, t)
         PROVE  Inside(r.arena, t) /\ Items(r.arena, t) = Items(a, t) /\ Apart(r.slice, t)
    <2>1. t.block \in Nat /\ t.at \in Nat /\ t.len \in Nat /\ t.cap \in Nat /\ t.len <= t.cap
      BY <1>15 DEF Slices, Inside
    <2>2. Apart(r.slice, t)
      BY <1>12, <1>15 DEF Apart
    <2>3. Inside(r.arena, t)
      BY <1>8, <1>9, <1>15 DEF Inside
    <2>4. ASSUME NEW i \in 1 .. t.len
          PROVE  r.arena.blocks[t.block][t.at + i] = a.blocks[t.block][t.at + i]
      <3>1. t.block \in 1 .. Len(a.blocks) /\ t.at + t.cap <= Len(a.blocks[t.block]) /\ t.cap > 0
        BY <1>15, <2>1 DEF Inside
      <3>2. CASE t.block # s.block
        BY <1>8, <3>1, <3>2
      <3>3. CASE t.block = s.block
        <4>1. s.at + s.cap <= t.at \/ t.at + t.cap <= s.at
          BY <1>2, <1>15, <3>1, <3>3 DEF Apart
        <4>0. i \in Nat /\ 1 <= i /\ i <= t.cap
          BY <2>1, <2>4
        <4>5. Len(c) \in Nat /\ t.at + t.cap <= Len(c)
          BY <1>3, <3>1, <3>3
        <4>2. t.at + i \in 1 .. Len(c)
          <5>1. t.at \in Nat /\ i \in Nat /\ 1 <= i /\ i <= t.cap /\ t.cap \in Nat
            BY <2>1, <4>0
          <5>2. t.at + i \in Nat /\ 1 <= t.at + i
            BY <5>1
          <5>3. t.at + i <= t.at + t.cap /\ t.at + t.cap \in Nat
            BY <5>1
          <5>4. t.at + i <= Len(c)
            BY <4>5, <5>2, <5>3
          <5> QED
            BY <4>5, <5>2, <5>4
        <4>3. t.at + i <= s.at \/ t.at + i > s.at + Len(items)
          <5>1. t.at \in Nat /\ i \in Nat /\ 1 <= i /\ i <= t.cap /\ t.cap \in Nat
            BY <2>1, <4>0
          <5>2. s.at \in Nat /\ s.cap \in Nat /\ Len(items) \in Nat /\ Len(items) <= s.cap
            BY <1>1
          <5>3. CASE s.at + s.cap <= t.at
            <6>1. s.at + Len(items) <= t.at
              BY <5>1, <5>2, <5>3
            <6> QED
              BY <5>1, <5>2, <6>1
          <5>4. CASE t.at + t.cap <= s.at
            BY <5>1, <5>2, <5>4
          <5> QED
            BY <4>1, <5>3, <5>4
        <4>4. d[t.at + i] = c[t.at + i]
          BY <1>5, <4>2, <4>3
        <4> QED
          BY <1>3, <1>8, <3>3, <4>4
      <3> QED
        BY <3>2, <3>3
    <2>5. Items(r.arena, t) = Items(a, t)
      BY <1>10, <1>15, <2>3, <2>4, SameItems
    <2> QED
      BY <2>2, <2>3, <2>5
  <1>16. Spares(a, r.arena, s, r.slice)
    BY <1>15 DEF Spares
  <1> QED
    BY <1>10, <1>11, <1>12, <1>13, <1>14, <1>16 DEF r

\* Nothing is held in the nil slice, so whoever held it holds anything anew.
LEMMA SparesNil ==
    ASSUME NEW a, NEW b, NEW old, NEW new, Spares(a, b, NilSlice, new)
    PROVE  Spares(a, b, old, new)
  BY DEF Spares, Apart, NilSlice

\* A new slice that is filled at once.
LEMMA FilledAnew ==
    ASSUME SinkAssumption, NEW a, ArenaOK(a), NEW size \in Nat \ {0},
           NEW items \in Seq(Nat), Len(items) > 0, Len(items) <= size
    PROVE  LET r == Filled(Alloc(a, size), items) IN
           /\ ArenaOK(r.arena) /\ Grows(a, r.arena)
           /\ r.slice \in Slices /\ r.slice.len = Len(items) /\ r.slice.cap = size
           /\ Inside(r.arena, r.slice)
           /\ Items(r.arena, r.slice) = items
           /\ Spares(a, r.arena, NilSlice, r.slice)
  <1> DEFINE r == Filled(Alloc(a, size), items)
  <1>0. PICK q : q = Alloc(a, size)
    OBVIOUS
  <1>7. PICK b, s : q = [arena |-> b, slice |-> s] /\ b = q.arena /\ s = q.slice
    BY <1>0 DEF Alloc, Allocated
  <1>8. /\ ArenaOK(q.arena) /\ Grows(a, q.arena)
        /\ q.slice \in Slices /\ q.slice.len = 0 /\ q.slice.cap = size
        /\ Inside(q.arena, q.slice) /\ Spares(a, q.arena, NilSlice, q.slice)
    BY <1>0, AllocFacts
  <1>1. Alloc(a, size) = [arena |-> b, slice |-> s]
    BY <1>0, <1>7
  <1>2. /\ ArenaOK(b) /\ Grows(a, b)
        /\ s \in Slices /\ s.len = 0 /\ s.cap = size /\ Inside(b, s)
        /\ Spares(a, b, NilSlice, s)
    BY <1>7, <1>8
  <1>3. r = Filled([arena |-> b, slice |-> s], items)
    BY <1>1
  <1>4. /\ ArenaOK(r.arena) /\ Grows(b, r.arena)
        /\ r.slice \in Slices /\ r.slice.len = Len(items) /\ r.slice.cap = s.cap
        /\ Inside(r.arena, r.slice)
        /\ Items(r.arena, r.slice) = items
        /\ Spares(b, r.arena, s, r.slice)
    BY <1>2, <1>3, FilledFacts
  <1> HIDE DEF r
  <1>5. Grows(a, r.arena)
    BY <1>2, <1>4, GrowsOn
  <1>6. Spares(a, r.arena, NilSlice, r.slice)
    BY <1>2, <1>4, SparesOn
  <1> QED
    BY <1>2, <1>4, <1>5, <1>6 DEF r

\* Appending, in place or in a new slice, adds one item and spares the others.
LEMMA AppendedFacts ==
    ASSUME SinkAssumption, NEW a, ArenaOK(a), NEW s \in Slices, Inside(a, s), NEW item \in Nat
    PROVE  LET r == Appended(a, s, item) IN
           /\ ArenaOK(r.arena) /\ Grows(a, r.arena)
           /\ r.slice \in Slices
           /\ Inside(r.arena, r.slice)
           /\ Items(r.arena, r.slice) = Append(Items(a, s), item)
           /\ Spares(a, r.arena, s, r.slice)
  <1> DEFINE r == Appended(a, s, item)
  <1>1. PICK all \in Seq(Nat) : all = Append(Items(a, s), item) /\ Len(all) = s.len + 1
    <2>1. PICK before \in Seq(Nat) : before = Items(a, s) /\ Len(before) = s.len
      BY ItemsAreCells
    <2>2. Append(before, item) \in Seq(Nat) /\ Len(Append(before, item)) = Len(before) + 1
      BY AppendProperties
    <2> QED
      BY <2>1, <2>2
  <1>2. s.len \in Nat /\ s.cap \in Nat /\ s.len <= s.cap
    BY DEF Slices, Inside
  <1>3. CASE s.len < s.cap
    <2>1. r = Filled([arena |-> a, slice |-> s], all)
      BY <1>1, <1>3 DEF Appended
    <2>2. Len(all) > 0 /\ Len(all) <= s.cap
      BY <1>1, <1>2, <1>3
    <2> HIDE DEF r
    <2>3. /\ ArenaOK(r.arena) /\ Grows(a, r.arena)
          /\ r.slice \in Slices /\ Inside(r.arena, r.slice)
          /\ Items(r.arena, r.slice) = all
          /\ Spares(a, r.arena, s, r.slice)
      BY <2>1, <2>2, FilledFacts
    <2> QED
      BY <1>1, <2>3 DEF r
  <1>4. CASE ~(s.len < s.cap)
    <2>1. PICK size \in Nat \ {0} : size = Larger(SpillSize, 2 * s.cap) /\ s.len + 1 <= size
      <3>1. SpillSize \in Nat /\ SpillSize > 0
        BY SinkAssumption
      <3>2. s.cap = 0 \/ s.cap + 1 <= 2 * s.cap
        BY <1>2
      <3> QED
        BY <1>2, <1>4, <3>1, <3>2 DEF Larger
    <2>2. r = Filled(Alloc(a, size), all)
      BY <1>1, <1>4, <2>1 DEF Appended
    <2>3. Len(all) > 0 /\ Len(all) <= size
      BY <1>1, <1>2, <2>1
    <2> HIDE DEF r
    <2>4. /\ ArenaOK(r.arena) /\ Grows(a, r.arena)
          /\ r.slice \in Slices /\ Inside(r.arena, r.slice)
          /\ Items(r.arena, r.slice) = all
          /\ Spares(a, r.arena, NilSlice, r.slice)
      BY <2>2, <2>3, FilledAnew
    <2> QED
      BY <1>1, <2>4, SparesNil DEF r
  <1> QED
    BY <1>3, <1>4

---------------------------------------------------------------------------
(* The invariant. *)

Entries == [inline : [1 .. Inline -> Nat], count : Nat, spill : Nat]
MarkRecords == [nodes : Nat, data : Nat, spills : Nat, blocks : Nat, next : Nat, lists : Nat]

TypeOK ==
    /\ nodes \in Seq(Nat) /\ data \in Seq(Entries) /\ spills \in Seq(Slices)
    /\ blocks \in Seq(Seq(Nat)) /\ next \in Nat /\ ArenaOK(Arena)
    /\ lists \in Seq(Slices) /\ marks \in Seq(MarkRecords)

Spilled(n) == nodes[n] # 0 /\ data[nodes[n]].count > Inline
SpillOf(n) == data[nodes[n]].spill
NodeSlice(n) == IF Spilled(n) THEN spills[SpillOf(n)] ELSE NilSlice

\* Indices are in use, and each by one node.
IndicesOK ==
    /\ \A n \in NodeIds :
          /\ nodes[n] <= Len(data)
          /\ Spilled(n) => SpillOf(n) \in 1 .. Len(spills)
    /\ \A m, n \in NodeIds : m # n =>
          /\ nodes[m] # 0 => nodes[m] # nodes[n]
          /\ Spilled(m) /\ Spilled(n) => SpillOf(m) # SpillOf(n)

\* The slices in use: of node n, and of list i as number -i.
Holders == {h \in Int : h \in 1 .. Len(nodes) \/ -h \in 1 .. Len(lists)}
Held(h) == IF h > 0 THEN NodeSlice(h) ELSE lists[-h]

\* Every slice in use is one the arena gave out, and no two have a cell in common.
SlicesOK ==
    /\ \A h \in Holders : Held(h) \in Slices /\ Inside(Arena, Held(h))
    /\ \A g, h \in Holders : g # h => Apart(Held(g), Held(h))

\* The lengths at mark m are lengths that were there, when q was marked or now.
NotBeyond(m, q) ==
    /\ m.nodes <= q.nodes /\ m.data <= q.data /\ m.spills <= q.spills /\ m.lists <= q.lists
    /\ m.blocks <= q.blocks
    /\ m.blocks = q.blocks => m.next <= q.next

\* All that is older than a mark lies within the lengths of the mark.
MarksOK ==
    /\ \A k \in DOMAIN marks : LET m == marks[k] IN
          /\ NotBeyond(m, Lengths)
          /\ m.blocks = 0 => m.next = 0
          /\ m.blocks # 0 => m.next <= Len(blocks[m.blocks])
          /\ \A n \in 1 .. m.nodes :
                /\ nodes[n] <= m.data
                /\ Spilled(n) => SpillOf(n) <= m.spills
                /\ Before(NodeSlice(n), m.blocks, m.next)
          /\ \A i \in 1 .. m.lists : Before(lists[i], m.blocks, m.next)
    /\ \A j, k \in DOMAIN marks : j < k => NotBeyond(marks[j], marks[k])

\* None of these is inductive alone: that a slice is not written by another
\* holder needs SlicesOK, that two nodes never share an index IndicesOK, and
\* that a rewind leaves both as they are needs MarksOK.
SinkInv == TypeOK /\ IndicesOK /\ SlicesOK /\ MarksOK

---------------------------------------------------------------------------
(* What every step has to keep. *)

\* The types, spelled out.
LEMMA TypeFacts ==
    ASSUME TypeOK
    PROVE  /\ Len(nodes) \in Nat /\ DOMAIN nodes = 1 .. Len(nodes) /\ NodeIds = 1 .. Len(nodes)
           /\ Len(data) \in Nat /\ DOMAIN data = 1 .. Len(data)
           /\ Len(spills) \in Nat /\ DOMAIN spills = 1 .. Len(spills)
           /\ Len(lists) \in Nat /\ DOMAIN lists = 1 .. Len(lists)
           /\ Len(marks) \in Nat /\ DOMAIN marks = 1 .. Len(marks)
           /\ Len(blocks) \in Nat /\ DOMAIN blocks = 1 .. Len(blocks)
           /\ \A n \in 1 .. Len(nodes) : nodes[n] \in Nat
           /\ \A i \in 1 .. Len(data) : data[i] \in Entries
           /\ \A i \in 1 .. Len(spills) : spills[i] \in Slices
           /\ \A i \in 1 .. Len(lists) : lists[i] \in Slices
           /\ \A k \in 1 .. Len(marks) : marks[k] \in MarkRecords
  <1>1. /\ nodes \in Seq(Nat) /\ data \in Seq(Entries) /\ spills \in Seq(Slices)
        /\ blocks \in Seq(Seq(Nat)) /\ lists \in Seq(Slices) /\ marks \in Seq(MarkRecords)
    BY DEF TypeOK
  <1> QED
    BY <1>1, LenProperties, ElementOfSeq DEF NodeIds

\* An entry, spelled out.
LEMMA EntryFacts ==
    ASSUME NEW e \in Entries
    PROVE  /\ e.inline \in [1 .. Inline -> Nat] /\ e.count \in Nat /\ e.spill \in Nat
  BY DEF Entries

\* A mark, spelled out.
LEMMA MarkFacts ==
    ASSUME NEW m \in MarkRecords
    PROVE  /\ m.nodes \in Nat /\ m.data \in Nat /\ m.spills \in Nat
           /\ m.blocks \in Nat /\ m.next \in Nat /\ m.lists \in Nat
  BY DEF MarkRecords

\* What is in use is a slice.
LEMMA HeldFacts ==
    ASSUME TypeOK, IndicesOK
    PROVE  /\ NilSlice \in Slices
           /\ \A n \in NodeIds : NodeSlice(n) \in Slices
           /\ \A n \in NodeIds : n \in Holders /\ Held(n) = NodeSlice(n)
           /\ \A i \in DOMAIN lists : -i \in Holders /\ Held(-i) = lists[i] /\ lists[i] \in Slices
           /\ \A h \in Holders : \/ h \in NodeIds
                                 \/ -h \in DOMAIN lists /\ h = -(-h) /\ h < 0
  <1>1. NilSlice \in Slices
    BY DEF NilSlice, Slices
  <1>2. ASSUME NEW n \in NodeIds
        PROVE  NodeSlice(n) \in Slices
    BY <1>1, <1>2, TypeFacts DEF NodeSlice, IndicesOK
  <1>3. ASSUME NEW n \in NodeIds
        PROVE  n \in Holders /\ Held(n) = NodeSlice(n)
    BY <1>3, TypeFacts DEF Holders, Held
  <1>4. ASSUME NEW i \in DOMAIN lists
        PROVE  -i \in Holders /\ Held(-i) = lists[i] /\ lists[i] \in Slices
    <2>1. i \in Int /\ i > 0 /\ i \in 1 .. Len(lists)
      BY <1>4, TypeFacts
    <2>2. -i \in Int /\ ~(-i > 0) /\ -(-i) = i
      BY <2>1
    <2> QED
      BY <2>1, <2>2, TypeFacts DEF Holders, Held
  <1>5. ASSUME NEW h \in Holders
        PROVE  \/ h \in NodeIds
               \/ -h \in DOMAIN lists /\ h = -(-h) /\ h < 0
    <2>1. h \in Int /\ (h \in 1 .. Len(nodes) \/ -h \in 1 .. Len(lists))
      BY <1>5 DEF Holders
    <2> QED
      BY <2>1, TypeFacts
  <1> QED
    BY <1>1, <1>2, <1>3, <1>4, <1>5

\* Being apart is symmetric.
LEMMA ApartSymmetric ==
    ASSUME NEW s, NEW t, Apart(s, t)
    PROVE  Apart(t, s)
  BY DEF Apart

\* Where one holder's slice is replaced by one that spares the others, all are
\* still in order and the others hold what they held.
LEMMA SlicesStep ==
    ASSUME TypeOK, IndicesOK, SlicesOK, NEW x \in Int, NEW old, NEW new \in Slices,
           Inside(Arena', new), Spares(Arena, Arena', old, new),
           \A h \in Holders' : h # x => h \in Holders /\ Held(h)' = Held(h) /\ Apart(old, Held(h)),
           x \in Holders' => Held(x)' = new
    PROVE  /\ SlicesOK'
           /\ \A h \in Holders' : h # x => Items(Arena', Held(h)) = Items(Arena, Held(h))
  <1>1. ASSUME NEW h \in Holders', h # x
        PROVE  /\ Held(h)' = Held(h) /\ h \in Holders
               /\ Held(h) \in Slices /\ Inside(Arena', Held(h))
               /\ Items(Arena', Held(h)) = Items(Arena, Held(h))
               /\ Apart(new, Held(h)) /\ Apart(Held(h), new)
    <2>1. /\ h \in Holders /\ Held(h)' = Held(h) /\ Apart(old, Held(h))
          /\ Held(h) \in Slices /\ Inside(Arena, Held(h))
      BY <1>1 DEF SlicesOK
    <2>2. PICK t \in Slices : t = Held(h)
      BY <2>1
    <2>3. Inside(Arena', t) /\ Items(Arena', t) = Items(Arena, t) /\ Apart(new, t)
      BY <2>1, <2>2 DEF Spares
    <2> QED
      BY <2>1, <2>2, <2>3, ApartSymmetric
  <1>2. ASSUME NEW h \in Holders'
        PROVE  Held(h)' \in Slices /\ Inside(Arena', Held(h)')
    BY <1>1, <1>2
  <1>3. ASSUME NEW g \in Holders', NEW h \in Holders', g # h
        PROVE  Apart(Held(g)', Held(h)')
    <2>1. CASE g # x /\ h # x
      BY <1>1, <1>3, <2>1 DEF SlicesOK
    <2>2. CASE g = x \/ h = x
      BY <1>1, <1>3, <2>2
    <2> QED
      BY <2>1, <2>2
  <1>4. SlicesOK'
    BY <1>2, <1>3 DEF SlicesOK, Inside, Before, Apart
  <1> QED
    BY <1>1, <1>4

\* A step that keeps the marks and what is older than they are, and cuts
\* nothing back beyond them, keeps the order of the lengths.
LEMMA MarksStep ==
    ASSUME TypeOK, TypeOK', MarksOK, marks' = marks, Grows(Arena, Arena'),
           Len(nodes) <= Len(nodes'), Len(data) <= Len(data'), Len(spills) <= Len(spills'),
           \A k \in DOMAIN marks :
              /\ marks[k].lists <= Len(lists')
              /\ \A n \in 1 .. marks[k].nodes :
                    /\ nodes'[n] = nodes[n]
                    /\ Spilled(n)' <=> Spilled(n)
                    /\ Spilled(n) => SpillOf(n)' = SpillOf(n)
                    /\ NodeSlice(n)' = NodeSlice(n)
              /\ \A i \in 1 .. marks[k].lists : lists'[i] = lists[i]
    PROVE  MarksOK'
  <1>1. /\ Len(nodes) \in Nat /\ Len(data) \in Nat /\ Len(spills) \in Nat
        /\ Len(blocks) \in Nat /\ Len(lists) \in Nat /\ next \in Nat
        /\ Len(nodes') \in Nat /\ Len(data') \in Nat /\ Len(spills') \in Nat
        /\ Len(blocks') \in Nat /\ Len(lists') \in Nat /\ next' \in Nat
        /\ DOMAIN blocks = 1 .. Len(blocks)
    <2>1. next \in Nat /\ next' \in Nat
      BY DEF TypeOK
    <2>2. Len(nodes') \in Nat /\ Len(data') \in Nat /\ Len(spills') \in Nat /\ Len(blocks') \in Nat /\ Len(lists') \in Nat
      <3>1. TypeOK' => Len(nodes') \in Nat /\ Len(data') \in Nat /\ Len(spills') \in Nat /\ Len(blocks') \in Nat /\ Len(lists') \in Nat
        BY LenProperties DEF TypeOK
      <3> QED
        BY <3>1
    <2> QED
      BY <2>1, <2>2, TypeFacts
  <1>2. /\ Len(blocks) <= Len(blocks')
        /\ \A i \in 1 .. Len(blocks) : Len(blocks'[i]) = Len(blocks[i])
        /\ Len(blocks) = Len(blocks') => next <= next'
    BY <1>1 DEF Grows, Arena
  <1>3. ASSUME NEW k \in DOMAIN marks
        PROVE  LET m == marks[k] IN
               /\ NotBeyond(m, Lengths')
               /\ m.blocks = 0 => m.next = 0
               /\ m.blocks # 0 => m.next <= Len(blocks'[m.blocks])
               /\ \A n \in 1 .. m.nodes :
                     /\ nodes'[n] <= m.data
                     /\ Spilled(n)' => SpillOf(n)' <= m.spills
                     /\ Before(NodeSlice(n)', m.blocks, m.next)
               /\ \A i \in 1 .. m.lists : Before(lists'[i], m.blocks, m.next)
    <2>1. PICK m \in MarkRecords : m = marks[k]
      BY <1>3, TypeFacts
    <2>2. /\ m.nodes \in Nat /\ m.data \in Nat /\ m.spills \in Nat
          /\ m.blocks \in Nat /\ m.next \in Nat /\ m.lists \in Nat
      BY MarkFacts
    <2>3. /\ m.nodes <= Len(nodes) /\ m.data <= Len(data) /\ m.spills <= Len(spills)
          /\ m.blocks <= Len(blocks)
          /\ m.blocks = Len(blocks) => m.next <= next
          /\ m.blocks = 0 => m.next = 0
          /\ m.blocks # 0 => m.next <= Len(blocks[m.blocks])
      BY <1>3, <2>1 DEF MarksOK, NotBeyond, Lengths
    <2>4. /\ m.nodes <= Len(nodes') /\ m.data <= Len(data') /\ m.spills <= Len(spills')
          /\ m.lists <= Len(lists') /\ m.blocks <= Len(blocks')
      <3>1. m.lists <= Len(lists')
        BY <1>3, <2>1
      <3>2. m.nodes <= Len(nodes') /\ m.data <= Len(data') /\ m.spills <= Len(spills')
        <4>1. m.nodes <= Len(nodes')
          BY <1>1, <2>2, <2>3
        <4>2. m.data <= Len(data')
          BY <1>1, <2>2, <2>3
        <4>3. m.spills <= Len(spills')
          BY <1>1, <2>2, <2>3
        <4> QED
          BY <4>1, <4>2, <4>3
      <3>3. m.blocks <= Len(blocks')
        BY <1>1, <1>2, <2>2, <2>3
      <3> QED
        BY <3>1, <3>2, <3>3
    <2>5. m.blocks = Len(blocks') => m.next <= next'
      <3>1. m.blocks = Len(blocks') => m.blocks = Len(blocks) /\ Len(blocks) = Len(blocks')
        BY <1>1, <1>2, <2>2, <2>3
      <3> QED
        BY <1>1, <1>2, <2>2, <2>3, <3>1
    <2>6. NotBeyond(m, Lengths')
      BY <2>4, <2>5 DEF NotBeyond, Lengths
    <2>7. m.blocks # 0 => m.next <= Len(blocks'[m.blocks])
      <3>1. m.blocks # 0 => m.blocks \in 1 .. Len(blocks)
        BY <1>1, <2>2, <2>3
      <3> QED
        BY <1>2, <2>3, <3>1
    <2>8. \A n \in 1 .. m.nodes :
             /\ nodes'[n] <= m.data
             /\ Spilled(n)' => SpillOf(n)' <= m.spills
             /\ Before(NodeSlice(n)', m.blocks, m.next)
      BY <1>3, <2>1 DEF MarksOK
    <2>9. \A i \in 1 .. m.lists : Before(lists'[i], m.blocks, m.next)
      BY <1>3, <2>1 DEF MarksOK
    <2> QED
      BY <2>1, <2>3, <2>6, <2>7, <2>8, <2>9
  <1>4. \A j, k \in DOMAIN marks : j < k => NotBeyond(marks[j], marks[k])
    BY DEF MarksOK
  <1> QED
    BY <1>3, <1>4 DEF MarksOK, NotBeyond, Before

---------------------------------------------------------------------------
(* What the parser sees. *)

\* The first elements of a sequence.
LEMMA CutFacts ==
    ASSUME NEW S, NEW s \in Seq(S), NEW n \in Nat, n <= Len(s)
    PROVE  /\ Cut(s, n) \in Seq(S) /\ Len(Cut(s, n)) = n
           /\ \A i \in 1 .. n : Cut(s, n)[i] = s[i]
  <1>1. Len(s) \in Nat /\ \A i \in 1 .. Len(s) : s[i] \in S
    BY LenProperties, ElementOfSeq
  <1>2. \A i \in 1 .. n : s[i] \in S
    BY <1>1
  <1>3. /\ SubSeq(s, 1, n) \in Seq(S)
        /\ Len(SubSeq(s, 1, n)) = IF 1 <= n THEN n - 1 + 1 ELSE 0
        /\ \A i \in 1 .. n - 1 + 1 : SubSeq(s, 1, n)[i] = s[1 + i - 1]
    <2>1. 1 \in Int /\ n \in Int
      OBVIOUS
    <2> QED
      BY <1>2, <2>1, SubSeqProperties
  <1> QED
    BY <1>3 DEF Cut

\* Sequences that agree on their first elements have them in common.
LEMMA CutSame ==
    ASSUME NEW S, NEW s \in Seq(S), NEW t \in Seq(S), NEW n \in Nat, n <= Len(s), n <= Len(t),
           \A i \in 1 .. n : s[i] = t[i]
    PROVE  Cut(s, n) = Cut(t, n)
  <1>1. /\ Cut(s, n) \in Seq(S) /\ Len(Cut(s, n)) = n
        /\ \A i \in 1 .. n : Cut(s, n)[i] = s[i]
    BY CutFacts
  <1>2. /\ Cut(t, n) \in Seq(S) /\ Len(Cut(t, n)) = n
        /\ \A i \in 1 .. n : Cut(t, n)[i] = t[i]
    BY CutFacts
  <1>3. PICK c \in Seq(S), d \in Seq(S) : c = Cut(s, n) /\ d = Cut(t, n)
    BY <1>1, <1>2
  <1>4. Len(c) = Len(d) /\ \A i \in 1 .. Len(c) : c[i] = d[i]
    BY <1>1, <1>2, <1>3
  <1> QED
    BY <1>3, <1>4, SeqEqual

InlineItems(n) ==
    IF nodes[n] = 0 THEN <<>> ELSE Cut(data[nodes[n]].inline, data[nodes[n]].count)

\* The children of a node are in its slice, or inline.
LEMMA ChildItemsFacts ==
    ASSUME TypeOK, IndicesOK, SlicesOK, SinkAssumption, NEW n \in NodeIds
    PROVE  /\ Spilled(n) => ChildItems(n) = Items(Arena, NodeSlice(n))
           /\ ~Spilled(n) => ChildItems(n) = InlineItems(n)
           /\ ChildItems(n) \in Seq(Nat)
  <1>1. nodes[n] \in Nat /\ nodes[n] <= Len(data) /\ Len(data) \in Nat
    BY TypeFacts DEF IndicesOK
  <1>2. CASE nodes[n] = 0
    <2>1. ~Spilled(n) /\ ChildItems(n) = <<>> /\ InlineItems(n) = <<>>
      BY <1>2 DEF Spilled, ChildItems, InlineItems
    <2> QED
      BY <2>1
  <1>3. CASE nodes[n] # 0
    <2>1. PICK e \in Entries : e = data[nodes[n]]
      BY <1>1, <1>3, TypeFacts
    <2>2. e.inline \in [1 .. Inline -> Nat] /\ e.count \in Nat /\ Inline \in Nat
      BY EntryFacts, SinkAssumption
    <2>3. CASE e.count > Inline
      <3>1. Spilled(n) /\ NodeSlice(n) = spills[e.spill]
        BY <1>3, <2>1, <2>3 DEF Spilled, NodeSlice, SpillOf
      <3>2. ChildItems(n) = Items(Arena, NodeSlice(n))
        BY <1>3, <2>1, <2>2, <2>3, <3>1 DEF ChildItems
      <3>5. PICK a : a = Arena
        OBVIOUS
      <3>3. PICK s \in Slices : s = NodeSlice(n) /\ ArenaOK(a) /\ Inside(a, s)
        BY <3>5, HeldFacts DEF SlicesOK, TypeOK
      <3>4. Items(a, s) \in Seq(Nat)
        BY <3>3, ItemsAreCells
      <3> QED
        BY <3>1, <3>2, <3>3, <3>4, <3>5
    <2>4. CASE ~(e.count > Inline)
      <3>1. ~Spilled(n)
        BY <2>1, <2>4 DEF Spilled
      <3>2. e.count <= Inline
        BY <2>2, <2>4
      <3>3. ChildItems(n) = Cut(e.inline, e.count) /\ InlineItems(n) = Cut(e.inline, e.count)
        BY <1>3, <2>1, <3>2 DEF ChildItems, InlineItems
      <3>4. e.inline \in Seq(Nat) /\ Len(e.inline) = Inline
        BY <2>2
      <3>5. Cut(e.inline, e.count) \in Seq(Nat)
        BY <2>2, <3>2, <3>4, CutFacts
      <3> QED
        BY <3>1, <3>3, <3>5
    <2> QED
      BY <2>3, <2>4
  <1> QED
    BY <1>2, <1>3

Views == Seq(Seq(Nat))

\* The parser sees sequences of sequences of nodes.
LEMMA ViewFacts ==
    ASSUME TypeOK, IndicesOK, SlicesOK, SinkAssumption
    PROVE  /\ Forest \in Views /\ Len(Forest) = Len(nodes)
           /\ \A n \in NodeIds : Forest[n] = ChildItems(n)
           /\ ListItems \in Views /\ Len(ListItems) = Len(lists)
           /\ \A i \in DOMAIN lists : ListItems[i] = Items(Arena, lists[i])
  <1>1. Forest \in [1 .. Len(nodes) -> Seq(Nat)]
    BY ChildItemsFacts, TypeFacts DEF Forest
  <1>2. ASSUME NEW i \in DOMAIN lists
        PROVE  Items(Arena, lists[i]) \in Seq(Nat)
    <2>2. PICK a : a = Arena
      OBVIOUS
    <2>1. PICK s \in Slices : s = lists[i] /\ ArenaOK(a) /\ Inside(a, s)
      BY <1>2, <2>2, HeldFacts DEF SlicesOK, TypeOK
    <2> QED
      BY <2>1, <2>2, ItemsAreCells
  <1>3. ListItems \in [1 .. Len(lists) -> Seq(Nat)]
    BY <1>2, TypeFacts DEF ListItems
  <1>4. Len(nodes) \in Nat /\ Len(lists) \in Nat
    BY TypeFacts
  <1>5. Forest \in Views /\ Len(Forest) = Len(nodes)
    BY <1>1, <1>4 DEF Views
  <1>6. ListItems \in Views /\ Len(ListItems) = Len(lists)
    BY <1>3, <1>4 DEF Views
  <1> QED
    BY <1>5, <1>6 DEF Forest, ListItems

\* What was saved at a mark is within what there is.
LEMMA SavedFacts ==
    ASSUME TypeOK, IndicesOK, SlicesOK, MarksOK, SinkAssumption
    PROVE  /\ Saved \in Seq([children : Views, lists : Views]) /\ Len(Saved) = Len(marks)
           /\ \A k \in DOMAIN marks :
                 /\ marks[k].nodes \in Nat /\ marks[k].nodes <= Len(nodes)
                 /\ marks[k].lists \in Nat /\ marks[k].lists <= Len(lists)
                 /\ Saved[k] = [children |-> Cut(Forest, marks[k].nodes),
                                lists |-> Cut(ListItems, marks[k].lists)]
                 /\ Len(Saved[k].children) = marks[k].nodes
                 /\ Len(Saved[k].lists) = marks[k].lists
  <1>1. ASSUME NEW k \in DOMAIN marks
        PROVE  /\ marks[k].nodes \in Nat /\ marks[k].nodes <= Len(nodes)
               /\ marks[k].lists \in Nat /\ marks[k].lists <= Len(lists)
               /\ Cut(Forest, marks[k].nodes) \in Views /\ Len(Cut(Forest, marks[k].nodes)) = marks[k].nodes
               /\ Cut(ListItems, marks[k].lists) \in Views
               /\ Len(Cut(ListItems, marks[k].lists)) = marks[k].lists
    <2>1. PICK m \in MarkRecords : m = marks[k]
      BY <1>1, TypeFacts
    <2>2. m.nodes \in Nat /\ m.lists \in Nat
      BY MarkFacts
    <2>3. m.nodes <= Len(nodes) /\ m.lists <= Len(lists)
      BY <1>1, <2>1 DEF MarksOK, NotBeyond, Lengths
    <2>4. /\ Forest \in Seq(Seq(Nat)) /\ m.nodes <= Len(Forest)
          /\ ListItems \in Seq(Seq(Nat)) /\ m.lists <= Len(ListItems)
      BY <2>3, ViewFacts DEF Views
    <2>5. Cut(Forest, m.nodes) \in Seq(Seq(Nat)) /\ Len(Cut(Forest, m.nodes)) = m.nodes
      BY <2>2, <2>4, CutFacts
    <2>6. Cut(ListItems, m.lists) \in Seq(Seq(Nat)) /\ Len(Cut(ListItems, m.lists)) = m.lists
      BY <2>2, <2>4, CutFacts
    <2> QED
      BY <2>1, <2>2, <2>3, <2>5, <2>6 DEF Views
  <1>2. Saved \in [1 .. Len(marks) -> [children : Views, lists : Views]]
    BY <1>1, TypeFacts DEF Saved
  <1>3. Saved \in Seq([children : Views, lists : Views]) /\ Len(Saved) = Len(marks)
    <2>1. PICK k \in Nat : k = Len(marks)
      BY TypeFacts
    <2>2. PICK R : R = [children : Views, lists : Views]
      OBVIOUS
    <2>3. Saved \in [1 .. k -> R]
      BY <1>2, <2>1, <2>2
    <2>4. Saved \in Seq(R) /\ Len(Saved) = k
      BY <2>3
    <2> QED
      BY <2>1, <2>2, <2>4
  <1>4. \A k \in DOMAIN marks :
           Saved[k] = [children |-> Cut(Forest, marks[k].nodes),
                       lists |-> Cut(ListItems, marks[k].lists)]
    BY DEF Saved
  <1> QED
    BY <1>1, <1>3, <1>4

\* The same, as one fact about a state.
Seen ==
    /\ Forest \in Views /\ Len(Forest) = Len(nodes) /\ Len(nodes) \in Nat
    /\ \A n \in 1 .. Len(nodes) : Forest[n] = ChildItems(n)
    /\ ListItems \in Views /\ Len(ListItems) = Len(lists) /\ Len(lists) \in Nat
    /\ \A i \in 1 .. Len(lists) : ListItems[i] = Items(Arena, lists[i])
    /\ Saved \in Seq([children : Views, lists : Views]) /\ Len(Saved) = Len(marks)
    /\ \A k \in 1 .. Len(marks) :
          /\ marks[k].nodes \in Nat /\ marks[k].nodes <= Len(nodes)
          /\ marks[k].lists \in Nat /\ marks[k].lists <= Len(lists)
          /\ Saved[k] = [children |-> Cut(Forest, marks[k].nodes),
                         lists |-> Cut(ListItems, marks[k].lists)]

\* The invariant is what the view of a state rests on.
LEMMA SinkSeen == SinkInv => Seen
  <1> SUFFICES ASSUME SinkInv
               PROVE  Seen
    OBVIOUS
  <1>1. TypeOK /\ IndicesOK /\ SlicesOK /\ MarksOK /\ SinkAssumption
    BY SinkAssumption DEF SinkInv
  <1> QED
    BY <1>1, TypeFacts, ViewFacts, SavedFacts DEF Seen

\* The children of a node, in slices or inline, as one fact about a state.
ChildrenSeen ==
    \A n \in NodeIds : /\ Spilled(n) => ChildItems(n) = Items(Arena, NodeSlice(n))
                       /\ ~Spilled(n) => ChildItems(n) = InlineItems(n)

\* The invariant is what the children rest on.
LEMMA SinkChildren == SinkInv => ChildrenSeen
  BY ChildItemsFacts, SinkAssumption DEF SinkInv, ChildrenSeen

\* The same of the next state.
LEMMA ChildItemsNext ==
    ASSUME SinkInv', NEW n \in NodeIds'
    PROVE  /\ Spilled(n)' => ChildItems(n)' = Items(Arena', NodeSlice(n)')
           /\ ~Spilled(n)' => ChildItems(n)' = InlineItems(n)'
  <1>1. SinkInv' => ChildrenSeen'
    BY SinkChildren, PTL
  <1> QED
    BY <1>1 DEF ChildrenSeen, Items

\* The same of the next state.
LEMMA SeenNext == SinkInv' => Seen'
  BY SinkSeen, PTL

\* A step that changes nothing older than a mark changes nothing saved.
LEMMA SavedStep ==
    ASSUME SinkInv, SinkInv', marks' = marks,
           \A k \in DOMAIN marks :
              /\ marks[k].nodes <= Len(nodes') /\ marks[k].lists <= Len(lists')
              /\ \A n \in 1 .. marks[k].nodes : ChildItems(n)' = ChildItems(n)
              /\ \A i \in 1 .. marks[k].lists :
                    Items(Arena', lists'[i]) = Items(Arena, lists[i])
    PROVE  Saved' = Saved
  <1>1. Seen /\ Seen' /\ DOMAIN marks = 1 .. Len(marks)
    BY SinkSeen, SeenNext, TypeFacts DEF SinkInv
  <1>2. ASSUME NEW k \in DOMAIN marks
        PROVE  /\ Cut(Forest', marks[k].nodes) = Cut(Forest, marks[k].nodes)
               /\ Cut(ListItems', marks[k].lists) = Cut(ListItems, marks[k].lists)
    <2>1. PICK n \in Nat, i \in Nat : n = marks[k].nodes /\ i = marks[k].lists
      BY <1>1, <1>2 DEF Seen
    <2>2. n <= Len(nodes) /\ i <= Len(lists) /\ n <= Len(nodes') /\ i <= Len(lists')
      BY <1>1, <1>2, <2>1 DEF Seen
    <2>7. /\ Forest \in Seq(Seq(Nat)) /\ Forest' \in Seq(Seq(Nat))
          /\ n <= Len(Forest) /\ n <= Len(Forest')
          /\ ListItems \in Seq(Seq(Nat)) /\ ListItems' \in Seq(Seq(Nat))
          /\ i <= Len(ListItems) /\ i <= Len(ListItems')
      BY <1>1, <2>2 DEF Seen, Views
    <2>8. ASSUME NEW m \in 1 .. n
          PROVE  Forest'[m] = Forest[m]
      <3>1. m \in 1 .. Len(nodes) /\ m \in 1 .. Len(nodes')
        BY <1>1, <2>1, <2>2, <2>8 DEF Seen
      <3>2. Forest[m] = ChildItems(m) /\ Forest'[m] = ChildItems(m)'
        BY <1>1, <3>1 DEF Seen
      <3> QED
        BY <1>2, <2>1, <2>8, <3>2
    <2>9. ASSUME NEW m \in 1 .. i
          PROVE  ListItems'[m] = ListItems[m]
      <3>1. m \in 1 .. Len(lists) /\ m \in 1 .. Len(lists')
        BY <1>1, <2>1, <2>2, <2>9 DEF Seen
      <3>2. ListItems[m] = Items(Arena, lists[m]) /\ ListItems'[m] = Items(Arena', lists'[m])
        BY <1>1, <3>1 DEF Seen, Items
      <3> QED
        BY <1>2, <2>1, <2>9, <3>2
    <2>3. PICK f \in Seq(Seq(Nat)), g \in Seq(Seq(Nat)) :
              /\ f = Forest /\ g = Forest' /\ n <= Len(f) /\ n <= Len(g)
              /\ \A m \in 1 .. n : g[m] = f[m]
      BY <2>7, <2>8
    <2>4. Cut(g, n) = Cut(f, n)
      BY <2>3, CutSame
    <2>5. PICK p \in Seq(Seq(Nat)), q \in Seq(Seq(Nat)) :
              /\ p = ListItems /\ q = ListItems' /\ i <= Len(p) /\ i <= Len(q)
              /\ \A m \in 1 .. i : q[m] = p[m]
      BY <2>7, <2>9
    <2>6. Cut(q, i) = Cut(p, i)
      BY <2>5, CutSame
    <2> QED
      BY <2>1, <2>3, <2>4, <2>5, <2>6
  <1> QED
    BY <1>2 DEF Saved

---------------------------------------------------------------------------
(* Steps that change the children of one node. *)

\* Node n gets an entry if it has none, and only its entry and slice change.
NodeStep(n) ==
    /\ nodes' = [nodes EXCEPT ![n] = DataOf(n)]
    /\ Len(data') = Larger(Len(data), DataOf(n))
    /\ \A i \in 1 .. Len(data) : i # nodes[n] => data'[i] = data[i]
    /\ Len(spills) <= Len(spills')
    /\ \A i \in 1 .. Len(spills) :
          spills'[i] = spills[i] \/ (Spilled(n) /\ i = SpillOf(n))
    /\ data'[DataOf(n)].count > Inline =>
          /\ data'[DataOf(n)].spill \in 1 .. Len(spills')
          /\ \/ data'[DataOf(n)].spill > Len(spills)
             \/ Spilled(n) /\ data'[DataOf(n)].spill = SpillOf(n)

\* What another node has, it keeps.
LEMMA NodeStepKeeps ==
    ASSUME TypeOK, IndicesOK, NEW n \in NodeIds, NodeStep(n)
    PROVE  /\ Len(nodes') = Len(nodes) /\ Len(data) <= Len(data')
           /\ nodes'[n] = DataOf(n) /\ DataOf(n) \in 1 .. Len(data')
           /\ \A m \in NodeIds : m # n =>
                 /\ nodes'[m] = nodes[m] /\ nodes[m] # DataOf(n)
                 /\ nodes[m] # 0 => data'[nodes[m]] = data[nodes[m]]
                 /\ Spilled(m)' <=> Spilled(m)
                 /\ Spilled(m) => SpillOf(m)' = SpillOf(m)
                 /\ NodeSlice(m)' = NodeSlice(m)
                 /\ InlineItems(m)' = InlineItems(m)
           /\ IndicesOK'
  <1>1. /\ Len(nodes) \in Nat /\ DOMAIN nodes = 1 .. Len(nodes) /\ NodeIds = 1 .. Len(nodes)
        /\ Len(data) \in Nat /\ Len(spills) \in Nat /\ nodes \in Seq(Nat)
        /\ \A m \in NodeIds : nodes[m] \in Nat /\ nodes[m] <= Len(data)
    BY TypeFacts DEF TypeOK, IndicesOK
  <1>2. /\ DataOf(n) \in Nat /\ DataOf(n) # 0
        /\ nodes[n] # 0 => DataOf(n) = nodes[n]
        /\ nodes[n] = 0 => DataOf(n) = Len(data) + 1
    BY <1>1 DEF DataOf
  <1>3. Len(data) <= Len(data') /\ DataOf(n) \in 1 .. Len(data') /\ Len(data') \in Nat
    BY <1>1, <1>2 DEF NodeStep, Larger
  <1>4. Len(nodes') = Len(nodes) /\ nodes'[n] = DataOf(n)
        /\ \A m \in NodeIds : m # n => nodes'[m] = nodes[m]
    BY <1>1 DEF NodeStep
  <1>5. ASSUME NEW m \in NodeIds, m # n
        PROVE  /\ nodes'[m] = nodes[m] /\ nodes[m] # DataOf(n)
               /\ nodes[m] # 0 => data'[nodes[m]] = data[nodes[m]]
               /\ Spilled(m)' <=> Spilled(m)
               /\ Spilled(m) => /\ SpillOf(m)' = SpillOf(m)
                                /\ SpillOf(m) \in 1 .. Len(spills)
                                /\ ~(Spilled(n) /\ SpillOf(m) = SpillOf(n))
               /\ NodeSlice(m)' = NodeSlice(m)
               /\ InlineItems(m)' = InlineItems(m)
    <2>1. nodes'[m] = nodes[m]
      BY <1>4, <1>5
    <2>2. nodes[m] # 0 => nodes[m] # nodes[n]
      BY <1>5 DEF IndicesOK
    <2>3. nodes[m] # DataOf(n)
      BY <1>1, <1>2, <1>5, <2>2
    <2>4. nodes[m] # 0 => data'[nodes[m]] = data[nodes[m]]
      <3>1. nodes[m] # 0 => nodes[m] \in 1 .. Len(data)
        BY <1>1, <1>5
      <3> QED
        BY <2>2, <3>1 DEF NodeStep
    <2>5. Spilled(m)' <=> Spilled(m)
      BY <2>1, <2>4 DEF Spilled
    <2>6. Spilled(m) => SpillOf(m)' = SpillOf(m)
      BY <2>1, <2>4 DEF Spilled, SpillOf
    <2>7. Spilled(m) => /\ SpillOf(m) \in 1 .. Len(spills)
                        /\ ~(Spilled(n) /\ SpillOf(m) = SpillOf(n))
      BY <1>5 DEF IndicesOK
    <2>8. NodeSlice(m)' = NodeSlice(m)
      <3>1. CASE Spilled(m)
        <4>1. spills'[SpillOf(m)] = spills[SpillOf(m)]
          BY <2>7, <3>1 DEF NodeStep
        <4> QED
          BY <2>5, <2>6, <3>1, <4>1 DEF NodeSlice
      <3>2. CASE ~Spilled(m)
        BY <2>5, <3>2 DEF NodeSlice
      <3> QED
        BY <3>1, <3>2
    <2>9. InlineItems(m)' = InlineItems(m)
      BY <2>1, <2>4 DEF InlineItems
    <2> QED
      BY <2>1, <2>3, <2>4, <2>5, <2>6, <2>7, <2>8, <2>9
  <1>6. NodeIds' = NodeIds /\ NodeIds = 1 .. Len(nodes)
    BY <1>1, <1>4 DEF NodeIds
  <1>7. Len(spills') \in Nat => \A i \in 1 .. Len(spills) : i \in 1 .. Len(spills')
    BY <1>1 DEF NodeStep
  <1>8. Spilled(n)' => /\ SpillOf(n)' = data'[DataOf(n)].spill
                       /\ SpillOf(n)' \in 1 .. Len(spills')
                       /\ SpillOf(n)' > Len(spills) \/ (Spilled(n) /\ SpillOf(n)' = SpillOf(n))
    BY <1>4 DEF Spilled, SpillOf, NodeStep
  <1>9. ASSUME NEW m \in NodeIds'
        PROVE  nodes'[m] <= Len(data') /\ (Spilled(m)' => SpillOf(m)' \in 1 .. Len(spills'))
    <2>1. CASE m = n
      BY <1>2, <1>3, <1>4, <1>8, <2>1
    <2>2. CASE m # n
      <3>1. nodes'[m] <= Len(data')
        BY <1>1, <1>3, <1>5, <1>6, <1>9, <2>2
      <3>2. Spilled(m)' => SpillOf(m)' \in 1 .. Len(spills)
        BY <1>5, <1>6, <1>9, <2>2
      <3>3. Len(spills) <= Len(spills')
        BY DEF NodeStep
      <3> QED
        BY <1>1, <3>1, <3>2, <3>3
    <2> QED
      BY <2>1, <2>2
  <1>10. ASSUME NEW l \in NodeIds', NEW m \in NodeIds', l # m
         PROVE  /\ nodes'[l] # 0 => nodes'[l] # nodes'[m]
                /\ Spilled(l)' /\ Spilled(m)' => SpillOf(l)' # SpillOf(m)'
    <2>1. CASE l # n /\ m # n
      BY <1>5, <1>6, <1>10, <2>1 DEF IndicesOK
    <2>2. CASE l = n
      BY <1>1, <1>4, <1>5, <1>6, <1>8, <1>10, <2>2
    <2>3. CASE m = n
      BY <1>1, <1>4, <1>5, <1>6, <1>8, <1>10, <2>3
    <2> QED
      BY <2>1, <2>2, <2>3
  <1>11. IndicesOK'
    BY <1>9, <1>10 DEF IndicesOK
  <1> QED
    BY <1>3, <1>4, <1>5, <1>11

\* The parser holds the lists it held, or all but the last, a young one.
ListsKept == lists' = lists \/ (YoungList /\ lists' = Cut(lists, Len(lists) - 1))

\* A list that is kept is older than none of the marks' lists.
LEMMA KeptLists ==
    ASSUME SinkInv, ListsKept
    PROVE  /\ Len(lists') \in Nat /\ Len(lists') <= Len(lists)
           /\ DOMAIN lists' = 1 .. Len(lists')
           /\ \A i \in 1 .. Len(lists') : lists'[i] = lists[i] /\ i \in DOMAIN lists
           /\ \A k \in DOMAIN marks : marks[k].lists <= Len(lists')
           /\ lists' = lists \/ (lists # <<>> /\ Len(lists') = Len(lists) - 1)
  <1>1. /\ Len(lists) \in Nat /\ DOMAIN lists = 1 .. Len(lists) /\ lists \in Seq(Slices)
        /\ Seen /\ DOMAIN marks = 1 .. Len(marks)
    BY TypeFacts, SinkSeen DEF SinkInv, TypeOK
  <1>2. \A k \in DOMAIN marks : marks[k].lists \in Nat /\ marks[k].lists <= Len(lists)
    BY <1>1 DEF Seen
  <1>3. CASE lists' = lists
    BY <1>1, <1>2, <1>3
  <1>4. CASE YoungList /\ lists' = Cut(lists, Len(lists) - 1)
    <2>1. PICK l \in Nat : l = Len(lists) - 1 /\ l <= Len(lists)
      <3>1. lists # <<>>
        BY <1>4 DEF YoungList
      <3>2. Len(lists) # 0
        BY <1>1, <3>1, EmptySeq
      <3>3. Len(lists) - 1 \in Nat /\ Len(lists) - 1 <= Len(lists)
        BY <1>1, <3>2
      <3> QED
        BY <3>3
    <2>2. /\ Cut(lists, l) \in Seq(Slices) /\ Len(Cut(lists, l)) = l
          /\ \A i \in 1 .. l : Cut(lists, l)[i] = lists[i]
      BY <1>1, <2>1, CutFacts
    <2>3. DOMAIN lists' = 1 .. l /\ Len(lists') = l
      BY <1>4, <2>1, <2>2, LenProperties
    <2>4. \A k \in DOMAIN marks : marks[k].lists <= l
      BY <1>1, <1>2, <1>4, <2>1 DEF YoungList
    <2>5. \A i \in 1 .. Len(lists') : lists'[i] = lists[i] /\ i \in DOMAIN lists
      BY <1>1, <1>4, <2>1, <2>2, <2>3
    <2> QED
      BY <1>4, <2>1, <2>3, <2>4, <2>5 DEF YoungList
  <1> QED
    BY <1>3, <1>4 DEF ListsKept

\* The view of the lists that are kept.
LEMMA KeptListItems ==
    ASSUME SinkInv, SinkInv', ListsKept,
           \A i \in DOMAIN lists' : Items(Arena', lists'[i]) = Items(Arena, lists[i])
    PROVE  /\ ListItems' = Cut(ListItems, Len(lists'))
           /\ lists' = lists => ListItems' = ListItems
  <1>1. /\ Seen /\ Seen' /\ DOMAIN lists' = 1 .. Len(lists') /\ Len(lists') <= Len(lists)
        /\ \A i \in 1 .. Len(lists') : lists'[i] = lists[i] /\ i \in DOMAIN lists
        /\ Len(lists') \in Nat
    BY SinkSeen, SeenNext, KeptLists
  <1>2. PICK p \in Seq(Seq(Nat)), q \in Seq(Seq(Nat)) : p = ListItems /\ q = ListItems'
    BY <1>1 DEF Seen, Views
  <1>3. Len(p) = Len(lists) /\ Len(q) = Len(lists') /\ Len(p) \in Nat
    BY <1>1, <1>2 DEF Seen
  <1>4. ASSUME NEW i \in 1 .. Len(q)
        PROVE  q[i] = p[i]
    <2>1. i \in 1 .. Len(lists') /\ i \in 1 .. Len(lists)
      BY <1>1, <1>3, <1>4
    <2>2. ListItems[i] = Items(Arena, lists[i]) /\ ListItems'[i] = Items(Arena', lists'[i])
      BY <1>1, <2>1 DEF Seen, Items
    <2> QED
      BY <1>1, <1>2, <2>1, <2>2
  <1>5. q = Cut(p, Len(q))
    <2>1. PICK n \in Nat : n = Len(q) /\ n <= Len(p)
      BY <1>1, <1>3
    <2>5. Cut(p, n) \in Seq(Seq(Nat)) /\ Len(Cut(p, n)) = n /\ \A i \in 1 .. n : Cut(p, n)[i] = p[i]
      BY <2>1, CutFacts
    <2>2. PICK c \in Seq(Seq(Nat)) : c = Cut(p, n) /\ Len(c) = n /\ \A i \in 1 .. n : c[i] = p[i]
      BY <2>5
    <2>3. Len(q) = Len(c) /\ \A i \in 1 .. Len(q) : q[i] = c[i]
      BY <1>4, <2>1, <2>2
    <2>4. q = c
      BY <2>3, SeqEqual
    <2> QED
      BY <2>1, <2>2, <2>4
  <1>6. lists' = lists => q = p
    BY <1>3, <1>4, SeqEqual
  <1> QED
    BY <1>2, <1>3, <1>5, <1>6

\* A node that grows into a slice no other holder touches changes nothing but
\* its own children.
LEMMA NodeGrows ==
    ASSUME SinkInv, TypeOK', NEW n \in NodeIds, Young(n), NodeStep(n), marks' = marks, ListsKept,
           Grows(Arena, Arena'), NEW old, old = NilSlice \/ old = NodeSlice(n),
           NEW new \in Slices, Inside(Arena', new), Spares(Arena, Arena', old, new),
           NodeSlice(n)' = new
    PROVE  /\ SinkInv'
           /\ Forest' = [Forest EXCEPT ![n] = ChildItems(n)']
           /\ ListItems' = Cut(ListItems, Len(lists'))
           /\ lists' = lists => ListItems' = ListItems
           /\ Saved' = Saved
  <1>1. TypeOK /\ IndicesOK /\ SlicesOK /\ MarksOK /\ SinkAssumption /\ Seen
    BY SinkSeen, SinkAssumption DEF SinkInv
  <1>2. /\ NodeIds = 1 .. Len(nodes) /\ Len(nodes) \in Nat
        /\ Len(lists) \in Nat /\ DOMAIN lists = 1 .. Len(lists)
        /\ Len(marks) \in Nat /\ DOMAIN marks = 1 .. Len(marks)
    BY <1>1, TypeFacts
  <1>3. /\ Len(nodes') = Len(nodes) /\ Len(data) <= Len(data')
        /\ \A m \in NodeIds : m # n =>
              /\ nodes'[m] = nodes[m]
              /\ Spilled(m)' <=> Spilled(m)
              /\ Spilled(m) => SpillOf(m)' = SpillOf(m)
              /\ NodeSlice(m)' = NodeSlice(m)
              /\ InlineItems(m)' = InlineItems(m)
        /\ IndicesOK'
    BY <1>1, NodeStepKeeps
  <1>4. NodeIds' = NodeIds
    BY <1>3 DEF NodeIds
  <1>5. /\ Len(lists') \in Nat /\ Len(lists') <= Len(lists)
        /\ DOMAIN lists' = 1 .. Len(lists')
        /\ \A i \in 1 .. Len(lists') : lists'[i] = lists[i] /\ i \in DOMAIN lists
        /\ \A k \in DOMAIN marks : marks[k].lists <= Len(lists')
    BY KeptLists
  <1>6. /\ n \in Int /\ n \in Holders /\ Held(n) = NodeSlice(n)
    BY <1>1, <1>2, HeldFacts
  <1>7. ASSUME NEW h \in Holders', h # n
        PROVE  h \in Holders /\ Held(h)' = Held(h) /\ Apart(old, Held(h))
    <2>1. h \in Int /\ (h \in 1 .. Len(nodes') \/ -h \in 1 .. Len(lists'))
      BY <1>7 DEF Holders
    <2>2. CASE h \in 1 .. Len(nodes')
      <3>1. h \in NodeIds /\ h \in Int /\ h > 0
        BY <1>2, <1>3, <2>2
      <3>2. h \in Holders /\ Held(h) = NodeSlice(h)
        BY <1>1, <3>1, HeldFacts
      <3>3. Held(h)' = NodeSlice(h)'
        BY <3>1 DEF Held
      <3> QED
        BY <1>1, <1>3, <1>6, <1>7, <3>1, <3>2, <3>3 DEF SlicesOK, Apart, NilSlice
    <2>3. CASE -h \in 1 .. Len(lists')
      <3>1. h \in Int /\ ~(h > 0) /\ -h \in 1 .. Len(lists)
        BY <1>2, <1>5, <2>1, <2>3
      <3>2. h \in Holders
        BY <3>1 DEF Holders
      <3>3. Held(h)' = Held(h)
        BY <1>5, <2>3, <3>1 DEF Held
      <3> QED
        BY <1>1, <1>6, <1>7, <3>2, <3>3 DEF SlicesOK, Apart, NilSlice
    <2> QED
      BY <2>1, <2>2, <2>3
  <1>8. n \in Holders' => Held(n)' = new
    BY <1>2 DEF Held
  <1>9. /\ SlicesOK'
        /\ \A h \in Holders' : h # n => Items(Arena', Held(h)) = Items(Arena, Held(h))
    BY <1>1, <1>6, <1>7, <1>8, SlicesStep
  <1>10. ASSUME NEW k \in DOMAIN marks, NEW m \in 1 .. marks[k].nodes
         PROVE  m \in NodeIds /\ m # n
    <2>1. PICK x \in Nat : x = marks[k].nodes /\ x <= Len(nodes)
      BY <1>1, <1>2, <1>10 DEF Seen
    <2>2. n > x
      BY <1>10, <2>1 DEF Young
    <2>3. m \in 1 .. x
      BY <1>10, <2>1
    <2> QED
      BY <1>2, <2>1, <2>2, <2>3
  <1>11. ASSUME NEW k \in DOMAIN marks, NEW i \in 1 .. marks[k].lists
         PROVE  i \in DOMAIN lists' /\ lists'[i] = lists[i]
    <2>1. PICK x \in Nat : x = marks[k].lists /\ x <= Len(lists')
      BY <1>1, <1>2, <1>5, <1>11 DEF Seen
    <2>2. i \in 1 .. x
      BY <1>11, <2>1
    <2> QED
      BY <1>5, <2>1, <2>2
  <1>12. MarksOK'
    <2>1. Len(nodes) <= Len(nodes') /\ Len(spills) <= Len(spills')
      BY <1>2, <1>3 DEF NodeStep
    <2>2. \A k \in DOMAIN marks :
              /\ marks[k].lists <= Len(lists')
              /\ \A m \in 1 .. marks[k].nodes :
                    /\ nodes'[m] = nodes[m]
                    /\ Spilled(m)' <=> Spilled(m)
                    /\ Spilled(m) => SpillOf(m)' = SpillOf(m)
                    /\ NodeSlice(m)' = NodeSlice(m)
              /\ \A i \in 1 .. marks[k].lists : lists'[i] = lists[i]
      BY <1>3, <1>5, <1>10, <1>11
    <2> QED
      BY <1>1, <1>3, <2>1, <2>2, MarksStep
  <1>13. SinkInv'
    BY <1>3, <1>9, <1>12 DEF SinkInv
  <1>14. ASSUME NEW m \in NodeIds, m # n
         PROVE  ChildItems(m)' = ChildItems(m)
    <2>1. /\ Spilled(m) => ChildItems(m) = Items(Arena, NodeSlice(m))
          /\ ~Spilled(m) => ChildItems(m) = InlineItems(m)
      BY <1>1, ChildItemsFacts
    <2>2. /\ Spilled(m)' => ChildItems(m)' = Items(Arena', NodeSlice(m)')
          /\ ~Spilled(m)' => ChildItems(m)' = InlineItems(m)'
      BY <1>4, <1>13, ChildItemsNext
    <2>3. Items(Arena', NodeSlice(m)) = Items(Arena, NodeSlice(m))
      <3>1. m \in Holders' /\ Held(m) = NodeSlice(m)
        BY <1>1, <1>2, <1>3, HeldFacts DEF Holders
      <3> QED
        BY <1>9, <1>14, <3>1
    <2> QED
      BY <1>3, <1>14, <2>1, <2>2, <2>3
  <1>15. ASSUME NEW i \in DOMAIN lists'
         PROVE  Items(Arena', lists'[i]) = Items(Arena, lists[i])
    <2>1. i \in DOMAIN lists /\ lists'[i] = lists[i] /\ i \in Nat /\ i > 0
      BY <1>5, <1>15
    <2>2. Held(-i) = lists[i]
      BY <1>1, <2>1, HeldFacts
    <2>3. -i # n /\ -i \in Int /\ -(-i) = i
      BY <1>2, <2>1
    <2>4. -i \in Holders'
      BY <1>5, <1>15, <2>3 DEF Holders
    <2> QED
      BY <1>9, <2>1, <2>2, <2>3, <2>4
  <1>16. /\ ListItems' = Cut(ListItems, Len(lists'))
         /\ lists' = lists => ListItems' = ListItems
    BY <1>13, <1>15, KeptListItems
  <1>17. Saved' = Saved
    BY <1>1, <1>2, <1>3, <1>5, <1>10, <1>11, <1>13, <1>14, <1>15, SavedStep DEF Seen
  <1>18. Forest' = [Forest EXCEPT ![n] = ChildItems(n)']
    BY <1>4, <1>14 DEF Forest
  <1> QED
    BY <1>13, <1>16, <1>17, <1>18

---------------------------------------------------------------------------
(* The steps that change the children of a node, one by one. *)

\* The entry of a node, the one it has or the one it is about to get.
LEMMA EnsuredFacts ==
    ASSUME SinkInv, NEW n \in NodeIds
    PROVE  /\ Ensured(n) \in Seq(Entries) /\ Len(Ensured(n)) = Larger(Len(data), DataOf(n))
           /\ DataOf(n) \in 1 .. Len(Ensured(n)) /\ Ensured(n)[DataOf(n)] \in Entries
           /\ \A i \in 1 .. Len(data) : /\ Ensured(n)[i] = data[i] /\ i \in 1 .. Len(Ensured(n))
                                        /\ i # nodes[n] => i # DataOf(n)
           /\ nodes[n] # 0 => Ensured(n) = data /\ DataOf(n) = nodes[n]
           /\ nodes[n] = 0 => Ensured(n)[DataOf(n)] = NoChildren
           /\ Spilled(n) <=> Ensured(n)[DataOf(n)].count > Inline
  <1>1. /\ nodes[n] \in Nat /\ nodes[n] <= Len(data) /\ Len(data) \in Nat
        /\ data \in Seq(Entries) /\ \A i \in 1 .. Len(data) : data[i] \in Entries
    BY TypeFacts DEF SinkInv, TypeOK, IndicesOK
  <1>2. CASE nodes[n] # 0
    <2>1. Ensured(n) = data /\ DataOf(n) = nodes[n]
      BY <1>2 DEF Ensured, DataOf
    <2> QED
      BY <1>1, <1>2, <2>1 DEF Larger, Spilled
  <1>3. CASE nodes[n] = 0
    <2>1. Ensured(n) = Append(data, NoChildren) /\ DataOf(n) = Len(data) + 1
      BY <1>3 DEF Ensured, DataOf
    <2>2. NoChildren \in Entries /\ NoChildren.count = 0 /\ ~(0 > Inline)
      BY SinkAssumption DEF NoChildren, Entries, Zeros
    <2>3. /\ Append(data, NoChildren) \in Seq(Entries) /\ Len(Append(data, NoChildren)) = Len(data) + 1
          /\ Append(data, NoChildren)[Len(data) + 1] = NoChildren
          /\ \A i \in 1 .. Len(data) : Append(data, NoChildren)[i] = data[i]
      BY <1>1, <2>2, AppendProperties
    <2>4. Larger(Len(data), DataOf(n)) = Len(data) + 1
      BY <1>1, <2>1 DEF Larger
    <2>5. ~Spilled(n)
      BY <1>3 DEF Spilled
    <2> QED
      BY <1>1, <1>3, <2>1, <2>2, <2>3, <2>4, <2>5
  <1> QED
    BY <1>2, <1>3

\* The types after a step that changes the children of a node.
LEMMA NodeTyped ==
    ASSUME SinkInv, NEW n \in NodeIds, nodes' = [nodes EXCEPT ![n] = DataOf(n)],
           data' \in Seq(Entries), spills' \in Seq(Slices), ArenaOK(Arena'), ListsKept, marks' = marks
    PROVE  TypeOK'
  <1>1. /\ nodes \in Seq(Nat) /\ lists \in Seq(Slices) /\ marks \in Seq(MarkRecords)
        /\ n \in 1 .. Len(nodes) /\ Len(data) \in Nat /\ nodes[n] \in Nat
    BY TypeFacts DEF SinkInv, TypeOK
  <1>2. DataOf(n) \in Nat
    BY <1>1 DEF DataOf
  <1>3. nodes' \in Seq(Nat)
    BY <1>1, <1>2, ExceptSeq
  <1>4. lists' \in Seq(Slices)
    <2>1. CASE lists' = lists
      BY <1>1, <2>1
    <2>2. CASE YoungList /\ lists' = Cut(lists, Len(lists) - 1)
      <3>1. PICK l \in Nat : l = Len(lists) - 1 /\ l <= Len(lists)
        <4>1. lists # <<>> /\ Len(lists) \in Nat
          BY <1>1, <2>2, LenProperties DEF YoungList
        <4>2. Len(lists) # 0
          BY <1>1, <4>1, EmptySeq
        <4>3. Len(lists) - 1 \in Nat /\ Len(lists) - 1 <= Len(lists)
          BY <4>1, <4>2
        <4> QED
          BY <4>3
      <3>2. Cut(lists, l) \in Seq(Slices)
        BY <1>1, <3>1, CutFacts
      <3> QED
        BY <2>2, <3>1, <3>2
    <2> QED
      BY <2>1, <2>2 DEF ListsKept
  <1>5. blocks' \in Seq(Seq(Nat)) /\ next' \in Nat
    BY DEF ArenaOK, Arena
  <1>6. ArenaOK(Arena)'
    BY DEF ArenaOK, LastSize
  <1> QED
    BY <1>1, <1>3, <1>4, <1>5, <1>6 DEF TypeOK

\* Where the arena stays as it is.
LEMMA ArenaSame ==
    ASSUME TypeOK, UNCHANGED <<blocks, next>>, NEW old
    PROVE  /\ Arena' = Arena /\ ArenaOK(Arena') /\ Grows(Arena, Arena')
           /\ Inside(Arena', NilSlice) /\ Spares(Arena, Arena', old, NilSlice)
  <1>1. Arena' = Arena /\ ArenaOK(Arena)
    BY DEF Arena, TypeOK
  <1>2. PICK a : a = Arena /\ ArenaOK(a)
    BY <1>1
  <1>3. Grows(a, a)
    BY <1>2, ArenaFacts DEF Grows
  <1>4. Inside(a, NilSlice)
    BY DEF Inside, Before, NilSlice
  <1>5. Spares(a, a, old, NilSlice)
    BY DEF Spares, Apart, NilSlice
  <1> QED
    BY <1>1, <1>2, <1>3, <1>4, <1>5

\* Where the arena becomes a.
LEMMA UseArenaFacts ==
    ASSUME NEW a, ArenaOK(a), UseArena(a)
    PROVE  Arena' = a
  BY DEF ArenaOK, UseArena, Arena

\* One more cell filled is one more item.
LEMMA CutNext ==
    ASSUME NEW f \in Seq(Nat), NEW c \in Nat, c < Len(f), NEW child \in Nat
    PROVE  Cut([f EXCEPT ![c + 1] = child], c + 1) = Append(Cut(f, c), child)
  <1>1. Len(f) \in Nat /\ c + 1 \in 1 .. Len(f) /\ c <= Len(f)
    BY LenProperties
  <1>2. PICK g : g = [f EXCEPT ![c + 1] = child]
    OBVIOUS
  <1>3. /\ g \in Seq(Nat) /\ Len(g) = Len(f)
        /\ \A i \in 1 .. Len(f) : g[i] = IF i = c + 1 THEN child ELSE f[i]
    BY <1>1, <1>2, ExceptSeq
  <1>4. PICK s : s = Cut(f, c)
    OBVIOUS
  <1>5. s \in Seq(Nat) /\ Len(s) = c /\ \A i \in 1 .. c : s[i] = f[i]
    BY <1>1, <1>4, CutFacts
  <1>6. PICK t : t = Cut(g, c + 1)
    OBVIOUS
  <1>7. t \in Seq(Nat) /\ Len(t) = c + 1 /\ \A i \in 1 .. c + 1 : t[i] = g[i]
    <2>1. c + 1 \in Nat /\ c + 1 <= Len(g)
      BY <1>1, <1>3
    <2> QED
      BY <1>3, <1>6, <2>1, CutFacts
  <1>8. PICK u : u = Append(s, child)
    OBVIOUS
  <1>9. /\ u \in Seq(Nat) /\ Len(u) = c + 1 /\ u[c + 1] = child
        /\ \A i \in 1 .. c : u[i] = s[i]
    <2>1. /\ u \in Seq(Nat) /\ Len(u) = Len(s) + 1 /\ u[Len(s) + 1] = child
          /\ \A i \in 1 .. Len(s) : u[i] = s[i]
      BY <1>5, <1>8, AppendProperties
    <2> QED
      BY <1>5, <2>1
  <1>10. ASSUME NEW i \in 1 .. c + 1
         PROVE  t[i] = u[i]
    <2>1. i \in 1 .. Len(f) /\ t[i] = g[i]
      BY <1>1, <1>7, <1>10
    <2>2. CASE i = c + 1
      BY <1>3, <1>9, <2>1, <2>2
    <2>3. CASE i # c + 1
      <3>1. i \in 1 .. c
        BY <1>10, <2>3
      <3> QED
        BY <1>3, <1>5, <1>9, <2>1, <2>3, <3>1
    <2> QED
      BY <2>2, <2>3
  <1>11. t = u
    BY <1>7, <1>9, <1>10, SeqEqual
  <1> QED
    BY <1>2, <1>4, <1>6, <1>8, <1>11

\* One more child, inline.
LEMMA AddInlineStep ==
    ASSUME SinkInv, NEW n \in NodeIds, NEW child \in NodeIds, Young(n), AddInline(n, child),
           UNCHANGED <<lists, marks>>
    PROVE  /\ SinkInv'
           /\ Forest' = [Forest EXCEPT ![n] = Append(Forest[n], child)]
           /\ ListItems' = ListItems /\ Saved' = Saved
  <1> DEFINE at == DataOf(n)
             d == Ensured(n)
  <1>0. TypeOK /\ IndicesOK /\ SlicesOK /\ SinkAssumption /\ Seen /\ Inline \in Nat
    BY SinkSeen, SinkAssumption DEF SinkInv
  <1>1. /\ d \in Seq(Entries) /\ Len(d) = Larger(Len(data), at)
        /\ at \in 1 .. Len(d) /\ d[at] \in Entries
        /\ \A i \in 1 .. Len(data) : d[i] = data[i] /\ i \in 1 .. Len(d) /\ (i # nodes[n] => i # at)
        /\ nodes[n] # 0 => d = data /\ at = nodes[n]
        /\ nodes[n] = 0 => d[at] = NoChildren
        /\ Spilled(n) <=> d[at].count > Inline
    BY EnsuredFacts
  <1>2. /\ d[at].count < Inline
        /\ nodes' = [nodes EXCEPT ![n] = at]
        /\ data' = [d EXCEPT ![at].inline[d[at].count + 1] = child, ![at].count = @ + 1]
        /\ UNCHANGED <<spills, blocks, next>>
    BY DEF AddInline
  <1> HIDE DEF d, at
  <1>3. PICK f \in [1 .. Inline -> Nat], c \in Nat, p \in Nat : d[at] = [inline |-> f, count |-> c, spill |-> p]
    BY <1>1 DEF Entries
  <1>4. PICK g : g = [f EXCEPT ![c + 1] = child]
    OBVIOUS
  <1>5. PICK e : e = [inline |-> g, count |-> c + 1, spill |-> p]
    OBVIOUS
  <1>6. child \in Nat /\ c + 1 \in 1 .. Inline /\ c < Inline
    <2>1. child \in Nat
      BY <1>0, TypeFacts
    <2> QED
      BY <1>0, <1>2, <1>3, <2>1
  <1>7. g \in [1 .. Inline -> Nat] /\ e \in Entries
    BY <1>4, <1>5, <1>6 DEF Entries
  <1>8. data' = [d EXCEPT ![at] = e]
    BY <1>1, <1>2, <1>3, <1>4, <1>5
  <1>9. /\ data' \in Seq(Entries) /\ Len(data') = Len(d) /\ data'[at] = e
        /\ \A i \in 1 .. Len(d) : i # at => data'[i] = d[i]
    BY <1>1, <1>7, <1>8, ExceptSeq
  <1>10. ~(e.count > Inline) /\ e.count = c + 1 /\ e.inline = g
    BY <1>0, <1>5, <1>6
  <1>11. NodeStep(n)
    <2>1. Len(spills) \in Nat /\ spills' = spills
      BY <1>0, <1>2, TypeFacts
    <2>2. \A i \in 1 .. Len(data) : i # nodes[n] => data'[i] = data[i]
      BY <1>1, <1>9
    <2>3. ~(data'[at].count > Inline)
      BY <1>9, <1>10
    <2> QED
      BY <1>1, <1>2, <1>9, <2>1, <2>2, <2>3 DEF NodeStep, at
  <1>12. /\ Arena' = Arena /\ ArenaOK(Arena') /\ Grows(Arena, Arena')
         /\ Inside(Arena', NilSlice) /\ Spares(Arena, Arena', NilSlice, NilSlice)
    BY <1>0, <1>2, ArenaSame
  <1>13. ListsKept
    BY DEF ListsKept
  <1>14. TypeOK'
    BY <1>0, <1>2, <1>9, <1>12, <1>13, NodeTyped DEF TypeOK, at
  <1>15. nodes'[n] = at /\ at # 0 /\ n \in NodeIds'
    <2>1. at # 0
      BY <1>1
    <2> QED
      BY <1>0, <1>2, <2>1, TypeFacts DEF TypeOK, NodeIds
  <1>16. ~Spilled(n)' /\ NodeSlice(n)' = NilSlice
    BY <1>9, <1>10, <1>15 DEF Spilled, NodeSlice, NilSlice
  <1>17. /\ SinkInv' /\ Forest' = [Forest EXCEPT ![n] = ChildItems(n)']
         /\ ListItems' = ListItems /\ Saved' = Saved
    BY <1>0, <1>11, <1>12, <1>13, <1>14, <1>16, HeldFacts, NodeGrows
  <1>18. ChildItems(n)' = Cut(g, c + 1)
    <2>1. ChildItems(n)' = InlineItems(n)'
      BY <1>15, <1>16, <1>17, ChildItemsNext
    <2> QED
      BY <1>9, <1>10, <1>15, <2>1 DEF InlineItems
  <1>19. Forest[n] = Cut(f, c)
    <2>1. ~Spilled(n) /\ ChildItems(n) = InlineItems(n) /\ Forest[n] = ChildItems(n)
      BY <1>0, <1>1, <1>3, <1>6, ChildItemsFacts, ViewFacts
    <2>2. CASE nodes[n] # 0
      BY <1>1, <1>3, <2>1, <2>2 DEF InlineItems
    <2>3. CASE nodes[n] = 0
      <3>1. c = 0
        BY <1>1, <1>3, <2>3 DEF NoChildren
      <3>2. Cut(f, 0) = <<>>
        BY SubSeqEmpty DEF Cut
      <3> QED
        BY <2>1, <2>3, <3>1, <3>2 DEF InlineItems
    <2> QED
      BY <2>2, <2>3
  <1>20. Cut(g, c + 1) = Append(Cut(f, c), child)
    <2>1. f \in Seq(Nat) /\ Len(f) = Inline
      BY <1>0
    <2> QED
      BY <1>4, <1>6, <2>1, CutNext
  <1> QED
    BY <1>17, <1>18, <1>19, <1>20

\* One entry of a sequence replaced.
LEMMA EntryReplaced ==
    ASSUME NEW d \in Seq(Entries), NEW i \in 1 .. Len(d), NEW e \in Entries
    PROVE  /\ [d EXCEPT ![i] = e] \in Seq(Entries)
           /\ Len([d EXCEPT ![i] = e]) = Len(d) /\ [d EXCEPT ![i] = e][i] = e
           /\ \A j \in 1 .. Len(d) : j # i => [d EXCEPT ![i] = e][j] = d[j]
  BY ExceptSeq

\* Nothing replaced.
LEMMA NothingReplaced ==
    ASSUME NEW s \in Seq(Nat), NEW i \in 1 .. Len(s)
    PROVE  [s EXCEPT ![i] = s[i]] = s
  OBVIOUS

\* From arena a to b slice old became new, which holds items: nothing else
\* was written.
Gives(a, b, old, new, items) ==
    /\ ArenaOK(b) /\ Grows(a, b)
    /\ new \in Slices /\ Inside(b, new)
    /\ Items(b, new) = items
    /\ Spares(a, b, old, new)

\* A new slice that is filled at once.
LEMMA GivesAnew ==
    ASSUME SinkAssumption, NEW a, ArenaOK(a), NEW size \in Nat \ {0},
           NEW items \in Seq(Nat), Len(items) > 0, Len(items) <= size
    PROVE  LET r == Filled(Alloc(a, size), items) IN
           Gives(a, r.arena, NilSlice, r.slice, items)
  BY FilledAnew DEF Gives

\* A slice to which one item is appended.
LEMMA GivesMore ==
    ASSUME SinkAssumption, NEW a, ArenaOK(a), NEW s \in Slices, Inside(a, s), NEW item \in Nat
    PROVE  LET r == Appended(a, s, item) IN
           Gives(a, r.arena, s, r.slice, Append(Items(a, s), item))
  BY AppendedFacts DEF Gives

\* One after the other.
LEMMA GivesOn ==
    ASSUME NEW a, ArenaOK(a), NEW b, NEW c, NEW r, NEW s, NEW t, NEW i, NEW j,
           Gives(a, b, r, s, i), Gives(b, c, s, t, j)
    PROVE  Gives(a, c, r, t, j)
  BY GrowsOn, SparesOn DEF Gives

\* A new slice that is filled and then gets one item more.
LEMMA GivesTwice ==
    ASSUME SinkAssumption, NEW a, ArenaOK(a), NEW size \in Nat \ {0},
           NEW items \in Seq(Nat), Len(items) > 0, Len(items) <= size, NEW item \in Nat
    PROVE  LET spilled == Filled(Alloc(a, size), items)
               r == Appended(spilled.arena, spilled.slice, item)
           IN  Gives(a, r.arena, NilSlice, r.slice, Append(items, item))
  <1> DEFINE spilled == Filled(Alloc(a, size), items)
             r == Appended(spilled.arena, spilled.slice, item)
  <1>1. Gives(a, spilled.arena, NilSlice, spilled.slice, items)
    BY GivesAnew
  <1> HIDE DEF spilled
  <1>2. PICK b : b = spilled.arena
    OBVIOUS
  <1>3. PICK s : s = spilled.slice
    OBVIOUS
  <1>4. Gives(a, b, NilSlice, s, items)
    BY <1>1, <1>2, <1>3
  <1>5. ArenaOK(b) /\ s \in Slices /\ Inside(b, s) /\ Items(b, s) = items
    BY <1>4 DEF Gives
  <1>6. Gives(b, r.arena, s, r.slice, Append(items, item))
    <2>1. r = Appended(b, s, item)
      BY <1>2, <1>3
    <2> HIDE DEF r
    <2>2. Gives(b, r.arena, s, r.slice, Append(Items(b, s), item))
      BY <1>5, <2>1, GivesMore
    <2> QED
      BY <1>5, <2>2
  <1>7. Gives(a, r.arena, NilSlice, r.slice, Append(items, item))
    <2> HIDE DEF r
    <2> QED
      BY <1>4, <1>6, GivesOn
  <1> QED
    BY <1>7 DEF r, spilled

\* Node n has entry e, and its slice is in e: a new slice, or one in the place
\* of the one it had.
Spills(n, e, a, new) ==
    /\ nodes' = [nodes EXCEPT ![n] = DataOf(n)]
    /\ data' = [Ensured(n) EXCEPT ![DataOf(n)] = e]
    /\ e \in Entries /\ e.count > Inline
    /\ UseArena(a)
    /\ \/ spills' = Append(spills, new) /\ e.spill = Len(spills) + 1
       \/ Spilled(n) /\ e.spill = SpillOf(n) /\ spills' = [spills EXCEPT ![e.spill] = new]

\* A node whose children are in a slice after the step.
LEMMA SpilledStep ==
    ASSUME SinkInv, NEW n \in NodeIds, Young(n), NEW e, NEW a, NEW new, NEW old, NEW items,
           old = NilSlice \/ old = NodeSlice(n),
           Spills(n, e, a, new), Gives(Arena, a, old, new, items),
           ListsKept, marks' = marks
    PROVE  /\ SinkInv'
           /\ Forest' = [Forest EXCEPT ![n] = items]
           /\ ListItems' = Cut(ListItems, Len(lists'))
           /\ lists' = lists => ListItems' = ListItems
           /\ Saved' = Saved
  <1> DEFINE at == DataOf(n)
             d == Ensured(n)
  <1>0. /\ TypeOK /\ IndicesOK /\ SlicesOK /\ SinkAssumption /\ Seen
        /\ spills \in Seq(Slices) /\ Len(spills) \in Nat
        /\ Spilled(n) => SpillOf(n) \in 1 .. Len(spills)
    BY SinkSeen, SinkAssumption, TypeFacts DEF SinkInv, TypeOK, IndicesOK
  <1>1. /\ d \in Seq(Entries) /\ Len(d) = Larger(Len(data), at)
        /\ at \in 1 .. Len(d) /\ d[at] \in Entries
        /\ \A i \in 1 .. Len(data) : d[i] = data[i] /\ i \in 1 .. Len(d) /\ (i # nodes[n] => i # at)
    BY EnsuredFacts
  <1>2. /\ nodes' = [nodes EXCEPT ![n] = at] /\ data' = [d EXCEPT ![at] = e]
        /\ e \in Entries /\ e.count > Inline /\ UseArena(a)
        /\ \/ spills' = Append(spills, new) /\ e.spill = Len(spills) + 1
           \/ Spilled(n) /\ e.spill = SpillOf(n) /\ spills' = [spills EXCEPT ![e.spill] = new]
    BY DEF Spills
  <1>20. /\ ArenaOK(a) /\ Grows(Arena, a) /\ new \in Slices /\ Inside(a, new)
         /\ Items(a, new) = items /\ Spares(Arena, a, old, new)
    BY DEF Gives
  <1> HIDE DEF d, at
  <1>3. /\ data' \in Seq(Entries) /\ Len(data') = Len(d) /\ data'[at] = e
        /\ \A i \in 1 .. Len(d) : i # at => data'[i] = d[i]
    <2>1. PICK D \in Seq(Entries) : D = d
      BY <1>1
    <2>2. PICK i \in 1 .. Len(D) : i = at
      BY <1>1, <2>1
    <2>3. /\ [D EXCEPT ![i] = e] \in Seq(Entries)
          /\ Len([D EXCEPT ![i] = e]) = Len(D) /\ [D EXCEPT ![i] = e][i] = e
          /\ \A j \in 1 .. Len(D) : j # i => [D EXCEPT ![i] = e][j] = D[j]
      BY <1>2, <2>2, EntryReplaced
    <2>4. data' = [D EXCEPT ![i] = e]
      BY <1>2, <2>1, <2>2
    <2> QED
      BY <2>1, <2>2, <2>3, <2>4
  <1>4. /\ spills' \in Seq(Slices) /\ Len(spills) <= Len(spills')
        /\ e.spill \in 1 .. Len(spills') /\ spills'[e.spill] = new
        /\ \A i \in 1 .. Len(spills) : spills'[i] = spills[i] \/ (Spilled(n) /\ i = SpillOf(n))
        /\ e.spill > Len(spills) \/ (Spilled(n) /\ e.spill = SpillOf(n))
    <2>1. CASE spills' = Append(spills, new) /\ e.spill = Len(spills) + 1
      BY <1>0, <1>20, <2>1, AppendProperties
    <2>2. CASE Spilled(n) /\ e.spill = SpillOf(n) /\ spills' = [spills EXCEPT ![e.spill] = new]
      BY <1>0, <1>20, <2>2, ExceptSeq
    <2> QED
      BY <1>2, <2>1, <2>2
  <1>5. NodeStep(n)
    <2>1. \A i \in 1 .. Len(data) : i # nodes[n] => data'[i] = data[i]
      BY <1>1, <1>3
    <2> QED
      BY <1>1, <1>2, <1>3, <1>4, <2>1 DEF NodeStep, at
  <1>6. Arena' = a
    BY <1>2, <1>20, UseArenaFacts
  <1>7. TypeOK'
    BY <1>2, <1>3, <1>4, <1>6, <1>20, NodeTyped DEF at
  <1>8. nodes'[n] = at /\ at # 0 /\ n \in NodeIds'
    <2>1. at # 0
      BY <1>1
    <2> QED
      BY <1>0, <1>2, <2>1, TypeFacts DEF TypeOK, NodeIds
  <1>9. Spilled(n)' /\ NodeSlice(n)' = new
    BY <1>2, <1>3, <1>4, <1>8 DEF Spilled, NodeSlice, SpillOf
  <1>10. /\ SinkInv' /\ Forest' = [Forest EXCEPT ![n] = ChildItems(n)']
         /\ ListItems' = Cut(ListItems, Len(lists'))
         /\ lists' = lists => ListItems' = ListItems
         /\ Saved' = Saved
    BY <1>5, <1>6, <1>7, <1>9, <1>20, NodeGrows
  <1>11. ChildItems(n)' = items
    BY <1>6, <1>8, <1>9, <1>10, <1>20, ChildItemsNext
  <1> QED
    BY <1>10, <1>11

\* The entry of a node that has one.
LEMMA OwnEntry ==
    ASSUME SinkInv, NEW n \in NodeIds, nodes[n] # 0
    PROVE  /\ data \in Seq(Entries) /\ nodes[n] \in 1 .. Len(data)
           /\ Ensured(n) = data /\ DataOf(n) = nodes[n]
           /\ nodes = [nodes EXCEPT ![n] = DataOf(n)]
  <1>1. Ensured(n) = data /\ DataOf(n) = nodes[n]
    BY DEF Ensured, DataOf
  <1>2. nodes \in Seq(Nat) /\ data \in Seq(Entries) /\ n \in 1 .. Len(nodes)
    BY TypeFacts DEF SinkInv, TypeOK
  <1>3. nodes[n] \in 1 .. Len(data)
    BY <1>2, TypeFacts DEF SinkInv, IndicesOK
  <1>4. nodes = [nodes EXCEPT ![n] = nodes[n]]
    BY <1>2, NothingReplaced
  <1> QED
    BY <1>1, <1>2, <1>3, <1>4

\* What the steps of a node rest on.
LEMMA SinkFacts ==
    ASSUME SinkInv
    PROVE  /\ TypeOK /\ IndicesOK /\ SlicesOK /\ SinkAssumption /\ ArenaOK(Arena)
           /\ Inline \in Nat \ {0} /\ SpillSize \in Nat \ {0} /\ Inline <= SpillSize
           /\ Len(spills) \in Nat /\ NodeIds = 1 .. Len(nodes)
           /\ \A n \in NodeIds : n \in Nat
  <1>1. TypeOK /\ IndicesOK /\ SlicesOK /\ SinkAssumption
    BY SinkAssumption DEF SinkInv
  <1>2. ArenaOK(Arena)
    BY <1>1 DEF TypeOK
  <1>3. Inline \in Nat \ {0} /\ SpillSize \in Nat \ {0} /\ Inline <= SpillSize
    BY <1>1 DEF SinkAssumption
  <1> QED
    BY <1>1, <1>2, <1>3, TypeFacts

\* The first child too many.
LEMMA AddFirstSpilledStep ==
    ASSUME SinkInv, NEW n \in NodeIds, NEW child \in NodeIds, Young(n), AddFirstSpilled(n, child),
           UNCHANGED <<lists, marks>>
    PROVE  /\ SinkInv'
           /\ Forest' = [Forest EXCEPT ![n] = Append(Forest[n], child)]
           /\ ListItems' = ListItems /\ Saved' = Saved
  <1> DEFINE d == data[nodes[n]]
             spilled == Filled(Alloc(Arena, SpillSize), d.inline)
             q == Appended(spilled.arena, spilled.slice, child)
  <1>0. /\ TypeOK /\ IndicesOK /\ SlicesOK /\ SinkAssumption /\ ArenaOK(Arena)
        /\ Inline \in Nat \ {0} /\ SpillSize \in Nat \ {0} /\ Inline <= SpillSize
        /\ Len(spills) \in Nat /\ child \in Nat
    BY SinkFacts
  <1>1. /\ nodes[n] # 0 /\ d.count = Inline
        /\ spills' = Append(spills, q.slice)
        /\ data' = [data EXCEPT ![nodes[n]].count = @ + 1, ![nodes[n]].spill = Len(spills) + 1]
        /\ UseArena(q.arena) /\ nodes' = nodes
    BY DEF AddFirstSpilled
  <1>2. /\ data \in Seq(Entries) /\ nodes[n] \in 1 .. Len(data)
        /\ Ensured(n) = data /\ DataOf(n) = nodes[n]
        /\ nodes = [nodes EXCEPT ![n] = DataOf(n)]
    BY <1>1, OwnEntry
  <1>3. d \in Entries
    BY <1>2, ElementOfSeq
  <1>4. PICK f \in [1 .. Inline -> Nat] : f = d.inline
    BY <1>3, EntryFacts
  <1>5. f \in Seq(Nat) /\ Len(f) = Inline
    BY <1>0
  <1>6. PICK e : e = [inline |-> f, count |-> Inline + 1, spill |-> Len(spills) + 1]
    OBVIOUS
  <1>7. e \in Entries /\ e.count > Inline /\ e.spill = Len(spills) + 1
    BY <1>0, <1>6 DEF Entries
  <1>8. data' = [data EXCEPT ![nodes[n]] = e]
    <2>1. PICK x, i : x = d /\ i = nodes[n]
      OBVIOUS
    <2>2. data' = [data EXCEPT ![i] = [x EXCEPT !.count = @ + 1, !.spill = Len(spills) + 1]]
      BY <1>1, <1>2, <2>1
    <2>3. PICK p \in Nat : x = [inline |-> f, count |-> Inline, spill |-> p]
      BY <1>1, <1>3, <1>4, <2>1 DEF Entries
    <2>4. x.count + 1 = Inline + 1
      BY <2>3
    <2>5. [x EXCEPT !.count = Inline + 1, !.spill = Len(spills) + 1] = e
      <3>1. PICK y : y = [x EXCEPT !.count = Inline + 1, !.spill = Len(spills) + 1]
        OBVIOUS
      <3>2. y = [inline |-> f, count |-> Inline + 1, spill |-> Len(spills) + 1]
        BY <2>3, <3>1
      <3> QED
        BY <1>6, <3>1, <3>2
    <2> QED
      BY <2>1, <2>2, <2>4, <2>5
  <1>9. Gives(Arena, q.arena, NilSlice, q.slice, Append(f, child))
    <2>1. PICK a : a = Arena /\ ArenaOK(a)
      BY <1>0
    <2>2. Len(f) > 0 /\ Len(f) <= SpillSize
      BY <1>0, <1>5
    <2>3. q = Appended(Filled(Alloc(a, SpillSize), f).arena, Filled(Alloc(a, SpillSize), f).slice, child)
      BY <1>4, <2>1
    <2> HIDE DEF q
    <2>4. Gives(a, q.arena, NilSlice, q.slice, Append(f, child))
      BY <1>0, <1>5, <2>1, <2>2, <2>3, GivesTwice
    <2> QED
      BY <2>1, <2>4
  <1> HIDE DEF d, spilled, q
  <1>10. Spills(n, e, q.arena, q.slice)
    BY <1>1, <1>2, <1>7, <1>8 DEF Spills
  <1>11. ListsKept
    BY DEF ListsKept
  <1>12. /\ SinkInv' /\ Forest' = [Forest EXCEPT ![n] = Append(f, child)]
         /\ ListItems' = ListItems /\ Saved' = Saved
    BY <1>9, <1>10, <1>11, SpilledStep
  <1>13. Forest[n] = f
    <2>1. ~Spilled(n)
      BY <1>0, <1>1 DEF Spilled, d
    <2>2. Forest[n] = ChildItems(n) /\ ChildItems(n) = InlineItems(n)
      BY <1>0, <2>1, ChildItemsFacts, ViewFacts
    <2>3. Cut(f, Inline) = f
      BY <1>0, <1>5, SubSeqFull DEF Cut
    <2> QED
      BY <1>1, <1>4, <2>2, <2>3 DEF InlineItems, d
  <1> QED
    BY <1>12, <1>13

\* One more child in a slice.
LEMMA AddSpilledStep ==
    ASSUME SinkInv, NEW n \in NodeIds, NEW child \in NodeIds, Young(n), AddSpilled(n, child),
           UNCHANGED <<lists, marks>>
    PROVE  /\ SinkInv'
           /\ Forest' = [Forest EXCEPT ![n] = Append(Forest[n], child)]
           /\ ListItems' = ListItems /\ Saved' = Saved
  <1> DEFINE d == data[nodes[n]]
             q == Appended(Arena, spills[d.spill], child)
  <1>0. /\ TypeOK /\ IndicesOK /\ SlicesOK /\ SinkAssumption /\ ArenaOK(Arena)
        /\ Inline \in Nat /\ child \in Nat
    BY SinkFacts
  <1>1. /\ nodes[n] # 0 /\ d.count > Inline
        /\ spills' = [spills EXCEPT ![d.spill] = q.slice]
        /\ data' = [data EXCEPT ![nodes[n]].count = @ + 1]
        /\ UseArena(q.arena) /\ nodes' = nodes
    BY DEF AddSpilled
  <1>2. /\ data \in Seq(Entries) /\ nodes[n] \in 1 .. Len(data)
        /\ Ensured(n) = data /\ DataOf(n) = nodes[n]
        /\ nodes = [nodes EXCEPT ![n] = DataOf(n)]
    BY <1>1, OwnEntry
  <1>3. d \in Entries
    BY <1>2, ElementOfSeq
  <1>4. PICK e : e = [d EXCEPT !.count = @ + 1]
    OBVIOUS
  <1>5. d.count \in Nat
    BY <1>3, EntryFacts
  <1>6. e \in Entries /\ e.count = d.count + 1 /\ e.spill = d.spill
    <2>1. PICK x \in Entries : x = d
      BY <1>3
    <2>2. e = [x EXCEPT !.count = @ + 1] /\ x.count \in Nat
      BY <1>4, <1>5, <2>1
    <2>3. e \in Entries /\ e.count = x.count + 1 /\ e.spill = x.spill
      BY <2>2 DEF Entries
    <2> QED
      BY <2>1, <2>3
  <1>7. e.count > Inline
    BY <1>0, <1>1, <1>5, <1>6
  <1>8. data' = [data EXCEPT ![nodes[n]] = e]
    BY <1>1, <1>4
  <1>9. Spilled(n) /\ SpillOf(n) = d.spill /\ NodeSlice(n) = spills[d.spill]
    BY <1>1 DEF Spilled, SpillOf, NodeSlice
  <1>10. NodeSlice(n) \in Slices /\ Inside(Arena, NodeSlice(n))
    BY <1>0, HeldFacts DEF SlicesOK
  <1>11. Gives(Arena, q.arena, NodeSlice(n), q.slice, Append(Items(Arena, NodeSlice(n)), child))
    <2>1. PICK a : a = Arena /\ ArenaOK(a)
      BY <1>0
    <2>2. PICK s \in Slices : s = NodeSlice(n) /\ Inside(a, s)
      BY <1>10, <2>1
    <2>3. q = Appended(a, s, child)
      BY <1>9, <2>1, <2>2
    <2> HIDE DEF q
    <2>4. Gives(a, q.arena, s, q.slice, Append(Items(a, s), child))
      BY <1>0, <2>1, <2>2, <2>3, GivesMore
    <2> QED
      BY <2>1, <2>2, <2>4
  <1>12. Forest[n] = Items(Arena, NodeSlice(n))
    BY <1>0, <1>9, ChildItemsFacts, ViewFacts
  <1> HIDE DEF d, q
  <1>13. Spills(n, e, q.arena, q.slice)
    BY <1>1, <1>2, <1>6, <1>7, <1>8, <1>9 DEF Spills
  <1>14. ListsKept
    BY DEF ListsKept
  <1>15. /\ SinkInv' /\ Forest' = [Forest EXCEPT ![n] = Append(Items(Arena, NodeSlice(n)), child)]
         /\ ListItems' = ListItems /\ Saved' = Saved
    BY <1>11, <1>13, <1>14, SpilledStep
  <1> QED
    BY <1>12, <1>15

\* The innermost list, if it is young.
LEMMA LastList ==
    ASSUME SinkInv, YoungList
    PROVE  /\ Len(lists) \in 1 .. Len(lists) /\ Len(lists) \in Nat
           /\ lists[Len(lists)] \in Slices /\ Inside(Arena, lists[Len(lists)])
           /\ Items(Arena, lists[Len(lists)]) \in Seq(Nat)
           /\ ListItems[Len(lists)] = Items(Arena, lists[Len(lists)])
           /\ Len(Items(Arena, lists[Len(lists)])) = lists[Len(lists)].len
  <1>1. TypeOK /\ IndicesOK /\ SlicesOK /\ ArenaOK(Arena) /\ SinkAssumption
    BY SinkFacts
  <1>2. lists \in Seq(Slices) /\ lists # <<>> /\ Len(lists) \in Nat /\ DOMAIN lists = 1 .. Len(lists)
    BY <1>1, TypeFacts DEF TypeOK, YoungList
  <1>3. Len(lists) \in 1 .. Len(lists)
    BY <1>2, EmptySeq
  <1>4. PICK a : a = Arena /\ ArenaOK(a)
    BY <1>1
  <1>5. PICK s \in Slices : s = lists[Len(lists)] /\ Inside(a, s)
    BY <1>1, <1>2, <1>3, <1>4, HeldFacts DEF SlicesOK
  <1>6. Items(a, s) \in Seq(Nat) /\ Len(Items(a, s)) = s.len
    BY <1>4, <1>5, ItemsAreCells
  <1>7. ListItems[Len(lists)] = Items(Arena, lists[Len(lists)])
    BY <1>1, <1>2, <1>3, ViewFacts
  <1> QED
    BY <1>2, <1>3, <1>4, <1>5, <1>6, <1>7

\* A few items become children, inline.
LEMMA SetFewStep ==
    ASSUME SinkInv, NEW n \in NodeIds, Young(n), NEW items \in Seq(Nat), SetFew(n, items),
           nodes' = [nodes EXCEPT ![n] = DataOf(n)], ListsKept, marks' = marks
    PROVE  /\ SinkInv'
           /\ Forest' = [Forest EXCEPT ![n] = items]
           /\ ListItems' = Cut(ListItems, Len(lists'))
           /\ Saved' = Saved
  <1> DEFINE at == DataOf(n)
             d == Ensured(n)
             g == [i \in 1 .. Inline |-> IF i <= Len(items) THEN items[i] ELSE d[at].inline[i]]
             e == [inline |-> g, count |-> Len(items), spill |-> 0]
  <1>0. /\ TypeOK /\ IndicesOK /\ SlicesOK /\ SinkAssumption /\ Inline \in Nat
        /\ Len(spills) \in Nat
    BY SinkFacts
  <1>1. /\ d \in Seq(Entries) /\ Len(d) = Larger(Len(data), at)
        /\ at \in 1 .. Len(d) /\ d[at] \in Entries
        /\ \A i \in 1 .. Len(data) : d[i] = data[i] /\ i \in 1 .. Len(d) /\ (i # nodes[n] => i # at)
    BY EnsuredFacts
  <1>2. Len(items) <= Inline /\ data' = [d EXCEPT ![at] = e] /\ UNCHANGED <<spills, blocks, next>>
    BY DEF SetFew
  <1>3. /\ Len(items) \in Nat /\ \A i \in 1 .. Len(items) : items[i] \in Nat
    BY LenProperties, ElementOfSeq
  <1>4. d[at].inline \in [1 .. Inline -> Nat]
    BY <1>1, EntryFacts
  <1> HIDE DEF d, at
  <1>5. g \in [1 .. Inline -> Nat]
    <2>1. ASSUME NEW i \in 1 .. Inline
          PROVE  (IF i <= Len(items) THEN items[i] ELSE d[at].inline[i]) \in Nat
      <3>1. CASE i <= Len(items)
        <4>1. i \in 1 .. Len(items)
          BY <1>3, <3>1
        <4> QED
          BY <1>3, <3>1, <4>1
      <3>2. CASE ~(i <= Len(items))
        BY <1>4, <3>2
      <3> QED
        BY <3>1, <3>2
    <2> QED
      BY <2>1
  <1>6. /\ g \in Seq(Nat) /\ Len(g) = Inline
        /\ \A i \in 1 .. Len(items) : g[i] = items[i]
    <2>1. \A i \in 1 .. Len(items) : g[i] = items[i]
      BY <1>0, <1>2, <1>3
    <2> HIDE DEF g
    <2> QED
      BY <1>0, <1>5, <2>1
  <1> HIDE DEF g
  <1>7. e \in Entries /\ ~(e.count > Inline) /\ e.count = Len(items) /\ e.inline = g
    BY <1>0, <1>2, <1>3, <1>5 DEF Entries
  <1> HIDE DEF e
  <1>8. /\ data' \in Seq(Entries) /\ Len(data') = Len(d) /\ data'[at] = e
        /\ \A i \in 1 .. Len(d) : i # at => data'[i] = d[i]
    BY <1>1, <1>2, <1>7, ExceptSeq
  <1>9. NodeStep(n)
    <2>1. spills' = spills
      BY <1>2
    <2>2. \A i \in 1 .. Len(data) : i # nodes[n] => data'[i] = data[i]
      BY <1>1, <1>8
    <2>3. ~(data'[at].count > Inline)
      BY <1>7, <1>8
    <2>4. nodes' = [nodes EXCEPT ![n] = at]
      BY DEF at
    <2> QED
      BY <1>0, <1>1, <1>8, <2>1, <2>2, <2>3, <2>4 DEF NodeStep, at
  <1>10. /\ Arena' = Arena /\ ArenaOK(Arena') /\ Grows(Arena, Arena')
         /\ Inside(Arena', NilSlice) /\ Spares(Arena, Arena', NilSlice, NilSlice)
    BY <1>0, <1>2, ArenaSame
  <1>11. TypeOK'
    BY <1>0, <1>2, <1>8, <1>10, NodeTyped DEF TypeOK
  <1>12. nodes'[n] = at /\ at # 0 /\ n \in NodeIds'
    <2>1. at # 0
      BY <1>1
    <2>2. nodes' = [nodes EXCEPT ![n] = at]
      BY DEF at
    <2> QED
      BY <1>0, <2>1, <2>2, TypeFacts DEF TypeOK, NodeIds
  <1>13. ~Spilled(n)' /\ NodeSlice(n)' = NilSlice
    BY <1>7, <1>8, <1>12 DEF Spilled, NodeSlice, NilSlice
  <1>14. /\ SinkInv' /\ Forest' = [Forest EXCEPT ![n] = ChildItems(n)']
         /\ ListItems' = Cut(ListItems, Len(lists')) /\ Saved' = Saved
    BY <1>0, <1>9, <1>10, <1>11, <1>13, HeldFacts, NodeGrows
  <1>15. ChildItems(n)' = Cut(g, Len(items))
    <2>1. ChildItems(n)' = InlineItems(n)'
      BY <1>12, <1>13, <1>14, ChildItemsNext
    <2> QED
      BY <1>7, <1>8, <1>12, <2>1 DEF InlineItems
  <1>16. Cut(g, Len(items)) = items
    <2>1. PICK m \in Nat : m = Len(items) /\ m <= Len(g)
      BY <1>2, <1>3, <1>6
    <2>2. Cut(g, m) \in Seq(Nat) /\ Len(Cut(g, m)) = m /\ \A i \in 1 .. m : Cut(g, m)[i] = g[i]
      BY <1>6, <2>1, CutFacts
    <2>3. PICK c \in Seq(Nat) : c = Cut(g, m)
      BY <2>2
    <2>4. Len(c) = Len(items) /\ \A i \in 1 .. Len(c) : c[i] = items[i]
      BY <1>6, <2>1, <2>2, <2>3
    <2>5. c = items
      BY <2>4, SeqEqual
    <2> QED
      BY <2>1, <2>3, <2>5
  <1> QED
    BY <1>14, <1>15, <1>16

\* Many items become children, in a new slice.
LEMMA SetManyStep ==
    ASSUME SinkInv, NEW n \in NodeIds, Young(n), NEW items \in Seq(Nat), SetMany(n, items),
           nodes' = [nodes EXCEPT ![n] = DataOf(n)], ListsKept, marks' = marks
    PROVE  /\ SinkInv'
           /\ Forest' = [Forest EXCEPT ![n] = items]
           /\ ListItems' = Cut(ListItems, Len(lists'))
           /\ Saved' = Saved
  <1> DEFINE at == DataOf(n)
             d == Ensured(n)
             r == Filled(Alloc(Arena, Len(items)), items)
  <1>0. /\ TypeOK /\ SinkAssumption /\ ArenaOK(Arena) /\ Inline \in Nat
        /\ Len(spills) \in Nat
    BY SinkFacts
  <1>1. d \in Seq(Entries) /\ at \in 1 .. Len(d) /\ d[at] \in Entries
    BY EnsuredFacts
  <1>2. /\ Len(items) > Inline /\ spills' = Append(spills, r.slice) /\ UseArena(r.arena)
        /\ data' = [d EXCEPT ![at].count = Len(items), ![at].spill = Len(spills) + 1]
    BY DEF SetMany
  <1>3. Len(items) \in Nat
    BY LenProperties
  <1>4. Gives(Arena, r.arena, NilSlice, r.slice, items)
    <2>1. PICK a : a = Arena /\ ArenaOK(a)
      BY <1>0
    <2>2. Len(items) \in Nat \ {0} /\ Len(items) > 0 /\ Len(items) <= Len(items)
      BY <1>0, <1>2, <1>3
    <2>3. r = Filled(Alloc(a, Len(items)), items)
      BY <2>1
    <2> HIDE DEF r
    <2>4. Gives(a, r.arena, NilSlice, r.slice, items)
      BY <1>0, <2>1, <2>2, <2>3, GivesAnew
    <2> QED
      BY <2>1, <2>4
  <1> HIDE DEF d, at, r
  <1>5. PICK x \in Entries : x = d[at]
    BY <1>1
  <1>6. PICK e : e = [x EXCEPT !.count = Len(items), !.spill = Len(spills) + 1]
    OBVIOUS
  <1>7. e \in Entries /\ e.count = Len(items) /\ e.spill = Len(spills) + 1
    <2>1. PICK f \in [1 .. Inline -> Nat], c \in Nat, p \in Nat : x = [inline |-> f, count |-> c, spill |-> p]
      BY DEF Entries
    <2>2. e = [inline |-> f, count |-> Len(items), spill |-> Len(spills) + 1]
      BY <1>6, <2>1
    <2> QED
      BY <1>0, <1>3, <2>2 DEF Entries
  <1>8. data' = [d EXCEPT ![at] = e]
    BY <1>1, <1>2, <1>5, <1>6
  <1>9. Spills(n, e, r.arena, r.slice)
    <2>1. e.count > Inline
      BY <1>2, <1>7
    <2> QED
      BY <1>2, <1>7, <1>8, <2>1 DEF Spills, d, at
  <1> QED
    BY <1>4, <1>9, SpilledStep

---------------------------------------------------------------------------
(* Steps that change the lists. *)

\* The first l lists are kept; behind them is no other, or one that is new.
ListStep(l, new) ==
    /\ UNCHANGED <<nodes, data, spills, marks>>
    /\ l \in Nat /\ l <= Len(lists)
    /\ lists' \in Seq(Slices) /\ Len(lists') \in {l, l + 1}
    /\ \A i \in 1 .. l : lists'[i] = lists[i]
    /\ Len(lists') = l + 1 => lists'[l + 1] = new
    /\ \A k \in DOMAIN marks : marks[k].lists <= l

\* What was the slice of the list that is not kept.
GivenUp(l, old) == old = NilSlice \/ (l < Len(lists) /\ old = lists[l + 1])

\* The nodes are not touched by a change of the lists, and neither are the
\* lists that are kept.
LEMMA ListStepKeeps ==
    ASSUME SinkInv, NEW l, NEW old, NEW new, NEW items, NEW a,
           ListStep(l, new), GivenUp(l, old), Gives(Arena, a, old, new, items), Arena' = a
    PROVE  /\ SinkInv'
           /\ Forest' = Forest /\ Saved' = Saved
           /\ ListItems' \in Views /\ Len(ListItems') = Len(lists')
           /\ \A i \in 1 .. l : ListItems'[i] = ListItems[i]
           /\ Len(lists') = l + 1 => ListItems'[l + 1] = items
  <1>1. /\ TypeOK /\ IndicesOK /\ SlicesOK /\ MarksOK /\ SinkAssumption /\ ArenaOK(Arena)
        /\ NodeIds = 1 .. Len(nodes) /\ Seen
    BY SinkFacts, SinkSeen DEF SinkInv
  <1>2. /\ UNCHANGED <<nodes, data, spills, marks>>
        /\ l \in Nat /\ l <= Len(lists)
        /\ lists' \in Seq(Slices) /\ Len(lists') \in {l, l + 1}
        /\ \A i \in 1 .. l : lists'[i] = lists[i]
        /\ Len(lists') = l + 1 => lists'[l + 1] = new
        /\ \A k \in DOMAIN marks : marks[k].lists <= l
    BY DEF ListStep
  <1>3. /\ ArenaOK(Arena') /\ Grows(Arena, Arena')
        /\ new \in Slices /\ Inside(Arena', new)
        /\ Items(Arena', new) = items
        /\ Spares(Arena, Arena', old, new)
    BY DEF Gives
  <1>4. TypeOK'
    <2>1. blocks' \in Seq(Seq(Nat)) /\ next' \in Nat
      BY <1>3 DEF ArenaOK, Arena
    <2>2. ArenaOK(Arena)'
      BY <1>3 DEF ArenaOK, LastSize
    <2> QED
      BY <1>1, <1>2, <2>1, <2>2 DEF TypeOK
  <1>5. /\ NodeIds' = NodeIds
        /\ \A m \in NodeIds : /\ nodes'[m] = nodes[m]
                              /\ Spilled(m)' <=> Spilled(m)
                              /\ SpillOf(m)' = SpillOf(m)
                              /\ NodeSlice(m)' = NodeSlice(m)
                              /\ InlineItems(m)' = InlineItems(m)
    BY <1>2 DEF NodeIds, Spilled, SpillOf, NodeSlice, InlineItems
  <1>6. IndicesOK'
    <2>1. nodes' = nodes /\ data' = data /\ spills' = spills /\ IndicesOK
      BY <1>1, <1>2
    <2> QED
      BY ONLY <2>1 DEF IndicesOK, NodeIds, Spilled, SpillOf
  <1>7. /\ Len(lists) \in Nat /\ DOMAIN lists = 1 .. Len(lists)
        /\ Len(nodes) \in Nat /\ Len(lists') \in Nat /\ DOMAIN lists' = 1 .. Len(lists')
        /\ Len(marks) \in Nat /\ DOMAIN marks = 1 .. Len(marks)
    BY <1>1, <1>2, TypeFacts, LenProperties
  <1>71. l \in Nat /\ l <= Len(lists) /\ (Len(lists') = l \/ Len(lists') = l + 1)
    BY DEF ListStep
  <1>72. l <= Len(lists')
    BY <1>71
  <1>73. \A i \in 1 .. l : /\ i \in Nat /\ i > 0 /\ i # l + 1
                           /\ i \in 1 .. Len(lists) /\ i \in 1 .. Len(lists')
    <2>1. PICK p \in Nat, q \in Nat : p = Len(lists) /\ q = Len(lists') /\ l <= p /\ l <= q
      BY <1>7, <1>71, <1>72
    <2>2. \A i \in 1 .. l : i \in Nat /\ i > 0 /\ i # l + 1 /\ i \in 1 .. p /\ i \in 1 .. q
      BY <1>71, <2>1
    <2> QED
      BY <2>1, <2>2
  <1>74. /\ nodes' = nodes /\ data' = data /\ spills' = spills /\ marks' = marks
         /\ \A m \in NodeIds : m \in Int /\ m > 0 /\ m \in 1 .. Len(nodes')
    <2>1. nodes' = nodes /\ data' = data /\ spills' = spills /\ marks' = marks
      BY DEF ListStep
    <2>2. \A m \in 1 .. Len(nodes) : m \in Int /\ m > 0
      BY <1>7
    <2> QED
      BY <1>1, <2>1, <2>2
  <1>8. PICK x \in Int : x = -(l + 1) /\ -x = l + 1 /\ ~(x > 0)
    <2>1. -(l + 1) \in Int /\ -(-(l + 1)) = l + 1 /\ ~(-(l + 1) > 0)
      BY <1>2
    <2> QED
      BY <2>1
  <1>9. ASSUME NEW h \in Holders', h # x
        PROVE  \/ h \in NodeIds /\ h > 0
               \/ -h \in 1 .. l /\ ~(h > 0)
    <2>1. h \in Int /\ (h \in 1 .. Len(nodes') \/ -h \in 1 .. Len(lists'))
      BY <1>9 DEF Holders
    <2>2. CASE h \in 1 .. Len(nodes')
      BY <1>1, <1>74, <2>2
    <2>3. CASE -h \in 1 .. Len(lists')
      <3>1. -h # l + 1
        <4>1. h # -(l + 1)
          BY <1>8, <1>9
        <4> QED
          BY <1>71, <2>1, <4>1
      <3>2. PICK q \in Nat : q = Len(lists') /\ (q = l \/ q = l + 1) /\ -h \in 1 .. q
        BY <1>7, <1>71, <2>3
      <3> QED
        BY <1>71, <2>1, <3>1, <3>2
    <2> QED
      BY <2>1, <2>2, <2>3
  <1>10. ASSUME NEW h \in Holders', h # x
         PROVE  h \in Holders /\ Held(h)' = Held(h) /\ Apart(old, Held(h))
    <2>0. h \in Int
      BY <1>10 DEF Holders
    <2>1. h \in Holders /\ Held(h)' = Held(h)
      <3>1. CASE h \in NodeIds /\ h > 0
        BY <1>1, <1>5, <2>0, <3>1 DEF Holders, Held
      <3>2. CASE -h \in 1 .. l /\ ~(h > 0)
        <4>1. -h \in 1 .. Len(lists)
          BY <1>73, <3>2
        <4>2. lists'[-h] = lists[-h]
          BY <1>2, <3>2
        <4> QED
          BY <2>0, <3>2, <4>1, <4>2 DEF Holders, Held
      <3> QED
        BY <1>9, <1>10, <3>1, <3>2
    <2>2. CASE old = NilSlice
      BY <2>1, <2>2 DEF Apart, NilSlice
    <2>3. CASE l < Len(lists) /\ old = lists[l + 1]
      <3>1. l + 1 \in 1 .. Len(lists)
        <4>1. PICK q \in Nat : q = Len(lists) /\ l < q
          BY <1>7, <2>3
        <4>2. l + 1 \in 1 .. q
          BY <1>71, <4>1
        <4> QED
          BY <4>1, <4>2
      <3>2. x \in Holders /\ Held(x) = old
        BY <1>8, <2>3, <3>1 DEF Holders, Held
      <3> QED
        BY <1>1, <1>10, <2>1, <3>2 DEF SlicesOK
    <2> QED
      BY <2>1, <2>2, <2>3 DEF GivenUp
  <1>11. x \in Holders' => Held(x)' = new
    <2>1. x \in Holders' => l + 1 \in 1 .. Len(lists')
      <3>1. x \in Holders' => x \in 1 .. Len(nodes') \/ -x \in 1 .. Len(lists')
        BY DEF Holders
      <3>2. x \notin 1 .. Len(nodes')
        BY <1>7, <1>74, <1>8
      <3>3. -x = l + 1
        BY <1>8
      <3> QED
        BY <3>1, <3>2, <3>3
    <2>2. l + 1 \in 1 .. Len(lists') => Len(lists') = l + 1
      <3>1. PICK q \in Nat : q = Len(lists') /\ (q = l \/ q = l + 1)
        BY <1>7, <1>71
      <3>2. l + 1 \in 1 .. q => q = l + 1
        BY <1>71, <3>1
      <3> QED
        BY <3>1, <3>2
    <2>3. Held(x)' = lists'[l + 1]
      BY <1>8 DEF Held
    <2> QED
      BY <1>2, <2>1, <2>2, <2>3
  <1>12. /\ SlicesOK'
         /\ \A h \in Holders' : h # x => Items(Arena', Held(h)) = Items(Arena, Held(h))
    BY <1>1, <1>3, <1>8, <1>10, <1>11, SlicesStep
  <1>13. ASSUME NEW k \in DOMAIN marks
         PROVE  /\ marks[k].nodes \in Nat /\ marks[k].nodes <= Len(nodes)
                /\ marks[k].lists \in Nat /\ marks[k].lists <= l
                /\ \A m \in 1 .. marks[k].nodes : m \in NodeIds
                /\ \A i \in 1 .. marks[k].lists : i \in 1 .. l
    <2>1. /\ marks[k].nodes \in Nat /\ marks[k].nodes <= Len(nodes)
          /\ marks[k].lists \in Nat /\ marks[k].lists <= l
      BY <1>1, <1>2, <1>7, <1>13 DEF Seen
    <2>2. PICK p \in Nat, q \in Nat : p = marks[k].nodes /\ q = marks[k].lists
      BY <2>1
    <2>3. (\A m \in 1 .. p : m \in NodeIds) /\ (\A i \in 1 .. q : i \in 1 .. l)
      <3>1. PICK N \in Nat : N = Len(nodes) /\ p <= N /\ q <= l
        BY <1>7, <2>1, <2>2
      <3>2. (\A m \in 1 .. p : m \in 1 .. N) /\ (\A i \in 1 .. q : i \in 1 .. l)
        BY <1>71, <3>1
      <3> QED
        BY <1>1, <3>1, <3>2
    <2> QED
      BY <2>1, <2>2, <2>3
  <1>14. MarksOK'
    <2>1. /\ Len(nodes) <= Len(nodes') /\ Len(data) <= Len(data') /\ Len(spills) <= Len(spills')
      <3>1. Len(nodes) \in Nat /\ Len(data) \in Nat /\ Len(spills) \in Nat
        BY <1>1, TypeFacts
      <3> QED
        BY <1>74, <3>1
    <2>2. \A k \in DOMAIN marks : marks[k].lists <= Len(lists')
      <3>1. ASSUME NEW k \in DOMAIN marks
            PROVE  marks[k].lists <= Len(lists')
        <4>1. PICK v \in Nat : v = marks[k].lists /\ v <= l
          BY <1>13, <3>1
        <4>2. PICK q \in Nat : q = Len(lists') /\ l <= q
          BY <1>7, <1>72
        <4>3. v <= q
          BY <1>71, <4>1, <4>2
        <4> QED
          BY <4>1, <4>2, <4>3
      <3> QED
        BY <3>1
    <2>3. \A k \in DOMAIN marks :
              /\ marks[k].lists <= Len(lists')
              /\ \A m \in 1 .. marks[k].nodes :
                    /\ nodes'[m] = nodes[m]
                    /\ Spilled(m)' <=> Spilled(m)
                    /\ Spilled(m) => SpillOf(m)' = SpillOf(m)
                    /\ NodeSlice(m)' = NodeSlice(m)
              /\ \A i \in 1 .. marks[k].lists : lists'[i] = lists[i]
      BY <1>2, <1>5, <1>13, <2>2
    <2>4. marks' = marks
      BY <1>2
    <2> QED
      BY <1>1, <1>3, <1>4, <2>1, <2>3, <2>4, MarksStep
  <1>15. SinkInv'
    BY <1>4, <1>6, <1>12, <1>14 DEF SinkInv
  <1>16. ASSUME NEW m \in NodeIds
         PROVE  ChildItems(m)' = ChildItems(m)
    <2>1. /\ Spilled(m) => ChildItems(m) = Items(Arena, NodeSlice(m))
          /\ ~Spilled(m) => ChildItems(m) = InlineItems(m)
      BY <1>1, ChildItemsFacts
    <2>2. /\ Spilled(m)' => ChildItems(m)' = Items(Arena', NodeSlice(m)')
          /\ ~Spilled(m)' => ChildItems(m)' = InlineItems(m)'
      BY <1>5, <1>15, ChildItemsNext
    <2>3. Items(Arena', NodeSlice(m)) = Items(Arena, NodeSlice(m))
      <3>1. m \in Holders' /\ Held(m) = NodeSlice(m) /\ m # x
        <4>1. m \in Holders /\ Held(m) = NodeSlice(m)
          BY <1>1, HeldFacts
        <4>2. m \in Int /\ m > 0 /\ m \in 1 .. Len(nodes')
          BY <1>74
        <4>3. m # x
          BY <1>8, <4>2
        <4> QED
          BY <4>1, <4>2, <4>3 DEF Holders
      <3> QED
        BY <1>12, <3>1
    <2> QED
      BY <1>5, <2>1, <2>2, <2>3
  <1>17. ASSUME NEW i \in 1 .. l
         PROVE  Items(Arena', lists'[i]) = Items(Arena, lists[i])
    <2>1. /\ i \in 1 .. Len(lists) /\ i \in 1 .. Len(lists') /\ lists'[i] = lists[i]
          /\ i \in Nat /\ i > 0 /\ i # l + 1
      BY <1>2, <1>73, <1>17
    <2>2. Held(-i) = lists[i]
      BY <1>1, <1>7, <2>1, HeldFacts
    <2>3. -i # x /\ -i \in Int /\ -(-i) = i
      BY <1>8, <2>1
    <2>4. -i \in Holders'
      BY <2>1, <2>3 DEF Holders
    <2> QED
      BY <1>12, <2>1, <2>2, <2>3, <2>4
  <1>18. Forest' = Forest
    BY <1>5, <1>16 DEF Forest
  <1>19. Saved' = Saved
    <2>1. \A k \in DOMAIN marks : marks[k].nodes <= Len(nodes') /\ marks[k].lists <= Len(lists')
      <3>1. ASSUME NEW k \in DOMAIN marks
            PROVE  marks[k].lists <= Len(lists')
        <4>1. PICK v \in Nat : v = marks[k].lists /\ v <= l
          BY <1>13, <3>1
        <4>2. PICK q \in Nat : q = Len(lists') /\ l <= q
          BY <1>7, <1>72
        <4>3. v <= q
          BY <1>71, <4>1, <4>2
        <4> QED
          BY <4>1, <4>2, <4>3
      <3> QED
        BY <1>13, <1>74, <3>1
    <2>2. \A k \in DOMAIN marks :
              /\ marks[k].nodes <= Len(nodes') /\ marks[k].lists <= Len(lists')
              /\ \A n \in 1 .. marks[k].nodes : ChildItems(n)' = ChildItems(n)
              /\ \A i \in 1 .. marks[k].lists :
                    Items(Arena', lists'[i]) = Items(Arena, lists[i])
      BY <1>13, <1>16, <1>17, <2>1
    <2> QED
      BY <1>15, <1>74, <2>2, SavedStep
  <1>20. Seen'
    BY <1>15, SeenNext
  <1>21. /\ ListItems' \in Views /\ Len(ListItems') = Len(lists')
         /\ \A i \in 1 .. Len(lists') : ListItems'[i] = Items(Arena', lists'[i])
    BY <1>20 DEF Seen, Items
  <1>22. \A i \in 1 .. l : ListItems'[i] = ListItems[i]
    <2>1. \A i \in 1 .. l : i \in 1 .. Len(lists) /\ i \in 1 .. Len(lists')
      BY <1>73
    <2>2. \A i \in 1 .. Len(lists) : ListItems[i] = Items(Arena, lists[i])
      BY <1>1 DEF Seen
    <2> QED
      BY <1>17, <1>21, <2>1, <2>2
  <1>23. Len(lists') = l + 1 => ListItems'[l + 1] = items
    BY <1>2, <1>3, <1>21
  <1> QED
    BY <1>15, <1>18, <1>19, <1>21, <1>22, <1>23

\* One more, at the end.
LEMMA LastAdded ==
    ASSUME NEW p \in Views, NEW q \in Views, NEW x \in Seq(Nat), Len(q) = Len(p) + 1,
           \A i \in 1 .. Len(p) : q[i] = p[i], q[Len(p) + 1] = x
    PROVE  q = Append(p, x)
  <1>1. p \in Seq(Seq(Nat)) /\ q \in Seq(Seq(Nat)) /\ Len(p) \in Nat
    BY LenProperties DEF Views
  <1>2. PICK r : r = Append(p, x)
    OBVIOUS
  <1>3. /\ r \in Seq(Seq(Nat)) /\ Len(r) = Len(p) + 1 /\ r[Len(p) + 1] = x
        /\ \A i \in 1 .. Len(p) : r[i] = p[i]
    BY <1>1, <1>2, AppendProperties
  <1>4. ASSUME NEW i \in 1 .. Len(q)
        PROVE  q[i] = r[i]
    <2>1. i \in 1 .. Len(p) \/ i = Len(p) + 1
      BY <1>1, <1>4
    <2> QED
      BY <1>3, <2>1
  <1>5. q = r
    BY <1>1, <1>3, <1>4, SeqEqual
  <1> QED
    BY <1>2, <1>5

\* The last one replaced.
LEMMA LastReplaced ==
    ASSUME NEW p \in Views, NEW q \in Views, NEW x \in Seq(Nat), NEW l \in Nat,
           Len(p) = l + 1, Len(q) = l + 1,
           \A i \in 1 .. l : q[i] = p[i], q[l + 1] = x
    PROVE  q = [p EXCEPT ![l + 1] = x]
  <1>1. p \in Seq(Seq(Nat)) /\ q \in Seq(Seq(Nat)) /\ l + 1 \in 1 .. Len(p)
    BY DEF Views
  <1>2. PICK r : r = [p EXCEPT ![l + 1] = x]
    OBVIOUS
  <1>3. /\ r \in Seq(Seq(Nat)) /\ Len(r) = Len(p) /\ r[l + 1] = x
        /\ \A i \in 1 .. Len(p) : i # l + 1 => r[i] = p[i]
    BY <1>1, <1>2, ExceptSeq
  <1>4. ASSUME NEW i \in 1 .. Len(q)
        PROVE  q[i] = r[i]
    <2>1. i \in 1 .. Len(p) /\ ((i \in 1 .. l /\ i # l + 1) \/ i = l + 1)
      BY <1>4
    <2> QED
      BY <1>3, <2>1
  <1>5. q = r
    BY <1>1, <1>3, <1>4, SeqEqual
  <1> QED
    BY <1>2, <1>5

\* The last one dropped.
LEMMA LastDropped ==
    ASSUME NEW p \in Views, NEW q \in Views, NEW l \in Nat, l <= Len(p), Len(q) = l,
           \A i \in 1 .. l : q[i] = p[i]
    PROVE  q = Cut(p, l)
  <1>1. p \in Seq(Seq(Nat)) /\ q \in Seq(Seq(Nat))
    BY DEF Views
  <1>2. PICK r : r = Cut(p, l)
    OBVIOUS
  <1>3. r \in Seq(Seq(Nat)) /\ Len(r) = l /\ \A i \in 1 .. l : r[i] = p[i]
    BY <1>1, <1>2, CutFacts
  <1>4. q = r
    BY <1>1, <1>3, SeqEqual
  <1> QED
    BY <1>2, <1>4

\* Where the arena stays as it is, nothing is written.
LEMMA GivesNothing ==
    ASSUME SinkInv, UNCHANGED <<blocks, next>>
    PROVE  /\ Arena' = Arena /\ Gives(Arena, Arena, NilSlice, NilSlice, <<>>)
  <1>1. TypeOK /\ NilSlice \in Slices
    BY HeldFacts DEF SinkInv
  <1>2. /\ Arena' = Arena /\ ArenaOK(Arena') /\ Grows(Arena, Arena')
        /\ Inside(Arena', NilSlice) /\ Spares(Arena, Arena', NilSlice, NilSlice)
    BY <1>1, ArenaSame
  <1>3. Items(Arena, NilSlice) = <<>>
    BY DEF Items, NilSlice
  <1> QED
    BY <1>1, <1>2, <1>3 DEF Gives

\* A list is opened.
LEMMA OpenListStep ==
    ASSUME SinkInv, OpenList
    PROVE  SinkInv' /\ Forest' = Forest /\ ListItems' = Append(ListItems, <<>>) /\ Saved' = Saved
  <1>1. /\ TypeOK /\ IndicesOK /\ Seen /\ NilSlice \in Slices /\ lists \in Seq(Slices)
        /\ Len(lists) \in Nat /\ DOMAIN marks = 1 .. Len(marks)
    BY SinkSeen, HeldFacts, TypeFacts DEF SinkInv, TypeOK
  <1>2. lists' = Append(lists, NilSlice) /\ UNCHANGED <<nodes, data, spills, blocks, next, marks>>
    BY DEF OpenList
  <1>3. PICK l \in Nat : l = Len(lists)
    BY <1>1
  <1>4. /\ lists' \in Seq(Slices) /\ Len(lists') = l + 1 /\ lists'[l + 1] = NilSlice
        /\ \A i \in 1 .. l : lists'[i] = lists[i]
    BY <1>1, <1>2, <1>3, AppendProperties
  <1>5. ListStep(l, NilSlice)
    <2>1. \A k \in DOMAIN marks : marks[k].lists <= l
      BY <1>1, <1>3 DEF Seen
    <2>2. l <= Len(lists) /\ Len(lists') \in {l, l + 1}
      BY <1>3, <1>4
    <2> QED
      BY <1>2, <1>4, <2>1, <2>2 DEF ListStep
  <1>6. Arena' = Arena /\ Gives(Arena, Arena, NilSlice, NilSlice, <<>>) /\ GivenUp(l, NilSlice)
    BY <1>2, GivesNothing DEF GivenUp
  <1>7. /\ SinkInv' /\ Forest' = Forest /\ Saved' = Saved
        /\ ListItems' \in Views /\ Len(ListItems') = Len(lists')
        /\ \A i \in 1 .. l : ListItems'[i] = ListItems[i]
        /\ Len(lists') = l + 1 => ListItems'[l + 1] = <<>>
    BY <1>5, <1>6, ListStepKeeps
  <1>8. PICK p \in Views, q \in Views : p = ListItems /\ q = ListItems' /\ Len(p) = l
    BY <1>1, <1>3, <1>7 DEF Seen
  <1>9. q = Append(p, <<>>)
    <2>1. Len(q) = Len(p) + 1 /\ (\A i \in 1 .. Len(p) : q[i] = p[i]) /\ q[Len(p) + 1] = <<>>
      BY <1>4, <1>7, <1>8
    <2>2. <<>> \in Seq(Nat)
      OBVIOUS
    <2> QED
      BY <2>1, <2>2, LastAdded
  <1> QED
    BY <1>7, <1>8, <1>9

\* A list is closed.
LEMMA CloseListStep ==
    ASSUME SinkInv, CloseList
    PROVE  /\ SinkInv' /\ Forest' = Forest /\ Saved' = Saved
           /\ ListItems' = Cut(ListItems, Len(ListItems) - 1)
  <1>1. /\ TypeOK /\ IndicesOK /\ Seen /\ NilSlice \in Slices /\ lists \in Seq(Slices)
        /\ Len(lists) \in Nat /\ DOMAIN marks = 1 .. Len(marks)
    BY SinkSeen, HeldFacts, TypeFacts DEF SinkInv, TypeOK
  <1>2. /\ YoungList /\ lists' = Cut(lists, Len(lists) - 1)
        /\ UNCHANGED <<nodes, data, spills, blocks, next, marks>>
    BY DEF CloseList
  <1>3. ListsKept
    BY <1>2 DEF ListsKept
  <1>4. Len(lists) \in 1 .. Len(lists)
    BY <1>2, LastList
  <1>5. PICK l \in Nat : l = Len(lists) - 1 /\ l <= Len(lists)
    <2>1. Len(lists) - 1 \in Nat /\ Len(lists) - 1 <= Len(lists)
      BY <1>1, <1>4
    <2> QED
      BY <2>1
  <1>6. /\ lists' \in Seq(Slices) /\ Len(lists') = l
        /\ \A i \in 1 .. l : lists'[i] = lists[i]
    BY <1>1, <1>2, <1>5, CutFacts
  <1>7. ListStep(l, NilSlice)
    <2>1. \A k \in DOMAIN marks : marks[k].lists <= l
      BY <1>3, <1>6, KeptLists
    <2>2. Len(lists') \in {l, l + 1} /\ Len(lists') # l + 1
      BY <1>6
    <2> QED
      BY <1>2, <1>5, <1>6, <2>1, <2>2 DEF ListStep
  <1>8. Arena' = Arena /\ Gives(Arena, Arena, NilSlice, NilSlice, <<>>) /\ GivenUp(l, NilSlice)
    BY <1>2, GivesNothing DEF GivenUp
  <1>9. /\ SinkInv' /\ Forest' = Forest /\ Saved' = Saved
        /\ ListItems' \in Views /\ Len(ListItems') = Len(lists')
        /\ \A i \in 1 .. l : ListItems'[i] = ListItems[i]
    BY <1>7, <1>8, ListStepKeeps
  <1>10. PICK p \in Views, q \in Views : p = ListItems /\ q = ListItems' /\ Len(p) = Len(lists)
    BY <1>1, <1>9 DEF Seen
  <1>11. q = Cut(p, l)
    <2>1. l <= Len(p) /\ Len(q) = l /\ \A i \in 1 .. l : q[i] = p[i]
      BY <1>5, <1>6, <1>9, <1>10
    <2> QED
      BY <2>1, LastDropped
  <1> QED
    BY <1>5, <1>9, <1>10, <1>11

\* An item is appended to the innermost list.
LEMMA AppendItemStep ==
    ASSUME SinkInv, NEW node \in NodeIds, AppendItem(node)
    PROVE  /\ SinkInv' /\ Forest' = Forest /\ Saved' = Saved
           /\ ListItems' = [ListItems EXCEPT ![Len(ListItems)] = Append(ListItems[Len(ListItems)], node)]
  <1> DEFINE r == Appended(Arena, lists[Len(lists)], node)
  <1>1. /\ TypeOK /\ SinkAssumption /\ ArenaOK(Arena) /\ Seen /\ lists \in Seq(Slices) /\ node \in Nat
        /\ Len(lists) \in Nat /\ DOMAIN marks = 1 .. Len(marks) /\ Len(marks) \in Nat
    BY SinkSeen, SinkFacts, TypeFacts DEF SinkInv, TypeOK
  <1>2. /\ YoungList /\ lists' = [lists EXCEPT ![Len(lists)] = r.slice]
        /\ UseArena(r.arena) /\ UNCHANGED <<nodes, data, spills, marks>>
    BY DEF AppendItem
  <1>3. /\ Len(lists) \in 1 .. Len(lists)
        /\ lists[Len(lists)] \in Slices /\ Inside(Arena, lists[Len(lists)])
        /\ Items(Arena, lists[Len(lists)]) \in Seq(Nat)
        /\ ListItems[Len(lists)] = Items(Arena, lists[Len(lists)])
    BY <1>2, LastList
  <1>4. PICK l \in Nat : Len(lists) = l + 1
    <2>1. Len(lists) - 1 \in Nat /\ Len(lists) = (Len(lists) - 1) + 1
      BY <1>1, <1>3
    <2> QED
      BY <2>1
  <1>5. PICK s \in Slices : s = lists[Len(lists)]
    BY <1>3
  <1>6. Gives(Arena, r.arena, s, r.slice, Append(Items(Arena, s), node))
    <2>1. PICK a : a = Arena /\ ArenaOK(a) /\ Inside(a, s)
      BY <1>1, <1>3, <1>5
    <2>2. r = Appended(a, s, node)
      BY <1>5, <2>1
    <2> HIDE DEF r
    <2>3. Gives(a, r.arena, s, r.slice, Append(Items(a, s), node))
      BY <1>1, <2>1, <2>2, GivesMore
    <2> QED
      BY <2>1, <2>3
  <1> HIDE DEF r
  <1>7. ArenaOK(r.arena) /\ r.slice \in Slices
    BY <1>6 DEF Gives
  <1>8. Arena' = r.arena
    BY <1>2, <1>7, UseArenaFacts
  <1>9. /\ lists' \in Seq(Slices) /\ Len(lists') = l + 1 /\ lists'[l + 1] = r.slice
        /\ \A i \in 1 .. l : lists'[i] = lists[i]
    <2>1. \A i \in 1 .. l : i \in 1 .. l + 1 /\ i # l + 1
      OBVIOUS
    <2> QED
      BY <1>1, <1>2, <1>3, <1>4, <1>7, <2>1, ExceptSeq
  <1>10. ListStep(l, r.slice)
    <2>1. ASSUME NEW k \in DOMAIN marks
          PROVE  marks[k].lists <= l
      <3>1. PICK v \in Nat : v = marks[k].lists
        BY <1>1, <2>1 DEF Seen
      <3>2. l + 1 > v
        BY <1>2, <1>4, <2>1, <3>1 DEF YoungList
      <3> QED
        BY <3>1, <3>2
    <2>2. l <= Len(lists) /\ Len(lists') \in {l, l + 1}
      BY <1>4, <1>9
    <2> QED
      BY <1>2, <1>9, <2>1, <2>2 DEF ListStep
  <1>11. GivenUp(l, s)
    <2>1. l < Len(lists) /\ s = lists[l + 1]
      BY <1>4, <1>5
    <2> QED
      BY <2>1 DEF GivenUp
  <1>12. PICK items : items = Append(Items(Arena, s), node)
    OBVIOUS
  <1>13. /\ SinkInv' /\ Forest' = Forest /\ Saved' = Saved
         /\ ListItems' \in Views /\ Len(ListItems') = Len(lists')
         /\ \A i \in 1 .. l : ListItems'[i] = ListItems[i]
         /\ Len(lists') = l + 1 => ListItems'[l + 1] = items
    BY <1>6, <1>8, <1>10, <1>11, <1>12, ListStepKeeps
  <1>14. PICK p \in Views, q \in Views : p = ListItems /\ q = ListItems' /\ Len(p) = l + 1
    BY <1>1, <1>4, <1>13 DEF Seen
  <1>15. items \in Seq(Nat)
    BY <1>1, <1>3, <1>5, <1>12, AppendProperties
  <1>16. q = [p EXCEPT ![l + 1] = items]
    <2>1. Len(q) = l + 1 /\ (\A i \in 1 .. l : q[i] = p[i]) /\ q[l + 1] = items
      BY <1>9, <1>13, <1>14
    <2> QED
      BY <1>14, <1>15, <2>1, LastReplaced
  <1>17. items = Append(p[l + 1], node)
    BY <1>3, <1>4, <1>5, <1>12, <1>14
  <1> QED
    BY <1>13, <1>14, <1>16, <1>17

---------------------------------------------------------------------------
(* A new node. *)

\* A node is made, without children.
LEMMA NewStep ==
    ASSUME SinkInv, New
    PROVE  SinkInv' /\ Forest' = Append(Forest, <<>>) /\ ListItems' = ListItems /\ Saved' = Saved
  <1>1. /\ TypeOK /\ IndicesOK /\ SlicesOK /\ MarksOK /\ SinkAssumption /\ Seen
        /\ NodeIds = 1 .. Len(nodes) /\ nodes \in Seq(Nat)
        /\ Len(nodes) \in Nat /\ Len(lists) \in Nat /\ DOMAIN lists = 1 .. Len(lists)
        /\ DOMAIN marks = 1 .. Len(marks) /\ NilSlice \in Slices
        /\ Len(data) \in Nat /\ Len(spills) \in Nat
    BY SinkFacts, SinkSeen, TypeFacts, HeldFacts DEF SinkInv, TypeOK
  <1>2. nodes' = Append(nodes, 0) /\ UNCHANGED <<data, spills, blocks, next, lists, marks>>
    BY DEF New
  <1>3. PICK N \in Nat : N = Len(nodes)
    BY <1>1
  <1>4. /\ nodes' \in Seq(Nat) /\ Len(nodes') = N + 1 /\ nodes'[N + 1] = 0
        /\ \A m \in 1 .. N : nodes'[m] = nodes[m]
    BY <1>1, <1>2, <1>3, AppendProperties
  <1>5. \A m \in 1 .. N : /\ nodes'[m] = nodes[m]
                          /\ Spilled(m)' <=> Spilled(m)
                          /\ SpillOf(m)' = SpillOf(m)
                          /\ NodeSlice(m)' = NodeSlice(m)
                          /\ InlineItems(m)' = InlineItems(m)
    BY <1>2, <1>4 DEF Spilled, SpillOf, NodeSlice, InlineItems
  <1>6. ~Spilled(N + 1)' /\ NodeSlice(N + 1)' = NilSlice /\ ChildItems(N + 1)' = <<>>
    BY <1>4 DEF Spilled, NodeSlice, NilSlice, ChildItems
  <1>7. Arena' = Arena /\ Gives(Arena, Arena, NilSlice, NilSlice, <<>>)
    BY <1>2, GivesNothing
  <1>8. /\ ArenaOK(Arena') /\ Grows(Arena, Arena') /\ Inside(Arena', NilSlice)
        /\ Spares(Arena, Arena', NilSlice, NilSlice)
    BY <1>7 DEF Gives
  <1>9. TypeOK'
    <2>1. ArenaOK(Arena)'
      BY <1>8 DEF ArenaOK, LastSize
    <2> QED
      BY <1>1, <1>2, <1>4, <2>1 DEF TypeOK
  <1>10. NodeIds' = 1 .. N + 1
    BY <1>4 DEF NodeIds
  <1>11. \A m \in NodeIds' : m \in 1 .. N \/ m = N + 1
    BY <1>10
  <1>12. IndicesOK'
    <2>1. ASSUME NEW m \in NodeIds'
          PROVE  nodes'[m] <= Len(data') /\ (Spilled(m)' => SpillOf(m)' \in 1 .. Len(spills'))
      <3>1. CASE m \in 1 .. N
        BY <1>1, <1>2, <1>3, <1>5, <3>1 DEF IndicesOK
      <3>2. CASE m = N + 1
        BY <1>1, <1>2, <1>4, <1>6, <3>2
      <3> QED
        BY <1>11, <2>1, <3>1, <3>2
    <2>2. ASSUME NEW l \in NodeIds', NEW m \in NodeIds', l # m
          PROVE  /\ nodes'[l] # 0 => nodes'[l] # nodes'[m]
                 /\ Spilled(l)' /\ Spilled(m)' => SpillOf(l)' # SpillOf(m)'
      <3>1. CASE l \in 1 .. N /\ m \in 1 .. N
        BY <1>1, <1>3, <1>5, <2>2, <3>1 DEF IndicesOK
      <3>2. CASE l = N + 1 \/ m = N + 1
        BY <1>4, <1>6, <3>2
      <3> QED
        BY <1>11, <2>2, <3>1, <3>2
    <2> QED
      BY <2>1, <2>2 DEF IndicesOK
  <1>13. ASSUME NEW h \in Holders', h # N + 1
         PROVE  h \in Holders /\ Held(h)' = Held(h) /\ Apart(NilSlice, Held(h))
    <2>1. h \in Int /\ (h \in 1 .. Len(nodes') \/ -h \in 1 .. Len(lists'))
      BY <1>13 DEF Holders
    <2>2. CASE h \in 1 .. Len(nodes')
      <3>1. h \in 1 .. N /\ h > 0
        BY <1>4, <1>13, <2>2
      <3> QED
        BY <1>3, <1>5, <2>1, <3>1 DEF Holders, Held, Apart, NilSlice
    <2>3. CASE -h \in 1 .. Len(lists')
      <3>1. ~(h > 0) /\ -h \in 1 .. Len(lists)
        BY <1>1, <1>2, <2>1, <2>3
      <3> QED
        BY <1>2, <2>1, <3>1 DEF Holders, Held, Apart, NilSlice
    <2> QED
      BY <2>1, <2>2, <2>3
  <1>14. N + 1 \in Holders' => Held(N + 1)' = NilSlice
    <2>1. N + 1 > 0
      OBVIOUS
    <2> QED
      BY <1>6, <2>1 DEF Held
  <1>15. /\ SlicesOK'
         /\ \A h \in Holders' : h # N + 1 => Items(Arena', Held(h)) = Items(Arena, Held(h))
    <2>1. PICK x \in Int : x = N + 1
      OBVIOUS
    <2>2. /\ SlicesOK'
          /\ \A h \in Holders' : h # x => Items(Arena', Held(h)) = Items(Arena, Held(h))
      BY <1>1, <1>8, <1>13, <1>14, <2>1, SlicesStep
    <2> QED
      BY <2>1, <2>2
  <1>16. ASSUME NEW k \in DOMAIN marks
         PROVE  /\ marks[k].nodes \in Nat /\ marks[k].nodes <= N /\ marks[k].lists <= Len(lists)
                /\ \A m \in 1 .. marks[k].nodes : m \in 1 .. N
    <2>1. PICK p \in Nat : p = marks[k].nodes /\ p <= N /\ marks[k].lists <= Len(lists)
      BY <1>1, <1>3, <1>16 DEF Seen
    <2>2. \A m \in 1 .. p : m \in 1 .. N
      BY <2>1
    <2> QED
      BY <2>1, <2>2
  <1>17. MarksOK'
    <2>1. Len(nodes) <= Len(nodes') /\ Len(data) <= Len(data') /\ Len(spills) <= Len(spills')
      BY <1>1, <1>2, <1>3, <1>4
    <2>2. \A k \in DOMAIN marks :
              /\ marks[k].lists <= Len(lists')
              /\ \A m \in 1 .. marks[k].nodes :
                    /\ nodes'[m] = nodes[m]
                    /\ Spilled(m)' <=> Spilled(m)
                    /\ Spilled(m) => SpillOf(m)' = SpillOf(m)
                    /\ NodeSlice(m)' = NodeSlice(m)
              /\ \A i \in 1 .. marks[k].lists : lists'[i] = lists[i]
      BY <1>2, <1>5, <1>16
    <2>3. marks' = marks
      BY <1>2
    <2> QED
      BY <1>1, <1>8, <1>9, <2>1, <2>2, <2>3, MarksStep
  <1>18. SinkInv'
    BY <1>9, <1>12, <1>15, <1>17 DEF SinkInv
  <1>19. ASSUME NEW m \in 1 .. N
         PROVE  ChildItems(m)' = ChildItems(m)
    BY <1>2, <1>4 DEF ChildItems, Items, Arena
  <1>20. ListItems' = ListItems
    BY <1>2 DEF ListItems, Items, Arena
  <1>21. Saved' = Saved
    <2>1. \A k \in DOMAIN marks :
              /\ marks[k].nodes <= Len(nodes') /\ marks[k].lists <= Len(lists')
              /\ \A n \in 1 .. marks[k].nodes : ChildItems(n)' = ChildItems(n)
              /\ \A i \in 1 .. marks[k].lists :
                    Items(Arena', lists'[i]) = Items(Arena, lists[i])
      <3>1. ASSUME NEW k \in DOMAIN marks
            PROVE  marks[k].nodes <= Len(nodes')
        <4>1. PICK p \in Nat : p = marks[k].nodes /\ p <= N
          BY <1>16, <3>1
        <4>2. p <= N + 1
          BY <4>1
        <4> QED
          BY <1>4, <4>1, <4>2
      <3> QED
        BY <1>2, <1>7, <1>16, <1>19, <3>1
    <2>2. marks' = marks
      BY <1>2
    <2> QED
      BY <1>18, <2>1, <2>2, SavedStep
  <1>22. Forest' = Append(Forest, <<>>)
    <2>1. PICK p \in Views, q \in Views : p = Forest /\ q = Forest' /\ Len(p) = N /\ Len(q) = N + 1
      BY <1>1, <1>3, <1>4, <1>18, SeenNext DEF Seen
    <2>2. ASSUME NEW m \in 1 .. N
          PROVE  q[m] = p[m]
      <3>1. m \in NodeIds' /\ m \in NodeIds
        BY <1>1, <1>3, <1>10
      <3> QED
        BY <1>19, <2>1, <3>1 DEF Forest
    <2>3. q[N + 1] = <<>>
      <3>1. N + 1 \in NodeIds'
        BY <1>10
      <3> QED
        BY <1>6, <2>1, <3>1 DEF Forest
    <2>4. Len(q) = Len(p) + 1 /\ (\A m \in 1 .. Len(p) : q[m] = p[m]) /\ q[Len(p) + 1] = <<>>
      BY <2>1, <2>2, <2>3
    <2>5. <<>> \in Seq(Nat)
      OBVIOUS
    <2> QED
      BY <2>1, <2>4, <2>5, LastAdded
  <1> QED
    BY <1>18, <1>20, <1>21, <1>22

\* A child is added.
LEMMA AddChildStep ==
    ASSUME SinkInv, NEW n \in NodeIds, NEW child \in NodeIds, AddChild(n, child)
    PROVE  /\ SinkInv' /\ child # n /\ Young(n)
           /\ Forest' = [Forest EXCEPT ![n] = Append(Forest[n], child)]
           /\ ListItems' = ListItems /\ Saved' = Saved
  <1>1. /\ child # n /\ Young(n) /\ UNCHANGED <<lists, marks>>
        /\ AddInline(n, child) \/ AddFirstSpilled(n, child) \/ AddSpilled(n, child)
    BY DEF AddChild
  <1> QED
    BY <1>1, AddInlineStep, AddFirstSpilledStep, AddSpilledStep

\* The items of the innermost list become children.
LEMMA SetChildrenStep ==
    ASSUME SinkInv, NEW n \in NodeIds, SetChildren(n)
    PROVE  /\ SinkInv' /\ YoungList /\ Young(n)
           /\ \A i \in DOMAIN ListItems[Len(ListItems)] : ListItems[Len(ListItems)][i] # n
           /\ Forest' = [Forest EXCEPT ![n] = ListItems[Len(ListItems)]]
           /\ ListItems' = Cut(ListItems, Len(ListItems) - 1)
           /\ Saved' = Saved
  <1>1. PICK items : items = Items(Arena, lists[Len(lists)])
    OBVIOUS
  <1>2. /\ YoungList /\ Young(n) /\ \A i \in DOMAIN items : items[i] # n
        /\ SetFew(n, items) \/ SetMany(n, items)
        /\ nodes' = [nodes EXCEPT ![n] = DataOf(n)]
        /\ lists' = Cut(lists, Len(lists) - 1)
        /\ UNCHANGED marks
    BY <1>1 DEF SetChildren
  <1>3. items \in Seq(Nat) /\ ListItems[Len(lists)] = items /\ Len(ListItems) = Len(lists)
    BY <1>1, <1>2, LastList, SinkSeen DEF Seen
  <1>4. ListsKept
    BY <1>2 DEF ListsKept
  <1>5. Len(lists') = Len(lists) - 1
    <2>1. Len(lists) \in Nat /\ Len(lists) \in 1 .. Len(lists) /\ lists \in Seq(Slices)
      BY <1>2, LastList DEF SinkInv, TypeOK
    <2>2. PICK l \in Nat : l = Len(lists) - 1 /\ l <= Len(lists)
      <3>1. Len(lists) - 1 \in Nat /\ Len(lists) - 1 <= Len(lists)
        BY <2>1
      <3> QED
        BY <3>1
    <2>3. Len(Cut(lists, l)) = l
      BY <2>1, <2>2, CutFacts
    <2> QED
      BY <1>2, <2>2, <2>3
  <1>6. /\ SinkInv' /\ Forest' = [Forest EXCEPT ![n] = items]
        /\ ListItems' = Cut(ListItems, Len(lists')) /\ Saved' = Saved
    BY <1>2, <1>3, <1>4, SetFewStep, SetManyStep
  <1> QED
    BY <1>2, <1>3, <1>5, <1>6

---------------------------------------------------------------------------
(* Marks. *)

SavedRecords == [children : Views, lists : Views]

\* Marking and dropping a mark touches nothing but the marks.
LEMMA OnlyMarks ==
    ASSUME SinkInv, UNCHANGED <<nodes, data, spills, blocks, next, lists>>
    PROVE  /\ IndicesOK' /\ SlicesOK' /\ Forest' = Forest /\ ListItems' = ListItems
           /\ marks' \in Seq(MarkRecords) => TypeOK'
           /\ Lengths' = Lengths
  <1>0. /\ nodes' = nodes /\ data' = data /\ spills' = spills /\ lists' = lists
        /\ IndicesOK /\ SlicesOK /\ Arena' = Arena
    BY DEF SinkInv, Arena
  <1>1. IndicesOK'
    BY ONLY <1>0 DEF IndicesOK, NodeIds, Spilled, SpillOf
  <1>2. SlicesOK'
    <2>1. Holders' = Holders
      BY <1>0 DEF Holders
    <2>2. \A h : Held(h)' = Held(h)
      BY <1>0 DEF Held, NodeSlice, Spilled, SpillOf, NilSlice
    <2>3. /\ \A h \in Holders' : Held(h)' \in Slices /\ Inside(Arena', Held(h)')
          /\ \A g, h \in Holders' : g # h => Apart(Held(g)', Held(h)')
      BY <1>0, <2>1, <2>2 DEF SlicesOK
    <2> QED
      BY <2>3 DEF SlicesOK, Inside, Before, Apart
  <1>3. Forest' = Forest /\ ListItems' = ListItems
    BY DEF Forest, ListItems, NodeIds, ChildItems, Items, Arena
  <1>4. marks' \in Seq(MarkRecords) => TypeOK'
    <2>1. ArenaOK(Arena)'
      BY DEF SinkInv, TypeOK, ArenaOK, Arena, LastSize
    <2> QED
      BY <2>1 DEF SinkInv, TypeOK
  <1>5. Lengths' = Lengths
    BY DEF Lengths
  <1> QED
    BY <1>1, <1>2, <1>3, <1>4, <1>5

\* All that is older than mark m lies within its lengths.
Older(m) ==
    /\ NotBeyond(m, Lengths)
    /\ m.blocks = 0 => m.next = 0
    /\ m.blocks # 0 => m.next <= Len(blocks[m.blocks])
    /\ \A n \in 1 .. m.nodes :
          /\ nodes[n] <= m.data
          /\ Spilled(n) => SpillOf(n) <= m.spills
          /\ Before(NodeSlice(n), m.blocks, m.next)
    /\ \A i \in 1 .. m.lists : Before(lists[i], m.blocks, m.next)

AllOlder ==
    /\ \A k \in DOMAIN marks : \E m : m = marks[k] /\ Older(m)
    /\ \A j, k \in DOMAIN marks : j < k => NotBeyond(marks[j], marks[k])

\* The order of the marks, mark by mark.
LEMMA MarksAreOlder == MarksOK <=> AllOlder
  BY DEF MarksOK, AllOlder, Older

\* What is older than a mark stays so where nothing but the marks changes.
LEMMA OlderStays ==
    ASSUME UNCHANGED <<nodes, data, spills, blocks, next, lists>>, NEW m, Older(m)
    PROVE  Older(m)'
  BY DEF Older, NotBeyond, Lengths, Spilled, SpillOf, NodeSlice, Before

\* All there is lies within the lengths of a mark set now.
LEMMA OlderNow ==
    ASSUME SinkInv
    PROVE  Lengths \in MarkRecords /\ Older(Lengths)
  <1>1. /\ TypeOK /\ IndicesOK /\ SlicesOK /\ ArenaOK(Arena) /\ NodeIds = 1 .. Len(nodes)
        /\ Len(nodes) \in Nat /\ Len(data) \in Nat /\ Len(spills) \in Nat /\ Len(lists) \in Nat
        /\ DOMAIN lists = 1 .. Len(lists)
    BY SinkFacts, TypeFacts
  <1>2. Len(blocks) \in Nat /\ next \in Nat /\ blocks \in Seq(Seq(Nat))
    BY <1>1, TypeFacts DEF TypeOK
  <1>3. /\ blocks = <<>> => next = 0
        /\ blocks # <<>> => next <= Len(blocks[Len(blocks)])
    BY <1>1 DEF ArenaOK, Arena, LastSize
  <1>4. /\ Lengths.nodes = Len(nodes) /\ Lengths.data = Len(data) /\ Lengths.spills = Len(spills)
        /\ Lengths.blocks = Len(blocks) /\ Lengths.next = next /\ Lengths.lists = Len(lists)
    BY DEF Lengths
  <1>5. Lengths \in MarkRecords
    BY <1>1, <1>2 DEF Lengths, MarkRecords
  <1>6. NotBeyond(Lengths, Lengths)
    BY <1>1, <1>2, <1>4 DEF NotBeyond
  <1>7. /\ Lengths.blocks = 0 => Lengths.next = 0
        /\ Lengths.blocks # 0 => Lengths.next <= Len(blocks[Lengths.blocks])
    <2>1. Len(blocks) = 0 <=> blocks = <<>>
      BY <1>2, EmptySeq
    <2> QED
      BY <1>3, <1>4, <2>1
  <1>8. ASSUME NEW n \in NodeIds
        PROVE  /\ nodes[n] <= Len(data)
               /\ Spilled(n) => SpillOf(n) <= Len(spills)
               /\ Before(NodeSlice(n), Len(blocks), next)
    <2>1. nodes[n] <= Len(data) /\ (Spilled(n) => SpillOf(n) \in 1 .. Len(spills))
      BY <1>1 DEF IndicesOK
    <2>2. Spilled(n) => SpillOf(n) <= Len(spills)
      BY <1>1, <2>1
    <2>3. Inside(Arena, NodeSlice(n))
      BY <1>1, HeldFacts DEF SlicesOK
    <2> QED
      BY <2>1, <2>2, <2>3 DEF Inside, Arena
  <1>9. ASSUME NEW i \in 1 .. Len(lists)
        PROVE  Before(lists[i], Len(blocks), next)
    <2>1. Inside(Arena, lists[i])
      BY <1>1, HeldFacts DEF SlicesOK
    <2> QED
      BY <2>1 DEF Inside, Arena
  <1> QED
    BY <1>1, <1>4, <1>5, <1>6, <1>7, <1>8, <1>9 DEF Older

\* A mark is set.
LEMMA MarkStep ==
    ASSUME SinkInv, Mark
    PROVE  /\ SinkInv' /\ Forest' = Forest /\ ListItems' = ListItems
           /\ Saved' = Append(Saved, [children |-> Forest, lists |-> ListItems])
  <1>1. /\ TypeOK /\ MarksOK /\ Seen /\ marks \in Seq(MarkRecords)
        /\ Len(marks) \in Nat /\ DOMAIN marks = 1 .. Len(marks)
    BY SinkSeen, TypeFacts DEF SinkInv, TypeOK
  <1>2. marks' = Append(marks, Lengths) /\ UNCHANGED <<nodes, data, spills, blocks, next, lists>>
    BY DEF Mark
  <1>3. PICK m \in MarkRecords : m = Lengths /\ Older(m)
    BY OlderNow
  <1>4. PICK K \in Nat : K = Len(marks)
    BY <1>1
  <1>5. /\ marks' \in Seq(MarkRecords) /\ Len(marks') = K + 1 /\ marks'[K + 1] = m
        /\ \A k \in 1 .. K : marks'[k] = marks[k]
    BY <1>1, <1>2, <1>3, <1>4, AppendProperties
  <1>6. DOMAIN marks' = 1 .. K + 1 /\ \A k \in 1 .. K + 1 : k \in 1 .. K \/ k = K + 1
    BY <1>5, LenProperties
  <1>7. /\ IndicesOK' /\ SlicesOK' /\ Forest' = Forest /\ ListItems' = ListItems /\ TypeOK'
    BY <1>2, <1>5, OnlyMarks
  <1>8. /\ \A k \in 1 .. K : Older(marks[k])
        /\ \A j, k \in 1 .. K : j < k => NotBeyond(marks[j], marks[k])
    BY <1>1, <1>4, MarksAreOlder DEF AllOlder
  <1>9. \A k \in 1 .. K : NotBeyond(marks[k], m)
    BY <1>3, <1>8 DEF Older
  <1>10. MarksOK'
    <2>1. ASSUME NEW k \in DOMAIN marks'
          PROVE  \E x : x = marks'[k] /\ Older(x)'
      <3>1. PICK x : x = marks'[k]
        OBVIOUS
      <3>2. Older(x)
        BY <1>3, <1>5, <1>6, <1>8, <2>1, <3>1
      <3>3. Older(x)'
        BY <1>2, <3>2, OlderStays
      <3> QED
        BY <3>1, <3>3
    <2>2. ASSUME NEW j \in DOMAIN marks', NEW k \in DOMAIN marks', j < k
          PROVE  NotBeyond(marks'[j], marks'[k])
      <3>1. j \in 1 .. K
        BY <1>6, <2>2
      <3>2. CASE k \in 1 .. K
        BY <1>5, <1>8, <2>2, <3>1, <3>2
      <3>3. CASE k = K + 1
        BY <1>5, <1>9, <3>1, <3>3
      <3> QED
        BY <1>6, <2>2, <3>2, <3>3
    <2>3. AllOlder'
      BY <2>1, <2>2 DEF AllOlder, NotBeyond
    <2> QED
      BY <2>3, MarksAreOlder, PTL
  <1>11. SinkInv'
    BY <1>7, <1>10 DEF SinkInv
  <1>12. Seen'
    BY <1>11, SeenNext
  <1>13. /\ Saved \in Seq(SavedRecords) /\ Saved' \in Seq(SavedRecords)
         /\ Len(Saved) = K /\ Len(Saved') = K + 1
    BY <1>1, <1>4, <1>5, <1>12 DEF Seen, SavedRecords
  <1>14. ASSUME NEW k \in 1 .. K
         PROVE  Saved'[k] = Saved[k]
    BY <1>1, <1>4, <1>5, <1>6, <1>7 DEF Saved
  <1>15. Saved'[K + 1] = [children |-> Forest, lists |-> ListItems]
    <2>1. m.nodes = Len(nodes) /\ m.lists = Len(lists)
      BY <1>3 DEF Lengths
    <2>2. /\ Forest \in Views /\ Len(Forest) = m.nodes
          /\ ListItems \in Views /\ Len(ListItems) = m.lists
      BY <1>1, <2>1 DEF Seen
    <2>3. Cut(Forest, m.nodes) = Forest /\ Cut(ListItems, m.lists) = ListItems
      BY <2>2, SubSeqFull DEF Cut, Views
    <2>4. K + 1 \in DOMAIN marks'
      BY <1>6
    <2> QED
      BY <1>5, <1>7, <2>3, <2>4 DEF Saved
  <1>16. PICK r : r = [children |-> Forest, lists |-> ListItems]
    OBVIOUS
  <1>17. r \in SavedRecords
    BY <1>1, <1>16 DEF Seen, SavedRecords
  <1>18. PICK s \in Seq(SavedRecords), t \in Seq(SavedRecords) :
            s = Saved /\ t = Saved' /\ Len(s) = K /\ Len(t) = K + 1
    BY <1>13
  <1>19. t = Append(s, r)
    <2>1. PICK u : u = Append(s, r)
      OBVIOUS
    <2>2. /\ u \in Seq(SavedRecords) /\ Len(u) = K + 1 /\ u[K + 1] = r
          /\ \A k \in 1 .. K : u[k] = s[k]
      BY <1>17, <1>18, <2>1, AppendProperties
    <2>3. ASSUME NEW k \in 1 .. K + 1
          PROVE  t[k] = u[k]
      BY <1>6, <1>14, <1>15, <1>16, <1>18, <2>2, <2>3
    <2>4. t = u
      BY <1>18, <2>2, <2>3, SeqEqual
    <2> QED
      BY <2>1, <2>4
  <1> QED
    BY <1>7, <1>11, <1>16, <1>18, <1>19

\* The last mark is dropped.
LEMMA LastMark ==
    ASSUME SinkInv, marks # <<>>, marks' = Cut(marks, Len(marks) - 1)
    PROVE  \E K \in Nat :
              /\ Len(marks) = K + 1 /\ DOMAIN marks = 1 .. K + 1
              /\ marks' \in Seq(MarkRecords) /\ Len(marks') = K /\ DOMAIN marks' = 1 .. K
              /\ \A k \in 1 .. K : marks'[k] = marks[k] /\ k \in 1 .. K + 1 /\ k < K + 1
              /\ marks[K + 1] \in MarkRecords /\ K + 1 \in DOMAIN marks
  <1>1. marks \in Seq(MarkRecords) /\ Len(marks) \in Nat /\ DOMAIN marks = 1 .. Len(marks)
    BY TypeFacts DEF SinkInv, TypeOK
  <1>2. PICK K \in Nat : K = Len(marks) - 1 /\ Len(marks) = K + 1 /\ K <= Len(marks)
    <2>1. Len(marks) # 0
      BY <1>1, EmptySeq
    <2>2. Len(marks) - 1 \in Nat /\ Len(marks) = (Len(marks) - 1) + 1 /\ Len(marks) - 1 <= Len(marks)
      BY <1>1, <2>1
    <2> QED
      BY <2>2
  <1>3. marks' \in Seq(MarkRecords) /\ Len(marks') = K /\ \A k \in 1 .. K : marks'[k] = marks[k]
    BY <1>1, <1>2, CutFacts
  <1>4. DOMAIN marks' = 1 .. K
    BY <1>3, LenProperties
  <1>5. \A k \in 1 .. K : k \in 1 .. K + 1 /\ k < K + 1
    BY <1>2
  <1>6. K + 1 \in DOMAIN marks /\ marks[K + 1] \in MarkRecords
    BY <1>1, <1>2, ElementOfSeq
  <1> QED
    BY <1>1, <1>2, <1>3, <1>4, <1>5, <1>6

\* What was saved at the marks that are left is what was saved.
LEMMA SavedDropped ==
    ASSUME SinkInv, SinkInv', NEW K \in Nat, Len(marks) = K + 1, Len(marks') = K,
           \A k \in 1 .. K : Saved'[k] = Saved[k]
    PROVE  Saved' = Cut(Saved, Len(Saved) - 1)
  <1>1. Seen /\ Seen'
    BY SinkSeen, SeenNext
  <1>2. PICK s \in Seq(SavedRecords), t \in Seq(SavedRecords) :
            s = Saved /\ t = Saved' /\ Len(s) = K + 1 /\ Len(t) = K
    BY <1>1 DEF Seen, SavedRecords
  <1>3. t = Cut(s, K)
    <2>1. PICK u : u = Cut(s, K)
      OBVIOUS
    <2>5. K <= Len(s)
      BY <1>2
    <2>2. u \in Seq(SavedRecords) /\ Len(u) = K /\ \A k \in 1 .. K : u[k] = s[k]
      BY <1>2, <2>1, <2>5, CutFacts
    <2>3. \A k \in 1 .. K : t[k] = u[k]
      BY <1>2, <2>2
    <2>4. t = u
      BY <1>2, <2>2, <2>3, SeqEqual
    <2> QED
      BY <2>1, <2>4
  <1>4. Len(s) - 1 = K
    BY <1>2
  <1> QED
    BY <1>2, <1>3, <1>4

\* A mark is dropped.
LEMMA KeepStep ==
    ASSUME SinkInv, Keep
    PROVE  /\ SinkInv' /\ Saved # <<>> /\ Saved' = Cut(Saved, Len(Saved) - 1)
           /\ Forest' = Forest /\ ListItems' = ListItems
  <1>1. /\ marks # <<>> /\ marks' = Cut(marks, Len(marks) - 1)
        /\ UNCHANGED <<nodes, data, spills, blocks, next, lists>>
    BY DEF Keep
  <1>2. PICK K \in Nat :
              /\ Len(marks) = K + 1 /\ DOMAIN marks = 1 .. K + 1
              /\ marks' \in Seq(MarkRecords) /\ Len(marks') = K /\ DOMAIN marks' = 1 .. K
              /\ \A k \in 1 .. K : marks'[k] = marks[k] /\ k \in 1 .. K + 1
    BY <1>1, LastMark
  <1>3. /\ IndicesOK' /\ SlicesOK' /\ Forest' = Forest /\ ListItems' = ListItems /\ TypeOK'
    BY <1>1, <1>2, OnlyMarks
  <1>4. MarksOK'
    <2>1. MarksOK
      BY DEF SinkInv
    <2>2. ASSUME NEW k \in DOMAIN marks'
          PROVE  \E x : x = marks'[k] /\ Older(x)'
      <3>1. PICK x : x = marks'[k]
        OBVIOUS
      <3>2. Older(x)
        BY <1>2, <2>1, <2>2, <3>1, MarksAreOlder DEF AllOlder
      <3>3. Older(x)'
        BY <1>1, <3>2, OlderStays
      <3> QED
        BY <3>1, <3>3
    <2>3. ASSUME NEW j \in DOMAIN marks', NEW k \in DOMAIN marks', j < k
          PROVE  NotBeyond(marks'[j], marks'[k])
      BY <1>2, <2>1, <2>3, MarksAreOlder DEF AllOlder
    <2>4. AllOlder'
      BY <2>2, <2>3 DEF AllOlder, NotBeyond
    <2> QED
      BY <2>4, MarksAreOlder, PTL
  <1>5. SinkInv'
    BY <1>3, <1>4 DEF SinkInv
  <1>6. \A k \in 1 .. K : Saved'[k] = Saved[k]
    BY <1>2, <1>3 DEF Saved
  <1>7. Saved' = Cut(Saved, Len(Saved) - 1)
    BY <1>2, <1>5, <1>6, SavedDropped
  <1>8. Saved # <<>>
    <2>1. Len(Saved) = K + 1
      BY <1>2, SinkSeen DEF Seen
    <2> QED
      BY <2>1
  <1> QED
    BY <1>3, <1>5, <1>7, <1>8

\* An arena that is cut back keeps what was given out before.
LEMMA CutBack ==
    ASSUME NEW a, ArenaOK(a), NEW b \in Nat, b <= Len(a.blocks), NEW x \in Nat,
           b = 0 => x = 0, b # 0 => x <= Len(a.blocks[b]),
           NEW c, c = [blocks |-> Cut(a.blocks, b), next |-> x]
    PROVE  /\ ArenaOK(c) /\ Len(c.blocks) = b /\ \A i \in 1 .. b : c.blocks[i] = a.blocks[i]
           /\ \A s \in Slices : Inside(a, s) /\ Before(s, b, x) =>
                 Inside(c, s) /\ Items(c, s) = Items(a, s)
  <1>1. a.blocks \in Seq(Seq(Nat))
    BY ArenaFacts
  <1>2. PICK u : u = Cut(a.blocks, b)
    OBVIOUS
  <1>3. u \in Seq(Seq(Nat)) /\ Len(u) = b /\ \A i \in 1 .. b : u[i] = a.blocks[i]
    BY <1>1, <1>2, CutFacts
  <1>4. c = [blocks |-> u, next |-> x] /\ c.blocks = u /\ c.next = x
    BY <1>2
  <1>5. ArenaOK(c)
    <2>1. u = <<>> => b = 0
      BY <1>3
    <2>2. u # <<>> => x <= Len(u[Len(u)])
      <3>1. u # <<>> => b \in 1 .. b /\ b # 0
        BY <1>3, EmptySeq
      <3> QED
        BY <1>3, <3>1
    <2> QED
      BY <1>3, <1>4, <2>1, <2>2 DEF ArenaOK, LastSize
  <1>6. ASSUME NEW s \in Slices, Inside(a, s), Before(s, b, x)
        PROVE  Inside(c, s) /\ Items(c, s) = Items(a, s)
    <2>1. s.block \in Nat /\ s.at \in Nat /\ s.len \in Nat /\ s.cap \in Nat /\ s.len <= s.cap
      BY <1>6 DEF Slices, Inside
    <2>2. CASE s.cap = 0
      <3>1. s.len = 0
        BY <2>1, <2>2
      <3> QED
        BY <2>1, <2>2, <3>1 DEF Inside, Before, Items
    <2>3. CASE s.cap > 0
      <3>1. /\ s.block \in 1 .. Len(a.blocks) /\ s.at + s.cap <= Len(a.blocks[s.block])
            /\ s.block < b \/ (s.block = b /\ s.at + s.cap <= x)
        BY <1>6, <2>3 DEF Inside, Before
      <3>2. s.block \in 1 .. b
        BY <2>1, <3>1
      <3>3. u[s.block] = a.blocks[s.block]
        BY <1>3, <3>2
      <3>4. Inside(c, s)
        BY <1>3, <1>4, <2>1, <3>1, <3>2, <3>3 DEF Inside, Before
      <3>5. Items(c, s) = Items(a, s)
        BY <1>4, <3>3 DEF Items
      <3> QED
        BY <3>4, <3>5
    <2> QED
      BY <2>1, <2>2, <2>3
  <1> QED
    BY <1>3, <1>4, <1>5, <1>6

\* A cut of a cut.
LEMMA CutOfCut ==
    ASSUME NEW v \in Views, NEW i \in Nat, NEW j \in Nat, i <= j, j <= Len(v)
    PROVE  Cut(Cut(v, j), i) = Cut(v, i)
  <1>1. v \in Seq(Seq(Nat)) /\ Len(v) \in Nat
    BY LenProperties DEF Views
  <1>2. PICK u : u = Cut(v, j)
    OBVIOUS
  <1>3. u \in Seq(Seq(Nat)) /\ Len(u) = j /\ \A k \in 1 .. j : u[k] = v[k]
    BY <1>1, <1>2, CutFacts
  <1>4. i <= Len(u) /\ i <= Len(v)
    BY <1>1, <1>3
  <1>5. \A k \in 1 .. i : u[k] = v[k]
    <2>1. \A k \in 1 .. i : k \in 1 .. j
      OBVIOUS
    <2> QED
      BY <1>3, <2>1
  <1>6. Cut(u, i) = Cut(v, i)
    BY <1>1, <1>3, <1>4, <1>5, CutSame
  <1> QED
    BY <1>2, <1>6

\* The state is cut back to mark m.
CutTo(m) ==
    /\ nodes' = Cut(nodes, m.nodes) /\ data' = Cut(data, m.data) /\ spills' = Cut(spills, m.spills)
    /\ blocks' = Cut(blocks, m.blocks) /\ next' = m.next /\ lists' = Cut(lists, m.lists)

\* Cutting back to a mark leaves what is older than the mark as it is.
LEMMA CutToFacts ==
    ASSUME SinkInv, NEW m \in MarkRecords, Older(m), CutTo(m)
    PROVE  /\ nodes' \in Seq(Nat) /\ data' \in Seq(Entries) /\ spills' \in Seq(Slices)
           /\ blocks' \in Seq(Seq(Nat)) /\ next' \in Nat /\ lists' \in Seq(Slices)
           /\ Len(nodes') = m.nodes /\ Len(data') = m.data /\ Len(spills') = m.spills
           /\ Len(blocks') = m.blocks /\ next' = m.next /\ Len(lists') = m.lists
           /\ ArenaOK(Arena')
           /\ \A i \in 1 .. m.blocks : blocks'[i] = blocks[i]
           /\ \A n \in 1 .. m.nodes :
                 /\ n \in NodeIds /\ nodes'[n] = nodes[n] /\ nodes'[n] <= m.data
                 /\ Spilled(n)' <=> Spilled(n)
                 /\ Spilled(n) => SpillOf(n)' = SpillOf(n) /\ SpillOf(n)' \in 1 .. m.spills
                 /\ NodeSlice(n)' = NodeSlice(n)
                 /\ InlineItems(n)' = InlineItems(n)
           /\ \A i \in 1 .. m.lists : i \in DOMAIN lists /\ lists'[i] = lists[i]
           /\ \A s \in Slices : Inside(Arena, s) /\ Before(s, m.blocks, m.next) =>
                 Inside(Arena', s) /\ Items(Arena', s) = Items(Arena, s)
  <1>1. /\ TypeOK /\ IndicesOK /\ ArenaOK(Arena) /\ NodeIds = 1 .. Len(nodes)
        /\ Len(nodes) \in Nat /\ Len(data) \in Nat /\ Len(spills) \in Nat
        /\ Len(lists) \in Nat /\ Len(blocks) \in Nat /\ DOMAIN lists = 1 .. Len(lists)
    BY SinkFacts, TypeFacts
  <1>2. /\ m.nodes \in Nat /\ m.data \in Nat /\ m.spills \in Nat
        /\ m.blocks \in Nat /\ m.next \in Nat /\ m.lists \in Nat
    BY MarkFacts
  <1>3. /\ m.nodes <= Len(nodes) /\ m.data <= Len(data) /\ m.spills <= Len(spills)
        /\ m.lists <= Len(lists) /\ m.blocks <= Len(blocks)
        /\ m.blocks = 0 => m.next = 0
        /\ m.blocks # 0 => m.next <= Len(blocks[m.blocks])
        /\ \A n \in 1 .. m.nodes :
              /\ nodes[n] <= m.data
              /\ Spilled(n) => SpillOf(n) <= m.spills
    BY DEF Older, NotBeyond, Lengths
  <1>4. /\ nodes \in Seq(Nat) /\ data \in Seq(Entries) /\ spills \in Seq(Slices)
        /\ lists \in Seq(Slices)
    BY <1>1 DEF TypeOK
  <1>5. nodes' \in Seq(Nat) /\ Len(nodes') = m.nodes /\ \A n \in 1 .. m.nodes : nodes'[n] = nodes[n]
    <2>1. PICK k \in Nat : k = m.nodes /\ k <= Len(nodes)
      BY <1>2, <1>3
    <2>2. Cut(nodes, k) \in Seq(Nat) /\ Len(Cut(nodes, k)) = k /\ \A n \in 1 .. k : Cut(nodes, k)[n] = nodes[n]
      BY <1>4, <2>1, CutFacts
    <2> QED
      BY <2>1, <2>2 DEF CutTo
  <1>6. data' \in Seq(Entries) /\ Len(data') = m.data /\ \A n \in 1 .. m.data : data'[n] = data[n]
    <2>1. PICK k \in Nat : k = m.data /\ k <= Len(data)
      BY <1>2, <1>3
    <2>2. Cut(data, k) \in Seq(Entries) /\ Len(Cut(data, k)) = k /\ \A n \in 1 .. k : Cut(data, k)[n] = data[n]
      BY <1>4, <2>1, CutFacts
    <2> QED
      BY <2>1, <2>2 DEF CutTo
  <1>7. spills' \in Seq(Slices) /\ Len(spills') = m.spills /\ \A n \in 1 .. m.spills : spills'[n] = spills[n]
    <2>1. PICK k \in Nat : k = m.spills /\ k <= Len(spills)
      BY <1>2, <1>3
    <2>2. Cut(spills, k) \in Seq(Slices) /\ Len(Cut(spills, k)) = k /\ \A n \in 1 .. k : Cut(spills, k)[n] = spills[n]
      BY <1>4, <2>1, CutFacts
    <2> QED
      BY <2>1, <2>2 DEF CutTo
  <1>8. lists' \in Seq(Slices) /\ Len(lists') = m.lists /\ \A n \in 1 .. m.lists : lists'[n] = lists[n]
    <2>1. PICK k \in Nat : k = m.lists /\ k <= Len(lists)
      BY <1>2, <1>3
    <2>2. Cut(lists, k) \in Seq(Slices) /\ Len(Cut(lists, k)) = k /\ \A n \in 1 .. k : Cut(lists, k)[n] = lists[n]
      BY <1>4, <2>1, CutFacts
    <2> QED
      BY <2>1, <2>2 DEF CutTo
  <1>9. /\ ArenaOK(Arena') /\ Len(blocks') = m.blocks /\ next' = m.next
        /\ \A i \in 1 .. m.blocks : blocks'[i] = blocks[i]
        /\ \A s \in Slices : Inside(Arena, s) /\ Before(s, m.blocks, m.next) =>
              Inside(Arena', s) /\ Items(Arena', s) = Items(Arena, s)
    <2>1. PICK a : a = Arena /\ ArenaOK(a) /\ a.blocks = blocks
      BY <1>1 DEF Arena
    <2>2. PICK c : c = Arena'
      OBVIOUS
    <2>3. c = [blocks |-> Cut(a.blocks, m.blocks), next |-> m.next]
      BY <2>1, <2>2 DEF Arena, CutTo
    <2>4. PICK b \in Nat, x \in Nat : b = m.blocks /\ x = m.next
      BY <1>2
    <2>5. /\ b <= Len(a.blocks) /\ (b = 0 => x = 0) /\ (b # 0 => x <= Len(a.blocks[b]))
          /\ c = [blocks |-> Cut(a.blocks, b), next |-> x]
      BY <1>3, <2>1, <2>3, <2>4
    <2>6. /\ ArenaOK(c) /\ Len(c.blocks) = b /\ \A i \in 1 .. b : c.blocks[i] = a.blocks[i]
          /\ \A s \in Slices : Inside(a, s) /\ Before(s, b, x) =>
                Inside(c, s) /\ Items(c, s) = Items(a, s)
      BY <2>1, <2>5, CutBack
    <2>7. c.blocks = blocks' /\ next' = m.next
      BY <2>2 DEF Arena, CutTo
    <2> QED
      BY <2>1, <2>2, <2>4, <2>6, <2>7
  <1>10. blocks' \in Seq(Seq(Nat)) /\ next' \in Nat
    BY <1>9 DEF ArenaOK, Arena
  <1>11. ASSUME NEW n \in 1 .. m.nodes
         PROVE  /\ n \in NodeIds /\ nodes'[n] = nodes[n] /\ nodes'[n] <= m.data
                /\ Spilled(n)' <=> Spilled(n)
                /\ Spilled(n) => SpillOf(n)' = SpillOf(n) /\ SpillOf(n)' \in 1 .. m.spills
                /\ NodeSlice(n)' = NodeSlice(n)
                /\ InlineItems(n)' = InlineItems(n)
    <2>1. n \in NodeIds
      <3>1. PICK p \in Nat, q \in Nat : p = m.nodes /\ q = Len(nodes) /\ p <= q
        BY <1>1, <1>2, <1>3
      <3>2. n \in 1 .. q
        BY <1>11, <3>1
      <3> QED
        BY <1>1, <3>1, <3>2
    <2>2. nodes'[n] = nodes[n] /\ nodes[n] <= m.data /\ nodes[n] \in Nat
      BY <1>1, <1>3, <1>5, <1>11, <2>1, TypeFacts
    <2>3. nodes[n] # 0 => data'[nodes[n]] = data[nodes[n]]
      <3>1. nodes[n] # 0 => nodes[n] \in 1 .. m.data
        BY <1>2, <2>2
      <3> QED
        BY <1>6, <3>1
    <2>4. Spilled(n)' <=> Spilled(n)
      BY <2>2, <2>3 DEF Spilled
    <2>5. Spilled(n) => SpillOf(n)' = SpillOf(n)
      BY <2>2, <2>3 DEF Spilled, SpillOf
    <2>6. Spilled(n) => SpillOf(n) \in 1 .. m.spills
      <3>1. Spilled(n) => SpillOf(n) \in 1 .. Len(spills) /\ SpillOf(n) <= m.spills
        BY <1>1, <1>3, <1>11, <2>1 DEF IndicesOK
      <3> QED
        BY <1>1, <1>2, <3>1
    <2>7. NodeSlice(n)' = NodeSlice(n)
      <3>1. Spilled(n) => spills'[SpillOf(n)] = spills[SpillOf(n)]
        BY <1>7, <2>6
      <3> QED
        BY <2>4, <2>5, <3>1 DEF NodeSlice, NilSlice
    <2>8. InlineItems(n)' = InlineItems(n)
      BY <2>2, <2>3 DEF InlineItems, Cut
    <2> QED
      BY <2>1, <2>2, <2>4, <2>5, <2>6, <2>7, <2>8
  <1>12. \A i \in 1 .. m.lists : i \in DOMAIN lists /\ lists'[i] = lists[i]
    <2>1. PICK p \in Nat, q \in Nat : p = m.lists /\ q = Len(lists) /\ p <= q
      BY <1>1, <1>2, <1>3
    <2>2. \A i \in 1 .. p : i \in 1 .. q
      BY <2>1
    <2> QED
      BY <1>1, <1>8, <2>1, <2>2
  <1> QED
    BY <1>5, <1>6, <1>7, <1>8, <1>9, <1>10, <1>11, <1>12

\* What is held after cutting back to a mark was held before.
LEMMA CutHolders ==
    ASSUME SinkInv, NEW m \in MarkRecords, Older(m), CutTo(m), NEW h \in Holders'
    PROVE  /\ h \in Holders /\ Held(h)' = Held(h)
           /\ Held(h) \in Slices /\ Inside(Arena, Held(h)) /\ Before(Held(h), m.blocks, m.next)
           /\ Inside(Arena', Held(h)) /\ Items(Arena', Held(h)) = Items(Arena, Held(h))
  <1>1. /\ TypeOK /\ IndicesOK /\ SlicesOK /\ NodeIds = 1 .. Len(nodes)
        /\ DOMAIN lists = 1 .. Len(lists) /\ Len(nodes) \in Nat /\ Len(lists) \in Nat
    BY SinkFacts, TypeFacts
  <1>2. m.nodes \in Nat /\ m.lists \in Nat
    BY MarkFacts
  <1>3. Len(nodes') = m.nodes /\ Len(lists') = m.lists
    BY CutToFacts
  <1>4. h \in Int /\ (h \in 1 .. m.nodes \/ -h \in 1 .. m.lists)
    BY <1>3 DEF Holders
  <1>5. h \in Holders /\ Held(h)' = Held(h) /\ Before(Held(h), m.blocks, m.next)
    <2>1. CASE h \in 1 .. m.nodes
      <3>1. h \in NodeIds /\ NodeSlice(h)' = NodeSlice(h)
        BY <2>1, CutToFacts
      <3>2. h > 0
        BY <1>2, <2>1
      <3>3. Before(NodeSlice(h), m.blocks, m.next)
        BY <2>1 DEF Older
      <3> QED
        BY <1>1, <1>4, <3>1, <3>2, <3>3 DEF Holders, Held
    <2>2. CASE -h \in 1 .. m.lists
      <3>1. -h \in DOMAIN lists /\ lists'[-h] = lists[-h]
        BY <2>2, CutToFacts
      <3>2. ~(h > 0)
        BY <1>2, <1>4, <2>2
      <3>3. Before(lists[-h], m.blocks, m.next)
        BY <2>2 DEF Older
      <3> QED
        BY <1>1, <1>4, <3>1, <3>2, <3>3 DEF Holders, Held
    <2> QED
      BY <1>4, <2>1, <2>2
  <1>6. PICK s \in Slices : s = Held(h) /\ Inside(Arena, s) /\ Before(s, m.blocks, m.next)
    BY <1>1, <1>5 DEF SlicesOK
  <1>7. Inside(Arena', s) /\ Items(Arena', s) = Items(Arena, s)
    BY <1>6, CutToFacts
  <1> QED
    BY <1>5, <1>6, <1>7

\* What is older than an older mark stays so.
LEMMA CutOlder ==
    ASSUME SinkInv, NEW m \in MarkRecords, Older(m), CutTo(m),
           NEW q \in MarkRecords, Older(q), NotBeyond(q, m)
    PROVE  Older(q)'
  <1>1. /\ m.nodes \in Nat /\ m.data \in Nat /\ m.spills \in Nat
        /\ m.blocks \in Nat /\ m.next \in Nat /\ m.lists \in Nat
        /\ q.nodes \in Nat /\ q.blocks \in Nat /\ q.lists \in Nat
    BY MarkFacts
  <1>2. /\ Len(nodes') = m.nodes /\ Len(data') = m.data /\ Len(spills') = m.spills
        /\ Len(blocks') = m.blocks /\ next' = m.next /\ Len(lists') = m.lists
        /\ \A i \in 1 .. m.blocks : blocks'[i] = blocks[i]
    BY CutToFacts
  <1>3. NotBeyond(q, Lengths)'
    BY <1>2 DEF NotBeyond, Lengths
  <1>4. /\ q.blocks = 0 => q.next = 0
        /\ q.blocks # 0 => q.next <= Len(blocks'[q.blocks])
    <2>1. /\ q.blocks = 0 => q.next = 0
          /\ q.blocks # 0 => q.next <= Len(blocks[q.blocks])
      BY DEF Older
    <2>2. q.blocks <= m.blocks
      BY DEF NotBeyond
    <2>3. q.blocks # 0 => q.blocks \in 1 .. m.blocks
      BY <1>1, <2>2
    <2> QED
      BY <1>2, <2>1, <2>3
  <1>5. ASSUME NEW n \in 1 .. q.nodes
        PROVE  /\ nodes'[n] <= q.data
               /\ Spilled(n)' => SpillOf(n)' <= q.spills
               /\ Before(NodeSlice(n), q.blocks, q.next)'
    <2>1. /\ nodes[n] <= q.data
          /\ Spilled(n) => SpillOf(n) <= q.spills
          /\ Before(NodeSlice(n), q.blocks, q.next)
      BY <1>5 DEF Older
    <2>2. q.nodes <= m.nodes
      BY DEF NotBeyond
    <2>3. n \in 1 .. m.nodes
      BY <1>1, <1>5, <2>2
    <2>4. /\ nodes'[n] = nodes[n] /\ (Spilled(n)' <=> Spilled(n))
          /\ Spilled(n) => SpillOf(n)' = SpillOf(n)
          /\ NodeSlice(n)' = NodeSlice(n)
      BY <2>3, CutToFacts
    <2> QED
      BY <2>1, <2>4 DEF Before
  <1>6. ASSUME NEW i \in 1 .. q.lists
        PROVE  Before(lists[i], q.blocks, q.next)'
    <2>1. q.lists <= m.lists
      BY DEF NotBeyond
    <2>2. i \in 1 .. m.lists
      BY <1>1, <1>6, <2>1
    <2>3. lists'[i] = lists[i]
      BY <2>2, CutToFacts
    <2>4. Before(lists[i], q.blocks, q.next)
      BY <1>6 DEF Older
    <2> QED
      BY <2>3, <2>4 DEF Before
  <1> QED
    BY <1>3, <1>4, <1>5, <1>6 DEF Older

\* Cutting back keeps the invariant, and what is seen is what was saved.
LEMMA RewindStep ==
    ASSUME SinkInv, Rewind
    PROVE  /\ SinkInv' /\ Saved # <<>> /\ Saved' = Cut(Saved, Len(Saved) - 1)
           /\ Forest' = Saved[Len(Saved)].children /\ ListItems' = Saved[Len(Saved)].lists
  <1>1. /\ TypeOK /\ IndicesOK /\ SlicesOK /\ MarksOK /\ Seen /\ SinkAssumption
    BY SinkFacts, SinkSeen DEF SinkInv
  <1>2. marks # <<>> /\ marks' = Cut(marks, Len(marks) - 1)
    BY DEF Rewind
  <1>3. PICK K \in Nat :
              /\ Len(marks) = K + 1 /\ DOMAIN marks = 1 .. K + 1
              /\ marks' \in Seq(MarkRecords) /\ Len(marks') = K /\ DOMAIN marks' = 1 .. K
              /\ \A k \in 1 .. K : marks'[k] = marks[k] /\ k \in 1 .. K + 1 /\ k < K + 1
              /\ marks[K + 1] \in MarkRecords /\ K + 1 \in DOMAIN marks
    BY <1>2, LastMark
  <1>4. PICK m \in MarkRecords : m = marks[K + 1]
    BY <1>3
  <1>5. Older(m) /\ \A k \in 1 .. K : Older(marks[k]) /\ NotBeyond(marks[k], m)
    BY <1>1, <1>3, <1>4, MarksAreOlder DEF AllOlder
  <1>6. CutTo(m)
    <2>1. m.blocks = 0 => m.next = 0
      BY <1>5 DEF Older
    <2>2. RewoundNext(m) = m.next
      BY <2>1 DEF RewoundNext
    <2> QED
      BY <1>3, <1>4, <2>2 DEF Rewind, CutTo
  <1>7. /\ nodes' \in Seq(Nat) /\ data' \in Seq(Entries) /\ spills' \in Seq(Slices)
        /\ blocks' \in Seq(Seq(Nat)) /\ next' \in Nat /\ lists' \in Seq(Slices)
        /\ Len(nodes') = m.nodes /\ Len(data') = m.data /\ Len(spills') = m.spills
        /\ Len(lists') = m.lists
        /\ ArenaOK(Arena')
    BY <1>5, <1>6, CutToFacts
  <1>8. \A n \in 1 .. m.nodes :
           /\ n \in NodeIds /\ nodes'[n] = nodes[n] /\ nodes'[n] <= m.data
           /\ Spilled(n)' <=> Spilled(n)
           /\ Spilled(n) => SpillOf(n)' = SpillOf(n) /\ SpillOf(n)' \in 1 .. m.spills
           /\ NodeSlice(n)' = NodeSlice(n)
           /\ InlineItems(n)' = InlineItems(n)
    BY <1>5, <1>6, CutToFacts
  <1>9. TypeOK'
    <2>1. ArenaOK(Arena)'
      BY <1>7 DEF ArenaOK, LastSize
    <2> QED
      BY <1>3, <1>7, <2>1 DEF TypeOK
  <1>10. NodeIds' = 1 .. m.nodes
    BY <1>7 DEF NodeIds
  <1>11. IndicesOK'
    <2>1. ASSUME NEW n \in NodeIds'
          PROVE  nodes'[n] <= Len(data') /\ (Spilled(n)' => SpillOf(n)' \in 1 .. Len(spills'))
      BY <1>7, <1>8, <1>10, <2>1
    <2>2. ASSUME NEW l \in NodeIds', NEW n \in NodeIds', l # n
          PROVE  /\ nodes'[l] # 0 => nodes'[l] # nodes'[n]
                 /\ Spilled(l)' /\ Spilled(n)' => SpillOf(l)' # SpillOf(n)'
      BY <1>1, <1>8, <1>10, <2>2 DEF IndicesOK
    <2> QED
      BY <2>1, <2>2 DEF IndicesOK
  <1>12. \A h \in Holders' :
           /\ h \in Holders /\ Held(h)' = Held(h) /\ Held(h) \in Slices
           /\ Inside(Arena', Held(h)) /\ Items(Arena', Held(h)) = Items(Arena, Held(h))
    BY <1>5, <1>6, CutHolders
  <1>13. SlicesOK'
    <2>1. ASSUME NEW h \in Holders'
          PROVE  Held(h)' \in Slices /\ Inside(Arena', Held(h)')
      BY <1>12, <2>1
    <2>2. ASSUME NEW g \in Holders', NEW h \in Holders', g # h
          PROVE  Apart(Held(g)', Held(h)')
      BY <1>1, <1>12, <2>2 DEF SlicesOK
    <2> QED
      BY <2>1, <2>2 DEF SlicesOK, Inside, Before, Apart
  <1>14. MarksOK'
    <2>1. ASSUME NEW k \in DOMAIN marks'
          PROVE  \E x : x = marks'[k] /\ Older(x)'
      <3>1. PICK x \in MarkRecords : x = marks'[k]
        BY <1>3, <2>1, ElementOfSeq
      <3>2. Older(x) /\ NotBeyond(x, m)
        BY <1>3, <1>5, <2>1, <3>1
      <3>3. Older(x)'
        BY <1>5, <1>6, <3>2, CutOlder
      <3> QED
        BY <3>1, <3>3
    <2>2. ASSUME NEW j \in DOMAIN marks', NEW k \in DOMAIN marks', j < k
          PROVE  NotBeyond(marks'[j], marks'[k])
      BY <1>1, <1>3, <2>2, MarksAreOlder DEF AllOlder
    <2>3. AllOlder'
      BY <2>1, <2>2 DEF AllOlder, NotBeyond
    <2> QED
      BY <2>3, MarksAreOlder, PTL
  <1>15. SinkInv'
    BY <1>9, <1>11, <1>13, <1>14 DEF SinkInv
  <1>16. Seen'
    BY <1>15, SeenNext
  <1>17. /\ m.nodes \in Nat /\ m.nodes <= Len(nodes) /\ m.lists \in Nat /\ m.lists <= Len(lists)
         /\ Saved[K + 1] = [children |-> Cut(Forest, m.nodes), lists |-> Cut(ListItems, m.lists)]
         /\ Len(Saved) = K + 1
    BY <1>1, <1>3, <1>4 DEF Seen
  <1>18. ASSUME NEW n \in 1 .. m.nodes
         PROVE  ChildItems(n)' = ChildItems(n)
    <2>1. n \in NodeIds /\ n \in NodeIds'
      BY <1>8, <1>10
    <2>2. /\ Spilled(n) => ChildItems(n) = Items(Arena, NodeSlice(n))
          /\ ~Spilled(n) => ChildItems(n) = InlineItems(n)
      BY <1>1, <2>1, ChildItemsFacts
    <2>3. /\ Spilled(n)' => ChildItems(n)' = Items(Arena', NodeSlice(n)')
          /\ ~Spilled(n)' => ChildItems(n)' = InlineItems(n)'
      BY <1>15, <2>1, ChildItemsNext
    <2>4. Items(Arena', NodeSlice(n)) = Items(Arena, NodeSlice(n))
      <3>1. n \in Holders' /\ Held(n) = NodeSlice(n)
        <4>1. n \in Holders /\ Held(n) = NodeSlice(n)
          BY <1>1, <2>1, HeldFacts
        <4> QED
          BY <1>7, <4>1 DEF Holders
      <3> QED
        BY <1>12, <3>1
    <2> QED
      BY <1>8, <2>2, <2>3, <2>4
  <1>19. ASSUME NEW i \in 1 .. m.lists
         PROVE  Items(Arena', lists'[i]) = Items(Arena, lists[i])
    <2>1. i \in DOMAIN lists /\ lists'[i] = lists[i]
      BY <1>5, <1>6, CutToFacts
    <2>2. -i \in Holders /\ Held(-i) = lists[i]
      BY <1>1, <2>1, HeldFacts
    <2>3. -(-i) = i
      BY <1>17
    <2>4. -i \in Holders'
      BY <1>7, <2>2, <2>3 DEF Holders
    <2> QED
      BY <1>12, <2>1, <2>2, <2>4
  <1>20. Forest' = Cut(Forest, m.nodes)
    <2>1. PICK p \in Views, q \in Views : p = Forest /\ q = Forest' /\ Len(q) = m.nodes /\ m.nodes <= Len(p)
      BY <1>1, <1>7, <1>16, <1>17 DEF Seen
    <2>2. ASSUME NEW n \in 1 .. m.nodes
          PROVE  q[n] = p[n]
      <3>1. n \in NodeIds /\ n \in NodeIds'
        BY <1>8, <1>10
      <3> QED
        BY <1>18, <2>1, <3>1 DEF Forest
    <2> QED
      BY <1>17, <2>1, <2>2, LastDropped
  <1>21. ListItems' = Cut(ListItems, m.lists)
    <2>1. PICK p \in Views, q \in Views : p = ListItems /\ q = ListItems' /\ Len(q) = m.lists /\ m.lists <= Len(p)
      BY <1>1, <1>7, <1>16, <1>17 DEF Seen
    <2>2. ASSUME NEW i \in 1 .. m.lists
          PROVE  q[i] = p[i]
      <3>1. i \in DOMAIN lists /\ i \in DOMAIN lists'
        BY <1>5, <1>6, <1>7, CutToFacts, LenProperties
      <3> QED
        BY <1>19, <2>1, <3>1 DEF ListItems, Items
    <2> QED
      BY <1>17, <2>1, <2>2, LastDropped
  <1>22. ASSUME NEW k \in 1 .. K
         PROVE  Saved'[k] = Saved[k]
    <2>1. PICK n \in Nat, i \in Nat : n = marks[k].nodes /\ i = marks[k].lists /\ n <= m.nodes /\ i <= m.lists
      <3>1. marks[k].nodes \in Nat /\ marks[k].lists \in Nat
        BY <1>1, <1>3 DEF Seen
      <3> QED
        BY <1>5, <3>1 DEF NotBeyond
    <2>2. Saved'[k] = [children |-> Cut(Cut(Forest, m.nodes), n), lists |-> Cut(Cut(ListItems, m.lists), i)]
      BY <1>3, <1>20, <1>21, <2>1 DEF Saved
    <2>3. Saved[k] = [children |-> Cut(Forest, n), lists |-> Cut(ListItems, i)]
      BY <1>3, <2>1 DEF Saved
    <2>4. Cut(Cut(Forest, m.nodes), n) = Cut(Forest, n)
      BY <1>1, <1>17, <2>1, CutOfCut DEF Seen
    <2>5. Cut(Cut(ListItems, m.lists), i) = Cut(ListItems, i)
      BY <1>1, <1>17, <2>1, CutOfCut DEF Seen
    <2> QED
      BY <2>2, <2>3, <2>4, <2>5
  <1>23. Saved' = Cut(Saved, Len(Saved) - 1)
    BY <1>3, <1>15, <1>22, SavedDropped
  <1>24. Saved # <<>>
    BY <1>17
  <1> QED
    BY <1>15, <1>17, <1>20, <1>21, <1>23, <1>24

---------------------------------------------------------------------------
(* The sink implements the store. *)

\* At the beginning there is nothing.
LEMMA SinkInvInit == Init => SinkInv /\ Store!Init
  <1> SUFFICES ASSUME Init
               PROVE  SinkInv /\ Store!Init
    OBVIOUS
  <1>1. /\ nodes = <<>> /\ data = <<>> /\ spills = <<>> /\ blocks = <<>> /\ next = 0
        /\ lists = <<>> /\ marks = <<>>
    BY DEF Init
  <1>2. TypeOK
    <2>1. ArenaOK(Arena)
      BY <1>1 DEF ArenaOK, Arena
    <2> QED
      BY <1>1, <2>1 DEF TypeOK
  <1>3. NodeIds = {} /\ Holders = {} /\ DOMAIN marks = {} /\ DOMAIN lists = {}
    BY <1>1 DEF NodeIds, Holders
  <1>4. IndicesOK /\ SlicesOK /\ MarksOK
    BY <1>3 DEF IndicesOK, SlicesOK, MarksOK
  <1>5. Store!Init
    <2>1. SinkInv
      BY <1>2, <1>4 DEF SinkInv
    <2>2. Seen /\ Len(nodes) = 0 /\ Len(lists) = 0 /\ Len(marks) = 0
      BY <1>1, <2>1, SinkSeen
    <2>3. Forest = <<>>
      BY <2>2, EmptySeq DEF Seen, Views
    <2>4. ListItems = <<>>
      BY <2>2, EmptySeq DEF Seen, Views
    <2>5. Saved = <<>>
      BY <2>2, EmptySeq DEF Seen
    <2> QED
      BY <2>3, <2>4, <2>5 DEF Store!Init
  <1> QED
    BY <1>2, <1>4, <1>5 DEF SinkInv

\* What is young in the sink is young in the store.
LEMMA YoungFacts ==
    ASSUME SinkInv
    PROVE  /\ Store!Nodes = NodeIds
           /\ \A n \in NodeIds : Young(n) => Store!Young(n)
           /\ YoungList => Store!YoungList
  <1>1. /\ Seen /\ NodeIds = 1 .. Len(nodes)
        /\ DOMAIN marks = 1 .. Len(marks) /\ lists \in Seq(Slices) /\ Len(marks) \in Nat
    BY SinkSeen, TypeFacts DEF SinkInv, TypeOK
  <1>2. Store!Nodes = NodeIds
    BY <1>1 DEF Store!Nodes, Seen
  <1>3. DOMAIN Saved = DOMAIN marks
    BY DEF Saved
  <1>4. ASSUME NEW k \in DOMAIN marks
        PROVE  Len(Saved[k].children) = marks[k].nodes /\ Len(Saved[k].lists) = marks[k].lists
    BY <1>4, SavedFacts, SinkAssumption DEF SinkInv
  <1>5. ASSUME NEW n \in NodeIds, Young(n)
        PROVE  Store!Young(n)
    BY <1>3, <1>4, <1>5 DEF Young, Store!Young
  <1>6. ASSUME YoungList
        PROVE  Store!YoungList
    <2>1. lists # <<>> /\ \A k \in DOMAIN marks : Len(lists) > marks[k].lists
      BY <1>6 DEF YoungList
    <2>2. Len(ListItems) = Len(lists) /\ ListItems # <<>>
      <3>1. Len(ListItems) = Len(lists) /\ Len(lists) # 0
        BY <1>1, <2>1, EmptySeq DEF Seen
      <3> QED
        BY <3>1
    <2> QED
      BY <1>3, <1>4, <2>1, <2>2 DEF Store!YoungList
  <1> QED
    BY <1>2, <1>5, <1>6

\* Every step keeps the invariant and is a step of the store, or none.
LEMMA SinkStep == SinkInv /\ [Next]_vars => SinkInv' /\ [Store!Next]_(Store!vars)
  <1> SUFFICES ASSUME SinkInv, [Next]_vars
               PROVE  SinkInv' /\ [Store!Next]_(Store!vars)
    OBVIOUS
  <1>0. /\ Store!Nodes = NodeIds
        /\ \A n \in NodeIds : Young(n) => Store!Young(n)
        /\ YoungList => Store!YoungList
        /\ \A s : Store!Dropped(s) = Cut(s, Len(s) - 1)
    BY YoungFacts DEF Store!Dropped, Cut
  <1>1. CASE New
    <2>1. SinkInv' /\ Forest' = Append(Forest, <<>>) /\ ListItems' = ListItems /\ Saved' = Saved
      BY <1>1, NewStep
    <2>2. Store!New
      BY <2>1 DEF Store!New
    <2> QED
      BY <2>1, <2>2 DEF Store!Next
  <1>2. CASE OpenList
    <2>1. SinkInv' /\ Forest' = Forest /\ ListItems' = Append(ListItems, <<>>) /\ Saved' = Saved
      BY <1>2, OpenListStep
    <2>2. Store!OpenList
      BY <2>1 DEF Store!OpenList
    <2> QED
      BY <2>1, <2>2 DEF Store!Next
  <1>3. CASE CloseList
    <2>1. /\ SinkInv' /\ Forest' = Forest /\ Saved' = Saved
          /\ ListItems' = Cut(ListItems, Len(ListItems) - 1)
      BY <1>3, CloseListStep
    <2>2. Store!CloseList
      BY <1>0, <1>3, <2>1 DEF Store!CloseList, CloseList
    <2> QED
      BY <2>1, <2>2 DEF Store!Next
  <1>4. CASE Mark
    <2>1. /\ SinkInv' /\ Forest' = Forest /\ ListItems' = ListItems
          /\ Saved' = Append(Saved, [children |-> Forest, lists |-> ListItems])
      BY <1>4, MarkStep
    <2>2. Store!Mark
      BY <2>1 DEF Store!Mark
    <2> QED
      BY <2>1, <2>2 DEF Store!Next
  <1>5. CASE Keep
    <2>1. /\ SinkInv' /\ Saved # <<>> /\ Saved' = Cut(Saved, Len(Saved) - 1)
          /\ Forest' = Forest /\ ListItems' = ListItems
      BY <1>5, KeepStep
    <2>2. Store!Keep
      BY <1>0, <2>1 DEF Store!Keep
    <2> QED
      BY <2>1, <2>2 DEF Store!Next
  <1>6. CASE Rewind
    <2>1. /\ SinkInv' /\ Saved # <<>> /\ Saved' = Cut(Saved, Len(Saved) - 1)
          /\ Forest' = Saved[Len(Saved)].children /\ ListItems' = Saved[Len(Saved)].lists
      BY <1>6, RewindStep
    <2>2. Store!Rewind
      BY <1>0, <2>1 DEF Store!Rewind
    <2> QED
      BY <2>1, <2>2 DEF Store!Next
  <1>7. ASSUME NEW n \in NodeIds, SetChildren(n)
        PROVE  SinkInv' /\ [Store!Next]_(Store!vars)
    <2>1. /\ SinkInv' /\ YoungList /\ Young(n)
          /\ \A i \in DOMAIN ListItems[Len(ListItems)] : ListItems[Len(ListItems)][i] # n
          /\ Forest' = [Forest EXCEPT ![n] = ListItems[Len(ListItems)]]
          /\ ListItems' = Cut(ListItems, Len(ListItems) - 1)
          /\ Saved' = Saved
      BY <1>7, SetChildrenStep
    <2>2. Store!SetChildren(n)
      BY <1>0, <2>1 DEF Store!SetChildren
    <2> QED
      BY <1>0, <2>1, <2>2 DEF Store!Next
  <1>8. ASSUME NEW n \in NodeIds, AppendItem(n)
        PROVE  SinkInv' /\ [Store!Next]_(Store!vars)
    <2>1. /\ SinkInv' /\ Forest' = Forest /\ Saved' = Saved
          /\ ListItems' = [ListItems EXCEPT ![Len(ListItems)] = Append(ListItems[Len(ListItems)], n)]
      BY <1>8, AppendItemStep
    <2>2. Store!AppendItem(n)
      BY <1>0, <1>8, <2>1 DEF Store!AppendItem, AppendItem
    <2> QED
      BY <1>0, <2>1, <2>2 DEF Store!Next
  <1>9. ASSUME NEW n \in NodeIds, NEW child \in NodeIds, AddChild(n, child)
        PROVE  SinkInv' /\ [Store!Next]_(Store!vars)
    <2>1. /\ SinkInv' /\ child # n /\ Young(n)
          /\ Forest' = [Forest EXCEPT ![n] = Append(Forest[n], child)]
          /\ ListItems' = ListItems /\ Saved' = Saved
      BY <1>9, AddChildStep
    <2>2. Store!AddChild(n, child)
      BY <1>0, <2>1 DEF Store!AddChild
    <2> QED
      BY <1>0, <2>1, <2>2 DEF Store!Next
  <1>10. CASE UNCHANGED vars
    <2>1. /\ nodes' = nodes /\ data' = data /\ spills' = spills /\ blocks' = blocks
          /\ next' = next /\ lists' = lists /\ marks' = marks
      BY <1>10 DEF vars
    <2>2. /\ IndicesOK' /\ SlicesOK' /\ Forest' = Forest /\ ListItems' = ListItems /\ TypeOK'
      BY <2>1, OnlyMarks DEF SinkInv, TypeOK
    <2>3. MarksOK'
      <3>1. ASSUME NEW k \in DOMAIN marks
            PROVE  \E x : x = marks[k] /\ Older(x)'
        BY <2>1, <3>1, MarksAreOlder, OlderStays DEF SinkInv, AllOlder
      <3>2. \A j, k \in DOMAIN marks : j < k => NotBeyond(marks[j], marks[k])
        BY MarksAreOlder DEF SinkInv, AllOlder
      <3>3. AllOlder'
        BY <2>1, <3>1, <3>2 DEF AllOlder, NotBeyond
      <3> QED
        BY <3>3, MarksAreOlder, PTL
    <2>4. Saved' = Saved
      BY <2>1, <2>2 DEF Saved
    <2> QED
      BY <2>2, <2>3, <2>4 DEF SinkInv, Store!vars
  <1> QED
    BY <1>1, <1>2, <1>3, <1>4, <1>5, <1>6, <1>7, <1>8, <1>9, <1>10 DEF Next

\* Indices, slices and marks stay in order (compact_sink.go: ensureChildren,
\* compactArena, mark, rewind): a node's index and its slice are its own, no
\* two slices in use have a cell in common, and what is older than a mark lies
\* within the lengths of the mark.
THEOREM SinkAlwaysInOrder == Spec => []SinkInv
  <1>1. Init => SinkInv
    BY SinkInvInit
  <1>2. SinkInv /\ [Next]_vars => SinkInv'
    BY SinkStep
  <1> QED
    BY <1>1, <1>2, PTL DEF Spec

\* The compact sink implements the store of nodes: growing a node or a list
\* changes that node or list only, and cutting everything back to the lengths
\* of a mark brings back what there was when it was set (compact_sink.go: mark,
\* rewind), whatever was allocated, grown or cut back in between.
THEOREM SinkImplementsStore == Spec => StoreSpec
  <1>1. Init => SinkInv /\ Store!Init
    BY SinkInvInit
  <1>2. SinkInv /\ [Next]_vars => SinkInv' /\ [Store!Next]_(Store!vars)
    BY SinkStep
  <1> QED
    BY <1>1, <1>2, PTL DEF Spec, StoreSpec, Store!Spec

============================================================================
