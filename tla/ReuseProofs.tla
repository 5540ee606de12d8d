---------------------------- MODULE ReuseProofs ----------------------------
(***************************************************************************)
(* What shifting an offset over an edit preserves, which edit is found     *)
(* between two texts, that reuse after a change of trivia is exact, and    *)
(* that a table of declarations brought up to date is that of a full build *)
(* where the parser is local, for texts of any length and edits of any     *)
(* size.                                                                   *)
(***************************************************************************)
EXTENDS ReuseProps, DeclarationIndex, SequenceTheorems, FiniteSetTheorems,
        Counting, TLAPS

---------------------------------------------------------------------------
(* Shifting. *)

\* A text, its revision and an edit that leads from one to the other.
Revision(S, before, after, edit) ==
    /\ before \in Seq(S) /\ after \in Seq(S)
    /\ edit \in [before : [from : Int, to : Int], after : [from : Int, to : Int]]
    /\ IsEdit(before, after, edit)

\* shiftOffset never swaps two offsets: a span it shifts does not end before
\* it begins, and spans that follow each other still do.
THEOREM ShiftMonotone ==
    ASSUME NEW S, NEW before, NEW after, NEW edit, Revision(S, before, after, edit),
           NEW o \in Nat, NEW p \in Nat, o <= p
    PROVE  ShiftOffset(o, edit) <= ShiftOffset(p, edit)
<1> DEFINE b == edit.before
           a == edit.after
<1>1. /\ b.from \in Int /\ b.to \in Int /\ a.from \in Int /\ a.to \in Int
      /\ b.from = a.from /\ b.from <= b.to /\ a.from <= a.to
  BY DEF Revision, IsEdit
<1> QED
  BY <1>1 DEF ShiftOffset

\* shiftOffset never leaves the text: an offset of the old text, its end
\* included, becomes one of the new text.
THEOREM ShiftInside ==
    ASSUME NEW S, NEW before, NEW after, NEW edit, Revision(S, before, after, edit),
           NEW o \in 0 .. Len(before)
    PROVE  ShiftOffset(o, edit) \in 0 .. Len(after)
<1> DEFINE b == edit.before
           a == edit.after
<1>1. /\ b.from \in Int /\ b.to \in Int /\ a.from \in Int /\ a.to \in Int
      /\ b.from = a.from /\ 0 <= b.from /\ b.from <= b.to
      /\ b.to <= Len(before) /\ a.from <= a.to /\ a.to <= Len(after)
      /\ Len(before) - b.to = Len(after) - a.to
  BY DEF Revision, IsEdit
<1>2. Len(before) \in Nat /\ Len(after) \in Nat
  BY DEF Revision
<1>3. o \in Nat /\ o <= Len(before)
  BY <1>2
<1>4. CASE o <= b.from
  BY <1>1, <1>2, <1>3, <1>4 DEF ShiftOffset
<1>5. CASE o > b.from /\ o >= b.to
  BY <1>1, <1>2, <1>3, <1>5 DEF ShiftOffset
<1>6. CASE o > b.from /\ o < b.to
  BY <1>1, <1>2, <1>3, <1>6 DEF ShiftOffset
<1>7. \/ o <= b.from
      \/ o > b.from /\ o >= b.to
      \/ o > b.from /\ o < b.to
  BY <1>1, <1>3
<1> QED
  BY <1>4, <1>5, <1>6, <1>7

LEMMA SlicesAgree ==
    ASSUME NEW S, NEW s \in Seq(S), NEW t \in Seq(S),
           NEW m \in Int, NEW n \in Int, NEW d \in Int,
           1 <= m, n <= Len(s), 1 <= m + d, n + d <= Len(t), m <= n,
           \A i \in m .. n : s[i] = t[i + d]
    PROVE  SubSeq(s, m, n) = SubSeq(t, m + d, n + d)
<1> DEFINE left == SubSeq(s, m, n)
           right == SubSeq(t, m + d, n + d)
<1>1. \A i \in m .. n : s[i] \in S
  OBVIOUS
<1>2. /\ left \in Seq(S) /\ Len(left) = n - m + 1
      /\ \A i \in 1 .. (n - m + 1) : left[i] = s[m + i - 1]
  BY <1>1, SubSeqProperties
<1>3. \A i \in (m + d) .. (n + d) : t[i] \in S
  OBVIOUS
<1>4. /\ m + d \in Int /\ n + d \in Int
      /\ m + d <= n + d /\ (n + d) - (m + d) + 1 = n - m + 1
  OBVIOUS
<1>5. /\ right \in Seq(S)
      /\ Len(right) = (n + d) - (m + d) + 1
      /\ \A i \in 1 .. ((n + d) - (m + d) + 1) : right[i] = t[(m + d) + i - 1]
  BY <1>3, <1>4, SubSeqProperties
<1> HIDE DEF left, right
<1>6. \A i \in 1 .. Len(left) : left[i] = right[i]
  <2> TAKE i \in 1 .. Len(left)
  <2>1. m + i - 1 \in m .. n /\ (m + d) + i - 1 = (m + i - 1) + d
    BY <1>2
  <2>2. s[m + i - 1] = t[(m + i - 1) + d]
    BY <2>1
  <2> QED
    BY <1>2, <1>4, <1>5, <2>1, <2>2
<1>7. left = right
  BY <1>2, <1>4, <1>5, <1>6, SeqEqual
<1> QED
  BY <1>7 DEF left, right

\* A span the edit does not reach keeps its text: it stays where it is when
\* the edit is behind it and moves by the length the edit adds when the edit
\* is before it.  (A span that begins where the edit inserts would take in
\* the insertion: it has to begin behind the start of the edit.)
THEOREM ShiftKeepsText ==
    ASSUME NEW S, NEW before, NEW after, NEW edit, Revision(S, before, after, edit),
           NEW r \in [from : Nat, to : Nat],
           r.from < r.to, r.to <= Len(before),
           \/ r.to <= edit.before.from
           \/ r.from >= edit.before.to /\ r.from > edit.before.from
    PROVE  Slice(after, ShiftRange(r, edit)) = Slice(before, r)
<1> DEFINE b == edit.before
           a == edit.after
           s == ShiftRange(r, edit)
<1>1. /\ b.from \in Int /\ b.to \in Int /\ a.from \in Int /\ a.to \in Int
      /\ b.from = a.from /\ 0 <= b.from /\ b.from <= b.to
      /\ b.to <= Len(before) /\ a.from <= a.to /\ a.to <= Len(after)
      /\ Len(before) - b.to = Len(after) - a.to
  BY DEF Revision, IsEdit
<1>2. before \in Seq(S) /\ after \in Seq(S) /\ Len(before) \in Nat /\ Len(after) \in Nat
  BY DEF Revision
<1>3. r.from \in Nat /\ r.to \in Nat
  OBVIOUS
<1>4. ASSUME NEW d \in Int,
             s = ByteRange(r.from + d, r.to + d),
             0 <= r.from + d, r.to + d <= Len(after),
             \A i \in (r.from + 1) .. r.to : before[i] = after[i + d]
      PROVE  Slice(after, s) = Slice(before, r)
  <2> HIDE DEF s
  <2>1. /\ r.from + 1 \in Int /\ r.to \in Int /\ r.from + 1 <= r.to
        /\ 1 <= r.from + 1 /\ 1 <= (r.from + 1) + d
    BY <1>3, <1>4
  <2>2. r.to <= Len(before) /\ r.to + d <= Len(after)
    BY <1>4
  <2>3. \A i \in (r.from + 1) .. r.to : before[i] = after[i + d]
    BY <1>4
  <2>4. SubSeq(before, r.from + 1, r.to) = SubSeq(after, (r.from + 1) + d, r.to + d)
    <3> DEFINE m == r.from + 1
               n == r.to
    <3>1. /\ m \in Int /\ n \in Int /\ 1 <= m /\ n <= Len(before)
          /\ 1 <= m + d /\ n + d <= Len(after) /\ m <= n
      BY <2>1, <2>2
    <3>2. \A i \in m .. n : before[i] = after[i + d]
      BY <2>3
    <3> HIDE DEF m, n
    <3>3. SubSeq(before, m, n) = SubSeq(after, m + d, n + d)
      BY <1>2, <3>1, <3>2, SlicesAgree
    <3> QED
      BY <3>3 DEF m, n
  <2>5. (r.from + 1) + d = (r.from + d) + 1
    BY <1>3, <1>4
  <2> QED
    BY <1>4, <2>4, <2>5 DEF Slice, ByteRange
<1>5. CASE r.to <= b.from
  <2>1. s = ByteRange(r.from + 0, r.to + 0)
    BY <1>1, <1>3, <1>5 DEF ShiftRange, ByteRange, ShiftOffset
  <2>2. \A i \in 1 .. b.from : before[i] = after[i]
    BY DEF Revision, IsEdit
  <2>3. \A i \in (r.from + 1) .. r.to : before[i] = after[i + 0]
    BY <1>1, <1>3, <1>5, <2>2
  <2>4. 0 <= r.from + 0 /\ r.to + 0 <= Len(after)
    BY <1>1, <1>2, <1>3, <1>5
  <2> HIDE DEF s
  <2>5. Slice(after, s) = Slice(before, r)
    BY <1>4, <2>1, <2>3, <2>4
  <2> QED
    BY <2>5 DEF s
<1>6. CASE r.from >= b.to /\ r.from > b.from
  <2>1. PICK d \in Int : d = a.to - b.to
    BY <1>1
  <2>2. s = ByteRange(r.from + d, r.to + d)
    <3>1. r.from > b.from /\ r.from >= b.to
      BY <1>6
    <3>2. r.to > b.from /\ r.to >= b.to
      BY <1>1, <1>3, <1>6
    <3>3. ShiftOffset(r.from, edit) = r.from + d
      BY <1>1, <1>3, <3>1, <2>1 DEF ShiftOffset
    <3>4. ShiftOffset(r.to, edit) = r.to + d
      BY <1>1, <1>3, <3>2, <2>1 DEF ShiftOffset
    <3> QED
      BY <3>3, <3>4 DEF ShiftRange
  <2>3. \A i \in (b.to + 1) .. Len(before) : before[i] = after[i + a.to - b.to]
    BY DEF Revision, IsEdit
  <2>4. \A i \in (r.from + 1) .. r.to : before[i] = after[i + d]
    <3> TAKE i \in (r.from + 1) .. r.to
    <3>1. i \in (b.to + 1) .. Len(before) /\ i + a.to - b.to = i + d
      BY <1>1, <1>2, <1>3, <1>6, <2>1
    <3> QED
      BY <2>3, <3>1
  <2>5. 0 <= r.from + d /\ r.to + d <= Len(after)
    <3>1. 0 <= a.to
      BY <1>1
    <3>2. Len(after) = Len(before) + d
      <4>1. /\ b.to \in Int /\ a.to \in Int
            /\ Len(before) \in Int /\ Len(after) \in Int
            /\ Len(before) - b.to = Len(after) - a.to
        BY <1>1, <1>2
      <4>2. \A x, y, u, v \in Int : u - x = v - y => v = u + (y - x)
        OBVIOUS
      <4> HIDE DEF a, b
      <4>3. Len(after) = Len(before) + (a.to - b.to)
        BY <4>1, <4>2
      <4> QED
        BY <2>1, <4>3
    <3>3. r.from + d >= a.to
      BY <1>1, <1>3, <1>6, <2>1
    <3>4. r.to + d <= Len(before) + d
      BY <1>2, <1>3, <2>1
    <3> QED
      BY <1>1, <1>2, <1>3, <2>1, <3>1, <3>2, <3>3, <3>4
  <2> HIDE DEF s
  <2>6. Slice(after, s) = Slice(before, r)
    BY <1>4, <2>2, <2>4, <2>5
  <2> QED
    BY <2>6 DEF s
<1> QED
  BY <1>5, <1>6

---------------------------------------------------------------------------
(* The edit between two texts. *)

\* The first n pieces are common, the next ones are not.
StartsKept(before, after, n) ==
    LET shorter == IF Len(before) < Len(after) THEN Len(before) ELSE Len(after)
    IN  /\ n \in 0 .. shorter
        /\ \A i \in 1 .. n : before[i] = after[i]
        /\ n < shorter => before[n + 1] # after[n + 1]

\* So are the last n, of what is behind the first ones.
EndsKept(before, after, start, n) ==
    LET shorter == IF Len(before) < Len(after) THEN Len(before) ELSE Len(after)
    IN  /\ n \in 0 .. (shorter - start)
        /\ \A i \in 0 .. (n - 1) : before[Len(before) - i] = after[Len(after) - i]
        /\ n < shorter - start => before[Len(before) - n] # after[Len(after) - n]

\* compatibleEdit finds both.
LEMMA EditFound ==
    ASSUME NEW S, NEW before \in Seq(S), NEW after \in Seq(S)
    PROVE  \E x, y \in Nat :
              /\ StartsKept(before, after, x) /\ EndsKept(before, after, x, y)
              /\ CompatibleEdit(before, after) = [before |-> ByteRange(x, Len(before) - y),
                                                  after |-> ByteRange(x, Len(after) - y)]
  <1>1. PICK b \in Nat, a \in Nat : b = Len(before) /\ a = Len(after)
    BY LenProperties
  <1>2. PICK c \in Nat : c = IF b < a THEN b ELSE a
    OBVIOUS
  <1>3. \E n : StartsKept(before, after, n)
    <2>1. PICK A : A = {i \in 1 .. c : before[i] = after[i]}
      OBVIOUS
    <2>2. PICK n \in 0 .. c : /\ \A i \in 1 .. n : i \in A
                              /\ n < c => n + 1 \notin A
      BY <1>2, Longest
    <2>3. n < c => n + 1 \in 1 .. c
      OBVIOUS
    <2>4. /\ \A i \in 1 .. n : before[i] = after[i]
          /\ n < c => before[n + 1] # after[n + 1]
      BY <2>1, <2>2, <2>3
    <2> QED
      BY <1>1, <1>2, <2>4 DEF StartsKept
  <1> DEFINE x == CHOOSE n : StartsKept(before, after, n)
  <1>4. StartsKept(before, after, x)
    BY <1>3
  <1>5. PICK m \in 0 .. c : m = x
    BY <1>1, <1>2, <1>4 DEF StartsKept
  <1>6. \E n : EndsKept(before, after, m, n)
    <2>1. PICK A : A = {i \in 1 .. c - m : before[b - (i - 1)] = after[a - (i - 1)]}
      OBVIOUS
    <2>2. c - m \in Nat
      OBVIOUS
    <2>3. PICK n \in 0 .. c - m : /\ \A i \in 1 .. n : i \in A
                                  /\ n < c - m => n + 1 \notin A
      BY <2>2, Longest
    <2>4. ASSUME NEW i \in 0 .. n - 1
          PROVE  before[b - i] = after[a - i]
      <3>1. i + 1 \in 1 .. n /\ (i + 1) - 1 = i
        BY <2>3
      <3>2. i + 1 \in A
        BY <2>3, <3>1
      <3> QED
        BY <2>1, <3>1, <3>2
    <2>5. ASSUME n < c - m
          PROVE  before[b - n] # after[a - n]
      <3>1. n + 1 \in 1 .. c - m /\ (n + 1) - 1 = n
        BY <2>3, <2>5
      <3>2. n + 1 \notin A
        BY <2>3, <2>5
      <3> QED
        BY <2>1, <3>1, <3>2
    <2> QED
      BY <1>1, <1>2, <2>3, <2>4, <2>5 DEF EndsKept
  <1> DEFINE y == CHOOSE n : EndsKept(before, after, m, n)
  <1>7. EndsKept(before, after, m, y)
    BY <1>6
  <1>8. CompatibleEdit(before, after) = [before |-> ByteRange(x, Len(before) - y),
                                         after |-> ByteRange(x, Len(after) - y)]
    BY <1>5 DEF CompatibleEdit, StartsKept, EndsKept
  <1> HIDE DEF x, y
  <1>9. y \in 0 .. c - m /\ m \in Nat /\ c - m \in Nat
    BY <1>1, <1>2, <1>7 DEF EndsKept
  <1>10. y \in Nat
    BY <1>9
  <1>11. /\ StartsKept(before, after, m) /\ EndsKept(before, after, m, y)
         /\ CompatibleEdit(before, after) = [before |-> ByteRange(m, Len(before) - y),
                                             after |-> ByteRange(m, Len(after) - y)]
    BY <1>4, <1>5, <1>7, <1>8
  <1> QED
    BY <1>9, <1>10, <1>11

\* What compatibleEdit returns is an edit from the one text to the other
\* (reuse.go: compatibleEdit), so all that is proved of shifting holds for it.
THEOREM FoundIsEdit ==
    ASSUME NEW S, NEW before \in Seq(S), NEW after \in Seq(S)
    PROVE  Revision(S, before, after, CompatibleEdit(before, after))
  <1>1. PICK b \in Nat, a \in Nat : b = Len(before) /\ a = Len(after)
    BY LenProperties
  <1>2. PICK x \in Nat, y \in Nat :
           /\ StartsKept(before, after, x) /\ EndsKept(before, after, x, y)
           /\ CompatibleEdit(before, after) = [before |-> ByteRange(x, b - y),
                                               after |-> ByteRange(x, a - y)]
    BY <1>1, EditFound
  <1>3. /\ x + y <= b /\ x + y <= a
        /\ \A i \in 1 .. x : before[i] = after[i]
        /\ \A i \in 0 .. y - 1 : before[b - i] = after[a - i]
    BY <1>1, <1>2 DEF StartsKept, EndsKept
  <1>4. PICK e : e = CompatibleEdit(before, after)
    OBVIOUS
  <1>5. /\ e.before = ByteRange(x, b - y) /\ e.after = ByteRange(x, a - y)
        /\ e.before.from = x /\ e.before.to = b - y /\ e.after.from = x /\ e.after.to = a - y
        /\ e \in [before : [from : Int, to : Int], after : [from : Int, to : Int]]
    BY <1>2, <1>4 DEF ByteRange
  <1>6. ASSUME NEW i \in (b - y) + 1 .. b
        PROVE  before[i] = after[i + (a - y) - (b - y)]
    <2>1. b - i \in 0 .. y - 1 /\ b - (b - i) = i /\ a - (b - i) = i + (a - y) - (b - y)
      BY <1>3
    <2> QED
      BY <1>3, <2>1
  <1>7. /\ 0 <= x /\ x <= b - y /\ b - y <= b /\ x <= a - y /\ a - y <= a
        /\ b - (b - y) = a - (a - y)
    BY <1>3
  <1>8. IsEdit(before, after, e)
    BY <1>1, <1>3, <1>5, <1>6, <1>7 DEF IsEdit
  <1> QED
    BY <1>4, <1>5, <1>8 DEF Revision

\* And there is no shorter one: no edit between the texts begins behind it, or
\* removes or inserts less.
THEOREM FoundIsShortest ==
    ASSUME NEW S, NEW before, NEW after, NEW edit, Revision(S, before, after, edit)
    PROVE  LET found == CompatibleEdit(before, after)
           IN  /\ edit.before.from <= found.before.from
               /\ found.before.to - found.before.from <= edit.before.to - edit.before.from
               /\ found.after.to - found.after.from <= edit.after.to - edit.after.from
  <1>0. before \in Seq(S) /\ after \in Seq(S)
    BY DEF Revision
  <1>1. PICK b \in Nat, a \in Nat : b = Len(before) /\ a = Len(after)
    BY <1>0, LenProperties
  <1>2. PICK x \in Nat, y \in Nat :
           /\ StartsKept(before, after, x) /\ EndsKept(before, after, x, y)
           /\ CompatibleEdit(before, after) = [before |-> ByteRange(x, b - y),
                                               after |-> ByteRange(x, a - y)]
    BY <1>0, <1>1, EditFound
  <1>3. PICK c \in Nat : c = IF b < a THEN b ELSE a
    OBVIOUS
  <1>4. /\ x + y <= c
        /\ x < c => before[x + 1] # after[x + 1]
        /\ y < c - x => before[b - y] # after[a - y]
    BY <1>1, <1>2, <1>3 DEF StartsKept, EndsKept
  <1>5. PICK p \in Int, q \in Int, r \in Int :
           p = edit.before.from /\ q = edit.before.to /\ r = edit.after.to
    BY DEF Revision
  <1>6. /\ edit.after.from = p /\ 0 <= p /\ p <= q /\ q <= b /\ p <= r /\ r <= a /\ b - q = a - r
        /\ \A i \in 1 .. p : before[i] = after[i]
        /\ \A i \in q + 1 .. b : before[i] = after[i + r - q]
    BY <1>1, <1>5 DEF Revision, IsEdit
  <1>7. p <= x
    <2> SUFFICES ASSUME p > x
                 PROVE  FALSE
      OBVIOUS
    <2>1. x < c /\ x + 1 \in 1 .. p
      BY <1>3, <1>6
    <2> QED
      BY <1>4, <1>6, <2>1
  <1>8. p + (b - q) <= x + y
    <2> SUFFICES ASSUME x + y < p + (b - q)
                 PROVE  FALSE
      BY <1>6
    <2>1. p + (b - q) <= c
      BY <1>3, <1>6
    <2>2. y < c - x
      BY <1>3, <1>6, <2>1
    <2>3. y < b - q
      BY <1>6, <1>7
    <2>4. b - y \in q + 1 .. b /\ (b - y) + r - q = a - y
      BY <1>6, <2>3
    <2>5. before[b - y] = after[a - y]
      BY <1>6, <2>4
    <2> QED
      BY <1>4, <2>2, <2>5
  <1>9. PICK e : e = CompatibleEdit(before, after)
    OBVIOUS
  <1>10. e.before.from = x /\ e.before.to = b - y /\ e.after.from = x /\ e.after.to = a - y
    BY <1>2, <1>9 DEF ByteRange
  <1>11. (b - y) - x <= q - p /\ (a - y) - x <= r - p
    BY <1>6, <1>8
  <1> QED
    BY <1>5, <1>6, <1>7, <1>9, <1>10, <1>11

---------------------------------------------------------------------------
(* Reuse after a change of trivia. *)

\* Letters, blanks and newlines are three different things.
LEMMA PiecesApart ==
    ASSUME NEW x, NEW y, x = y \/ {x, y} \subseteq Blanks
    PROVE  /\ x \in Letters <=> y \in Letters
           /\ x \in Letters => x = y
           /\ x \notin Letters \cup Newlines \cup Blanks <=> y \notin Letters \cup Newlines \cup Blanks
           /\ x \notin Letters \cup Newlines \cup Blanks => x = y
           /\ x = "\n" <=> y = "\n"
  <1>1. \A z \in Blanks : z \notin Letters /\ z # "\n"
    BY DEF Blanks, Letters
  <1> QED
    BY <1>1

\* Texts of the same layout have the same code but for the spelling of blanks.
LEMMA LayoutFacts ==
    ASSUME NEW a, NEW b, SameLayout(a, b)
    PROVE  /\ Code(a) = Code(b) /\ Len(a) = Len(b)
           /\ \A i \in Code(a) : a[i] = b[i] \/ {a[i], b[i]} \subseteq Blanks
           /\ LettersOf(a) = LettersOf(b)
           /\ Others(a) = Others(b)
  <1>1. Code(a) = Code(b) /\ Len(a) = Len(b)
    BY DEF SameLayout, Code
  <1>2. \A i \in Code(a) : a[i] = b[i] \/ {a[i], b[i]} \subseteq Blanks
    BY DEF SameLayout
  <1>3. LettersOf(a) = LettersOf(b)
    <2>1. \A i \in Code(a) : a[i] \in Letters <=> b[i] \in Letters
      BY <1>2, PiecesApart
    <2> QED
      BY <1>1, <2>1 DEF LettersOf
  <1>4. Others(a) = Others(b)
    <2>1. \A i \in Code(a) : a[i] \notin Letters \cup Newlines \cup Blanks
                         <=> b[i] \notin Letters \cup Newlines \cup Blanks
      BY <1>2, PiecesApart
    <2>2. {j \in Code(a) : a[j] \notin Letters \cup Newlines \cup Blanks} =
          {j \in Code(b) : b[j] \notin Letters \cup Newlines \cup Blanks}
      BY <1>1, <2>1
    <2> QED
      BY <2>2 DEF Others
  <1> QED
    BY <1>1, <1>2, <1>3, <1>4

\* So they have the same tokens, down to the text of each.
LEMMA SameTokens ==
    ASSUME NEW S, NEW a \in Seq(S), NEW b \in Seq(S), SameLayout(a, b)
    PROVE  Lex(a) = Lex(b)
  <1> DEFINE rangesOf(s) == Words(LettersOf(s)) \cup Others(s)
  <1>1. rangesOf(a) = rangesOf(b)
    BY LayoutFacts
  <1>2. Code(a) \subseteq 1 .. Len(a) /\ Len(a) = Len(b) /\ Len(a) \in Nat
    BY LayoutFacts, LenProperties DEF Code
  <1>3. ASSUME NEW m \in Int, NEW n \in Int, 1 <= m, m <= n, n <= Len(a),
               \A i \in m .. n : a[i] = b[i]
        PROVE  Slice(a, ByteRange(m - 1, n)) = Slice(b, ByteRange(m - 1, n))
    <2>1. /\ n <= Len(b) /\ 0 \in Int /\ 1 <= m + 0 /\ n + 0 <= Len(b)
          /\ \A i \in m .. n : a[i] = b[i + 0]
      BY <1>2, <1>3
    <2>2. SubSeq(a, m, n) = SubSeq(b, m + 0, n + 0)
      BY <1>3, <2>1, SlicesAgree
    <2>3. m + 0 = m /\ n + 0 = n /\ m - 1 + 1 = m
      OBVIOUS
    <2> QED
      BY <2>2, <2>3 DEF Slice, ByteRange
  <1>4. ASSUME NEW r \in Words(LettersOf(a))
        PROVE  Slice(a, r) = Slice(b, r)
    <2>1. PICK q \in [first : LettersOf(a), last : LettersOf(a)] :
             /\ r = ByteRange(q.first - 1, q.last)
             /\ q.first .. q.last \subseteq LettersOf(a) /\ q.first <= q.last
      BY <1>4 DEF Words
    <2>2. PICK m \in Int, n \in Int : m = q.first /\ n = q.last /\ 1 <= m /\ n <= Len(a) /\ m <= n
      <3>1. q.first \in 1 .. Len(a) /\ q.last \in 1 .. Len(a)
        BY <1>2, <2>1 DEF LettersOf
      <3> QED
        BY <1>2, <2>1, <3>1
    <2>3. ASSUME NEW i \in m .. n
          PROVE  a[i] = b[i]
      <3>1. i \in Code(a) /\ a[i] \in Letters
        BY <2>1, <2>2, <2>3 DEF LettersOf
      <3>2. a[i] = b[i] \/ {a[i], b[i]} \subseteq Blanks
        BY <3>1, LayoutFacts
      <3> QED
        BY <3>1, <3>2, PiecesApart
    <2> QED
      BY <1>3, <2>1, <2>2, <2>3
  <1>5. ASSUME NEW r \in Others(a)
        PROVE  Slice(a, r) = Slice(b, r)
    <2>1. PICK j \in Code(a) : /\ r = ByteRange(j - 1, j)
                               /\ a[j] \notin Letters \cup Newlines \cup Blanks
      BY <1>5 DEF Others
    <2>2. j \in Int /\ 1 <= j /\ j <= Len(a) /\ j <= j
      BY <1>2
    <2>3. a[j] = b[j]
      BY <2>1, LayoutFacts, PiecesApart
    <2>4. \A i \in j .. j : a[i] = b[i]
      BY <2>2, <2>3
    <2> QED
      BY <1>3, <2>1, <2>2, <2>4
  <1>6. \A r \in rangesOf(a) : Lexed(a, r) = Lexed(b, r)
    BY <1>4, <1>5 DEF Lexed
  <1>7. {Lexed(a, r) : r \in rangesOf(a)} = {Lexed(b, r) : r \in rangesOf(b)}
    BY <1>1, <1>6
  <1> QED
    BY <1>7 DEF Lex

\* And the same lines, so that the engine gives the same for both.
LEMMA SameRun ==
    ASSUME NEW S, NEW a \in Seq(S), NEW b \in Seq(S), SameLayout(a, b)
    PROVE  /\ Tokens(a) = Tokens(b)
           /\ Run(a) = [Run(b) EXCEPT !.source = a, !.tokens = Tokens(a)]
  <1>1. Lex(a) = Lex(b)
    BY SameTokens
  <1>2. Tokens(a) = Tokens(b)
    BY <1>1 DEF Tokens
  <1>3. ASSUME NEW tokens
        PROVE  LineBreaks(a, tokens) = LineBreaks(b, tokens)
    <2>1. Code(a) = Code(b)
      BY LayoutFacts
    <2>2. ASSUME NEW p \in Code(a)
          PROVE  a[p] = "\n" <=> b[p] = "\n"
      <3>1. a[p] = b[p] \/ {a[p], b[p]} \subseteq Blanks
        BY LayoutFacts
      <3> QED
        BY <3>1, PiecesApart
    <2> QED
      BY <2>1, <2>2 DEF LineBreaks
  <1>4. Lines(a) = Lines(b)
    BY <1>1, <1>3 DEF Lines
  <1>5. PICK end : end = FoldLeft(Line, Empty, Lines(a))
    OBVIOUS
  <1>6. Run(a) = [source |-> a, tokens |-> Tokens(a), branches |-> end.branches,
                  invocations |-> end.invocations, macros |-> end.macros]
    BY <1>5 DEF Run
  <1>7. Run(b) = [source |-> b, tokens |-> Tokens(b), branches |-> end.branches,
                  invocations |-> end.invocations, macros |-> end.macros]
    BY <1>4, <1>5 DEF Run
  <1>8. PICK t : t = Tokens(a)
    OBVIOUS
  <1>9. PICK r : r = Run(b)
    OBVIOUS
  <1>10. PICK x, y, z : x = end.branches /\ y = end.invocations /\ z = end.macros
    OBVIOUS
  <1>11. r = [source |-> b, tokens |-> Tokens(b), branches |-> x, invocations |-> y, macros |-> z]
    BY <1>7, <1>9, <1>10
  <1>12. PICK q : q = [r EXCEPT !.source = a, !.tokens = t]
    OBVIOUS
  <1>13. q = [source |-> a, tokens |-> t, branches |-> x, invocations |-> y, macros |-> z]
    BY <1>11, <1>12
  <1> QED
    BY <1>2, <1>6, <1>8, <1>9, <1>10, <1>12, <1>13

\* A result has these fields, and its text is one the caller may hold.
OfText ==
    /\ result = [source |-> result.source, tokens |-> result.tokens, branches |-> result.branches,
                 invocations |-> result.invocations, macros |-> result.macros]
    /\ result.source \in Documents

\* What a step does: it takes the new text, whichever way it gets a result.
NewText(src) ==
    /\ OfText' /\ result'.source = src
    /\ how' = "trivia" =>
          /\ SameLayout(src, result.source)
          /\ result' = [result EXCEPT !.source = src, !.tokens = TokensOf(src)]

\* Every edit leads to a new text.
LEMMA EditFacts ==
    ASSUME OfText, NEW at \in 0 .. Len(result.source), NEW removed \in 0 .. MaxEdit, NEW inserted \in Texts(MaxEdit),
           Edit(at, removed, inserted)
    PROVE  \E src : NewText(src)
  <1>1. PICK old : old = result.source
    OBVIOUS
  <1>2. PICK src : src = SubSeq(old, 1, at) \o inserted \o SubSeq(old, at + removed + 1, Len(old))
    OBVIOUS
  <1>3. src \in Documents
    BY <1>1, <1>2 DEF Edit
  <1>4. \/ \E edit : ReuseCompatible(src, edit)
        \/ ReuseTrivia(src)
        \/ RunAgain(src)
    BY <1>1, <1>2 DEF Edit
  <1>5. CASE \E edit : ReuseCompatible(src, edit)
    <2>1. PICK edit : result' = Shifted(src, edit) /\ how' = "compatible"
      BY <1>5 DEF ReuseCompatible
    <2>2. OfText' /\ result'.source = src
      BY <1>3, <2>1 DEF Shifted, OfText
    <2> QED
      BY <2>1, <2>2 DEF NewText
  <1>6. CASE ReuseTrivia(src)
    <2>1. PICK t : t = TokensOf(src)
      OBVIOUS
    <2>2. result' = [result EXCEPT !.source = src, !.tokens = t] /\ SameLayout(src, result.source)
      BY <1>6, <2>1 DEF ReuseTrivia
    <2>3. result' = [source |-> src, tokens |-> t, branches |-> result.branches,
                     invocations |-> result.invocations, macros |-> result.macros]
      BY <2>2 DEF OfText
    <2>4. OfText' /\ result'.source = src
      BY <1>3, <2>3 DEF OfText
    <2> QED
      BY <2>1, <2>2, <2>4 DEF NewText
  <1>7. CASE RunAgain(src)
    <2>1. result' = Run(src) /\ how' = "run"
      BY <1>3, <1>7 DEF RunAgain, Results
    <2>2. OfText' /\ result'.source = src
      BY <1>3, <2>1 DEF Run, OfText
    <2> QED
      BY <2>1, <2>2 DEF NewText
  <1> QED
    BY <1>4, <1>5, <1>6, <1>7

\* The text a result is about stays a text.
LEMMA AlwaysOfText == Spec => []OfText
  <1>1. Init => OfText
    <2> SUFFICES ASSUME Init
                 PROVE  OfText
      OBVIOUS
    <2>1. PICK s \in Documents : result = Results[s]
      BY DEF Init
    <2>2. result = Run(s)
      BY <2>1 DEF Results
    <2> QED
      BY <2>2 DEF Run, OfText
  <1>2. OfText /\ [Next]_vars => OfText'
    <2> SUFFICES ASSUME OfText, [Next]_vars
                 PROVE  OfText'
      OBVIOUS
    <2>1. CASE Next
      BY <2>1, EditFacts DEF Next, NewText
    <2>2. CASE UNCHANGED vars
      BY <2>2 DEF vars, OfText
    <2> QED
      BY <2>1, <2>2
  <1> QED
    BY <1>1, <1>2, PTL DEF Spec

\* Where only blanks and the text of comments changed, a result that was exact
\* stays exact (reuse.go: ReuseTriviaContext, sameLexicalLayout): tokens, lines
\* and therefore all the engine finds are those of the new text.
THEOREM TriviaReuseKeepsAll == Spec => TriviaReuseIsExact
  <1>1. OfText /\ [Next]_vars => [how' = "trivia" /\ result = Fresh => result' = Fresh']_vars
    <2> SUFFICES ASSUME OfText, Next, how' = "trivia", result = Fresh
                 PROVE  result' = Fresh'
      OBVIOUS
    <2>1. PICK src : NewText(src)
      BY EditFacts DEF Next
    <2>2. PICK old : old = result.source
      OBVIOUS
    <2>3. old \in Documents /\ src \in Documents
      BY <2>1, <2>2 DEF OfText, NewText
    <2>4. src \in Seq(Pieces) /\ old \in Seq(Pieces)
      BY <2>3, ReuseAssumption
    <2>5. SameLayout(src, old) /\ result' = [result EXCEPT !.source = src, !.tokens = TokensOf(src)]
      BY <2>1, <2>2 DEF NewText
    <2>6. result = Run(old)
      BY <2>2, <2>3 DEF Fresh, Results
    <2>7. Fresh' = Run(src)
      BY <2>1, <2>3 DEF Fresh, Results, NewText
    <2>8. TokensOf(src) = Tokens(src)
      <3>1. TokensOf(src) = Run(src).tokens
        BY <2>3 DEF TokensOf, Results
      <3> QED
        BY <3>1 DEF Run
    <2>9. Run(src) = [Run(old) EXCEPT !.source = src, !.tokens = Tokens(src)]
      BY <2>4, <2>5, SameRun
    <2> QED
      BY <2>5, <2>6, <2>7, <2>8, <2>9
  <1> QED
    BY <1>1, AlwaysOfText, PTL DEF Spec, TriviaReuseIsExact

---------------------------------------------------------------------------
(* The table of declarations. *)

\* A declaration of a text: any node with offsets in the text.
Declared(N, file) ==
    /\ DeclarationsOf(file) \in Seq(N)
    /\ \A i \in DOMAIN DeclarationsOf(file) :
          LET n == DeclarationsOf(file)[i]
          IN  n.from \in Nat /\ n.to \in 0 .. Len(file.source)

\* The declarations of a table, each as it is built.
LEMMA ItemFacts ==
    ASSUME NEW N, NEW file, Declared(N, file)
    PROVE  \E n \in Nat :
              /\ n = Len(BuildDeclarationIndex(file).items)
              /\ n = Len(DeclarationsOf(file))
              /\ DOMAIN DeclarationsOf(file) = 1 .. n
              /\ DOMAIN BuildDeclarationIndex(file).items = 1 .. n
              /\ \A i \in 1 .. n :
                    BuildDeclarationIndex(file).items[i]
                        = Boundary(file, DeclarationsOf(file), i)
  <1>1. DeclarationsOf(file) \in Seq(N)
    BY DEF Declared
  <1>2. PICK d : d = DeclarationsOf(file)
    OBVIOUS
  <1>3. PICK n \in Nat : n = Len(d) /\ DOMAIN d = 1 .. n
    BY <1>1, <1>2, LenProperties
  <1>4. PICK items : items = [i \in 1 .. n |-> Boundary(file, d, i)]
    OBVIOUS
  <1>5. BuildDeclarationIndex(file).items = items
    BY <1>2, <1>3, <1>4 DEF BuildDeclarationIndex
  <1>6. PICK S : S = {Boundary(file, d, i) : i \in 1 .. n}
    OBVIOUS
  <1>7. items \in [1 .. n -> S]
    BY <1>4, <1>6
  <1>8. items \in Seq(S) /\ Len(items) = n
    BY <1>7
  <1>9. \A i \in 1 .. n : items[i] = Boundary(file, d, i)
    BY <1>4
  <1>10. DOMAIN items = 1 .. n
    BY <1>4
  <1> QED
    BY <1>2, <1>3, <1>5, <1>8, <1>9, <1>10

\* What a declaration of a table says.
LEMMA BoundaryFacts ==
    ASSUME NEW file, NEW d, NEW i
    PROVE  /\ Boundary(file, d, i).kind = DeclarationKind(d[i])
           /\ Boundary(file, d, i).name = declarationName(d[i], file.source)
           /\ Boundary(file, d, i).range = RangeOf(d[i])
           /\ Boundary(file, d, i).fingerprint = Slice(file.source, Boundary(file, d, i).range)
  BY DEF Boundary

LEMMA BoundaryIsRecord ==
    ASSUME NEW file, NEW d, NEW i, NEW b, b = Boundary(file, d, i)
    PROVE  b = [kind |-> b.kind, range |-> b.range, name |-> b.name, ordinal |-> b.ordinal,
                fingerprint |-> b.fingerprint, err |-> b.err]
  BY DEF Boundary

\* The ordinal of a declaration counts the like ones before it.
LEMMA OrdinalOfBoundary ==
    ASSUME NEW file, NEW d, NEW i
    PROVE  Boundary(file, d, i).ordinal =
                 Cardinality({j \in 1 .. (i - 1) :
                     /\ Boundary(file, d, j).kind = Boundary(file, d, i).kind
                     /\ Boundary(file, d, j).name = Boundary(file, d, i).name})
  BY DEF Boundary

\* Declarations in order are in order however far apart.
LEMMA FarInOrder ==
    ASSUME NEW items, NEW n \in Nat, DOMAIN items = 1 .. n, InOrder(items),
           \A i \in 1 .. n : items[i].range.from \in Nat /\ items[i].range.to \in Nat,
           NEW i \in 1 .. n, NEW j \in 1 .. n, i < j
    PROVE  items[i].range.to <= items[j].range.from
  <1> DEFINE S == {k \in 0 .. j - (i + 1) :
                      items[i].range.to <= items[(i + 1) + k].range.from}
  <1>1. i \in Nat /\ j \in Nat /\ i + 1 \in 1 .. n /\ j - (i + 1) \in Nat
    OBVIOUS
  <1>2. ASSUME NEW k \in 1 .. n
        PROVE  /\ items[k].range.from \in Nat /\ items[k].range.to \in Nat
               /\ items[k].range.from <= items[k].range.to
               /\ k > 1 => items[k - 1].range.to <= items[k].range.from
    BY <1>2 DEF InOrder
  <1>3. 0 \in S
    <2>1. (i + 1) + 0 = i + 1 /\ (i + 1) - 1 = i /\ i + 1 > 1 /\ 0 \in 0 .. j - (i + 1)
      BY <1>1
    <2>2. items[(i + 1) - 1].range.to <= items[i + 1].range.from
      BY <1>1, <1>2, <2>1
    <2> QED
      BY <2>1, <2>2
  <1>4. ASSUME NEW k \in 0 .. (j - (i + 1)) - 1, k \in S
        PROVE  k + 1 \in S
    <2>1. PICK m \in 1 .. n : m = (i + 1) + k /\ m + 1 \in 1 .. n
      BY <1>1
    <2>2. (i + 1) + (k + 1) = m + 1 /\ (m + 1) - 1 = m /\ m + 1 > 1 /\ k + 1 \in 0 .. j - (i + 1)
      BY <1>1, <2>1
    <2>3. items[i].range.to <= items[m].range.from
      BY <1>4, <2>1
    <2>4. items[m].range.from <= items[m].range.to
      BY <1>2
    <2>5. items[m].range.to <= items[m + 1].range.from
      BY <1>2, <2>1, <2>2
    <2>6. /\ items[i].range.to \in Nat /\ items[m].range.from \in Nat
          /\ items[m].range.to \in Nat /\ items[m + 1].range.from \in Nat
      BY <1>2, <2>1
    <2>7. items[i].range.to <= items[m + 1].range.from
      BY <2>3, <2>4, <2>5, <2>6
    <2> QED
      BY <2>2, <2>7
  <1> HIDE DEF S
  <1>5. 0 .. j - (i + 1) \subseteq S
    BY <1>1, <1>3, <1>4, Counted
  <1>6. j - (i + 1) \in S
    BY <1>1, <1>5
  <1>7. (i + 1) + (j - (i + 1)) = j
    BY <1>1
  <1> QED
    BY <1>6, <1>7 DEF S

\* The declaration an edit lies in.
LEMMA ContainingFacts ==
    ASSUME NEW index, NEW r, Containing(index, r) # 0
    PROVE  /\ Containing(index, r) \in DOMAIN index.items
           /\ Encloses(index.items[Containing(index, r)].range, r)
  <1>1. PICK around : around = {i \in DOMAIN index.items : Encloses(index.items[i].range, r)}
    OBVIOUS
  <1>2. Cardinality(around) = 1 /\ Containing(index, r) = (CHOOSE i \in around : TRUE)
    BY <1>1 DEF Containing
  <1>3. around # {}
    BY <1>2, FS_EmptySet
  <1> QED
    BY <1>1, <1>2, <1>3

\* A declaration given the fingerprint and the ordinal it has.
LEMMA SameRecord ==
    ASSUME NEW f,
           f = [kind |-> f.kind, range |-> f.range, name |-> f.name, ordinal |-> f.ordinal,
                fingerprint |-> f.fingerprint, err |-> f.err]
    PROVE  [f EXCEPT !.fingerprint = f.fingerprint, !.ordinal = f.ordinal] = f
  OBVIOUS

\* The text of a declaration the edit lies before or behind is the text it was.
LEMMA SameFingerprint ==
    ASSUME NEW S, NEW before, NEW after, NEW edit, Revision(S, before, after, edit),
           NEW r \in [from : Nat, to : Nat], r.from <= r.to, r.to <= Len(before),
           \/ r.to <= edit.before.from
           \/ r.from >= edit.before.to /\ r.from > edit.before.from
    PROVE  Slice(after, ShiftRange(r, edit)) = Slice(before, r)
  <1>1. CASE r.from < r.to
    BY <1>1, ShiftKeepsText
  <1>2. CASE r.from = r.to
    <2>1. PICK a \in Nat : a = r.from
      OBVIOUS
    <2>2. PICK b : b = ShiftOffset(a, edit)
      OBVIOUS
    <2>3. b \in Int
      BY <2>2 DEF ShiftOffset, Revision
    <2>4. Slice(before, r) = SubSeq(before, a + 1, a)
      BY <1>2, <2>1 DEF Slice
    <2>5. Slice(after, ShiftRange(r, edit)) = SubSeq(after, b + 1, b)
      BY <1>2, <2>1, <2>2 DEF Slice, ShiftRange, ByteRange
    <2>6. before \in Seq(S) /\ after \in Seq(S)
      BY DEF Revision
    <2>7. SubSeq(before, a + 1, a) = <<>>
      BY <2>6
    <2>8. SubSeq(after, b + 1, b) = <<>>
      BY <2>3, <2>6
    <2> QED
      BY <2>4, <2>5, <2>7, <2>8
  <1> QED
    BY <1>1, <1>2

\* The declarations of a table lie in the text.
LEMMA RangesOfTable ==
    ASSUME NEW S, NEW N, NEW file, Declared(N, file), file.source \in Seq(S),
           NEW i \in DOMAIN BuildDeclarationIndex(file).items
    PROVE  /\ BuildDeclarationIndex(file).items[i].range \in [from : Nat, to : Nat]
           /\ BuildDeclarationIndex(file).items[i].range.to <= Len(file.source)
  <1>1. PICK n \in Nat : /\ DOMAIN DeclarationsOf(file) = 1 .. n
                         /\ DOMAIN BuildDeclarationIndex(file).items = 1 .. n
                         /\ \A j \in 1 .. n : BuildDeclarationIndex(file).items[j]
                               = Boundary(file, DeclarationsOf(file), j)
    BY ItemFacts
  <1>2. PICK d : d = DeclarationsOf(file)[i]
    OBVIOUS
  <1>3. d.from \in Nat /\ d.to \in 0 .. Len(file.source)
    BY <1>1, <1>2 DEF Declared
  <1>4. BuildDeclarationIndex(file).items[i].range = ByteRange(d.from, d.to)
    <2>1. PICK D : D = DeclarationsOf(file)
      OBVIOUS
    <2>2. BuildDeclarationIndex(file).items[i] = Boundary(file, D, i)
      BY <1>1, <2>1
    <2>3. Boundary(file, D, i).range = RangeOf(D[i])
      BY BoundaryFacts
    <2>4. RangeOf(D[i]) = ByteRange(d.from, d.to)
      BY <1>2, <2>1 DEF RangeOf
    <2> QED
      BY <2>2, <2>3, <2>4
  <1>5. Len(file.source) \in Nat
    BY LenProperties
  <1> QED
    BY <1>3, <1>4, <1>5 DEF ByteRange

\* A table brought up to date over an edit is the table a full build gives, as
\* long as the edit does not touch the end of its declaration: the ordinals
\* and fingerprints that are kept are those of the new text.  This rests on
\* what RebaseDeclarationIndex does not check: that the parser finds the
\* declarations in order, and the other ones where the edit moves them
\* (declaration_index.go; TestRebaseDeclarationIndexMatchesFullBuild).
THEOREM RebasedTableIsFresh ==
    ASSUME NEW S, NEW N, NEW old, NEW file, NEW edit,
           Revision(S, old.source, file.source, edit),
           Declared(N, old), Declared(N, file),
           LET previous == BuildDeclarationIndex(old)
               target == Containing(previous, edit.before)
           IN  /\ RebaseDeclarationIndex(previous, file, edit) # NoIndex
               /\ edit.before.to < previous.items[target].range.to
               /\ InOrder(BuildDeclarationIndex(file).items)
               /\ OthersMoved(previous, file, edit)
    PROVE  RebaseDeclarationIndex(BuildDeclarationIndex(old), file, edit)
               = BuildDeclarationIndex(file)
  <1>1. PICK previous : previous = BuildDeclarationIndex(old)
    OBVIOUS
  <1>2. PICK fresh : fresh = BuildDeclarationIndex(file).items
    OBVIOUS
  <1>3. PICK target : target = Containing(previous, edit.before)
    OBVIOUS
  <1>4. /\ edit.before.to < previous.items[target].range.to
        /\ InOrder(fresh) /\ OthersMoved(previous, file, edit)
    BY <1>1, <1>2, <1>3
  <1>5. /\ previous.reliable /\ ~file.errors /\ target # 0
        /\ Len(fresh) = Len(previous.items)
        /\ \A i \in DOMAIN fresh :
              /\ fresh[i].kind = previous.items[i].kind
              /\ fresh[i].name = previous.items[i].name
              /\ ~fresh[i].err
              /\ i = target => fresh[i].ordinal = previous.items[i].ordinal
        /\ RebaseDeclarationIndex(previous, file, edit) =
              [items |-> [i \in DOMAIN fresh |-> RebasedBoundary(previous, fresh[i], i, target)],
               reliable |-> TRUE]
    BY <1>1, <1>2, <1>3 DEF RebaseDeclarationIndex
  <1>6. PICK n \in Nat : /\ n = Len(fresh) /\ DOMAIN DeclarationsOf(file) = 1 .. n
                         /\ DOMAIN fresh = 1 .. n
                         /\ \A i \in 1 .. n :
                               fresh[i] = Boundary(file, DeclarationsOf(file), i)
    BY <1>2, ItemFacts
  <1>7. /\ DOMAIN DeclarationsOf(old) = 1 .. n
        /\ DOMAIN previous.items = 1 .. n
        /\ \A i \in 1 .. n : previous.items[i] = Boundary(old, DeclarationsOf(old), i)
    BY <1>1, <1>5, <1>6, ItemFacts
  <1>8. ASSUME NEW i \in 1 .. n
        PROVE  /\ previous.items[i].range \in [from : Nat, to : Nat]
               /\ previous.items[i].range.to <= Len(old.source)
               /\ fresh[i].range \in [from : Nat, to : Nat]
    <2>1. old.source \in Seq(S) /\ file.source \in Seq(S)
      BY DEF Revision
    <2>2. i \in DOMAIN BuildDeclarationIndex(old).items /\ i \in DOMAIN BuildDeclarationIndex(file).items
      BY <1>1, <1>2, <1>6, <1>7
    <2>3. /\ BuildDeclarationIndex(old).items[i].range \in [from : Nat, to : Nat]
          /\ BuildDeclarationIndex(old).items[i].range.to <= Len(old.source)
      BY <2>1, <2>2, RangesOfTable
    <2>4. BuildDeclarationIndex(file).items[i].range \in [from : Nat, to : Nat]
      BY <2>1, <2>2, RangesOfTable
    <2> QED
      BY <1>1, <1>2, <2>3, <2>4
  <1>9. InOrder(previous.items)
    <2>1. previous.reliable =
             /\ ~old.errors
             /\ \A i \in DOMAIN previous.items :
                   /\ previous.items[i].range.from
                         >= (IF i = 1 THEN 0 ELSE previous.items[i - 1].range.to)
                   /\ previous.items[i].range.to >= previous.items[i].range.from
                   /\ ~previous.items[i].err
      BY <1>1 DEF BuildDeclarationIndex
    <2>2. ASSUME NEW i \in 1 .. n
          PROVE  /\ previous.items[i].range.from <= previous.items[i].range.to
                 /\ i > 1 => previous.items[i - 1].range.to <= previous.items[i].range.from
      <3>1. \A k \in 1 .. n : /\ previous.items[k].range.from \in Nat
                               /\ previous.items[k].range.to \in Nat
        BY <1>8
      <3>2. previous.items[i].range.to >= previous.items[i].range.from
        BY <1>5, <1>7, <2>1
      <3>3. previous.items[i].range.from
               >= (IF i = 1 THEN 0 ELSE previous.items[i - 1].range.to)
        BY <1>5, <1>7, <2>1
      <3>4. i > 1 => i - 1 \in 1 .. n
        OBVIOUS
      <3> QED
        BY <3>1, <3>2, <3>3, <3>4
    <2> QED
      BY <1>7, <2>2 DEF InOrder
  <1>10. /\ target \in 1 .. n
         /\ previous.items[target].range.from <= edit.before.from
         /\ edit.before.to <= previous.items[target].range.to
    BY <1>3, <1>5, <1>7, ContainingFacts DEF Encloses
  <1>11. ASSUME NEW i \in 1 .. n
         PROVE  fresh[i].ordinal = previous.items[i].ordinal
    <2>1. PICK D : D = DeclarationsOf(file)
      OBVIOUS
    <2>2. PICK E : E = DeclarationsOf(old)
      OBVIOUS
    <2>3. fresh[i].ordinal =
             Cardinality({j \in 1 .. (i - 1) :
                 /\ Boundary(file, D, j).kind = Boundary(file, D, i).kind
                 /\ Boundary(file, D, j).name = Boundary(file, D, i).name})
      BY <1>6, <2>1, OrdinalOfBoundary
    <2>4. previous.items[i].ordinal =
             Cardinality({j \in 1 .. (i - 1) :
                 /\ Boundary(old, E, j).kind = Boundary(old, E, i).kind
                 /\ Boundary(old, E, j).name = Boundary(old, E, i).name})
      BY <1>7, <2>2, OrdinalOfBoundary
    <2>5. ASSUME NEW j \in 1 .. n
          PROVE  /\ Boundary(file, D, j).kind = Boundary(old, E, j).kind
                 /\ Boundary(file, D, j).name = Boundary(old, E, j).name
      BY <1>5, <1>6, <1>7, <2>1, <2>2
    <2>6. 1 .. (i - 1) \subseteq 1 .. n
      OBVIOUS
    <2>7. {j \in 1 .. (i - 1) :
                 /\ Boundary(file, D, j).kind = Boundary(file, D, i).kind
                 /\ Boundary(file, D, j).name = Boundary(file, D, i).name}
          = {j \in 1 .. (i - 1) :
                 /\ Boundary(old, E, j).kind = Boundary(old, E, i).kind
                 /\ Boundary(old, E, j).name = Boundary(old, E, i).name}
      BY <2>5, <2>6, Zenon
    <2> QED
      BY <2>3, <2>4, <2>7
  <1>12. ASSUME NEW i \in 1 .. n, i # target
         PROVE  fresh[i].fingerprint = previous.items[i].fingerprint
    <2>1. PICK r : r = previous.items[i].range
      OBVIOUS
    <2>2. fresh[i].range = ShiftRange(r, edit)
      BY <1>1, <1>2, <1>3, <1>4, <1>6, <1>12, <2>1 DEF OthersMoved
    <2>3. r \in [from : Nat, to : Nat] /\ r.to <= Len(old.source) /\ r.from <= r.to
      BY <1>7, <1>9, <1>8, <2>1 DEF InOrder
    <2>4. \/ r.to <= edit.before.from
          \/ r.from >= edit.before.to /\ r.from > edit.before.from
      <3>1. /\ edit.before.from \in Int /\ edit.before.to \in Int
            /\ edit.before.from <= edit.before.to
        BY DEF Revision, IsEdit
      <3>2. PICK t : t = previous.items[target].range
        OBVIOUS
      <3>3. t.from \in Nat /\ t.to \in Nat
        BY <1>8, <1>10, <3>2
      <3>4. \A k \in 1 .. n : /\ previous.items[k].range.from \in Nat
                               /\ previous.items[k].range.to \in Nat
        BY <1>8
      <3>5. CASE i < target
        <4>1. r.to <= t.from
          BY <1>7, <1>9, <1>10, <2>1, <3>2, <3>4, <3>5, FarInOrder
        <4> QED
          BY <1>10, <2>3, <3>1, <3>2, <3>3, <4>1
      <3>6. CASE i > target
        <4>1. t.to <= r.from
          BY <1>7, <1>9, <1>10, <2>1, <3>2, <3>4, <3>6, FarInOrder
        <4> QED
          BY <1>4, <1>10, <2>3, <3>1, <3>2, <3>3, <4>1
      <3> QED
        BY <1>10, <1>12, <3>5, <3>6
    <2>5. Slice(file.source, ShiftRange(r, edit)) = Slice(old.source, r)
      BY <2>3, <2>4, SameFingerprint
    <2>6. fresh[i].fingerprint = Slice(file.source, fresh[i].range)
      BY <1>6, BoundaryFacts
    <2>7. previous.items[i].fingerprint = Slice(old.source, previous.items[i].range)
      BY <1>7, BoundaryFacts
    <2> QED
      BY <2>1, <2>2, <2>5, <2>6, <2>7
  <1>13. ASSUME NEW i \in 1 .. n
         PROVE  RebasedBoundary(previous, fresh[i], i, target) = fresh[i]
    <2>1. CASE i = target
      BY <2>1 DEF RebasedBoundary
    <2>2. CASE i # target
      <3>1. PICK f : f = fresh[i]
        OBVIOUS
      <3>2. f = [kind |-> f.kind, range |-> f.range, name |-> f.name, ordinal |-> f.ordinal,
                 fingerprint |-> f.fingerprint, err |-> f.err]
        BY <1>6, <3>1, BoundaryIsRecord
      <3>3. RebasedBoundary(previous, f, i, target)
               = [f EXCEPT !.fingerprint = f.fingerprint, !.ordinal = f.ordinal]
        BY <1>11, <1>12, <2>2, <3>1 DEF RebasedBoundary
      <3> QED
        BY <3>1, <3>2, <3>3, SameRecord
    <2> QED
      BY <2>1, <2>2
  <1>14. [i \in DOMAIN fresh |-> RebasedBoundary(previous, fresh[i], i, target)] = fresh
    <2>1. fresh = [i \in 1 .. n |-> fresh[i]]
      BY <1>2, <1>6 DEF BuildDeclarationIndex
    <2> QED
      BY <1>6, <1>13, <2>1
  <1>15. BuildDeclarationIndex(file) = [items |-> fresh, reliable |-> TRUE]
    <2>1. BuildDeclarationIndex(file) =
             [items |-> fresh,
              reliable |-> /\ ~file.errors
                           /\ \A i \in DOMAIN fresh :
                                 /\ fresh[i].range.from
                                       >= (IF i = 1 THEN 0 ELSE fresh[i - 1].range.to)
                                 /\ fresh[i].range.to >= fresh[i].range.from
                                 /\ ~fresh[i].err]
      BY <1>2 DEF BuildDeclarationIndex
    <2>2. ASSUME NEW i \in 1 .. n
          PROVE  /\ fresh[i].range.from >= (IF i = 1 THEN 0 ELSE fresh[i - 1].range.to)
                 /\ fresh[i].range.to >= fresh[i].range.from
                 /\ ~fresh[i].err
      <3>1. fresh[i].range.from \in Nat /\ fresh[i].range.to \in Nat
        BY <1>8
      <3>2. fresh[i].range.from <= fresh[i].range.to
        BY <1>4, <1>6 DEF InOrder
      <3>3. ASSUME i # 1
            PROVE  fresh[i].range.from >= fresh[i - 1].range.to
        <4>1. i > 1 /\ i - 1 \in 1 .. n
          BY <3>3
        <4>2. fresh[i - 1].range.to \in Nat
          BY <1>8, <4>1
        <4>3. fresh[i - 1].range.to <= fresh[i].range.from
          BY <1>4, <1>6, <4>1 DEF InOrder
        <4> QED
          BY <3>1, <4>2, <4>3
      <3> QED
        BY <1>5, <1>6, <3>1, <3>2, <3>3
    <2> QED
      BY <1>5, <1>6, <2>1, <2>2
  <1> QED
    BY <1>1, <1>5, <1>14, <1>15

=============================================================================
