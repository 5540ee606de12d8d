----------------------- MODULE MacroExpansionProofs -----------------------
(***************************************************************************)
(* Proofs about macro expansion: what lexing, matching and substitution    *)
(* return, that every token keeps its type, and that every step takes      *)
(* weight away, which is why expansion ends.                               *)
(***************************************************************************)
EXTENDS MacroExpansionProps, SequenceTheorems, FiniteSetTheorems, Counting, TLAPS

---------------------------------------------------------------------------
(* Texts. *)

\* The pieces of a sequence of sequences, one after the other, have the
\* elements the pieces have.
LEMMA FlattenKeeps ==
    ASSUME NEW S, NEW ss \in Seq(Seq(S))
    PROVE  FlattenSeq(ss) \in Seq(S)
  <1>1. CASE Len(ss) = 0
    <2>1. ss = <<>>
      BY <1>1, EmptySeq
    <2> QED
      BY <1>1, <2>1 DEF FlattenSeq
  <1>2. CASE Len(ss) # 0
    <2>1. PICK n \in Nat : n = Len(ss)
      OBVIOUS
    <2> DEFINE Eq(h) == h = [i \in 1 .. Len(ss) |-> IF i = 1 THEN ss[i] ELSE h[i - 1] \o ss[i]]
    <2>2. PICK step : step = [p \in Seq(S) \X (1 .. n) |-> p[1] \o ss[p[2]]]
      OBVIOUS
    <2>3. step \in [Seq(S) \X (1 .. n) -> Seq(S)]
      <3>1. ASSUME NEW p \in Seq(S) \X (1 .. n)
            PROVE  p[1] \o ss[p[2]] \in Seq(S)
        <4>1. p[1] \in Seq(S) /\ p[2] \in 1 .. n
          OBVIOUS
        <4>2. ss[p[2]] \in Seq(S)
          BY <2>1, <4>1
        <4> QED
          BY <4>1, <4>2
      <3> QED
        BY <2>2, <3>1
    <2>4. <<>> \in Seq(S)
      OBVIOUS
    <2>5. PICK f : Iteration(f, Seq(S), n, <<>>, step)
      BY <2>1, <2>3, <2>4, Iterates
    <2>6. f \in [0 .. n -> Seq(S)] /\ f[0] = <<>>
          /\ \A i \in 1 .. n : f[i] = step[<<f[i - 1], i>>]
      BY <2>5 DEF Iteration
    <2>7. \A i \in 1 .. n : f[i] = f[i - 1] \o ss[i]
      <3>1. ASSUME NEW i \in 1 .. n PROVE f[i] = f[i - 1] \o ss[i]
        <4>1. f[i - 1] \in Seq(S)
          BY <2>6
        <4>2. <<f[i - 1], i>> \in Seq(S) \X (1 .. n)
          BY <4>1
        <4>3. step[<<f[i - 1], i>>] = f[i - 1] \o ss[i]
          BY <2>2, <4>2
        <4> QED
          BY <2>6, <4>3
      <3> QED
        BY <3>1
    <2>8. PICK g : g = [i \in 1 .. n |-> f[i]]
      OBVIOUS
    <2>9. Eq(g)
      <3>1. ASSUME NEW i \in 1 .. n
            PROVE  g[i] = IF i = 1 THEN ss[i] ELSE g[i - 1] \o ss[i]
        <4>1. g[i] = f[i - 1] \o ss[i] /\ ss[i] \in Seq(S)
          <5>1. g[i] = f[i]
            BY <2>8
          <5>2. f[i] = f[i - 1] \o ss[i]
            BY <2>7
          <5>3. i \in 1 .. Len(ss)
            BY <2>1
          <5>4. ss[i] \in Seq(S)
            BY <5>3
          <5> QED
            BY <5>1, <5>2, <5>4
        <4>2. CASE i = 1
          <5>1. <<>> \o ss[i] = ss[i]
            BY <4>1
          <5>2. f[i - 1] = <<>>
            BY <2>6, <4>2
          <5> QED
            BY <4>1, <4>2, <5>1, <5>2
        <4>3. CASE i # 1
          <5>1. i - 1 \in 1 .. n
            BY <2>1, <4>3
          <5>2. g[i - 1] = f[i - 1]
            BY <2>8, <5>1
          <5> QED
            BY <4>1, <4>3, <5>2
        <4> QED
          BY <4>2, <4>3
      <3>2. g = [i \in 1 .. n |-> g[i]]
        BY <2>8
      <3> QED
        BY <2>1, <3>1, <3>2
    <2>10. PICK h : h = CHOOSE x : Eq(x)
      OBVIOUS
    <2>11. Eq(h)
      BY <2>9, <2>10
    <2>12. FlattenSeq(ss) = h[n]
      BY <1>2, <2>1, <2>10 DEF FlattenSeq
    <2> HIDE DEF Eq
    <2>13. \A i \in 1 .. n : h[i] = IF i = 1 THEN ss[i] ELSE h[i - 1] \o ss[i]
      BY <2>1, <2>11 DEF Eq
    <2> DEFINE T == {i \in 0 .. n : i = 0 \/ h[i] \in Seq(S)}
    <2>14. 0 \in T
      OBVIOUS
    <2>15. ASSUME NEW i \in 0 .. n - 1, i \in T
           PROVE  i + 1 \in T
      <3>1. i + 1 \in 1 .. n /\ (i + 1) - 1 = i
        BY <2>1
      <3>2. ss[i + 1] \in Seq(S)
        BY <2>1, <3>1
      <3>3. h[i + 1] = IF i + 1 = 1 THEN ss[i + 1] ELSE h[i] \o ss[i + 1]
        BY <2>13, <3>1
      <3>4. i # 0 => h[i] \in Seq(S)
        BY <2>15
      <3>5. h[i + 1] \in Seq(S)
        BY <3>2, <3>3, <3>4
      <3> QED
        BY <3>1, <3>5
    <2> HIDE DEF T
    <2>16. 0 .. n \subseteq T
      BY <2>14, <2>15, Counted
    <2>17. n \in T /\ n # 0
      BY <1>2, <2>1, <2>16
    <2> QED
      BY <2>12, <2>17 DEF T
  <1> QED
    BY <1>1, <1>2

---------------------------------------------------------------------------
(* Lexing. *)

\* Tokens that have not been through an expansion.
Fresh == [text : Spellings, glued : BOOLEAN, hide : {{}}, seen : {NotSeen}, depth : {0}]

\* What has been lexed of a text up to an atom: a word there may be continued.
Read(s, text, k) ==
    /\ s \in Seq(Fresh)
    /\ k > 0 /\ text[k] \in Alphanums => s # <<>> /\ s[Len(s)].text \in Seq(Alphanums)

\* Punctuation is no part of a word.
LEMMA AtomsApart == {" ", "(", ")"} \cap Alphanums = {}
  BY ExpansionAssumption DEF Alphanums

\* A spelling is a word or a single parenthesis, and its first atom says which.
LEMMA SpellingFacts ==
    /\ \A a \in Atoms \ {" "} : <<a>> \in Spellings
    /\ \A a \in Alphanums : <<a>> \in Seq(Alphanums)
    /\ \A t \in Seq(Alphanums), a \in Alphanums :
          Append(t, a) \in Seq(Alphanums) /\ Append(t, a) \in Spellings
    /\ \A t \in Spellings : t \in Seq(Atoms) /\ t # <<>>
    /\ \A t \in Spellings : t[1] \in Alphanums => t \in Seq(Alphanums)
    /\ \A t \in Spellings, u \in Spellings :
          t[1] \in Alphanums /\ u[1] \in Alphanums => t \o u \in Spellings
  <1>1. ASSUME NEW a \in Alphanums
        PROVE  <<a>> \in Seq(Alphanums) /\ <<a>> # <<>>
    OBVIOUS
  <1>2. ASSUME NEW a \in Atoms \ {" "}
        PROVE  <<a>> \in Spellings
    <2>1. CASE a \in Alphanums
      BY <1>1, <2>1 DEF Spellings
    <2>2. CASE a \in {"(", ")"}
      BY <2>2 DEF Spellings
    <2> QED
      BY <2>1, <2>2 DEF Atoms
  <1>3. ASSUME NEW t \in Seq(Alphanums), NEW a \in Alphanums
        PROVE  Append(t, a) \in Seq(Alphanums) /\ Append(t, a) \in Spellings
    <2>1. Append(t, a) \in Seq(Alphanums) /\ Append(t, a) # <<>>
      BY AppendProperties
    <2> QED
      BY <2>1 DEF Spellings
  <1>4. ASSUME NEW t \in Spellings
        PROVE  t \in Seq(Atoms) /\ t # <<>>
    <2>1. CASE t \in Seq(Alphanums) \ {<<>>}
      <3>1. Alphanums \subseteq Atoms
        BY DEF Atoms
      <3>2. t \in Seq(Atoms)
        BY <2>1, <3>1, SeqMonotonic
      <3> QED
        BY <2>1, <3>2
    <2>2. CASE t \in {<<"(">>, <<")">>}
      <3>1. PICK a \in {"(", ")"} : t = <<a>>
        BY <2>2
      <3>2. a \in Atoms
        BY DEF Atoms
      <3>3. <<a>> \in Seq(Atoms) /\ <<a>> # <<>>
        BY <3>2
      <3> QED
        BY <3>1, <3>3
    <2> QED
      BY <2>1, <2>2 DEF Spellings
  <1>5. ASSUME NEW t \in Spellings, t[1] \in Alphanums
        PROVE  t \in Seq(Alphanums)
    <2>1. CASE t \in Seq(Alphanums) \ {<<>>}
      BY <2>1
    <2>2. CASE t \in {<<"(">>, <<")">>}
      <3>1. t[1] \in {"(", ")"}
        BY <2>2
      <3> QED
        BY <1>5, <3>1, AtomsApart
    <2> QED
      BY <2>1, <2>2 DEF Spellings
  <1>6. ASSUME NEW t \in Spellings, NEW u \in Spellings, t[1] \in Alphanums, u[1] \in Alphanums
        PROVE  t \o u \in Spellings
    <2>1. t \in Seq(Alphanums) /\ u \in Seq(Alphanums)
      BY <1>5, <1>6
    <2>2. t # <<>>
      BY <1>4
    <2>3. t \o u \in Seq(Alphanums) /\ t \o u # <<>>
      BY <2>1, <2>2
    <2> QED
      BY <2>3 DEF Spellings
  <1> QED
    BY <1>1, <1>2, <1>3, <1>4, <1>5, <1>6

\* One more atom read leaves what has been lexed in shape.
LEMMA ScanReads ==
    ASSUME NEW text \in Seq(Atoms), NEW k \in 1 .. Len(text), NEW s, Read(s, text, k - 1)
    PROVE  Read(Scan(s, text, k), text, k)
  <1>1. s \in Seq(Fresh) /\ text[k] \in Atoms /\ k \in Nat /\ k > 0
    BY DEF Read
  <1>2. CASE text[k] = " "
    <2>1. text[k] \notin Alphanums
      BY <1>2, AtomsApart
    <2>2. CASE s = <<>>
      BY <1>1, <1>2, <2>1, <2>2 DEF Read, Scan
    <2>3. CASE s # <<>>
      <3>1. Len(s) \in 1 .. Len(s)
        BY <1>1, <2>3
      <3>2. PICK t : t = s[Len(s)]
        OBVIOUS
      <3>3. t \in Fresh
        BY <1>1, <3>1, <3>2
      <3>4. PICK u : u = [t EXCEPT !.glued = FALSE]
        OBVIOUS
      <3>5. u \in Fresh
        BY <3>3, <3>4 DEF Fresh
      <3>6. [s EXCEPT ![Len(s)] = u] \in Seq(Fresh)
        BY <1>1, <3>1, <3>5, ExceptSeq
      <3>7. Scan(s, text, k) = [s EXCEPT ![Len(s)] = u]
        BY <1>2, <2>3, <3>2, <3>4 DEF Scan
      <3> QED
        BY <2>1, <3>6, <3>7 DEF Read
    <2> QED
      BY <2>2, <2>3
  <1>3. CASE text[k] # " " /\ Joins(text, k)
    <2>1. k - 1 > 0 /\ text[k - 1] \in Alphanums /\ text[k] \in Alphanums
      <3>1. k > 1 /\ {text[k - 1], text[k]} \subseteq Alphanums
        BY <1>3, Zenon DEF Joins
      <3>2. text[k - 1] \in Alphanums /\ text[k] \in Alphanums
        BY <3>1, Zenon
      <3> QED
        BY <1>1, <3>1, <3>2
    <2>2. s # <<>> /\ s[Len(s)].text \in Seq(Alphanums)
      BY <2>1 DEF Read
    <2>3. Len(s) \in 1 .. Len(s)
      BY <1>1, <2>2
    <2>4. PICK t : t = s[Len(s)]
      OBVIOUS
    <2>5. t \in Fresh /\ t.text \in Seq(Alphanums)
      BY <1>1, <2>2, <2>3, <2>4
    <2>6. PICK a : a = Append(t.text, text[k])
      OBVIOUS
    <2>7. a \in Seq(Alphanums) /\ a \in Spellings
      BY <2>1, <2>5, <2>6, SpellingFacts
    <2>8. PICK u : u = [t EXCEPT !.text = a]
      OBVIOUS
    <2>9. u \in Fresh /\ u.text = a
      BY <2>5, <2>7, <2>8 DEF Fresh
    <2>10. PICK r : r = [s EXCEPT ![Len(s)] = u]
      OBVIOUS
    <2>11. r \in Seq(Fresh) /\ Len(r) = Len(s) /\ r[Len(s)] = u
      BY <1>1, <2>3, <2>9, <2>10, ExceptSeq
    <2>12. Scan(s, text, k) = r
      BY <1>3, <2>4, <2>6, <2>8, <2>10 DEF Scan
    <2>13. r # <<>>
      BY <1>1, <2>3, <2>11
    <2> QED
      BY <2>7, <2>9, <2>11, <2>12, <2>13 DEF Read
  <1>4. CASE text[k] # " " /\ ~Joins(text, k)
    <2>1. PICK t : t = Token(<<text[k]>>)
      OBVIOUS
    <2>2. <<text[k]>> \in Spellings
      BY <1>1, <1>4, SpellingFacts
    <2>3. t \in Fresh /\ t.text = <<text[k]>>
      BY <2>1, <2>2 DEF Token, Fresh
    <2>4. PICK r : r = Append(s, t)
      OBVIOUS
    <2>5. r \in Seq(Fresh) /\ r # <<>> /\ Len(r) = Len(s) + 1 /\ r[Len(s) + 1] = t
      BY <1>1, <2>3, <2>4, AppendProperties
    <2>6. Scan(s, text, k) = r
      BY <1>4, <2>1, <2>4 DEF Scan
    <2>7. text[k] \in Alphanums => r[Len(r)].text \in Seq(Alphanums)
      BY <2>3, <2>5, SpellingFacts
    <2> QED
      BY <2>5, <2>6, <2>7 DEF Read
  <1> QED
    BY <1>2, <1>3, <1>4

\* What lexing has read up to each atom.
LEMMA UptoReads ==
    ASSUME NEW text \in Seq(Atoms), NEW h,
           \A k \in 0 .. Len(text) : h[k] = IF k = 0 THEN <<>> ELSE Scan(h[k - 1], text, k)
    PROVE  \A k \in 0 .. Len(text) : Read(h[k], text, k)
  <1> DEFINE T == {k \in 0 .. Len(text) : Read(h[k], text, k)}
  <1>1. Len(text) \in Nat
    OBVIOUS
  <1>2. 0 \in T
    <2>1. h[0] = <<>>
      BY <1>1
    <2>2. Read(<<>>, text, 0)
      BY DEF Read
    <2> QED
      BY <1>1, <2>1, <2>2
  <1>3. ASSUME NEW k \in 0 .. Len(text) - 1, k \in T
        PROVE  k + 1 \in T
    <2>1. k + 1 \in 1 .. Len(text) /\ (k + 1) - 1 = k /\ k + 1 # 0 /\ k + 1 \in 0 .. Len(text)
      BY <1>1
    <2>2. h[k + 1] = Scan(h[k], text, k + 1)
      BY <2>1
    <2>3. Read(h[k], text, (k + 1) - 1)
      BY <1>3, <2>1
    <2>4. Read(Scan(h[k], text, k + 1), text, k + 1)
      BY <2>1, <2>3, ScanReads
    <2> QED
      BY <2>1, <2>2, <2>4
  <1> HIDE DEF T
  <1>4. 0 .. Len(text) \subseteq T
    BY <1>1, <1>2, <1>3, Counted
  <1> QED
    BY <1>4 DEF T

\* The function that lexes a text exists, so it is what Lex says.
LEMMA LexUpto ==
    ASSUME NEW text \in Seq(Atoms)
    PROVE  \E h : /\ Lex(text) = h[Len(text)]
                  /\ \A k \in 0 .. Len(text) :
                        h[k] = IF k = 0 THEN <<>> ELSE Scan(h[k - 1], text, k)
  <1>1. PICK n \in Nat : n = Len(text)
    OBVIOUS
  <1> DEFINE V == Seq(Fresh)
  <1> DEFINE Eq(h) == h = [k \in 0 .. Len(text) |-> IF k = 0 THEN <<>> ELSE Scan(h[k - 1], text, k)]
  <1>2. PICK step : step = [p \in V \X (1 .. n) |->
                               IF Scan(p[1], text, p[2]) \in V THEN Scan(p[1], text, p[2]) ELSE <<>>]
    OBVIOUS
  <1>3. <<>> \in V
    OBVIOUS
  <1>4. step \in [V \X (1 .. n) -> V]
    BY <1>2, <1>3
  <1>5. PICK f : Iteration(f, V, n, <<>>, step)
    BY <1>3, <1>4, Iterates
  <1>6. f \in [0 .. n -> V] /\ f[0] = <<>>
        /\ \A k \in 1 .. n : f[k] = step[<<f[k - 1], k>>]
    BY <1>5 DEF Iteration
  <1> DEFINE T == {k \in 0 .. n : /\ Read(f[k], text, k)
                                  /\ k # 0 => f[k] = Scan(f[k - 1], text, k)}
  <1>7. 0 \in T
    BY <1>6 DEF Read
  <1>8. ASSUME NEW k \in 0 .. n - 1, k \in T
        PROVE  k + 1 \in T
    <2>1. k + 1 \in 1 .. n /\ k + 1 \in 1 .. Len(text) /\ (k + 1) - 1 = k /\ k + 1 \in 0 .. n
      BY <1>1
    <2>2. Read(f[k], text, (k + 1) - 1)
      BY <1>8, <2>1
    <2>3. Read(Scan(f[k], text, k + 1), text, k + 1)
      BY <2>1, <2>2, ScanReads
    <2>4. Scan(f[k], text, k + 1) \in V /\ f[k] \in V
      BY <2>2, <2>3 DEF Read
    <2>5. f[k + 1] = step[<<f[k], k + 1>>]
      BY <1>6, <2>1
    <2>6. step[<<f[k], k + 1>>] = Scan(f[k], text, k + 1)
      <3>1. <<f[k], k + 1>> \in V \X (1 .. n)
        BY <2>1, <2>4
      <3> HIDE DEF V
      <3> QED
        BY <1>2, <2>4, <3>1
    <2> QED
      BY <2>1, <2>3, <2>5, <2>6
  <1> HIDE DEF T
  <1>9. 0 .. n \subseteq T
    BY <1>7, <1>8, Counted
  <1>10. PICK g : g = [k \in 0 .. n |-> f[k]]
    OBVIOUS
  <1>11. Eq(g)
    <2>1. ASSUME NEW k \in 0 .. n
          PROVE  g[k] = IF k = 0 THEN <<>> ELSE Scan(g[k - 1], text, k)
      <3>1. k \in T /\ g[k] = f[k]
        BY <1>9, <1>10
      <3>2. CASE k = 0
        BY <1>6, <3>1, <3>2
      <3>3. CASE k # 0
        <4>1. k - 1 \in 0 .. n
          BY <3>3
        <4>2. g[k - 1] = f[k - 1]
          BY <1>10, <4>1
        <4>3. f[k] = Scan(f[k - 1], text, k)
          BY <3>1, <3>3 DEF T
        <4> QED
          BY <3>1, <3>3, <4>2, <4>3
      <3> QED
        BY <3>2, <3>3
    <2>2. g = [k \in 0 .. n |-> g[k]]
      BY <1>10
    <2> QED
      BY <1>1, <2>1, <2>2
  <1>12. PICK h : h = CHOOSE x : Eq(x)
    OBVIOUS
  <1>13. Eq(h)
    BY <1>11, <1>12
  <1>14. Lex(text) = h[Len(text)]
    BY <1>12 DEF Lex
  <1>15. \A k \in 0 .. Len(text) : h[k] = IF k = 0 THEN <<>> ELSE Scan(h[k - 1], text, k)
    BY <1>13
  <1> QED
    BY <1>14, <1>15

\* Lexing a text gives fresh tokens.
LEMMA LexFresh ==
    ASSUME NEW text \in Seq(Atoms)
    PROVE  Lex(text) \in Seq(Fresh)
  <1>1. PICK h : /\ Lex(text) = h[Len(text)]
                 /\ \A k \in 0 .. Len(text) :
                       h[k] = IF k = 0 THEN <<>> ELSE Scan(h[k - 1], text, k)
    BY LexUpto
  <1>2. \A k \in 0 .. Len(text) : Read(h[k], text, k)
    BY <1>1, UptoReads
  <1>3. Len(text) \in 0 .. Len(text)
    OBVIOUS
  <1> QED
    BY <1>1, <1>2, <1>3 DEF Read

---------------------------------------------------------------------------
(* Matching and substitution. *)

\* Fresh tokens are tokens that have no history.
LEMMA FreshFacts == \A t \in Fresh : t \in Tokens /\ t.seen = NotSeen /\ t.depth = 0
  <1> SUFFICES ASSUME NEW t \in Fresh
               PROVE  t \in Tokens /\ t.seen = NotSeen /\ t.depth = 0
    OBVIOUS
  <1>1. NotSeen \in [Names -> Seq(Atoms)]
    <2>1. <<>> \in Seq(Atoms)
      OBVIOUS
    <2> QED
      BY <2>1 DEF NotSeen
  <1>2. 0 \in 0 .. MaxExpansionDepth /\ {} \in SUBSET Seq(Alphanums)
    <2>1. MaxExpansionDepth \in Nat
      BY ExpansionAssumption
    <2> QED
      BY <2>1
  <1> QED
    BY <1>1, <1>2 DEF Fresh, Tokens

\* What the fields of a token are.
LEMMA TokenFields ==
    ASSUME NEW t \in Tokens
    PROVE  /\ t.text \in Spellings /\ t.glued \in BOOLEAN
           /\ t.hide \in SUBSET Seq(Alphanums) /\ t.seen \in [Names -> Seq(Atoms)]
           /\ t.depth \in 0 .. MaxExpansionDepth
  BY DEF Tokens

\* The tokens behind some others.
LEMMA RestFacts ==
    ASSUME NEW S, NEW s \in Seq(S), NEW j \in 0 .. Len(s)
    PROVE  /\ Rest(s, j) \in Seq(S) /\ Len(Rest(s, j)) = Len(s) - j
           /\ \A k \in 1 .. Len(s) - j : Rest(s, j)[k] = s[k + j]
  <1>1. j + 1 \in Int /\ Len(s) \in Int
    OBVIOUS
  <1>2. \A i \in j + 1 .. Len(s) : s[i] \in S
    OBVIOUS
  <1>3. /\ SubSeq(s, j + 1, Len(s)) \in Seq(S)
        /\ Len(SubSeq(s, j + 1, Len(s))) = IF j + 1 <= Len(s) THEN Len(s) - (j + 1) + 1 ELSE 0
        /\ \A i \in 1 .. Len(s) - (j + 1) + 1 : SubSeq(s, j + 1, Len(s))[i] = s[j + 1 + i - 1]
    BY <1>1, <1>2, SubSeqProperties
  <1>4. \A k \in 1 .. Len(s) - j : k \in 1 .. Len(s) - (j + 1) + 1 /\ j + 1 + k - 1 = k + j
    OBVIOUS
  <1>5. Len(Rest(s, j)) = Len(s) - j
    BY <1>3 DEF Rest
  <1>6. \A k \in 1 .. Len(s) - j : Rest(s, j)[k] = s[k + j]
    BY <1>3, <1>4 DEF Rest
  <1> QED
    BY <1>3, <1>5, <1>6 DEF Rest

\* Tokens are written as a text.
LEMMA TextKeeps ==
    ASSUME NEW s \in Seq(Tokens)
    PROVE  Text(s) \in Seq(Atoms)
  <1>1. ASSUME NEW t \in Tokens
        PROVE  Spelling(t) \in Seq(Atoms)
    <2>1. t.text \in Seq(Atoms)
      BY TokenFields, SpellingFacts
    <2>2. " " \in Atoms
      BY DEF Atoms
    <2>3. Append(t.text, " ") \in Seq(Atoms)
      BY <2>1, <2>2, AppendProperties
    <2> QED
      BY <2>1, <2>3 DEF Spelling
  <1>2. PICK ss : ss = [k \in DOMAIN s |-> Spelling(s[k])]
    OBVIOUS
  <1>3. ss \in Seq(Seq(Atoms))
    <2>1. PICK n \in Nat : n = Len(s) /\ DOMAIN s = 1 .. n
      OBVIOUS
    <2>2. \A k \in 1 .. n : Spelling(s[k]) \in Seq(Atoms)
      BY <1>1, <2>1
    <2>3. ss \in [1 .. n -> Seq(Atoms)]
      BY <1>2, <2>1, <2>2
    <2> QED
      BY <2>1, <2>3, SeqDef
  <1>4. FlattenSeq(ss) \in Seq(Atoms)
    BY <1>3, FlattenKeeps
  <1> QED
    BY <1>2, <1>4 DEF Text

\* The tokens between the parentheses of an invocation are a text.
LEMMA CaptureKeeps ==
    ASSUME NEW s \in Seq(Tokens), NEW j \in 3 .. Len(s)
    PROVE  Capture(s, j) \in Seq(Atoms)
  <1>1. \A i \in 3 .. j - 1 : s[i] \in Tokens
    OBVIOUS
  <1>2. 3 \in Int /\ j - 1 \in Int
    OBVIOUS
  <1>3. SubSeq(s, 3, j - 1) \in Seq(Tokens)
    BY <1>1, <1>2, SubSeqProperties
  <1>4. Text(SubSeq(s, 3, j - 1)) \in Seq(Atoms)
    BY <1>3, TextKeeps
  <1>5. <<>> \in Seq(Atoms) /\ <<" ">> \in Seq(Atoms)
    BY DEF Atoms
  <1>6. PICK b \in Seq(Atoms) : b = IF s[2].glued THEN <<>> ELSE <<" ">>
    BY <1>5
  <1>7. b \o Text(SubSeq(s, 3, j - 1)) \in Seq(Atoms)
    BY <1>4, <1>6, ConcatProperties
  <1> QED
    BY <1>6, <1>7 DEF Capture

\* An invocation ends at one of the tokens, one with a capture behind the
\* parenthesis that opens it.
LEMMA MatchFacts ==
    ASSUME NEW s \in Seq(Tokens), s # <<>>, NEW m \in Macros, NEW j \in Matches(s, m)
    PROVE  j \in 1 .. Len(s) /\ (m.pattern => j \in 3 .. Len(s))
  <1>1. 1 \in 1 .. Len(s)
    OBVIOUS
  <1>2. CASE m.pattern
    BY <1>2 DEF Matches
  <1>3. CASE ~m.pattern
    BY <1>1, <1>3 DEF Matches
  <1> QED
    BY <1>2, <1>3

\* A body with its capture is a text.
LEMMA SubstituteKeeps ==
    ASSUME NEW s \in Seq(Tokens), s # <<>>, NEW m \in Macros, NEW j \in Matches(s, m)
    PROVE  Substitute(s, j, m) \in Seq(Atoms)
  <1>1. m.body \in Seq(Atoms \cup {"%0"}) /\ (~m.pattern => m.body \in Seq(Atoms))
    <2>1. CASE m \in [pattern : {FALSE}, body : Seq(Atoms)]
      <3>1. m.body \in Seq(Atoms)
        BY <2>1
      <3>2. Atoms \subseteq Atoms \cup {"%0"}
        OBVIOUS
      <3>3. m.body \in Seq(Atoms \cup {"%0"})
        BY <3>1, <3>2, SeqMonotonic
      <3> QED
        BY <3>1, <3>3
    <2>2. CASE m \in [pattern : {TRUE}, body : Seq(Atoms \cup {"%0"})]
      BY <2>2
    <2>3. m \in [pattern : {FALSE}, body : Seq(Atoms)]
                    \cup [pattern : {TRUE}, body : Seq(Atoms \cup {"%0"})]
      BY ExpansionAssumption
    <2> QED
      BY <2>1, <2>2, <2>3
  <1>2. "%0" \notin Atoms
    BY ExpansionAssumption DEF Atoms, Alphanums
  <1>3. ASSUME NEW k \in DOMAIN m.body
        PROVE  (IF m.body[k] = "%0" THEN Capture(s, j) ELSE <<m.body[k]>>) \in Seq(Atoms)
    <2>1. CASE m.body[k] = "%0"
      <3>1. m.pattern
        <4>1. SUFFICES ASSUME ~m.pattern PROVE FALSE
          OBVIOUS
        <4>2. m.body[k] \in Atoms
          BY <1>1, <4>1
        <4> QED
          BY <1>2, <2>1, <4>2
      <3>2. j \in 3 .. Len(s)
        BY <3>1, MatchFacts
      <3> QED
        BY <2>1, <3>2, CaptureKeeps
    <2>2. CASE m.body[k] # "%0"
      <3>1. m.body[k] \in Atoms
        BY <1>1, <2>2
      <3>2. <<m.body[k]>> \in Seq(Atoms)
        BY <3>1
      <3> QED
        BY <2>2, <3>2
    <2> QED
      BY <2>1, <2>2
  <1>4. PICK ss : ss = [k \in DOMAIN m.body |->
                           IF m.body[k] = "%0" THEN Capture(s, j) ELSE <<m.body[k]>>]
    OBVIOUS
  <1>5. ss \in Seq(Seq(Atoms))
    <2>1. PICK n \in Nat : n = Len(m.body) /\ DOMAIN m.body = 1 .. n
      BY <1>1
    <2>2. ss \in [1 .. n -> Seq(Atoms)]
      BY <1>3, <1>4, <2>1
    <2> QED
      BY <2>1, <2>2, SeqDef
  <1>6. FlattenSeq(ss) \in Seq(Atoms)
    BY <1>5, FlattenKeeps
  <1> QED
    BY <1>4, <1>6 DEF Substitute

\* What the first token invokes is the macro its name stands for.
LEMMA InvocationFacts ==
    ASSUME NEW s \in Seq(Tokens), table \in [Names -> Macros \cup {NoMacro}],
           NEW inv \in Invocations(s)
    PROVE  /\ s # <<>> /\ 1 \in 1 .. Len(s)
           /\ s[1].text \in Names /\ table[s[1].text] # NoMacro
           /\ inv.macro = table[s[1].text] /\ inv.macro \in Macros
           /\ inv.last \in 1 .. Len(s) /\ inv.text \in Seq(Atoms)
  <1>1. s # <<>> /\ Defined(s[1])
    BY DEF Invocations
  <1>2. 1 \in 1 .. Len(s)
    BY <1>1
  <1>3. s[1].text \in Names /\ table[s[1].text] # NoMacro
    BY <1>1 DEF Defined
  <1>4. PICK m : m = table[s[1].text]
    OBVIOUS
  <1>5. m \in Macros
    BY <1>3, <1>4
  <1>6. inv \in {[macro |-> m, last |-> j, text |-> Substitute(s, j, m)] : j \in Matches(s, m)}
    BY <1>1, <1>4 DEF Invocations
  <1>7. PICK j \in Matches(s, m) : inv = [macro |-> m, last |-> j, text |-> Substitute(s, j, m)]
    BY <1>6
  <1>8. j \in 1 .. Len(s)
    BY <1>1, <1>5, MatchFacts
  <1>9. Substitute(s, j, m) \in Seq(Atoms)
    BY <1>1, <1>5, SubstituteKeeps
  <1>10. inv.macro = m /\ inv.last = j /\ inv.text = Substitute(s, j, m)
    BY <1>7
  <1> QED
    BY <1>1, <1>2, <1>3, <1>4, <1>5, <1>8, <1>9, <1>10

\* The replacement is lexed anew.
LEMMA ReplacementFacts ==
    ASSUME NEW s \in Seq(Tokens), table \in [Names -> Macros \cup {NoMacro}],
           NEW inv \in Invocations(s)
    PROVE  Replacement(s, inv) \in Seq(Fresh)
  <1>1. inv.last \in 1 .. Len(s) /\ inv.text \in Seq(Atoms)
    BY InvocationFacts
  <1>2. PICK items : items = Lex(inv.text)
    OBVIOUS
  <1>3. items \in Seq(Fresh)
    BY <1>1, <1>2, LexFresh
  <1>4. CASE items = <<>>
    BY <1>2, <1>3, <1>4 DEF Replacement
  <1>5. CASE items # <<>>
    <2>1. Len(items) \in 1 .. Len(items)
      BY <1>3, <1>5
    <2>2. PICK t : t = items[Len(items)]
      OBVIOUS
    <2>3. t \in Fresh
      BY <1>3, <2>1, <2>2
    <2>4. s[inv.last] \in Tokens
      BY <1>1
    <2>5. PICK g \in BOOLEAN : g = (t.glued /\ s[inv.last].glued)
      OBVIOUS
    <2>6. PICK u : u = [t EXCEPT !.glued = g]
      OBVIOUS
    <2>7. u \in Fresh
      BY <2>3, <2>6 DEF Fresh
    <2>8. [items EXCEPT ![Len(items)] = u] \in Seq(Fresh)
      BY <1>3, <2>1, <2>7, ExceptSeq
    <2>9. Replacement(s, inv) = [items EXCEPT ![Len(items)] = u]
      BY <1>2, <1>5, <2>2, <2>5, <2>6 DEF Replacement
    <2> QED
      BY <2>8, <2>9
  <1> QED
    BY <1>4, <1>5

---------------------------------------------------------------------------
(* Every token keeps its type. *)

\* Histories are those of defined macros.
Historical(s) == \A k \in DOMAIN s, n \in Names : s[k].seen[n] # <<>> => table[n] # NoMacro

\* Tokens of a replacement, all at one depth.
Replaced(s, d) == s \in Seq(Tokens) /\ Historical(s) /\ \A k \in DOMAIN s : s[k].depth = d

\* What is left behind some tokens has their histories.
LEMMA RestKeeps ==
    ASSUME NEW s \in Seq(Tokens), Historical(s), NEW j \in 0 .. Len(s)
    PROVE  Rest(s, j) \in Seq(Tokens) /\ Historical(Rest(s, j))
  <1>1. /\ Rest(s, j) \in Seq(Tokens) /\ Len(Rest(s, j)) = Len(s) - j
        /\ \A k \in 1 .. Len(s) - j : Rest(s, j)[k] = s[k + j]
    BY RestFacts
  <1>2. ASSUME NEW k \in DOMAIN Rest(s, j), NEW n \in Names, Rest(s, j)[k].seen[n] # <<>>
        PROVE  table[n] # NoMacro
    <2>1. k \in 1 .. Len(s) - j
      BY <1>1
    <2>2. Rest(s, j)[k] = s[k + j] /\ k + j \in DOMAIN s
      BY <1>1, <2>1
    <2> QED
      BY <1>2, <2>2 DEF Historical
  <1> QED
    BY <1>1, <1>2 DEF Historical

\* So have two sequences of tokens, one after the other.
LEMMA ConcatKeeps ==
    ASSUME NEW s \in Seq(Tokens), NEW r \in Seq(Tokens), Historical(s), Historical(r)
    PROVE  s \o r \in Seq(Tokens) /\ Historical(s \o r)
  <1>1. /\ s \o r \in Seq(Tokens) /\ Len(s \o r) = Len(s) + Len(r)
        /\ \A i \in 1 .. Len(s) + Len(r) : (s \o r)[i] = IF i <= Len(s) THEN s[i] ELSE r[i - Len(s)]
    BY ConcatProperties
  <1>2. PICK q : q = s \o r
    OBVIOUS
  <1>3. q \in Seq(Tokens) /\ DOMAIN q = 1 .. Len(s) + Len(r)
    BY <1>1, <1>2
  <1>4. ASSUME NEW k \in DOMAIN q, NEW n \in Names, q[k].seen[n] # <<>>
        PROVE  table[n] # NoMacro
    <2>1. CASE k <= Len(s)
      <3>1. k \in DOMAIN s /\ q[k] = s[k]
        BY <1>1, <1>2, <1>3, <2>1
      <3> QED
        BY <1>4, <3>1 DEF Historical
    <2>2. CASE ~(k <= Len(s))
      <3>1. q[k] = r[k - Len(s)]
        BY <1>1, <1>2, <1>3, <2>2
      <3>2. k - Len(s) \in DOMAIN r
        BY <1>3, <2>2
      <3> QED
        BY <1>4, <3>1, <3>2 DEF Historical
    <2> QED
      BY <2>1, <2>2
  <1> QED
    BY <1>2, <1>3, <1>4 DEF Historical

\* Fresh tokens that get a hide set, a history and a depth.
LEMMA ReplacedFacts ==
    ASSUME NEW items \in Seq(Fresh), NEW h \in SUBSET Seq(Alphanums),
           NEW q \in [Names -> Seq(Atoms)], \A n \in Names : q[n] # <<>> => table[n] # NoMacro,
           NEW d \in 0 .. MaxExpansionDepth
    PROVE  Replaced([k \in DOMAIN items |->
                        [items[k] EXCEPT !.hide = h, !.seen = q, !.depth = d]], d)
  <1>2. PICK n \in Nat : DOMAIN items = 1 .. n
    OBVIOUS
  <1>3. \A k \in DOMAIN items : items[k] \in Fresh
    OBVIOUS
  <1>4. PICK s : s = [k \in DOMAIN items |-> [items[k] EXCEPT !.hide = h, !.seen = q, !.depth = d]]
    OBVIOUS
  <1>1. ASSUME NEW k \in DOMAIN items
        PROVE  s[k] \in Tokens /\ s[k].seen = q /\ s[k].depth = d
    <2>1. PICK t : t = items[k]
      OBVIOUS
    <2>2. t \in Fresh
      BY <1>3, <2>1
    <2>3. s[k] = [t EXCEPT !.hide = h, !.seen = q, !.depth = d]
      BY <1>4, <2>1
    <2>4. t \in Tokens
      BY <2>2, FreshFacts
    <2>5. PICK u : u = [t EXCEPT !.hide = h, !.seen = q, !.depth = d]
      OBVIOUS
    <2>6. u \in Tokens /\ u.seen = q /\ u.depth = d
      BY <2>4, <2>5 DEF Tokens
    <2> QED
      BY <2>3, <2>5, <2>6
  <1>5. DOMAIN s = 1 .. n /\ s \in [1 .. n -> Tokens]
    <2>1. DOMAIN s = 1 .. n
      BY <1>2, <1>4
    <2>2. \A k \in 1 .. n : s[k] \in Tokens
      BY <1>1, <1>2
    <2>3. s = [k \in 1 .. n |-> s[k]]
      BY <1>2, <1>4
    <2> QED
      BY <2>1, <2>2, <2>3
  <1>6. s \in Seq(Tokens)
    BY <1>5, SeqDef
  <1>7. \A k \in DOMAIN s : s[k].seen = q /\ s[k].depth = d
    BY <1>1, <1>2, <1>5
  <1>8. Replaced(s, d)
    BY <1>6, <1>7 DEF Replaced, Historical
  <1> QED
    BY <1>4, <1>8

\* What ExpandAt puts in the place of an invocation.
LEMMA ExpandAtReplaces ==
    ASSUME TypeOK, NEW inv \in Invocations(toks), NEW items, items = Replacement(toks, inv)
    PROVE  Replaced([k \in DOMAIN items |->
                        [items[k] EXCEPT !.hide = {toks[1].text}, !.depth = 1]], 1)
  <1>1. toks \in Seq(Tokens) /\ table \in [Names -> Macros \cup {NoMacro}]
    BY DEF TypeOK
  <1>2. items \in Seq(Fresh)
    BY <1>1, ReplacementFacts
  <1>3. PICK x : x = toks[1].text
    OBVIOUS
  <1>4. x \in Names /\ toks[1] \in Tokens
    BY <1>1, <1>3, InvocationFacts
  <1>5. {x} \in SUBSET Seq(Alphanums)
    <2>1. Words \subseteq Alphanums
      BY DEF Alphanums
    <2>2. x \in Seq(Words)
      BY <1>4, ExpansionAssumption
    <2>3. x \in Seq(Alphanums)
      BY <2>1, <2>2, SeqMonotonic
    <2> QED
      BY <2>3
  <1>6. NotSeen \in [Names -> Seq(Atoms)] /\ \A n \in Names : NotSeen[n] = <<>>
    <2>1. <<>> \in Seq(Atoms)
      OBVIOUS
    <2> QED
      BY <2>1 DEF NotSeen
  <1>7. 1 \in 0 .. MaxExpansionDepth
    <2>1. MaxExpansionDepth \in Nat /\ MaxExpansionDepth # 0
      BY ExpansionAssumption
    <2> QED
      BY <2>1
  <1>8. PICK s : s = [k \in DOMAIN items |-> [items[k] EXCEPT !.hide = {x}, !.seen = NotSeen, !.depth = 1]]
    OBVIOUS
  <1>9. Replaced(s, 1)
    BY <1>2, <1>5, <1>6, <1>7, <1>8, ReplacedFacts
  <1>10. ASSUME NEW k \in DOMAIN items
         PROVE  [items[k] EXCEPT !.hide = {x}, !.seen = NotSeen, !.depth = 1]
                    = [items[k] EXCEPT !.hide = {x}, !.depth = 1]
    <2>1. PICK t : t = items[k]
      OBVIOUS
    <2>2. t \in Fresh
      BY <1>2, <2>1
    <2>3. PICK a, b, c, d, e : t = [text |-> a, glued |-> b, hide |-> c, seen |-> d, depth |-> e]
      BY <2>2 DEF Fresh
    <2>4. d = NotSeen
      BY <2>2, <2>3, FreshFacts
    <2>5. PICK u : u = [t EXCEPT !.hide = {x}, !.seen = NotSeen, !.depth = 1]
      OBVIOUS
    <2>6. PICK v : v = [t EXCEPT !.hide = {x}, !.depth = 1]
      OBVIOUS
    <2>7. u = [text |-> a, glued |-> b, hide |-> {x}, seen |-> NotSeen, depth |-> 1]
      BY <2>3, <2>5
    <2>8. v = [text |-> a, glued |-> b, hide |-> {x}, seen |-> d, depth |-> 1]
      BY <2>3, <2>6
    <2>9. u = v
      BY <2>4, <2>7, <2>8
    <2> QED
      BY <2>1, <2>5, <2>6, <2>9
  <1>11. s = [k \in DOMAIN items |-> [items[k] EXCEPT !.hide = {x}, !.depth = 1]]
    BY <1>8, <1>10
  <1> QED
    BY <1>3, <1>9, <1>11

\* What Expand puts in the place of an invocation.
LEMMA ExpandReplaces ==
    ASSUME TypeOK, ~Exhausted, NEW inv \in Expandable, NEW items, items = Replacement(toks, inv)
    PROVE  Replaced([k \in DOMAIN items |->
                        [items[k] EXCEPT !.hide = NextHide(inv), !.seen = History(inv),
                                         !.depth = NextDepth]], NextDepth)
  <1>1. toks \in Seq(Tokens) /\ table \in [Names -> Macros \cup {NoMacro}] /\ Historical(toks)
    BY DEF TypeOK, Historical
  <1>2. inv \in Invocations(toks)
    BY DEF Expandable
  <1>3. items \in Seq(Fresh)
    BY <1>1, <1>2, ReplacementFacts
  <1>4. PICK x : x = toks[1].text
    OBVIOUS
  <1>5. x \in Names /\ table[x] # NoMacro /\ 1 \in 1 .. Len(toks) /\ inv.last \in 1 .. Len(toks)
    BY <1>1, <1>2, <1>4, InvocationFacts
  <1>6. toks[1] \in Tokens
    BY <1>1, <1>5
  <1>7. NextHide(inv) \in SUBSET Seq(Alphanums)
    <2>1. Words \subseteq Alphanums
      BY DEF Alphanums
    <2>2. x \in Seq(Words)
      BY <1>5, ExpansionAssumption
    <2>3. x \in Seq(Alphanums)
      BY <2>1, <2>2, SeqMonotonic
    <2> QED
      BY <1>4, <2>3 DEF NextHide
  <1>8. PICK g : g = Signature(toks, inv.last)
    OBVIOUS
  <1>9. g \in Seq(Atoms)
    <2>1. \A i \in 1 .. inv.last : toks[i] \in Tokens
      BY <1>1, <1>5
    <2>2. 1 \in Int /\ inv.last \in Int
      BY <1>5
    <2>3. SubSeq(toks, 1, inv.last) \in Seq(Tokens)
      BY <2>1, <2>2, SubSeqProperties
    <2>4. Text(SubSeq(toks, 1, inv.last)) \in Seq(Atoms)
      BY <2>3, TextKeeps
    <2> QED
      BY <1>8, <2>4 DEF Signature
  <1>10. PICK q : q = toks[1].seen
    OBVIOUS
  <1>11. q \in [Names -> Seq(Atoms)] /\ \A n \in Names : q[n] # <<>> => table[n] # NoMacro
    <2>1. q \in [Names -> Seq(Atoms)]
      BY <1>6, <1>10, TokenFields
    <2>2. 1 \in DOMAIN toks
      BY <1>1, <1>5
    <2> QED
      BY <1>1, <1>10, <2>1, <2>2 DEF Historical
  <1>12. PICK r : r = [q EXCEPT ![x] = g]
    OBVIOUS
  <1>13. r \in [Names -> Seq(Atoms)] /\ \A n \in Names : r[n] # <<>> => table[n] # NoMacro
    BY <1>5, <1>9, <1>11, <1>12
  <1>14. History(inv) = IF inv.macro.pattern THEN r ELSE q
    BY <1>4, <1>8, <1>10, <1>12 DEF History
  <1>15. PICK w : w = History(inv)
    OBVIOUS
  <1>16. w \in [Names -> Seq(Atoms)] /\ \A n \in Names : w[n] # <<>> => table[n] # NoMacro
    BY <1>11, <1>13, <1>14, <1>15
  <1>17. NextDepth \in 0 .. MaxExpansionDepth
    <2>1. toks[1].depth \in 0 .. MaxExpansionDepth /\ MaxExpansionDepth \in Nat
      BY <1>6, TokenFields, ExpansionAssumption
    <2> QED
      BY <2>1 DEF NextDepth, Exhausted
  <1>18. PICK h : h = NextHide(inv)
    OBVIOUS
  <1>19. PICK d : d = NextDepth
    OBVIOUS
  <1>20. PICK s : s = [k \in DOMAIN items |-> [items[k] EXCEPT !.hide = h, !.seen = w, !.depth = d]]
    OBVIOUS
  <1>21. h \in SUBSET Seq(Alphanums) /\ d \in 0 .. MaxExpansionDepth
    BY <1>7, <1>17, <1>18, <1>19
  <1>22. Replaced(s, d)
    BY <1>3, <1>16, <1>20, <1>21, ReplacedFacts
  <1> QED
    BY <1>15, <1>18, <1>19, <1>20, <1>22

---------------------------------------------------------------------------
(* Weight. *)

\* g takes the tokens of s, where they are no deeper than token j of t, to
\* different tokens of t at the same depths, and none of them to j.
Tells(g, s, t, j) ==
    /\ \A k \in DOMAIN s : s[k].depth <= t[j].depth =>
          g[k] \in DOMAIN t \ {j} /\ t[g[k]].depth = s[k].depth
    /\ \A k, l \in DOMAIN s :
          s[k].depth <= t[j].depth /\ s[l].depth <= t[j].depth /\ g[k] = g[l] => k = l

\* Then s weighs less than t.
LEMMA Lightens ==
    ASSUME NEW s \in Seq(Tokens), NEW t \in Seq(Tokens), NEW j \in DOMAIN t, NEW g,
           Tells(g, s, t, j)
    PROVE  Lighter(s, t)
  <1> DEFINE At(q, e) == {k \in DOMAIN q : q[k].depth = e}
  <1>1. PICK d : d = t[j].depth
    OBVIOUS
  <1>2. d \in 0 .. MaxExpansionDepth /\ MaxExpansionDepth \in Nat /\ d \in Nat
    <2>1. t[j] \in Tokens
      OBVIOUS
    <2>2. d \in 0 .. MaxExpansionDepth /\ MaxExpansionDepth \in Nat
      BY <1>1, <2>1, TokenFields, ExpansionAssumption
    <2> QED
      BY <2>2
  <1>3. ASSUME NEW e \in 0 .. d
        PROVE  /\ IsFiniteSet(At(t, e)) /\ Cardinality(At(t, e)) \in Nat
               /\ IsFiniteSet(At(s, e)) /\ Cardinality(At(s, e)) \in Nat
               /\ IsFiniteSet(At(t, e) \ {j}) /\ Cardinality(At(s, e)) <= Cardinality(At(t, e) \ {j})
    <2>1. IsFiniteSet(At(t, e))
      <3>1. 1 \in Int /\ Len(t) \in Int
        OBVIOUS
      <3>2. IsFiniteSet(1 .. Len(t))
        BY <3>1, FS_Interval
      <3>3. At(t, e) \in SUBSET (1 .. Len(t))
        OBVIOUS
      <3> QED
        BY <3>2, <3>3, FS_Subset
    <2>2. IsFiniteSet(At(t, e) \ {j})
      BY <2>1, FS_RemoveElement
    <2>3. PICK f : f = [k \in At(s, e) |-> g[k]]
      OBVIOUS
    <2>4. \A k \in At(s, e) : k \in DOMAIN s /\ s[k].depth <= t[j].depth /\ s[k].depth = e
      BY <1>1, <1>2
    <2>5. \A k \in At(s, e) : g[k] \in At(t, e) \ {j}
      BY <2>4 DEF Tells
    <2>6. f \in [At(s, e) -> At(t, e) \ {j}]
      BY <2>3, <2>5
    <2>7. \A k, l \in At(s, e) : f[k] = f[l] => k = l
      BY <2>3, <2>4 DEF Tells
    <2>8. f \in Injection(At(s, e), At(t, e) \ {j})
      BY <2>6, <2>7 DEF Injection, IsInjective
    <2> HIDE DEF At
    <2>9. IsFiniteSet(At(s, e)) /\ Cardinality(At(s, e)) <= Cardinality(At(t, e) \ {j})
      BY <2>2, <2>8, FS_Injection
    <2>10. Cardinality(At(t, e)) \in Nat /\ Cardinality(At(s, e)) \in Nat
      BY <2>1, <2>9, FS_CardinalityType
    <2> QED
      BY <2>1, <2>2, <2>9, <2>10
  <1>4. j \in At(t, d)
    BY <1>1
  <1>5. \A e \in 0 .. d - 1 : e \in 0 .. d /\ j \notin At(t, e)
    BY <1>1, <1>2
  <1>6. d \in 0 .. d
    BY <1>2
  <1>7. \A q, e : Weight(q, e) = Cardinality(At(q, e))
    BY DEF Weight
  <1> HIDE DEF At
  <1>8. Cardinality(At(s, d)) < Cardinality(At(t, d))
    <2>1. Cardinality(At(t, d) \ {j}) = Cardinality(At(t, d)) - 1
      BY <1>3, <1>4, <1>6, FS_RemoveElement
    <2> QED
      BY <1>3, <1>6, <2>1
  <1>9. ASSUME NEW e \in 0 .. d - 1
        PROVE  Cardinality(At(s, e)) <= Cardinality(At(t, e))
    <2>1. e \in 0 .. d /\ j \notin At(t, e)
      BY <1>5
    <2>2. Cardinality(At(t, e) \ {j}) = Cardinality(At(t, e))
      BY <1>3, <2>1, FS_RemoveElement
    <2> QED
      BY <1>3, <2>1, <2>2
  <1>10. PICK lo \in 0 .. MaxExpansionDepth :
            Weight(s, lo) < Weight(t, lo) /\ \A e \in 0 .. lo - 1 : Weight(s, e) <= Weight(t, e)
    BY <1>2, <1>7, <1>8, <1>9
  <1> QED
    BY <1>10 DEF Lighter

\* The first tokens give way to deeper ones.
LEMMA DeeperIsLighter ==
    ASSUME NEW t \in Seq(Tokens), NEW n \in 1 .. Len(t),
           NEW s \in Seq(Tokens), \A k \in DOMAIN s : s[k].depth > t[1].depth,
           NEW r \in Seq(Tokens), Len(r) = Len(t) - n,
           \A k \in 1 .. Len(t) - n : r[k].depth = t[k + n].depth
    PROVE  Lighter(s \o r, t)
  <1>1. PICK a \in Nat, b \in Nat, c \in Nat : a = Len(s) /\ b = Len(r) /\ c = Len(t) /\ b = c - n
    OBVIOUS
  <1>2. PICK q : q = s \o r
    OBVIOUS
  <1>3. /\ q \in Seq(Tokens) /\ Len(q) = a + b /\ DOMAIN q = 1 .. a + b
        /\ \A i \in 1 .. a + b : q[i] = IF i <= a THEN s[i] ELSE r[i - a]
    <2>1. /\ q \in Seq(Tokens) /\ Len(q) = Len(s) + Len(r)
          /\ \A i \in 1 .. Len(s) + Len(r) : q[i] = IF i <= Len(s) THEN s[i] ELSE r[i - Len(s)]
      BY <1>2, ConcatProperties
    <2>2. DOMAIN q = 1 .. Len(q)
      BY <2>1
    <2> QED
      BY <1>1, <2>1, <2>2
  <1>4. 1 \in DOMAIN t /\ n \in Nat /\ n >= 1 /\ n <= c
    BY <1>1
  <1>5. t[1].depth \in Nat
    <2>1. t[1] \in Tokens
      BY <1>4
    <2>2. t[1].depth \in 0 .. MaxExpansionDepth
      BY <2>1, TokenFields
    <2> QED
      BY <2>2
  <1>6. ASSUME NEW k \in DOMAIN q, q[k].depth <= t[1].depth
        PROVE  /\ k > a /\ k - a \in 1 .. b /\ k - a + n \in DOMAIN t \ {1}
               /\ t[k - a + n].depth = q[k].depth
    <2>1. k \in Nat /\ k >= 1 /\ k <= a + b
      BY <1>3
    <2>2. k > a
      <3>1. SUFFICES ASSUME k <= a PROVE FALSE
        BY <2>1, <1>1
      <3>2. k \in DOMAIN s /\ q[k] = s[k]
        BY <1>1, <1>3, <2>1, <3>1
      <3>3. s[k].depth > t[1].depth /\ s[k].depth <= t[1].depth
        BY <1>6, <3>2
      <3>4. s[k].depth \in 0 .. MaxExpansionDepth
        BY <3>2, TokenFields
      <3>5. s[k].depth \in Int
        BY <3>4
      <3> QED
        BY <1>5, <3>3, <3>5
    <2>3. k - a \in 1 .. b /\ ~(k <= a)
      BY <1>1, <2>1, <2>2
    <2>4. q[k] = r[k - a]
      BY <1>3, <2>3
    <2>5. r[k - a].depth = t[k - a + n].depth
      BY <1>1, <2>3
    <2>6. k - a + n \in 1 .. c /\ k - a + n # 1
      BY <1>1, <1>4, <2>3
    <2>7. DOMAIN t = 1 .. c
      BY <1>1
    <2> QED
      BY <2>2, <2>3, <2>4, <2>5, <2>6, <2>7
  <1>7. PICK g : g = [k \in DOMAIN q |-> k - a + n]
    OBVIOUS
  <1>8. \A k \in DOMAIN q : q[k].depth <= t[1].depth =>
            g[k] \in DOMAIN t \ {1} /\ t[g[k]].depth = q[k].depth
    BY <1>6, <1>7
  <1>9. \A k, l \in DOMAIN q : g[k] = g[l] => k = l
    BY <1>1, <1>3, <1>4, <1>7
  <1>10. \A k, l \in DOMAIN q :
             q[k].depth <= t[1].depth /\ q[l].depth <= t[1].depth /\ g[k] = g[l] => k = l
    BY <1>9
  <1>11. Tells(g, q, t, 1)
    BY <1>8, <1>10 DEF Tells
  <1>12. Lighter(q, t)
    BY <1>3, <1>4, <1>11, Lightens
  <1> QED
    BY <1>2, <1>12

\* Two tokens give way to one as deep as the deeper of them.
LEMMA PastedIsLighter ==
    ASSUME NEW t \in Seq(Tokens), Len(t) > 1, NEW p \in Tokens,
           p.depth = Deeper(t[1].depth, t[2].depth)
    PROVE  Lighter(<<p>> \o Rest(t, 2), t)
  <1>1. PICK c \in Nat : c = Len(t) /\ c > 1 /\ DOMAIN t = 1 .. c
    OBVIOUS
  <1>2. PICK r : r = Rest(t, 2)
    OBVIOUS
  <1>3. r \in Seq(Tokens) /\ Len(r) = c - 2 /\ \A k \in 1 .. c - 2 : r[k] = t[k + 2]
    <2>1. 2 \in 0 .. Len(t)
      BY <1>1
    <2> QED
      BY <1>1, <1>2, <2>1, RestFacts
  <1>4. PICK q : q = <<p>> \o r
    OBVIOUS
  <1>5. q \in Seq(Tokens) /\ DOMAIN q = 1 .. c - 1 /\ q[1] = p
        /\ \A k \in 2 .. c - 1 : q[k] = t[k + 1]
    <2>1. <<p>> \in Seq(Tokens) /\ Len(<<p>>) = 1 /\ <<p>>[1] = p
      OBVIOUS
    <2>2. /\ q \in Seq(Tokens) /\ Len(q) = 1 + (c - 2)
          /\ \A i \in 1 .. 1 + (c - 2) : q[i] = IF i <= 1 THEN <<p>>[i] ELSE r[i - 1]
      BY <1>3, <1>4, <2>1, ConcatProperties
    <2>3. 1 + (c - 2) = c - 1 /\ 1 \in 1 .. c - 1
      BY <1>1
    <2>4. DOMAIN q = 1 .. c - 1 /\ q[1] = p
      BY <2>1, <2>2, <2>3
    <2>5. ASSUME NEW k \in 2 .. c - 1 PROVE q[k] = t[k + 1]
      <3>1. k \in 1 .. 1 + (c - 2) /\ ~(k <= 1) /\ k - 1 \in 1 .. c - 2 /\ (k - 1) + 2 = k + 1
        BY <1>1
      <3> QED
        BY <1>3, <2>2, <3>1
    <2> QED
      BY <2>2, <2>4, <2>5
  <1>6. t[1] \in Tokens /\ t[2] \in Tokens /\ 1 \in DOMAIN t /\ 2 \in DOMAIN t
    BY <1>1
  <1>7. t[1].depth \in Int /\ t[2].depth \in Int
    <2>1. t[1].depth \in 0 .. MaxExpansionDepth /\ t[2].depth \in 0 .. MaxExpansionDepth
      BY <1>6, TokenFields
    <2> QED
      BY <2>1
  <1>8. PICK i \in {1, 2}, j \in {1, 2} : i # j /\ p.depth = t[i].depth
    <2>1. p.depth = t[1].depth \/ p.depth = t[2].depth
      BY DEF Deeper
    <2> QED
      BY <2>1
  <1>9. PICK g : g = [k \in DOMAIN q |-> IF k = 1 THEN i ELSE k + 1]
    OBVIOUS
  <1>10. \A k \in DOMAIN q : g[k] \in DOMAIN t \ {j} /\ t[g[k]].depth = q[k].depth
    <2>1. g[1] = i /\ i \in DOMAIN t \ {j} /\ t[i].depth = q[1].depth
      <3>1. 1 \in DOMAIN q
        BY <1>1, <1>5
      <3> QED
        BY <1>1, <1>5, <1>8, <1>9, <3>1
    <2>2. ASSUME NEW k \in DOMAIN q, k # 1
          PROVE  g[k] \in DOMAIN t \ {j} /\ t[g[k]].depth = q[k].depth
      <3>1. k \in 2 .. c - 1 /\ k + 1 \in 1 .. c /\ k + 1 # 1 /\ k + 1 # 2
        BY <1>1, <1>5, <2>2
      <3>2. g[k] = k + 1 /\ q[k] = t[k + 1]
        BY <1>5, <1>9, <2>2, <3>1
      <3>3. k + 1 # j
        BY <1>8, <3>1
      <3> QED
        BY <1>1, <3>1, <3>2, <3>3
    <2> QED
      BY <2>1, <2>2
  <1>11. \A k, l \in DOMAIN q : g[k] = g[l] => k = l
    BY <1>1, <1>5, <1>8, <1>9
  <1>12. j \in DOMAIN t
    BY <1>1, <1>8
  <1>13. Tells(g, q, t, j)
    BY <1>10, <1>11 DEF Tells
  <1>14. Lighter(q, t)
    BY <1>5, <1>12, <1>13, Lightens
  <1> QED
    BY <1>2, <1>4, <1>14

---------------------------------------------------------------------------
(* The steps. *)

\* What a step that writes or replaces tokens leaves behind.
Taken ==
    /\ toks' \in Seq(Tokens) /\ Historical(toks') /\ out' \in Seq(Spellings)
    /\ Lighter(toks', toks)

\* What is written is spelled as tokens are.
LEMMA WriteKeeps ==
    ASSUME TypeOK, NEW n \in 1 .. Len(toks)
    PROVE  out \o [k \in 1 .. n |-> toks[k].text] \in Seq(Spellings)
  <1>1. toks \in Seq(Tokens) /\ out \in Seq(Spellings)
    BY DEF TypeOK
  <1>2. PICK m \in Nat : m = n /\ m <= Len(toks)
    BY <1>1
  <1>3. ASSUME NEW k \in 1 .. m
        PROVE  toks[k].text \in Spellings
    <2>1. toks[k] \in Tokens
      BY <1>1, <1>2
    <2> QED
      BY <2>1, TokenFields
  <1>4. PICK w : w = [k \in 1 .. m |-> toks[k].text]
    OBVIOUS
  <1>5. w \in [1 .. m -> Spellings]
    BY <1>3, <1>4
  <1>6. w \in Seq(Spellings)
    BY <1>5, SeqDef
  <1>7. out \o w \in Seq(Spellings)
    BY <1>1, <1>6, ConcatProperties
  <1> QED
    BY <1>2, <1>4, <1>7

\* The rest of the tokens weighs less, whatever it gets barred from.
LEMMA RestIsLighter ==
    ASSUME NEW t \in Seq(Tokens), NEW n \in 1 .. Len(t), NEW r \in Seq(Tokens),
           Len(r) = Len(t) - n, \A k \in 1 .. Len(t) - n : r[k].depth = t[k + n].depth
    PROVE  Lighter(r, t)
  <1>1. PICK s : s = <<>>
    OBVIOUS
  <1>2. s \in Seq(Tokens) /\ \A k \in DOMAIN s : s[k].depth > t[1].depth
    BY <1>1
  <1>3. Lighter(s \o r, t)
    BY <1>2, DeeperIsLighter
  <1>4. s \o r = r
    BY <1>1
  <1> QED
    BY <1>3, <1>4

\* A step that writes one token.
LEMMA WriteTakes ==
    ASSUME TypeOK, toks # <<>>, Write(1)
    PROVE  Taken
  <1>1. toks \in Seq(Tokens) /\ Historical(toks)
    BY DEF TypeOK, Historical
  <1>2. 1 \in 1 .. Len(toks) /\ 1 \in 0 .. Len(toks)
    BY <1>1
  <1>3. toks' = Rest(toks, 1) /\ out' = out \o [k \in 1 .. 1 |-> toks[k].text]
    BY DEF Write
  <1>4. toks' \in Seq(Tokens) /\ Historical(toks')
    BY <1>1, <1>2, <1>3, RestKeeps
  <1>5. out' \in Seq(Spellings)
    BY <1>2, <1>3, WriteKeeps
  <1>6. PICK r : r = Rest(toks, 1)
    OBVIOUS
  <1>7. r \in Seq(Tokens) /\ Len(r) = Len(toks) - 1
        /\ \A k \in 1 .. Len(toks) - 1 : r[k] = toks[k + 1]
    BY <1>1, <1>2, <1>6, RestFacts
  <1>8. \A k \in 1 .. Len(toks) - 1 : r[k].depth = toks[k + 1].depth
    BY <1>7
  <1>9. Lighter(r, toks)
    BY <1>1, <1>2, <1>7, <1>8, RestIsLighter
  <1> QED
    BY <1>3, <1>4, <1>5, <1>6, <1>9 DEF Taken

\* A step that replaces an invocation.
LEMMA ReplacementTakes ==
    ASSUME TypeOK, NEW inv \in Invocations(toks), NEW d, d > toks[1].depth,
           NEW s, Replaced(s, d),
           toks' = s \o Rest(toks, inv.last), out' = out, table' = table
    PROVE  Taken
  <1>1. toks \in Seq(Tokens) /\ Historical(toks) /\ table \in [Names -> Macros \cup {NoMacro}]
        /\ out \in Seq(Spellings)
    BY DEF TypeOK, Historical
  <1>2. PICK n : n = inv.last
    OBVIOUS
  <1>3. n \in 1 .. Len(toks) /\ n \in 0 .. Len(toks)
    <2>1. n \in 1 .. Len(toks)
      BY <1>1, <1>2, InvocationFacts
    <2> QED
      BY <1>1, <2>1
  <1>4. PICK r : r = Rest(toks, n)
    OBVIOUS
  <1>5. r \in Seq(Tokens) /\ Historical(r)
    BY <1>1, <1>3, <1>4, RestKeeps
  <1>6. s \in Seq(Tokens) /\ Historical(s) /\ \A k \in DOMAIN s : s[k].depth > toks[1].depth
    BY DEF Replaced
  <1>7. s \o r \in Seq(Tokens) /\ Historical(s \o r)
    BY <1>5, <1>6, ConcatKeeps
  <1>8. Len(r) = Len(toks) - n /\ \A k \in 1 .. Len(toks) - n : r[k] = toks[k + n]
    BY <1>1, <1>3, <1>4, RestFacts
  <1>9. \A k \in 1 .. Len(toks) - n : r[k].depth = toks[k + n].depth
    BY <1>8
  <1>10. Lighter(s \o r, toks)
    BY <1>1, <1>3, <1>5, <1>6, <1>8, <1>9, DeeperIsLighter
  <1>11. toks' = s \o r
    BY <1>2, <1>4
  <1> QED
    BY <1>1, <1>7, <1>10, <1>11 DEF Taken

\* Replacing at the top of a line.
LEMMA ExpandAtTakes ==
    ASSUME TypeOK, ExpandAt
    PROVE  Taken
  <1>1. PICK inv \in Invocations(toks) : \E items \in {Replacement(toks, inv)} :
            toks' = [k \in DOMAIN items |->
                        [items[k] EXCEPT !.hide = {toks[1].text}, !.depth = 1]]
                    \o Rest(toks, inv.last)
    BY DEF ExpandAt
  <1>2. PICK items : items = Replacement(toks, inv)
    OBVIOUS
  <1>3. PICK s : s = [k \in DOMAIN items |->
                         [items[k] EXCEPT !.hide = {toks[1].text}, !.depth = 1]]
    OBVIOUS
  <1>4. toks' = s \o Rest(toks, inv.last)
    BY <1>1, <1>2, <1>3
  <1>5. Replaced(s, 1)
    BY <1>2, <1>3, ExpandAtReplaces
  <1>6. 1 > toks[1].depth
    <2>1. table \in [Names -> Macros \cup {NoMacro}] /\ toks \in Seq(Tokens)
      BY DEF TypeOK
    <2>2. 1 \in 1 .. Len(toks)
      BY <2>1, InvocationFacts
    <2>3. 1 \in DOMAIN toks
      BY <2>1, <2>2
    <2>4. toks[1].depth = 0
      BY <2>3 DEF TypeOK, ExpandAt
    <2> QED
      BY <2>4
  <1>7. out' = out /\ table' = table
    BY DEF ExpandAt
  <1> QED
    BY <1>4, <1>5, <1>6, <1>7, ReplacementTakes

\* Replacing in a run.
LEMMA ExpandTakes ==
    ASSUME TypeOK, Expand
    PROVE  Taken
  <1>1. ~Exhausted /\ out' = out /\ table' = table
    BY DEF Expand
  <1>2. PICK inv \in Expandable : \E items \in {Replacement(toks, inv)} :
            toks' = [k \in DOMAIN items |->
                        [items[k] EXCEPT !.hide = NextHide(inv), !.seen = History(inv),
                                         !.depth = NextDepth]]
                    \o Rest(toks, inv.last)
    BY DEF Expand
  <1>3. PICK items : items = Replacement(toks, inv)
    OBVIOUS
  <1>4. PICK s : s = [k \in DOMAIN items |->
                         [items[k] EXCEPT !.hide = NextHide(inv), !.seen = History(inv),
                                          !.depth = NextDepth]]
    OBVIOUS
  <1>5. toks' = s \o Rest(toks, inv.last)
    BY <1>2, <1>3, <1>4
  <1>6. Replaced(s, NextDepth)
    BY <1>1, <1>3, <1>4, ExpandReplaces
  <1>7. inv \in Invocations(toks)
    BY DEF Expandable
  <1>8. NextDepth > toks[1].depth
    <2>1. table \in [Names -> Macros \cup {NoMacro}] /\ toks \in Seq(Tokens)
      BY DEF TypeOK
    <2>2. 1 \in 1 .. Len(toks)
      BY <1>7, <2>1, InvocationFacts
    <2>3. toks[1] \in Tokens
      BY <2>1, <2>2
    <2>4. toks[1].depth \in 0 .. MaxExpansionDepth
      BY <2>3, TokenFields
    <2> QED
      BY <2>4 DEF NextDepth
  <1> QED
    BY <1>1, <1>5, <1>6, <1>7, <1>8, ReplacementTakes

\* Pasting two words.
LEMMA PasteTakes ==
    ASSUME TypeOK, Paste
    PROVE  Taken
  <1>1. toks \in Seq(Tokens) /\ Historical(toks) /\ out \in Seq(Spellings)
    BY DEF TypeOK, Historical
  <1>2. Len(toks) > 1 /\ Alphanum(toks[1]) /\ Alphanum(toks[2])
    BY DEF Paste, Pastes
  <1>3. 1 \in DOMAIN toks /\ 2 \in DOMAIN toks /\ 2 \in 0 .. Len(toks)
    BY <1>1, <1>2
  <1>4. toks[1] \in Tokens /\ toks[2] \in Tokens
    BY <1>1, <1>3
  <1>5. PICK t : t = toks[1]
    OBVIOUS
  <1>6. PICK u : u = toks[2]
    OBVIOUS
  <1>7. t \in Tokens /\ u \in Tokens
    BY <1>4, <1>5, <1>6
  <1>8. PICK x, h, d : x = t.text \o u.text /\ h = t.hide \cup u.hide /\ d = Deeper(t.depth, u.depth)
    OBVIOUS
  <1>9. x \in Spellings
    <2>1. t.text \in Spellings /\ u.text \in Spellings
      BY <1>7, TokenFields
    <2>2. t.text[1] \in Alphanums /\ u.text[1] \in Alphanums
      BY <1>2, <1>5, <1>6 DEF Alphanum
    <2> QED
      BY <1>8, <2>1, <2>2, SpellingFacts
  <1>10. h \in SUBSET Seq(Alphanums)
    BY <1>7, <1>8, TokenFields
  <1>11. d \in 0 .. MaxExpansionDepth
    BY <1>7, <1>8, TokenFields DEF Deeper
  <1>12. PICK p : p = [t EXCEPT !.text = x, !.glued = u.glued, !.hide = h, !.depth = d]
    OBVIOUS
  <1>13. p \in Tokens /\ p.depth = d /\ p.seen = t.seen
    <2>1. u.glued \in BOOLEAN
      BY <1>7, TokenFields
    <2> QED
      BY <1>7, <1>9, <1>10, <1>11, <1>12, <2>1 DEF Tokens
  <1>14. toks' = <<p>> \o Rest(toks, 2)
    <2>1. p = [toks[1] EXCEPT !.text = @ \o toks[2].text, !.glued = toks[2].glued,
                              !.hide = @ \cup toks[2].hide, !.depth = Deeper(@, toks[2].depth)]
      BY <1>5, <1>6, <1>8, <1>12
    <2> QED
      BY <2>1 DEF Paste
  <1>15. PICK s : s = <<p>>
    OBVIOUS
  <1>16. s \in Seq(Tokens) /\ DOMAIN s = {1} /\ s[1] = p
    BY <1>13, <1>15
  <1>17. Historical(s)
    BY <1>1, <1>3, <1>5, <1>13, <1>16 DEF Historical
  <1>18. Rest(toks, 2) \in Seq(Tokens) /\ Historical(Rest(toks, 2))
    BY <1>1, <1>3, RestKeeps
  <1>19. toks' \in Seq(Tokens) /\ Historical(s \o Rest(toks, 2))
    BY <1>14, <1>15, <1>16, <1>17, <1>18, ConcatKeeps
  <1>20. Lighter(<<p>> \o Rest(toks, 2), toks)
    BY <1>1, <1>2, <1>5, <1>6, <1>8, <1>13, PastedIsLighter
  <1>21. out' = out /\ table' = table
    BY DEF Paste
  <1> QED
    BY <1>1, <1>14, <1>15, <1>19, <1>20, <1>21 DEF Taken

\* The operand of defined.
LEMMA SkipOperandTakes ==
    ASSUME TypeOK, SkipOperand
    PROVE  Taken
  <1>1. toks \in Seq(Tokens) /\ Historical(toks) /\ toks # <<>>
    BY DEF TypeOK, Historical, SkipOperand, InRun
  <1>2. PICK n : n = IF Len(toks) > 1 /\ toks[2].text = <<"(">> THEN 2 ELSE 1
    OBVIOUS
  <1>3. n \in 1 .. Len(toks) /\ n \in 0 .. Len(toks)
    BY <1>1, <1>2
  <1>4. PICK r : r = Rest(toks, n)
    OBVIOUS
  <1>5. /\ out' = out \o [k \in 1 .. n |-> toks[k].text]
        /\ toks' = IF r # <<>> /\ Alphanum(r[1]) /\ ~Keyword(r[1])
                   THEN [r EXCEPT ![1].hide = @ \cup {r[1].text}]
                   ELSE r
    BY <1>2, <1>4 DEF SkipOperand
  <1>6. out' \in Seq(Spellings)
    BY <1>3, <1>5, WriteKeeps
  <1>7. /\ r \in Seq(Tokens) /\ Len(r) = Len(toks) - n
        /\ \A k \in 1 .. Len(toks) - n : r[k] = toks[k + n]
    BY <1>1, <1>3, <1>4, RestFacts
  <1>8. Historical(r)
    BY <1>1, <1>3, <1>4, RestKeeps
  <1>9. CASE r # <<>> /\ Alphanum(r[1])
    <2>1. PICK t : t = r[1]
      OBVIOUS
    <2>2. 1 \in 1 .. Len(r) /\ 1 \in DOMAIN r
      BY <1>7, <1>9
    <2>3. t \in Tokens
      BY <1>7, <2>1, <2>2
    <2>4. t.text \in Seq(Alphanums)
      <3>1. t.text \in Spellings /\ t.text[1] \in Alphanums
        BY <1>9, <2>1, <2>3, TokenFields DEF Alphanum
      <3> QED
        BY <3>1, SpellingFacts
    <2>5. PICK h : h = t.hide \cup {t.text}
      OBVIOUS
    <2>6. h \in SUBSET Seq(Alphanums)
      BY <2>3, <2>4, <2>5, TokenFields
    <2>7. PICK u : u = [t EXCEPT !.hide = h]
      OBVIOUS
    <2>8. u \in Tokens /\ u.depth = t.depth /\ u.seen = t.seen
      BY <2>3, <2>6, <2>7 DEF Tokens
    <2>9. PICK q : q = [r EXCEPT ![1] = u]
      OBVIOUS
    <2>10. q \in Seq(Tokens) /\ Len(q) = Len(r)
           /\ \A j \in 1 .. Len(r) : q[j] = IF j = 1 THEN u ELSE r[j]
      BY <1>7, <2>2, <2>8, <2>9, ExceptSeq
    <2>11. \A k \in 1 .. Len(r) : q[k].depth = r[k].depth /\ q[k].seen = r[k].seen
      BY <2>1, <2>8, <2>10
    <2>12. Historical(q)
      <3>1. DOMAIN q = 1 .. Len(r) /\ DOMAIN r = 1 .. Len(r)
        BY <1>7, <2>10
      <3> QED
        BY <1>8, <2>11, <3>1 DEF Historical
    <2>13. \A k \in 1 .. Len(toks) - n : q[k].depth = toks[k + n].depth
      BY <1>7, <2>11
    <2>14. Lighter(q, toks)
      BY <1>1, <1>3, <1>7, <2>10, <2>13, RestIsLighter
    <2>15. [r EXCEPT ![1].hide = @ \cup {r[1].text}] = q
      BY <2>1, <2>5, <2>7, <2>9
    <2>16. \A k \in 1 .. Len(toks) - n : r[k].depth = toks[k + n].depth
      BY <1>7
    <2>17. Lighter(r, toks)
      BY <1>1, <1>3, <1>7, <2>16, RestIsLighter
    <2>18. toks' = q \/ toks' = r
      BY <1>5, <2>15
    <2> QED
      BY <1>6, <1>7, <1>8, <2>10, <2>12, <2>14, <2>17, <2>18 DEF Taken
  <1>10. CASE ~(r # <<>> /\ Alphanum(r[1]))
    <2>1. toks' = r
      BY <1>5, <1>10
    <2>2. \A k \in 1 .. Len(toks) - n : r[k].depth = toks[k + n].depth
      BY <1>7
    <2>3. Lighter(r, toks)
      BY <1>1, <1>3, <1>7, <2>2, RestIsLighter
    <2> QED
      BY <1>6, <1>7, <1>8, <2>1, <2>3 DEF Taken
  <1> QED
    BY <1>9, <1>10

---------------------------------------------------------------------------
(* The theorems. *)

\* Every step but giving up takes weight away.
LEMMA StepTakes ==
    ASSUME TypeOK, Next
    PROVE  ~truncated /\ (TooDeep \/ Taken)
  <1>1. CASE EmitToken
    <2>1. toks # <<>> /\ Write(1) /\ level = "frame"
      BY <1>1 DEF EmitToken
    <2> QED
      BY <2>1, WriteTakes DEF TypeOK
  <1>2. CASE ExpandAt
    <2>1. level = "frame"
      BY <1>2 DEF ExpandAt
    <2> QED
      BY <1>2, <2>1, ExpandAtTakes DEF TypeOK
  <1>3. CASE SkipOperand
    <2>1. ~truncated
      BY <1>3 DEF SkipOperand, InRun
    <2> QED
      BY <1>3, <2>1, SkipOperandTakes
  <1>4. CASE Paste
    <2>1. ~truncated
      BY <1>4 DEF Paste, InRun
    <2> QED
      BY <1>4, <2>1, PasteTakes
  <1>5. CASE Expand
    <2>1. ~truncated
      BY <1>5 DEF Expand, InRun
    <2> QED
      BY <1>5, <2>1, ExpandTakes
  <1>6. CASE TooDeep
    <2>1. ~truncated
      BY <1>6 DEF TooDeep, InRun
    <2> QED
      BY <1>6, <2>1
  <1>7. CASE AppendOut
    <2>1. toks # <<>> /\ Write(1) /\ ~truncated
      BY <1>7 DEF AppendOut, InRun
    <2> QED
      BY <2>1, WriteTakes
  <1> QED
    BY <1>1, <1>2, <1>3, <1>4, <1>5, <1>6, <1>7 DEF Next

\* At the top of a line no token has a depth.
LEMMA TopKeeps ==
    ASSUME TypeOK, Next, level' = "frame"
    PROVE  \A k \in DOMAIN toks' : toks'[k].depth = 0
  <1>1. CASE EmitToken
    <2>1. toks \in Seq(Tokens) /\ toks # <<>> /\ \A k \in DOMAIN toks : toks[k].depth = 0
      BY <1>1 DEF EmitToken, TypeOK
    <2>2. toks' = Rest(toks, 1)
      BY <1>1 DEF EmitToken, Write
    <2>3. 1 \in 0 .. Len(toks)
      BY <2>1
    <2>4. PICK r : r = Rest(toks, 1)
      OBVIOUS
    <2>5. r \in Seq(Tokens) /\ Len(r) = Len(toks) - 1
          /\ \A k \in 1 .. Len(toks) - 1 : r[k] = toks[k + 1]
      BY <2>1, <2>3, <2>4, RestFacts
    <2>6. \A k \in DOMAIN r : k \in 1 .. Len(toks) - 1 /\ k + 1 \in DOMAIN toks
      BY <2>1, <2>5
    <2>7. \A k \in DOMAIN r : r[k].depth = 0
      BY <2>1, <2>5, <2>6
    <2> QED
      BY <2>2, <2>4, <2>7
  <1>2. CASE ~EmitToken
    BY <1>2 DEF Next, ExpandAt, SkipOperand, Paste, Expand, TooDeep, AppendOut, InRun
  <1> QED
    BY <1>1, <1>2

\* The initial tokens are fresh.
LEMMA InitTypes == Init => TypeOK
  <1> SUFFICES ASSUME Init
               PROVE  TypeOK
    OBVIOUS
  <1>1. line \in Seq(Atoms)
    BY ExpansionAssumption DEF Init
  <1>2. toks \in Seq(Fresh)
    BY <1>1, LexFresh DEF Init
  <1>3. \A t \in Fresh : t \in Tokens /\ t.seen = NotSeen /\ t.depth = 0
    BY FreshFacts
  <1>4. toks \in Seq(Tokens)
    BY <1>2, <1>3, SeqMonotonic
  <1>5. \A k \in DOMAIN toks : toks[k].seen = NotSeen /\ toks[k].depth = 0
    <2>1. \A k \in DOMAIN toks : toks[k] \in Fresh
      BY <1>2
    <2> QED
      BY <1>3, <2>1
  <1>6. \A k \in DOMAIN toks, n \in Names : toks[k].seen[n] # <<>> => table[n] # NoMacro
    BY <1>5 DEF NotSeen
  <1>7. out \in Seq(Spellings)
    BY DEF Init
  <1>8. /\ table \in [Names -> Macros \cup {NoMacro}] /\ line \in Lines /\ conditionMode \in BOOLEAN
        /\ truncated = FALSE
    BY DEF Init
  <1>9. level \in {"frame", "run"} /\ (conditionMode => level = "run")
    BY DEF Init
  <1> QED
    BY <1>4, <1>5, <1>6, <1>7, <1>8, <1>9 DEF TypeOK

\* A step keeps the types.
LEMMA StepKeepsTypes == TypeOK /\ [Next]_vars => TypeOK'
  <1> SUFFICES ASSUME TypeOK, [Next]_vars
               PROVE  TypeOK'
    OBVIOUS
  <1>1. CASE Next
    <2>1. table' = table /\ line' = line /\ conditionMode' = conditionMode
      BY <1>1 DEF Next, EmitToken, ExpandAt, SkipOperand, Paste, Expand, TooDeep, AppendOut
    <2>2. toks' \in Seq(Tokens) /\ Historical(toks') /\ out' \in Seq(Spellings)
      <3>1. CASE Taken
        BY <3>1 DEF Taken
      <3>2. CASE TooDeep
        BY <3>2 DEF TooDeep, TypeOK, Historical
      <3> QED
        BY <1>1, <3>1, <3>2, StepTakes
    <2>3. level' \in {"frame", "run"} /\ (level = "run" => level' = "run")
      BY <1>1 DEF Next, EmitToken, ExpandAt, SkipOperand, Paste, Expand, TooDeep, AppendOut, TypeOK
    <2>4. truncated' \in BOOLEAN /\ (truncated' => level' = "run")
      <3>1. CASE TooDeep
        BY <3>1 DEF TooDeep, InRun
      <3>2. CASE ~TooDeep
        <4>1. truncated' = truncated
          BY <1>1, <3>2 DEF Next, EmitToken, ExpandAt, SkipOperand, Paste, Expand, AppendOut
        <4>2. truncated = FALSE
          BY <1>1, StepTakes DEF TypeOK
        <4> QED
          BY <4>1, <4>2
      <3> QED
        BY <3>1, <3>2
    <2>5. level' = "frame" => \A k \in DOMAIN toks' : toks'[k].depth = 0
      BY <1>1, TopKeeps
    <2>6. \A k \in DOMAIN toks', n \in Names : toks'[k].seen[n] # <<>> => table'[n] # NoMacro
      BY <2>1, <2>2 DEF Historical
    <2>7. /\ table' \in [Names -> Macros \cup {NoMacro}] /\ line' \in Lines /\ conditionMode' \in BOOLEAN
          /\ (conditionMode' => level' = "run")
      BY <2>1, <2>3 DEF TypeOK
    <2> QED
      BY <2>2, <2>3, <2>4, <2>5, <2>6, <2>7 DEF TypeOK
  <1>2. CASE UNCHANGED vars
    BY <1>2 DEF vars, TypeOK
  <1> QED
    BY <1>1, <1>2

\* Every token written or waiting is spelled, barred and counted as ptok says,
\* through pasting, substitution and the history of patterns: a depth never
\* passes the limit, and a history is one of defined macros.
THEOREM ExpansionTyped == Spec => []TypeOK
  <1>1. Init => TypeOK
    BY InitTypes
  <1>2. TypeOK /\ [Next]_vars => TypeOK'
    BY StepKeepsTypes
  <1> QED
    BY <1>1, <1>2, PTL DEF Spec

\* A step takes a token away at some depth and adds none at that depth or
\* above, or gives the line up: expansion has nowhere to go on for ever,
\* whatever the macros are and however they name each other.
THEOREM ExpansionDescends == Spec => EveryStepDescends
  <1>1. TypeOK /\ [Next]_vars => [StepDescends]_vars
    <2> SUFFICES ASSUME TypeOK, [Next]_vars
                 PROVE  [StepDescends]_vars
      OBVIOUS
    <2>1. CASE Next
      <3>1. ~truncated /\ (TooDeep \/ Taken)
        BY <2>1, StepTakes
      <3>2. TooDeep => truncated'
        BY DEF TooDeep
      <3>3. Taken => Lighter(toks', toks)
        BY DEF Taken
      <3> QED
        BY <3>1, <3>2, <3>3 DEF StepDescends
    <2>2. CASE UNCHANGED vars
      BY <2>2
    <2> QED
      BY <2>1, <2>2
  <1> QED
    BY <1>1, ExpansionTyped, PTL DEF Spec, EveryStepDescends

---------------------------------------------------------------------------
(* There is no way down for ever. *)

\* The weights of a sequence of tokens are natural numbers.
LEMMA WeightsAreNumbers ==
    ASSUME NEW s \in Seq(Tokens), NEW d
    PROVE  Weight(s, d) \in Nat
  <1>1. 1 \in Int /\ Len(s) \in Int
    OBVIOUS
  <1>2. IsFiniteSet(1 .. Len(s))
    BY <1>1, FS_Interval
  <1>3. {k \in DOMAIN s : s[k].depth = d} \in SUBSET (1 .. Len(s))
    OBVIOUS
  <1>4. IsFiniteSet({k \in DOMAIN s : s[k].depth = d})
    BY <1>2, <1>3, FS_Subset
  <1> QED
    BY <1>4, FS_CardinalityType DEF Weight


\* Tokens cannot get lighter for ever: expansion, whose every step makes them
\* lighter (ExpansionDescends), is over after finitely many.
THEOREM LighterIsFinite ==
    ~ \E f \in [Nat -> Seq(Tokens)] : \A i \in Nat : Lighter(f[i + 1], f[i])
  <1> SUFFICES ASSUME NEW f \in [Nat -> Seq(Tokens)], \A i \in Nat : Lighter(f[i + 1], f[i])
               PROVE  FALSE
    OBVIOUS
  <1>1. PICK limit \in Nat : limit = MaxExpansionDepth
    BY ExpansionAssumption
  <1>2. PICK g : g = [i \in Nat |-> [e \in 0 .. limit |-> Weight(f[i], e)]]
    OBVIOUS
  <1>3. g \in [Nat -> [0 .. limit -> Nat]]
    BY <1>2, WeightsAreNumbers
  <1>4. ASSUME NEW i \in Nat
        PROVE  \E lo \in 0 .. limit :
                  /\ g[i + 1][lo] < g[i][lo]
                  /\ \A e \in 0 .. lo - 1 : g[i + 1][e] <= g[i][e]
    <2>1. PICK lo \in 0 .. limit :
              /\ Weight(f[i + 1], lo) < Weight(f[i], lo)
              /\ \A e \in 0 .. lo - 1 : Weight(f[i + 1], e) <= Weight(f[i], e)
      BY <1>1 DEF Lighter
    <2>2. ASSUME NEW e \in 0 .. limit
          PROVE  g[i + 1][e] = Weight(f[i + 1], e) /\ g[i][e] = Weight(f[i], e)
      BY <1>2
    <2>3. \A e \in 0 .. lo - 1 : e \in 0 .. limit
      OBVIOUS
    <2> QED
      BY <2>1, <2>2, <2>3
  <1> QED
    BY <1>3, <1>4, NoWayDown

============================================================================
