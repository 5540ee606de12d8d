----------------------------- MODULE PassesProps -----------------------------
(* Properties of Passes: the tracker, the evaluator and the passes together. *)
EXTENDS Passes

CONSTANTS Given,        \* name |-> value a macro or a symbol gives it
          Probes,       \* conditions asked between any two statements
          Expressions   \* conditions asked of an empty file

ASSUME GivenAssumption == DOMAIN Given = ObjectLike \cup DOMAIN Symbols

(* The type invariant. *)
TypeOK ==
  /\ functions \subseteq Names /\ declaredFuncs \subseteq functions
  /\ usedBefore \subseteq functions
  /\ globals \subseteq Names
  /\ DOMAIN constants \subseteq Names
  /\ \A n \in DOMAIN constants : constants[n] \in Seq(Token)
  /\ DOMAIN arrays \subseteq Names
  /\ \A n \in DOMAIN arrays : arrays[n].dimensions # <<>> /\ arrays[n].dimensions[1] > 0
  /\ DOMAIN enumSizes \subseteq Names /\ DOMAIN enumFields \subseteq Names
  /\ activeEnum.name \in Names \cup {""} /\ activeEnum.entry \in Seq(Token)
  /\ scopes \in Seq(SUBSET Names)
  /\ header \in Seq(Token)
  /\ header = <<>> => parenDepth = 0 /\ bracketDepth = 0
  /\ pendingParams \subseteq Names
  /\ pendingFunc \in BOOLEAN /\ needsReparse \in BOOLEAN /\ overflowed \in BOOLEAN
  /\ file \in Seq(Lines) /\ Len(file) <= MaxLines
  /\ pos \in 1 .. Len(file) + 1 /\ at \in Nat
  /\ pass \in 1 .. 4 /\ seeds \subseteq functions
  /\ DOMAIN answers \subseteq 1 .. Len(file)

-----------------------------------------------------------------------------
(* What a condition says, read from the grammar and not by a cursor: the
   loosest operator outside parentheses splits it, the last one of its level.
   Values are integers without a width; exact says that none of them left the
   cell and that every shift count is one of a bit. *)

OperandEnds == {"IntLiteral", "Identifier", "RParen", "RBracket"}

Precedence == <<{"OrOr"}, {"AndAnd"}, {"Pipe"}, {"Caret"}, {"Amp"}, {"Eq", "NotEq"},
                {"Lt", "Gt", "LtEq", "GtEq"}, {"Shl", "Shr"}, {"Plus", "Minus"},
                {"Star", "Slash", "Percent"}>>
Looseness(kind) == CHOOSE l \in DOMAIN Precedence : kind \in Precedence[l]

Splits(toks) ==
  LET d == Depth(toks)
      operators == {i \in 2 .. Len(toks) : /\ toks[i].kind \in UNION Range(Precedence)
                                           /\ toks[i - 1].kind \in OperandEnds
                                           /\ d[i] = 0}
      Loose(i) == Looseness(toks[i].kind)
      Splitting(i, j) == Loose(i) < Loose(j) \/ (Loose(i) = Loose(j) /\ j <= i)
  IN  {i \in operators : \A j \in operators : Splitting(i, j)}

InCell(n) == n \in -(2 ^ (CellBits - 1)) .. 2 ^ (CellBits - 1) - 1
Says(n) == [known |-> TRUE, value |-> n, exact |-> InCell(n)]
SaysNothing == [known |-> FALSE, value |-> 0, exact |-> FALSE]

Bits(n) == {i \in 0 .. CellBits - 1 : (n \div 2 ^ i) % 2 = 1}
OfBits(S) == MapThenSumSet(LAMBDA i : IF i = CellBits - 1 THEN -(2 ^ i) ELSE 2 ^ i, S)

ExactQuotient(a, b) ==
  CHOOSE q \in -Magnitude(a) .. Magnitude(a) :
    /\ Magnitude(q) * Magnitude(b) <= Magnitude(a)
    /\ Magnitude(a) < (Magnitude(q) + 1) * Magnitude(b)
    /\ q = 0 \/ (q > 0) = ((a > 0) = (b > 0))

Combined(kind, x, y) ==
  LET a == x.value
      b == y.value
      Sure(n) == [Says(n) EXCEPT !.exact = @ /\ x.exact /\ y.exact]
      Test(p) == Sure(IF p THEN 1 ELSE 0)
      Shift(n) == [Sure(n) EXCEPT !.exact = @ /\ b \in 0 .. CellBits - 1]
  IN  CASE ~x.known \/ ~y.known -> SaysNothing
        [] OTHER ->
      CASE kind = "OrOr" -> Test({a, b} # {0})
        [] kind = "AndAnd" -> Test(0 \notin {a, b})
        [] kind = "Pipe" -> Sure(OfBits(Bits(a) \cup Bits(b)))
        [] kind = "Amp" -> Sure(OfBits(Bits(a) \cap Bits(b)))
        [] kind = "Caret" -> Sure(OfBits((Bits(a) \cup Bits(b)) \ (Bits(a) \cap Bits(b))))
        [] kind = "Eq" -> Test(a = b)
        [] kind = "NotEq" -> Test(a # b)
        [] kind = "Lt" -> Test(a < b)
        [] kind = "Gt" -> Test(a > b)
        [] kind = "LtEq" -> Test(a <= b)
        [] kind = "GtEq" -> Test(a >= b)
        [] kind = "Shl" -> Shift(IF b \in 0 .. CellBits THEN a * 2 ^ b ELSE 0)
        [] kind = "Shr" -> Shift(IF b \in 0 .. CellBits THEN a \div 2 ^ b ELSE 0)
        [] kind = "Plus" -> Sure(a + b)
        [] kind = "Minus" -> Sure(a - b)
        [] kind = "Star" -> Sure(a * b)
        [] b = 0 -> SaysNothing
        [] kind = "Slash" -> Sure(ExactQuotient(a, b))
        [] OTHER -> Sure(a - b * ExactQuotient(a, b))

Unary(kind, x) ==
  LET Sure(n) == [Says(n) EXCEPT !.exact = @ /\ x.exact]
  IN  CASE ~x.known -> SaysNothing
        [] kind = "Bang" -> Sure(IF x.value = 0 THEN 1 ELSE 0)
        [] kind = "Minus" -> Sure(0 - x.value)
        [] kind = "Tilde" -> Sure(OfBits(0 .. CellBits - 1 \ Bits(x.value)))
        [] OTHER -> x

Visible(n) == (\E i \in DOMAIN world.blocks : n \in world.blocks[i]) \/ n \in world.funcs

Exists(n) == Visible(n) \/ n \in DOMAIN Given \cup DOMAIN Macros

Kinds3(toks) == [i \in DOMAIN toks |-> toks[i].kind]
Inner(toks) == SubSeq(toks, 2, Len(toks) - 1)

(* sizeof: of an array, of a field of an array an enum sizes. *)
SizeMeaning(toks) ==
  LET name == toks[1].name
  IN  CASE Kinds3(toks) = <<"Identifier">> /\ name \in DOMAIN world.extents ->
             Says(world.extents[name][1])
        [] /\ Kinds3(toks) = <<"Identifier", "LBracket", "Identifier", "RBracket">>
           /\ name \in DOMAIN world.extents /\ toks[3].name \in DOMAIN world.cells ->
             Says(world.cells[toks[3].name])
        [] OTHER -> SaysNothing

Simple(toks) ==
  CASE Kinds3(toks) = <<"IntLiteral">> -> Says(toks[1].number)
    [] Kinds3(toks) = <<"Identifier">> ->
         Says(CASE toks[1].name \in DOMAIN Given -> Given[toks[1].name]
                [] /\ toks[1].name \notin DOMAIN Given
                   /\ toks[1].name \in DOMAIN world.meanings -> world.meanings[toks[1].name]
                [] OTHER -> 0)
    [] Kinds3(toks) = <<"KwDefined", "Identifier">> ->
         Says(IF Exists(toks[2].name) THEN 1 ELSE 0)
    [] Kinds3(toks) = <<"KwDefined", "LParen", "Identifier", "RParen">> ->
         Says(IF Exists(toks[3].name) THEN 1 ELSE 0)
    [] OTHER -> IF toks = <<>> \/ toks[1].kind # "KwSizeof" THEN SaysNothing
                ELSE IF At(toks, 2, "LParen") /\ Last(toks).kind = "RParen"
                     THEN SizeMeaning(Inner(Tail(toks))) ELSE SizeMeaning(Tail(toks))

RECURSIVE Meaning(_)
Meaning(toks) ==
  LET splits == Splits(toks)
      i == The(splits)
  IN  IF splits # {} THEN Combined(toks[i].kind, Meaning(Before(toks, i)), Meaning(After(toks, i)))
      ELSE IF toks = <<>> THEN SaysNothing
      ELSE IF toks[1].kind \in {"Bang", "Minus", "Plus", "Tilde"}
           THEN Unary(toks[1].kind, Meaning(Tail(toks)))
      ELSE IF toks[1].kind = "LParen" /\ Matching(toks, 1, "LParen", "RParen") = Len(toks)
           THEN Meaning(Inner(toks))
      ELSE Simple(toks)

Clear(toks) == \A i \in DOMAIN toks : toks[i].name \notin world.unclear

Agrees(toks) ==
  \E m \in {Meaning(toks)}, e \in {evalCondition(toks)} :
    /\ ~m.known => ~e.ok
    /\ m.exact => e.ok /\ e.value = m.value

BetweenStatements == at = 0 /\ header = <<>> /\ activeEnum = NoEnum /\ ~overflowed

(* Whatever the program declared so far, and in whatever branch, a condition
   has the value its grammar and the declarations give it: precedence,
   association, constants through other constants, enum values and sizes. An
   ill-formed condition, or one that divides by zero anywhere, has none. *)
ConditionsTellTheTruth ==
  BetweenStatements =>
    \A q \in IF file = <<>> /\ pass = 1 THEN Expressions ELSE Probes : Clear(q) => Agrees(q)

Misread == UNION {Statements[i].misread : i \in DOMAIN Statements}

(* `defined` sees a variable, a constant or a parameter from its declaration
   to the end of its block and not longer, and a function from its declaration
   or first call on (finishHeader, observeCall). Two kinds of names are left
   out: an array that a name sizes, with that name, where declaratorName takes
   the wrong one of the two (DeclarationsAreVisible), and what an enum
   declares, which the tracker keeps for values and not for `defined`. *)
VisibleNames ==
  BetweenStatements => \A n \in Names \ Misread : defined(n) <=> Visible(n)

(* "declarations earlier in the token stream are visible to later conditional
   directives" (preprocess/declarations.go:13). *)
DeclarationsAreVisible == BetweenStatements => \A n \in Names : Visible(n) => defined(n)

FunctionsOfFile ==
  UNION {Statements[file[k].index].funcs : k \in {i \in DOMAIN file : file[i].type = "code"}}

(* A pass may take another branch than the pass before only because of a
   function that was found in between: nothing else leaks from pass to pass.
   The first condition answered differently asks for such a function. *)
SeedsExplainFlips ==
  LET both == DOMAIN answers \cap DOMAIN previous.answers
      flipped == {l \in both : answers[l] # previous.answers[l]}
      first == CHOOSE l \in flipped : \A k \in flipped : l <= k
      question == Questions[file[first].index]
  IN  pass \in {2, 3} /\ flipped # {} =>
        \E i \in 2 .. Len(question) :
          /\ question[i].name \in (seeds \ previous.seeds) \cap FunctionsOfFile
          /\ question[i - 1].kind \in {"KwDefined", "LParen"}

(* "Run never panics on malformed input" (preprocess/engine.go:403). *)
NeverOverflows == ~overflowed

=============================================================================
