----------------------------- MODULE Conditions -----------------------------
(* The evaluator of #if, #elseif and #assert (preprocess/ifexpr.go), over the
   tokens that are left when macros are expanded. It reads the tables of the
   declaration tracker and the macro table: a name that is left may still be a
   macro's, behind `defined`, in the value of a symbol, or where expansion
   stopped at it. Cells have CellBits bits, 64 in the code.

   A step of the evaluator gives a value, the position after it and whether
   it failed. Failing is final: the code goes on reading, but only to answer
   "unknown" at the end. *)
EXTENDS Declarations

CONSTANTS CellBits,   \* width of a cell
          Macros,     \* the macro table: name |-> whether object-like, body
          Symbols,    \* Options.Symbols: name |-> tokens of its value
          Resolved    \* Options.ResolvedConstants: name |-> tokens of its value

Valued(map) == DOMAIN map \subseteq Names /\ \A n \in DOMAIN map : map[n] \in Seq(Token)

ASSUME ConditionsAssumption == /\ CellBits \in Nat \ {0}
                               /\ DOMAIN Macros \subseteq Names
                               /\ \A n \in DOMAIN Macros : /\ Macros[n].object \in BOOLEAN
                                                         /\ Macros[n].body \in Seq(Token)
                               /\ Valued(Symbols) /\ Valued(Resolved)

ObjectLike == {n \in DOMAIN Macros : Macros[n].object}

(* Two's complement. *)
Wrap(n) == ((n + 2 ^ (CellBits - 1)) % 2 ^ CellBits) - 2 ^ (CellBits - 1)
Bit(n, i) == (n \div 2 ^ i) % 2
Bitwise(Op(_, _), a, b) ==
  Wrap(MapThenSumSet(LAMBDA i : 2 ^ i * Op(Bit(a, i), Bit(b, i)), 0 .. CellBits - 1))

boolToInt(b) == IF b THEN 1 ELSE 0
Magnitude(n) == IF n < 0 THEN -n ELSE n
Quotient(a, b) == IF (a < 0) = (b < 0) THEN Magnitude(a) \div Magnitude(b)
                  ELSE -(Magnitude(a) \div Magnitude(b))        \* towards zero

(* For a mutant: & binds tighter than a comparison. *)
LevelOfMasks(kind) ==
  CASE kind \in {"OrOr", "AndAnd", "Pipe", "Caret"} ->
         CHOOSE l \in 1 .. 4 : <<"OrOr", "AndAnd", "Pipe", "Caret">>[l] = kind
    [] kind \in {"Eq", "NotEq"} -> 5
    [] kind \in {"Lt", "Gt", "LtEq", "GtEq"} -> 6
    [] kind = "Amp" -> 7
    [] kind \in {"Shl", "Shr"} -> 8
    [] kind \in {"Plus", "Minus"} -> 9
    [] kind \in {"Star", "Slash", "Percent"} -> 10
    [] OTHER -> 0

(* The levels of binary operators, the loosest first. *)
Level(kind) ==
  CASE kind = "OrOr" -> 1
    [] kind = "AndAnd" -> 2
    [] kind = "Pipe" -> 3
    [] kind = "Caret" -> 4
    [] kind = "Amp" -> 5
    [] kind \in {"Eq", "NotEq"} -> 6
    [] kind \in {"Lt", "Gt", "LtEq", "GtEq"} -> 7
    [] kind \in {"Shl", "Shr"} -> 8
    [] kind \in {"Plus", "Minus"} -> 9
    [] kind \in {"Star", "Slash", "Percent"} -> 10
    [] OTHER -> 0

(* A count of a shift is taken as unsigned: a negative one is huge. *)
Shifted(kind, a, b) ==
  CASE kind = "Shl" /\ b \in 0 .. CellBits - 1 -> Wrap(a * 2 ^ b)
    [] kind = "Shr" /\ b \in 0 .. CellBits - 1 -> a \div 2 ^ b
    [] kind = "Shl" /\ b \notin 0 .. CellBits - 1 -> 0
    [] OTHER -> IF a < 0 THEN -1 ELSE 0

Apply(kind, a, b) ==
  CASE kind = "OrOr" -> boolToInt(a # 0 \/ b # 0)
    [] kind = "AndAnd" -> boolToInt(a # 0 /\ b # 0)
    [] kind = "Pipe" -> Bitwise(LAMBDA x, y : x + y - x * y, a, b)
    [] kind = "Caret" -> Bitwise(LAMBDA x, y : (x + y) % 2, a, b)
    [] kind = "Amp" -> Bitwise(LAMBDA x, y : x * y, a, b)
    [] kind = "Eq" -> boolToInt(a = b)
    [] kind = "NotEq" -> boolToInt(a # b)
    [] kind = "Lt" -> boolToInt(a < b)
    [] kind = "Gt" -> boolToInt(a > b)
    [] kind = "LtEq" -> boolToInt(a <= b)
    [] kind = "GtEq" -> boolToInt(a >= b)
    [] kind \in {"Shl", "Shr"} -> Shifted(kind, a, b)
    [] kind = "Plus" -> Wrap(a + b)
    [] kind = "Minus" -> Wrap(a - b)
    [] kind = "Star" -> Wrap(a * b)
    [] kind = "Slash" -> Wrap(Quotient(a, b))
    [] kind = "Percent" -> a - b * Quotient(a, b)

Failing(kind, b) == kind \in {"Slash", "Percent"} /\ b = 0

Got(value, pos) == [value |-> value, pos |-> pos, unknown |-> FALSE]
Failed == [value |-> 0, pos |-> 0, unknown |-> TRUE]
At(toks, pos, kind) == pos <= Len(toks) /\ toks[pos].kind = kind

(* One value of a set that has one: TLC evaluates what it binds once. *)
The(S) == CHOOSE x \in S : TRUE

(* The selectors in brackets from a position on, each a name, a number or
   nothing; position 0 if a bracket is not closed. *)
RECURSIVE Selectors(_, _)
Selectors(toks, pos) ==
  LET empty == ~\E kind \in {"Identifier", "IntLiteral"} : At(toks, pos + 1, kind)
      closing == IF empty THEN pos + 1 ELSE pos + 2
      rest == Selectors(toks, closing + 1)
  IN  CASE ~At(toks, pos, "LBracket") -> [names |-> <<>>, pos |-> pos]
        [] At(toks, pos, "LBracket") /\ ~At(toks, closing, "RBracket") ->
             [names |-> <<>>, pos |-> 0]
        [] OTHER -> [rest EXCEPT !.names = <<IF empty THEN "" ELSE toks[pos + 1].name>> \o @]

(* sizeof name, sizeof name[field], with or without parentheses. *)
parseSizeof(toks, start) ==
  LET paren == At(toks, start, "LParen")
      at == IF paren THEN start + 1 ELSE start
      selected == Selectors(toks, at + 1)
      size == sizeOf(toks[at].name, selected.names)
  IN  CASE ~At(toks, at, "Identifier") -> Failed
        [] At(toks, at, "Identifier") /\ selected.pos = 0 -> Failed
        [] OTHER -> IF (paren /\ ~At(toks, selected.pos, "RParen")) \/ ~size.ok THEN Failed
                    ELSE Got(size.value, IF paren THEN selected.pos + 1 ELSE selected.pos)

parseDefined(toks, start) ==
  LET paren == At(toks, start, "LParen")
      at == IF paren THEN start + 1 ELSE start
      name == toks[at].name
  IN  IF ~At(toks, at, "Identifier") \/ (paren /\ ~At(toks, at + 1, "RParen"))
      THEN Failed
      ELSE Got(boolToInt(name \in DOMAIN Macros \cup DOMAIN Symbols \/ defined(name)),
               IF paren THEN at + 2 ELSE at + 1)

RECURSIVE parseBinary(_, _, _, _), parseUnary(_, _, _), parsePrimary(_, _, _), evalIdent(_, _)

(* parseBinary at every level: `left` is read, go on while an operator of at
   least this level follows; its right side ends before one of its level. *)
parseBinary(toks, level, left, guard) ==
  IF left.unknown \/ left.pos > Len(toks) THEN left
  ELSE LET kind == toks[left.pos].kind
       IN  IF Level(kind) = 0 \/ Level(kind) < level THEN left
           ELSE The({parseBinary(toks, level,
                       IF right.unknown \/ Failing(kind, right.value) THEN Failed
                       ELSE Got(Apply(kind, left.value, right.value), right.pos), guard) :
                     right \in {parseBinary(toks, Level(kind) + 1, first, guard) :
                                first \in {parseUnary(toks, left.pos + 1, guard)}}})

parseLogicalOr(toks, pos, guard) ==
  The({parseBinary(toks, 1, first, guard) : first \in {parseUnary(toks, pos, guard)}})

parseUnary(toks, pos, guard) ==
  IF pos > Len(toks) THEN Failed
  ELSE IF toks[pos].kind = "KwSizeof" THEN parseSizeof(toks, pos + 1)
  ELSE IF toks[pos].kind \notin {"Bang", "Minus", "Plus", "Tilde"}
       THEN parsePrimary(toks, pos, guard)
  ELSE The({IF r.unknown THEN Failed
            ELSE [r EXCEPT !.value = CASE toks[pos].kind = "Bang" -> boolToInt(@ = 0)
                                       [] toks[pos].kind = "Minus" -> Wrap(-@)
                                       [] toks[pos].kind = "Plus" -> @
                                       [] OTHER -> -@ - 1] :
            r \in {parseUnary(toks, pos + 1, guard)}})

parsePrimary(toks, pos, guard) ==
  LET kind == toks[pos].kind
  IN  CASE kind \in {"IntLiteral", "CharLiteral"} -> Got(Wrap(toks[pos].number), pos + 1)
        [] kind = "LParen" ->
             The({IF r.unknown \/ ~At(toks, r.pos, "RParen") THEN Failed
                  ELSE [r EXCEPT !.pos = @ + 1] :
                  r \in {parseLogicalOr(toks, pos + 1, guard)}})
        [] kind = "KwDefined" -> parseDefined(toks, pos + 1)
        [] kind = "Identifier" ->
             The({IF v.unknown THEN Failed ELSE Got(v.value, pos + 1) :
                  v \in {evalIdent(toks[pos].name, guard)}})
        [] OTHER -> Failed

(* A whole expression, unknown unless every token is read. *)
Whole(toks, guard) ==
  The({IF r.unknown \/ r.pos # Len(toks) + 1 THEN Failed ELSE r :
       r \in {parseLogicalOr(toks, 1, guard)}})

(* declarationTracker.constant: resolved by a compiler, or as initialized. *)
constant(name) == IF name \in DOMAIN Resolved THEN Resolved[name] ELSE constants[name]

(* What a name stands for: an object-like macro before a symbol, a symbol
   before a constant. *)
Definition(name) ==
  CASE name \in ObjectLike -> Macros[name].body
    [] name \in DOMAIN Symbols \ ObjectLike -> Symbols[name]
    [] OTHER -> constant(name)

(* A name met again on the way, and one nothing is known of, count as zero. *)
evalIdent(name, guard) ==
  IF \/ name \in guard
     \/ name \notin ObjectLike \cup DOMAIN Symbols \cup DOMAIN constants
  THEN Got(0, 0)
  ELSE Whole(Definition(name), guard \cup {name})

(* The answer of a condition: known and not zero, known and zero, unknown. *)
evalCondition(toks) ==
  IF toks = <<>> THEN Unknown
  ELSE The({IF r.unknown THEN Unknown ELSE Known(r.value) : r \in {Whole(toks, {})}})

=============================================================================
