------------------------------ MODULE MCPasses ------------------------------
(* Statements, conditions and expressions for Passes. *)
EXTENDS PassesProps

Id(n) == [kind |-> "Identifier", name |-> n, number |-> 0, newline |-> FALSE]
K(kind, text) == [kind |-> kind, name |-> text, number |-> 0, newline |-> FALSE]
P(kind) == K(kind, "")
N(n) == [P("IntLiteral") EXCEPT !.number = n]
Str(n) == [P("StringLiteral") EXCEPT !.number = n]
EndOfLine(t) == [t EXCEPT !.newline = TRUE]

New == K("KwNew", "new")
Const == K("KwConst", "const")

Plain == [where |-> "global", opens |-> 0, closes |-> 0, vars |-> {}, params |-> {},
          funcs |-> {}, meanings |-> Nothing, alias |-> Nothing, extents |-> Nothing,
          cells |-> Nothing, misread |-> {}, once |-> TRUE, tokens |-> <<>>]

One(k, v) == [x \in {k} |-> v]

GlobalX == [Plain EXCEPT !.tokens = <<New, Id("x"), EndOfLine(P("Semicolon"))>>, !.vars = {"x"}]
\* new b[] = "ab"  without a semicolon
StringB == [Plain EXCEPT !.tokens = <<New, Id("b"), P("LBracket"), P("RBracket"), P("Assign"),
                                      EndOfLine(Str(2))>>,
                         !.vars = {"b"}, !.extents = One("b", <<3>>)]
ConstC == [Plain EXCEPT !.tokens = <<Const, Id("C"), P("Assign"), N(2), P("Semicolon")>>,
                        !.vars = {"C"}, !.meanings = One("C", 2)]
ConstD == [Plain EXCEPT !.tokens = <<Const, Id("D"), P("Assign"), Id("C"), P("Semicolon")>>,
                        !.vars = {"D"}, !.alias = One("D", "C")]
\* enum E { F, G[2], H } new a[E];
EnumE == [Plain EXCEPT
  !.tokens = <<K("KwEnum", "enum"), Id("E"), P("LBrace"), Id("F"), P("Comma"), Id("G"),
               P("LBracket"), N(2), P("RBracket"), P("Comma"), Id("H"), EndOfLine(P("RBrace")),
               New, Id("a"), P("LBracket"), Id("E"), P("RBracket"), P("Semicolon")>>,
  !.meanings = [x \in {"F", "G", "H"} |-> CASE x = "F" -> 0 [] x = "G" -> 1 [] x = "H" -> 3],
  !.cells = [x \in {"F", "G", "H"} |-> IF x = "G" THEN 2 ELSE 1],
  !.extents = One("a", <<4>>),
  !.vars = {"a", "E", "F", "G", "H"}, !.misread = {"a", "E", "F", "G", "H"}]
FunctionF == [Plain EXCEPT
  !.tokens = <<Id("f"), P("LParen"), Id("p"), EndOfLine(P("RParen")), P("LBrace")>>,
  !.opens = 1, !.params = {"p"}, !.funcs = {"f"}]
\* T:g(p, q) {
TaggedG == [Plain EXCEPT
  !.tokens = <<Id("T"), P("Colon"), Id("g"), P("LParen"), Id("p"), P("Comma"), Id("q"),
               P("RParen"), P("LBrace")>>,
  !.opens = 1, !.params = {"p", "q"}, !.funcs = {"g"}]
\* main() { g(); }
Caller == [Plain EXCEPT
  !.tokens = <<Id("m"), P("LParen"), P("RParen"), P("LBrace"), Id("g"), P("LParen"),
               P("RParen"), P("Semicolon"), P("RBrace")>>,
  !.funcs = {"m", "g"}]
LocalX == [Plain EXCEPT !.tokens = <<New, Id("x"), P("Semicolon")>>, !.vars = {"x"},
                        !.where = "local"]
Block == [Plain EXCEPT !.tokens = <<P("LBrace")>>, !.opens = 1, !.where = "local"]
Close == [Plain EXCEPT !.tokens = <<P("RBrace")>>, !.closes = 1, !.where = "local",
                       !.once = FALSE]

MCStatements == <<GlobalX, StringB, ConstC, ConstD, EnumE, FunctionF, TaggedG, Caller, LocalX,
                  Block, Close>>

\* The shortest cycle, and an array of its size.
CycleC == [ConstC EXCEPT !.tokens = <<Const, Id("C"), P("Assign"), Id("C"), P("Semicolon")>>,
                         !.meanings = Nothing]
ArrayC == [Plain EXCEPT !.tokens = <<New, Id("x"), P("LBracket"), Id("C"), P("RBracket"),
                                     P("Semicolon")>>, !.vars = {"x"}, !.misread = {"x", "C"}]
CycleStatements == <<GlobalX, ConstD, CycleC, ArrayC, FunctionF, Close>>

\* const C = 2; new x[C];
SizedX == [ArrayC EXCEPT !.tokens = ConstC.tokens \o @, !.vars = {"C", "x"}]
SizedStatements == <<SizedX>>

MCNames == {"x", "b", "a", "C", "D", "E", "F", "G", "H", "f", "g", "m", "p", "q", "T", "S", "M", "R", "L",
            "new", "const", "enum"}

Asked(n) == <<P("KwDefined"), Id(n)>>
MCQuestions == <<Asked("f"), <<P("Bang")>> \o Asked("f"), Asked("g"), Asked("x"),
                 <<Id("D"), P("Eq"), N(2)>>>>

MCProbes == {Asked(n) : n \in {"x", "p", "C", "S", "M"}}
            \cup {<<Id(n), P("Minus"), N(1), P("Lt"), Id("H")>> : n \in {"D", "G"}}
            \cup {<<P("KwSizeof"), Id("b"), P("Plus"), Id("C")>>,
                  <<P("KwSizeof"), P("LParen"), Id("a"), P("RParen"), P("Eq"), N(4)>>,
                  <<P("KwSizeof"), Id("a"), P("LBracket"), Id("G"), P("RBracket")>>,
                  <<P("KwDefined"), P("LParen"), Id("f"), P("RParen"), P("AndAnd"), N(1),
                    P("Slash"), Id("D")>>,
                  <<Id("R"), P("Minus"), Id("C")>>}

\* Symbols of the command line: a number, the name of a macro, one that a
\* macro hides and one that a macro with parameters does not. No constant
\* resolved by a compiler.
MCSymbols == [n \in {"S", "R", "M", "L"} |-> CASE n = "S" -> <<P("Minus"), N(3)>>
                                             [] n = "R" -> <<Id("M")>>
                                             [] n = "M" -> <<N(7)>>
                                             [] n = "L" -> <<N(1)>>]
MCResolved == Nothing

\* #define M M + 3, #define L(%0) 5
MCMacros == [n \in {"M", "L"} |->
               CASE n = "M" -> [object |-> TRUE, body |-> <<Id("M"), P("Plus"), N(3)>>]
                 [] n = "L" -> [object |-> FALSE, body |-> <<N(5)>>]]
MCGiven == [n \in {"S", "R", "M", "L"} |-> CASE n = "S" -> -3 [] n \in {"R", "M"} -> 3
                                           [] n = "L" -> 1]

Operands == {<<N(0)>>, <<N(1)>>, <<N(7)>>, <<Id("S")>>}
Binary == {"OrOr", "AndAnd", "Pipe", "Caret", "Amp", "NotEq", "Lt", "GtEq", "Shl", "Shr",
           "Plus", "Minus", "Star", "Slash", "Percent"}
Pairs == {a \o <<P(op)>> \o b : a \in Operands, op \in Binary, b \in Operands}
Prefixed == {<<P(u)>> \o e : u \in {"Bang", "Minus", "Plus", "Tilde"}, e \in Operands \cup Pairs}
Wrapped(S) == {<<P("LParen")>> \o e \o <<P("RParen")>> : e \in S}
Triples == {e \o <<P(op)>> \o c : e \in Pairs, op \in Binary, c \in {<<N(1)>>, <<Id("S")>>}}
Wrong == {e \o <<P(k)>> : e \in Operands, k \in Binary \cup {"LParen", "RParen", "IntLiteral"}}
         \cup {<<P(k)>> \o e : e \in Operands, k \in {"Star", "LParen", "RParen", "KwDefined"}}
         \cup {<<>>, <<P("KwDefined"), P("LParen"), Id("S")>>, <<P("KwSizeof"), Id("S")>>}
Named == {<<Id(n)>> : n \in DOMAIN MCGiven}
OfNames == Named \cup {Asked(n) : n \in DOMAIN MCGiven \cup {"x"}}
           \cup {a \o <<P(op)>> \o b : a \in Named, op \in Binary, b \in Named \cup {<<N(1)>>}}
MCExpressions ==
  OfNames \cup
  Operands \cup Pairs \cup Prefixed \cup Wrapped(Pairs) \cup Triples \cup Wrong
  \cup {e \o <<P(op)>> \o f : e \in {<<N(1)>>, <<Id("S")>>}, op \in Binary,
                              f \in Wrapped({a \o <<P(o2)>> \o <<N(1)>> : a \in Operands, o2 \in Binary})}

=============================================================================
