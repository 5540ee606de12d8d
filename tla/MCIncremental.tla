----------------------------- MODULE MCIncremental -----------------------------
(***************************************************************************)
(* IncrementalProps for TLC.                                               *)
(***************************************************************************)
EXTENDS IncrementalProps

Token(kind) == [kind |-> kind, name |-> ""]
Id(name) == [kind |-> "id", name |-> name]

Newline == Token("nl")
Line(symbols) == Append(symbols, Newline)

F == Id("F")
x == Id("x")
Condition == <<Token("if"), Token("("), x, Token(")")>>
Header == <<F, Token("("), Token(")")>>
Open == Token("{")
Close == Token("}")
End == Token(";")

If == Line(<<Token("#if")>>)
Else == Line(<<Token("#else")>>)
Endif == Line(<<Token("#endif")>>)
Function == Line(Append(Header, Open))
Prototype == Line(Header)
Block1 == Line(Append(Condition, Open))
Statement1 == Line(<<x, End>>)

MCLines ==
    {If, Else, Endif, Function, Prototype, Block1, Statement1, Line(<<Close>>),
     Line(<<Token("else")>>)}

\* An if that two branches open, functions they open, headers with one body,
\* an else that a region shares; and, in a branch, a body and a function that
\* lack a semicolon.
MCBeginnings ==
    {<<>>,
     Function \o If \o Block1 \o Else,
     If \o Function \o Else \o Function \o Endif,
     If \o Prototype \o Else \o Prototype \o Endif,
     Function \o If \o Line(Condition \o <<x, End>>) \o Endif \o Line(<<Token("else"), Token("sp"), x>>),
     Prototype \o Line(<<x, Token("sp"), x, End>>),
     Function \o If \o Line(<<x>>) \o Endif,
     If \o Line(Append(Header, x)) \o Endif \o <<Token("new"), Token("sp"), x, End>>}

MCReplacements ==
    {<<>>, <<Token("sp")>>, <<Newline>>, <<Token("cm")>>, <<Token(","), x>>, <<x, Newline>>}

=============================================================================
