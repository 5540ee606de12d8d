------------------------------- MODULE Parser -------------------------------
(***************************************************************************)
(* The recursive descent parser of the root package: sequences of items,   *)
(* declarations, statements, calls, and above all conditional regions,     *)
(* which are parsed on trial: an #else or #endif met inside a construct    *)
(* that a branch opened aborts the trial (panic(condAbort)), the position, *)
(* the diagnostics and the nodes are put back, and the region is read as   *)
(* raw lines, as a splice or as a prefix shared by what follows it.        *)
(*                                                                         *)
(* A parser is a record; an operator of the parser takes one and returns   *)
(* one, with the node it made in node, or the items it read in items.      *)
(* abort marks a panic under way: no operator changes such a record but    *)
(* the one that recovers.  diags counts the diagnostics.                   *)
(*                                                                         *)
(* at and end are a token's offsets in the text; a directive is one token  *)
(* with its line.  ends says that a newline follows the token, line is its *)
(* line, or 0 where the tokens carry no lines (token.SyntaxToken).         *)
(*                                                                         *)
(* The grammar is cut down to what the regions interact with: names for    *)
(* operands, assignment for the operators, "new" for the qualifiers, if    *)
(* for the statements.  A directive never stands where an operand must.    *)
(***************************************************************************)
EXTENDS Integers, Sequences, FiniteSets

CONSTANTS MaxParseDepth, MaxDiagnostics,
          MacroStyle  \* the names in capitals (macroStyleName)

ASSUME ParserAssumption ==
    /\ MaxParseDepth \in Nat \ {0}
    /\ MaxDiagnostics \in Nat \ {0}

Keywords == {"if", "else", "new"}
Opening == {"{", "("}
Closing == {"}", ")"}
BranchEnds == {"#else", "#endif"}
Directives == BranchEnds \cup {"#if", "#define"}

Nil == [kind |-> "nil", from |-> 0, to |-> 0, kids |-> <<>>, err |-> FALSE]

\* AddChild, recalc: an error of a child is an error of its parent.
Tree(kind, from, to, kids, err) ==
    [kind |-> kind, from |-> from, to |-> to, kids |-> kids,
     err |-> err \/ \E i \in DOMAIN kids : kids[i].err]

NewParser(toks) ==
    [toks |-> toks, pos |-> 1, broken |-> FALSE, diags |-> 0, cond |-> 0,
     depth |-> 0, deep |-> FALSE, macros |-> {}, abort |-> FALSE, node |-> Nil,
     items |-> <<>>]

----------------------------------------------------------------------------
(* The tokens. *)

Peek(p, i) ==
    p.toks[IF p.pos + i > Len(p.toks) THEN Len(p.toks) ELSE p.pos + i]

Kind(p) == p.toks[p.pos].kind
At(p, k) == ~p.abort /\ Kind(p) = k
AtEnd(p) == Kind(p) = "eof"
AtBranchEnd(p) == Kind(p) \in BranchEnds

\* The offsets of the current token.
Offset(p) == p.toks[p.pos].at
TokenEnd(p) == p.toks[p.pos].end

Moved(p, pos) == IF p.abort THEN p ELSE [p EXCEPT !.pos = pos]
Advance(p) == Moved(p, IF p.pos < Len(p.toks) THEN p.pos + 1 ELSE p.pos)
Skip(p, kind) == IF At(p, kind) THEN Advance(p) ELSE p

Give(p, node) == IF p.abort THEN p ELSE [p EXCEPT !.node = node]
Abort(p) == [p EXCEPT !.abort = TRUE, !.node = Nil]
Break(p) == IF p.abort THEN p ELSE [p EXCEPT !.broken = TRUE]
Emit(p) ==
    IF p.abort \/ p.diags >= MaxDiagnostics THEN p ELSE [p EXCEPT !.diags = @ + 1]

\* tokenAtOffset, for the offset of a token.
TokenAt(p, offset) ==
    LET here == {i \in DOMAIN p.toks : p.toks[i].at = offset}
    IN  p.toks[CHOOSE i \in here : \A j \in here : i <= j]

Leaf(p, kind) == Give(Advance(p), Tree(kind, Offset(p), TokenEnd(p), <<>>, FALSE))

PreviousEndsLine(p) ==
    \/ p.toks[p.pos - 1].ends
    \/ p.toks[p.pos - 1].line < p.toks[p.pos].line

\* The first position from pos on behind which a line ends.
AfterLine(p, pos) ==
    CHOOSE i \in (pos + 1) .. Len(p.toks) :
        /\ i = Len(p.toks) \/ p.toks[i - 1].ends
        /\ \A j \in (pos + 1) .. (i - 1) : ~p.toks[j - 1].ends

Expect(p, kind) ==
    IF p.abort \/ Kind(p) = kind THEN Skip(p, kind) ELSE Emit(p)

----------------------------------------------------------------------------
(* Lookahead: the parser is left as it was. *)

IsFunctionName(kind) == kind = "id" \/ kind \in Keywords

\* peekIsFunctionDecl, i tokens ahead.
FunctionAt(p, i) == IsFunctionName(Peek(p, i).kind) /\ Peek(p, i + 1).kind = "("

\* Mutant: the function may come behind anything.
MacroQualifierOfAny(p, i) ==
    /\ Peek(p, i).kind = "id"
    /\ \E k \in (i + 1) .. Len(p.toks) : FunctionAt(p, k)

\* Identifiers, with a run of qualifiers behind the first, before a function.
MacroQualifier(p, i) ==
    /\ Peek(p, i).kind = "id"
    /\ \E first, k \in (i + 1) .. Len(p.toks) :
          /\ first <= k
          /\ \A j \in (i + 1) .. (first - 1) : Peek(p, j).kind = "new"
          /\ Peek(p, first).kind # "new"
          /\ \A j \in first .. (k - 1) : Peek(p, j).kind = "id"
          /\ FunctionAt(p, k)

\* The number of tokens collectQualifiers takes.
Qualifiers(p) ==
    CHOOSE n \in 0 .. (Len(p.toks) - p.pos) :
        /\ \A i \in 0 .. (n - 1) : Peek(p, i).kind = "new" \/ MacroQualifier(p, i)
        /\ ~(Peek(p, n).kind = "new" \/ MacroQualifier(p, n))

Nesting(p, i, open, close) ==
    LET upTo == (p.pos + 1) .. (p.pos + i)
    IN  Cardinality({j \in upTo : p.toks[j].kind = open})
            - Cardinality({j \in upTo : p.toks[j].kind = close})

\* How far ahead the parenthesis closes that opens behind the token; 0: never.
ClosesAt(p) ==
    LET closing == {i \in 1 .. (Len(p.toks) - p.pos) :
                       /\ Peek(p, i).kind = ")" /\ Nesting(p, i, "(", ")") = 0
                       /\ \E j \in 1 .. i : Peek(p, j).kind = "("}
    IN  IF closing = {} THEN 0 ELSE CHOOSE i \in closing : \A j \in closing : i <= j

\* macroFunctionDefinitionStart: the header must open on this line, or on any
\* line when the tokens carry no lines.
MacroFunction(p) ==
    /\ MacroQualifier(p, 0)
    /\ ClosesAt(p) # 0
    /\ Peek(p, ClosesAt(p) + 1).kind = "{"
    /\ \A i \in 1 .. ClosesAt(p) : Peek(p, i).kind # ";"
    /\ LET opens == CHOOSE i \in 1 .. ClosesAt(p) :
                       /\ Peek(p, i).kind = "("
                       /\ \A j \in 1 .. (i - 1) : Peek(p, j).kind # "("
       IN  \A i \in 1 .. opens : Peek(p, i).line = Peek(p, 0).line

\* isMacroInvocationBlockStart
MacroBlock(p) ==
    /\ Kind(p) = "id" /\ Peek(p, 1).kind = "("
    /\ ClosesAt(p) # 0
    /\ Peek(p, ClosesAt(p) + 1).kind \in {"{", "if"}

----------------------------------------------------------------------------
(* Item grammars (itemGrammar) *)

Grammar(mode, stop, commas, keep) ==
    [mode |-> mode, stop |-> stop, commas |-> commas, keepSemicolon |-> keep]

Declarations == Grammar("declaration", "none", FALSE, FALSE)
Statements == Grammar("statement", "}", FALSE, FALSE)
Parameters == Grammar("parameter", ")", TRUE, FALSE)
Declarators == Grammar("declarator", ";", TRUE, TRUE)
Arguments == Grammar("argument", ")", TRUE, FALSE)
Elements == Grammar("element", "}", TRUE, FALSE)

\* updateRecoveryLiveness, and the same in rawConditionalRegion: one flag per
\* open #if, cleared by its first #else.
Liveness(live, kind) ==
    CASE kind = "#if" -> Append(live, TRUE)
      [] kind = "#else" /\ live # <<>> -> [live EXCEPT ![Len(live)] = FALSE]
      [] kind = "#endif" /\ live # <<>> -> SubSeq(live, 1, Len(live) - 1)
      [] OTHER -> live

AllLive(live) == \A i \in DOMAIN live : live[i]

Depth(kind) == IF kind \in Opening THEN 1 ELSE IF kind \in Closing THEN -1 ELSE 0

\* makeRecoveryNode: the tokens from start to end are skipped.
Recovered(p, start, end) ==
    Emit(Give(p, Tree("raw", p.toks[start].at, p.toks[end].end, <<>>, TRUE)))

StuckBoundary(p, start) ==
    IF p.pos = start THEN Recovered(Break(Advance(p)), start, start)
    ELSE Recovered(p, start, p.pos - 1)

RECURSIVE RecoverFrom(_, _, _, _, _)
RecoverFrom(p, g, start, depth, before) ==
    LET kind == Kind(p)
        live == Liveness(before, kind)
        counting == AllLive(live)
    IN  CASE AtEnd(p) ->
               IF p.pos = start THEN Give(Emit(Break(p)), Nil)
               ELSE Recovered(p, start, Len(p.toks))
          [] kind \in Opening ->
               RecoverFrom(Advance(p), g, start, IF counting THEN depth + 1 ELSE depth, live)
          [] kind = ";" /\ depth = 0 /\ ~g.keepSemicolon ->
               Recovered(Advance(p), start, p.pos)
          [] kind \in Closing /\ depth > 0 ->
               RecoverFrom(Advance(p), g, start, IF counting THEN depth - 1 ELSE depth, live)
          [] depth = 0 /\ kind \in Closing \cup Directives \cup {";"} ->
               StuckBoundary(p, start)
          [] OTHER -> RecoverFrom(Advance(p), g, start, depth, live)

RecoverStuckItem(p, g) == RecoverFrom(p, g, p.pos, 0, <<>>)

RECURSIVE ItemSequence(_, _, _, _), Statement(_), Assignment(_),
          ConditionalRegion(_, _), FunctionBody(_)

Items(p, g) == ItemSequence(p, g, FALSE, <<>>)

----------------------------------------------------------------------------
(* Expressions: assignments of names, calls and parentheses. *)

\* enterDepth: the first construct nested too deep is reported.
Enter(p) ==
    LET q == [p EXCEPT !.depth = @ + 1]
    IN  IF p.abort \/ q.depth <= MaxParseDepth \/ p.deep THEN q
        ELSE [Emit(q) EXCEPT !.deep = TRUE]

TooDeep(p) == p.depth > MaxParseDepth

\* A list ends behind its closing token, or where its last member ends.
EndOf(p, close, kids) ==
    IF At(p, close) THEN TokenEnd(p) ELSE IF kids = <<>> THEN 0 ELSE kids[Len(kids)].to

\* parseExpression: assignments between commas.
RECURSIVE Expression(_)
Expression(p) ==
    LET first == Assignment(p)
        rest == Expression(Advance(first))
        others == IF rest.node.kind = "list" THEN rest.node.kids ELSE <<rest.node>>
    IN  IF At(first, ",")
        THEN Give(rest, Tree("list", first.node.from, rest.node.to,
                             <<first.node>> \o others, FALSE))
        ELSE first

Parenthesized(p) ==
    LET inner == Expression(Advance(p))
        q == Expect(inner, ")")
    IN  Give(q, Tree("parens", Offset(p), EndOf(inner, ")", <<inner.node>>), <<inner.node>>,
                     ~At(inner, ")")))

\* parseBracketedList
ArrayLiteral(p) ==
    LET q == Items(Advance(p), Elements)
    IN  Give(Expect(q, "}"), Tree("array", Offset(p), EndOf(q, "}", q.items), q.items,
                                  ~At(q, "}")))

Primary(p) ==
    CASE Kind(p) \in Keywords /\ Peek(p, 1).kind = "(" -> Leaf(p, "id")
      [] Kind(p) = "id" -> Leaf(p, "id")
      [] Kind(p) = "(" -> Parenthesized(p)
      [] Kind(p) = "{" -> ArrayLiteral(p)
      [] Kind(p) \in {"eof", ")", "}", ",", ";"} ->
             Give(Emit(p), Tree("literal", Offset(p), Offset(p), <<>>, TRUE))
      [] OTHER ->
             LET q == Leaf(p, "literal")
             IN  Give(IF Kind(p) \in Directives THEN q ELSE Emit(q),
                      [q.node EXCEPT !.err = TRUE])

\* argumentEnd: the comma or parenthesis that ends the argument.
ArgumentEnd(p) ==
    LET level(i, open, close) ==
            Cardinality({j \in p.pos .. (i - 1) : p.toks[j].kind = open})
                - Cardinality({j \in p.pos .. (i - 1) : p.toks[j].kind = close})
        ends == {i \in p.pos .. Len(p.toks) :
                    /\ p.toks[i].kind \in {",", ")", "eof"}
                    /\ level(i, "(", ")") = 0 /\ level(i, "{", "}") = 0}
    IN  IF ends = {} THEN Len(p.toks) ELSE CHOOSE i \in ends : \A j \in ends : i <= j

\* One argument; what does not parse up to its end is kept as it is written.
Argument(p) ==
    LET q == Assignment(p)
        end == ArgumentEnd(p)
        last == p.toks[IF end = p.pos THEN end ELSE end - 1].end
        back == [q EXCEPT !.pos = end, !.broken = p.broken, !.diags = p.diags]
    IN  IF ~q.abort /\ (q.node.err \/ q.broken \/ q.pos # end)
        THEN Give(back, Tree("macro body", Offset(p), last, <<>>, FALSE))
        ELSE q

RECURSIVE ArgumentsFrom(_, _)
ArgumentsFrom(p, args) ==
    IF p.abort \/ AtEnd(p) \/ Kind(p) = ")" THEN [p EXCEPT !.items = args]
    ELSE IF Kind(p) = "#if"
    THEN LET q == ConditionalRegion(p, Arguments)
         IN  ArgumentsFrom(q, Append(args, q.node))
    ELSE LET q == Argument(p)
         IN  ArgumentsFrom(Skip(q, ","), Append(args, q.node))

Call(p) ==
    LET q == ArgumentsFrom(Advance(p), <<>>)
        r == Expect(q, ")")
        args == Tree("arguments", Offset(p), EndOf(q, ")", q.items), q.items, ~At(q, ")"))
    IN  Give(r, Tree("call", p.node.from, args.to, <<p.node, args>>, FALSE))

CellSelection(p) ==
    LET index == Expression(Advance(p))
        q == Expect(index, "}")
    IN  Give(q, Tree("subscript", p.node.from, EndOf(index, "}", <<index.node>>),
                     <<p.node, index.node>>, ~At(index, "}")))

RECURSIVE Postfix(_)
Postfix(p) ==
    CASE At(p, "(") -> Postfix(Call(p))
      [] At(p, "{") /\ ~PreviousEndsLine(p) -> Postfix(CellSelection(p))
      [] At(p, "id") /\ ~PreviousEndsLine(p) ->
             Postfix(Give(Advance(p), Tree("unary", p.node.from, TokenEnd(p), <<p.node>>, FALSE)))
      [] OTHER -> p

\* Two names on a line are an operator and its operand.
RECURSIVE Unary(_)
Unary(p) ==
    LET q == Enter(p)
        macroOperator ==
            /\ Kind(p) = "id" /\ Peek(p, 1).kind = "id"
            /\ ~p.toks[p.pos].ends /\ p.toks[p.pos].line >= Peek(p, 1).line
        operand == Unary(Advance(q))
        made == IF TooDeep(q)
                THEN Give(Break(q), Tree("literal", Offset(p), TokenEnd(p), <<>>, TRUE))
                ELSE IF macroOperator
                THEN Give(operand, Tree("unary", Offset(p), operand.node.to,
                                        <<operand.node>>, FALSE))
                ELSE Postfix(Primary(q))
    IN  IF p.abort THEN p ELSE [made EXCEPT !.depth = p.depth]

Assignment(p) ==
    LET left == Unary(p)
        right == Assignment(Advance(left))
    IN  IF At(left, "=")
        THEN Give(right, Tree("assignment", left.node.from, right.node.to,
                              <<left.node, right.node>>, FALSE))
        ELSE left

----------------------------------------------------------------------------
(* Declarations *)

DeclaratorNamed(p) ==
    LET q == Advance(p)
        init == Assignment(Advance(q))
        name == Tree("id", Offset(p), TokenEnd(p), <<>>, FALSE)
    IN  IF At(q, "=")
        THEN Give(init, Tree("declarator", Offset(p), init.node.to, <<name, init.node>>, FALSE))
        ELSE Give(q, Tree("declarator", Offset(p), TokenEnd(p), <<name>>, FALSE))

Declarator(p) ==
    IF IsFunctionName(Kind(p)) THEN DeclaratorNamed(p)
    ELSE Give(Emit(p), Tree("declarator", Offset(p), 0, <<>>, TRUE))

\* A parameter without a name takes the token in its place.
Parameter(p) ==
    IF IsFunctionName(Kind(p)) THEN [DeclaratorNamed(p) EXCEPT !.node.kind = "parameter"]
    ELSE LET q == IF AtEnd(p) \/ Kind(p) \in {",", ")"} THEN p ELSE Advance(p)
         IN  Give(Emit(q), Tree("parameter", Offset(p), IF q.pos = p.pos THEN 0 ELSE TokenEnd(p),
                                <<>>, TRUE))

Leaves(p, n) ==
    [i \in 1 .. n |-> Leaf(Moved(p, p.pos + i - 1), "id").node]

\* n qualifiers are read already: they begin at the parser's position.
VariableDeclaration(p, n) ==
    LET list == Items(Moved(p, p.pos + n), Declarators)
        q == Skip(list, ";")
        kids == Leaves(p, n) \o list.items
    IN  Give(q, Tree("variable", Offset(p), EndOf(list, ";", kids), kids, ~At(list, ";")))

Block(p) ==
    LET q == Items(Advance(p), Statements)
        r == Expect(q, "}")
        end == IF At(q, "}") THEN TokenEnd(q) ELSE Offset(q)
    IN  Give(r, Tree("block", Offset(p), end, q.items, ~At(q, "}")))

StartsBody(p) == ~p.abort /\ Kind(p) \notin BranchEnds \cup {"eof", ";", "="}

\* A function with its n qualifiers; without a body it is a declaration.
FunctionLike(p, n) ==
    LET name == Moved(p, p.pos + n)
        list == Items(Advance(Advance(name)), Parameters)
        params == Expect(list, ")")
        paramNode == Tree("parameters", Offset(Advance(name)), EndOf(list, ")", list.items),
                          list.items, ~At(list, ")"))
        aliased == At(params, "=")
        alias == Assignment(Advance(params))
        rest == IF aliased THEN alias ELSE params
        kids == Leaves(p, n + 1) \o <<paramNode>> \o IF aliased THEN <<alias.node>> ELSE <<>>
        body == FunctionBody(params)
        q == Skip(rest, ";")
    IN  IF StartsBody(params)
        THEN Give(body, Tree("function", Offset(p), body.node.to,
                             Append(kids, body.node), FALSE))
        ELSE Give(q, Tree(IF aliased THEN "alias" ELSE "declaration", Offset(p),
                          EndOf(rest, ";", kids), kids, ~At(rest, ";")))

Declaration(p) ==
    LET n == Qualifiers(p)
        q == Moved(p, p.pos + n)
    IN  IF FunctionAt(p, n) THEN FunctionLike(p, n)
        ELSE IF Kind(q) = "id" \/ (n > 0 /\ Kind(q) = "#if")
        THEN VariableDeclaration(p, n)
        ELSE Give(q, Tree("raw", Offset(p), Offset(q), Leaves(p, n), TRUE))

----------------------------------------------------------------------------
(* Statements *)

\* statementEndsWithKnownMacro
EndsWithMacro(p, expr) ==
    LET callee == IF expr.kind = "call" THEN expr.kids[1] ELSE expr
        name == TokenAt(p, callee.from).name
    IN  callee.kind = "id" /\ (name \in p.macros \/ name \in MacroStyle)

ExpressionStatement(p) ==
    LET expr == Expression(p)
        q == Skip(expr, ";")
        complete == At(expr, ";") \/ At(expr, "}")
                        \/ (EndsWithMacro(expr, expr.node) /\ PreviousEndsLine(expr))
    IN  Give(q, Tree("expression", expr.node.from, EndOf(expr, ";", <<expr.node>>),
                     <<expr.node>>, ~complete))

ParenCondition(p) ==
    IF At(p, "(") THEN Parenthesized(p) ELSE Give(Emit(p), Tree("parens", 0, 0, <<>>, TRUE))

IfStatement(p) ==
    LET condition == ParenCondition(Advance(p))
        consequence == Statement(condition)
        alternative == Statement(Advance(consequence))
        q == IF At(consequence, "else") THEN alternative ELSE consequence
        kids == <<condition.node, consequence.node>>
                    \o IF At(consequence, "else") THEN <<alternative.node>> ELSE <<>>
    IN  Give(q, Tree("if", Offset(p), q.node.to, kids, FALSE))

MacroInvocationBlock(p) ==
    LET call == Call(Leaf(p, "id"))
        body == Statement(call)
    IN  Give(body, Tree("macro block", Offset(p), body.node.to,
                        Append(call.node.kids, body.node), FALSE))

\* parseSingleDirective: a definition is remembered for the rest of the file.
Directive(p) ==
    LET define == Leaf(p, "define")
    IN  IF At(p, "#define") THEN [define EXCEPT !.macros = @ \cup {p.toks[p.pos].name}]
        ELSE Leaf(p, "directive")

StatementOf(p) ==
    CASE Kind(p) = "else" /\ Peek(p, 1).kind = "(" -> ExpressionStatement(p)
      [] Kind(p) = "{" -> Block(p)
      [] Kind(p) = "if" -> IfStatement(p)
      [] Kind(p) = "new" -> VariableDeclaration(p, Qualifiers(p))
      [] Kind(p) = ";" -> Leaf(p, "empty")
      [] AtBranchEnd(p) -> Give(p, Tree("empty", Offset(p), Offset(p), <<>>, FALSE))
      [] Kind(p) \in Directives \ BranchEnds -> Directive(p)
      [] MacroFunction(p) -> FunctionLike(p, Qualifiers(p))
      [] MacroBlock(p) /\ ~MacroFunction(p) -> MacroInvocationBlock(p)
      [] OTHER -> ExpressionStatement(p)

Statement(p) ==
    LET q == Enter(p)
        made == IF TooDeep(q) THEN Give(Break(q), Tree("empty", Offset(p), Offset(p), <<>>, TRUE))
                ELSE StatementOf(q)
    IN  IF p.abort THEN p ELSE [made EXCEPT !.depth = p.depth]

----------------------------------------------------------------------------
(* Conditional regions *)

\* conditionalFunctionHeaders: nothing but function headers and directives.
RECURSIVE OnlyHeaders(_), Headers(_)
OnlyHeaders(n) ==
    CASE n.kind \in {"region", "branch"} ->
             \A i \in DOMAIN n.kids :
                 n.kids[i].kind # "alternative" => OnlyHeaders(n.kids[i])
      [] OTHER -> n.kind \in {"directive", "declaration"}

Headers(n) ==
    IF n.kind \in {"region", "branch"} THEN \E i \in DOMAIN n.kids : Headers(n.kids[i])
    ELSE n.kind = "declaration"

FunctionHeaders(region) == OnlyHeaders(region) /\ Headers(region)

\* The headers lack their semicolons: that is no error any more.
RECURSIVE Cleared(_)
Cleared(n) ==
    IF n.kind \in {"region", "branch"}
    THEN [n EXCEPT !.err = FALSE, !.kids = [i \in DOMAIN @ |-> Cleared(@[i])]]
    ELSE [n EXCEPT !.err = FALSE]

\* conditionalNeedsSharedFallback: a branch leaves a construct open.
LeftOpen(p, n) ==
    \/ n.kind = "if" /\ n.kids[2].kind = "empty" /\ n.kids[2].from = n.kids[2].to
    \/ n.kind \in {"if", "declaration", "alias"} /\ n.err
    \/ n.kind = "expression" /\ n.err /\ TokenAt(p, n.from).kind = "else"

NeedsSharedFallback(p, region) ==
    \E b \in DOMAIN region : \E i \in 2 .. Len(region[b].kids) : LeftOpen(p, region[b].kids[i])

Single == Grammar("single", "none", FALSE, FALSE)

BranchItems(p, g) ==
    LET one == Statement(p)
    IN  IF g.mode = "single" THEN [one EXCEPT !.items = <<one.node>>]
        ELSE ItemSequence(p, g, TRUE, <<>>)

\* The branches up to #endif in items; none when there is no such end.
RECURSIVE Branches(_, _, _)
Branches(p, g, done) ==
    LET directive == Leaf(p, "directive")
        branch(kids) == Tree("branch", Offset(p), kids[Len(kids)].to, kids, FALSE)
        q == BranchItems(directive, g)
    IN  CASE p.abort -> p
          [] Kind(p) = "#endif" ->
               [directive EXCEPT !.items = Append(done, branch(<<directive.node>>))]
          [] Kind(p) \in {"#if", "#else"} ->
               Branches(q, g, Append(done, branch(<<directive.node>> \o q.items)))
          [] OTHER -> [p EXCEPT !.items = <<>>]

\* tryParseConditionalRegion and trySingleStatementConditional.  The region takes
\* a branch when that holds its directive only: an error of an item marks the
\* branch, and neither the region nor what is above it.
TryConditional(p, g) ==
    LET q == Branches([p EXCEPT !.cond = @ + 1], g, <<>>)
        region == [Tree("region", Offset(p), q.items[Len(q.items)].to, q.items, FALSE)
                      EXCEPT !.err = \E b \in DOMAIN q.items : q.items[b].kids[1].err]
        open == g.mode # "single" /\ NeedsSharedFallback(q, q.items)
        node == CASE q.abort \/ q.items = <<>> -> Nil
                  [] open -> IF FunctionHeaders(region) THEN Cleared(region) ELSE Nil
                  [] OTHER -> region
    IN  IF g.mode # "single" /\ p.cond >= MaxParseDepth THEN [p EXCEPT !.node = Nil]
        ELSE [q EXCEPT !.cond = p.cond, !.depth = p.depth, !.abort = FALSE, !.node = node]

\* conditionalRegionExtent: where the region ends, and the braces it leaves
\* open; 0 when it does not end.
RegionEnd(p, start) ==
    LET level(i) == Cardinality({j \in start .. i : p.toks[j].kind = "#if"})
                        - Cardinality({j \in start .. i : p.toks[j].kind = "#endif"})
        ends == {i \in start .. Len(p.toks) : p.toks[i].kind = "#endif" /\ level(i) = 0}
    IN  IF ends = {} THEN 0 ELSE CHOOSE i \in ends : \A j \in ends : i <= j

Braces(p, from, to) ==
    Cardinality({i \in from .. to : p.toks[i].kind = "{"})
        - Cardinality({i \in from .. to : p.toks[i].kind = "}"})

RECURSIVE ClosingSplice(_, _, _)
ClosingSplice(p, pos, depth) ==
    LET kind == p.toks[pos].kind
        end == RegionEnd(p, pos)
    IN  CASE kind = "eof" \/ (kind = "}" /\ depth = 0) -> FALSE
          [] kind = "#if" /\ end = 0 -> FALSE
          [] kind = "#if" /\ depth = 0 /\ Braces(p, pos, end) < 0 -> TRUE
          [] kind = "#if" -> ClosingSplice(p, end + 1, depth)
          [] kind = "{" -> ClosingSplice(p, pos + 1, depth + 1)
          [] kind = "}" -> ClosingSplice(p, pos + 1, depth - 1)
          [] OTHER -> ClosingSplice(p, pos + 1, depth)

\* isConditionalSplice: the region opens blocks that a later region closes, or
\* closes some.
IsSplice(p) ==
    LET end == RegionEnd(p, p.pos)
    IN  /\ end # 0
        /\ \/ Braces(p, p.pos, end) < 0
           \/ Braces(p, p.pos, end) > 0 /\ ClosingSplice(p, end + 1, 0)

ConsumeSplice(p) ==
    LET end == RegionEnd(p, p.pos)
    IN  Give(Moved(p, end + 1), Tree("splice", Offset(p), p.toks[end].end, <<>>, FALSE))

\* parseSharedConditionalAlternative
SharedConditional(p, prefix, body) ==
    LET alternative == Statement(Advance(p))
        kids == <<prefix, body>>
    IN  IF At(p, "else")
        THEN Give(alternative, Tree("shared", prefix.from, alternative.node.to,
                                    Append(kids, alternative.node), FALSE))
        ELSE Give(p, Tree("shared", prefix.from, body.to, kids, FALSE))

\* What follows #endif is the block the branches share, or the rest of one.
FinishShared(p, start, last, depth) ==
    LET prefix == Tree("prefix", start, last, <<>>, FALSE)
        block == Block(p)
        rest == Items(p, Statements)
        body == Tree("block", last, TokenEnd(rest), rest.items, FALSE)
    IN  CASE depth = 0 /\ At(p, "{") -> SharedConditional(block, prefix, block.node)
          [] depth = 1 /\ ~AtEnd(p) ->
               IF At(rest, "}") THEN SharedConditional(Advance(rest), prefix, body)
               ELSE Give(rest, Nil)
          [] OTHER -> Give(p, Nil)

RECURSIVE LineDepth(_, _, _)
LineDepth(p, from, to) ==
    IF from > to THEN 0 ELSE Depth(p.toks[from].kind) + LineDepth(p, from + 1, to)

\* rawConditionalRegion, line by line.
RECURSIVE RawLines(_, _, _, _, _, _)
RawLines(p, start, last, before, depthBefore, wasPast) ==
    LET kind == Kind(p)
        live == Liveness(before, kind)
        past == IF kind = "#if" THEN FALSE
                ELSE wasPast \/ (kind = "#endif" /\ live = <<>>)
        next == AfterLine(p, p.pos)
        depth == IF AllLive(live) THEN depthBefore + LineDepth(p, p.pos, next - 1)
                 ELSE depthBefore
        line == Moved(p, next)
        end == p.toks[next - 1].end
        finished == FinishShared(line, start, end, depth)
        raw(q, to) == Give(q, Tree("shared", start, to, <<>>, FALSE))
    IN  CASE p.abort -> p
          [] AtEnd(p) -> raw(p, last)
          [] ~past -> RawLines(line, start, end, live, depth, past)
          [] finished.abort \/ finished.node # Nil -> finished
          [] depth <= 0 -> raw(finished, end)
          [] OTHER -> RawLines(finished, start, end, live, depth, past)

RawRegion(p) == RawLines(p, Offset(p), Offset(p), <<>>, 0, FALSE)

\* Mutant: the trial's position is kept.
ConditionalRegionWithoutReturn(p, g) ==
    LET tried == TryConditional(p, g)
        back == [tried EXCEPT !.broken = p.broken, !.diags = p.diags]
    IN  IF tried.node # Nil THEN tried
        ELSE IF IsSplice(back) THEN ConsumeSplice(back) ELSE RawRegion(back)

\* Mutant: the trial's diagnostics are kept.
ConditionalRegionKeepingDiagnostics(p, g) ==
    LET tried == TryConditional(p, g)
        back == [tried EXCEPT !.pos = p.pos, !.broken = p.broken]
    IN  IF tried.node # Nil THEN tried
        ELSE IF IsSplice(back) THEN ConsumeSplice(back) ELSE RawRegion(back)

ConditionalRegion(p, g) ==
    LET tried == TryConditional(p, g)
        back == [tried EXCEPT !.pos = p.pos, !.broken = p.broken,
                              !.diags = p.diags]
    IN  IF tried.node # Nil THEN tried
        ELSE IF IsSplice(back) THEN ConsumeSplice(back) ELSE RawRegion(back)

\* The trial of a body takes back neither the diagnostics nor broken.
UnbracedFunctionBody(p) ==
    LET tried == TryConditional(p, Single)
    IN  IF tried.node # Nil THEN tried ELSE RawRegion([tried EXCEPT !.pos = p.pos])

FunctionBody(p) ==
    IF At(p, "{") THEN Block(p)
    ELSE IF At(p, "#if") THEN UnbracedFunctionBody(p)
    ELSE Statement(p)

----------------------------------------------------------------------------
(* Sequences of items *)

GrammarItem(p, g) ==
    LET q == CASE g.mode = "declaration" -> Declaration(p)
               [] g.mode = "statement" -> Statement(p)
               [] g.mode = "parameter" -> Parameter(p)
               [] g.mode = "declarator" -> Declarator(p)
               [] g.mode \in {"argument", "element"} -> Assignment(p)
    IN  IF g.commas THEN Skip(q, ",") ELSE q

Item(p, g) ==
    IF Kind(p) = "#if" THEN ConditionalRegion(p, g)
    ELSE IF Kind(p) \in Directives THEN Directive(p)
    ELSE GrammarItem(p, g)

\* attachConditionalContinuation: an #else-if between an if and its else.
Continues(items, p) ==
    /\ items # <<>> /\ p.node.kind = "shared" /\ At(p, "else")
    /\ items[Len(items)].kind = "if" /\ Len(items[Len(items)].kids) = 2

WithContinuation(items, p, alternative) ==
    LET before == items[Len(items)]
        node == Tree("if", before.from, alternative.to,
                     before.kids \o <<p.node, alternative>>, before.err)
    IN  [items EXCEPT ![Len(items)] = node]

\* Mutant: the region ends where its #endif does.
WithAlternativeOutside(p) ==
    LET q == Statement(Advance(p))
        alternative == Tree("alternative", q.node.from, q.node.to, <<q.node>>, FALSE)
    IN  IF p.node.kind = "region" /\ At(p, "else")
        THEN Give(q, [p.node EXCEPT !.kids = Append(@, alternative)])
        ELSE p

\* attachSharedAlternative: an else behind a region belongs to its branches.
WithAlternative(p) ==
    LET q == Statement(Advance(p))
        alternative == Tree("alternative", q.node.from, q.node.to, <<q.node>>, FALSE)
    IN  IF p.node.kind = "region" /\ At(p, "else")
        THEN Give(q, [p.node EXCEPT !.to = q.node.to, !.kids = Append(@, alternative)])
        ELSE p

\* A block behind function headers is their common body.
WithBody(p) ==
    LET q == Block(p)
    IN  IF p.node.kind = "region" /\ At(p, "{") /\ FunctionHeaders(p.node)
        THEN Give(q, Tree("conditional function", p.node.from, q.node.to,
                          <<Cleared(p.node), q.node>>, FALSE))
        ELSE p

ItemSequence(p, g, branchTop, items) ==
    LET q == Item(p, g)
        recovered == RecoverStuckItem(q, g)
        alternative == Statement(Advance(q))
        made == WithBody(WithAlternative(q))
        Read(r) == [r EXCEPT !.items = items]
        More(r, all) == ItemSequence(r, g, branchTop, all)
    IN  CASE p.abort -> p
          [] AtEnd(p) -> Read(p)
          [] AtBranchEnd(p) ->
               IF branchTop \/ p.cond = 0 THEN Read(p) ELSE Abort(p)
          [] Kind(p) = g.stop -> Read(p)
          [] q.abort -> q
          [] q.pos = p.pos ->
               More(recovered, IF recovered.node = Nil THEN items
                               ELSE Append(items, recovered.node))
          [] Continues(items, q) ->
               IF alternative.abort THEN alternative
               ELSE More(alternative, WithContinuation(items, q, alternative.node))
          [] made.abort -> made
          [] OTHER -> More(made, Append(items, made.node))

\* parseTokens and parseSourceFile
SourceFile(toks) ==
    LET p == Items(NewParser(toks), Declarations)
    IN  Give(p, Tree("file", 0, toks[Len(toks)].end, p.items, FALSE))

HasParseErrors(p) == p.broken \/ p.node.err \/ p.diags > 0

\* What a caller sees: the tree, and whether and where it has errors.
ParseTokens(toks) ==
    LET p == SourceFile(toks)
    IN  [root |-> p.node, errors |-> HasParseErrors(p), broken |-> p.broken,
         diags |-> p.diags]

=============================================================================
