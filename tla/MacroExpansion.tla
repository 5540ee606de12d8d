-------------------------- MODULE MacroExpansion --------------------------
(***************************************************************************)
(* Macro expansion of one logical line: emitActive and expandRun in        *)
(* preprocess/expand.go with the pattern matching of pattern.go.           *)
(*                                                                         *)
(* A text is a sequence of atoms: words and the keyword "defined", which   *)
(* lexing joins, parentheses and blanks.  A macro is its name alone or     *)
(* takes a capture between parentheses, NAME(%0); its body is a text in    *)
(* which "%0" stands for the capture.  The limit on output is in module    *)
(* Preprocess.                                                             *)
(***************************************************************************)
EXTENDS Integers, Sequences, FiniteSets, SequencesExt

CONSTANTS
    Words,               \* atoms of identifiers
    Names,               \* identifiers that may be macros: texts of words
    Macros,              \* what a name may be defined as: [pattern, body]
    NoMacro,             \* stands for a name that is not defined
    Lines,               \* bound: lines to expand
    MaxExpansionDepth

Alphanums == Words \cup {"defined"}
Atoms == Alphanums \cup {" ", "(", ")"}

\* The numbered capture stands in the bodies of patterns only.
ASSUME ExpansionAssumption ==
    /\ Names \subseteq Seq(Words)
    /\ NoMacro \notin Macros
    /\ {" ", "(", ")", "%0", "defined"} \cap Words = {}
    /\ Macros \subseteq [pattern : {FALSE}, body : Seq(Atoms)]
                    \cup [pattern : {TRUE}, body : Seq(Atoms \cup {"%0"})]
    /\ Lines \subseteq Seq(Atoms)
    /\ MaxExpansionDepth \in Nat \ {0}

VARIABLES
    table,           \* the macro table
    line,            \* the line being expanded, as text
    conditionMode,   \* the line is the condition of an #if, #elseif, #assert
    level,           \* "frame" in emitActive, "run" in expandRun
    toks,            \* tokens not yet written
    out,             \* texts of the tokens written
    truncated

vars == <<table, line, conditionMode, level, toks, out, truncated>>

---------------------------------------------------------------------------
(* Lexing. *)

NotSeen == [n \in Names |-> <<>>]

\* ptok: glued when no blank follows.
Token(text) == [text |-> text, glued |-> TRUE, hide |-> {},
                seen |-> NotSeen, depth |-> 0]

Alphanum(t) == t.text[1] \in Alphanums
Keyword(t) == t.text = <<"defined">>

\* Words without a blank between them make one token.
Joins(text, k) == k > 1 /\ {text[k - 1], text[k]} \subseteq Alphanums

\* One more atom: a blank belongs to the token before it.
Scan(s, text, k) ==
    IF text[k] = " "
    THEN IF s = <<>> THEN s ELSE [s EXCEPT ![Len(s)].glued = FALSE]
    ELSE IF Joins(text, k) THEN [s EXCEPT ![Len(s)].text = Append(@, text[k])]
    ELSE Append(s, Token(<<text[k]>>))

Lex(text) ==
    LET upto[k \in 0 .. Len(text)] ==
            IF k = 0 THEN <<>> ELSE Scan(upto[k - 1], text, k)
    IN  upto[Len(text)]

Spelling(t) == IF t.glued THEN t.text ELSE Append(t.text, " ")
Text(s) == FlattenSeq([k \in DOMAIN s |-> Spelling(s[k])])

---------------------------------------------------------------------------
(* Matching and substitution. *)

Defined(t) == t.text \in Names /\ table[t.text] # NoMacro

Count(s, a, b, text) == Cardinality({k \in a .. b : s[k].text = text})

\* matchPawnPattern: the index of the last token of an invocation of m by the
\* first token of s; groups within the capture are skipped.
Matches(s, m) ==
    IF ~m.pattern THEN {1}
    ELSE {j \in 3 .. Len(s) :
             /\ s[2].text = <<"(">>
             /\ Count(s, 2, j, <<"(">>) = Count(s, 2, j, <<")">>)
             /\ \A k \in 2 .. (j - 1) :
                   Count(s, 2, k, <<"(">>) > Count(s, 2, k, <<")">>)}

Capture(s, j) ==
    (IF s[2].glued THEN <<>> ELSE <<" ">>) \o Text(SubSeq(s, 3, j - 1))

\* substituteMacroBody
Substitute(s, j, m) ==
    FlattenSeq([k \in DOMAIN m.body |->
        IF m.body[k] = "%0" THEN Capture(s, j) ELSE <<m.body[k]>>])

\* What the first token invokes: the macro, the token where the invocation
\* ends and the text that replaces it.
Invocations(s) ==
    IF s # <<>> /\ Defined(s[1])
    THEN LET m == table[s[1].text]
         IN  {[macro |-> m, last |-> j, text |-> Substitute(s, j, m)] :
                 j \in Matches(s, m)}
    ELSE {}

\* replacementTokens: the text is lexed again, so captured tokens lose what
\* they carried; blanks behind the invocation stay behind.
Replacement(s, inv) ==
    LET items == Lex(inv.text)
    IN  IF items = <<>> THEN <<>>
        ELSE [items EXCEPT ![Len(items)].glued = @ /\ s[inv.last].glued]

Rest(s, j) == SubSeq(s, j + 1, Len(s))

---------------------------------------------------------------------------
(* emitActive: the tokens of the file, up to the first invocation. *)

Write(n) ==
    /\ out' = out \o [k \in 1 .. n |-> toks[k].text]
    /\ toks' = Rest(toks, n)

EmitToken ==
    /\ level = "frame" /\ toks # <<>>
    /\ Invocations(toks) = {}
    /\ Write(1)
    /\ UNCHANGED <<table, line, conditionMode, level, truncated>>

\* expandPatternAt and expandWithFrameRemainder: every token of the
\* replacement is barred from the macro, captured ones as well.
ExpandAt ==
    /\ level = "frame"
    /\ \E inv \in Invocations(toks) : \E items \in {Replacement(toks, inv)} :
          toks' = [k \in DOMAIN items |->
                      [items[k] EXCEPT !.hide = {toks[1].text}, !.depth = 1]]
                  \o Rest(toks, inv.last)
    /\ level' = "run"
    /\ UNCHANGED <<table, line, conditionMode, out, truncated>>

---------------------------------------------------------------------------
(* expandRun. *)

InRun == level = "run" /\ toks # <<>> /\ ~truncated

IsDefined == conditionMode /\ Keyword(toks[1])

\* In a condition, the operand of "defined" is not expanded.
SkipOperand ==
    /\ InRun /\ IsDefined
    /\ LET n == IF Len(toks) > 1 /\ toks[2].text = <<"(">> THEN 2 ELSE 1
           rest == Rest(toks, n)
       IN  /\ out' = out \o [k \in 1 .. n |-> toks[k].text]
           /\ toks' = IF rest # <<>> /\ Alphanum(rest[1]) /\ ~Keyword(rest[1])
                      THEN [rest EXCEPT ![1].hide = @ \cup {rest[1].text}]
                      ELSE rest
    /\ UNCHANGED <<table, line, conditionMode, level, truncated>>

Pastes ==
    /\ Len(toks) > 1 /\ toks[1].glued
    /\ Alphanum(toks[1]) /\ Alphanum(toks[2])

Deeper(a, b) == IF a < b THEN b ELSE a

\* pasteAdjacentAlphanum: the history of the right token is dropped.
Paste ==
    /\ InRun /\ ~IsDefined /\ Pastes
    /\ LET pasted == [toks[1] EXCEPT !.text = @ \o toks[2].text,
                                     !.glued = toks[2].glued,
                                     !.hide = @ \cup toks[2].hide,
                                     !.depth = Deeper(@, toks[2].depth)]
       IN  toks' = <<pasted>> \o Rest(toks, 2)
    /\ UNCHANGED <<table, line, conditionMode, level, out, truncated>>

\* expansionSignature: how the invocation is spelled.
Signature(s, j) == Text(SubSeq(s, 1, j))

RepeatsNever(inv) == FALSE                  \* mutant: no history
Repeats(inv) ==
    /\ inv.macro.pattern
    /\ toks[1].seen[toks[1].text] = Signature(toks, inv.last)

\* What expandRun expands: a token its hide set does not bar, unless the same
\* spelling was replaced on the way to it.
Expandable ==
    IF toks[1].text \in toks[1].hide THEN {}
    ELSE {inv \in Invocations(toks) : ~Repeats(inv)}

HideAlways(inv) == {toks[1].text}           \* mutant: patterns hide as well
NextHide(inv) == IF inv.macro.pattern THEN {} ELSE {toks[1].text}

\* extendExpansionHistory
History(inv) ==
    IF inv.macro.pattern
    THEN [toks[1].seen EXCEPT ![toks[1].text] = Signature(toks, inv.last)]
    ELSE toks[1].seen

KeepDepth == toks[1].depth                  \* mutant: depth never grows
NextDepth == toks[1].depth + 1

LateExhausted == toks[1].depth > MaxExpansionDepth  \* mutant: one more
Exhausted == NextDepth > MaxExpansionDepth

Expand ==
    /\ InRun /\ ~IsDefined /\ ~Pastes
    /\ ~Exhausted
    /\ \E inv \in Expandable : \E items \in {Replacement(toks, inv)} :
          toks' = [k \in DOMAIN items |->
                      [items[k] EXCEPT !.hide = NextHide(inv),
                                       !.seen = History(inv),
                                       !.depth = NextDepth]]
                  \o Rest(toks, inv.last)
    /\ UNCHANGED <<table, line, conditionMode, level, out, truncated>>

\* reportExpansionDepth
TooDeep ==
    /\ InRun /\ ~IsDefined /\ ~Pastes
    /\ Exhausted
    /\ Expandable # {}
    /\ truncated' = TRUE
    /\ UNCHANGED <<table, line, conditionMode, level, toks, out>>

AppendOut ==
    /\ InRun /\ ~IsDefined /\ ~Pastes
    /\ Expandable = {}
    /\ Write(1)
    /\ UNCHANGED <<table, line, conditionMode, level, truncated>>

---------------------------------------------------------------------------

\* evalCondition gives the whole condition to expandRun.
Init ==
    /\ table \in [Names -> Macros \cup {NoMacro}]
    /\ line \in Lines
    /\ conditionMode \in BOOLEAN
    /\ level = IF conditionMode THEN "run" ELSE "frame"
    /\ toks = Lex(line)
    /\ out = <<>>
    /\ truncated = FALSE

Next == EmitToken \/ ExpandAt \/ SkipOperand \/ Paste \/ Expand \/ TooDeep \/ AppendOut

Spec == Init /\ [][Next]_vars

\* One sequential loop.
FairSpec == Spec /\ WF_vars(Next)

============================================================================
