------------------------------- MODULE Reuse -------------------------------
(***************************************************************************)
(* preprocess/reuse.go: when a file changes, the result of preprocessing   *)
(* its previous text is kept, its spans shifted, if the edit is judged     *)
(* safe; else the file is preprocessed again.                              *)
(*                                                                         *)
(* A text is a sequence of pieces and an offset counts pieces.  A piece is *)
(* one character, or the text of a directive's keyword with its blank, or  *)
(* a comment delimiter, or a backslash with its newline.  Run stands for   *)
(* the engine: it reads #define, #if defined and #endif; any other live    *)
(* identifier invokes the macro of its name or declares its name.          *)
(***************************************************************************)
EXTENDS Edits, SequencesExt

CONSTANTS
    Pieces,      \* bound: the pieces texts are made of
    Documents,   \* bound: the texts the caller may hold
    MaxEdit      \* bound: pieces an edit removes, and pieces it inserts

Letters == {"x", "y", "m"}
Hashes == {"#define ", "#if ", "#endif "}
Continuation == "\\n"
Newlines == {"\n", Continuation}
Blanks == {" ", "\t"}
AllPieces == Letters \cup Hashes \cup Newlines \cup Blanks \cup {"/*", "*/"}

ASSUME ReuseAssumption ==
    /\ Pieces \subseteq AllPieces
    /\ \A s \in Documents : s \in Seq(Pieces)
    /\ MaxEdit \in Nat

VARIABLES
    result,   \* the Result the caller holds
    how       \* how it got it: "run", "trivia" or "compatible"

vars == <<result, how>>

Texts(n) == UNION {[1 .. k -> Pieces] : k \in 0 .. n}

---------------------------------------------------------------------------
(* Lexing. *)

\* InComment(s)[i]: the comment that holds piece i, or began with it, is
\* still open behind it.
InComment(s) ==
    LET open[i \in 0 .. Len(s)] ==
            i > 0 /\ (IF open[i - 1] THEN s[i] # "*/" ELSE s[i] = "/*")
    IN  open

\* Pieces that belong to no comment.
Code(s) ==
    LET open == InComment(s)
    IN  {i \in 1 .. Len(s) : ~open[i - 1] /\ ~open[i]}

Before(t, u) == t.span.from < u.span.from

\* A maximal run of letters is an identifier; other code that is not blank
\* is a token of its own.
LettersOf(s) == {i \in Code(s) : s[i] \in Letters}

Words(letters) ==
    LET runs == {r \in [first : letters, last : letters] :
                    /\ r.first .. r.last \subseteq letters
                    /\ r.first - 1 \notin letters /\ r.last + 1 \notin letters}
    IN  {ByteRange(r.first - 1, r.last) : r \in {q \in runs : q.first <= q.last}}

Others(s) ==
    {ByteRange(i - 1, i) : i \in {j \in Code(s) : s[j] \notin Letters \cup Newlines \cup Blanks}}

\* A token has its span and its text.
Lexed(s, r) == [span |-> r, text |-> Slice(s, r)]

Lex(s) == SetToSortSeq({Lexed(s, r) : r \in Words(LettersOf(s)) \cup Others(s)}, Before)

SpansOf(lexed) == [i \in DOMAIN lexed |-> lexed[i].span]
Tokens(s) == SpansOf(Lex(s))

IsWord(s, t) == s[t.from + 1] \in Letters

\* Logical lines: tokens i and i + 1 are on one line unless a newline that
\* is neither commented out nor continued lies between them.
LineBreaks(s, tokens) ==
    LET code == Code(s)
    IN  {i \in 0 .. Len(tokens) :
            \/ i \in {0, Len(tokens)}
            \/ \E p \in code : /\ s[p] = "\n"
                               /\ tokens[i].to < p /\ p <= tokens[i + 1].from}

Lines(s) ==
    LET lexed == Lex(s)
        breaks == SetToSortSeq(LineBreaks(s, SpansOf(lexed)), <)
    IN  [k \in 1 .. (Len(breaks) - 1) |->
            SubSeq(lexed, breaks[k] + 1, breaks[k + 1])]

---------------------------------------------------------------------------
(* Preprocessing. *)

Live(state) == \A i \in DOMAIN state.open : state.open[i]

Defined(state, name) ==
    name \in state.declared \/ \E d \in state.macros : d.name = name

\* One logical line that begins with a directive.
Directive(state, line) ==
    LET head == line[1].text[1]
        name == IF Len(line) > 1 THEN line[2].text ELSE <<>>
        named == Len(line) > 1 /\ name[1] \in Letters
        span == ByteRange(line[1].span.from, line[Len(line)].span.to)
        holds == Live(state) /\ named /\ Len(line) = 2 /\ Defined(state, name)
    IN  CASE head = "#define " /\ named /\ Live(state) ->
                 [state EXCEPT !.macros =
                     {d \in @ : d.name # name} \cup
                     {[name |-> name, def |-> ByteRange(span.from, line[2].span.to)]}]
          [] head = "#if " ->
                 [state EXCEPT !.open = Append(@, holds),
                               !.branches = Append(@, [span |-> span, active |-> holds])]
          [] head = "#endif " /\ state.open # <<>> ->
                 [state EXCEPT !.open = Front(@)]
          [] OTHER -> state

\* One token of a line of text.
Word(state, t) ==
    IF t.text[1] \notin Letters \/ ~Live(state) THEN state
    ELSE IF \E d \in state.macros : d.name = t.text
    THEN [state EXCEPT !.invocations = Append(@, t.span)]
    ELSE [state EXCEPT !.declared = @ \cup {t.text}]

Line(state, line) ==
    IF line # <<>> /\ line[1].text[1] \in Hashes THEN Directive(state, line)
    ELSE FoldLeft(Word, state, line)

Empty == [macros |-> {}, declared |-> {}, open |-> <<>>,
          branches |-> <<>>, invocations |-> <<>>]

\* The engine sees the tokens of the lines and their text only.
Run(s) ==
    LET end == FoldLeft(Line, Empty, Lines(s))
    IN  [source |-> s, tokens |-> Tokens(s), branches |-> end.branches,
         invocations |-> end.invocations, macros |-> end.macros]

\* What the engine and the lexer give for every text the caller may hold.
Results == [s \in Documents |-> Run(s)]
TokensOf(s) == Results[s].tokens

---------------------------------------------------------------------------
(* The tests of reuseCompatibleContext. *)

LineStart(s, p) ==
    CHOOSE q \in 0 .. p : /\ q = 0 \/ s[q] \in Newlines
                          /\ \A i \in (q + 1) .. p : s[i] \notin Newlines

LineEnd(s, p) ==
    CHOOSE q \in p .. Len(s) :
        /\ q = Len(s) \/ s[q + 1] \in Newlines
        /\ \A i \in (p + 1) .. q : s[i] \notin Newlines

\* The first piece of the physical line at q that is not blank is a '#'.
HashAt(s, q) ==
    \E p \in (q + 1) .. Len(s) :
        s[p] \in Hashes /\ \A i \in (q + 1) .. (p - 1) : s[i] \in Blanks

\* Mutant: only the line the edit begins on is looked at.
DirectiveRangeFirst(s, r) ==
    HashAt(s, LineStart(s, IF r.from = Len(s) /\ r.from > 0 THEN r.from - 1
                           ELSE r.from))

\* directiveRange: some physical line of the range is a directive's.
DirectiveRange(s, r) ==
    LET first == LineStart(s, IF r.from = Len(s) /\ r.from > 0 THEN r.from - 1
                              ELSE r.from)
    IN  \E q \in first .. LineEnd(s, r.to) :
            /\ q = first \/ s[q] \in Newlines
            /\ HashAt(s, q)

TouchesMacro(tokens, s, r, macros) ==
    \E i \in DOMAIN tokens :
        /\ tokens[i].to >= r.from /\ tokens[i].from <= r.to
        /\ \E d \in macros : d.name = Slice(s, tokens[i])

\* reuseSingleTokenEdit: the edit replaces one whole token, and what replaces
\* it lexes as one token of its kind and the same length, blanks included.
SingleTokenEdit(src, edit) ==
    /\ edit.before.from # edit.before.to
    /\ edit.before.to - edit.before.from = edit.after.to - edit.after.from
    /\ edit.before \in ToSet(result.tokens)
    /\ IsWord(result.source, edit.before)
    /\ LET local == Slice(src, edit.after)
       IN  Len(Tokens(local)) = 1 /\ IsWord(local, Tokens(local)[1])

TokensFor(src, edit) ==
    IF SingleTokenEdit(src, edit) THEN result.tokens ELSE TokensOf(src)

\* Mutant: only the tokens the edit removes are looked at.
CompatibleBefore(src, edit) ==
    /\ edit.before.from # edit.before.to \/ edit.after.from # edit.after.to
    /\ ~DirectiveRange(result.source, edit.before)
    /\ ~DirectiveRange(src, edit.after)
    /\ ~TouchesMacro(result.tokens, result.source, edit.before, result.macros)

Compatible(src, edit) ==
    /\ edit.before.from # edit.before.to \/ edit.after.from # edit.after.to
    /\ ~DirectiveRange(result.source, edit.before)
    /\ ~DirectiveRange(src, edit.after)
    /\ ~TouchesMacro(TokensFor(src, edit), src, edit.after, result.macros)
    /\ ~TouchesMacro(result.tokens, result.source, edit.before, result.macros)

Shifted(src, edit) ==
    [source |-> src,
     tokens |-> TokensFor(src, edit),
     branches |-> [i \in DOMAIN result.branches |->
         [result.branches[i] EXCEPT !.span = ShiftRange(@, edit)]],
     invocations |-> [i \in DOMAIN result.invocations |->
         ShiftRange(result.invocations[i], edit)],
     macros |-> {[d EXCEPT !.def = ShiftRange(@, edit)] : d \in result.macros}]

\* sameLexicalLayout: no token and no piece of trivia moves or changes but
\* for the spelling of blanks and the text of comments, whose newlines stay.
SameLayoutAnyText(a, b) == TokensOf(a) = TokensOf(b)   \* mutant: spans only
SameLayout(a, b) ==
    /\ Len(a) = Len(b)
    /\ InComment(a) = InComment(b)
    /\ \A i \in Code(a) : a[i] = b[i] \/ {a[i], b[i]} \subseteq Blanks
    /\ \A i \in DOMAIN a : a[i] # b[i] => {a[i], b[i]} \cap Newlines = {}

---------------------------------------------------------------------------
(* The caller edits its text and reuses what it can. *)

ReuseCompatible(src, edit) ==
    /\ Compatible(src, edit)
    /\ result' = Shifted(src, edit)
    /\ how' = "compatible"

ReuseTrivia(src) ==
    /\ SameLayout(src, result.source)
    /\ result' = [result EXCEPT !.source = src, !.tokens = TokensOf(src)]
    /\ how' = "trivia"

RunAgain(src) ==
    /\ result' = Results[src]
    /\ how' = "run"

\* The caller may know the edit it made, or leave it to compatibleEdit; it
\* may ask for either kind of reuse, and runs again when it gets none.
Edit(at, removed, inserted) ==
    /\ at + removed <= Len(result.source)
    /\ LET old == result.source
           src == SubSeq(old, 1, at) \o inserted
                      \o SubSeq(old, at + removed + 1, Len(old))
           known == [before |-> ByteRange(at, at + removed),
                     after |-> ByteRange(at, at + Len(inserted))]
       IN  /\ src \in Documents
           /\ src # old
           /\ \/ \E edit \in {known, CompatibleEdit(old, src)} :
                    ReuseCompatible(src, edit)
              \/ ReuseTrivia(src)
              \/ RunAgain(src)

Init ==
    /\ result \in {Results[s] : s \in Documents}
    /\ how = "run"

Next ==
    \E at \in 0 .. Len(result.source), removed \in 0 .. MaxEdit, inserted \in Texts(MaxEdit) :
        Edit(at, removed, inserted)

Spec == Init /\ [][Next]_vars

============================================================================
