---------------------------- MODULE Incremental ----------------------------
(***************************************************************************)
(* What an editor does with a parsed file after an edit: parse the one     *)
(* declaration that changed and put it into the old tree (reparse.go),     *)
(* move the old tree when only trivia changed (rebase.go), or bring the    *)
(* table of declarations up to date (declaration_index.go).                *)
(*                                                                         *)
(* A text is a sequence of symbols, one byte each: the tokens of the       *)
(* parser and the trivia "nl", "sp" and "cm", a comment over two lines.  A *)
(* directive takes its line.  Offsets count from 0.                        *)
(***************************************************************************)
EXTENDS Parser, DeclarationIndex

CONSTANTS Parse(_),      \* the parser: ParseTokens
          Beginnings,    \* what a text may begin with
          Lines,         \* the lines that are typed, each ending in "nl"
          Replacements,  \* what an edit puts in place of a range
          MaxTyped, MaxEditedLines, MaxReplaced

Trivia == {"nl", "sp", "cm"}

----------------------------------------------------------------------------
(* Texts and their tokens *)

InDirective(text, i) ==
    \E d \in 1 .. (i - 1) :
        /\ text[d].kind \in Directives
        /\ \A j \in d .. i : text[j].kind # "nl"

Heads(text) ==
    SelectSeq([i \in 1 .. Len(text) |-> i],
              LAMBDA i : text[i].kind \notin Trivia /\ ~InDirective(text, i))

KindsIn(text, from, to) == {text[i].kind : i \in from .. to}

\* The last symbol of the trivia that trails a token: its line's end.
TrailEnd(text, from, to) ==
    CHOOSE i \in (from - 1) .. to :
        /\ \A j \in from .. (i - 1) : text[j].kind # "nl"
        /\ i = to \/ (i >= from /\ text[i].kind = "nl")

LineAt(text, i) ==
    1 + Cardinality({j \in 1 .. (i - 1) : text[j].kind \in {"nl", "cm"}})

\* lines: the tokens carry their lines (token.Token), or do not (SyntaxToken).
TokensOf(text, lines) ==
    LET heads == Heads(text)
        next(k) == IF k < Len(heads) THEN heads[k + 1] ELSE Len(text) + 1
        last(k) == CHOOSE i \in heads[k] .. (next(k) - 1) :
                      /\ i = heads[k] \/ InDirective(text, i)
                      /\ text[i].kind \notin Trivia
                      /\ \A j \in (i + 1) .. (next(k) - 1) :
                            text[j].kind \in Trivia \/ ~InDirective(text, j)
        trail(k) == IF k = 0 THEN 0 ELSE TrailEnd(text, last(k) + 1, next(k) - 1)
        line(i) == IF lines THEN LineAt(text, i) ELSE 0
        token(k) ==
            [kind |-> text[heads[k]].kind, name |-> text[heads[k]].name,
             ends |-> "nl" \in KindsIn(text, last(k) + 1, trail(k)),
             line |-> line(heads[k]), at |-> heads[k] - 1, end |-> last(k),
             lead |-> KindsIn(text, trail(k - 1) + 1, heads[k] - 1),
             trail |-> KindsIn(text, last(k) + 1, trail(k))]
        eof == [kind |-> "eof", name |-> "", ends |-> FALSE,
                line |-> line(Len(text) + 1), at |-> Len(text), end |-> Len(text),
                lead |-> KindsIn(text, trail(Len(heads)) + 1, Len(text)), trail |-> {}]
    IN  [k \in 1 .. (Len(heads) + 1) |-> IF k > Len(heads) THEN eof ELSE token(k)]

\* ParseTokensCompact (lines), ParseCompact without its tokens (no lines).
Parsed(text, lines) ==
    LET toks == TokensOf(text, lines)
        p == Parse(toks)
    IN  [source |-> text, toks |-> toks, errors |-> p.errors,
         broken |-> p.broken, diags |-> p.diags, root |-> p.root]

----------------------------------------------------------------------------
(* The old tree after an edit *)

\* shiftedStart; Edits!ShiftOffset is shiftedEnd.
ShiftedStart(offset, edit) ==
    IF offset < edit.before.from THEN offset
    ELSE IF offset >= edit.before.to THEN offset + edit.after.to - edit.before.to
    ELSE ShiftOffset(offset, edit)

RECURSIVE Rebased(_, _), Shifted(_, _)

\* rebaseNode and copyOld
Rebased(n, edit) ==
    [n EXCEPT !.from = ShiftedStart(@, edit), !.to = ShiftOffset(@, edit),
              !.kids = [i \in DOMAIN @ |-> Rebased(@[i], edit)]]

\* shiftNode and copyFragment
Shifted(n, offset) ==
    [n EXCEPT !.from = @ + offset, !.to = @ + offset,
              !.kids = [i \in DOMAIN @ |-> Shifted(@[i], offset)]]

\* The file of an old tree that was moved or patched: it has no errors.
CleanFile(text, root) ==
    [source |-> text, toks |-> TokensOf(text, TRUE), errors |-> FALSE,
     broken |-> FALSE, diags |-> 0, root |-> root]

NoFile == [CleanFile(<<>>, Nil) EXCEPT !.errors = TRUE]

\* The one child of the root with the declaration's range, or 0.
declarationChild(file, r) ==
    LET same == {i \in DOMAIN file.root.kids : RangeOf(file.root.kids[i]) = r}
    IN  IF Cardinality(same) = 1 THEN CHOOSE i \in same : TRUE ELSE 0

\* Mutant: the declaration is put in unshifted.
spliceCompactTreeUnshifted(file, text, child, target, replacement, at, edit) ==
    LET kids == file.root.kids
    IN  [file.root EXCEPT
            !.to = Len(text),
            !.kids = [i \in DOMAIN kids |->
                        IF i = target /\ i = child THEN replacement
                        ELSE Rebased(kids[i], edit)]]

\* spliceCompactTree: target counts declarations, i counts children.
spliceCompactTree(file, text, child, target, replacement, at, edit) ==
    LET kids == file.root.kids
    IN  [file.root EXCEPT
            !.to = Len(text),
            !.kids = [i \in DOMAIN kids |->
                        IF i = target /\ i = child THEN Shifted(replacement, at)
                        ELSE Rebased(kids[i], edit)]]

ReparseCompactDeclaration(text, file, edit) ==
    LET index == BuildDeclarationIndex(file)
        target == Containing(index, edit.before)
        old == index.items[target].range
        current == ByteRange(old.from, old.to + Len(text) - Len(file.source))
        fragment == Parsed(Slice(text, current), FALSE)
        table == BuildDeclarationIndex(fragment)
        child == declarationChild(file, old)
    IN  IF /\ ~file.errors /\ IsEdit(file.source, text, edit) /\ index.reliable
           /\ target # 0
           /\ current.from <= current.to /\ current.to <= Len(text)
           /\ Encloses(current, edit.after)
           /\ table.reliable /\ Len(table.items) = 1
           /\ table.items[1].range = ByteRange(0, current.to - current.from)
           /\ child # 0 /\ Len(fragment.root.kids) = 1
        THEN CleanFile(text, spliceCompactTree(file, text, child, target,
                                               fragment.root.kids[1], current.from, edit))
        ELSE NoFile

Flags(kinds) == [present |-> kinds # {}, endsLine |-> "nl" \in kinds]

\* Mutant: the line ends are not compared.
sameCompactTokens(text, toks, file) ==
    /\ Len(toks) = Len(file.toks)
    /\ \A i \in DOMAIN toks :
          Slice(text, ByteRange(toks[i].at, toks[i].end))
              = Slice(file.source, ByteRange(file.toks[i].at, file.toks[i].end))

sameCompactGrammar(text, toks, file) ==
    /\ Len(toks) = Len(file.toks)
    /\ \A i \in DOMAIN toks :
          /\ toks[i].kind = file.toks[i].kind
          /\ Slice(text, ByteRange(toks[i].at, toks[i].end))
                = Slice(file.source, ByteRange(file.toks[i].at, file.toks[i].end))
          /\ Flags(toks[i].lead) = Flags(file.toks[i].lead)
          /\ Flags(toks[i].trail) = Flags(file.toks[i].trail)

RebaseCompactTrivia(text, file, edit) ==
    LET toks == TokensOf(text, TRUE)
    IN  IF ~file.errors /\ sameCompactGrammar(text, toks, file)
        THEN CleanFile(text, [Rebased(file.root, edit) EXCEPT !.from = 0, !.to = Len(text)])
        ELSE NoFile

----------------------------------------------------------------------------
(* An editor: it types lines, and then edits the text once. *)

VARIABLES text, file, index,
          typed,  \* how many lines were typed
          last    \* the edit, its kind and the table before it

vars == <<text, file, index, typed, last>>

NoEdit == [by |-> "none"]

LineCount(t) == Cardinality({i \in DOMAIN t : t[i].kind = "nl"})

Words == Keywords \cup {"id"}

\* A directive has a line of its own, and a word ends before another begins.
IsText(t) ==
    \A i \in DOMAIN t :
        /\ t[i].kind \in Directives =>
              /\ i = 1 \/ t[i - 1].kind = "nl"
              /\ i < Len(t) /\ t[i + 1].kind = "nl"
        /\ i > 1 => ~(t[i].kind \in Words /\ t[i - 1].kind \in Words)

Replaced(from, to, by) ==
    [edit |-> [before |-> ByteRange(from, to), after |-> ByteRange(from, from + Len(by))],
     text |-> SubSeq(text, 1, from) \o by \o SubSeq(text, to + 1, Len(text))]

EditsOfText ==
    {Replaced(from, to, by) :
        from \in 0 .. Len(text), to \in 0 .. Len(text), by \in Replacements}

Changes ==
    {c \in EditsOfText :
        /\ c.edit.before.from <= c.edit.before.to
        /\ c.edit.before.to - c.edit.before.from <= MaxReplaced
        /\ c.text # text /\ IsText(c.text)}

Init ==
    /\ text \in Beginnings
    /\ file = Parsed(text, TRUE)
    /\ index = BuildDeclarationIndex(file)
    /\ typed = 0
    /\ last = NoEdit

Type(line) ==
    /\ last = NoEdit
    /\ typed < MaxTyped
    /\ typed' = typed + 1
    /\ text' = text \o line
    /\ \E f \in {Parsed(text \o line, TRUE)} :
          file' = f /\ index' = BuildDeclarationIndex(f)
    /\ UNCHANGED last

CanEdit == last = NoEdit /\ LineCount(text) <= MaxEditedLines

Take(f, i, by, change) ==
    /\ text' = change.text
    /\ file' = f
    /\ index' = i
    /\ last' = [by |-> by, edit |-> change.edit, index |-> index]
    /\ UNCHANGED typed

Reparse ==
    /\ CanEdit
    /\ \E change \in Changes :
          \E f \in {ReparseCompactDeclaration(change.text, file, change.edit)} :
              f # NoFile /\ Take(f, BuildDeclarationIndex(f), "reparse", change)

Rebase ==
    /\ CanEdit
    /\ \E change \in Changes :
          \E f \in {RebaseCompactTrivia(change.text, file, change.edit)} :
              f # NoFile /\ Take(f, BuildDeclarationIndex(f), "rebase", change)

ParseAndRebaseIndex ==
    /\ CanEdit
    /\ index.reliable
    /\ \E change \in Changes :
          \E f \in {Parsed(change.text, TRUE)} :
              \E i \in {RebaseDeclarationIndex(index, f, change.edit)} :
                  i # NoIndex /\ Take(f, i, "index", change)

Next == (\E line \in Lines : Type(line)) \/ Reparse \/ Rebase \/ ParseAndRebaseIndex

Spec == Init /\ [][Next]_vars

=============================================================================
