--------------------------- MODULE IncrementalProps ---------------------------
(***************************************************************************)
(* What the parser and the incremental operations promise.                 *)
(***************************************************************************)
EXTENDS Incremental, SequencesExt

IsParsed == last.by \in {"none", "index"}

----------------------------------------------------------------------------
(* Texts in which nothing is left open, whatever the #if lines select. *)

\* The open brackets behind one more token; a mismatch never closes.
Closed(open, kind) ==
    CASE kind \in Opening -> Append(open, kind)
      [] kind = "}" /\ open # <<>> /\ Last(open) = "{" -> Front(open)
      [] kind = ")" /\ open # <<>> /\ Last(open) = "(" -> Front(open)
      [] kind \in Closing -> Append(open, "mismatch")
      [] OTHER -> open

\* One frame per open #if: the open brackets before it, behind its branches so
\* far (done) and here (now), for every choice of branches.
Frame(open) == [before |-> open, done |-> {}, now |-> open, hasElse |-> FALSE]

Ended(frame) ==
    frame.done \cup frame.now \cup IF frame.hasElse THEN {} ELSE frame.before

NoFrames == <<>>

Scanned(frames, kind) ==
    LET n == Len(frames)
        top == frames[n]
    IN  CASE n = 0 -> NoFrames
          [] kind = "#if" -> Append(frames, Frame(top.now))
          [] kind = "#else" ->
               IF n = 1 \/ top.hasElse THEN NoFrames
               ELSE [frames EXCEPT ![n] = [top EXCEPT !.done = @ \cup top.now,
                                                      !.now = top.before,
                                                      !.hasElse = TRUE]]
          [] kind = "#endif" ->
               IF n = 1 THEN NoFrames
               ELSE [Front(frames) EXCEPT ![n - 1].now = Ended(top)]
          [] OTHER -> [frames EXCEPT ![n].now = {Closed(open, kind) : open \in @}]

\* Every #if ends, and in each of the texts a preprocessor can make of this
\* one all brackets close.
Whole(toks) ==
    LET kinds == [i \in 1 .. (Len(toks) - 1) |-> toks[i].kind]
        frames == FoldLeft(Scanned, <<Frame({<<>>})>>, kinds)
    IN  Len(frames) = 1 /\ frames[1].now = {<<>>}

\* No directive stands where the statement of an if must.
StatementsFollow(toks) ==
    \A i \in 2 .. Len(toks) :
        toks[i].kind \in Directives => toks[i - 1].kind # "else"

----------------------------------------------------------------------------
(* What the tree of a text says *)

RECURSIVE Nested(_)
Nested(n) ==
    /\ n.from <= n.to
    /\ \A i \in DOMAIN n.kids :
          /\ n.from <= n.kids[i].from /\ n.kids[i].to <= n.to
          /\ i > 1 => n.kids[i - 1].to <= n.kids[i].from
          /\ Nested(n.kids[i])

\* In a tree without errors, parsed, moved or patched, the root spans the text
\* and a node holds its children in the order of the text: the ends that
\* regions, shared bodies and late alternatives move keep up with each other
\* (SetEnd, shiftedStart).
CleanTreesNest ==
    ~file.errors =>
        file.root.from = 0 /\ file.root.to = Len(text) /\ Nested(file.root)

Within(token, n) == n.from <= token.at /\ token.end <= n.to

\* The nodes that hold a sequence of items; other tokens in them are braces.
ItemLists == {"file", "block", "branch"}

RECURSIVE Complete(_)
Complete(n) ==
    /\ n.kind \in ItemLists =>
          \A i \in 1 .. (Len(file.toks) - 1) :
              Within(file.toks[i], n) /\ file.toks[i].kind \notin {"{", "}"} =>
                  \E k \in DOMAIN n.kids : Within(file.toks[i], n.kids[k])
    /\ \A k \in DOMAIN n.kids : Complete(n.kids[k])

\* A text that is whole is in the tree with all its tokens: a trial that failed
\* gives back every token it read (parseConditionalRegion).  A directive in
\* the place of a statement ends the sequence and loses the rest.
WholeTextIsCovered ==
    IsParsed /\ Whole(file.toks) /\ StatementsFollow(file.toks) => Complete(file.root)

RECURSIVE Erroneous(_)
Erroneous(n) == n.err \/ \E i \in DOMAIN n.kids : Erroneous(n.kids[i])

\* The diagnostics of a whole text are about the tree it got: none is left of
\* a trial that failed ("Avoid stale diagnostics from conditional else if
\* splices", CHANGELOG.md).
NoStaleDiagnostics ==
    IsParsed /\ Whole(file.toks) /\ file.diags > 0 => file.broken \/ Erroneous(file.root)

\* A file without parse errors has no node with an error: "Parse errors are
\* reported via File.Broken and Node.HasError" (parser.go).
ErrorsAreReported == ~file.errors => ~Erroneous(file.root)

\* A line typed below a text without errors leaves its items as they were, but
\* for the last: lookahead over the rest of the file (macroQualifierStart,
\* isConditionalSplice) never reaches back over a complete item.
TypingKeepsItems ==
    [][~file.errors /\ last' = NoEdit =>
          \A i \in 1 .. (Len(file.root.kids) - 1) :
              i \in DOMAIN file'.root.kids /\ file'.root.kids[i] = file.root.kids[i]]_vars

----------------------------------------------------------------------------
(* What an edit leaves *)

CleanParse == Parsed(text, TRUE)

\* The parser takes tokens without lines for the declaration it reads again.
LinesDoNotMatter == Parsed(text, FALSE).root = CleanParse.root

\* A file with one declaration parsed again has the tree of a clean parse
\* (TestReparseCompactDeclarationMatchesCleanParse, reparse_test.go), whatever
\* else the file holds.
ReparsedLikeCleanParse ==
    last.by = "reparse" /\ LinesDoNotMatter => file.root = CleanParse.root

\* The same for a file of declarations: child and declaration indexes agree,
\* and what was parsed alone reads the same in its place.
ReparsedDeclarations ==
    last.by = "reparse" /\ (\A i \in DOMAIN file.root.kids : IsDeclaration(file.root.kids[i])) =>
        ReparsedLikeCleanParse

\* A tree moved after an edit of trivia is that of a clean parse, as long as no
\* comment spans lines ("It returns false when the token stream could parse
\* differently", rebase.go).
RebasedLikeCleanParse ==
    last.by = "rebase" /\ (\A i \in DOMAIN text : text[i].kind # "cm") =>
        file.root = CleanParse.root

\* A table brought up to date is that of a full build
\* (TestRebaseDeclarationIndexMatchesFullBuild, declaration_index_test.go),
\* and the other declarations are where the edit moves them, as rebaseBoundary
\* takes for granted, unless the edit touches the end of its declaration.
RebasedIndexIsFresh ==
    last.by = "index" =>
        LET i == Containing(last.index, last.edit.before)
        IN  last.edit.before.to < last.index.items[i].range.to =>
                /\ OthersMoved(last.index, file, last.edit)
                /\ index = BuildDeclarationIndex(file)

============================================================================
