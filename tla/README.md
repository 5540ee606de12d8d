# A TLA+ model of pawn-parser

pawn-parser (Go) reads Pawn source: a lexer, a preprocessor with textual macros, an error-tolerant parser that builds
concrete or compact trees, and incremental reparsing and reuse of preprocessing results. This directory holds TLA+
modules translated from that code, TLC configurations that model-check them, and theorems TLAPS checks. Paths below are
relative to the repository's root; PROJECT.json maps every definition to the lines it models.

Contents: 1 the system; 2 the modules; 3 how the model corresponds to the code; 4 the runs; 5 disagreements found;
6 the proofs; 7 what is not modelled; 8 the plan.

## 1. The system

Everything is sequential except the token cache, which goroutines share, and cancellation, which arrives from
another goroutine through a context. There is no persistence and no messaging. What is hard here is long sequences of
legal inputs (directives, includes, macros, edits) that reach a state nobody wrote a test for, limits, and caches.

| component | state it keeps | operations | talks to |
|---|---|---|---|
| preprocessing engine (`preprocess/engine.go`, `directives.go`, `includes.go`, `resolver.go`) | stack of files (frames), each with its conditional frames; include stack; branch, include and file records; limits; cancellation | `Run`/`RunContext`, one handler per directive, `spliceInclude`, `appendOut` | resolver (callback), token cache, macro table, declaration tracker, condition evaluator |
| condition evaluator (`ifexpr.go`) | none of its own; a second engine that shares tables and context | `evalCondition`, `defined` | macro expansion, tables |
| macro table (`macro.go`) | name to macro | define, undef, lookup | - |
| macro expansion and matching (`expand.go`, `pattern.go`, `ptok.go`) | tokens not yet written, each with hide set, history, depth | `emitActive`, `expandRun`, paste, match, substitute | macro table, `appendOut` |
| declaration tracker (`declarations.go`) | names, constants, arrays, functions declared by the output | `observe`, lookups in conditions | engine, conditions |
| token cache (`tokencache.go`) | uri to hash and token slice, under a read-write lock | `tokenize`, `tokenizeContext` | lexer |
| reuse (`reuse.go`) | none: takes an old `Result` and a new text | `ReuseTriviaContext`, `ReuseCompatibleContext`, `CompatibleEdit` | lexer, `Result` |
| listing (`listing.go`) | lines of a compiler listing | layout | engine |
| lexer (`lexer/`) | scanner position, pooled token blocks | two builders of tokens, plain and compact | - |
| tokens, positions (`token/`) | data, line maps | - | - |
| parser and recovery (`parser.go`, `toplevel.go`, `statements.go`, ...) | position, diagnostics, depth, names of macros and tags met, sink | recursive descent, recovery | lexer, sinks |
| conditional regions in the parser (`conditionals.go`, `directives.go`, `macros.go`) | mark of parser and sink | try, back out, share a body or an alternative, splice | parser, sinks |
| trees and sinks (`node_sink.go`, `compact_sink.go`, `compact.go`, ...) | nodes, children, arenas | add, set, mark, rewind, finish | parser |
| incremental parsing (`reparse.go`, `rebase.go`, `declaration_index.go`) | none: old tree or table, new text | splice, shift, rebase | parser, compact tree |
| typed syntax, file set (`typed_syntax.go`, `syntax.go`, `source.go`) | files by number | accessors | trees |

What makes each correct, in the order of importance:

- *engine*: text is live exactly where every enclosing branch is; at most one branch of a conditional is selected; dead
  text changes nothing; a branch record keeps its own extent; includes nest within the limit, are counted exactly and
  form one tree; truncation is reported; a cancelled run gives no result; every pass ends.
- *expansion*: the text that comes out is the text rescanning gives, and expansion ends however macros name each other.
- *token cache*: a caller gets the tokens of the content it asked for; a shared slice is never replaced under a caller.
- *reuse*: what is kept over an edit is what a fresh run gives; an edit of a directive is never kept.
- *declarations and conditions*: a condition asks the names visible where it stands and computes as 64-bit cells do; a
  later pass differs from an earlier one only because of what it was seeded with.
- *lexer*: both builders agree; a block is not reused while a caller reads it.
- *parser*: every token of a text in which nothing is left open ends up in the tree; a trial that is backed out leaves no
  trace; an error in the tree is reported; a node holds its children in the order of the text.
- *sinks*: rewinding to a mark brings back what there was at the mark; the finished tree is the tree that was built.
- *incremental parsing*: a declaration parsed again, a tree moved over trivia, or a table brought up to date is the one
  that parsing the whole text gives.

The hazards, each at its line with the properties that would catch it, are listed in PROJECT.json.

## 2. The modules

| module | models |
|---|---|
| Preprocess | one pass of the engine: every directive handler, files and includes, limits, polls of the context |
| PreprocessProps | its properties |
| MCPreprocess | values of its constants, with two configurations |
| Counting | lemmas for proofs by induction without the library's induction theorems: least and greatest elements, counting up, iteration, the longest of something, no infinite descent |
| PreprocessProofs | theorems: types, nesting, suspended files, the bound on includes, dead text, truncation, reports of overflow, and that every step leaves less to do |
| PreprocessRecordsProofs | theorems: include records form a tree, the include stack, files included once; branch records are a conditional's own, exclude each other and tile the text |
| MacroExpansion, MacroExpansionProps, MCMacroExpansion | expansion of one line or condition: matching, substitution, pasting, hide sets, history, depth |
| Rescanning | what rescanning a text gives, the reference for conditions |
| MacroExpansionProofs | theorems: types, that every step makes the waiting tokens lighter, and that this ends |
| TokenService | what the token cache promises: a cache whose every call is one step |
| TokenCache | the double-checked locking that implements it, for concurrent callers |
| MCTokenCache, TokenCacheProofs | its run and its theorems |
| Edits | an edit of a text, and how offsets and ranges are shifted by it |
| Reuse, ReuseProps, MCReuse | both kinds of reuse, over texts the reuse code itself tokenizes and inspects |
| ReuseProofs | theorems about edits, shifting, finding an edit, reuse over trivia, and a rebased table of declarations |
| Declarations | the declaration tracker, a token a step: headers, scopes, functions, constants, enums, array sizes |
| Conditions (extends Declarations) | the evaluator of `#if`: precedence levels, 64-bit arithmetic, `defined`, `sizeof`, names, failure |
| Passes (extends Conditions) | `Run`: the discovery passes and the pass that counts, over one file of statements and conditionals |
| PassesProps, MCPasses | their properties and values |
| Parser | the recursive descent with its trials, shared bodies, splices and recovery: operators on a parser record |
| DeclarationIndex (extends Edits) | the table of a file's declarations: building it, and bringing it up to date after an edit |
| Incremental (extends Parser, DeclarationIndex) | tokens of a text, which the parameter `Parse` reads (`ParseTokens` in the runs), and an editor that types and then edits once: reparse, rebase, rebase of the table |
| IncrementalProps, MCIncremental | their properties and values |
| NodeStore | what the parser expects of a sink: growing nodes and lists, and marks that bring everything back |
| CompactSink | the compact sink that implements it with inline children, slices of shared blocks and lengths |
| CompactSinkProps | the refinement and the finished tree |
| CompactSinkProofs | theorems: the arena keeps slices apart, the sink implements the store |
| CompactTreeProofs | theorems: whatever points at a node points at one that exists, the finished tree is the one that was built |

Preprocess does not compose with MacroExpansion: its action ExpandLine stands for a whole expansion by its effects on
the engine (tokens written, the output limit, an unterminated call, the depth limit), and MacroExpansion shows what
happens in between. Preprocess takes the tokens of an include as given (TokenCache shows they are those of the
content), and Reuse brings a reader of `#define`, `#if defined` and `#endif` of its own (operator Run), because there
the text of the lines matters and in Preprocess it does not. Passes composes the tracker and the evaluator with a reader
of lines that knows only conditionals: includes and limits are in Preprocess. Parser calls its sink as if trees were
values (a node is built with its children); that the real sinks, which build in place and rewind, come to the same is
what NodeStore and CompactSink are about.

## 3. Model and code

**Preprocess.** The engine reads a stack of files line by line. The content of the files is not a constant: what a
line says is chosen when it is read, so one behaviour of the model is one content of all files, and TLC covers all of
them within the bounds. An offset in a file is the number of its line.

| model | code |
|---|---|
| `frames`, last one current | the Go stack of `spliceInclude`/`runContents`, a `frame` each |
| `frames[i].cond` | `frame.condStack` of `condFrame`s (parentActive, branchActive, taken, openBranchIndex, overflow) |
| `branches`, `includes`, `files` | the slices of `Result`; `open` counts from 1 where Go's index counts from 0 |
| `macros`, `symbols`, `declared` | macro table, `engine.symbols`, names known to the declaration tracker |
| `ctxDone`, `cancelled`, `condCancelled` | the caller's context; `engine.cancelled`; `condition.cancelled` of the inner engine, which the code drops |
| `HandleIf` ... `HandleEndinput` | the handlers of `handleDirectiveLine`, whole: guard, records, diagnostics |
| `EmitLine`, `ExpandLine` | a line of text: `emitActive`, `appendOut`, expansion |
| `HandleInclude`, `FinishFrame` | `handleInclude` up to the splice; the end of a file, with what `handleInclude` does afterwards |
| `PollCancellation` | `pollCancellation` finding the context done; which iteration polls is left open |

`handleInclude` is one Go call that spans the reading of the included file, so the record it will append waits in the
frame (`inc`) until the file is finished. The zero value of `openBranchIndex` in an overflow frame is kept: `open = 1`.
Names are taken as already cut to MaxSymbolLength, two paths that share a guard symbol are two members of `Paths`; the
lookup of `p.symbols[name]` in `ifexpr.go:304` with an uncut name is outside the model. Init starts with empty tables:
`#define` and compatibility mode reach the other ones.

**MacroExpansion.** A text is a sequence of atoms: words, "defined", parentheses and blanks. `Lex` reads them one by one
and joins words, so a name may be the paste of two others. A macro is its name alone, or `NAME(%0)`. `level` tells `emitActive` ("frame")
from `expandRun` ("run"); a condition starts in `expandRun`. A token carries what `ptok` carries: `glued` stands for
the trailing trivia, `hide`, `seen` and `depth` are the fields of those names. The reference, `Rescan` (module Rescanning),
rescans the text from its first token that may be replaced and remembers nothing.

**TokenCache.** A step per critical section: lookup under the read lock; tokenizing with no lock; second lookup and
store under the write lock. SHA-256 is taken to be free of collisions. A slice is a content and an identity, which is
free again when neither an entry nor a caller holds the slice. In TokenService a call is one step (Share or Replace);
the refinement mapping keeps `entries` and shows a caller's tokens only once it is done.

**Edits, Reuse.** A text is a sequence of pieces, a piece being a character, a directive keyword with its blank, a
comment delimiter, or a backslash with its newline. `Edit` replaces a range of the text and takes the branches of the
code in order: trivia reuse, compatible reuse, run again. An edit leads from one of `Documents` to another. A token is a span with its text, and `Run`, which stands for
the engine, is given the tokens of one logical line after the other (`Lines`) and nothing else of the text. `Results`
tabulates the fresh run of every text.

**Declarations, Conditions, Passes.** A token is a kind, a name, a number and whether a newline trails it. The tracker's
variables are the fields of `declarationTracker`; `observe(token)` is its method, whole, with the calls it makes
(`observeCall`, the enum, the end of a header). `overflowed` says that `declarationInteger` called itself without end,
which in Go ends the process. A cell has `CellBits` bits, 64 in the code and 4 in the run: `Wrap` is two's complement, a
shift count is converted to an unsigned cell as Go does. `Macros` is the macro table a condition finds: the line is
expanded before it is evaluated (MacroExpansion), so a macro is met by the evaluator behind `defined`, in the value of a
symbol, or where expansion stopped, and `Definition` takes an object-like one before a symbol and a declaration. An evaluation is a record of value, position and failure; the
code also goes on after a failure, which is final. Passes chooses a file line by line in its first pass and reads the
same file in the later ones; `answers` are the branches a pass selected, `world` what the live lines declare by the
rules of the language and is read by the properties only.

**Parser.** A parser is a record: tokens, position, `broken`, number of diagnostics, depths, macro names met, and the
node it has just made. `panic(condAbort)` is the flag `abort`, which every operator passes on until the trial that
recovers (`TryConditional`, `Single`). What `parseConditionalRegion` restores is restored field by field as the code
does; what it leaves (`knownMacros`, read positions) stays. A token has offsets, whether a newline trails it, and its line, or
0 where the parser is given `SyntaxToken`s, which carry none. A directive is one token with its line.

| model | code |
|---|---|
| `ItemSequence`, `Item`, `Continues` | `parseItemSequence`, with commas, directives and the continuation of a region |
| `TryConditional`, `Branches`, `ConditionalRegion` | `tryParseConditionalRegion`, `parseConditionalRegion`: trial, marks, what is put back |
| `RawRegion`, `SharedConditional`, `ConsumeSplice`, `FunctionHeaders` | the fallbacks, in the code's order |
| `RecoverStuckItem`, `Recovered` | `recoverStuckItem`, `makeRecoveryNode` |
| `FunctionLike`, `VariableDeclaration`, `Statement`, `Call`, ... | the methods of those names |

**Incremental.** A text is a sequence of symbols of one byte each: tokens, "nl", "sp" and "cm" (a comment over two
lines). `TokensOf` gives the trivia on both sides of a token as the lexer attaches them. `file` is a `CompactFile`,
`index` a `DeclarationIndex`, whose fingerprints are the texts hashed. Actions: `Type` appends a line and parses;
`Reparse`, `Rebase`, `ParseAndRebaseIndex` take one edit each and fire where the code returns true.

**NodeStore, CompactSink.** In NodeStore a node is a number with its children, and `saved` is everything there was at
each mark. CompactSink keeps what the code keeps: per node an index into `data`, per entry inline children, a count and
an index into `spills`, whose slices (block, start, length, capacity) lie in `blocks`. `Allocated` is the three-index
slice expression, `Appended` Go's `append` with its in-place case, `Rewind` the lengths. The mapping reads the children
through the indices and cuts them at the lengths of each mark. `Tree` compacts as `tree` does: `Moved` moves the records
of the nodes that can be reached one after the other, down the array they are read from. Only nodes and lists made after the last mark grow
(`Young`), in both modules: that is how the parser uses a mark, read off every pair of `Mark` and `Rewind` in
`conditionals.go`, `function_declarations.go`, `declarations.go` and `statements.go`, where the trial starts nodes of
its own and what it returns is added to its parent only after it succeeded.

## 4. The runs

Passing runs; TLC finishes each within two minutes with two workers.

| run | what it covers | why the bounds are enough |
|---|---|---|
| conditionals | every file of six lines of text, `#if` (true, unknown, `defined A`), `#elseif`, `#else`, `#endif`, `#endinput`, `#define`, `#undef`, `#assert` and messages, conditionals at most two deep | six lines hold an overflow frame inside two levels with its alternatives, and three branches of one conditional with one nested; the third level behaves as every deeper one |
| includes | two files that include each other and themselves under a root and an optional prefix file, with text, `#if defined A`, `#undef` and `#endinput`; compatibility mode, depth two, four files of two lines, output limit one, context cancelled at any moment; safety and liveness | a file may be on the stack twice (the code's limit), the third attempt is cyclic, and one that alternates reaches the depth limit; after that limit truncated the pass, a file spliced anew can still be the first with an overflowing conditional, and output must stay closed in it; the limit of one token is passed by the second; `#undef` lifts the guard of a path, so files do re-enter in compatibility mode |
| token_cache | three callers (one with a context), one uri, two contents, four identities, every interleaving | two writers with the same content and one with another are the smallest race; one identity more than callers, so one is always free; callers without a context and identities are symmetric |
| reuse | every text of at most four pieces over a letter, newline, `#define`, `#if`, blank and tab; a `#define m` with every four pieces over three letters and newline behind it; every three pieces before a `#define m` and its invocation, and before `#if defined x`; every chain of one-piece edits | a name may be edited into another on either side of a directive (`y` to `m`, `xy` to `x`), which patches tokens that are kept, and a kept definition or condition is shifted by what changes before it; a step is kept with an invocation behind a definition, the case of `reuse_test.go:95`; chains matter because the old result may already be inexact |
| macros | three names, one the paste of the other two; each undefined or one of nine macros; nine lines, as text and as condition; depth limit five | the macros hold empty and growing bodies, self reference, mutual recursion, a body that pastes and one that unwraps; a limit of five leaves room for chains that end and cuts those that do not |
| passes | every file of four lines over eleven statements and five `#if` questions, in up to three passes; twelve probes between any two statements, over four symbols and two macros; some 16000 expressions of up to two operators with prefixes and parentheses, of macros and symbols, and malformed ones | a tagged function, its earlier use and an `#if defined` around either take three lines; cells of four bits overflow and shift out with the operands 0, 1, 7 and -3; the symbols are a number, the name of a macro, one that a macro of its name hides and one that a macro with parameters leaves visible |
| incremental | every text of up to four lines, of nine kinds, behind eight beginnings; in texts of at most three lines every edit that replaces one symbol or none by one of six texts; parse depth four, three diagnostics | the beginnings hold what takes more lines than typing reaches: an if opened in two branches, functions opened in two branches, two headers before one body, a shared else, a body without braces, and, inside a branch, a statement and a function that lack their semicolon; one declaration before and one behind the edited one are enough for indexes to differ |
| sink | two nodes, three children each, a list, two marks, an arena of blocks of three and four cells, one child inline | with a slice of two cells the third child moves it, the first block is left with a cell free, and the list's cells lie between the node's: nothing is allocated that a rewind does not leave in the middle of a block in some state |

What they show, by property:

- ConditionalsNest, ExclusiveBranches, OpenBranchIsOwn, BranchesTile: the conditional frames and the branch records
  agree through every nesting, every order of `#elseif` and `#else`, and every overflow (BranchesTile only where no
  conditional was too deep, see section 5). DeadTextHasNoEffect: no line of dead text touches tables, files, output.
- SuspendedFilesAreLive, IncludeStackExact, IncludeDepthBounded, IncludesFormTree: includes return to live text, are
  counted exactly, stay within the limit and are recorded once. OverflowIsReported: one flag for two limits swallows
  no report of a conditional too deep.
- EndIsReported, TruncatedOutputIsFinal: a truncated result says why and grows no more, also in files spliced afterwards;
  a pass that stops early is truncated or cancelled, and a noticed cancellation fails the pass.
- Terminates (both): a pass ends, an expansion ends (section 6 proves why).
- ConditionsRescan, SelfReferenceStops: hide sets, history and depth limit stop only what would not end; macros that
  name only themselves never cost the budget.
- OwnContent, PrivateUntilStored, ServiceSpec: the cache answers with the right tokens, and is a cache of atomic calls.
- BranchesFollowText, ExactReuse, TriviaReuseIsExact: over every chain of edits kept conditionals are those of the
  text, and an exact result stays exact over an edit that keeps the tokens and the selection.
- VisibleNames, ConditionsTellTheTruth: between any two statements `defined` knows exactly the names in scope, but for
  arrays sized by a name and what an enum declares (section 5), and an evaluated condition has the value the language
  gives it, or is unknown. SeedsExplainFlips: where two passes select
  differently at the same `#if`, the seeds differ.
- WholeTextIsCovered, NoStaleDiagnostics, CleanTreesNest: in a text whose brackets close whatever the `#if` lines select,
  no token is lost to a failed trial and no diagnostic of one is left; in a file that reports no error, which may have
  one in a branch (section 5), children lie in order within their parents.
  TypingKeepsItems: a line typed at the end changes the last item only.
- ReparsedDeclarations, RebasedLikeCleanParse, RebasedIndexIsFresh: each incremental operation gives what parsing the
  new text gives, and an edit inside one declaration only moves the others; section 5 says under which restriction.
- StoreSpec: the sink that cuts lengths back implements the store that brings everything back. TreeIsForest: compacting
  in place keeps every node's children.

Fairness. The engine and the expansion are single loops in one goroutine that nothing blocks: WF of their next step
(`Step`, which leaves out the caller's cancellation; `Next`) says only that the goroutine is scheduled. No other run
assumes fairness. `CHECK_DEADLOCK FALSE` stands where the program ends or the bounds end it (an editor edits once); in
the cache, reuse and sink runs nothing ever stops and deadlock is checked.

## 5. Disagreements

Four runs are violations: TLC shows that the code does not do what a comment or test of the repository says.

| run | property | what happens |
|---|---|---|
| constant_cycle | NeverOverflows | `const C = C; new x[C];` makes `declarationInteger` call itself for ever (`declarations.go:724`); `Run` "never panics on malformed input" |
| reparse | ReparsedLikeCleanParse | with a directive or region before it, a declaration parsed again is thrown away and the old one stretched over the new text, because a child's index is compared with a declaration's (`reparse.go:150`) |
| hidden_errors | ErrorsAreReported | `F() x` in a branch of a conditional, with a line behind it: a semicolon is missing and nothing tells. The branch is added to its region before its items (`conditionals.go:176`), and `AddChild` copies `HasError` only then, so an error in a branch marks neither the region nor the root. The same holds for a body of one statement (`function_declarations.go:54`), and for a shared else, which is a field (`directives.go:238`) |
| sized_array | DeclarationsAreVisible | `const C = 2; new x[C];` declares `C` again and not `x`: `declaratorName` takes the last name of a declarator (`preprocess/declarations.go:581`), although "declarations earlier in the token stream are visible to later conditional directives" (`declarations.go:13`) |

What else modelling showed, where no text of the repository promises otherwise, or one more run would say little more:

- `#else`/`#elseif` of a conditional beyond the depth limit close branch 0 of the result, because an overflow frame
  never sets `openBranchIndex` (`preprocess/directives.go:242`); BranchesTile excludes this.
- A cancellation noticed while a condition is expanded becomes "not evaluable", and the pass may return a result
  (`ifexpr.go:33`).
- An edit on a line that continues a `#define` is judged safe (`reuse.go:223`); a token replaced by a shorter one and
  blanks keeps its old span (`reuse.go:176`); an edit that opens or closes a comment around a later directive passes the
  tests; `touchesMacro` does not look at names that are declared but are no macros. ExactReuse says what holds nonetheless.
- At the top of a line `A(A(x))`, with `#define A(%0) %0`, the inner call is left as it is: the hide set covers captured
  tokens (`pattern.go:343`); in a condition or a level deeper it does not.
- What an enum declares, its entries and its name, is kept for values and sizes; `defined` does not see it. VisibleNames
  excludes these names together with those of sized_array.
- `x[2] = 1;` is recorded as an array declaration of two cells (`preprocess/declarations.go:208`).
- A comment that gains a newline passes `sameCompactGrammar`, which looks at newline trivia only, though the parser also
  compares lines (`rebase.go:76`); RebasedLikeCleanParse excludes comments over lines.
- A rebased table keeps the fingerprint of the next declaration when the edit stands at the end of its own, where two
  declarations touch; RebasedIndexIsFresh excludes an edit at the very end.
- A declaration is parsed again from tokens without lines, so `macroFunctionDefinitionStart`, which compares lines, may
  decide differently; LinesDoNotMatter excludes such texts.
- A compact tree drops a shared else, which is a field of the region and no child of anything (`reachableNodes`).
- A directive that stands where the statement of an `else` or `if` must ends the sequence and the rest of the file is in no
  node, without a diagnostic (`directives.go:150`, `statements.go:46`); StatementsFollow excludes it.
- A failed trial for a body of one statement keeps its diagnostics (`function_declarations.go:26`).

## 6. The proofs

| theorem | for all | argument |
|---|---|---|
| TypeCorrect | constants of Preprocess | one lemma per handler; branch and file indices stay natural numbers, the frame stack is empty only at the end |
| ConditionalsAlwaysNest, SuspendedAlwaysLive, IncludeDepthAlwaysBounded | constants of Preprocess | from the inductive invariant `NestInv` and TypeOK |
| PassDescends (action property) | constants of Preprocess | TypeOK, IncludeDepthBounded: the work left in the files read, in the order of the stack |
| DeadTextNeverHasEffect (action property) | constants of Preprocess | NestInv: a live conditional is live all the way up, so what the innermost frame says decides |
| TruncatedOutputIsAlwaysFinal (action property), EndIsAlwaysReported | constants of Preprocess | TypeOK; `LimitInv` |
| OverflowIsAlwaysReported | constants of Preprocess | `OverflowInv`, which needs LimitInv and NestInv |
| IncludesAlwaysFormTree, IncludeStackAlwaysExact, CompatAlwaysIncludesOnce | constants of Preprocess | `TreeInv`; the first of its conjuncts; that and `GuardInv` |
| OpenBranchIsAlwaysOwn, BranchesAlwaysExclusive, BranchesAlwaysTile | constants of Preprocess | `OwnInv`; the property itself is inductive with OwnInv; `TileInv`, which needs OwnInv and OverflowInv |
| CacheTyped, CacheCorrect, UnstoredIsPrivate | callers, uris, contents, identities | `Inv == TypeOK /\ OwnContent /\ PrivateUntilStored` is inductive |
| CacheImplementsService | the same | every step of TokenCache maps to Share, Replace or another step of TokenService or to a stutter |
| ShiftMonotone, ShiftInside | texts and edits | cases on where an offset lies |
| ShiftKeepsText | texts and edits | a span the edit does not reach is the same slice of both texts (lemma SlicesAgree) |
| FoundIsEdit, FoundIsShortest | pairs of texts | what `CompatibleEdit` finds takes the old text to the new one, and no other edit that does is shorter: the longest common beginning, then the longest common end |
| TriviaReuseKeepsAll (action property) | pieces, documents and bounds of Reuse | texts of the same layout have the same lines of tokens, the same text for each token the engine reads |
| RebasedTableIsFresh | parsers, texts, edits | ShiftKeepsText; the declarations around the edit's own lie on one side of it |
| ExpansionTyped | names, macros, lines, depth limit | one lemma per operator: lexing, substitution, replacement keep tokens well formed |
| ExpansionDescends (action property), LighterIsFinite | the same | ExpansionTyped; a weight per depth, ranked |
| SinkAlwaysInOrder | sizes of the sink: inline children, first slice, blocks, bounds | `SinkInv` is inductive |
| SinkImplementsStore | the same | from SinkInv: every step of CompactSink maps to the step of NodeStore of that name or to a stutter |
| AlwaysPointed | the same | `Pointed` is inductive in the store, and the sink implements the store |
| TreeAlwaysForest | the same | from SinkInv and Pointed: an invariant of the moves of `Moved`, by induction along them |

*Nesting.* None of the three properties proved from NestInv is inductive alone: a file resumes in live text only because it was live when
it was suspended, and that a new frame nests within the limit rests on the test in `handleInclude`, made in the
includer, and on the prefix file being spliced first into a root without conditionals. `NestInv` is their
conjunction with `PrefixIsFirst`. The proof classes the twenty-odd actions by their *shape*: a step rewrites the
conditionals of the current file, pushes a new file, pops one, or leaves the frames alone (lemma NextShape); each shape
keeps NestInv (RewriteKeepsNesting, PushKeepsNesting, PopKeepsNesting).

*Dead text.* DeadTextHasNoEffect asks for all frames and all conditionals of a frame, `Active` in the code for the
innermost only. Lemma LiveThroughout closes the gap from NestInv: were there a dead conditional below a live one, there
would be a first one (LeastElement, from the library's well-founded induction), and its successor contradicts nesting.

*Limits.* `LimitInv` ties each flag to its cause: truncated to one of the diagnostics of a limit, stopped to truncated or
cancelled, and, what EndIsReported does not say, an output beyond its limit to truncation: nothing is appended to it
then, so it never passes the limit by more than one token. OverflowIsReported is about one flag, `depthLimitWarned`, that two
limits set: that of conditionals and that of macro expansion. That a conditional found too deep is reported although the
flag may be set already holds only because the limit of expansion also stops the pass: LimitInv says that
`depthLimitWarned /\ ~stopped` means the diagnostic for conditionals was given, and a pass that has stopped opens
nothing. `OverflowInv` then follows step by step.

*Records.* `TreeInv` is three invariants. `StackInv`: frame *i* reads the file recorded at depth *i*-1, deeper frames read
later files, and the include that waits in a frame names the frame below. `EdgesInv`: a record's child lies one level
below its file. `ParentsInv`: a file that is being read is no child yet, every other has exactly one record. IncludesFormTree
alone says nothing of the record that waits in a frame, which is the next one to be added. For the counts of
includeStack a step is classed once more, by what it does to the stack of files: *Stays*, *Descends* or *Ascends* (lemma
StackSteps). CompatIncludesOnce holds through `GuardInv`: every file spliced under a guard symbol has it in `symbols`, and
without `#undef` a symbol stays; the file is registered before its text is read, so even one that includes itself is
stopped.

*Branches.* For the branch records each step is classed as in lemma StepKinds: it leaves the records, opens a
conditional (within the limit or beyond it), adds an alternative, closes one, or splices or ends a file. `OwnInv` says of
every frame on the stack, suspended ones included, and of every conditional in it within the limit: `open` is a record
of this file and depth, selected as the frame says; later records of the file lie deeper; and `taken` is set if that
record or an earlier one of the same conditional was selected. The last clause is the strengthening ExclusiveBranches
needs: the code never looks at old records, only at `taken`. An included file appends its records between those of its
includer; StackInv keeps them apart, as no two frames read the same file record. TileInv excludes passes with a
conditional too deep, for which the property is false (section 5); OverflowInv says that none is open then.

*Sink.* The refinement holds although a rewind restores nothing. `SinkInv` says why, in three parts beside the types:
*IndicesOK*, no two nodes share an index into `data` or `spills`; *SlicesOK*, every slice in use was given out by the
arena and no two have a cell in common (a spare one behind a slice's length included, since `append` writes there);
*MarksOK*, what existed when a mark was set has indices below the mark's lengths and cells before its end of the
arena. None is inductive without the others. The lemmas about the arena (RoomFacts, AllocFacts, FilledFacts,
AppendedFacts) say what `alloc` and `append` do for any arena: `Gives` and `Spares` state that the new slice is apart from
every other and that every other keeps its items. Then one lemma per action shows that SinkInv is kept and what
becomes of the mapped state (`Forest`, `ListItems`, `Saved`), and SinkStep puts them together. The hardest is Rewind
(CutToFacts): the slices left behind a mark may be handed out again, and are not held by anyone; those before it lie
in blocks that stay, at cells that stay. `Young`, the discipline of the parser described in section 3, is used where a
node or a list grows (NodeGrows, ListStepKeeps): an older one that grew after a mark would hold cells behind it.

*Finished tree.* `tree` reads records from the array it writes to. `Renumbered` is increasing and never above the number
it renumbers, so a move writes to a place from which everything has been read: after the moves of all nodes up to *i*
the records of the reachable ones among them stand, renumbered, at their places, and the others are as they were. That
a child renumbered is a record at all needs `Pointed`: children are nodes that exist, also after a rewind has taken
nodes back. Pointed is proved of the store, where a rewind brings everything back, and carried to the sink through the
refinement.

*The end of a pass, the end of an expansion.* That something ends under fairness is beyond the prover; that nothing can
go on for ever is not. Both are shown by numbers ranked by place: a step lowers one of them and raises none before it.
For a pass (`Work`) the places are the files on the stack, each with the lines left in it and its end, behind the flags
a pass sets once; an include consumes its own line and adds a file behind it, and the limit of depth bounds the places. The
bound on the number of files is not used. For an expansion (`Weight`) the places are depths, each with the tokens waiting
there: a replacement takes away the tokens of an invocation, the name among them at depth *d*, and what it puts in
their place lies deeper; the limit of depth gives up the line. Lemma NoWayDown of Counting says that such numbers do
not fall for ever, and LighterIsFinite that tokens do not. What liveness adds, that a step is taken while there is one,
the runs check. Both descents hold in every state TLC finds in the conditionals, includes and macros runs'
instances; they are not properties of these runs, which check Terminates.

*Expansion.* ExpansionTyped is more than types: depths stay within the limit, at the top of a line every token is of
depth zero, and a history names defined macros only. What lexing gives is shown by induction along the atoms (LexUpto), and
Substitute keeps the captures of a pattern lexable whatever was captured (FlattenKeeps, SubstituteKeeps).

*Reuse.* An edit changes blanks or comments of the same extent: then `InComment` agrees and so do the pieces of `Code`, the
tokens with their texts, the logical lines, and what folds over them. FoundIsShortest is what makes `CompatibleEdit` as
good as knowing the edit: any edit between the two texts contains the one that is found.

*Table.* RebasedTableIsFresh is about operators, as the specification of Incremental reaches the parser, which is
RECURSIVE. A file there is any text with any list of nodes in it. Its hypotheses are what `RebaseDeclarationIndex` takes
for granted of the parser: declarations come in order (`InOrder`), and those other than the edited one are where
the edit moves them (`OthersMoved`). That the parser does so is model-checked, as RebasedIndexIsFresh states it of every
table that is rebased. From them follows what the code does not compute again: a declaration that lies before or
behind the edit has the text it had (SameFingerprint, from ShiftKeepsText), and as no kind and no name changed, the
same number of like ones before it. The theorem leaves out an edit at the very end of a declaration, where it is
false (section 5).

CacheCorrect needs PrivateUntilStored because OwnContent is about the caller's slice and Store decides from the
entry: a slice not yet stored must be of the caller's own content, and a stored one that of its hash.

The assumptions are those the modules name: NamesAssumption, FilesAssumption and LimitsAssumption (limits are
positive, as `Options` defaults make them; guard symbols are names), EmptyAssumption (no slice is the empty one),
SinkAssumption (at least one child inline, and a first slice with room for more than those, as the constants of
`compact_sink.go` are), ReuseAssumption (documents are made of the pieces, and these are among those the lexer of the model knows), and
ExpansionAssumption (names are words, bodies and lines are texts, captures stand in the bodies of patterns only).

Only model-checked, and why:

- liveness (`Terminates`, twice): WF and ENABLED are beyond the prover; the descent that makes it true is proved;
- ConditionsRescan: the reference is a RECURSIVE operator;
- SelfReferenceStops: holds for the macros and lines of the run, not for all: the depth limit counts the replacements on
  the way to a token, and calls of `A(%0)` that are nested deeper than the limit are given up although A names nothing;
- BranchesFollowText, ExactReuse, and TypeOK of Reuse: they hold for texts without comments and continued lines, as in
  the run, and not beyond (section 5), so there is nothing to prove for all pieces;
- every property of Passes and Incremental: the evaluator of conditions and the parser are recursive descents, written
  with RECURSIVE operators, and what they compute is induction over data. VisibleNames and SeedsExplainFlips fold
  `observe` over the tokens of a line besides. Of RebasedIndexIsFresh the part that is not the parser's is proved, as
  RebasedTableIsFresh.

All safety and action properties of Preprocess, TokenCache and CompactSink are proved. CompatAlwaysIncludesOnce is proved
and in no run: it speaks of passes in which nothing is undefined.

## 7. Not modelled

- *Parser*: what only adds alternatives of the same shape. Operators and their precedence, ternaries, tags and casts,
  subscripts and dimensions, state selectors, enums, switch, loops, do, return, goto and labels, macro invocations of the
  other forms (operators, annotations, known declaration macros), iterator arguments, literals and string concatenation,
  the bodies of includes and macros. Also `ensureErrorDiagnostics` and the polls of the context.
- *Sinks*: fields (kept as children are, in an arena of their own), spans, errors, trivia, and the arenas of the pointer
  sink.
- *Lexer*: the scanning of literals and operators, the second builder and the pool of blocks. Reuse, MacroExpansion and
  Incremental lex words, blanks, directives and comments only.
- *Tokens, positions, typed syntax, file set, listings*: data types, accessors and layout; no control of their own.
- *Declarations*: tags and states of headers, attribute lists, spelling of names. *Conditions*: literals as text.
- In expansion: macros with named parameters, strings and quotes, the optional semicolon, a match that ends inside a
  token, source origins and listings. In Reuse: includes, diagnostics, `Files[0].Tokens` (kept from the old text) and
  `BodySpan` (not shifted).
- Resolver implementations on the file system: the resolver is a choice of answers.

## 8. Plan

Done, in this order, the most important behaviour first: Preprocess and its proofs; TokenService and TokenCache and
their proofs; Edits; Reuse; MacroExpansion; Declarations, Conditions and Passes; Parser and Incremental; NodeStore and
CompactSink; the remaining properties of Preprocess, and that CompactSink implements NodeStore, proved; then the finished
tree, trivia reuse, the edit that is found, the rebased table, the types of expansion, and why a pass and an expansion end.

What would come next:

1. *Conditions*: the evaluator as one recursive function over rule and position, so that theorems about Passes, such as
   VisibleNames, can be stated.
2. *Reuse*: the weakest condition on comments and continued lines under which BranchesFollowText holds, and its proof.
3. *Lexer*: plain and compact builder, step by step, as two implementations of one specification.

Runs are few and broad on purpose: a new question joins the configuration whose states already reach it.
