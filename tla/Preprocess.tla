---------------------------- MODULE Preprocess ----------------------------
(***************************************************************************)
(* One pass of the preprocessing engine: runPass and everything it calls   *)
(* in preprocess/engine.go, directives.go and includes.go, with the parts  *)
(* of ifexpr.go, macro.go and expand.go that touch the engine's state.     *)
(*                                                                         *)
(* The engine reads a stack of files line by line.  What a line says is    *)
(* chosen as it is read, so the model covers every content of every file;  *)
(* an offset in a file is the number of its line, counted from 0.          *)
(***************************************************************************)
EXTENDS Integers, Sequences, FiniteSets

CONSTANTS
    Names,               \* names, already cut to MaxSymbolLength
    Bodies,              \* replacement texts a #define may give
    NoMacro,             \* stands for a name the macro table has no entry for
    Conditions,          \* conditions of #if, #elseif and #assert
    Paths,               \* what an include names
    CompatName,          \* the automatic guard symbol of a path
    Uris,                \* files a resolver may return
    NotFound,            \* the resolver has no such file
    Resolutions,         \* answers of the resolver; {} when Resolver is nil
    Prefix,              \* "none", "optional" or "required"
    Compatibility,       \* Options.Compatibility
    Cancellable,         \* RunContext rather than Run
    MaxConditionalDepth, MaxIncludeDepth, MaxOutputTokens,
    Kinds,               \* bound: kinds of line the files contain
    MaxFileLines,        \* bound: lines of a file
    MaxFiles             \* bound: files one pass splices, the root included

Truth == {"true", "false", "unknown"}

ASSUME NamesAssumption ==
    /\ Conditions \subseteq Truth \cup Names
    /\ Names \cap Truth = {}
    /\ CompatName \in [Paths -> Names]
    /\ NoMacro \notin Bodies

ASSUME FilesAssumption ==
    /\ Resolutions \subseteq Uris \cup {NotFound}
    /\ NotFound \notin Uris
    /\ Prefix \in {"none", "optional", "required"}

ASSUME LimitsAssumption ==
    /\ MaxConditionalDepth \in Nat \ {0}
    /\ MaxIncludeDepth \in Nat \ {0}
    /\ MaxOutputTokens \in Nat \ {0}
    /\ MaxFileLines \in Nat
    /\ Compatibility \in BOOLEAN
    /\ Cancellable \in BOOLEAN

VARIABLES
    frames,        \* the files being read, root first; the last one is current
    files,         \* Result.Files
    includeStack,  \* uri -> how many of the frames splice it
    macros,        \* the macro table
    symbols,       \* engine.symbols
    declared,      \* names the declaration tracker has seen declared
    branches,      \* Result.Branches
    includes,      \* Result.Includes
    diags,         \* codes of the diagnostics reported so far
    outputTokens,  \* engine.outputTokens
    truncated, stopped, depthLimitWarned,
    ctxDone,       \* the caller's context is cancelled
    cancelled,     \* engine.cancelled # nil
    condCancelled, \* condition.cancelled # nil in some evalCondition
    phase          \* "prefix", "running", then "ok" or "error"

tables == <<macros, symbols, declared>>
limits == <<truncated, stopped, depthLimitWarned>>
splices == <<files, includeStack, includes>>
context == <<ctxDone, cancelled, condCancelled>>
vars == <<frames, tables, splices, branches, diags, outputTokens, limits,
          context, phase>>

---------------------------------------------------------------------------
(* Frames and conditional frames. *)

NoInclude == [file |-> 0, path |-> "", optional |-> FALSE,
              resolved |-> FALSE, child |-> 0]

NewFrame(file, uri, inc) ==
    [file |-> file, uri |-> uri, line |-> 0, cond |-> <<>>,
     endinput |-> FALSE, inc |-> inc]

Top == frames[Len(frames)]
TopCond == Top.cond[Len(Top.cond)]

\* frame.currentActive
Active(f) == f.cond # <<>> => f.cond[Len(f.cond)].branchActive

Pop(s) == SubSeq(s, 1, Len(s) - 1)
SetLast(s, x) == [s EXCEPT ![Len(s)] = x]

\* The current frame behind the line just read, its conditionals now c.
Past(f, c) == [f EXCEPT !.line = @ + 1, !.cond = c]
Consume(c) == frames' = SetLast(frames, Past(Top, c))
SkipLine == Consume(Top.cond)

\* The test of the runContents loop, and the line it finds there.
Running == phase = "running" /\ ~stopped /\ ~Top.endinput
ReadLine(kind) == Running /\ kind \in Kinds /\ Top.line < MaxFileLines

Report(when, code) == diags' = diags \cup (IF when THEN {code} ELSE {})

---------------------------------------------------------------------------
(* Conditions.  A cancelled evaluation answers "unknown": evalCondition     *)
(* drops condition.cancelled.                                               *)

Defined(n) == macros[n] # NoMacro \/ n \in symbols \/ n \in declared

Value(c) == IF c \in Names THEN (IF Defined(c) THEN "true" ELSE "false") ELSE c

EvalCondition(c) ==
    {Value(c)} \cup (IF Cancellable /\ ctxDone THEN {"unknown"} ELSE {})

\* evaluateBranch: v is read only under a live parent.
Evaluate(parent, c, v) ==
    /\ Report(parent /\ v = "unknown", "unresolvable-condition")
    /\ condCancelled' = (condCancelled \/ (parent /\ v # Value(c)))

---------------------------------------------------------------------------
(* Branch records. *)

NextIndexLast == Len(branches)             \* mutant: read before the append
NextIndex == Len(branches) + 1

Branch(kind, depth, active, evaluated) ==
    [file |-> Top.file, directive |-> kind, depth |-> depth,
     from |-> Top.line + 1, to |-> Top.line + 1,
     active |-> active, evaluated |-> evaluated]

CondFrame(parent, active, index) ==
    [parentActive |-> parent, branchActive |-> active, taken |-> active,
     open |-> index, overflow |-> FALSE]

\* openBranchIndex is never set in an overflow frame: its zero value is the
\* index of the first branch.
OverflowFrame(parent) ==
    [parentActive |-> parent, branchActive |-> FALSE, taken |-> TRUE,
     open |-> 1, overflow |-> TRUE]

CloseNothing == branches                   \* mutant: closeBranch forgotten
CloseBranch ==
    IF TopCond.open \in DOMAIN branches
    THEN [branches EXCEPT ![TopCond.open].to = Top.line]
    ELSE branches

---------------------------------------------------------------------------
(* Conditional directives. *)

WarnedByAny == truncated                   \* mutant: any limit counts
Warned == depthLimitWarned

IfOverflow ==
    /\ Len(Top.cond) >= MaxConditionalDepth
    /\ truncated' = TRUE
    /\ depthLimitWarned' = TRUE
    /\ Report(~Warned, "conditional-depth-limit")
    /\ Consume(Append(Top.cond, OverflowFrame(Active(Top))))
    /\ UNCHANGED <<stopped, branches, context>>

IfOpen(c) ==
    /\ Len(Top.cond) < MaxConditionalDepth
    /\ \E v \in EvalCondition(c) :
          LET parent == Active(Top)
              active == parent /\ v = "true"
          IN  /\ Evaluate(parent, c, v)
              /\ branches' = Append(branches,
                     Branch("if", Len(Top.cond) + 1, active, parent))
              /\ Consume(Append(Top.cond,
                     CondFrame(parent, active, NextIndex)))
    /\ UNCHANGED <<limits, ctxDone, cancelled>>

HandleIf(c) ==
    /\ ReadLine("if")
    /\ IfOverflow \/ IfOpen(c)
    /\ UNCHANGED <<tables, splices, outputTokens, phase>>

\* #elseif, #else or #endif with no open conditional in this file.
Unmatched(code) ==
    /\ Top.cond = <<>>
    /\ Report(TRUE, code)
    /\ SkipLine
    /\ UNCHANGED <<branches, condCancelled>>

\* #elseif and #else of a conditional beyond the limit: closeBranch has
\* already run when the overflow flag is tested.
OverflowAlternative ==
    /\ Top.cond # <<>> /\ TopCond.overflow
    /\ branches' = CloseBranch
    /\ SkipLine
    /\ UNCHANGED <<diags, condCancelled>>

\* Close the open branch and open the next one of the same conditional.
NextBranch(kind, active, evaluated) ==
    /\ branches' = Append(CloseBranch,
           Branch(kind, Len(Top.cond), active, evaluated))
    /\ Consume(SetLast(Top.cond,
           [TopCond EXCEPT !.branchActive = active,
                           !.taken = @ \/ active,
                           !.open = NextIndex]))

ElseifTaken ==
    /\ Top.cond # <<>> /\ ~TopCond.overflow /\ TopCond.taken
    /\ NextBranch("elseif", FALSE, FALSE)
    /\ UNCHANGED <<diags, condCancelled>>

ElseifEvaluated(c) ==
    /\ Top.cond # <<>> /\ ~TopCond.overflow /\ ~TopCond.taken
    /\ \E v \in EvalCondition(c) :
          /\ Evaluate(TopCond.parentActive, c, v)
          /\ NextBranch("elseif", TopCond.parentActive /\ v = "true",
                        TopCond.parentActive)

HandleElseif(c) ==
    /\ ReadLine("elseif")
    /\ \/ Unmatched("unmatched-elseif")
       \/ OverflowAlternative
       \/ ElseifTaken
       \/ ElseifEvaluated(c)
    /\ UNCHANGED <<tables, splices, outputTokens, limits, ctxDone, cancelled,
                   phase>>

ElseIgnoresTaken == TopCond.parentActive   \* mutant: #else always taken
ElseIgnoresParent == ~TopCond.taken        \* mutant: #else wakes dead text
ElseActive == TopCond.parentActive /\ ~TopCond.taken

ElseBranch ==
    /\ Top.cond # <<>> /\ ~TopCond.overflow
    /\ NextBranch("else", ElseActive, TopCond.parentActive)
    /\ UNCHANGED <<diags, condCancelled>>

HandleElse ==
    /\ ReadLine("else")
    /\ Unmatched("unmatched-else") \/ OverflowAlternative \/ ElseBranch
    /\ UNCHANGED <<tables, splices, outputTokens, limits, ctxDone, cancelled,
                   phase>>

Endif ==
    /\ Top.cond # <<>>
    /\ branches' = IF TopCond.overflow THEN branches ELSE CloseBranch
    /\ Consume(Pop(Top.cond))
    /\ UNCHANGED <<diags, condCancelled>>

HandleEndif ==
    /\ ReadLine("endif")
    /\ Unmatched("unmatched-endif") \/ Endif
    /\ UNCHANGED <<tables, splices, outputTokens, limits, ctxDone, cancelled,
                   phase>>

---------------------------------------------------------------------------
(* Text.  A line stands for one token; appendOut observes it, counts it,    *)
(* and drops it when the pass is already truncated.                         *)

OutputClosedLate == stopped                \* mutant: only a stop closes it
OutputClosed == truncated

OutputFull == ~truncated /\ outputTokens >= MaxOutputTokens

AppendOut(names) ==
    IF OutputClosed
    THEN UNCHANGED <<declared, outputTokens, truncated, stopped>>
    ELSE /\ declared' = declared \cup names
         /\ outputTokens' = outputTokens + 1
         /\ truncated' = OutputFull
         /\ stopped' = (stopped \/ OutputFull)

\* What one token may declare: a name, or nothing.
Declarations == {{}} \cup {{n} : n \in Names}

\* emitActive on a token no macro matches (a macro with parameters may have
\* its name without matching); it may declare a name.
EmitLine(names) ==
    /\ ReadLine("text")
    /\ SkipLine
    /\ IF Active(Top)
       THEN AppendOut(names) /\ Report(OutputFull, "output-size-limit")
       ELSE UNCHANGED <<declared, outputTokens, truncated, stopped, diags>>
    /\ UNCHANGED <<macros, symbols, splices, branches, depthLimitWarned,
                   context, phase>>

\* An invocation replaced: its arguments may run over further lines, which
\* are consumed unread, and its replacement may be empty.
ExpandReplaced ==
    /\ \E next \in (Top.line + 1) .. MaxFileLines :
          frames' = SetLast(frames, [Top EXCEPT !.line = next])
    /\ \/ UNCHANGED <<declared, outputTokens, truncated, stopped, diags>>
       \/ /\ \E names \in Declarations : AppendOut(names)
          /\ Report(OutputFull, "output-size-limit")
    /\ UNCHANGED depthLimitWarned

\* No closing parenthesis before the end of the file, which is now reached.
ExpandUnterminated ==
    /\ frames' = SetLast(frames, [Top EXCEPT !.line = MaxFileLines])
    /\ AppendOut({})
    /\ diags' = diags \cup {"unterminated-macro-invocation"}
                      \cup (IF OutputFull THEN {"output-size-limit"} ELSE {})
    /\ UNCHANGED depthLimitWarned

\* reportExpansionDepth
ExpandTooDeep ==
    /\ ~truncated
    /\ SkipLine
    /\ truncated' = TRUE
    /\ stopped' = TRUE
    /\ depthLimitWarned' = TRUE
    /\ Report(~Warned, "expansion-depth-limit")
    /\ UNCHANGED <<declared, outputTokens>>

\* emitActive on a token the macro table matches.
ExpandLine(n) ==
    /\ ReadLine("text")
    /\ Active(Top)
    /\ macros[n] # NoMacro
    /\ ExpandReplaced \/ ExpandUnterminated \/ ExpandTooDeep
    /\ UNCHANGED <<macros, symbols, splices, branches, context, phase>>

---------------------------------------------------------------------------
(* The other directives. *)

HandleDefine(n, body) ==
    /\ ReadLine("define")
    /\ SkipLine
    /\ macros' = IF Active(Top) THEN [macros EXCEPT ![n] = body] ELSE macros
    /\ Report(Active(Top) /\ macros[n] \notin {NoMacro, body},
              "malformed-define")
    /\ UNCHANGED <<symbols, declared, splices, branches, outputTokens, limits,
                   context, phase>>

UndefAlways == TRUE                        \* mutant: the test is dropped
UndefApplies == Active(Top)

HandleUndef(n) ==
    /\ ReadLine("undef")
    /\ SkipLine
    /\ IF UndefApplies
       THEN /\ macros' = [macros EXCEPT ![n] = NoMacro]
            /\ symbols' = symbols \ {n}
       ELSE UNCHANGED <<macros, symbols>>
    /\ UNCHANGED <<declared, splices, branches, diags, outputTokens, limits,
                   context, phase>>

HandleAssert(c) ==
    /\ ReadLine("assert")
    /\ SkipLine
    /\ \E v \in EvalCondition(c) :
          /\ diags' = diags \cup
                 (IF ~Active(Top) \/ v = "true" THEN {}
                  ELSE IF v = "false" THEN {"assert-failed"}
                  ELSE {"assert-unknown"})
          /\ condCancelled' = (condCancelled \/ (Active(Top) /\ v # Value(c)))
    /\ UNCHANGED <<tables, splices, branches, outputTokens, limits, ctxDone,
                   cancelled, phase>>

\* Directives whose only effect is a diagnostic in live text: #error and
\* #warning, an unknown directive, a #define with no name, an #include with
\* no path.  #pragma, #line, #file and #emit have no effect at all.
MessageCodes == {"user-error", "user-warning", "unknown-directive",
                 "malformed-define", "malformed-include"}

HandleMessage(code) ==
    /\ ReadLine("message")
    /\ SkipLine
    /\ Report(Active(Top), code)
    /\ UNCHANGED <<tables, splices, branches, outputTokens, limits, context,
                   phase>>

HandleEndinput ==
    /\ ReadLine("endinput")
    /\ frames' = SetLast(frames,
           [Past(Top, Top.cond) EXCEPT !.endinput = Active(Top)])
    /\ UNCHANGED <<tables, splices, branches, diags, outputTokens, limits,
                   context, phase>>

---------------------------------------------------------------------------
(* Includes. *)

IncludeRecord(path, optional, resolved) ==
    [file |-> Top.file, path |-> path, optional |-> optional,
     resolved |-> resolved, child |-> 0]

\* The directive is recorded and no file is read.
RecordOnly(inc, when, code) ==
    /\ SkipLine
    /\ includes' = Append(includes, inc)
    /\ Report(when, code)
    /\ UNCHANGED <<files, includeStack, cancelled, stopped>>

\* spliceInclude up to the child's first line: parent is the frame below it.
SpliceInclude(parent, uri, inc) ==
    /\ Len(files) < MaxFiles
    /\ files' = Append(files, [uri |-> uri, path |-> inc.path,
                               depth |-> Len(frames)])
    /\ includeStack' = [includeStack EXCEPT ![uri] = @ + 1]
    /\ frames' = Append(SetLast(frames, parent),
                        NewFrame(Len(files) + 1, uri, inc))
    /\ UNCHANGED <<includes, diags, cancelled, stopped>>

\* The tokenizer of the spliced file notices the cancellation.
SpliceCancelled ==
    /\ Cancellable /\ ctxDone
    /\ cancelled' = TRUE
    /\ stopped' = TRUE
    /\ UNCHANGED <<files, includeStack, diags>>

Guarded(path) == Compatibility /\ CompatName[path] \in symbols

Cyclic(uri) == includeStack[uri] >= 2

TooDeepLate == Len(frames) > MaxIncludeDepth + 1   \* mutant: off by one
TooDeep == Len(frames) > MaxIncludeDepth

IncludeResolved(path, optional, uri) ==
    LET inc == IncludeRecord(path, optional, TRUE) IN
    \/ /\ Cyclic(uri)
       /\ RecordOnly(inc, TRUE, "include-cycle")
       /\ UNCHANGED <<symbols, truncated>>
    \/ /\ ~Cyclic(uri) /\ TooDeep
       /\ RecordOnly(inc, TRUE, "include-depth-limit")
       /\ truncated' = TRUE
       /\ UNCHANGED symbols
    \/ /\ ~Cyclic(uri) /\ ~TooDeep
       /\ symbols' = IF Compatibility THEN symbols \cup {CompatName[path]}
                     ELSE symbols
       /\ \/ SpliceInclude(Past(Top, Top.cond), uri, inc)
          \/ SpliceCancelled /\ SkipLine /\ UNCHANGED includes
       /\ UNCHANGED truncated

IncludeUnresolved(path, optional) ==
    /\ \/ /\ Guarded(path) \/ Resolutions = {}
          /\ RecordOnly(IncludeRecord(path, optional, FALSE), FALSE, "")
       \/ /\ ~Guarded(path) /\ NotFound \in Resolutions
          /\ RecordOnly(IncludeRecord(path, optional, FALSE), ~optional,
                        "include-not-found")
    /\ UNCHANGED <<symbols, truncated>>

IncludeAnywhere == TRUE                     \* mutant: dead text includes
IncludeApplies == Active(Top)

IncludeInactive ==
    /\ ~IncludeApplies
    /\ SkipLine
    /\ UNCHANGED <<splices, diags, symbols, truncated, cancelled, stopped>>

HandleInclude(path, optional) ==
    /\ ReadLine(IF optional THEN "tryinclude" ELSE "include")
    /\ \/ IncludeInactive
       \/ IncludeApplies /\ IncludeUnresolved(path, optional)
       \/ /\ IncludeApplies /\ ~Guarded(path)
          /\ \E uri \in Resolutions \ {NotFound} :
                IncludeResolved(path, optional, uri)
    /\ UNCHANGED <<macros, declared, branches, outputTokens, depthLimitWarned,
                   ctxDone, condCancelled, phase>>

\* handleImplicitPrefix, before the first line of the root: no guard symbol
\* and no cycle check, and the record is kept when the splice is cancelled.
ImplicitPrefix ==
    /\ phase = "prefix"
    /\ phase' = "running"
    /\ LET optional == Prefix = "optional"
           inc == [NoInclude EXCEPT !.file = 1, !.path = "prefix",
                                    !.optional = optional]
       IN  \/ /\ Resolutions = {}
              /\ UNCHANGED <<frames, splices, diags, cancelled, stopped>>
           \/ /\ NotFound \in Resolutions
              /\ includes' = Append(includes, inc)
              /\ Report(~optional, "include-not-found")
              /\ UNCHANGED <<frames, files, includeStack, cancelled, stopped>>
           \/ \E uri \in Resolutions \ {NotFound} :
                 LET found == [inc EXCEPT !.resolved = TRUE] IN
                 \/ SpliceInclude(Top, uri, found)
                 \/ /\ SpliceCancelled
                    /\ includes' = Append(includes, found)
                    /\ UNCHANGED frames
    /\ UNCHANGED <<tables, branches, outputTokens, truncated, depthLimitWarned,
                   ctxDone, condCancelled>>

LeaveTwice == [includeStack EXCEPT ![Top.uri] = 0]   \* mutant: key deleted
Leave == [includeStack EXCEPT ![Top.uri] = @ - 1]

ReturnedBare == [Top.inc EXCEPT !.child = 0]   \* mutant: ChildFile not set
Returned == [Top.inc EXCEPT !.child = Top.file]

OutcomeAlways == "ok"                       \* mutant: the error is dropped
Outcome == IF cancelled THEN "error" ELSE "ok"

\* The loop of runContents is left, at the end of the file, after #endinput
\* or because the pass stopped.
LeftUnlessStopped == phase = "running" /\ ~stopped   \* mutant: a stop is ignored
FileLeft == phase = "running"

\* The splice that started the file returns.
FinishFrame ==
    /\ FileLeft
    /\ Report(Top.cond # <<>> /\ ~Top.endinput /\ ~stopped,
              "unterminated-conditional")
    /\ frames' = Pop(frames)
    /\ IF Len(frames) > 1
       THEN /\ includeStack' = Leave
            /\ includes' = Append(includes, Returned)
            /\ UNCHANGED phase
       ELSE /\ phase' = Outcome
            /\ UNCHANGED <<includeStack, includes>>
    /\ UNCHANGED <<tables, files, branches, outputTokens, limits, context>>

---------------------------------------------------------------------------
(* Cancellation. *)

CancelContext ==
    /\ Cancellable /\ ~ctxDone
    /\ phase \in {"prefix", "running"}
    /\ ctxDone' = TRUE
    /\ UNCHANGED <<frames, tables, splices, branches, diags, outputTokens,
                   limits, cancelled, condCancelled, phase>>

\* Every 256th step looks at the context; which step that is is left open.
PollCancellation ==
    /\ Running /\ Cancellable /\ ctxDone
    /\ cancelled' = TRUE
    /\ stopped' = TRUE
    /\ UNCHANGED <<frames, tables, splices, branches, diags, outputTokens,
                   truncated, depthLimitWarned, ctxDone, condCancelled, phase>>

---------------------------------------------------------------------------

\* runPass: engine.symbols starts as Options.Symbols and the macro table with
\* Options.Predefined; the empty ones stand for all, since #define adds to
\* the one and Compatibility to the other.
Init ==
    /\ frames = <<NewFrame(1, "root", NoInclude)>>
    /\ files = <<[uri |-> "root", path |-> "", depth |-> 0]>>
    /\ includeStack = [u \in Uris |-> 0]
    /\ macros = [n \in Names |-> NoMacro]
    /\ symbols = {}
    /\ declared = {}
    /\ branches = <<>>
    /\ includes = <<>>
    /\ diags = {}
    /\ outputTokens = 0
    /\ truncated = FALSE
    /\ stopped = FALSE
    /\ depthLimitWarned = FALSE
    /\ ctxDone = FALSE
    /\ cancelled = FALSE
    /\ condCancelled = FALSE
    /\ phase = IF Prefix = "none" THEN "running" ELSE "prefix"

Step ==
    \/ ImplicitPrefix
    \/ \E c \in Conditions : HandleIf(c) \/ HandleElseif(c) \/ HandleAssert(c)
    \/ HandleElse
    \/ HandleEndif
    \/ \E names \in Declarations : EmitLine(names)
    \/ \E n \in Names : ExpandLine(n) \/ HandleUndef(n)
    \/ \E n \in Names, body \in Bodies : HandleDefine(n, body)
    \/ \E path \in Paths, optional \in BOOLEAN : HandleInclude(path, optional)
    \/ \E code \in MessageCodes : HandleMessage(code)
    \/ HandleEndinput
    \/ PollCancellation
    \/ FinishFrame

Next == Step \/ CancelContext

Spec == Init /\ [][Next]_vars

\* The pass is one sequential loop: it always takes its next step.
FairSpec == Spec /\ WF_vars(Step)

============================================================================
