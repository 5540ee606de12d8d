---------------------------- MODULE Declarations ----------------------------
(* The declaration tracker of the preprocessor (preprocess/declarations.go):
   it watches the tokens a pass writes and keeps what `defined`, `sizeof` and
   constants by name ask for in a later #if. One step observes one token.

   A token is a kind, a name ("" where its text is no name), a number (of an
   integer literal, or the characters of a string literal) and whether its
   trailing trivia hold a newline. Names are already cut to MaxSymbolLength. *)
EXTENDS Integers, FiniteSets, SequencesExt

CONSTANTS Names,        \* every text that macroNameText takes for a name
          PackedStrings \* the listing's option: strings are packed by default

ASSUME TrackerAssumption == /\ "" \notin Names
                            /\ PackedStrings \in BOOLEAN

VARIABLES functions, declaredFuncs, usedBefore,      \* sets of names
          globals, constants, arrays,                \* values of the program
          enumSizes, enumFields, activeEnum,
          scopes,                                    \* names of the open blocks
          header, parenDepth, bracketDepth,          \* the statement being read
          pendingParams, pendingFunc, needsReparse,
          overflowed                                 \* the goroutine's stack

calls == <<functions, declaredFuncs, usedBefore, needsReparse>>
values == <<globals, constants, arrays, scopes>>
enums == <<enumSizes, enumFields, activeEnum>>
statement == <<header, parenDepth, bracketDepth>>
pending == <<pendingParams, pendingFunc>>
tracker == <<calls, values, enums, statement, pending, overflowed>>

Modifiers == {"KwNative", "KwForward", "KwPublic", "KwStock", "KwStatic", "KwConst"}
Transparent == {"KwStatic", "KwStock", "KwPublic"}
ValueStarts == {"KwNew", "KwConst", "KwEnum", "KwReturn", "KwIf", "KwElse",
                "KwFor", "KwWhile", "KwSwitch"}
NonCallKeywords == {"KwIf", "KwFor", "KwWhile", "KwSwitch", "KwSizeof",
                    "KwTagof", "KwDefined", "KwReturn"}
Kinds == Modifiers \cup ValueStarts \cup NonCallKeywords
         \cup {"Identifier", "IntLiteral", "StringLiteral", "PackedString",
               "LParen", "RParen", "LBracket", "RBracket", "LBrace", "RBrace",
               "Comma", "Semicolon", "Colon", "Assign", "Plus", "Minus"}

Token == [kind : Kinds, name : Names \cup {""}, number : Int, newline : BOOLEAN]

Openers == {"LParen", "LBracket", "LBrace"}
Closers == {"RParen", "RBracket", "RBrace"}

NoEnum == [name |-> "", entry |-> <<>>, parenDepth |-> 0, bracketDepth |-> 0, next |-> -1]
Nothing == [x \in {} |-> x]                       \* the empty map

Put(map, key, value) == [k \in DOMAIN map \cup {key} |-> IF k = key THEN value ELSE map[k]]

-----------------------------------------------------------------------------
(* Reading a sequence of tokens. *)

Has(items, kind) == \E i \in DOMAIN items : items[i].kind = kind

(* The first position that satisfies a test, 0 if there is none. *)
FirstOf(items, Test(_)) ==
  LET found == {i \in DOMAIN items : Test(i)}
  IN  IF found = {} THEN 0 ELSE CHOOSE i \in found : \A j \in found : i <= j

LastOf(items, Test(_)) ==
  LET found == {i \in DOMAIN items : Test(i)}
  IN  IF found = {} THEN 0 ELSE CHOOSE i \in found : \A j \in found : i >= j

(* How many delimiters are open after each position; a closer too many counts
   for nothing. *)
Depth(items) ==
  LET d[i \in 0 .. Len(items)] ==
        IF i = 0 THEN 0
        ELSE CASE items[i].kind \in Openers -> d[i - 1] + 1
               [] items[i].kind \in Closers -> Max({0, d[i - 1] - 1})
               [] OTHER -> d[i - 1]
  IN  d

(* The delimiter that closes the one at position `open`, counting one kind. *)
Matching(items, open, opener, closer) ==
  LET d[i \in open - 1 .. Len(items)] ==
        IF i = open - 1 THEN 0
        ELSE CASE items[i].kind = opener -> d[i - 1] + 1
               [] items[i].kind = closer -> d[i - 1] - 1
               [] OTHER -> d[i - 1]
  IN  FirstOf(items, LAMBDA i : i > open /\ items[i].kind = closer /\ d[i] = 0)

(* The pieces between the positions of a set, in order. *)
Pieces(items, cuts) ==
  LET at == <<0>> \o SetToSortSeq(cuts, <) \o <<Len(items) + 1>>
  IN  [i \in 1 .. Len(at) - 1 |-> SubSeq(items, at[i] + 1, at[i + 1] - 1)]

TopCommas(items) == LET d == Depth(items)
                    IN  {i \in DOMAIN items : items[i].kind = "Comma" /\ d[i] = 0}
TopAssign(items) == LET d == Depth(items)
                    IN  FirstOf(items, LAMBDA i : items[i].kind = "Assign" /\ d[i] = 0)

LastName(items) ==
  LET i == LastOf(items, LAMBDA j : items[j].name # "" /\ items[j].kind \notin Modifiers)
  IN  IF i = 0 THEN "" ELSE items[i].name

Before(items, i) == IF i = 0 THEN items ELSE SubSeq(items, 1, i - 1)
After(items, i) == SubSeq(items, i + 1, Len(items))

declaratorName(items) == LastName(Before(items, TopAssign(items)))

parameterNames(items) ==
  {declaratorName(s) : s \in Range(Pieces(items, TopCommas(items)))} \ {""}

variableDeclarations(items) ==
  LET keyword == FirstOf(items, LAMBDA i : items[i].kind \in {"KwNew", "KwConst"})
  IN  IF keyword = 0 THEN {} ELSE parameterNames(After(items, keyword))

(* The segments that assign to a name, the last one of a name counts. *)
constantsOf(segments) ==
  FoldLeft(LAMBDA found, s : IF TopAssign(s) = 0 \/ declaratorName(s) = "" THEN found
                             ELSE Put(found, declaratorName(s), After(s, TopAssign(s))),
           Nothing, segments)

BeforeSemicolon(items) ==
  Before(items, FirstOf(items, LAMBDA i : items[i].kind = "Semicolon"))

TopSegments(items) == Pieces(items, TopCommas(items))

(* name |-> initializer of a const declaration, which a semicolon ends. *)
constantDeclarations(items) ==
  LET keyword == FirstOf(items, LAMBDA i : items[i].kind = "KwConst")
  IN  IF keyword = 0 THEN Nothing
      ELSE constantsOf(TopSegments(BeforeSemicolon(After(items, keyword))))

declarationStartsValue(items) ==
  LET first == FirstOf(items, LAMBDA i : items[i].kind \notin Transparent)
  IN  first # 0 /\ items[first].kind \in ValueStarts

(* What a statement that heads a function declares, NoFunction for another. *)
NoFunction == [name |-> "", params |-> {}, tagged |-> FALSE]
FunctionHead(items, open, at, closing) ==
  [name |-> items[at].name,
   params |-> IF closing = 0 THEN {} ELSE parameterNames(SubSeq(items, open + 1, closing - 1)),
   tagged |-> at >= 3 /\ items[at - 1].kind = "Colon" /\ items[at - 2].name # "_"]

functionDeclaration(items) ==
  LET open == FirstOf(items, LAMBDA i : items[i].kind = "LParen")
      assign == FirstOf(items, LAMBDA i : items[i].kind = "Assign")
      at == LastOf(items, LAMBDA i : /\ i < open
                                     /\ items[i].name # ""
                                     /\ items[i].kind \notin Modifiers)
  IN  IF \/ declarationStartsValue(items)
         \/ open <= 1
         \/ assign # 0 /\ assign < open
         \/ at = 0
      THEN NoFunction
      ELSE FunctionHead(items, open, at, Matching(items, open, "LParen", "RParen"))

-----------------------------------------------------------------------------
(* Integers by name. declarationInteger follows constants from name to name
   and keeps no set of names already seen: a cycle has no end, and the
   goroutine's stack overflows, which no recover stops. *)

Known(n) == [ok |-> TRUE, value |-> n, overflow |-> FALSE]
Unknown == [ok |-> FALSE, value |-> 0, overflow |-> FALSE]
Overflow == [ok |-> FALSE, value |-> 0, overflow |-> TRUE]

(* An expression without the parentheses around all of it and its sign. *)
Bare(items) ==
  LET wraps == {k \in 0 .. Len(items) \div 2 :
                  \A i \in 1 .. k : /\ items[i].kind = "LParen"
                                    /\ items[Len(items) - i + 1].kind = "RParen"}
      k == CHOOSE w \in wraps : \A v \in wraps : v <= w
      inner == SubSeq(items, k + 1, Len(items) - k)
      signed == inner # <<>> /\ inner[1].kind \in {"Minus", "Plus"}
  IN  [sign |-> IF signed /\ inner[1].kind = "Minus" THEN -1 ELSE 1,
       items |-> IF signed THEN Tail(inner) ELSE inner]

declarationInteger(items, consts, sizes) ==
  LET Signed(sign, r) == [r EXCEPT !.value = sign * @]
      integer[its \in Seq(Token), seen \in SUBSET Names] ==
        LET Named(n) == CASE n \in DOMAIN sizes -> Known(sizes[n])
                          [] n \notin DOMAIN sizes \cup DOMAIN consts -> Unknown
                          [] n \in (DOMAIN consts \ DOMAIN sizes) \cap seen -> Overflow
                          [] OTHER -> integer[consts[n], seen \cup {n}]
            Read(sign, rest) ==
              CASE Len(rest) # 1 -> Unknown
                [] Len(rest) = 1 /\ rest[1].kind = "IntLiteral" -> Known(sign * rest[1].number)
                [] Len(rest) = 1 /\ rest[1].kind = "Identifier" -> Signed(sign, Named(rest[1].name))
                [] OTHER -> Unknown
            bare == Bare(its)
        IN  Read(bare.sign, bare.items)
  IN  integer[items, {}]

-----------------------------------------------------------------------------
(* Arrays. Every statement with a bracket is read as a declaration. *)

(* The expressions in the bracket groups from position i on. *)
Dimensions(items, start) ==
  LET groups[i \in 1 .. Len(items) + 2] ==
        IF i > Len(items) THEN <<>>
        ELSE IF items[i].kind # "LBracket" THEN groups[i + 1]
        ELSE LET closing == Matching(items, i, "LBracket", "RBracket")
             IN  IF closing = 0 THEN <<>>
                 ELSE <<SubSeq(items, i + 1, closing - 1)>> \o groups[closing + 1]
  IN  groups[start]

(* The cells of the string that initializes an array, 0 if none does. *)
inferredArraySize(initializer) ==
  LET at == FirstOf(initializer, LAMBDA i : initializer[i].kind \in {"StringLiteral", "PackedString"})
      packed == initializer[at].kind = "PackedString" \/ PackedStrings
  IN  CASE at = 0 -> 0
        [] at # 0 /\ packed -> (initializer[at].number + 4) \div 4
        [] OTHER -> initializer[at].number + 1

splitDeclarationSegments(items) ==
  LET d == Depth(items)
      end == FirstOf(items, LAMBDA i : items[i].kind = "Semicolon" /\ d[i] = 0)
      body == Before(items, end)
  IN  Pieces(body, TopCommas(body))

NameBeforeBracket(declarator, bracket) ==
  LastOf(declarator, LAMBDA i : /\ i < bracket \/ bracket = 0
                                /\ declarator[i].kind = "Identifier")

NoArray == [name |-> "", dimensions |-> <<>>, enumIndex |-> "", overflow |-> FALSE]

(* groups: the expressions in brackets; cells: what they are. *)
ArrayOf(name, groups, cells, inferred, sizes) ==
  [name |-> name,
   dimensions |-> [i \in DOMAIN cells |-> IF i = 1 /\ cells[i].value = 0 THEN inferred
                                         ELSE cells[i].value],
   enumIndex |-> IF /\ Len(groups[1]) = 1
                    /\ groups[1][1].kind = "Identifier"
                    /\ groups[1][1].name \in DOMAIN sizes
                 THEN groups[1][1].name ELSE "",
   overflow |-> \E i \in DOMAIN cells : cells[i].overflow]

ArrayNamedAt(declarator, at, groups, initializer, consts, sizes) ==
  IF at = 0 \/ groups = <<>> THEN NoArray
  ELSE ArrayOf(declarator[at].name, groups,
               [i \in DOMAIN groups |-> declarationInteger(groups[i], consts, sizes)],
               inferredArraySize(initializer), sizes)

ArrayDeclared(declarator, initializer, consts, sizes) ==
  LET bracket == FirstOf(declarator, LAMBDA i : declarator[i].kind = "LBracket")
      at == NameBeforeBracket(declarator, bracket)
  IN  ArrayNamedAt(declarator, at, Dimensions(declarator, at + 1), initializer, consts, sizes)

(* The array a segment declares; no dimensions if it declares none. *)
SegmentArray(segment, consts, sizes) ==
  LET assign == TopAssign(segment)
  IN  ArrayDeclared(Before(segment, assign), IF assign = 0 THEN <<>> ELSE After(segment, assign),
                    consts, sizes)

SegmentArrays(items, consts, sizes) ==
  LET segments == splitDeclarationSegments(items)
  IN  IF ~Has(items, "LBracket") THEN <<>>
      ELSE [i \in DOMAIN segments |-> SegmentArray(segments[i], consts, sizes)]

(* An array whose size is not known is not recorded. *)
recordArrayDeclarations(found, known) ==
  FoldLeft(LAMBDA all, f :
             IF f.dimensions = <<>> \/ f.dimensions[1] <= 0 THEN all
             ELSE Put(all, f.name, [dimensions |-> f.dimensions, enumIndex |-> f.enumIndex]),
           known, found)

sizeOf(name, selectors) ==
  LET array == arrays[name]
  IN  CASE name \notin DOMAIN arrays -> Unknown
        [] name \in DOMAIN arrays /\ selectors = <<>> -> Known(array.dimensions[1])
        [] /\ name \in DOMAIN arrays /\ selectors # <<>>
           /\ array.enumIndex # "" /\ selectors[1] \in DOMAIN enumFields
             -> Known(enumFields[selectors[1]])
        [] OTHER -> Known(IF Len(selectors) < Len(array.dimensions)
                          THEN array.dimensions[Len(selectors) + 1] ELSE 1)

-----------------------------------------------------------------------------
(* Enums. `e` is what an enum's tokens change: constants, the tables of enums
   and the enum being read. *)

enumState == [constants |-> constants, enumSizes |-> enumSizes,
              enumFields |-> enumFields, activeEnum |-> activeEnum]

beginEnum ==
  LET keyword == FirstOf(header, LAMBDA i : header[i].kind = "KwEnum")
      at == FirstOf(header, LAMBDA i : i > keyword /\ header[i].kind = "Identifier")
  IN  IF activeEnum # NoEnum \/ keyword = 0 THEN activeEnum
      ELSE [NoEnum EXCEPT !.next = 0, !.name = IF at = 0 THEN "" ELSE header[at].name]

NumberToken(n) == [kind |-> "IntLiteral", name |-> "", number |-> n, newline |-> FALSE]

EntryRead(name, value, span, overflow) ==
  [state |-> [constants |-> Put(constants, name, <<NumberToken(value)>>),
              enumSizes |-> enumSizes,
              enumFields |-> Put(enumFields, name, span),
              activeEnum |-> [activeEnum EXCEPT !.entry = <<>>, !.next = value + span]],
   overflow |-> overflow]

EntryNamed(name, given, cells) ==
  EntryRead(name, IF given.ok THEN given.value ELSE activeEnum.next,
            IF cells.ok /\ cells.value > 0 THEN cells.value ELSE 1,
            given.overflow \/ cells.overflow)

(* The entry's first name becomes a constant; its value may be given, and its
   cells too. overflow says whether looking one up overflowed. *)
finishEnumEntry ==
  LET entry == activeEnum.entry
      at == FirstOf(entry, LAMBDA i : entry[i].kind = "Identifier")
      assign == FirstOf(entry, LAMBDA i : entry[i].kind = "Assign")
      open == FirstOf(entry, LAMBDA i : i > at /\ entry[i].kind = "LBracket")
      closing == Matching(entry, open, "LBracket", "RBracket")
      Integer(items) == declarationInteger(items, constants, enumSizes)
  IN  IF at = 0
      THEN [state |-> [enumState EXCEPT !.activeEnum.entry = <<>>], overflow |-> FALSE]
      ELSE EntryNamed(entry[at].name,
                      IF assign = 0 THEN Unknown ELSE Integer(After(entry, assign)),
                      IF open = 0 \/ closing = 0 THEN Unknown
                      ELSE Integer(SubSeq(entry, open + 1, closing - 1)))

(* A counter of delimiters that a closer too many leaves at zero. *)
Nested(depth, item, opener, closer) ==
  CASE item.kind = opener -> depth + 1
    [] item.kind = closer -> Max({0, depth - 1})
    [] OTHER -> depth

EnumEnded(done) ==
  [done EXCEPT !.state.activeEnum = NoEnum,
               !.state.enumSizes = IF done.state.activeEnum.name = "" THEN enumSizes
                                   ELSE Put(enumSizes, done.state.activeEnum.name,
                                            done.state.activeEnum.next)]

EnumContinued(item, paren, bracket) ==
  CASE item.kind \notin {"Comma", "RBrace"} \/ paren # 0 \/ bracket # 0 ->
         [state |-> [enumState EXCEPT !.activeEnum =
                       [@ EXCEPT !.entry = Append(@, item), !.parenDepth = paren,
                                 !.bracketDepth = bracket]],
          overflow |-> FALSE]
    [] item.kind = "Comma" /\ paren = 0 /\ bracket = 0 -> finishEnumEntry
    [] OTHER -> EnumEnded(finishEnumEntry)

observeEnumToken(item) ==
  EnumContinued(item, Nested(activeEnum.parenDepth, item, "LParen", "RParen"),
                Nested(activeEnum.bracketDepth, item, "LBracket", "RBracket"))

observeEnum(item) ==
  CASE item.kind = "LBrace" -> [state |-> [enumState EXCEPT !.activeEnum = beginEnum],
                                overflow |-> FALSE]
    [] item.kind # "LBrace" /\ activeEnum # NoEnum -> observeEnumToken(item)
    [] OTHER -> [state |-> enumState, overflow |-> FALSE]

-----------------------------------------------------------------------------
(* The effects of finishHeader on a statement `h`, after the enum tables `e`
   were updated: a record of everything it may change. An empty statement
   changes nothing, not even what is pending. *)

NothingFinished(e) ==
  [functions |-> functions, declaredFuncs |-> declaredFuncs, needsReparse |-> needsReparse,
   globals |-> globals, constants |-> e.constants, arrays |-> arrays, scopes |-> scopes,
   pendingParams |-> pendingParams, pendingFunc |-> pendingFunc, overflow |-> FALSE]

(* For a mutant: a local name declared with the globals. *)
declareValuesGlobally(names) == <<globals \cup names, scopes>>

declareValues(names) ==
  IF scopes = <<>> THEN <<globals \cup names, scopes>>
  ELSE <<globals, [scopes EXCEPT ![Len(scopes)] = @ \cup names]>>

StatementEffects(e, hasBody, head, consts, found, declared) ==
  LET isFunction == head # NoFunction
  IN  [functions |-> IF isFunction THEN functions \cup {head.name} ELSE functions,
       declaredFuncs |-> IF isFunction THEN declaredFuncs \cup {head.name} ELSE declaredFuncs,
       needsReparse |-> needsReparse \/ (isFunction /\ head.tagged /\ head.name \in usedBefore),
       globals |-> declared[1],
       constants |-> consts,
       arrays |-> recordArrayDeclarations(found, arrays),
       scopes |-> declared[2],
       pendingParams |-> IF isFunction /\ hasBody THEN head.params ELSE {},
       pendingFunc |-> isFunction /\ hasBody,
       overflow |-> \E i \in DOMAIN found : found[i].overflow]

(* A global statement may declare constants and head a function. *)
finishHeader(h, e, hasBody) ==
  LET top == scopes = <<>>
      consts == IF top THEN constantDeclarations(h) @@ e.constants ELSE e.constants
  IN  IF h = <<>> THEN NothingFinished(e)
      ELSE StatementEffects(e, hasBody, IF top THEN functionDeclaration(h) ELSE NoFunction,
                            consts, SegmentArrays(h, consts, e.enumSizes),
                            declareValues(variableDeclarations(h)))

(* What every step that finishes a statement assigns. *)
Finish(f, e) ==
  /\ functions' = f.functions
  /\ declaredFuncs' = f.declaredFuncs
  /\ needsReparse' = f.needsReparse
  /\ globals' = f.globals
  /\ constants' = f.constants
  /\ arrays' = f.arrays
  /\ enumSizes' = e.enumSizes
  /\ enumFields' = e.enumFields
  /\ activeEnum' = e.activeEnum
  /\ header' = <<>> /\ parenDepth' = 0 /\ bracketDepth' = 0

(* The process is gone: nothing of the pass is left to observe. *)
StackOverflow ==
  /\ overflowed' = TRUE
  /\ UNCHANGED <<calls, values, enums, statement, pending>>

-----------------------------------------------------------------------------
(* observe, by the kind of the token. *)

ObserveLBrace(item) ==
  /\ item.kind = "LBrace"
  /\ \E e \in {observeEnum(item).state} : \E f \in {finishHeader(header, e, TRUE)} :
       \/ f.overflow /\ StackOverflow
       \/ /\ ~f.overflow
          /\ Finish(f, e)
          /\ scopes' = Append(f.scopes, IF f.pendingFunc THEN f.pendingParams ELSE {})
          /\ pendingParams' = {}
          /\ pendingFunc' = FALSE
          /\ UNCHANGED <<usedBefore, overflowed>>

ObserveRBrace(item) ==
  /\ item.kind = "RBrace"
  /\ \E o \in {observeEnum(item)} : \E f \in {finishHeader(header, o.state, FALSE)} :
       \/ (o.overflow \/ f.overflow) /\ StackOverflow
       \/ /\ ~(o.overflow \/ f.overflow)
          /\ Finish(f, o.state)
          /\ scopes' = IF f.scopes = <<>> THEN <<>> ELSE Front(f.scopes)
          /\ pendingParams' = f.pendingParams
          /\ pendingFunc' = f.pendingFunc
          /\ UNCHANGED <<usedBefore, overflowed>>

(* A name before an opening parenthesis is a call, unless it heads a global
   declaration: the function is known from here on. *)
IsCall(item) ==
  /\ item.kind = "LParen"
  /\ header # <<>>
  /\ Last(header).name # ""
  /\ Last(header).kind \notin NonCallKeywords
  /\ scopes # <<>> \/ declarationStartsValue(header) \/ Has(header, "Assign")

(* For a mutant: the use is noted, the function is not. *)
observeUseOnly(item) ==
  <<functions, IF IsCall(item) /\ Last(header).name \notin declaredFuncs
               THEN usedBefore \cup {Last(header).name} ELSE usedBefore>>

observeCall(item) ==
  LET name == Last(header).name
  IN  IF ~IsCall(item) THEN <<functions, usedBefore>>
      ELSE <<functions \cup {name},
             IF name \in declaredFuncs THEN usedBefore ELSE usedBefore \cup {name}>>

(* Does the token end the statement: a semicolon or a newline outside all
   parentheses and brackets; a newline does not end the head of an enum. *)
EndsBySemicolon(item, paren, bracket) ==
  item.kind = "Semicolon" /\ paren = 0 /\ bracket = 0
EndsByNewline(item, h, paren, bracket) ==
  item.newline /\ paren = 0 /\ bracket = 0 /\ ~Has(h, "KwEnum")

ObserveOther(item) ==
  /\ item.kind \notin {"LBrace", "RBrace"}
  /\ \E o \in {observeEnum(item)}, c \in {observeCall(item)},
        h \in {Append(header, item)},
        paren \in {Nested(parenDepth, item, "LParen", "RParen")},
        bracket \in {Nested(bracketDepth, item, "LBracket", "RBracket")} :
       \/ o.overflow /\ StackOverflow
       \/ /\ ~o.overflow
          /\ ~EndsBySemicolon(item, paren, bracket)
          /\ ~EndsByNewline(item, h, paren, bracket)
          /\ functions' = c[1]
          /\ usedBefore' = c[2]
          /\ constants' = o.state.constants
          /\ enumSizes' = o.state.enumSizes
          /\ enumFields' = o.state.enumFields
          /\ activeEnum' = o.state.activeEnum
          /\ header' = h /\ parenDepth' = paren /\ bracketDepth' = bracket
          /\ UNCHANGED <<declaredFuncs, needsReparse, globals, arrays, scopes, pending, overflowed>>
       \/ /\ ~o.overflow
          /\ \/ EndsBySemicolon(item, paren, bracket)
             \/ EndsByNewline(item, h, paren, bracket)
          /\ \E f \in {finishHeader(h, o.state, ~EndsBySemicolon(item, paren, bracket))} :
               \/ f.overflow /\ StackOverflow
               \/ /\ ~f.overflow
                  /\ Finish(f, o.state)
                  /\ scopes' = f.scopes
                  /\ pendingParams' = f.pendingParams
                  /\ pendingFunc' = f.pendingFunc
                  /\ UNCHANGED <<usedBefore, overflowed>>

observe(item) ==
  /\ ~overflowed
  /\ ObserveLBrace(item) \/ ObserveRBrace(item) \/ ObserveOther(item)

(* defined: the scopes, the functions, the globals. *)
defined(name) ==
  \/ \E i \in DOMAIN scopes : name \in scopes[i]
  \/ name \in functions
  \/ name \in globals

NewTracker(seeds) ==
  /\ functions = seeds
  /\ declaredFuncs = {} /\ usedBefore = {} /\ globals = {}
  /\ constants = Nothing /\ arrays = Nothing
  /\ enumSizes = Nothing /\ enumFields = Nothing /\ activeEnum = NoEnum
  /\ scopes = <<>> /\ header = <<>> /\ parenDepth = 0 /\ bracketDepth = 0
  /\ pendingParams = {} /\ pendingFunc = FALSE
  /\ needsReparse = FALSE /\ overflowed = FALSE

=============================================================================
