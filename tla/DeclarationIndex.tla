-------------------------- MODULE DeclarationIndex --------------------------
(***************************************************************************)
(* The table of a file's declarations and how it is brought up to date     *)
(* after an edit (declaration_index.go).  A file is a text, whether it has *)
(* errors, and the root of its tree; a node has a kind, offsets, err and   *)
(* kids.                                                                   *)
(***************************************************************************)
EXTENDS Edits, FiniteSets

DeclarationKind(n) == IF n.kind = "alias" THEN "declaration" ELSE n.kind
IsDeclaration(n) == DeclarationKind(n) \in {"function", "declaration", "variable"}

RangeOf(n) == ByteRange(n.from, n.to)

\* declarationName: the name of a function, or of the first declarator.
NameLeaf(n) ==
    LET kids == IF n.kind = "variable"
                THEN SelectSeq(n.kids, LAMBDA k : k.kind = "declarator")[1].kids
                ELSE SelectSeq(n.kids, LAMBDA k : k.kind = "id")
    IN  IF n.kind = "variable" THEN kids[1] ELSE kids[Len(kids)]

declarationName(n, text) ==
    LET declarators == SelectSeq(n.kids, LAMBDA k : k.kind = "declarator")
    IN  IF n.kind = "variable" /\ (declarators = <<>> \/ declarators[1].kids = <<>>) THEN ""
        ELSE text[NameLeaf(n).from + 1].name

DeclarationsOf(file) == SelectSeq(file.root.kids, IsDeclaration)

\* declarationBoundary: the identity is kind, name and ordinal, the
\* fingerprint is the text.
Boundary(file, declarations, i) ==
    LET n == declarations[i]
        same(j) == /\ DeclarationKind(declarations[j]) = DeclarationKind(n)
                   /\ declarationName(declarations[j], file.source)
                        = declarationName(n, file.source)
    IN  [kind |-> DeclarationKind(n), range |-> RangeOf(n),
         name |-> declarationName(n, file.source),
         ordinal |-> Cardinality({j \in 1 .. (i - 1) : same(j)}),
         fingerprint |-> Slice(file.source, RangeOf(n)), err |-> n.err]

BuildDeclarationIndex(file) ==
    LET declarations == DeclarationsOf(file)
        items == [i \in DOMAIN declarations |-> Boundary(file, declarations, i)]
        previousEnd(i) == IF i = 1 THEN 0 ELSE items[i - 1].range.to
    IN  [items |-> items,
         reliable |-> /\ ~file.errors
                      /\ \A i \in DOMAIN items :
                            /\ items[i].range.from >= previousEnd(i)
                            /\ items[i].range.to >= items[i].range.from
                            /\ ~items[i].err]

Encloses(outer, inner) == outer.from <= inner.from /\ inner.to <= outer.to

\* containingDeclaration, rebaseTarget: the one declaration around a range, or 0.
Containing(index, r) ==
    LET around == {i \in DOMAIN index.items : Encloses(index.items[i].range, r)}
    IN  IF Cardinality(around) = 1 THEN CHOOSE i \in around : TRUE ELSE 0

NoIndex == [items |-> <<>>, reliable |-> FALSE]

\* Mutant: the changed declaration keeps its fingerprint too.
RebasedBoundaryKept(previous, fresh, i, target) ==
    [fresh EXCEPT !.fingerprint = previous.items[i].fingerprint]

\* rebaseBoundary: only the changed declaration is hashed again.
RebasedBoundary(previous, fresh, i, target) ==
    IF i = target THEN fresh
    ELSE [fresh EXCEPT !.fingerprint = previous.items[i].fingerprint,
                       !.ordinal = previous.items[i].ordinal]

RebaseDeclarationIndex(previous, file, edit) ==
    LET target == Containing(previous, edit.before)
        fresh == BuildDeclarationIndex(file).items
        sameShape == \A i \in DOMAIN fresh :
                        /\ fresh[i].kind = previous.items[i].kind
                        /\ fresh[i].name = previous.items[i].name
                        /\ ~fresh[i].err
                        /\ i = target => fresh[i].ordinal = previous.items[i].ordinal
    IN  IF /\ previous.reliable /\ ~file.errors /\ target # 0
           /\ Len(fresh) = Len(previous.items) /\ sameShape
        THEN [items |-> [i \in DOMAIN fresh |-> RebasedBoundary(previous, fresh[i], i, target)],
              reliable |-> TRUE]
        ELSE NoIndex

----------------------------------------------------------------------------
(* What bringing the table up to date takes for granted *)

\* Declarations come in the order of the text.
InOrder(items) ==
    \A i \in DOMAIN items :
        /\ items[i].range.from <= items[i].range.to
        /\ i > 1 => items[i - 1].range.to <= items[i].range.from

\* The parser leaves the other declarations where the edit moves them.
OthersMoved(previous, file, edit) ==
    LET items == BuildDeclarationIndex(file).items
    IN  \A i \in DOMAIN items \ {Containing(previous, edit.before)} :
            items[i].range = ShiftRange(previous.items[i].range, edit)

=============================================================================
