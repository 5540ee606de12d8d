---------------------------- MODULE Rescanning ----------------------------
(***************************************************************************)
(* Textual rescanning, and that a condition is expanded to what it gives.  *)
(***************************************************************************)
EXTENDS MacroExpansionProps

(* The reference: the text is rescanned from its first token that still    *)
(* may be replaced, no token remembering where it comes from.              *)

Ends(words) == [ends |-> TRUE, out |-> words]
Before(words, r) == [r EXCEPT !.out = words \o @]

RECURSIVE Rescan(_, _)
Rescan(text, replacements) ==
    LET s == Lex(text)
        operand == IF Len(s) > 1 /\ s[2].text = <<"(">> THEN 3 ELSE 2
        n == IF operand <= Len(s) /\ Alphanum(s[operand]) /\ ~Keyword(s[operand]) THEN operand
             ELSE operand - 1
        rest(k) == Text(Rest(s, k))
    IN  IF s = <<>> THEN Ends(<<>>)
        ELSE IF conditionMode /\ Keyword(s[1])
        THEN Before([k \in 1 .. n |-> s[k].text], Rescan(rest(n), replacements))
        ELSE IF Invocations(s) = {}
        THEN Before(<<s[1].text>>, Rescan(rest(1), replacements))
        ELSE IF replacements = 0 THEN [ends |-> FALSE, out |-> <<>>]
        ELSE LET inv == CHOOSE i \in Invocations(s) : TRUE
                 blank == IF s[inv.last].glued THEN <<>> ELSE <<" ">>
             IN  Rescan(inv.text \o blank
                            \o rest(inv.last),
                        replacements - 1)

SameAsRescan ==
    LET r == Rescan(line, MaxExpansionDepth)
    IN  Done /\ r.ends => ~truncated /\ out = r.out

\* Where rescanning the text ends, a condition is expanded to the same
\* tokens: the hide sets, the history and the depth stop what would not end
\* and nothing else, and the operand of defined is kept (expandRun: "PawnCC
\* rescans textually").
ConditionsRescan == conditionMode => SameAsRescan

============================================================================
