------------------------- MODULE MCMacroExpansion -------------------------
(* Values for the constants of MacroExpansion. *)
EXTENDS Rescanning

MCWords == {"A", "B", "x"}
MCNames == {<<"A">>, <<"B">>, <<"A", "B">>}

Object(body) == [pattern |-> FALSE, body |-> body]
Pattern(body) == [pattern |-> TRUE, body |-> body]

MCMacros == {
    Object(<<>>), Object(<<"x">>), Object(<<"A">>), Object(<<"B">>),
    Object(<<"A", " ", "x">>),
    Pattern(<<"%0">>), Pattern(<<"A", "(", "%0", ")">>),
    Pattern(<<"B", "(", "%0", "x", ")">>), Pattern(<<"A", "%0">>)}

MCLines == {
    <<"A">>,
    <<"A", " ", "B">>,
    <<"A", "(", "A", "(", "x", ")", ")">>,
    <<"A", "(", "B", ")", "B">>,
    <<"B", "(", "A", "(", "B", ")", ")", " ", "A", "B">>,
    <<"A", "(", "x", " ", "A", ")", "x", "(", "B">>,
    <<"B", " ", "A", "B", "(", "B", "(", ")", ")">>,
    <<"defined", " ", "A", "(", "A", ")">>,
    <<"A", "(", "defined", "(", "B", ")", ")", " ", "B">>}

============================================================================
