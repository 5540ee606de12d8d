------------------------------ MODULE MCReuse ------------------------------
(* Values for the constants of Reuse. *)
EXTENDS ReuseProps

Over(pieces, n) == UNION {[1 .. k -> pieces] : k \in 0 .. n}

\* Every text of a few pieces.
Short == Over({"m", "\n", "#define ", "#if ", " ", "\t"}, 4)

\* A macro, and any text behind it that may invoke it.
BehindDefine == {<<"#define ", "m", "\n">> \o s : s \in Over({"x", "y", "m", "\n"}, 4)}

\* Any text before a macro and its invocation.
BeforeDefine == {s \o <<"\n", "#define ", "m", "\n", "m">> : s \in Over({"x", "y", "\n", " "}, 3)}

\* Any text before a conditional that asks for a name it may declare.
BeforeIf == {s \o <<"\n", "#if ", "x", "\n", "m", "\n", "#endif ">> : s \in Over({"x", "y", "\n", " "}, 3)}

MCPieces == {"x", "y", "m", "\n", "#define ", "#if ", "#endif ", " ", "\t"}
MCDocuments == Short \cup BehindDefine \cup BeforeDefine \cup BeforeIf

============================================================================
