------------------------------- MODULE MCAlias -------------------------------
(* Aliases of up to two words of up to two pieces; tf is on PATH. *)
EXTENDS Alias

Plain(c) == [quote |-> "none", text |-> <<c>>]
Quoted(q, text) == [quote |-> q, text |-> text]

DoubleQuoted == {Plain("tf"), Plain("x"), Quoted(DQ, <<"-", Space>>), Quoted(DQ, <<>>)}
SingleQuoted == DoubleQuoted \union {Quoted(SQ, <<"x", Space>>)}

MCLetters == {"tf", "x"}
MCSigns == {"-"}
MCPrograms == {<<"tf">>}
MCOwnArgs == <<<<"x">>>>

\* Nothing; a space and an escape sequence; another name's definition that ends
\* in ours.
MCChatter ==
    {[lines |-> <<>>, glued |-> g] : g \in {<<>>, <<Space, CSI>>}}
        \union {[lines |-> <<<<CSI>>, <<"x", Token, "tf">>>>, glued |-> <<>>]}
=============================================================================
