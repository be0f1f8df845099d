------------------------------ MODULE MCLexer ------------------------------
(* Texts for Lexer: every text of a few characters from groups whose members *)
(* combine: words and numbers, operators, quotes, comments.                  *)
EXTENDS Lexer

Upto(n, chars) == UNION {[1..k -> chars] : k \in 0..n}

Texts ==
    Upto(4, {"0", "1", "_", ".", "e", "-", "x"})
    \cup Upto(4, {".", "=", "<", ">", "&", "|", "-", "*"})
    \cup Upto(5, {"DQ", "'", "\\", "a", "NL"})
    \cup Upto(3, {"a", "s", "0", "b", "HIGH", "NUL", " "})
    \cup Upto(7, {"/", "*", "NL"})
    \cup {<<"/", "*">> \o t : t \in Upto(6, {"/", "*", "a"})}
    \cup Upto(2, Letters \cup Digits \cup Blanks
                 \cup {"DQ", "'", "\\", "NUL", "?", "/", ".", "=", "+", "*"})

AsIsAWord == {<<"a", "s">>}
=============================================================================
