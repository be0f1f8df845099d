------------------------------- MODULE Lexer -------------------------------
(***************************************************************************)
(* The lexer of src/lexer.c: blanks, line comments and nested block        *)
(* comments are skipped step by step, a token is read in one step.  A      *)
(* source is a sequence of characters; NUL stands for the byte 0 and for   *)
(* what peek_char returns at the end, HIGH for any byte from 0x80 on.      *)
(* Values of literals and columns are left out.  So is what no source      *)
(* reaches: `r`, `_` and the bytes from 0x80 on start identifiers before   *)
(* the code for raw strings, TK_UNDERSCORE and Unicode sees them.          *)
(***************************************************************************)
EXTENDS Naturals, Sequences, FiniteSetsExt

CONSTANTS
    Sources,    \* the texts that may be read
    Words       \* the words of the table of keywords

ASSUME LexerAssumption == Words \subseteq Seq(STRING)

VARIABLES
    src,        \* the text, l->start
    pos,        \* l->pos, counted from 1
    line,       \* l->line
    depth,      \* nesting of the block comment being skipped
    opened,     \* where that comment started, 0 outside one
    tokens      \* the tokens returned by lexer_next so far

vars == <<src, pos, line, depth, opened, tokens>>

-----------------------------------------------------------------------------
(* Characters *)

Digits == {"0", "1", "9"}
HexDigits == Digits \cup {"a", "b", "e"}
Letters == {"a", "b", "e", "s", "x", "o", "r", "_", "HIGH"}
IdentChars == Letters \cup Digits
Blanks == {" ", "TAB", "NL", "CR"}

\* peek_char and peek_char_next
At(s, i) == IF i \in 1..Len(s) THEN s[i] ELSE "NUL"

\* The first position from i on whose character is not in the class.
Past(s, i, class) == Min({j \in i..(Len(s) + 1) : At(s, j) \notin class} \cup {Len(s) + 1})

Newlines(s, from, to) == Cardinality({i \in from..(to - 1) : At(s, i) = "NL"})

-----------------------------------------------------------------------------
(* The token whose first character is at i: its kind, which for words and  *)
(* operators is their text, and where it ends                              *)

Token(kind, end) == [kind |-> kind, end |-> end]

Identifier(s, i) ==
    LET end == Past(s, i + 1, IdentChars)
        text == SubSeq(s, i, end - 1)
    IN Token(IF text \in Words THEN text ELSE <<"IDENT">>, end)

Prefixed(s, i, digits) == Token(<<"INT">>, Past(s, i + 2, digits))

Decimal(s, i) ==
    LET whole == Past(s, i + 1, Digits \cup {"_"})
        point == At(s, whole) = "." /\ At(s, whole + 1) # "."
        mantissa == IF point THEN Past(s, whole + 1, Digits \cup {"_"}) ELSE whole
        exponent == At(s, mantissa) = "e"
        power == IF At(s, mantissa + 1) \in {"+", "-"} THEN mantissa + 2 ELSE mantissa + 1
    IN Token(IF point \/ exponent THEN <<"FLOAT">> ELSE <<"INT">>,
             IF exponent THEN Past(s, power, Digits) ELSE mantissa)

Number(s, i) ==
    CASE s[i] = "0" /\ At(s, i + 1) = "x" -> Prefixed(s, i, HexDigits)
      [] s[i] = "0" /\ At(s, i + 1) = "o" -> Prefixed(s, i, {"0", "1"})
      [] s[i] = "0" /\ At(s, i + 1) = "b" -> Prefixed(s, i, {"0", "1"})
      [] OTHER -> Decimal(s, i)

\* Where the loop of read_string stops, from each position on.
StringEnd(s, i) ==
    LET stop[j \in i..(Len(s) + 2)] ==
            CASE At(s, j) \in {"NUL", "DQ"} -> j
              [] At(s, j) = "\\" -> IF At(s, j + 1) = "NUL" THEN j + 1 ELSE stop[j + 2]
              [] OTHER -> stop[j + 1]
    IN stop[i]

String(s, i) ==
    LET end == StringEnd(s, i + 1)
    IN IF At(s, end) = "DQ" THEN Token(<<"STR">>, end + 1) ELSE Token(<<"ERROR">>, end)

Char(s, i) ==
    LET first == IF At(s, i + 1) = "\\" THEN i + 2 ELSE i + 1
        close == IF At(s, first) = "NUL" THEN first ELSE first + 1
    IN IF At(s, close) = "'" THEN Token(<<"CHAR">>, close + 1) ELSE Token(<<"ERROR">>, close)

\* THREE_CHAR, TWO_CHAR and the switch, for the characters of Sources.
Three == {<<".", ".", ".">>, <<"<", "<", "=">>, <<">", ">", "=">>}
Two == {<<"=", "=">>, <<"<", "=">>, <<"<", "<">>, <<"&", "&">>, <<"|", "|">>,
        <<"-", "=">>, <<"*", "=">>, <<"/", "=">>, <<"&", "=">>, <<"|", "=">>,
        <<"-", ">">>, <<"=", ">">>, <<".", ".">>, <<".", "=">>, <<"*", "*">>,
        <<"|", ">">>, <<">", "=">>, <<">", ">">>, <<"+", "=">>}
One == {<<c>> : c \in {"=", "<", ">", "&", "|", "-", "+", "*", "/", ".", "?", "\\"}}

Text(s, i, n) == SubSeq(s, i, IF i + n - 1 > Len(s) THEN Len(s) ELSE i + n - 1)

\* Slip: the operators of two characters are tried first.
OperatorSlip(s, i) ==
    CASE Text(s, i, 2) \in Two -> Token(Text(s, i, 2), i + 2)
      [] Text(s, i, 2) \notin Two /\ Text(s, i, 3) \in Three -> Token(Text(s, i, 3), i + 3)
      [] Text(s, i, 1) \in One -> Token(Text(s, i, 1), i + 1)
      [] OTHER -> Token(<<"ERROR">>, i + 1)

Operator(s, i) ==
    IF Text(s, i, 3) \in Three THEN Token(Text(s, i, 3), i + 3)
    ELSE IF Text(s, i, 2) \in Two THEN Token(Text(s, i, 2), i + 2)
    ELSE IF Text(s, i, 1) \in One THEN Token(Text(s, i, 1), i + 1)
    ELSE Token(<<"ERROR">>, i + 1)

\* lexer_next, past the blanks
Lex(s, i) ==
    CASE s[i] \in Letters -> Identifier(s, i)
      [] s[i] \in Digits -> Number(s, i)
      [] s[i] = "DQ" -> String(s, i)
      [] s[i] = "'" -> Char(s, i)
      [] OTHER -> Operator(s, i)

-----------------------------------------------------------------------------
Init ==
    /\ src \in Sources
    /\ pos = 1 /\ line = 1
    /\ depth = 0 /\ opened = 0
    /\ tokens = <<>>

Starts(a, b) == At(src, pos) = a /\ At(src, pos + 1) = b
Ended == tokens # <<>> /\ tokens[Len(tokens)].kind = <<"EOF">>

\* Slip: characters skipped in a comment are not looked at for newlines.
SkipToSlip(to) == pos' = to /\ line' = line + (IF depth > 0 THEN 0 ELSE Newlines(src, pos, to))

\* advance_char, up to a position
SkipTo(to) == pos' = to /\ line' = line + Newlines(src, pos, to)

Blank ==
    /\ depth = 0 /\ ~Ended
    /\ At(src, pos) \in Blanks
    /\ SkipTo(pos + 1)
    /\ UNCHANGED <<src, depth, opened, tokens>>

\* A line comment ends before the newline, or at a zero byte.
LineComment ==
    /\ depth = 0 /\ ~Ended
    /\ Starts("/", "/")
    /\ SkipTo(Min({j \in pos..(Len(src) + 1) : At(src, j) \in {"NL", "NUL"}}))
    /\ UNCHANGED <<src, depth, opened, tokens>>

OpenComment ==
    /\ depth = 0 /\ ~Ended
    /\ Starts("/", "*")
    /\ SkipTo(pos + 2)
    /\ depth' = 1 /\ opened' = pos
    /\ UNCHANGED <<src, tokens>>

\* Slip: only the first character of a nested opening is skipped.
InCommentSlip ==
    /\ depth > 0
    /\ CASE At(src, pos) = "NUL" -> UNCHANGED <<pos, line>> /\ depth' = 0
         [] Starts("/", "*") -> SkipTo(pos + 1) /\ depth' = depth + 1
         [] Starts("*", "/") -> SkipTo(pos + 2) /\ depth' = depth - 1
         [] OTHER -> SkipTo(pos + 1) /\ depth' = depth
    /\ opened' = IF depth' = 0 THEN 0 ELSE opened
    /\ UNCHANGED <<src, tokens>>

\* The end of the text, or a zero byte, ends the comment without a word.
InComment ==
    /\ depth > 0
    /\ CASE At(src, pos) = "NUL" -> UNCHANGED <<pos, line>> /\ depth' = 0
         [] Starts("/", "*") -> SkipTo(pos + 2) /\ depth' = depth + 1
         [] Starts("*", "/") -> SkipTo(pos + 2) /\ depth' = depth - 1
         [] OTHER -> SkipTo(pos + 1) /\ depth' = depth
    /\ opened' = IF depth' = 0 THEN 0 ELSE opened
    /\ UNCHANGED <<src, tokens>>

\* make_token gives a token the line its last character was followed by.
ReadToken ==
    /\ depth = 0 /\ ~Ended
    /\ At(src, pos) \notin Blanks /\ ~Starts("/", "/") /\ ~Starts("/", "*")
    /\ LET t == IF pos > Len(src) THEN Token(<<"EOF">>, pos) ELSE Lex(src, pos)
       IN /\ SkipTo(t.end)
          /\ tokens' = Append(tokens, [kind |-> t.kind, start |-> pos, end |-> t.end,
                                       line |-> line'])
    /\ UNCHANGED <<src, depth, opened>>

Done == Ended /\ UNCHANGED vars

Next == Blank \/ LineComment \/ OpenComment \/ InComment \/ ReadToken \/ Done

Spec == Init /\ [][Next]_vars

-----------------------------------------------------------------------------
(* Properties *)

\* The lexer is at a position of the text and has counted the newlines before
\* it, whatever it skipped or read to get there; a comment is under way
\* exactly while its nesting is positive (advance_char, skip_whitespace).
TypeOK ==
    /\ pos \in 1..(Len(src) + 1)
    /\ line = 1 + Newlines(src, 1, pos)
    /\ depth \in Nat /\ opened \in 0..Len(src)
    /\ (depth > 0) = (opened > 0)
    /\ tokens \in Seq([kind : {<<"EOF">>, <<"ERROR">>, <<"IDENT">>, <<"INT">>, <<"FLOAT">>, <<"STR">>, <<"CHAR">>}
                                \cup Words \cup Three \cup Two \cup One,
                       start : 1..(Len(src) + 1), end : 1..(Len(src) + 1), line : Nat])

\* A whole number before `..` is the only token that a longer one would match.
BeforeRange(t) == t.kind = <<"INT">> /\ At(src, t.end) = "." /\ At(src, t.end + 1) = "."

\* Maximal munch: the text of a token and the character that follows it are
\* never one token together, except for the integer before a range; the order
\* in which lexer_next tries the operators and the loops that read words and
\* numbers decide about it.
MaximalMunch ==
    \A k \in 1..Len(tokens) :
        LET t == tokens[k]
            longer == SubSeq(src, t.start, t.end)
        IN \/ t.kind \in {<<"EOF">>, <<"ERROR">>} \/ t.end > Len(src) \/ BeforeRange(t)
           \/ /\ longer \notin Two \cup Three
              /\ \/ Lex(longer, 1).end # Len(longer) + 1
                 \/ Lex(longer, 1).kind = <<"ERROR">>

\* The text from i to before j is a comment, or the inside of one: an opening,
\* comments and other characters, and a closing.
IsComment(i, j) ==
    LET inside[a \in 1..j, b \in 1..j] ==
            \/ a = b
            \/ /\ a < b
               /\ ~(At(src, a) = "*" /\ At(src, a + 1) = "/")
               /\ IF At(src, a) = "/" /\ At(src, a + 1) = "*"
                  THEN \E c \in (a + 4)..b :
                           /\ At(src, c - 2) = "*" /\ At(src, c - 1) = "/"
                           /\ inside[a + 2, c - 2] /\ inside[c, b]
                  ELSE inside[a + 1, b]
    IN /\ j >= i + 4
       /\ At(src, i) = "/" /\ At(src, i + 1) = "*"
       /\ At(src, j - 2) = "*" /\ At(src, j - 1) = "/"
       /\ inside[i + 2, j - 2]

\* What is skipped as a block comment is one by the grammar of nested
\* comments, unless the text ends first; so text after it is not swallowed,
\* and the end of an inner comment does not end the outer one
\* (tests/test_lexer.c, "nested block comment").
CommentsNest ==
    [][(opened > 0 /\ opened' = 0) => (IsComment(opened, pos') \/ At(src, pos) = "NUL")]_vars
=============================================================================
