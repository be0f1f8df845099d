------------------------------ MODULE MCParser ------------------------------
(* Values for Parser: every kind of token the functions tell apart, after    *)
(* the beginnings of the constructs they parse.                              *)
EXTENDS Parser

AllTokens ==
    Keywords \cup Literals \cup
    {"IDENT", "ERROR", "@", "::", "<", ">", ":", ";", ",", ".", "..", "...", "=", "->",
     "=>", "(", ")", "[", "]", "{", "}", "+", "-", "*", "&", "!", "?", "|>"}

FnStart == <<"fn", "IDENT", "(", ")", "{">>

Beginnings ==
    {<<>>, FnStart,
     <<"impl", "IDENT", "for", "IDENT", "{">>,
     <<"impl", "IDENT", "{", "fn", "IDENT", "(", "self">>,
     <<"trait", "IDENT", ":", "IDENT", "{">>,
     <<"trait", "IDENT", "{", "fn", "IDENT", "IDENT", "(", ")", "{", "}">>,
     <<"struct", "IDENT", "<", "IDENT", ">", "{", "IDENT", ":">>,
     <<"enum", "IDENT", "{", "IDENT", "(", "IDENT">>,
     <<"import", "IDENT", "::">>,
     <<"fn", "IDENT", "<", "IDENT", ":", "IDENT">>,
     <<"fn", "IDENT", "(", "IDENT", ":", "IDENT", ")", "->", "IDENT", "where", "IDENT">>,
     FnStart \o <<"match", "IDENT", "{", "IDENT">>,
     FnStart \o <<"match", "IDENT", "{", "(", "IDENT", ")", "=>", "LIT", ",">>,
     FnStart \o <<"let", "(", "IDENT", ",", "IDENT">>,
     FnStart \o <<"let", "IDENT", ":", "fn", "(", "[", "IDENT">>,
     FnStart \o <<"if", "IDENT", "{", "}", "else">>,
     FnStart \o <<"let", "IDENT", "=", "IDENT", "*">>,
     <<"IDENT", "=", "-", "IDENT", "+">>,
     <<"IDENT", "<", "IDENT", "..", "IDENT", "as", "IDENT">>,
     <<"IDENT", "(", "IDENT", "|>", "IDENT">>}
=============================================================================
