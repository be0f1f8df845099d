------------------------------- MODULE MCLsp -------------------------------
(* Frames: a request and notifications as JSON-RPC has them, with their    *)
(* members in different orders, and messages of a single member.           *)
EXTENDS Lsp, TLC

DocumentNames == Permutations(Uris)

Str(s) == <<"q", s, "q">>
Member(k, v) == Str(k) \o <<":">> \o v
Object(a) == <<"{">> \o a \o <<"}">>
Object2(a, b) == Object(a \o <<",">> \o b)
Object3(a, b, c) == Object2(a, b \o <<",">> \o c)

Version == Member("jsonrpc", Str("2.0"))
MethodIs(m) == Member("method", Str(m))
OneId == Member("id", <<"1">>)
OfDocument == Member("params", Object(Member("textDocument", Object(Member("uri", Str("u"))))))

Usual == {Object3(Version, OneId, MethodIs("initialize")),
          Object3(MethodIs("textDocument/hover"), OneId, OfDocument),
          Object3(OneId, OfDocument, MethodIs("textDocument/hover")),
          Object2(MethodIs("textDocument/didOpen"), OfDocument)}
Single == {Object(MethodIs(m)) : m \in {"initialize", "initialized", "shutdown", "exit",
                                        "textDocument/didOpen", "textDocument/hover"}}
          \cup {Object(OneId), Object(Member("id", Object(MethodIs("initialize"))))}
AllFrames == Usual \cup Single
MCNumbers == {"1"}
=============================================================================
