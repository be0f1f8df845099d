-------------------------------- MODULE Lsp --------------------------------
(***************************************************************************)
(* The language server of src/src/lsp.c: its document store, the functions *)
(* an editor's host process calls (lsp.h), and lsp_server_run, which reads *)
(* frames from stdin and looks up their members with json_find_key.        *)
(*                                                                         *)
(* A frame is the sequence of its tokens; "q" is a quotation mark and the  *)
(* word after it the contents of the string.  A text is a model value that *)
(* parses or does not; `buffer` numbers the strdup'ed copy of it, because  *)
(* the names in an AST are pointers into the text it was parsed from       *)
(* (parser.c).  References and formatting read the text and change         *)
(* nothing; versions are stored and never compared; the contents of        *)
(* answers are left out.                                                   *)
(***************************************************************************)
EXTENDS Naturals, Sequences, SequencesExt, FiniteSetsExt

CONSTANTS
    Uris,
    Texts,
    Parses,      \* the texts without a syntax error
    Numbers,     \* the tokens that are numbers
    Frames,      \* the messages the editor may send
    FirstCap,    \* the capacity of the first allocation of the array, 16
    MaxBuffers,  \* bound: texts stored since the server was made
    MaxFrames    \* bound: frames in the pipe

ASSUME LspAssumption ==
    /\ Parses \subseteq Texts
    /\ FirstCap \in Nat \ {0}
    /\ MaxBuffers \in Nat /\ MaxFrames \in Nat

VARIABLES
    documents,    \* server->documents, document_count of them
    cap,          \* server->document_cap
    dirty,        \* server->diagnostics_dirty
    editor,       \* history: what the host has opened and last gave as the text
    buffers,      \* history: copies of texts made so far
    initialized,  \* server->initialized
    shutdown,     \* server->shutdown
    at,           \* where the thread is: in the host, in the loop of
                  \* lsp_server_run, or in json_find_key for good
    stdin,        \* the frames in the pipe
    closed,       \* the editor has closed the pipe
    answered      \* history: the requests that got a response

store == <<documents, cap, dirty, editor, buffers>>
flags == <<initialized, shutdown>>
pipe == <<stdin, closed>>
vars == <<store, flags, at, pipe, answered>>

None == 0   \* no AST; the NULL of json_find_key
Document == [uri : Uris, text : Texts, buffer : Nat, ast : Nat, ast_valid : BOOLEAN]
-----------------------------------------------------------------------------
(* The scanner. *)

\* Where json_read_string stops reading a string that starts at i.
EndOfString(m, i) ==
    Min({Len(m)} \cup {j \in i + 1 .. Len(m) : m[j] = "q"})

StringAt(m, i) ==
    IF i \in DOMAIN m /\ m[i] = "q" THEN SubSeq(m, i + 1, EndOfString(m, i) - 1) ELSE <<>>

Forever(m) == Len(m) + 2

\* json_find_key from a position of m: the position of the value, None, or
\* Forever when it comes to a comma, which it does not step over.
Find(m, from, key) ==
    LET find[i \in 1 .. Len(m) + 1] ==
          IF i > Len(m) \/ m[i] \in {"}", "]"} THEN None
          ELSE IF m[i] = "," THEN Forever(m)
          ELSE IF m[i] = "{" /\ i < Len(m) /\ m[i + 1] = "q"
          THEN LET e == EndOfString(m, i + 1)
               IN  IF StringAt(m, i + 1) = <<key>> /\ e < Len(m) /\ m[e + 1] = ":"
                   THEN e + 2 ELSE find[e + 1]
          ELSE find[i + 1]
    IN  find[from]

\* A lookup inside the value another one found.
FindIn(m, p, key) == IF p \in 1 .. Len(m) THEN Find(m, p, key) ELSE p

Opening == {"textDocument/didOpen", "textDocument/didChange"}
AtPosition == {"textDocument/completion", "textDocument/hover",
               "textDocument/definition", "textDocument/references"}
Asking == AtPosition \cup {"textDocument/documentSymbol", "textDocument/formatting"}
Method(m) == StringAt(m, Find(m, 1, "method"))
MethodIn(m, methods) == \E x \in methods : Method(m) = <<x>>

\* The id as json_read_int reads it: a value that is no number is 0.
Id(m) ==
    LET p == Find(m, 1, "id")
    IN  IF p = None THEN "-1" ELSE IF m[p] \in Numbers THEN m[p] ELSE "0"

TextDocument(m) ==
    FindIn(m, IF MethodIn(m, Asking) THEN Find(m, 1, "params") ELSE 1, "textDocument")
UriIn(m) == FindIn(m, TextDocument(m), "uri")
Position(m) == FindIn(m, Find(m, 1, "params"), "position")
TextIn(m) ==
    FindIn(m, IF Method(m) = <<"textDocument/didChange">>
              THEN Find(m, 1, "contentChanges") ELSE TextDocument(m), "text")

\* What lsp_handle_message looks up for a message.
Lookups(m) ==
    {Find(m, 1, "method"), Find(m, 1, "id")} \cup
    (IF MethodIn(m, Opening \cup Asking \cup {"textDocument/didClose"})
     THEN {TextDocument(m), UriIn(m)} ELSE {}) \cup
    (IF MethodIn(m, Opening)
     THEN {FindIn(m, TextDocument(m), "version"), TextIn(m)} ELSE {}) \cup
    (IF MethodIn(m, AtPosition)
     THEN {Position(m), FindIn(m, Position(m), "line"), FindIn(m, Position(m), "character")}
     ELSE {})

Hangs(m) == Forever(m) \in Lookups(m)

\* The messages that are handled name no document: in front of a URI there is a
\* comma, or the method is not found.  So lsp_did_open and the others are never
\* called for a frame, and uri[0] is 0.
ASSUME NoUriInFrames ==
    \A m \in Frames : ~Hangs(m) => StringAt(m, UriIn(m)) = <<>>
-----------------------------------------------------------------------------
(* The document store. *)

\* find_document: the index from 1, 0 for NULL.
NumberOf(u) == SelectInSeq(documents, LAMBDA d : d.uri = u)

NewDocument(u, t, b) ==
    [uri |-> u, text |-> t, buffer |-> b, ast |-> None, ast_valid |-> FALSE]

\* Slip: the AST of the old text stays valid.
ReplacedKeepingAst(d, t, b) == [d EXCEPT !.text = t, !.buffer = b]

\* The text of an open document is freed and replaced; d.ast stays as it was.
Replaced(d, t, b) == [d EXCEPT !.text = t, !.buffer = b, !.ast_valid = FALSE]

\* Slip: the array is not grown.
GrownSlip(c) == IF c = 0 THEN FirstCap ELSE c

Grown(c) == IF c = 0 THEN FirstCap ELSE 2 * c

\* lsp_did_open, and lsp_did_change, which calls it.
DidOpen(u, t) ==
    /\ at = "host" /\ buffers < MaxBuffers
    /\ buffers' = buffers + 1
    /\ IF NumberOf(u) # 0
       THEN /\ documents' = [documents EXCEPT ![NumberOf(u)] = Replaced(@, t, buffers + 1)]
            /\ UNCHANGED cap
       ELSE /\ documents' = Append(documents, NewDocument(u, t, buffers + 1))
            /\ cap' = IF Len(documents) >= cap THEN Grown(cap) ELSE cap
    /\ dirty' = TRUE
    /\ editor' = [v \in DOMAIN editor \cup {u} |-> IF v = u THEN t ELSE editor[v]]
    /\ UNCHANGED <<flags, at, pipe, answered>>

\* Slip: the last document is dropped, not moved into the place of the closed one.
WithoutSlip(i) == SubSeq(documents, 1, Len(documents) - 1)

\* The last document takes the place of the closed one.
Without(i) ==
    SubSeq([documents EXCEPT ![i] = Last(documents)], 1, Len(documents) - 1)

\* lsp_did_close; nothing happens for a document that is not open.
DidClose(u) ==
    /\ at = "host" /\ NumberOf(u) # 0
    /\ documents' = Without(NumberOf(u))
    /\ editor' = [v \in DOMAIN editor \ {u} |-> editor[v]]
    /\ UNCHANGED <<cap, dirty, buffers, flags, at, pipe, answered>>

\* lsp_parse_document: the AST of a text with errors is kept and not valid.
Parsed(d) ==
    IF d.ast_valid THEN d
    ELSE [d EXCEPT !.ast = d.buffer, !.ast_valid = d.text \in Parses]

\* lsp_complete, lsp_hover, lsp_goto_definition and lsp_document_symbols.
Ask(u) ==
    /\ at = "host" /\ NumberOf(u) # 0
    /\ documents' = [documents EXCEPT ![NumberOf(u)] = Parsed(@)]
    /\ UNCHANGED <<cap, dirty, editor, buffers, flags, at, pipe, answered>>

\* lsp_compute_diagnostics: one flag for all documents.
ComputeDiagnostics(u) ==
    /\ at = "host" /\ NumberOf(u) # 0
    /\ documents' = [documents EXCEPT ![NumberOf(u)] = Parsed(@)]
    /\ dirty' = FALSE
    /\ UNCHANGED <<cap, editor, buffers, flags, at, pipe, answered>>
-----------------------------------------------------------------------------
(* The life of the server. *)

Init ==
    /\ documents = <<>> /\ cap = 0 /\ dirty = FALSE /\ editor = <<>> /\ buffers = 0
    /\ initialized = FALSE /\ shutdown = FALSE
    /\ at = "host"
    /\ stdin = <<>> /\ closed = FALSE
    /\ answered = {}

\* lsp_server_free and lsp_server_new.
Renew ==
    /\ at = "host"
    /\ documents' = <<>> /\ cap' = 0 /\ dirty' = FALSE /\ editor' = <<>> /\ buffers' = 0
    /\ initialized' = FALSE /\ shutdown' = FALSE
    /\ UNCHANGED <<at, pipe, answered>>

\* The host enters lsp_server_run.
Run ==
    /\ at = "host" /\ at' = "loop"
    /\ UNCHANGED <<store, flags, pipe, answered>>

\* The editor writes a frame or closes the pipe.
Send(m) ==
    /\ ~closed /\ Len(stdin) < MaxFrames
    /\ stdin' = Append(stdin, m)
    /\ UNCHANGED <<store, flags, at, closed, answered>>

Close ==
    /\ ~closed /\ closed' = TRUE
    /\ UNCHANGED <<store, flags, at, stdin, answered>>

\* while (!server->shutdown): read_frame and lsp_handle_message.
Shutdown ==
    /\ at = "loop" /\ shutdown
    /\ at' = "host"
    /\ UNCHANGED <<store, flags, pipe, answered>>

EndOfInput ==
    /\ at = "loop" /\ ~shutdown /\ stdin = <<>> /\ closed
    /\ at' = "host"
    /\ UNCHANGED <<store, flags, pipe, answered>>

ReadFrame ==
    /\ at = "loop" /\ ~shutdown /\ stdin # <<>>
    /\ stdin' = Tail(stdin) /\ UNCHANGED closed

Respond(m) == answered' = answered \cup {Id(m)}

\* json_find_key does not come back.
Scan ==
    /\ ReadFrame /\ Hangs(Head(stdin))
    /\ at' = "scanner"
    /\ UNCHANGED <<store, flags, answered>>

Spin == at = "scanner" /\ UNCHANGED vars

\* The handler, for the frames it gets through.
Initialize(m) ==
    /\ Method(m) = <<"initialize">>
    /\ initialized' = TRUE /\ Respond(m)
    /\ UNCHANGED <<shutdown, at>>

ShutDown(m) ==
    /\ Method(m) = <<"shutdown">>
    /\ shutdown' = TRUE /\ Respond(m)
    /\ UNCHANGED <<initialized, at>>

Exit(m) ==
    /\ Method(m) = <<"exit">>
    /\ at' = "host"
    /\ UNCHANGED <<flags, answered>>

\* A notification, or a request about a document, of which none is named.
Ignore(m) ==
    /\ MethodIn(m, {"initialized", "textDocument/didClose"} \cup Opening \cup Asking)
    /\ UNCHANGED <<flags, at, answered>>

\* A method it does not know: null if there is an id.
Unknown(m) ==
    /\ ~MethodIn(m, {"initialize", "initialized", "textDocument/didClose", "shutdown", "exit"}
                     \cup Opening \cup Asking)
    /\ IF Id(m) = "-1" THEN UNCHANGED answered ELSE Respond(m)
    /\ UNCHANGED <<flags, at>>

Handle ==
    /\ ReadFrame /\ ~Hangs(Head(stdin))
    /\ LET m == Head(stdin)
       IN  Initialize(m) \/ ShutDown(m) \/ Exit(m) \/ Ignore(m) \/ Unknown(m)
    /\ UNCHANGED store

Serve == Shutdown \/ EndOfInput \/ Scan \/ Spin \/ Handle

Next ==
    \/ \E u \in Uris :
         \/ \E t \in Texts : DidOpen(u, t)
         \/ DidClose(u)
         \/ Ask(u)
         \/ ComputeDiagnostics(u)
    \/ Renew
    \/ Run
    \/ \E m \in Frames : Send(m)
    \/ Close
    \/ Serve

Spec == Init /\ [][Next]_vars
-----------------------------------------------------------------------------
TypeOK ==
    /\ documents \in Seq(Document)
    /\ cap \in Nat /\ Len(documents) <= cap
    /\ dirty \in BOOLEAN /\ buffers \in 0 .. MaxBuffers
    /\ initialized \in BOOLEAN /\ shutdown \in BOOLEAN
    /\ at \in {"host", "loop", "scanner"}
    /\ stdin \in Seq(Frames) /\ closed \in BOOLEAN
    /\ answered \subseteq Numbers \cup {"-1", "0"}

\* The names a request reads out of an AST are pointers into the text it was
\* parsed from: an AST that counts as valid belongs to the text the document has
\* now, which did_open has not freed, and that text has no error.
AstOfLiveText ==
    \A i \in DOMAIN documents :
        documents[i].ast_valid =>
            /\ documents[i].ast = documents[i].buffer
            /\ documents[i].text \in Parses

\* The array finds what it stores: whatever is opened, changed and closed in
\* whatever order, find_document has the documents the editor has open, each with
\* the text that was given last, and no others; each is in the array once, and
\* owns its copy of the text alone, so that closing it frees what nobody else has.
StoreIsEditors ==
    /\ {documents[i].uri : i \in DOMAIN documents} = DOMAIN editor
    /\ \A u \in DOMAIN editor : documents[NumberOf(u)].text = editor[u]
    /\ \A i, j \in DOMAIN documents :
          documents[i].uri = documents[j].uri \/ documents[i].buffer = documents[j].buffer
              => i = j
=============================================================================
