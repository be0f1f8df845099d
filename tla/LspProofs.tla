----------------------------- MODULE LspProofs -----------------------------
(***************************************************************************)
(* For every set of documents, texts and frames and every bound: the store *)
(* of the language server is well typed and keeps what the editor opened,  *)
(* and an AST that counts as valid belongs to a text that still exists.    *)
(***************************************************************************)
EXTENDS Lsp, WellFoundedInduction, SequenceTheorems, TLAPS

\* A set of numbers that is not empty has a least member, and Min finds it.
LEMMA LeastNumber ==
    ASSUME NEW S \in SUBSET Nat, S # {}
    PROVE  Min(S) \in S /\ \A y \in S : Min(S) <= y
<1>. DEFINE R == OpToRel(<, Nat)
<1>1. PICK m \in S : \A n \in S : ~ (<<n, m>> \in R)
  <2>. HIDE DEF R
  <2>1. IsWellFoundedOn(R, Nat)
    BY NatLessThanWellFounded DEF R
  <2>. QED
    BY <2>1, WFMin
<1>2. ASSUME NEW y \in S PROVE m <= y
  <2>1. m \in Nat /\ y \in Nat /\ (y < m => <<y, m>> \in R)
    BY DEF OpToRel
  <2>. HIDE DEF R
  <2>. QED
    BY <1>1, <2>1
<1>. QED
  BY <1>2 DEF Min

\* find_document finds a document that has the name if there is one.
LEMMA NumberOfFinds ==
    ASSUME documents \in Seq(Document), NEW u
    PROVE  /\ NumberOf(u) # 0 => /\ NumberOf(u) \in 1 .. Len(documents)
                                 /\ documents[NumberOf(u)].uri = u
           /\ NumberOf(u) = 0 => \A i \in 1 .. Len(documents) : documents[i].uri # u
<1>. DEFINE I == {i \in 1 .. Len(documents) : documents[i].uri = u}
<1>1. NumberOf(u) = IF I # {} THEN Min(I) ELSE 0
  BY DEF NumberOf, SelectInSeq
<1>2. I \in SUBSET Nat
  OBVIOUS
<1>3. I # {} => Min(I) \in I
  BY <1>2, LeastNumber
<1>. QED
  BY <1>1, <1>3

\* What closing the document in place i leaves: all others, one place each.
LEMMA WithoutKeeps ==
    ASSUME documents \in Seq(Document), NEW i \in 1 .. Len(documents)
    PROVE  /\ Without(i) \in Seq(Document)
           /\ Len(Without(i)) = Len(documents) - 1
           /\ \A k \in 1 .. Len(Without(i)) :
                 Without(i)[k] = IF k = i THEN documents[Len(documents)] ELSE documents[k]
<1>. DEFINE n == Len(documents)
            moved == [documents EXCEPT ![i] = documents[n]]
<1>1. n \in Nat \ {0} /\ documents[n] \in Document
  OBVIOUS
<1>2. /\ moved \in Seq(Document) /\ Len(moved) = n
      /\ \A j \in 1 .. n : moved[j] = IF j = i THEN documents[n] ELSE documents[j]
  BY <1>1, ExceptSeq
<1>3. \A j \in 1 .. n - 1 : moved[j] \in Document
  BY <1>1, <1>2
<1>4. Without(i) = SubSeq(moved, 1, n - 1)
  BY DEF Without, Last
<1>. HIDE DEF moved
<1>5. /\ SubSeq(moved, 1, n - 1) \in Seq(Document)
      /\ Len(SubSeq(moved, 1, n - 1)) = IF 1 <= n - 1 THEN (n - 1) - 1 + 1 ELSE 0
      /\ \A j \in 1 .. (n - 1) - 1 + 1 : SubSeq(moved, 1, n - 1)[j] = moved[1 + j - 1]
  <2>1. 1 \in Int /\ n - 1 \in Int
    BY <1>1
  <2>. QED
    BY <1>3, <2>1, SubSeqProperties
<1>. QED
  BY <1>1, <1>2, <1>4, <1>5
-----------------------------------------------------------------------------
(***************************************************************************)
(* The invariant.  StoreIsEditors speaks of the text find_document comes   *)
(* to; the steps disturb the places of the documents, so the invariant     *)
(* says it of every place, and that the buffers in use were made before.   *)
(***************************************************************************)
Places ==
    /\ {documents[i].uri : i \in 1 .. Len(documents)} = DOMAIN editor
    /\ \A i \in 1 .. Len(documents) :
          /\ documents[i].text = editor[documents[i].uri]
          /\ documents[i].buffer <= buffers
          /\ documents[i].ast_valid =>
                /\ documents[i].ast = documents[i].buffer
                /\ documents[i].text \in Parses
    /\ \A i, j \in 1 .. Len(documents) :
          documents[i].uri = documents[j].uri \/ documents[i].buffer = documents[j].buffer
              => i = j

IInv == TypeOK /\ Places

LEMMA InitInv == Init => IInv
<1>. SUFFICES ASSUME Init PROVE IInv
  OBVIOUS
<1>1. documents \in Seq(Document) /\ Len(documents) = 0 /\ DOMAIN editor = {}
  BY EmptySeq DEF Init
<1>2. stdin \in Seq(Frames)
  BY EmptySeq DEF Init
<1>3. TypeOK
  <2>1. cap \in Nat /\ Len(documents) <= cap /\ buffers \in 0 .. MaxBuffers
    BY <1>1, LspAssumption DEF Init
  <2>. QED
    BY <1>1, <1>2, <2>1, Zenon DEF Init, TypeOK
<1>4. Places
  BY <1>1 DEF Places
<1>. QED
  BY <1>3, <1>4 DEF IInv

\* What the invariant says of one place.
LEMMA OnePlace ==
    ASSUME IInv, NEW i \in 1 .. Len(documents)
    PROVE  /\ documents[i] \in Document
           /\ documents[i].uri \in DOMAIN editor
           /\ documents[i].text = editor[documents[i].uri]
           /\ documents[i].buffer \in Nat /\ buffers \in Nat
           /\ documents[i].buffer <= buffers
<1>1. documents[i] \in Document /\ buffers \in Nat
  BY LspAssumption, ElementOfSeq DEF IInv, TypeOK
<1>. QED
  BY <1>1 DEF IInv, Places, Document

\* A document that is there already takes the text it is given.
LEMMA ReplaceKeeps ==
    ASSUME IInv, NEW u \in Uris, NEW t \in Texts, DidOpen(u, t), NumberOf(u) # 0
    PROVE  IInv'
<1>. DEFINE k == NumberOf(u)
            d == Replaced(documents[k], t, buffers + 1)
<1>1. k \in 1 .. Len(documents) /\ documents[k].uri = u
  BY NumberOfFinds DEF IInv, TypeOK
<1>2. documents[k] \in Document /\ buffers + 1 \in 0 .. MaxBuffers
  BY <1>1, LspAssumption DEF IInv, TypeOK, DidOpen
<1>3. /\ d \in Document /\ d.uri = u /\ d.text = t /\ d.buffer = buffers + 1
      /\ d.ast_valid = FALSE
  <2>1. d = [documents[k] EXCEPT !.text = t, !.buffer = buffers + 1, !.ast_valid = FALSE]
    BY DEF Replaced
  <2>2. buffers + 1 \in Nat
    BY <1>2
  <2>. HIDE DEF d, k
  <2>. QED
    BY <1>1, <1>2, <2>1, <2>2 DEF Document
<1>. HIDE DEF d, k
<1>4. documents' = [documents EXCEPT ![k] = d] /\ buffers' = buffers + 1
  BY DEF DidOpen, k, d
<1>5. /\ documents' \in Seq(Document) /\ Len(documents') = Len(documents)
      /\ \A j \in 1 .. Len(documents) :
            documents'[j] = IF j = k THEN d ELSE documents[j]
  <2>1. documents \in Seq(Document)
    BY DEF IInv, TypeOK
  <2>. QED
    BY <1>1, <1>3, <1>4, <2>1, ExceptSeq
<1>6. TypeOK'
  BY <1>2, <1>4, <1>5 DEF IInv, TypeOK, DidOpen, flags, pipe, k
<1>7. u \in DOMAIN editor
  BY <1>1 DEF IInv, Places
<1>8. /\ DOMAIN editor' = DOMAIN editor
      /\ \A v \in DOMAIN editor : editor'[v] = IF v = u THEN t ELSE editor[v]
  BY <1>7 DEF DidOpen
<1>9. \A j \in 1 .. Len(documents) : documents'[j].uri = documents[j].uri
  BY <1>1, <1>3, <1>5
<1>10. \A j \in 1 .. Len(documents) : documents[j].uri = u => j = k
  BY <1>1 DEF IInv, Places
<1>11. {documents'[i].uri : i \in 1 .. Len(documents')} = DOMAIN editor'
  <2>1. {documents[i].uri : i \in 1 .. Len(documents)} = DOMAIN editor
    BY DEF IInv, Places
  <2>2. {documents'[i].uri : i \in 1 .. Len(documents)}
           = {documents[i].uri : i \in 1 .. Len(documents)}
    BY <1>9
  <2>. QED
    BY <1>5, <1>8, <2>1, <2>2
<1>12. ASSUME NEW j \in 1 .. Len(documents')
       PROVE  /\ documents'[j].text = editor'[documents'[j].uri]
              /\ documents'[j].buffer <= buffers'
              /\ documents'[j].ast_valid =>
                    /\ documents'[j].ast = documents'[j].buffer
                    /\ documents'[j].text \in Parses
  <2>1. CASE j = k
    BY <1>2, <1>3, <1>4, <1>5, <1>7, <1>8, <2>1
  <2>2. CASE j # k
    <3>1. j \in 1 .. Len(documents) /\ documents'[j] = documents[j] /\ documents[j].uri # u
      BY <1>5, <1>10, <2>2
    <3>2. documents[j].uri \in DOMAIN editor /\ documents[j].buffer \in Nat /\ buffers \in Nat
      BY <3>1, OnePlace
    <3>. QED
      BY <3>1, <3>2, <1>4, <1>8 DEF IInv, Places
  <2>. QED
    BY <2>1, <2>2
<1>13. ASSUME NEW i \in 1 .. Len(documents'), NEW j \in 1 .. Len(documents'),
              \/ documents'[i].uri = documents'[j].uri
              \/ documents'[i].buffer = documents'[j].buffer
       PROVE  i = j
  <2>1. \A l \in 1 .. Len(documents) : documents[l].buffer \in Nat
                                         /\ documents[l].buffer <= buffers /\ buffers \in Nat
    BY OnePlace
  <2>2. CASE documents'[i].uri = documents'[j].uri
    BY <1>5, <1>9, <2>2 DEF IInv, Places
  <2>3. CASE documents'[i].buffer = documents'[j].buffer
    <3>1. (i = k) <=> (j = k)
      BY <1>3, <1>5, <2>1, <2>3
    <3>. QED
      BY <3>1, <1>5, <2>3 DEF IInv, Places
  <2>. QED
    BY <1>13, <2>2, <2>3
<1>. QED
  BY <1>6, <1>11, <1>12, <1>13 DEF IInv, Places

\* A new document goes behind the others.
LEMMA AppendKeeps ==
    ASSUME IInv, NEW u \in Uris, NEW t \in Texts, DidOpen(u, t), NumberOf(u) = 0
    PROVE  IInv'
<1>. DEFINE n == Len(documents)
            d == NewDocument(u, t, buffers + 1)
<1>1. \A j \in 1 .. n : documents[j].uri # u
  BY NumberOfFinds DEF IInv, TypeOK
<1>2. /\ documents \in Seq(Document) /\ n \in Nat /\ buffers \in Nat
      /\ buffers + 1 \in 0 .. MaxBuffers
  BY LspAssumption DEF IInv, TypeOK, DidOpen
<1>3. /\ d \in Document /\ d.uri = u /\ d.text = t /\ d.buffer = buffers + 1
      /\ d.ast_valid = FALSE
  BY <1>2 DEF NewDocument, Document, None
<1>. HIDE DEF d, n
<1>4. documents' = Append(documents, d) /\ buffers' = buffers + 1
  BY DEF DidOpen, d
<1>5. /\ documents' \in Seq(Document) /\ Len(documents') = n + 1
      /\ \A j \in 1 .. n : documents'[j] = documents[j]
      /\ documents'[n + 1] = d
  BY <1>2, <1>3, <1>4, AppendProperties DEF n
<1>6. cap' \in Nat /\ n + 1 <= cap'
  <2>1. cap \in Nat /\ n <= cap /\ cap' = IF n >= cap THEN Grown(cap) ELSE cap
    BY DEF IInv, TypeOK, DidOpen, n
  <2>2. Grown(cap) \in Nat /\ Grown(cap) > cap
    BY <2>1, LspAssumption DEF Grown
  <2>. QED
    BY <1>2, <2>1, <2>2
<1>7. TypeOK'
  BY <1>2, <1>4, <1>5, <1>6 DEF IInv, TypeOK, DidOpen, flags, pipe
<1>8. u \notin DOMAIN editor
  BY <1>1 DEF IInv, Places, n
<1>9. /\ DOMAIN editor' = DOMAIN editor \cup {u}
      /\ \A v \in DOMAIN editor : editor'[v] = editor[v]
      /\ editor'[u] = t
  BY <1>8 DEF DidOpen
<1>10. \A j \in 1 .. n + 1 : j \in 1 .. n \/ j = n + 1
  BY <1>2
<1>11. {documents'[i].uri : i \in 1 .. n + 1} = DOMAIN editor'
  <2>1. n + 1 \in 1 .. n + 1 /\ \A j \in 1 .. n : j \in 1 .. n + 1
    BY <1>2
  <2>2. {documents[i].uri : i \in 1 .. n} = DOMAIN editor
    BY DEF IInv, Places, n
  <2>. QED
    BY <1>3, <1>5, <1>9, <1>10, <2>1, <2>2
<1>12. ASSUME NEW j \in 1 .. n + 1
       PROVE  /\ documents'[j].text = editor'[documents'[j].uri]
              /\ documents'[j].buffer <= buffers'
              /\ documents'[j].ast_valid =>
                    /\ documents'[j].ast = documents'[j].buffer
                    /\ documents'[j].text \in Parses
  <2>1. CASE j = n + 1
    BY <1>2, <1>3, <1>4, <1>5, <1>9, <2>1
  <2>2. CASE j \in 1 .. n
    <3>1. documents[j].uri \in DOMAIN editor /\ documents[j].buffer \in Nat
      BY <2>2, OnePlace DEF n
    <3>. QED
      BY <2>2, <3>1, <1>2, <1>4, <1>5, <1>9 DEF IInv, Places, n
  <2>. QED
    BY <1>10, <2>1, <2>2
<1>13. ASSUME NEW i \in 1 .. n + 1, NEW j \in 1 .. n + 1,
              \/ documents'[i].uri = documents'[j].uri
              \/ documents'[i].buffer = documents'[j].buffer
       PROVE  i = j
  <2>1. \A l \in 1 .. n : documents[l].buffer \in Nat /\ documents[l].buffer <= buffers
    BY OnePlace DEF n
  <2>2. \A l \in 1 .. n : /\ documents'[l].uri # documents'[n + 1].uri
                          /\ documents'[l].buffer # documents'[n + 1].buffer
    BY <1>1, <1>2, <1>3, <1>5, <2>1 DEF n
  <2>3. i \in 1 .. n <=> j \in 1 .. n
    BY <1>10, <1>13, <2>2
  <2>. QED
    BY <1>5, <1>10, <1>13, <2>3 DEF IInv, Places, n
<1>. QED
  BY <1>5, <1>7, <1>11, <1>12, <1>13 DEF IInv, Places

\* Closing takes one document out, and the one that moves stays itself.
LEMMA CloseKeeps ==
    ASSUME IInv, NEW u \in Uris, DidClose(u)
    PROVE  IInv'
<1>. DEFINE n == Len(documents)
            k == NumberOf(u)
<1>1. k \in 1 .. n /\ documents[k].uri = u /\ documents \in Seq(Document) /\ n \in Nat
  BY NumberOfFinds DEF IInv, TypeOK, DidClose
<1>2. documents' = Without(k)
  BY DEF DidClose
<1>. HIDE DEF k, n
<1>3. /\ documents' \in Seq(Document) /\ Len(documents') = n - 1
      /\ \A j \in 1 .. n - 1 : documents'[j] = IF j = k THEN documents[n] ELSE documents[j]
  BY <1>1, <1>2, WithoutKeeps DEF n
<1>4. TypeOK'
  BY <1>1, <1>3 DEF IInv, TypeOK, DidClose, flags, pipe, n
<1>. DEFINE from(j) == IF j = k THEN n ELSE j
<1>5. \A j \in 1 .. n - 1 : /\ from(j) \in 1 .. n /\ from(j) # k
                            /\ documents'[j] = documents[from(j)]
  BY <1>1, <1>3
<1>6. \A i, j \in 1 .. n - 1 : from(i) = from(j) => i = j
  BY <1>1
<1>7. \A m \in 1 .. n : m # k => \E j \in 1 .. n - 1 : from(j) = m
  <2>1. TAKE m \in 1 .. n
  <2>2. HAVE m # k
  <2>3. CASE m = n
    <3>1. k \in 1 .. n - 1 /\ from(k) = m
      BY <1>1, <2>2, <2>3
    <3>. QED
      BY <3>1
  <2>4. CASE m # n
    <3>1. m \in 1 .. n - 1 /\ from(m) = m
      BY <1>1, <2>2, <2>4
    <3>. QED
      BY <3>1
  <2>. QED
    BY <2>3, <2>4
<1>. HIDE DEF from
<1>8. /\ DOMAIN editor' = DOMAIN editor \ {u}
      /\ \A v \in DOMAIN editor' : editor'[v] = editor[v]
  BY DEF DidClose
<1>9. \A j \in 1 .. n : documents[j].uri = u => j = k
  BY <1>1 DEF IInv, Places, n
<1>10. {documents'[i].uri : i \in 1 .. n - 1} = DOMAIN editor'
  <2>1. {documents[i].uri : i \in 1 .. n} = DOMAIN editor
    BY DEF IInv, Places, n
  <2>2. \A i \in 1 .. n - 1 : documents'[i].uri \in DOMAIN editor'
    BY <1>5, <1>8, <1>9, <2>1
  <2>3. ASSUME NEW v \in DOMAIN editor'
        PROVE  \E i \in 1 .. n - 1 : documents'[i].uri = v
    <3>1. PICK m \in 1 .. n : documents[m].uri = v
      BY <1>8, <2>1
    <3>2. m # k
      BY <1>1, <1>8, <3>1
    <3>3. PICK j \in 1 .. n - 1 : from(j) = m
      BY <1>7, <3>2
    <3>. QED
      BY <1>5, <3>1, <3>3
  <2>. QED
    BY <2>2, <2>3
<1>11. ASSUME NEW j \in 1 .. n - 1
       PROVE  /\ documents'[j].text = editor'[documents'[j].uri]
              /\ documents'[j].buffer <= buffers'
              /\ documents'[j].ast_valid =>
                    /\ documents'[j].ast = documents'[j].buffer
                    /\ documents'[j].text \in Parses
  <2>1. documents'[j].uri \in DOMAIN editor' /\ buffers' = buffers
    BY <1>10 DEF DidClose
  <2>. QED
    BY <1>5, <1>8, <2>1 DEF IInv, Places, n
<1>12. ASSUME NEW i \in 1 .. n - 1, NEW j \in 1 .. n - 1,
              \/ documents'[i].uri = documents'[j].uri
              \/ documents'[i].buffer = documents'[j].buffer
       PROVE  i = j
  BY <1>5, <1>6, <1>12 DEF IInv, Places, n
<1>. QED
  BY <1>3, <1>4, <1>10, <1>11, <1>12 DEF IInv, Places

\* Parsing changes the AST of one document, and nothing the editor gave.
LEMMA ParseKeeps ==
    ASSUME IInv, NEW u \in Uris, NumberOf(u) # 0,
           documents' = [documents EXCEPT ![NumberOf(u)] = Parsed(@)],
           dirty' \in BOOLEAN,
           UNCHANGED <<cap, editor, buffers, flags, at, pipe, answered>>
    PROVE  IInv'
<1>. DEFINE k == NumberOf(u)
            d == Parsed(documents[k])
<1>1. k \in 1 .. Len(documents) /\ documents \in Seq(Document)
  BY NumberOfFinds DEF IInv, TypeOK
<1>2. documents[k] \in Document
  BY <1>1
<1>3. /\ d \in Document /\ d.uri = documents[k].uri
      /\ d.text = documents[k].text /\ d.buffer = documents[k].buffer
      /\ d.ast_valid => d.ast = d.buffer /\ d.text \in Parses
  <2>1. CASE documents[k].ast_valid
    BY <1>1, <1>2, <2>1 DEF Parsed, IInv, Places
  <2>2. CASE ~ documents[k].ast_valid
    <3>1. d = [documents[k] EXCEPT !.ast = documents[k].buffer,
                                   !.ast_valid = documents[k].text \in Parses]
      BY <2>2 DEF Parsed
    <3>2. (documents[k].text \in Parses) \in BOOLEAN /\ documents[k].buffer \in Nat
      BY <1>2 DEF Document
    <3>. HIDE DEF d, k
    <3>3. d \in Document
      BY <1>2, <3>1, <3>2, Zenon DEF Document
    <3>4. /\ d.uri = documents[k].uri /\ d.text = documents[k].text
          /\ d.buffer = documents[k].buffer /\ d.ast = documents[k].buffer
          /\ d.ast_valid = (documents[k].text \in Parses)
      BY <1>2, <3>1, Zenon DEF Document
    <3>. QED
      BY <3>3, <3>4
  <2>. QED
    BY <2>1, <2>2
<1>. HIDE DEF k, d
<1>4. /\ documents' \in Seq(Document) /\ Len(documents') = Len(documents)
      /\ \A j \in 1 .. Len(documents) : documents'[j] = IF j = k THEN d ELSE documents[j]
  <2>1. documents' = [documents EXCEPT ![k] = d]
    BY DEF k, d
  <2>2. documents \in Seq(Document) /\ k \in 1 .. Len(documents) /\ d \in Document
    BY <1>1, <1>3
  <2>. HIDE DEF Document
  <2>. QED
    BY ONLY <2>1, <2>2, ExceptSeq
<1>5. TypeOK'
  BY <1>4 DEF IInv, TypeOK, flags, pipe
<1>6. \A j \in 1 .. Len(documents) :
         /\ documents'[j].uri = documents[j].uri
         /\ documents'[j].text = documents[j].text
         /\ documents'[j].buffer = documents[j].buffer
         /\ documents'[j].ast_valid => /\ documents'[j].ast = documents'[j].buffer
                                       /\ documents'[j].text \in Parses
  BY <1>1, <1>3, <1>4 DEF IInv, Places
<1>7. Places'
  <2>1. {documents'[i].uri : i \in 1 .. Len(documents)}
           = {documents[i].uri : i \in 1 .. Len(documents)}
    BY <1>6
  <2>2. editor' = editor /\ buffers' = buffers
    OBVIOUS
  <2>3. {documents'[i].uri : i \in 1 .. Len(documents')} = DOMAIN editor'
    BY <1>4, <2>1, <2>2 DEF IInv, Places
  <2>4. \A i \in 1 .. Len(documents') :
          /\ documents'[i].text = editor'[documents'[i].uri]
          /\ documents'[i].buffer <= buffers'
    BY <1>4, <1>6, <2>2 DEF IInv, Places
  <2>5. \A i, j \in 1 .. Len(documents') :
          documents'[i].uri = documents'[j].uri \/ documents'[i].buffer = documents'[j].buffer
             => i = j
    BY <1>4, <1>6 DEF IInv, Places
  <2>. QED
    BY <1>4, <1>6, <2>3, <2>4, <2>5 DEF Places
<1>. QED
  BY <1>5, <1>7 DEF IInv

\* The loop of lsp_server_run touches no document: no frame that is handled
\* names one.
LEMMA LoopKeeps ==
    ASSUME IInv, \/ Run \/ Close \/ Serve \/ \E m \in Frames : Send(m)
    PROVE  IInv'
<1>1. UNCHANGED store
  BY DEF Run, Close, Send, Serve, Shutdown, EndOfInput, Scan, Spin, Handle, vars
<1>2. /\ stdin' \in Seq(Frames) /\ closed' \in BOOLEAN
      /\ at' \in {"host", "loop", "scanner"}
      /\ initialized' \in BOOLEAN /\ shutdown' \in BOOLEAN
      /\ answered' \subseteq Numbers \cup {"-1", "0"}
  <2>1. \A m : Id(m) \in Numbers \cup {"-1", "0"}
    BY DEF Id
  <2>2. stdin # <<>> => Tail(stdin) \in Seq(Frames)
    BY HeadTailProperties DEF IInv, TypeOK
  <2>3. ASSUME NEW m \in Frames PROVE Append(stdin, m) \in Seq(Frames)
    BY AppendProperties DEF IInv, TypeOK
  <2>4. CASE Run \/ Close
    BY <2>4 DEF Run, Close, IInv, TypeOK, flags, pipe
  <2>5. CASE \E m \in Frames : Send(m)
    BY <2>3, <2>5 DEF Send, IInv, TypeOK, flags
  <2>6. CASE Shutdown \/ EndOfInput \/ Scan \/ Spin
    BY <2>2, <2>6 DEF Shutdown, EndOfInput, Scan, Spin, ReadFrame, IInv, TypeOK, flags, pipe, vars
  <2>7. CASE Handle
    <3>. DEFINE m == Head(stdin)
    <3>1. stdin' = Tail(stdin) /\ stdin # <<>> /\ UNCHANGED closed
      BY <2>7 DEF Handle, ReadFrame
    <3>2. Initialize(m) \/ ShutDown(m) \/ Exit(m) \/ Ignore(m) \/ Unknown(m)
      BY <2>7 DEF Handle
    <3>3. /\ initialized' \in BOOLEAN /\ shutdown' \in BOOLEAN
          /\ at' \in {"host", "loop", "scanner"}
          /\ answered' \subseteq Numbers \cup {"-1", "0"}
      <4>. HIDE DEF m
      <4>1. answered \cup {Id(m)} \subseteq Numbers \cup {"-1", "0"}
        BY <2>1 DEF IInv, TypeOK
      <4>. QED
        BY <3>2, <4>1, Zenon DEF Initialize, ShutDown, Exit, Ignore, Unknown, Respond,
                                 flags, IInv, TypeOK
    <3>. QED
      BY <2>2, <3>1, <3>3 DEF IInv, TypeOK
  <2>. QED
    BY <2>4, <2>5, <2>6, <2>7 DEF Serve
<1>. QED
  BY <1>1, <1>2 DEF IInv, TypeOK, Places, store

LEMMA NextInv == IInv /\ [Next]_vars => IInv'
<1>. SUFFICES ASSUME IInv, [Next]_vars PROVE IInv'
  OBVIOUS
<1>1. ASSUME NEW u \in Uris, NEW t \in Texts, DidOpen(u, t) PROVE IInv'
  BY <1>1, ReplaceKeeps, AppendKeeps
<1>2. ASSUME NEW u \in Uris, DidClose(u) PROVE IInv'
  BY <1>2, CloseKeeps
<1>3. ASSUME NEW u \in Uris, Ask(u) \/ ComputeDiagnostics(u) PROVE IInv'
  <2>1. dirty' \in BOOLEAN
    BY <1>3 DEF Ask, ComputeDiagnostics, IInv, TypeOK
  <2>. QED
    BY <1>3, <2>1, ParseKeeps DEF Ask, ComputeDiagnostics
<1>4. CASE Renew
  <2>1. documents' \in Seq(Document) /\ Len(documents') = 0 /\ DOMAIN editor' = {}
    BY <1>4, EmptySeq DEF Renew
  <2>2. cap' \in Nat /\ Len(documents') <= cap' /\ buffers' \in 0 .. MaxBuffers
    BY <1>4, <2>1, LspAssumption DEF Renew
  <2>3. TypeOK'
    BY <1>4, <2>1, <2>2, Zenon DEF Renew, IInv, TypeOK, pipe
  <2>4. Places'
    BY <2>1 DEF Places
  <2>. QED
    BY <2>3, <2>4 DEF IInv
<1>5. CASE Run \/ Close \/ Serve \/ \E m \in Frames : Send(m)
  BY <1>5, LoopKeeps
<1>6. CASE UNCHANGED vars
  BY <1>6 DEF vars, store, flags, pipe, IInv, TypeOK, Places
<1>. QED
  BY <1>1, <1>2, <1>3, <1>4, <1>5, <1>6 DEF Next
-----------------------------------------------------------------------------
\* The array of documents never has more than its capacity, and everything has
\* its type: for any number of documents, texts and frames.
THEOREM LspTyped == Spec => []TypeOK
<1>1. IInv => TypeOK
  BY DEF IInv
<1>. QED
  BY InitInv, NextInv, <1>1, PTL DEF Spec

\* The names a request reads are pointers into a text the document still has.
THEOREM LspAstLive == Spec => []AstOfLiveText
<1>1. IInv => AstOfLiveText
  BY DEF IInv, TypeOK, Places, AstOfLiveText
<1>. QED
  BY InitInv, NextInv, <1>1, PTL DEF Spec

\* After any opening, changing and closing in any order the store has what the
\* editor has open, each document once, with the text that was given last.
THEOREM LspStoreIsEditors == Spec => []StoreIsEditors
<1>1. ASSUME IInv PROVE StoreIsEditors
  <2>1. DOMAIN documents = 1 .. Len(documents) /\ documents \in Seq(Document)
    BY <1>1 DEF IInv, TypeOK
  <2>2. \A u \in DOMAIN editor : documents[NumberOf(u)].text = editor[u]
    <3>1. TAKE u \in DOMAIN editor
    <3>2. NumberOf(u) \in 1 .. Len(documents) /\ documents[NumberOf(u)].uri = u
      BY <1>1, <2>1, NumberOfFinds DEF IInv, Places
    <3>. QED
      BY <1>1, <3>2 DEF IInv, Places
  <2>. QED
    BY <1>1, <2>1, <2>2 DEF IInv, Places, StoreIsEditors
<1>. QED
  BY InitInv, NextInv, <1>1, PTL DEF Spec
=============================================================================
