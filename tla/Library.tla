-------------------------------- MODULE Library --------------------------------
(***************************************************************************)
(* What a specialist may read: documents, whose content is a file on disk, *)
(* and MCP servers, with the links of both to specialists                  *)
(* (src/internal/document, src/internal/mcp).                              *)
(*                                                                         *)
(* A document is a row and a file, written and removed one after the       *)
(* other; a crash or a failed statement may come between any two steps.    *)
(***************************************************************************)
EXTENDS Specialists

CONSTANTS
  Document,       \* ids of documents
  Server,         \* ids of MCP servers
  LibraryRequest, \* requests in flight
  OfferLimit,     \* how many of a library the page of a specialist offers: 100
  MaxAssociationBatchSize, \* how many a request may link: 50
  LibraryFaults   \* {"db", "crash"}: a statement may fail, the process stop

ASSUME LibraryAssumption == Document \cap Server = {} /\ OfferLimit \in Nat /\ MaxAssociationBatchSize \in Nat

VARIABLES
  document, \* rows of documents
  onDisk,   \* documents whose whole content is on disk
  partial,  \* documents of which a part is
  server,   \* rows of mcp_servers
  linked,   \* rows of specialist_documents and specialist_mcps
  libReq    \* requests in flight

libraryRows == <<document, onDisk, partial, server, linked>>
libraryVars == <<libraryRows, libReq>>

DocumentRow == SUBSET Document
McpServerRow == SUBSET Server
SpecialistDocumentRow == Specialist \X Document
SpecialistMcpRow == Specialist \X Server
LibIdle == [phase |-> "none"]
LibPhase == {"none", "copy", "insert", "discard", "unlinkAll", "drop", "unlinkFile", "associate",
             "link", "saveServer"}

LibraryTypeOK ==
  /\ document \in DocumentRow /\ server \in McpServerRow
  /\ onDisk \subseteq Document /\ partial \subseteq Document
  /\ linked \subseteq SpecialistDocumentRow \cup SpecialistMcpRow
  /\ \A l \in linked : l[2] \in document \cup server
  /\ \A r \in LibraryRequest : libReq[r].phase \in LibPhase

LibraryInit ==
  /\ document = {} /\ onDisk = {} /\ partial = {} /\ server = {} /\ linked = {}
  /\ libReq = [r \in LibraryRequest |-> LibIdle]

-----------------------------------------------------------------------------
InPhase(r, phase) == libReq[r].phase = phase
Goto(r, q) == libReq' = [libReq EXCEPT ![r] = q]
Keeps(r, q) == Goto(r, q) /\ UNCHANGED libraryRows
Mentioned(x) == \E r \in LibraryRequest : "item" \in DOMAIN libReq[r] /\ libReq[r].item = x

\* The process stops: every request ends where it is.
LibraryCrash ==
  /\ "crash" \in LibraryFaults
  /\ libReq' = [r \in LibraryRequest |-> LibIdle]
  /\ UNCHANGED libraryRows
\* A statement fails: the upload removes its file, the others just end.
StatementFails(r) ==
  /\ "db" \in LibraryFaults
  /\ libReq[r].phase \in {"insert", "unlinkAll", "drop", "associate", "link", "saveServer"}
  /\ Keeps(r, IF InPhase(r, "insert") THEN [libReq[r] EXCEPT !.phase = "discard"] ELSE LibIdle)

-----------------------------------------------------------------------------
(* Upload: the content, then the row. *)

HandleUpload(r, d) ==
  /\ InPhase(r, "none") /\ d \notin document \cup onDisk \cup partial /\ ~Mentioned(d)
  /\ partial' = partial \cup {d}
  /\ Goto(r, [phase |-> "copy", item |-> d])
  /\ UNCHANGED <<document, onDisk, server, linked>>
CopyContent(r) ==
  /\ InPhase(r, "copy")
  /\ \/ /\ onDisk' = onDisk \cup {libReq[r].item} /\ partial' = partial \ {libReq[r].item}
        /\ Goto(r, [libReq[r] EXCEPT !.phase = "insert"])
     \/ Goto(r, [libReq[r] EXCEPT !.phase = "discard"]) /\ UNCHANGED <<onDisk, partial>>
  /\ UNCHANGED <<document, server, linked>>
UploadDocument(r) ==
  /\ InPhase(r, "insert")
  /\ document' = document \cup {libReq[r].item}
  /\ Goto(r, LibIdle)
  /\ UNCHANGED <<onDisk, partial, server, linked>>
RemoveFile(r) ==
  /\ libReq[r].phase \in {"discard", "unlinkFile"}
  /\ onDisk' = onDisk \ {libReq[r].item} /\ partial' = partial \ {libReq[r].item}
  /\ Goto(r, LibIdle)
  /\ UNCHANGED <<document, server, linked>>

-----------------------------------------------------------------------------
(* Delete: the links, the row and, of a document, the file. *)

DeleteItem(r, x) == InPhase(r, "none") /\ Keeps(r, [phase |-> "unlinkAll", item |-> x])
HandleDeleteDocument(r, d) == d \in document /\ DeleteItem(r, d)
HandleDeleteServer(r, m) == m \in server /\ DeleteItem(r, m)
DissociateAll(r) ==
  /\ InPhase(r, "unlinkAll")
  /\ linked' = {l \in linked : l[2] # libReq[r].item}
  /\ Goto(r, [libReq[r] EXCEPT !.phase = "drop"])
  /\ UNCHANGED <<document, onDisk, partial, server>>
\* The foreign keys cascade to a link made since; a row that is gone ends it.
DropItem(r) ==
  LET x == libReq[r].item IN
  /\ InPhase(r, "drop")
  /\ document' = document \ {x} /\ server' = server \ {x}
  /\ linked' = {l \in linked : l[2] # x}
  /\ Goto(r, IF x \in document THEN [libReq[r] EXCEPT !.phase = "unlinkFile"] ELSE LibIdle)
  /\ UNCHANGED <<onDisk, partial>>

-----------------------------------------------------------------------------
(* MCP servers. *)

CreateMcp(m) ==
  /\ m \notin server /\ ~Mentioned(m)
  /\ server' = server \cup {m}
  /\ UNCHANGED <<document, onDisk, partial, linked, libReq>>
UpdateMcp(r, m) == InPhase(r, "none") /\ m \in server /\ Keeps(r, [phase |-> "saveServer", item |-> m])
\* Save brings back a server that is gone.
SaveMcp(r) ==
  /\ InPhase(r, "saveServer")
  /\ server' = server \cup {libReq[r].item}
  /\ Goto(r, LibIdle)
  /\ UNCHANGED <<document, onDisk, partial, linked>>

-----------------------------------------------------------------------------
(* Links. *)

LinkedTo(s, items) == {x \in items : <<s, x>> \in linked}
FindDocumentIDs(s) == LinkedTo(s, Document)
FindMcpIDs(s) == LinkedTo(s, Server)
\* The newest of all, without those that are linked: a library longer than
\* the limit is never offered whole.
Offered(all, linkedIds) ==
  {n \ linkedIds : n \in {x \in SUBSET all : Cardinality(x) = Min({OfferLimit, Cardinality(all)})}}
OfferedDocuments(s) == Offered(document, FindDocumentIDs(s))
OfferedMcps(s) == Offered(server, FindMcpIDs(s))

AssociateItems(r, s, chosen) ==
  /\ InPhase(r, "none") /\ chosen # {} /\ Cardinality(chosen) <= MaxAssociationBatchSize
  /\ specialist[s] # NoRow /\ IsActive(s)
  /\ Keeps(r, [phase |-> "associate", spec |-> s, left |-> chosen])
AssociateDocuments(r, s, chosen) ==
  (\E o \in OfferedDocuments(s) : chosen \subseteq o) /\ AssociateItems(r, s, chosen)
AssociateMcps(r, s, chosen) ==
  (\E o \in OfferedMcps(s) : chosen \subseteq o) /\ AssociateItems(r, s, chosen)
\* One that is gone ends the request, one that is linked is skipped.
FindItem(r) ==
  LET q == libReq[r] IN
  /\ InPhase(r, "associate")
  /\ \/ q.left = {} /\ Keeps(r, LibIdle)
     \/ \E x \in q.left :
          \/ x \notin document \cup server /\ Keeps(r, LibIdle)
          \/ x \in document \cup server /\ <<q.spec, x>> \in linked /\ Keeps(r, [q EXCEPT !.left = @ \ {x}])
          \/ /\ x \in document \cup server /\ <<q.spec, x>> \notin linked
             /\ Keeps(r, [phase |-> "link", spec |-> q.spec, left |-> q.left \ {x}, item |-> x])
\* The keys stop the second of two and the link of what is gone.
AssociateItem(r) ==
  LET q == libReq[r] IN
  /\ InPhase(r, "link")
  /\ IF <<q.spec, q.item>> \in linked \/ q.item \notin document \cup server
     THEN Keeps(r, LibIdle)
     ELSE /\ linked' = linked \cup {<<q.spec, q.item>>}
          /\ Goto(r, [phase |-> "associate", spec |-> q.spec, left |-> q.left])
          /\ UNCHANGED <<document, onDisk, partial, server>>
Dissociate(s, x) ==
  /\ <<s, x>> \in linked
  /\ linked' = linked \ {<<s, x>>}
  /\ UNCHANGED <<document, onDisk, partial, server, libReq>>
DissociateDocument(s, d) == Dissociate(s, d)
DissociateMcp(s, m) == Dissociate(s, m)

-----------------------------------------------------------------------------
DocumentForms(r) ==
  \/ \E d \in Document : HandleUpload(r, d) \/ HandleDeleteDocument(r, d)
  \/ CopyContent(r) \/ UploadDocument(r) \/ RemoveFile(r) \/ DissociateAll(r) \/ DropItem(r)
DocumentLinks(r) ==
  \/ \E s \in Specialist, ds \in SUBSET Document : AssociateDocuments(r, s, ds)
  \/ \E s \in Specialist, d \in Document : DissociateDocument(s, d)
  \/ FindItem(r) \/ AssociateItem(r)
McpForms(r) ==
  \/ \E m \in Server : CreateMcp(m) \/ UpdateMcp(r, m) \/ HandleDeleteServer(r, m)
  \/ SaveMcp(r)
McpLinks(r) ==
  \/ \E s \in Specialist, ms \in SUBSET Server : AssociateMcps(r, s, ms)
  \/ \E s \in Specialist, m \in Server : DissociateMcp(s, m)
LibraryNext ==
  \/ \E r \in LibraryRequest : DocumentForms(r) \/ DocumentLinks(r) \/ McpForms(r) \/ McpLinks(r) \/ StatementFails(r)
  \/ LibraryCrash
LibrarySpec == LibraryInit /\ [][LibraryNext]_libraryVars

-----------------------------------------------------------------------------
\* A document that is listed can be read: whatever crashes or fails between
\* the file and the row, a row is never without its whole content
\* (document handler.go:149-177, 216-232).
DocumentsAreWhole == document \subseteq onDisk
=============================================================================
