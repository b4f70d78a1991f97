------------------------------ MODULE Documents ------------------------------
(***************************************************************************)
(* Documents, their upload into the object store, their links and who may  *)
(* see them (apps/api/src/modules/documents, infrastructure/storage).      *)
(*                                                                         *)
(* An upload is announced (createUploadIntent), put and completed; the     *)
(* bytes may come with either call.  Completing and deleting read the      *)
(* document first and later update it by its id, and nothing serialises    *)
(* them.  A link names a resident, a property or a lease; a user whose     *)
(* access is scoped sees the documents linked with what is in scope.       *)
(*                                                                         *)
(* The bytes are always checked against the declared checksum before they  *)
(* are put, which only the service does; the local store truncates a file  *)
(* before it writes it, S3 puts it at once.  Types, sizes, retention and   *)
(* visibility are left out.                                                *)
(***************************************************************************)
EXTENDS Naturals, FiniteSets

CONSTANTS
  Documents,
  Residents, Tenancies, Sites,  \* residents, leases and properties
  NoSite,     \* no preferred property, or a deleted lease
  Uploads,    \* completions, deletions and links that may be open at once
  AtomicPut   \* the object store is S3

Targets == Residents \cup Tenancies \cup Sites

ASSUME DocumentAssumption ==
  /\ AtomicPut \in BOOLEAN /\ NoSite \notin Targets
  /\ Residents \cap Sites = {} /\ Tenancies \cap Sites = {} /\ Residents \cap Tenancies = {}

VARIABLES
  document,  \* status, whether deletedAt is set, legal hold, scan status
  object,    \* the object of each document in the store
  links,     \* rows of document_links, as document, target and request
  site,      \* preferred property of a resident, property of a lease
  upload     \* what each open call has read, and its next step

documentVars == <<document, object, links, site, upload>>

NoDocument == [status |-> "NONE", deleted |-> FALSE, hold |-> FALSE, scan |-> "NONE"]
NoUpload   == [op |-> "closed"]

DocumentInit ==
  /\ document = [d \in Documents |-> NoDocument]
  /\ object = [d \in Documents |-> "missing"]
  /\ links = {}
  /\ site \in [Residents \cup Tenancies -> Sites \cup {NoSite}]
  /\ upload = [u \in Uploads |-> NoUpload]

\* findDocument.
Found(d) == document[d].status # "NONE" /\ ~document[d].deleted

Opens(u, call) ==
  /\ upload[u] = NoUpload
  /\ upload' = [upload EXCEPT ![u] = call]

Closes(u) == upload' = [upload EXCEPT ![u] = NoUpload]

(***************************************************************************)
(* Upload.                                                                 *)
(***************************************************************************)

\* A faulty variant of CreateUploadIntent: bytes that come with it await a scan.
CreateUploadIntentScanned(d, withBytes, targets) ==
  /\ document[d] = NoDocument /\ object[d] \in {"missing", "whole"}
  /\ Cardinality(targets) <= 1
  /\ document' = [document EXCEPT ![d].status = IF withBytes THEN "SCANNING" ELSE "UPLOADING",
                                  ![d].scan = "UPLOADING"]
  /\ object' = IF withBytes THEN [object EXCEPT ![d] = "whole"] ELSE object
  /\ links' = links \cup {<<d, x, "first">> : x \in targets}
  /\ UNCHANGED <<site, upload>>

\* The bytes that come with the intent are stored before the row is inserted;
\* the first link is inserted with it.
CreateUploadIntent(d, withBytes, targets) ==
  /\ document[d] = NoDocument /\ object[d] \in {"missing", "whole"}
  /\ Cardinality(targets) <= 1
  /\ document' = [document EXCEPT ![d].status = "UPLOADING", ![d].scan = "UPLOADING"]
  /\ object' = IF withBytes THEN [object EXCEPT ![d] = "whole"] ELSE object
  /\ links' = links \cup {<<d, x, "first">> : x \in targets}
  /\ UNCHANGED <<site, upload>>

CompleteRead(u, d, withBytes) ==
  /\ Found(d) /\ document[d].status \in {"UPLOADING", "SCANNING"}
  /\ Opens(u, [op |-> IF withBytes THEN "put" ELSE "get", document |-> d])
  /\ UNCHANGED <<document, object, links, site>>

\* putObject: at once, or by truncating and then writing.
CompletePut(u) ==
  LET d == upload[u].document IN
  /\ upload[u].op \in {"put", "write"}
  /\ IF upload[u].op = "put" /\ ~AtomicPut
     THEN /\ object' = [object EXCEPT ![d] = "partial"]
          /\ upload' = [upload EXCEPT ![u].op = "write"]
     ELSE /\ object' = [object EXCEPT ![d] = "whole"]
          /\ upload' = [upload EXCEPT ![u].op = "get"]
  /\ UNCHANGED <<document, links, site>>

\* A faulty variant of Verified: whatever is stored will do.
VerifiedAnything(d) == object[d] \in {"missing", "partial", "whole"}

\* The stored object has the declared checksum and size.
Verified(d) == object[d] = "whole"

CompleteGet(u) ==
  /\ upload[u].op = "get" /\ Verified(upload[u].document)
  /\ upload' = [upload EXCEPT ![u].op = "complete"]
  /\ UNCHANGED <<document, object, links, site>>

\* Whatever has become of the document meanwhile; the stub of the scanner
\* rejects types that the intent has refused before.
CompleteWrite(u) ==
  LET d == upload[u].document IN
  /\ upload[u].op = "complete"
  /\ document' = [document EXCEPT ![d].status = "READY", ![d].scan = "READY"]
  /\ Closes(u)
  /\ UNCHANGED <<object, links, site>>

\* A refusal, an error or a crash.
LeaveUpload(u) ==
  /\ upload[u] # NoUpload
  /\ Closes(u)
  /\ UNCHANGED <<document, object, links, site>>

(***************************************************************************)
(* Links, deletion, and the surroundings.                                  *)
(***************************************************************************)

\* A target is linked by one row of one request.
Linked(d, x) == \E row \in links : row[1] = d /\ row[2] = x

LinkRead(u, d, x) ==
  /\ Found(d) /\ document[d].status = "READY" /\ ~Linked(d, x)
  /\ Opens(u, [op |-> "link", document |-> d, target |-> x])
  /\ UNCHANGED <<document, object, links, site>>

\* The unique index lets two rows pass that have a NULL in the same column.
LinkWrite(u) ==
  /\ upload[u].op = "link"
  /\ links' = links \cup {<<upload[u].document, upload[u].target, u>>}
  /\ Closes(u)
  /\ UNCHANGED <<document, object, site>>

DeleteRead(u, d) ==
  /\ Found(d) /\ ~document[d].hold
  /\ Opens(u, [op |-> "delete", document |-> d])
  /\ UNCHANGED <<document, object, links, site>>

DeleteWrite(u) ==
  LET d == upload[u].document IN
  /\ upload[u].op = "delete"
  /\ document' = [document EXCEPT ![d].status = "DELETED", ![d].deleted = TRUE]
  /\ Closes(u)
  /\ UNCHANGED <<object, links, site>>

\* Legal holds are placed and lifted outside the program.
ChangeHold(d) ==
  /\ Found(d)
  /\ document' = [document EXCEPT ![d].hold = ~@]
  /\ UNCHANGED <<object, links, site, upload>>

\* A resident prefers another property, a lease is transferred or deleted.
ChangePlace(x, estate) ==
  /\ site' = [site EXCEPT ![x] = estate]
  /\ UNCHANGED <<document, object, links, upload>>

DocumentNext ==
  \/ \E d \in Documents :
       \/ ChangeHold(d)
       \/ \E withBytes \in BOOLEAN, targets \in SUBSET Targets :
            CreateUploadIntent(d, withBytes, targets)
       \/ \E u \in Uploads :
            \/ DeleteRead(u, d)
            \/ \E withBytes \in BOOLEAN : CompleteRead(u, d, withBytes)
            \/ \E x \in Targets : LinkRead(u, d, x)
  \/ \E u \in Uploads :
       \/ CompletePut(u) \/ CompleteGet(u) \/ CompleteWrite(u)
       \/ LinkWrite(u) \/ DeleteWrite(u) \/ LeaveUpload(u)
  \/ \E x \in Residents \cup Tenancies, estate \in Sites \cup {NoSite} : ChangePlace(x, estate)

DocumentSpec == DocumentInit /\ [][DocumentNext]_documentVars

(***************************************************************************)
(* Who sees what.  scope is the set of properties a user is limited to.    *)
(***************************************************************************)

\* A faulty variant of ListScope: links with a lease were forgotten.
ListScopeWithoutLeases(d, scope) ==
  \/ \E x \in Sites : Linked(d, x) /\ x \in scope
  \/ \E x \in Residents : Linked(d, x) /\ site[x] \in scope

\* buildDocumentLinkScope without filters.
ListScope(d, scope) ==
  \/ \E x \in Sites : Linked(d, x) /\ x \in scope
  \/ \E x \in Residents : Linked(d, x) /\ site[x] \in scope
  \/ \E x \in Tenancies : Linked(d, x) /\ site[x] \in scope

\* assertDocumentAccessible, which fetches leases and residents one by one.
Accessible(d, scope) ==
  LET estates == {x \in Sites : Linked(d, x)}
      leases  == {x \in Tenancies : Linked(d, x)}
      parties == {x \in Residents : Linked(d, x)}
  IN IF estates \cap scope # {} THEN TRUE
     ELSE IF leases # {} /\ {x \in leases : site[x] \in scope} # {} THEN TRUE
     ELSE parties # {} /\ {x \in parties : site[x] \in scope} # {}

ListedFor(d, scope) == Found(d) /\ ListScope(d, scope)

\* getDocumentContent, and createDownloadUrl.
Downloadable(d, scope) ==
  Found(d) /\ Accessible(d, scope) /\ document[d].status = "READY" /\ document[d].scan = "READY"

(***************************************************************************)
(* Properties.                                                             *)
(***************************************************************************)

\* Rows fit their tables.
DocumentTypeOK ==
  /\ document \in [Documents ->
       [status : {"NONE", "UPLOADING", "READY", "DELETED"}, deleted : BOOLEAN, hold : BOOLEAN,
        scan : {"NONE", "UPLOADING", "READY"}]]
  /\ object \in [Documents -> {"missing", "partial", "whole"}]
  /\ \A row \in links : row[1] \in Documents /\ row[2] \in Targets
  /\ site \in [Residents \cup Tenancies -> Sites \cup {NoSite}]

\* What the list of a scoped user shows as ready can be downloaded by that user,
\* and the bytes are there as declared, whatever completions, deletions and
\* links overlap: list and download decide about access in different ways.
ListedIsDownloadable ==
  \A d \in Documents, scope \in SUBSET Sites :
    /\ ListedFor(d, scope) /\ document[d].status = "READY"
         => Downloadable(d, scope) /\ object[d] = "whole"
    /\ Downloadable(d, scope) => ListedFor(d, scope)

\* document.service.ts, createLink: a document is linked with a target once.
LinkedOnce ==
  \A row, other \in links : row[1] = other[1] /\ row[2] = other[2] => row = other

=============================================================================
