---- MODULE Files ----
(***************************************************************************)
(* FilesService: presign stores a pending file record and hands out an     *)
(* upload URL, complete marks it ready and makes it its product's image,   *)
(* getFileUrl hands out a download URL.  complete runs without a           *)
(* transaction: the read, the save and the product update are three        *)
(* statements that those of other calls may come between.                  *)
(***************************************************************************)
EXTENDS Integers, FiniteSets

CONSTANTS Files,        \* file ids: one for every presign request
          Calls,        \* complete and get requests
          Products,     \* rows of the products table
          None,         \* NULL
          Uploads,      \* the presign requests considered
          Requests,     \* the complete and get requests considered
          Faults        \* which failures may happen: "statement", "crash"

ASSUME FilesAssumption ==
    /\ None \notin Files
    /\ Faults \subseteq {"statement", "crash"}
    /\ \A u \in Uploads : \A f \in Files :
        /\ u[f].entityType \in {"product", "user"}
        /\ u[f].role \in {"admin", "user"}
        /\ u[f].visibility \in {"private", "public"}
    /\ \A q \in Requests : \A c \in Calls :
        /\ q[c].kind \in {"complete", "get"}
        /\ q[c].file \in Files

VARIABLES upload,       \* upload[f]: user, role and dto of the presign of f
          presigned,    \* presigned[f]: its answer
          status,       \* file_records.status, "none" without a record
          imageFileId,  \* products.imageFileId
          request,      \* request[c]: user, kind and file of call c
          pc,           \* where call c is
          answer        \* its answer

fileVars == <<upload, presigned, status, imageFileId>>
vars     == <<fileVars, request, pc, answer>>

Init ==
    /\ upload \in Uploads
    /\ presigned = [f \in Files |-> "none"]
    /\ status = [f \in Files |-> "none"]
    /\ imageFileId = [p \in Products |-> None]
    /\ request \in Requests
    /\ pc = [c \in Calls |-> "new"]
    /\ answer = [c \in Calls |-> "none"]

FileOf(c)  == request[c].file
OwnerOf(f) == upload[f].user

Answer(c, code) ==
    /\ pc' = [pc EXCEPT ![c] = "done"]
    /\ answer' = [answer EXCEPT ![c] = code]

Go(c, place) == pc' = [pc EXCEPT ![c] = place] /\ UNCHANGED answer

-----------------------------------------------------------------------------

\* Mutant: the role is not looked at.
CanPresignAnything(f) ==
    upload[f].entityType = "product" \/ OwnerOf(f) = upload[f].entityId

\* assertCanPresign
CanPresign(f) ==
    IF upload[f].entityType = "product" THEN upload[f].role = "admin"
    ELSE OwnerOf(f) = upload[f].entityId

\* The record is saved before the URL is signed: when the save fails there is
\* none, when signing fails a pending one stays behind.
Presign(f) ==
    /\ presigned[f] = "none"
    /\ \/ /\ ~ CanPresign(f)
          /\ presigned' = [presigned EXCEPT ![f] = "forbidden"]
          /\ UNCHANGED status
       \/ /\ CanPresign(f)
          /\ status' = [status EXCEPT ![f] = "pending"]
          /\ presigned' = [presigned EXCEPT ![f] = "url"]
       \/ /\ CanPresign(f)
          /\ "statement" \in Faults
          /\ status' \in {status, [status EXCEPT ![f] = "pending"]}
          /\ presigned' = [presigned EXCEPT ![f] = "error"]
    /\ UNCHANGED <<upload, imageFileId, request, pc, answer>>

\* Mutant: complete does not compare the owner with the caller.
AnyoneOwns(c) == TRUE

IsOwner(c) == OwnerOf(FileOf(c)) = request[c].user

\* complete: the record is read and checked.
Denial(c) ==
    IF status[FileOf(c)] = "none" THEN "notFound"
    ELSE IF ~ IsOwner(c) THEN "forbidden"
    ELSE IF status[FileOf(c)] # "pending" THEN "conflict"
    ELSE "none"

CheckRecord(c) ==
    /\ pc[c] = "new"
    /\ request[c].kind = "complete"
    /\ IF Denial(c) = "none" THEN Go(c, "saving") ELSE Answer(c, Denial(c))
    /\ UNCHANGED <<fileVars, request>>

\* Mutant: a product's image is answered ok without being linked.
NeverLinked(c) == FALSE

IsImage(c) == upload[FileOf(c)].entityType = "product"

SaveReady(c) ==
    /\ pc[c] = "saving"
    /\ status' = [status EXCEPT ![FileOf(c)] = "ready"]
    /\ IF IsImage(c) THEN Go(c, "linking") ELSE Answer(c, "ok")
    /\ UNCHANGED <<upload, presigned, imageFileId, request>>

\* UPDATE products ... WHERE id = entityId: no row, no error.
LinkImage(c) ==
    /\ pc[c] = "linking"
    /\ imageFileId' = [p \in Products |-> IF p = upload[FileOf(c)].entityId
                                          THEN FileOf(c) ELSE imageFileId[p]]
    /\ Answer(c, "ok")
    /\ UNCHANGED <<upload, presigned, status, request>>

\* getFileUrl: one read, then the answer.
UrlAnswer(c) ==
    IF status[FileOf(c)] = "none" THEN "notFound"
    ELSE IF status[FileOf(c)] # "ready" THEN "badRequest"
    ELSE IF upload[FileOf(c)].visibility = "private" /\ ~ IsOwner(c) THEN "forbidden"
    ELSE "url"

GetFileUrl(c) ==
    /\ pc[c] = "new"
    /\ request[c].kind = "get"
    /\ Answer(c, UrlAnswer(c))
    /\ UNCHANGED <<fileVars, request>>

\* Mutant: a failed complete puts the record back to pending by hand.
StatementFailsReverting(c) ==
    /\ "statement" \in Faults
    /\ pc[c] = "linking"
    /\ status' = [status EXCEPT ![FileOf(c)] = "pending"]
    /\ Answer(c, "error")
    /\ UNCHANGED <<upload, presigned, imageFileId, request>>

\* A statement of complete throws; what earlier statements wrote stays.
StatementFails(c) ==
    /\ "statement" \in Faults
    /\ pc[c] \in {"new", "saving", "linking"}
    /\ Answer(c, "error")
    /\ UNCHANGED <<fileVars, request>>

\* The API process dies: calls in flight are never answered.
Crash ==
    /\ "crash" \in Faults
    /\ \E c \in Calls : pc[c] \in {"saving", "linking"}
    /\ pc' = [c \in Calls |-> IF pc[c] \in {"saving", "linking"} THEN "crashed"
                              ELSE pc[c]]
    /\ UNCHANGED <<fileVars, request, answer>>

Idle ==
    /\ \A f \in Files : presigned[f] # "none"
    /\ \A c \in Calls : pc[c] \in {"done", "crashed"}
    /\ UNCHANGED vars

Next ==
    \/ \E f \in Files : Presign(f)
    \/ \E c \in Calls : \/ CheckRecord(c) \/ SaveReady(c) \/ LinkImage(c)
                        \/ GetFileUrl(c) \/ StatementFails(c)
    \/ Crash
    \/ Idle

Spec == Init /\ [][Next]_vars

-----------------------------------------------------------------------------
(* Properties.                                                             *)

\* Every variable has its type.
TypeOK ==
    /\ upload \in Uploads
    /\ presigned \in [Files -> {"none", "forbidden", "url", "error"}]
    /\ status \in [Files -> {"none", "pending", "ready"}]
    /\ imageFileId \in [Products -> Files \cup {None}]
    /\ request \in Requests
    /\ pc \in [Calls -> {"new", "saving", "linking", "done", "crashed"}]
    /\ answer \in [Calls -> {"none", "ok", "url", "notFound", "forbidden",
                             "conflict", "badRequest", "error"}]

\* The image of a product is a ready file that an admin uploaded for that
\* product, although the product update trusts a record read earlier.
ImageIsAdminsReadyFile ==
    \A p \in Products : imageFileId[p] # None =>
        LET f == imageFileId[p]
        IN  /\ status[f] = "ready"
            /\ upload[f].entityType = "product" /\ upload[f].entityId = p
            /\ upload[f].role = "admin"

\* The product f is for, if there is one, has an image.
HasImage(f) ==
    LET u == upload[f]
    IN  u.entityType = "product" /\ u.entityId \in Products
            => imageFileId[u.entityId] # None

\* A complete answered ok leaves its product with an image, whichever other
\* uploads of the same product complete at the same time.
CompletedProductHasImage ==
    \A c \in Calls : answer[c] = "ok" => HasImage(FileOf(c))

\* A complete of f by its owner that may have saved it: it is about to link the
\* file, was answered ok, failed with an error, or died with the process.
ReadiedBy(c, f) ==
    /\ FileOf(c) = f /\ request[c].user = OwnerOf(f)
    /\ request[c].kind = "complete"
    /\ pc[c] \in {"linking", "crashed"} \/ answer[c] \in {"ok", "error"}

\* A file is ready only because its owner, who was allowed to presign it, had
\* it completed, whoever else completes it at the same time; and when a product
\* has no image although a file of it is ready, that complete is still under
\* way or its client was told of an error or of nothing.
ReadyByOwner ==
    \A f \in Files : status[f] = "ready" =>
        /\ CanPresign(f)
        /\ \E c \in Calls : ReadiedBy(c, f) /\ (answer[c] = "ok" => HasImage(f))

\* A record goes from none to pending to ready and never back: no late save
\* undoes another.
FileHistory ==
    [][\A f \in Files : status'[f] # status[f] =>
          <<status[f], status'[f]>> \in {<<"none", "pending">>,
                                         <<"pending", "ready">>}]_vars

====
