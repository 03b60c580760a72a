---- MODULE Files_proof ----
(***************************************************************************)
(* Proofs about Files, for any number of files, calls and products, and    *)
(* any presign, complete and get requests.                                 *)
(***************************************************************************)
EXTENDS Files, TLAPS

USE DEF fileVars, FileOf, OwnerOf, IsOwner, IsImage

\* A record exists only for a presign that was allowed and answered.
RecordsInv ==
    \A f \in Files : status[f] # "none" => CanPresign(f) /\ presigned[f] # "none"

\* What a complete knows after its check: another call may have made the file
\* ready meanwhile, but nothing takes it back.
CallsInv ==
    \A c \in Calls :
        /\ pc[c] \in {"saving", "linking"} =>
              /\ request[c].kind = "complete" /\ request[c].user = OwnerOf(FileOf(c))
              /\ status[FileOf(c)] \in {"pending", "ready"}
        /\ pc[c] = "linking" =>
              status[FileOf(c)] = "ready" /\ upload[FileOf(c)].entityType = "product"
        /\ pc[c] # "done" => answer[c] = "none"

IInv ==
    /\ TypeOK
    /\ RecordsInv
    /\ CallsInv
    /\ ImageIsAdminsReadyFile
    /\ CompletedProductHasImage
    /\ ReadyByOwner

\* Every call is about a file, which is not NULL.
LEMMA CallsAreAboutFiles ==
    ASSUME TypeOK PROVE \A c \in Calls : FileOf(c) \in Files /\ FileOf(c) # None
BY FilesAssumption DEF TypeOK

LEMMA IInvInit == ASSUME Init PROVE IInv
BY DEF Init, IInv, TypeOK, RecordsInv, CallsInv, ImageIsAdminsReadyFile,
       CompletedProductHasImage, ReadyByOwner

\* A product that has an image keeps one.
LEMMA ImagesStay ==
    ASSUME IInv, UNCHANGED upload, NEW f \in Files, HasImage(f),
           \A p \in Products : imageFileId[p] # None => imageFileId'[p] # None
    PROVE  HasImage(f)'
BY DEF HasImage

\* A file that was ready has its complete still when no call goes back on what
\* it was answered and no product loses its image.
LEMMA StillReadied ==
    ASSUME IInv, NEW f \in Files, status[f] = "ready", UNCHANGED <<upload, request>>,
           \A p \in Products : imageFileId[p] # None => imageFileId'[p] # None,
           \A c \in Calls :
               /\ pc[c] = "linking" => pc'[c] \in {"linking", "crashed"} \/ answer'[c] \in {"ok", "error"}
               /\ pc[c] = "crashed" => pc'[c] = "crashed"
               /\ answer[c] \in {"ok", "error"} => answer'[c] = answer[c]
               /\ answer'[c] = "ok" => answer[c] = "ok" \/ HasImage(FileOf(c))'
    PROVE  /\ CanPresign(f)'
           /\ \E c \in Calls : ReadiedBy(c, f)' /\ (answer'[c] = "ok" => HasImage(f)')
<1>1. CanPresign(f)'
  BY DEF IInv, RecordsInv, CanPresign
<1>2. PICK c \in Calls : ReadiedBy(c, f) /\ (answer[c] = "ok" => HasImage(f))
  BY DEF IInv, ReadyByOwner
<1>3. ReadiedBy(c, f)'
  BY <1>2 DEF ReadiedBy
<1>4. answer'[c] = "ok" => HasImage(f)'
  BY <1>2, ImagesStay DEF ReadiedBy
<1> QED BY <1>1, <1>3, <1>4

-----------------------------------------------------------------------------

LEMMA PresignStep ==
    ASSUME IInv, NEW f \in Files, Presign(f) PROVE IInv'
<1>1. /\ UNCHANGED <<upload, imageFileId, request, pc, answer>>
      /\ presigned[f] = "none" /\ status[f] = "none"
  BY DEF Presign, IInv, RecordsInv
<1>2. TypeOK'
  BY DEF Presign, IInv, TypeOK
<1>3. \A g \in Files : g # f => status'[g] = status[g] /\ presigned'[g] = presigned[g]
  BY DEF Presign, IInv, TypeOK
<1>4. /\ status'[f] \in {"none", "pending"} /\ presigned'[f] # "none"
      /\ status'[f] = "pending" => CanPresign(f)
  BY <1>1 DEF Presign, IInv, TypeOK
<1>5. RecordsInv'
  BY <1>1, <1>3, <1>4 DEF IInv, RecordsInv, CanPresign
<1>6. \A g \in Files : status[g] \in {"pending", "ready"} => status'[g] = status[g]
  BY <1>1, <1>3
<1>7. CallsInv'
  BY <1>1, <1>6, CallsAreAboutFiles DEF IInv, CallsInv
<1>8. ImageIsAdminsReadyFile'
  <2>1. \A p \in Products : imageFileId[p] # None => imageFileId[p] \in Files
    BY DEF IInv, TypeOK
  <2> QED BY <1>1, <1>6, <2>1 DEF IInv, ImageIsAdminsReadyFile
<1>9. CompletedProductHasImage'
  BY <1>1 DEF IInv, CompletedProductHasImage, HasImage
<1>10. ReadyByOwner'
  <2>1. ASSUME NEW g \in Files, status'[g] = "ready" PROVE status[g] = "ready"
    BY <1>3, <1>4, <2>1
  <2> QED BY <1>1, <2>1, StillReadied DEF ReadyByOwner
<1> QED BY <1>2, <1>5, <1>7, <1>8, <1>9, <1>10 DEF IInv

\* A call that moves without writing: its check, a get, a failure.
LEMMA QuietStep ==
    ASSUME IInv, NEW c \in Calls, UNCHANGED <<fileVars, request>>,
           NEW code, pc[c] = "new" \/ (pc[c] \in {"saving", "linking"} /\ code = "error"),
           code \in {"url", "notFound", "forbidden", "conflict", "badRequest", "error"},
           \/ Answer(c, code)
           \/ CheckRecord(c) /\ Go(c, "saving")
    PROVE  IInv'
<1>1. TypeOK'
  BY DEF IInv, TypeOK, Answer, Go
<1>2. \A d \in Calls : d # c => pc'[d] = pc[d] /\ answer'[d] = answer[d]
  BY DEF IInv, TypeOK, Answer, Go
<1>3. \/ pc'[c] = "done" /\ answer'[c] = code
      \/ /\ pc'[c] = "saving" /\ answer'[c] = answer[c] /\ pc[c] = "new"
         /\ request[c].kind = "complete" /\ Denial(c) = "none"
  <2>1. CASE Answer(c, code)
    BY <2>1 DEF IInv, TypeOK, Answer
  <2>2. CASE CheckRecord(c) /\ Go(c, "saving")
    BY <2>2 DEF IInv, TypeOK, Go, CheckRecord, Answer
  <2> QED BY <2>1, <2>2
<1>4. RecordsInv' /\ ImageIsAdminsReadyFile'
  BY DEF IInv, RecordsInv, ImageIsAdminsReadyFile, CanPresign
<1>5. CallsInv'
  <2>1. Denial(c) = "none" => /\ request[c].user = OwnerOf(FileOf(c))
                              /\ status[FileOf(c)] = "pending"
    BY DEF Denial
  <2> QED BY <1>2, <1>3, <2>1 DEF IInv, CallsInv
<1>6. CompletedProductHasImage'
  <2>1. answer'[c] # "ok"
    BY <1>3 DEF IInv, CallsInv
  <2> QED BY <1>2, <2>1 DEF IInv, CompletedProductHasImage, HasImage
<1>7. ReadyByOwner'
  <2>1. answer'[c] # "ok" /\ (pc[c] = "linking" => answer'[c] = "error") /\ answer[c] = "none"
    BY <1>3 DEF IInv, CallsInv
  <2> QED BY <1>2, <2>1, StillReadied DEF ReadyByOwner
<1> QED BY <1>1, <1>4, <1>5, <1>6, <1>7 DEF IInv

LEMMA SaveReadyStep ==
    ASSUME IInv, NEW c \in Calls, SaveReady(c) PROVE IInv'
<1> DEFINE f == FileOf(c)
<1>1. /\ f \in Files /\ pc[c] = "saving" /\ UNCHANGED <<upload, presigned, imageFileId, request>>
      /\ request[c].kind = "complete" /\ request[c].user = OwnerOf(f) /\ status[f] # "none"
  BY CallsAreAboutFiles DEF SaveReady, IInv, CallsInv
<1>2. TypeOK'
  BY DEF SaveReady, Go, Answer, IInv, TypeOK
<1>3. /\ status'[f] = "ready"
      /\ \A g \in Files : g # f => status'[g] = status[g]
      /\ \A d \in Calls : d # c => pc'[d] = pc[d] /\ answer'[d] = answer[d]
  BY <1>1 DEF SaveReady, Go, Answer, IInv, TypeOK
<1>4. \/ /\ upload[f].entityType = "product" /\ pc'[c] = "linking" /\ answer'[c] = answer[c]
      \/ /\ upload[f].entityType # "product" /\ pc'[c] = "done" /\ answer'[c] = "ok"
  BY DEF SaveReady, Go, Answer, IInv, TypeOK
<1>5. RecordsInv'
  BY <1>1, <1>3 DEF IInv, RecordsInv, CanPresign
<1>6. CallsInv'
  <2>1. \A d \in Calls : FileOf(d) \in Files
    BY CallsAreAboutFiles DEF IInv
  <2>2. ASSUME NEW d \in Calls, d # c
        PROVE  /\ pc'[d] \in {"saving", "linking"} =>
                     /\ request'[d].kind = "complete" /\ request'[d].user = OwnerOf(FileOf(d))'
                     /\ status'[FileOf(d)'] \in {"pending", "ready"}
               /\ pc'[d] = "linking" =>
                     status'[FileOf(d)'] = "ready" /\ upload'[FileOf(d)'].entityType = "product"
               /\ pc'[d] # "done" => answer'[d] = "none"
    BY <1>1, <1>3, <2>1, <2>2 DEF IInv, CallsInv
  <2>3. answer[c] = "none"
    BY <1>1 DEF IInv, CallsInv
  <2> QED BY <1>1, <1>3, <1>4, <2>2, <2>3 DEF CallsInv
<1>7. ImageIsAdminsReadyFile'
  <2>1. \A p \in Products : imageFileId[p] # None => imageFileId[p] \in Files
    BY DEF IInv, TypeOK
  <2> QED BY <1>1, <1>3, <2>1 DEF IInv, ImageIsAdminsReadyFile
<1>8. CompletedProductHasImage'
  <2>1. answer'[c] = "ok" => upload[f].entityType # "product"
    BY <1>1, <1>4 DEF IInv, CallsInv
  <2> QED BY <1>1, <1>3, <2>1 DEF IInv, CompletedProductHasImage, HasImage
<1>9. ReadyByOwner'
  <2>1. answer'[c] = "ok" => HasImage(f)'
    BY <1>1, <1>4 DEF IInv, CallsInv, HasImage
  <2>2. ASSUME NEW g \in Files, g # f, status'[g] = "ready"
        PROVE  /\ CanPresign(g)'
               /\ \E d \in Calls : ReadiedBy(d, g)' /\ (answer'[d] = "ok" => HasImage(g)')
    <3>1. status[g] = "ready"
      BY <1>3, <2>2
    <3>2. answer[c] = "none"
      BY <1>1 DEF IInv, CallsInv
    <3>3. HasImage(FileOf(c))' \/ answer'[c] # "ok"
      BY <1>1, <2>1
    <3>4. ASSUME NEW d \in Calls
          PROVE  /\ pc[d] = "linking" => pc'[d] = "linking"
                 /\ pc[d] = "crashed" => pc'[d] = "crashed"
                 /\ answer[d] \in {"ok", "error"} => answer'[d] = answer[d]
                 /\ answer'[d] = "ok" => answer[d] = "ok" \/ HasImage(FileOf(d))'
      BY <1>1, <1>3, <3>2, <3>3
    <3>5. UNCHANGED <<upload, request>>
          /\ \A p \in Products : imageFileId[p] # None => imageFileId'[p] # None
      BY <1>1
    <3>6. g \in Files
      BY <2>2
    <3> HIDE DEF f
    <3> QED BY <3>1, <3>4, <3>5, <3>6, StillReadied
  <2>3. ASSUME NEW g \in Files, g = f
        PROVE  /\ CanPresign(g)'
               /\ \E d \in Calls : ReadiedBy(d, g)' /\ (answer'[d] = "ok" => HasImage(g)')
    <3>1. CanPresign(g)'
      BY <1>1, <2>3 DEF IInv, RecordsInv, CanPresign
    <3>2. answer'[c] = "ok" => HasImage(g)'
      BY <1>1, <1>4, <2>3 DEF IInv, CallsInv, HasImage
    <3>3. ReadiedBy(c, g)'
      BY <1>1, <1>4, <2>3 DEF ReadiedBy
    <3> QED BY <3>1, <3>2, <3>3
  <2>4. ASSUME NEW g \in Files, status'[g] = "ready"
        PROVE  /\ CanPresign(g)'
               /\ \E d \in Calls : ReadiedBy(d, g)' /\ (answer'[d] = "ok" => HasImage(g)')
    <3>1. CASE g = f
      BY <2>3, <2>4, <3>1
    <3>2. CASE g # f
      BY <2>2, <2>4, <3>2
    <3> QED BY <3>1, <3>2
  <2> QED BY <2>4 DEF ReadyByOwner
<1> QED BY <1>2, <1>5, <1>6, <1>7, <1>8, <1>9 DEF IInv

LEMMA LinkImageStep ==
    ASSUME IInv, NEW c \in Calls, LinkImage(c) PROVE IInv'
<1> DEFINE f == FileOf(c)
<1>1. /\ f \in Files /\ f # None /\ pc[c] = "linking"
      /\ UNCHANGED <<upload, presigned, status, request>>
      /\ status[f] = "ready" /\ upload[f].entityType = "product"
  BY CallsAreAboutFiles DEF LinkImage, IInv, CallsInv
<1>2. TypeOK'
  BY <1>1 DEF LinkImage, Answer, IInv, TypeOK
<1>3. \A p \in Products :
          imageFileId'[p] = IF p = upload[f].entityId THEN f ELSE imageFileId[p]
  BY DEF LinkImage
<1>4. /\ pc'[c] = "done" /\ answer'[c] = "ok"
      /\ \A d \in Calls : d # c => pc'[d] = pc[d] /\ answer'[d] = answer[d]
  BY DEF LinkImage, Answer, IInv, TypeOK
<1>5. RecordsInv'
  BY <1>1 DEF IInv, RecordsInv, CanPresign
<1>6. CallsInv'
  BY <1>1, <1>4 DEF IInv, CallsInv
<1>7. ImageIsAdminsReadyFile'
  <2>1. upload[f].role = "admin"
    BY <1>1 DEF IInv, RecordsInv, CanPresign
  <2> QED BY <1>1, <1>3, <2>1 DEF IInv, ImageIsAdminsReadyFile
<1>8. CompletedProductHasImage'
  BY <1>1, <1>3, <1>4 DEF IInv, CompletedProductHasImage, HasImage
<1>9. ReadyByOwner'
  <2>1. HasImage(f)'
    BY <1>1, <1>3 DEF HasImage
  <2>2. \A p \in Products : imageFileId[p] # None => imageFileId'[p] # None
    BY <1>1, <1>3
  <2>3. answer[c] = "none"
    BY <1>1 DEF IInv, CallsInv
  <2> QED BY <1>1, <1>4, <2>1, <2>2, <2>3, StillReadied DEF ReadyByOwner
<1> QED BY <1>2, <1>5, <1>6, <1>7, <1>8, <1>9 DEF IInv

LEMMA CrashStep ==
    ASSUME IInv, Crash PROVE IInv'
<1>1. TypeOK'
  BY DEF Crash, IInv, TypeOK
<1>2. /\ UNCHANGED <<fileVars, request, answer>>
      /\ \A c \in Calls : pc'[c] = pc[c] \/ (pc'[c] = "crashed" /\ pc[c] \in {"saving", "linking"})
  BY DEF Crash
<1>3. RecordsInv' /\ ImageIsAdminsReadyFile' /\ CompletedProductHasImage'
  BY <1>2 DEF IInv, RecordsInv, ImageIsAdminsReadyFile, CompletedProductHasImage, HasImage,
              CanPresign
<1>4. CallsInv'
  BY <1>2 DEF IInv, CallsInv
<1>5. ReadyByOwner'
  BY <1>2, StillReadied DEF ReadyByOwner
<1> QED BY <1>1, <1>3, <1>4, <1>5 DEF IInv

LEMMA IInvStep == ASSUME IInv, [Next]_vars PROVE IInv'
<1>1. ASSUME NEW f \in Files, Presign(f) PROVE IInv'
  BY <1>1, PresignStep
<1>2. ASSUME NEW c \in Calls, CheckRecord(c) PROVE IInv'
  <2>1. pc[c] = "new" /\ UNCHANGED <<fileVars, request>>
    BY <1>2 DEF CheckRecord
  <2>2. CASE Denial(c) = "none"
    BY <1>2, <2>1, <2>2, QuietStep DEF CheckRecord
  <2>3. CASE Denial(c) # "none"
    <3>1. Denial(c) \in {"url", "notFound", "forbidden", "conflict", "badRequest", "error"}
      BY <2>3 DEF Denial
    <3>2. Answer(c, Denial(c))
      BY <1>2, <2>3 DEF CheckRecord
    <3> QED BY <2>1, <3>1, <3>2, QuietStep
  <2> QED BY <2>2, <2>3
<1>3. ASSUME NEW c \in Calls, SaveReady(c) PROVE IInv'
  BY <1>3, SaveReadyStep
<1>4. ASSUME NEW c \in Calls, LinkImage(c) PROVE IInv'
  BY <1>4, LinkImageStep
<1>5. ASSUME NEW c \in Calls, GetFileUrl(c) PROVE IInv'
  <2>1. UrlAnswer(c) \in {"url", "notFound", "forbidden", "conflict", "badRequest", "error"}
    BY DEF UrlAnswer
  <2>2. pc[c] = "new" /\ Answer(c, UrlAnswer(c)) /\ UNCHANGED <<fileVars, request>>
    BY <1>5 DEF GetFileUrl
  <2> QED BY <2>1, <2>2, QuietStep
<1>6. ASSUME NEW c \in Calls, StatementFails(c) PROVE IInv'
  BY <1>6, QuietStep DEF StatementFails
<1>7. CASE Crash
  BY <1>7, CrashStep
<1>8. CASE UNCHANGED vars
  BY <1>8 DEF vars, IInv, TypeOK, RecordsInv, CallsInv, ImageIsAdminsReadyFile,
              CompletedProductHasImage, HasImage, ReadyByOwner, ReadiedBy, CanPresign
<1> QED
  BY <1>1, <1>2, <1>3, <1>4, <1>5, <1>6, <1>7, <1>8 DEF Next, Idle

LEMMA Inductive == Spec => []IInv
<1> QED BY IInvInit, IInvStep, PTL DEF Spec

-----------------------------------------------------------------------------

\* Every variable has its type, whatever is uploaded and asked for.
THEOREM FilesTypeCorrect == Spec => []TypeOK
<1>1. IInv => TypeOK
  BY DEF IInv
<1> QED BY <1>1, Inductive, PTL

\* The image of a product is always a ready file an admin uploaded for it,
\* for any number of completes in flight and any failure among them.
THEOREM ImagesAreAdminsReadyFiles == Spec => []ImageIsAdminsReadyFile
<1>1. IInv => ImageIsAdminsReadyFile
  BY DEF IInv
<1> QED BY <1>1, Inductive, PTL

\* Once a complete is answered ok its product has an image for good.
THEOREM CompletedProductsHaveImages == Spec => []CompletedProductHasImage
<1>1. IInv => CompletedProductHasImage
  BY DEF IInv
<1> QED BY <1>1, Inductive, PTL

\* No file becomes ready but through its owner, who may upload it, and none is
\* left without its product unless the owner's complete is under way or failed.
THEOREM FilesAreReadiedByOwners == Spec => []ReadyByOwner
<1>1. IInv => ReadyByOwner
  BY DEF IInv
<1> QED BY <1>1, Inductive, PTL

\* A record only ever moves forward: two completes of one file may both save
\* it, and the second save changes nothing.
THEOREM RecordsMoveForward == Spec => FileHistory
<1>1. IInv /\ [Next]_vars =>
          [\A f \in Files : status'[f] # status[f] =>
              <<status[f], status'[f]>> \in {<<"none", "pending">>,
                                             <<"pending", "ready">>}]_vars
  <2> SUFFICES ASSUME IInv, [Next]_vars, NEW f \in Files, status'[f] # status[f]
               PROVE  <<status[f], status'[f]>> \in {<<"none", "pending">>,
                                                     <<"pending", "ready">>}
    OBVIOUS
  <2>1. ASSUME NEW g \in Files, Presign(g)
        PROVE  status[f] = "none" /\ status'[f] = "pending"
    BY <2>1 DEF Presign, IInv, RecordsInv, TypeOK
  <2>2. ASSUME NEW c \in Calls, SaveReady(c)
        PROVE  status[f] = "pending" /\ status'[f] = "ready"
    BY <2>2, CallsAreAboutFiles DEF SaveReady, IInv, CallsInv, TypeOK
  <2>3. \/ \E g \in Files : Presign(g)
        \/ \E c \in Calls : SaveReady(c)
    BY DEF Next, CheckRecord, LinkImage, GetFileUrl, StatementFails, Crash, Idle, vars
  <2> QED BY <2>1, <2>2, <2>3
<1> QED BY <1>1, Inductive, PTL DEF Spec, FileHistory

====
