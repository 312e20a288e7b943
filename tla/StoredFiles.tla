----------------------------- MODULE StoredFiles -----------------------------
(* Files: rows of the database that name objects in storage.  Customers'      *)
(* documents, visas and result files of one application; pictures of slides,  *)
(* country pages and help articles; the video of one help article.  Database  *)
(* and storage are changed one after the other, and either can fail.          *)
(* Every object has a key of its own, so a file is both the row and the       *)
(* object.  (X_Bug is X with a plausible mistake.)                            *)
EXTENDS Integers, FiniteSets

CONSTANTS
  FileRequests,   \* requests there can be at a time
  MaxFiles,       \* bound: files
  MaxFileFaults,  \* bound: requests that fail half-way
  FileOffers      \* the sets of operations to explore, one per behaviour

ASSUME FilesAssumption == MaxFiles \in Nat /\ MaxFileFaults \in Nat

Files == 1 .. MaxFiles

\* Documents of an applicant and the visas issued, both rows of documents; the other
\* files of an application; pictures of slides, country pages and help articles, and
\* those within an article's text, which have no row.
Pictures == {"slide", "hero", "image"}
Kinds == {"document", "visa", "result", "inline"} \cup Pictures

VARIABLES
  kind, row,    \* of a file: what it is, and its row: none, live, deleted or purged
  stored,       \* the objects in storage
  phase,        \* of the application: draft, issuable (approved or ready), other
  article,      \* the help article: is it live, its video file or 0, its video link
  torn,         \* files whose removal was interrupted between storage and database
  work,         \* requests in flight
  fileOffer, fileFaults

rows == <<kind, row, article>>
fileVars == <<rows, stored, phase, torn, work, fileOffer, fileFaults>>

NoWork == [op |-> "rest", at |-> "rest", file |-> 0, old |-> 0]
PictureDeletes == {"deleteSlide", "deleteHero", "deleteImage"}
FileOps == Kinds \cup PictureDeletes
  \cup {"deleteDocument", "deleteResult", "hardDelete", "video", "noVideo", "article"}
Works == [op : FileOps \cup {"rest"},
          at : {"rest", "put", "row", "mark", "object", "unlink"},
          file : 0 .. MaxFiles, old : 0 .. MaxFiles]

FileTypeOK ==
  /\ kind \in [Files -> Kinds \cup {"none", "video"}]
  /\ row \in [Files -> {"none", "live", "deleted", "purged"}]
  /\ stored \subseteq Files /\ torn \subseteq Files
  /\ phase \in {"draft", "issuable", "other"}
  /\ article \in [live : BOOLEAN, video : 0 .. MaxFiles, link : BOOLEAN]
  /\ work \in [FileRequests -> Works]
  /\ fileOffer \in FileOffers /\ fileFaults \in 0 .. MaxFileFaults

FileInit ==
  /\ kind = [f \in Files |-> "none"] /\ row = [f \in Files |-> "none"]
  /\ stored = {} /\ torn = {}
  /\ phase = "draft"
  /\ article \in [live : {TRUE}, video : {0}, link : BOOLEAN]
  /\ work = [h \in FileRequests |-> NoWork]
  /\ fileOffer \in FileOffers /\ fileFaults = 0

Of(k) == {f \in Files : kind[f] = k /\ row[f] = "live"}

\* A new key: of the files never used, the first.
NewFile == {f \in Files : kind[f] = "none" /\ \A g \in Files : g < f => kind[g] # "none"}

Hire(h, op, at, f, old) ==
  /\ op \in fileOffer
  /\ work[h] = NoWork
  /\ work' = [work EXCEPT ![h] = [op |-> op, at |-> at, file |-> f, old |-> old]]
  /\ UNCHANGED <<fileOffer, fileFaults>>

Proceed(h, at) ==
  /\ work' = [work EXCEPT ![h] = IF at = "rest" THEN NoWork ELSE [@ EXCEPT !.at = at]]
  /\ UNCHANGED <<fileOffer, fileFaults>>

Doing(h, op, at) == work[h].op = op /\ work[h].at = at

-----------------------------------------------------------------------------
(* Uploads: the object first, then the row that names it.                     *)

Upload(h, k, old) ==
  \E f \in NewFile :
    /\ Hire(h, k, "put", f, old)
    /\ kind' = [kind EXCEPT ![f] = k]
    /\ UNCHANGED <<row, article, stored, phase, torn>>

PutObject(h) ==
  /\ work[h].at = "put"
  /\ stored' = stored \cup {work[h].file}
  /\ Proceed(h, IF work[h].op = "inline" THEN "rest" ELSE "row")
  /\ UNCHANGED <<rows, phase, torn>>

Insert(h, k) ==
  /\ Doing(h, k, "row")
  /\ row' = [row EXCEPT ![work[h].file] = "live"]
  /\ Proceed(h, "rest")
  /\ UNCHANGED <<kind, article, stored, phase, torn>>

UploadDocument(h) == phase = "draft" /\ Upload(h, "document", 0)
InsertDocument(h) == Insert(h, "document")

UploadResult(h) == Upload(h, "result", 0)
InsertResult(h) == Insert(h, "result")

UploadSlide(h) == Upload(h, "slide", 0)
InsertSlide(h) == Insert(h, "slide")
UploadHero(h) == Upload(h, "hero", 0)
InsertHero(h) == Insert(h, "hero")
UploadImage(h) == article.live /\ Upload(h, "image", 0)
InsertImage(h) == Insert(h, "image")
UploadInlineImage(h) == Upload(h, "inline", 0)

\* A new visa replaces the one found before.
IssueVisa(h) ==
  /\ phase = "issuable"
  /\ \E old \in IF Of("visa") # {} THEN Of("visa") ELSE {0} : Upload(h, "visa", old)

\* One transaction.
InsertVisa(h) ==
  LET c == work[h]
  IN /\ Doing(h, "visa", "row")
     /\ row' = [f \in Files |-> IF f = c.file THEN "live"
                                ELSE IF f = c.old /\ row[f] = "live" THEN "deleted" ELSE row[f]]
     /\ Proceed(h, "rest")
     /\ UNCHANGED <<kind, article, stored, phase, torn>>

-----------------------------------------------------------------------------
(* Removal.                                                                   *)

StartRemoval(h, op, f) ==
  /\ Hire(h, op, "mark", f, 0)
  /\ UNCHANGED <<rows, stored, phase, torn>>

\* A mark; the object stays.
DeleteDocument(h) == phase = "draft" /\ \E f \in Of("document") : StartRemoval(h, "deleteDocument", f)
DeleteResult(h) == \E f \in Of("result") : StartRemoval(h, "deleteResult", f)

\* The mark, then the object, whose removal nobody waits for.
DeleteSlide(h) == \E f \in Of("slide") : StartRemoval(h, "deleteSlide", f)
DeleteHero(h) == \E f \in Of("hero") : StartRemoval(h, "deleteHero", f)
DeleteImage(h) == \E f \in Of("image") : StartRemoval(h, "deleteImage", f)

MarkDeleted_AfterObject(h) ==
  LET c == work[h]
  IN /\ c.at = "mark"
     /\ stored' = IF c.op \in PictureDeletes THEN stored \ {c.file} ELSE stored
     /\ row' = IF c.op \in PictureDeletes THEN row ELSE [row EXCEPT ![c.file] = "deleted"]
     /\ Proceed(h, "rest")
     /\ UNCHANGED <<kind, article, phase, torn>>

\* An update by id; it fails if the row is gone for good.
MarkDeleted(h) ==
  LET c == work[h]
  IN /\ c.at = "mark"
     /\ row' = IF row[c.file] = "purged" THEN row ELSE [row EXCEPT ![c.file] = "deleted"]
     /\ Proceed(h, IF c.op \in PictureDeletes THEN "object" ELSE "rest")
     /\ UNCHANGED <<kind, article, stored, phase, torn>>

\* hardDelete, of documents and visas, deleted ones too: the object, then the row.
HardDelete(h) ==
  \E f \in Files :
    /\ kind[f] \in {"document", "visa"} /\ row[f] \in {"live", "deleted"}
    /\ Hire(h, "hardDelete", "object", f, 0)
    /\ UNCHANGED <<rows, stored, phase, torn>>

\* A failure is logged and passed over.
RemoveObject(h) ==
  LET c == work[h]
  IN /\ c.at = "object"
     /\ stored' \in {stored, stored \ {c.file}}
     /\ Proceed(h, IF c.op = "hardDelete" THEN "row" ELSE "rest")
     /\ UNCHANGED <<rows, phase, torn>>

RemoveRow(h) ==
  /\ Doing(h, "hardDelete", "row")
  /\ row' = [row EXCEPT ![work[h].file] = "purged"]
  /\ Proceed(h, "rest")
  /\ UNCHANGED <<kind, article, stored, phase, torn>>

-----------------------------------------------------------------------------
(* The video of a help article.                                               *)

\* uploadVideo: the old file goes first, then the new one is written, then the row.
UploadVideo(h) ==
  \E f \in NewFile :
    /\ article.live
    /\ Hire(h, "video", IF article.video = 0 THEN "put" ELSE "unlink", f, article.video)
    /\ kind' = [kind EXCEPT ![f] = "video"]
    /\ UNCHANGED <<row, article, stored, phase, torn>>

\* tryDeleteFile
Unlink(h) ==
  /\ work[h].at = "unlink"
  /\ stored' \in {stored, stored \ {work[h].old}}
  /\ Proceed(h, IF work[h].op = "video" THEN "put" ELSE "rest")
  /\ UNCHANGED <<rows, phase, torn>>

\* The link goes: an article has one source.
SaveVideo(h) ==
  /\ Doing(h, "video", "row")
  /\ article' = [article EXCEPT !.video = work[h].file, !.link = FALSE]
  /\ Proceed(h, "rest")
  /\ UNCHANGED <<kind, row, stored, phase, torn>>

DeleteVideo(h) ==
  /\ article.live /\ article.video # 0
  /\ Hire(h, "noVideo", "row", 0, article.video)
  /\ UNCHANGED <<rows, stored, phase, torn>>

ClearVideo(h) ==
  /\ Doing(h, "noVideo", "row")
  /\ article' = [article EXCEPT !.video = 0]
  /\ Proceed(h, "unlink")
  /\ UNCHANGED <<kind, row, stored, phase, torn>>

\* updateArticle and deleteArticle.
UpdateArticle(h) ==
  /\ article.live
  /\ Hire(h, "article", "row", 0, 0)
  /\ UNCHANGED <<rows, stored, phase, torn>>

\* The database refuses a link beside a video file.
SaveArticle(h) ==
  /\ Doing(h, "article", "row")
  /\ article' \in {a \in {[article EXCEPT !.link = TRUE], [article EXCEPT !.link = FALSE],
                          [article EXCEPT !.live = FALSE], article} : ~(a.link /\ a.video # 0)}
  /\ Proceed(h, "rest")
  /\ UNCHANGED <<kind, row, stored, phase, torn>>

-----------------------------------------------------------------------------
\* The application moves on, and back when a visa is taken from it.  (A bound: where it
\* decides what may be uploaded.)
PhaseMoves ==
  /\ fileOffer \cap {"deleteDocument", "visa", "result"} # {}
  /\ phase' \in {"issuable", "other"}
  /\ UNCHANGED <<rows, stored, torn, work, fileOffer, fileFaults>>

\* Between the object and the row of a removal, or between the old and the new video.
Removing(h) ==
  IF Doing(h, "hardDelete", "row") THEN {work[h].file}
  ELSE IF work[h].op = "video" /\ work[h].at \in {"put", "row"} THEN {work[h].old} \ {0} ELSE {}

\* A query or a call of the storage fails, or the process stops.
FileRequestFails(h) ==
  /\ fileFaults < MaxFileFaults
  /\ work[h] # NoWork
  /\ torn' = torn \cup Removing(h)
  /\ work' = [work EXCEPT ![h] = NoWork]
  /\ fileFaults' = fileFaults + 1
  /\ UNCHANGED <<rows, stored, phase, fileOffer>>

FileStep(h) ==
  \/ UploadDocument(h) \/ UploadResult(h) \/ UploadSlide(h) \/ UploadHero(h) \/ UploadImage(h)
  \/ UploadInlineImage(h) \/ IssueVisa(h) \/ PutObject(h)
  \/ InsertDocument(h) \/ InsertResult(h) \/ InsertSlide(h) \/ InsertHero(h) \/ InsertImage(h)
  \/ InsertVisa(h)
  \/ DeleteDocument(h) \/ DeleteResult(h) \/ DeleteSlide(h) \/ DeleteHero(h) \/ DeleteImage(h)
  \/ MarkDeleted(h) \/ HardDelete(h) \/ RemoveObject(h) \/ RemoveRow(h)
  \/ UploadVideo(h) \/ Unlink(h) \/ SaveVideo(h) \/ DeleteVideo(h) \/ ClearVideo(h)
  \/ UpdateArticle(h) \/ SaveArticle(h) \/ FileRequestFails(h)

FileNext == (\E h \in FileRequests : FileStep(h)) \/ PhaseMoves

FileSpec == FileInit /\ [][FileNext]_fileVars

-----------------------------------------------------------------------------
(* What is given out.                                                         *)

\* To the customer and the operator.
Downloadable == Of("document") \cup Of("visa")

\* Behind the link of a letter: visas and result files, once they are released.
PortalFiles == IF phase = "issuable" THEN Of("visa") \cup Of("result") ELSE {}

ShownPictures == UNION {Of(k) : k \in Pictures}

StreamedVideo == IF article.live THEN {article.video} \ {0} ELSE {}

\* Whatever overlaps and wherever a request stops: what the site lists for download or
\* shows has its object in storage, except while a document is deleted for good or a
\* video replaced, or where that was interrupted.
FilesBehindRows ==
  Downloadable \cup PortalFiles \cup ShownPictures \cup StreamedVideo
    \subseteq stored \cup torn \cup UNION {Removing(h) : h \in FileRequests}
=============================================================================
