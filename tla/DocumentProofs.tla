--------------------------- MODULE DocumentProofs ----------------------------
(* Proofs about StoredFiles and VisaIssue, what is uploaded and what is issued.*)
(* For any number of uploads, replacements and deletions a file that is listed *)
(* or shown is in storage.  For any number of applicants and administrators an *)
(* application is ready once all its visas are issued, the links in letters    *)
(* open what they were sent for, and a replaced visa is served only through a  *)
(* link asked for before.                                                      *)
EXTENDS StoredFiles, VisaIssue, SequenceTheorems, TLAPS

-----------------------------------------------------------------------------
(* StoredFiles: a file that is named is there.                                *)

Uploads == Kinds \cup {"video"}
Replacing == {"video", "noVideo"}

\* The files that a row or the article names, shown or not.
NamedFiles == {f \in Files : row[f] = "live"} \cup ({article.video} \ {0})

BehindNames == NamedFiles \subseteq stored \cup torn \cup UNION {Removing(h) : h \in FileRequests}

\* What a request has in hand: the file it stores is not named yet, the object it
\* removes is not named any more, or it is about to say so.
HandOK(c) ==
  /\ c.op \in Uploads =>
       /\ c.file \in Files /\ kind[c.file] = c.op /\ row[c.file] = "none" /\ c.file # article.video
       /\ c.at \in {"put", "row", "unlink"} /\ (c.at = "row" => c.file \in stored)
  /\ c.at \in {"mark", "object"} \/ c.op = "hardDelete" => c.file \in Files /\ row[c.file] # "none"
  /\ c.at = "object" => \/ c.op = "hardDelete"
                        \/ c.op \in PictureDeletes /\ row[c.file] # "live"
  /\ c.at = "unlink" => c.op \in Replacing
  /\ c.op = "noVideo" \/ c.at = "unlink" => c.old \in Files
  /\ c.op \in Replacing /\ c.old # 0 => row[c.old] = "none" /\ kind[c.old] # "none"
  /\ c.op = "noVideo" /\ c.at = "unlink" => c.old # article.video
  /\ c.at = "put" => c.op \in Uploads
  /\ c.op = "noVideo" => c.at \in {"row", "unlink"}
  /\ c.op = "hardDelete" => c.at \in {"object", "row"}

\* Nobody else stores the same file, or takes it for an old one.
FilesApart ==
  \A g, h \in FileRequests :
    work[h].op \in Uploads =>
      /\ g # h /\ work[g].op \in Uploads => work[g].file # work[h].file
      /\ work[g].op \in Replacing => work[g].old # work[h].file

FreshFiles ==
  /\ \A f \in Files : kind[f] = "none" => row[f] = "none" /\ f # article.video
  /\ article.video # 0 => row[article.video] = "none"

FilesOK ==
  FileTypeOK /\ (\A h \in FileRequests : HandOK(work[h])) /\ FilesApart /\ FreshFiles /\ BehindNames


\* A request moves on to c; rows are never taken back, only what has been named once
\* loses its object, and new names are of stored files.
LEMMA FilesMove ==
  ASSUME FilesOK, FileTypeOK', NEW h \in FileRequests, NEW c \in Works,
         work' = [work EXCEPT ![h] = c], HandOK(c)',
         c.op \in Uploads => kind[c.file] = "none" \/ (c.op = work[h].op /\ c.file = work[h].file),
         c.op \in Replacing => c.old = article.video \/ (work[h].op \in Replacing /\ c.old = work[h].old),
         \A f \in Files : kind'[f] = kind[f] \/ (kind[f] = "none" /\ row'[f] = "none" /\ f # article'.video),
         \A f \in Files : row[f] = "none" /\ row'[f] # "none" => f = work[h].file /\ work[h].op \in Uploads,
         \A f \in Files : row[f] # "none" => row'[f] # "none" /\ (row'[f] = "live" => row[f] = "live"),
         article'.video \in {article.video, 0} \/ (article'.video = work[h].file /\ work[h].op = "video"),
         article'.video # 0 => row'[article'.video] = "none",
         \A f \in stored \ stored' : row[f] # "none" \/ (f = work[h].old /\ work[h].op \in Replacing),
         \A f \in stored \ stored' : f \in NamedFiles' => f \in torn' \cup Removing(h)',
         \A f \in NamedFiles' \ NamedFiles : f \in stored',
         torn \subseteq torn',
         \A f \in Removing(h) : f \in NamedFiles' => f \in stored' \cup torn' \cup Removing(h)'
  PROVE  FilesOK'
<1> USE DEF FilesOK
<1>1. work \in [FileRequests -> Works] /\ row \in [Files -> {"none", "live", "deleted", "purged"}]
      /\ stored \subseteq Files
  BY DEF FileTypeOK
<1>2. work'[h] = c /\ \A g \in FileRequests : g # h => work'[g] = work[g]
  BY <1>1
<1>3. ASSUME NEW g \in FileRequests, g # h
      PROVE  HandOK(work[g])'
  <2>1. work[g] \in Works /\ work[h] \in Works
    BY <1>1
  <2>2. HandOK(work[g]) /\ HandOK(work[h])
    OBVIOUS
  <2>3. work[g].op \in Uploads /\ work[h].op \in Uploads => work[g].file # work[h].file
    BY <1>3 DEF FilesApart
  <2>4. work[g].op \in Uploads /\ work[h].op \in Replacing => work[h].old # work[g].file
    BY DEF FilesApart
  <2>5. work[g].op \in Replacing /\ work[h].op \in Uploads => work[g].old # work[h].file
    BY DEF FilesApart
  <2>6. work'[g] = work[g]
    BY <1>2, <1>3
  <2>7. "video" \in Uploads /\ "video" \in Replacing
    BY DEF Uploads, Replacing
  <2>8. work[g].op \in Uploads =>
          /\ kind'[work[g].file] = work[g].op /\ row'[work[g].file] = "none" /\ work[g].file # article'.video
          /\ work[g].at = "row" => work[g].file \in stored'
    <3> SUFFICES ASSUME work[g].op \in Uploads
                 PROVE  /\ kind'[work[g].file] = work[g].op /\ row'[work[g].file] = "none"
                        /\ work[g].file # article'.video
                        /\ work[g].at = "row" => work[g].file \in stored'
      OBVIOUS
    <3>1. work[g].file \in Files /\ kind[work[g].file] = work[g].op /\ row[work[g].file] = "none"
          /\ work[g].file # article.video /\ (work[g].at = "row" => work[g].file \in stored)
      BY <2>2 DEF HandOK
    <3>2. work[g].op # "none"
      BY DEF Uploads, Kinds, Pictures
    <3>3. kind'[work[g].file] = work[g].op
      BY <3>1, <3>2
    <3>4. row'[work[g].file] = "none"
      BY <3>1, <2>3
    <3>5. work[g].file # article'.video
      BY <3>1, <2>3, <2>7 DEF Files
    <3> QED
      BY <3>1, <3>3, <3>4, <3>5, <2>4
  <2>9. ASSUME work[g].op \in Replacing, work[g].old # 0
        PROVE  row'[work[g].old] = "none" /\ kind'[work[g].old] # "none"
    <3>1. work[g].old \in Files
      BY <2>1, <2>9, FilesAssumption DEF Works, Files
    <3>2. row[work[g].old] = "none" /\ kind[work[g].old] # "none"
      BY <2>2, <2>9 DEF HandOK
    <3> QED
      BY <3>1, <3>2, <2>5, <2>9
  <2>10. work[g].op = "noVideo" /\ work[g].at = "unlink" => work[g].old # article'.video
    BY <2>2, <2>5, <2>7 DEF HandOK, Replacing, Files
  <2>11. ASSUME NEW f \in Files, row[f] # "none"
         PROVE  row'[f] # "none" /\ (row[f] # "live" => row'[f] # "live")
    BY <2>11
  <2>12. work[g].op = "noVideo" \/ work[g].at = "unlink" => work[g].old \in Files
    BY <2>2 DEF HandOK
  <2>13. work[g].at \in {"mark", "object"} \/ work[g].op = "hardDelete" =>
            work[g].file \in Files /\ row'[work[g].file] # "none"
    BY <2>2, <2>11 DEF HandOK
  <2>14. ASSUME work[g].at = "object", work[g].op # "hardDelete"
         PROVE  work[g].op \in PictureDeletes /\ row'[work[g].file] # "live"
    <3>1. work[g].op \in PictureDeletes /\ row[work[g].file] # "live"
          /\ work[g].file \in Files /\ row[work[g].file] # "none"
      BY <2>2, <2>14 DEF HandOK
    <3> QED
      BY <3>1, <2>11
  <2>15. work[g].op \in Uploads => work[g].file \in Files /\ work[g].at \in {"put", "row", "unlink"}
    BY <2>2 DEF HandOK
  <2>16. /\ work[g].at = "unlink" => work[g].op \in Replacing
         /\ work[g].at = "put" => work[g].op \in Uploads
         /\ work[g].op = "noVideo" => work[g].at \in {"row", "unlink"}
         /\ work[g].op = "hardDelete" => work[g].at \in {"object", "row"}
    BY <2>2 DEF HandOK
  <2> QED
    BY <2>6, <2>8, <2>9, <2>10, <2>12, <2>13, <2>14, <2>15, <2>16 DEF HandOK
<1>4. \A g \in FileRequests : HandOK(work[g])'
  BY <1>2, <1>3
<1>5. FilesApart'
  <2>1. SUFFICES ASSUME NEW a \in FileRequests, NEW b \in FileRequests, work'[b].op \in Uploads
                 PROVE  /\ a # b /\ work'[a].op \in Uploads => work'[a].file # work'[b].file
                        /\ work'[a].op \in Replacing => work'[a].old # work'[b].file
    BY DEF FilesApart
  <2>2. \A g \in FileRequests : work[g].op \in Uploads =>
          work[g].file \in Files /\ kind[work[g].file] # "none" /\ work[g].file # article.video
    BY DEF HandOK, Uploads, Kinds, Pictures
  <2>3. \A g \in FileRequests : work[g].op \in Replacing /\ work[g].old # 0 => kind[work[g].old] # "none"
    BY DEF HandOK
  <2>4. a # b /\ work'[a].op \in Uploads => work'[a].file # work'[b].file
    BY <1>2, <2>1, <2>2 DEF FilesApart
  <2>5. work'[a].op \in Replacing => work'[a].old # work'[b].file
    <3>1. CASE b = h
      <4>1. c.file \in Files /\ c.file # 0
        BY <1>2, <2>1, <3>1, FilesAssumption DEF HandOK, Files
      <4>2. kind[c.file] = "none" => c.file # article.video
        BY <4>1 DEF FreshFiles
      <4>3. kind[c.file] # "none" => c.file = work[h].file /\ work[h].op \in Uploads
        BY <1>2, <2>1, <3>1
      <4>4. CASE kind[c.file] = "none"
        BY <1>2, <2>3, <3>1, <4>1, <4>2, <4>4
      <4>5. CASE kind[c.file] # "none"
        BY <1>2, <2>2, <3>1, <4>3, <4>5 DEF FilesApart
      <4> QED
        BY <4>4, <4>5
    <3>2. CASE b # h
      BY <1>2, <2>1, <2>2, <3>2 DEF FilesApart
    <3> QED
      BY <3>1, <3>2
  <2> QED
    BY <2>4, <2>5
<1>6. FreshFiles'
  <2>1. work[h].op \in Uploads => kind[work[h].file] # "none"
    BY DEF HandOK, Uploads, Kinds, Pictures
  <2>2. "video" \in Uploads /\ 0 \notin Files
    BY DEF Uploads, Files
  <2>3. \A f \in Files : kind'[f] = "none" => row'[f] = "none" /\ f # article'.video
    BY <2>1, <2>2 DEF FreshFiles
  <2> QED
    BY <2>3 DEF FreshFiles
<1>7. BehindNames'
  <2>1. SUFFICES ASSUME NEW f \in NamedFiles'
                 PROVE  f \in stored' \/ f \in torn' \/ \E g \in FileRequests : f \in Removing(g)'
    BY DEF BehindNames
  <2>2. CASE f \in NamedFiles /\ f \notin Removing(h)
    <3>1. f \in stored \/ f \in torn \/ \E g \in FileRequests : f \in Removing(g)
      BY <2>2 DEF BehindNames
    <3>2. \A g \in FileRequests : g # h => Removing(g)' = Removing(g)
      BY <1>2 DEF Removing, Doing
    <3> QED
      BY <2>1, <2>2, <3>1, <3>2
  <2> QED
    BY <2>1, <2>2
<1> QED
  BY <1>4, <1>5, <1>6, <1>7


LEMMA FileFields ==
  ASSUME FilesOK, NEW h \in FileRequests
  PROVE  /\ work[h] \in Works /\ HandOK(work[h])
         /\ work \in [FileRequests -> Works]
         /\ kind \in [Files -> Kinds \cup {"none", "video"}]
         /\ row \in [Files -> {"none", "live", "deleted", "purged"}]
         /\ stored \subseteq Files /\ torn \subseteq Files
         /\ article \in [live : BOOLEAN, video : 0 .. MaxFiles, link : BOOLEAN]
         /\ 0 \notin Files /\ Files \subseteq 0 .. MaxFiles
BY FilesAssumption DEF FilesOK, FileTypeOK, Files

\* A request takes a new file to store.
LEMMA StoringStarts ==
  ASSUME FilesOK, NEW h \in FileRequests, NEW f \in NewFile, NEW op \in Uploads, NEW at \in {"put", "unlink"},
         NEW old \in 0 .. MaxFiles, op = "video" => old = article.video,
         at = "unlink" => op = "video" /\ old # 0,
         Hire(h, op, at, f, old), kind' = [kind EXCEPT ![f] = op],
         UNCHANGED <<row, article, stored, phase, torn>>
  PROVE  FilesOK'
<1> DEFINE c == [op |-> op, at |-> at, file |-> f, old |-> old]
<1>1. f \in Files /\ kind[f] = "none" /\ row[f] = "none" /\ f # article.video
  BY DEF NewFile, FilesOK, FreshFiles
<1>2. op \in FileOps \/ op = "video"
  BY DEF Uploads, FileOps
<1>3. c \in Works
  BY <1>1, <1>2, FileFields DEF Works, FileOps
<1>4. work' = [work EXCEPT ![h] = c] /\ work[h] = NoWork
  BY DEF Hire
<1>5. FileTypeOK'
  BY <1>1, <1>3, <1>4, FileFields DEF FilesOK, FileTypeOK, Hire, Uploads
<1>6. old # 0 /\ old = article.video => row[old] = "none" /\ kind[old] # "none" /\ old \in Files
  BY FileFields DEF FilesOK, FreshFiles, Files
<1>7. HandOK(c)'
  BY <1>1, <1>6, FileFields DEF HandOK, Uploads, Kinds, Pictures, PictureDeletes, Replacing
<1>8. Removing(h) = {}
  BY <1>4 DEF Removing, Doing, NoWork
<1>9. NamedFiles' = NamedFiles
  BY DEF NamedFiles
<1>10. op \in Replacing => op = "video"
  BY DEF Uploads, Replacing, Kinds, Pictures
<1>11. c.op = op /\ c.file = f /\ c.old = old
  OBVIOUS
<1> HIDE DEF c
<1>12. c.op \in Uploads => kind[c.file] = "none" \/ (c.op = work[h].op /\ c.file = work[h].file)
  BY <1>1, <1>11
<1>13. c.op \in Replacing => c.old = article.video \/ (work[h].op \in Replacing /\ c.old = work[h].old)
  BY <1>10, <1>11
<1>14. \A g \in Files : kind'[g] = kind[g] \/ (kind[g] = "none" /\ row'[g] = "none" /\ g # article'.video)
  BY <1>1, FileFields
<1>15. article'.video # 0 => row'[article'.video] = "none"
  BY DEF FilesOK, FreshFiles
<1>16. stored \ stored' = {} /\ NamedFiles' \ NamedFiles = {} /\ torn \subseteq torn' /\ article'.video = article.video
       /\ row' = row
  BY <1>9
<1> QED
  BY <1>3, <1>4, <1>5, <1>7, <1>8, <1>12, <1>13, <1>14, <1>15, <1>16, FilesMove


\* A request begins, stores an object or ends, and the rows stay as they are.
LEMMA RequestTurns ==
  ASSUME FilesOK, NEW h \in FileRequests, NEW c \in Works,
         work' = [work EXCEPT ![h] = c], UNCHANGED rows, phase' = phase,
         stored \subseteq stored', stored' \subseteq Files, torn \subseteq torn', torn' \subseteq Files,
         fileOffer' = fileOffer, fileFaults' \in 0 .. MaxFileFaults, HandOK(c)',
         c.op \in Uploads => c.op = work[h].op /\ c.file = work[h].file,
         c.op \in Replacing => c.old = article.video \/ (work[h].op \in Replacing /\ c.old = work[h].old),
         Removing(h) \subseteq torn' \cup Removing(h)'
  PROVE  FilesOK'
<1>1. FileTypeOK'
  BY FileFields DEF FilesOK, FileTypeOK, rows
<1>2. article'.video # 0 => row'[article'.video] = "none"
  BY DEF FilesOK, FreshFiles, rows
<1>3. kind' = kind /\ row' = row /\ article' = article /\ stored \ stored' = {}
  BY DEF rows
<1>4. NamedFiles' \ NamedFiles = {}
  BY <1>3 DEF NamedFiles
<1> QED
  BY <1>1, <1>2, <1>3, <1>4, FilesMove

LEMMA RestingOK ==
  /\ NoWork \in Works /\ HandOK(NoWork)'
  /\ NoWork.op \notin Uploads /\ NoWork.op \notin Replacing
BY FilesAssumption DEF NoWork, Works, HandOK, Uploads, Kinds, Pictures, Replacing, PictureDeletes

LEMMA RemovalStarts ==
  ASSUME FilesOK, NEW h \in FileRequests, NEW f \in Files, NEW op \in FileOps \ (Uploads \cup Replacing),
         NEW at \in {"mark", "object"}, row[f] # "none", op = "hardDelete" <=> at = "object",
         Hire(h, op, at, f, 0), UNCHANGED <<rows, stored, phase, torn>>
  PROVE  FilesOK'
<1> DEFINE c == [op |-> op, at |-> at, file |-> f, old |-> 0]
<1>1. c \in Works
  BY FileFields, FilesAssumption DEF Works, Files
<1>2. work' = [work EXCEPT ![h] = c] /\ work[h] = NoWork
  BY DEF Hire
<1>3. HandOK(c)'
  <2>1. op \notin Uploads /\ op \notin Replacing /\ op # "noVideo" /\ row'[f] # "none"
    BY DEF rows, Replacing
  <2> QED
    BY <2>1 DEF HandOK
<1>4. Removing(h) = {}
  BY <1>2 DEF Removing, Doing, NoWork
<1>5. fileOffer' = fileOffer /\ fileFaults' \in 0 .. MaxFileFaults
  BY DEF Hire, FilesOK, FileTypeOK
<1> QED
  BY <1>1, <1>2, <1>3, <1>4, <1>5, FileFields, RequestTurns

LEMMA OtherFileStarts ==
  ASSUME FilesOK, NEW h \in FileRequests, DeleteVideo(h) \/ UpdateArticle(h)
  PROVE  FilesOK'
<1>1. CASE DeleteVideo(h)
  <2>1. PICK c : c = [op |-> "noVideo", at |-> "row", file |-> 0, old |-> article.video]
    OBVIOUS
  <2>2. c \in Works
    BY <2>1, FileFields, FilesAssumption DEF Works, FileOps
  <2>3. work' = [work EXCEPT ![h] = c] /\ work[h] = NoWork
    BY <1>1, <2>1 DEF DeleteVideo, Hire
  <2>4. article.video \in Files /\ row[article.video] = "none" /\ kind[article.video] # "none"
    BY <1>1, FileFields DEF DeleteVideo, FilesOK, FreshFiles, Files
  <2>5. c.op = "noVideo" /\ c.op \notin Uploads /\ c.at = "row" /\ c.old = article.video
    BY <2>1 DEF Uploads, Kinds, Pictures
  <2>6. UNCHANGED <<kind, row, article>>
    BY <1>1 DEF DeleteVideo, rows
  <2>7. HandOK(c)'
    BY <2>4, <2>5, <2>6 DEF HandOK
  <2>8. Removing(h) = {}
    BY <2>3 DEF Removing, Doing, NoWork
  <2>9. fileOffer' = fileOffer /\ fileFaults' \in 0 .. MaxFileFaults
    BY <1>1 DEF DeleteVideo, Hire, FilesOK, FileTypeOK
  <2> QED
    BY <1>1, <2>2, <2>3, <2>5, <2>7, <2>8, <2>9, FileFields, RequestTurns DEF DeleteVideo
<1>2. CASE UpdateArticle(h)
  <2> DEFINE c == [op |-> "article", at |-> "row", file |-> 0, old |-> 0]
  <2>1. c \in Works
    BY FileFields, FilesAssumption DEF Works, FileOps
  <2>2. work' = [work EXCEPT ![h] = c] /\ work[h] = NoWork
    BY <1>2 DEF UpdateArticle, Hire
  <2>3. c.op \notin Uploads /\ c.op \notin Replacing /\ c.op # "hardDelete"
    BY DEF Uploads, Kinds, Pictures, Replacing
  <2>4. HandOK(c)'
    BY <2>3 DEF HandOK
  <2>5. Removing(h) = {}
    BY <2>2 DEF Removing, Doing, NoWork
  <2>6. fileOffer' = fileOffer /\ fileFaults' \in 0 .. MaxFileFaults
    BY <1>2 DEF UpdateArticle, Hire, FilesOK, FileTypeOK
  <2> QED
    BY <1>2, <2>1, <2>2, <2>3, <2>4, <2>5, <2>6, FileFields, RequestTurns DEF UpdateArticle
<1> QED
  BY <1>1, <1>2

LEMMA PutObjectKeeps ==
  ASSUME FilesOK, NEW h \in FileRequests, PutObject(h)
  PROVE  FilesOK'
<1>0. PICK next : next = IF work[h].op = "inline" THEN NoWork ELSE [work[h] EXCEPT !.at = "row"]
  OBVIOUS
<1>1. work[h].at = "put" /\ stored' = stored \cup {work[h].file} /\ work' = [work EXCEPT ![h] = next]
      /\ fileOffer' = fileOffer /\ fileFaults' = fileFaults /\ UNCHANGED rows /\ UNCHANGED <<phase, torn>>
  BY <1>0 DEF PutObject, Proceed
<1>2. work[h] \in Works /\ HandOK(work[h])
  BY FileFields
<1>3. next \in Works
  BY <1>0, <1>2, RestingOK DEF Works
<1>4. work[h].op \in Uploads /\ work[h].file \in Files
  BY <1>1, <1>2 DEF HandOK
<1>5. next = NoWork \/ /\ next.op = work[h].op /\ next.file = work[h].file /\ next.old = work[h].old
                       /\ next.at = "row"
  BY <1>0, <1>2 DEF Works
<1>6. work[h].op # "hardDelete" /\ work[h].op # "noVideo"
  BY <1>4 DEF Uploads, Kinds, Pictures
<1>7. UNCHANGED <<kind, row, article>>
  BY <1>1 DEF rows
<1>8. HandOK(next)'
  <2>1. CASE next = NoWork
    BY <2>1, RestingOK
  <2>2. CASE next # NoWork
    BY <1>1, <1>2, <1>4, <1>5, <1>6, <1>7, <2>2 DEF HandOK
  <2> QED
    BY <2>1, <2>2
<1>9. stored \subseteq stored' /\ stored' \subseteq Files
  BY <1>1, <1>4, FileFields
<1>10. work'[h] = next
  BY <1>1, FileFields
<1>11. Removing(h) \subseteq torn' \cup Removing(h)'
  <2>1. CASE next = NoWork
    <3>1. work[h].op = "inline" \/ work[h] = NoWork
      BY <1>0, <1>2, <2>1 DEF Works, NoWork
    <3>2. work[h].op # "video"
      BY <3>1 DEF NoWork
    <3> QED
      BY <1>6, <3>2 DEF Removing, Doing
  <2>2. CASE next # NoWork
    BY <1>1, <1>5, <1>6, <1>10, <2>2 DEF Removing, Doing
  <2> QED
    BY <2>1, <2>2
<1>12. next.op \in Uploads => next.op = work[h].op /\ next.file = work[h].file
  BY <1>5, RestingOK
<1>13. next.op \in Replacing => work[h].op \in Replacing /\ next.old = work[h].old
  BY <1>5, RestingOK
<1> QED
  BY <1>1, <1>3, <1>8, <1>9, <1>11, <1>12, <1>13, FileFields, RequestTurns DEF FilesOK, FileTypeOK

\* The process stops or a query fails: what is half done is marked as torn.
LEMMA FileFailureKeeps ==
  ASSUME FilesOK, NEW h \in FileRequests, FileRequestFails(h)
  PROVE  FilesOK'
<1>1. Removing(h) \subseteq Files
  BY FileFields, FilesAssumption DEF Removing, HandOK, Works, Doing, Files
<1>2. fileFaults' \in 0 .. MaxFileFaults
  BY FilesAssumption DEF FileRequestFails, FilesOK, FileTypeOK
<1> QED
  BY <1>1, <1>2, FileFields, RestingOK, RequestTurns DEF FileRequestFails


\* A request that wrote a row or removed an object, and comes to c.
LEMMA RowsWritten ==
  ASSUME FilesOK, NEW h \in FileRequests, NEW c \in Works,
         work' = [work EXCEPT ![h] = c], UNCHANGED <<kind, phase, torn, fileOffer, fileFaults>>,
         row' \in [Files -> {"none", "live", "deleted", "purged"}], stored' \subseteq Files,
         article' \in [live : BOOLEAN, video : 0 .. MaxFiles, link : BOOLEAN], HandOK(c)',
         c.op \in Uploads => c.op = work[h].op /\ c.file = work[h].file,
         c.op \in Replacing => work[h].op \in Replacing /\ c.old = work[h].old,
         \A f \in Files : row[f] = "none" /\ row'[f] # "none" => f = work[h].file /\ work[h].op \in Uploads,
         \A f \in Files : row[f] # "none" => row'[f] # "none" /\ (row'[f] = "live" => row[f] = "live"),
         article'.video \in {article.video, 0} \/ (article'.video = work[h].file /\ work[h].op = "video"),
         article'.video # 0 => row'[article'.video] = "none",
         \A f \in stored \ stored' : row[f] # "none" \/ (f = work[h].old /\ work[h].op \in Replacing),
         \A f \in stored \ stored' : f \in NamedFiles' => f \in Removing(h)',
         \A f \in NamedFiles' \ NamedFiles : f \in stored',
         \A f \in Removing(h) : f \in NamedFiles' => f \in stored' \cup torn' \cup Removing(h)'
  PROVE  FilesOK'
<1>1. FileTypeOK'
  BY FileFields DEF FilesOK, FileTypeOK
<1>2. torn \subseteq torn' /\ \A f \in Files : kind'[f] = kind[f]
  OBVIOUS
<1> QED
  BY <1>1, <1>2, FilesMove

\* The row of a file just stored: of a visa, which marks the one before, or another.
LEMMA InsertKeeps ==
  ASSUME FilesOK, NEW h \in FileRequests, NEW k \in Kinds, Doing(h, k, "row"),
         row' \in [Files -> {"none", "live", "deleted", "purged"}],
         row'[work[h].file] = "live",
         \A f \in Files : f # work[h].file => row'[f] = row[f] \/ (row[f] = "live" /\ row'[f] = "deleted"),
         Proceed(h, "rest"), UNCHANGED <<kind, article, stored, phase, torn>>
  PROVE  FilesOK'
<1>1. work[h].op \in Uploads /\ work[h].op # "video" /\ work[h].op # "hardDelete"
  BY DEF Doing, Uploads, Kinds, Pictures
<1>2. work[h].file \in Files /\ row[work[h].file] = "none" /\ work[h].file # article.video /\ work[h].file \in stored
  BY <1>1, FileFields DEF HandOK, Doing
<1>3. Removing(h) = {}
  BY <1>1 DEF Removing, Doing
<1>4. work' = [work EXCEPT ![h] = NoWork] /\ fileOffer' = fileOffer /\ fileFaults' = fileFaults
  BY DEF Proceed
<1>5. \A f \in NamedFiles' \ NamedFiles : f = work[h].file
  BY FileFields DEF NamedFiles
<1>6. article'.video # 0 => row'[article'.video] = "none"
  BY <1>2, FileFields DEF FilesOK, FreshFiles, Files
<1>7. \A f \in Files : row[f] = "none" /\ row'[f] # "none" => f = work[h].file
  OBVIOUS
<1>8. \A f \in Files : row[f] # "none" => row'[f] # "none" /\ (row'[f] = "live" => row[f] = "live")
  BY <1>2
<1>9. NoWork \in Works /\ HandOK(NoWork)' /\ NoWork.op \notin Uploads /\ NoWork.op \notin Replacing
  BY RestingOK
<1>10. stored' = stored /\ stored' \subseteq Files /\ article' = article
       /\ article' \in [live : BOOLEAN, video : 0 .. MaxFiles, link : BOOLEAN]
  BY FileFields
<1>11. \A f \in NamedFiles' \ NamedFiles : f \in stored'
  BY <1>2, <1>5
<1> QED
  BY <1>1, <1>3, <1>4, <1>6, <1>7, <1>8, <1>9, <1>10, <1>11, RowsWritten

LEMMA MarkDeletedKeeps ==
  ASSUME FilesOK, NEW h \in FileRequests, MarkDeleted(h)
  PROVE  FilesOK'
<1>1. PICK c : c = IF work[h].op \in PictureDeletes THEN [work[h] EXCEPT !.at = "object"] ELSE NoWork
  OBVIOUS
<1>2. work[h].at = "mark" /\ work[h] \in Works /\ HandOK(work[h])
  BY FileFields DEF MarkDeleted
<1>3. work' = [work EXCEPT ![h] = c] /\ fileOffer' = fileOffer /\ fileFaults' = fileFaults
  BY <1>1 DEF MarkDeleted, Proceed
<1>4. work[h].file \in Files /\ row[work[h].file] # "none" /\ work[h].op \notin Uploads /\ work[h].op # "noVideo"
      /\ work[h].op # "hardDelete"
  BY <1>2 DEF HandOK, Replacing
<1>5. row' \in [Files -> {"none", "live", "deleted", "purged"}] /\ row'[work[h].file] \in {"deleted", "purged"}
      /\ \A f \in Files : f # work[h].file => row'[f] = row[f]
  BY <1>4, FileFields DEF MarkDeleted
<1>6. CASE c = NoWork
  <2>1. NamedFiles' \subseteq NamedFiles
    BY <1>5 DEF NamedFiles, MarkDeleted
  <2>2. article'.video # 0 => row'[article'.video] = "none"
    BY <1>4, <1>5, FileFields DEF FilesOK, FreshFiles, MarkDeleted, Files
  <2>3. Removing(h) = {}
    BY <1>2, <1>4 DEF Removing, Doing
  <2> QED
    BY <1>3, <1>4, <1>5, <1>6, <2>1, <2>2, <2>3, RestingOK, FileFields, RowsWritten DEF MarkDeleted
<1>7. CASE c # NoWork
  <2>1. c.at = "object" /\ c.op = work[h].op /\ c.op \in PictureDeletes /\ c.file = work[h].file /\ c \in Works
    BY <1>1, <1>2, <1>7 DEF Works
  <2>2. c.op \notin Uploads /\ c.op \notin Replacing
    BY <1>4, <2>1 DEF PictureDeletes, Replacing
  <2>3. HandOK(c)'
    BY <1>4, <1>5, <2>1, <2>2 DEF HandOK, PictureDeletes
  <2>4. NamedFiles' \subseteq NamedFiles
    BY <1>5 DEF NamedFiles, MarkDeleted
  <2>5. article'.video # 0 => row'[article'.video] = "none"
    BY <1>4, <1>5, FileFields DEF FilesOK, FreshFiles, MarkDeleted, Files
  <2>6. Removing(h) = {}
    BY <1>2, <1>4 DEF Removing, Doing
  <2> QED
    BY <1>3, <1>4, <1>5, <2>1, <2>2, <2>3, <2>4, <2>5, <2>6, FileFields, RowsWritten DEF MarkDeleted
<1> QED
  BY <1>6, <1>7


LEMMA RemoveObjectKeeps ==
  ASSUME FilesOK, NEW h \in FileRequests, RemoveObject(h)
  PROVE  FilesOK'
<1>1. PICK c : c = IF work[h].op = "hardDelete" THEN [work[h] EXCEPT !.at = "row"] ELSE NoWork
  OBVIOUS
<1>2. work[h].at = "object" /\ work[h] \in Works /\ HandOK(work[h])
  BY FileFields DEF RemoveObject
<1>3. work' = [work EXCEPT ![h] = c] /\ fileOffer' = fileOffer /\ fileFaults' = fileFaults
  BY <1>1, <1>2 DEF RemoveObject, Proceed, Works
<1>4. work[h].file \in Files /\ row[work[h].file] # "none" /\ work[h].op \notin Uploads /\ work[h].op # "video"
  BY <1>2 DEF HandOK, Uploads
<1>5. UNCHANGED <<kind, row, article, phase, torn>> /\ stored' \subseteq Files
      /\ stored \ stored' \subseteq {work[h].file}
  BY FileFields DEF RemoveObject, rows
<1>6. NamedFiles' = NamedFiles
  BY <1>5 DEF NamedFiles
<1>7. article'.video # 0 => row'[article'.video] = "none"
  BY <1>5 DEF FilesOK, FreshFiles
<1>8. Removing(h) = {}
  BY <1>2, <1>4 DEF Removing, Doing
<1>9. CASE c = NoWork
  <2>1. row[work[h].file] # "live"
    BY <1>1, <1>2, <1>9 DEF HandOK, NoWork, Works
  <2>2. work[h].file \notin NamedFiles'
    BY <1>4, <1>6, <2>1 DEF NamedFiles, FilesOK, FreshFiles
  <2> QED
    BY <1>3, <1>4, <1>5, <1>6, <1>7, <1>8, <1>9, <2>2, RestingOK, FileFields, RowsWritten
<1>10. CASE c # NoWork
  <2>1. c.at = "row" /\ c.op = "hardDelete" /\ c.file = work[h].file /\ c \in Works
    BY <1>1, <1>2, <1>10 DEF Works
  <2>2. c.op \notin Uploads /\ c.op \notin Replacing
    BY <2>1 DEF Uploads, Kinds, Pictures, Replacing
  <2>3. HandOK(c)'
    BY <1>4, <1>5, <2>1, <2>2 DEF HandOK
  <2>4. Removing(h)' = {work[h].file}
    BY <1>3, <2>1, FileFields DEF Removing, Doing
  <2> QED
    BY <1>3, <1>4, <1>5, <1>6, <1>7, <1>8, <2>1, <2>2, <2>3, <2>4, FileFields, RowsWritten
<1> QED
  BY <1>9, <1>10

LEMMA RemoveRowKeeps ==
  ASSUME FilesOK, NEW h \in FileRequests, RemoveRow(h)
  PROVE  FilesOK'
<1>1. work[h].op = "hardDelete" /\ work[h].at = "row"
  BY DEF RemoveRow, Doing
<1>2. work[h].file \in Files /\ row[work[h].file] # "none"
  BY <1>1, FileFields DEF HandOK
<1>3. work' = [work EXCEPT ![h] = NoWork] /\ UNCHANGED <<kind, article, stored, phase, torn, fileOffer, fileFaults>>
      /\ row' = [row EXCEPT ![work[h].file] = "purged"]
  BY DEF RemoveRow, Proceed
<1>4. NamedFiles' \subseteq NamedFiles /\ work[h].file \notin NamedFiles'
  BY <1>2, <1>3, FileFields DEF NamedFiles, FilesOK, FreshFiles
<1>5. Removing(h) = {work[h].file}
  BY <1>1 DEF Removing, Doing
<1>6. article'.video # 0 => row'[article'.video] = "none"
  BY <1>2, <1>3, FileFields DEF FilesOK, FreshFiles, Files
<1>7. row' \in [Files -> {"none", "live", "deleted", "purged"}]
  BY <1>2, <1>3, FileFields
<1>8. \A f \in Files : row[f] = "none" /\ row'[f] # "none" => f = work[h].file /\ work[h].op \in Uploads
  BY <1>2, <1>3, FileFields
<1>9. \A f \in Files : row[f] # "none" => row'[f] # "none" /\ (row'[f] = "live" => row[f] = "live")
  BY <1>2, <1>3, FileFields
<1>10. (\A f \in Removing(h) : f \notin NamedFiles') /\ NamedFiles' \ NamedFiles = {} /\ stored \ stored' = {}
  BY <1>3, <1>4, <1>5
<1>11. stored' \subseteq Files /\ article' \in [live : BOOLEAN, video : 0 .. MaxFiles, link : BOOLEAN]
       /\ article'.video = article.video
  BY <1>3, FileFields
<1> QED
  BY <1>3, <1>6, <1>7, <1>8, <1>9, <1>10, <1>11, RestingOK, RowsWritten

LEMMA UnlinkKeeps ==
  ASSUME FilesOK, NEW h \in FileRequests, Unlink(h)
  PROVE  FilesOK'
<1>1. PICK c : c = IF work[h].op = "video" THEN [work[h] EXCEPT !.at = "put"] ELSE NoWork
  OBVIOUS
<1>2. work[h].at = "unlink" /\ work[h] \in Works /\ HandOK(work[h])
  BY FileFields DEF Unlink
<1>3. work' = [work EXCEPT ![h] = c] /\ fileOffer' = fileOffer /\ fileFaults' = fileFaults
  BY <1>1, <1>2 DEF Unlink, Proceed, Works
<1>4. work[h].op \in Replacing /\ work[h].old \in Files /\ row[work[h].old] = "none"
  BY <1>2, FileFields DEF HandOK
<1>5. UNCHANGED <<kind, row, article, phase, torn>> /\ stored' \subseteq Files
      /\ stored \ stored' \subseteq {work[h].old}
  BY FileFields DEF Unlink, rows
<1>6. NamedFiles' = NamedFiles
  BY <1>5 DEF NamedFiles
<1>7. article'.video # 0 => row'[article'.video] = "none"
  BY <1>5 DEF FilesOK, FreshFiles
<1>8. Removing(h) = {}
  BY <1>2, <1>4 DEF Removing, Doing, Replacing
<1>9. CASE c = NoWork
  <2>1. work[h].op = "noVideo"
    BY <1>1, <1>2, <1>4, <1>9 DEF NoWork, Works, Replacing
  <2>2. work[h].old \notin NamedFiles'
    BY <1>2, <1>4, <1>6, <2>1 DEF NamedFiles, HandOK
  <2> QED
    BY <1>3, <1>4, <1>5, <1>6, <1>7, <1>8, <1>9, <2>2, RestingOK, FileFields, RowsWritten
<1>10. CASE c # NoWork
  <2>1. c.at = "put" /\ c.op = "video" /\ work[h].op = "video" /\ c.file = work[h].file /\ c.old = work[h].old
        /\ c \in Works
    BY <1>1, <1>2, <1>10 DEF Works
  <2>2. "video" \in Uploads /\ "video" \in Replacing
    BY DEF Uploads, Replacing
  <2>3. HandOK(c)'
    BY <1>2, <1>5, <2>1, <2>2 DEF HandOK
  <2>4. Removing(h)' = {work[h].old}
    BY <1>3, <1>4, <2>1, FileFields DEF Removing, Doing
  <2> QED
    BY <1>3, <1>4, <1>5, <1>6, <1>7, <1>8, <2>1, <2>2, <2>3, <2>4, FileFields, RowsWritten
<1> QED
  BY <1>9, <1>10

LEMMA ArticleWritten ==
  ASSUME FilesOK, NEW h \in FileRequests, SaveVideo(h) \/ SaveArticle(h)
  PROVE  FilesOK'
<1>1. work' = [work EXCEPT ![h] = NoWork] /\ UNCHANGED <<kind, row, stored, phase, torn, fileOffer, fileFaults>>
  BY DEF SaveVideo, SaveArticle, Proceed
<1>2. CASE SaveVideo(h)
  <2>1. work[h].op = "video" /\ work[h].at = "row" /\ article' = [article EXCEPT !.video = work[h].file, !.link = FALSE]
    BY <1>2 DEF SaveVideo, Doing
  <2>2. work[h].file \in Files /\ row[work[h].file] = "none" /\ work[h].file \in stored
    BY <2>1, FileFields DEF HandOK, Uploads
  <2>3. article'.video = work[h].file /\ article' \in [live : BOOLEAN, video : 0 .. MaxFiles, link : BOOLEAN]
    BY <2>1, <2>2, FileFields
  <2>4. NamedFiles' \ NamedFiles \subseteq {work[h].file}
    BY <1>1, <2>3 DEF NamedFiles
  <2>5. \A f \in Removing(h) : f \in NamedFiles' => f \in stored'
    <3>1. Removing(h) = {work[h].old} \ {0}
      BY <2>1 DEF Removing, Doing
    <3>2. work[h].old # 0 => row[work[h].old] = "none"
      BY <2>1, FileFields DEF HandOK, Replacing
    <3> QED
      BY <1>1, <2>2, <2>3, <3>1, <3>2 DEF NamedFiles
  <2> QED
    BY <1>1, <2>1, <2>2, <2>3, <2>4, <2>5, RestingOK, FileFields, RowsWritten
<1>3. CASE SaveArticle(h)
  <2>1. article'.video = article.video /\ article' \in [live : BOOLEAN, video : 0 .. MaxFiles, link : BOOLEAN]
    BY <1>3, FileFields DEF SaveArticle
  <2>2. NamedFiles' = NamedFiles
    BY <1>1, <2>1 DEF NamedFiles
  <2>3. Removing(h) = {}
    BY <1>3 DEF SaveArticle, Removing, Doing
  <2>4. article'.video # 0 => row'[article'.video] = "none"
    BY <1>1, <2>1 DEF FilesOK, FreshFiles
  <2> QED
    BY <1>1, <2>1, <2>2, <2>3, <2>4, RestingOK, FileFields, RowsWritten
<1> QED
  BY <1>2, <1>3

LEMMA ClearVideoKeeps ==
  ASSUME FilesOK, NEW h \in FileRequests, ClearVideo(h)
  PROVE  FilesOK'
<1>1. PICK c : c = [work[h] EXCEPT !.at = "unlink"]
  OBVIOUS
<1>2. work[h].op = "noVideo" /\ work[h].at = "row" /\ work[h] \in Works /\ HandOK(work[h])
  BY FileFields DEF ClearVideo, Doing
<1>3. work' = [work EXCEPT ![h] = c] /\ UNCHANGED <<kind, row, stored, phase, torn, fileOffer, fileFaults>>
  BY <1>1 DEF ClearVideo, Proceed
<1>4. c \in Works /\ c.op = "noVideo" /\ c.at = "unlink" /\ c.old = work[h].old
  BY <1>1, <1>2 DEF Works
<1>5. article'.video = 0 /\ article' \in [live : BOOLEAN, video : 0 .. MaxFiles, link : BOOLEAN]
  BY FileFields, FilesAssumption DEF ClearVideo
<1>6. NamedFiles' \subseteq NamedFiles
  BY <1>3, <1>5 DEF NamedFiles
<1>7. Removing(h) = {}
  BY <1>2 DEF Removing, Doing
<1>8. c.op \notin Uploads /\ c.op \in Replacing
  BY <1>4 DEF Uploads, Kinds, Pictures, Replacing
<1>9. HandOK(c)'
  BY <1>2, <1>3, <1>4, <1>5, <1>8, FileFields DEF HandOK
<1> QED
  BY <1>2, <1>3, <1>4, <1>5, <1>6, <1>7, <1>8, <1>9, FileFields, RowsWritten


LEMMA FilePhaseKeeps == FilesOK /\ PhaseMoves => FilesOK'
<1> SUFFICES ASSUME FilesOK, PhaseMoves PROVE FilesOK'
  OBVIOUS
<1>1. UNCHANGED <<kind, row, article, stored, torn, work, fileOffer, fileFaults>> /\ phase' \in {"issuable", "other"}
  BY DEF PhaseMoves, rows
<1>2. FileTypeOK'
  BY <1>1 DEF FilesOK, FileTypeOK
<1>3. \A h \in FileRequests : HandOK(work[h])'
  BY <1>1 DEF FilesOK, HandOK
<1>4. FilesApart' /\ FreshFiles'
  BY <1>1 DEF FilesOK, FilesApart, FreshFiles
<1>5. BehindNames'
  <2>1. NamedFiles' = NamedFiles /\ \A h \in FileRequests : Removing(h)' = Removing(h)
    BY <1>1 DEF NamedFiles, Removing, Doing
  <2> QED
    BY <1>1, <2>1 DEF FilesOK, BehindNames
<1> QED
  BY <1>2, <1>3, <1>4, <1>5 DEF FilesOK

LEMMA FilesStutter == FilesOK /\ UNCHANGED fileVars => FilesOK'
<1> SUFFICES ASSUME FilesOK, UNCHANGED fileVars PROVE FilesOK'
  OBVIOUS
<1>1. FileTypeOK'
  BY DEF FilesOK, FileTypeOK, fileVars, rows
<1>2. \A h \in FileRequests : HandOK(work[h])'
  BY DEF FilesOK, HandOK, fileVars, rows
<1>3. FilesApart' /\ FreshFiles'
  BY DEF FilesOK, FilesApart, FreshFiles, fileVars, rows
<1>4. BehindNames'
  <2>1. NamedFiles' = NamedFiles /\ \A h \in FileRequests : Removing(h)' = Removing(h)
    BY DEF NamedFiles, Removing, Doing, fileVars, rows
  <2> QED
    BY <2>1 DEF FilesOK, BehindNames, fileVars
<1> QED
  BY <1>1, <1>2, <1>3, <1>4 DEF FilesOK

LEMMA UploadKeeps ==
  ASSUME FilesOK, NEW h \in FileRequests, NEW k \in Kinds, NEW old \in 0 .. MaxFiles, Upload(h, k, old)
  PROVE  FilesOK'
<1>1. k \in Uploads /\ k # "video"
  BY DEF Uploads, Kinds, Pictures
<1> QED
  BY <1>1, StoringStarts DEF Upload

LEMMA FilesAreInductive == FilesOK /\ [FileNext]_fileVars => FilesOK'
<1> SUFFICES ASSUME FilesOK, [FileNext]_fileVars PROVE FilesOK'
  OBVIOUS
<1>1. CASE PhaseMoves \/ UNCHANGED fileVars
  BY <1>1, FilePhaseKeeps, FilesStutter
<1>2. ASSUME NEW h \in FileRequests, FileStep(h)
      PROVE  FilesOK'
  <2>1. CASE UploadDocument(h) \/ UploadResult(h) \/ UploadSlide(h) \/ UploadHero(h) \/ UploadImage(h)
             \/ UploadInlineImage(h)
    <3>1. \E k \in Kinds : Upload(h, k, 0)
      BY <2>1 DEF UploadDocument, UploadResult, UploadSlide, UploadHero, UploadImage, UploadInlineImage,
                  Kinds, Pictures
    <3> QED
      BY <3>1, UploadKeeps, FileFields, FilesAssumption
  <2>2. CASE IssueVisa(h)
    <3>1. \E old \in 0 .. MaxFiles : Upload(h, "visa", old)
      BY <2>2, FileFields, FilesAssumption DEF IssueVisa, Of
    <3> QED
      BY <3>1, UploadKeeps DEF Kinds
  <2>3. CASE UploadVideo(h)
    <3>1. PICK f \in NewFile :
            /\ Hire(h, "video", IF article.video = 0 THEN "put" ELSE "unlink", f, article.video)
            /\ kind' = [kind EXCEPT ![f] = "video"]
            /\ UNCHANGED <<row, article, stored, phase, torn>>
      BY <2>3 DEF UploadVideo
    <3>2. PICK old, at : old = article.video /\ at = IF article.video = 0 THEN "put" ELSE "unlink"
      OBVIOUS
    <3>3. old \in 0 .. MaxFiles /\ at \in {"put", "unlink"} /\ (at = "unlink" => old # 0)
          /\ Hire(h, "video", at, f, old)
      BY <3>1, <3>2, FileFields
    <3>4. "video" \in Uploads
      BY DEF Uploads
    <3> QED
      BY <3>1, <3>2, <3>3, <3>4, StoringStarts
  <2>4. CASE InsertDocument(h) \/ InsertResult(h) \/ InsertSlide(h) \/ InsertHero(h) \/ InsertImage(h)
    <3>1. PICK k \in Kinds : Insert(h, k)
      BY <2>4 DEF InsertDocument, InsertResult, InsertSlide, InsertHero, InsertImage, Kinds, Pictures
    <3>2. work[h].file \in Files
      BY <3>1, FileFields DEF Insert, Doing, HandOK, Uploads
    <3>3. row' = [row EXCEPT ![work[h].file] = "live"]
      BY <3>1 DEF Insert
    <3> QED
      BY <3>1, <3>2, <3>3, FileFields, InsertKeeps DEF Insert
  <2>5. CASE InsertVisa(h)
    <3>1. "visa" \in Kinds /\ work[h].file \in Files
      BY <2>5, FileFields DEF InsertVisa, Doing, HandOK, Uploads, Kinds
    <3>2. row' \in [Files -> {"none", "live", "deleted", "purged"}] /\ row'[work[h].file] = "live"
          /\ \A f \in Files : f # work[h].file => row'[f] = row[f] \/ (row[f] = "live" /\ row'[f] = "deleted")
      BY <2>5, <3>1, FileFields DEF InsertVisa
    <3> QED
      BY <2>5, <3>1, <3>2, InsertKeeps DEF InsertVisa
  <2>6. CASE DeleteDocument(h) \/ DeleteResult(h) \/ DeleteSlide(h) \/ DeleteHero(h) \/ DeleteImage(h)
    <3>1. PICK op \in {"deleteDocument", "deleteResult"} \cup PictureDeletes, f \in Files :
            row[f] = "live" /\ StartRemoval(h, op, f)
      BY <2>6 DEF DeleteDocument, DeleteResult, DeleteSlide, DeleteHero, DeleteImage, Of, PictureDeletes
    <3>2. op \in FileOps \ (Uploads \cup Replacing) /\ op # "hardDelete"
      BY DEF FileOps, Uploads, Kinds, Pictures, Replacing, PictureDeletes
    <3> QED
      BY <3>1, <3>2, RemovalStarts DEF StartRemoval
  <2>7. CASE HardDelete(h)
    <3>1. "hardDelete" \in FileOps \ (Uploads \cup Replacing)
      BY DEF FileOps, Uploads, Kinds, Pictures, Replacing
    <3>2. PICK f \in Files : row[f] # "none" /\ Hire(h, "hardDelete", "object", f, 0)
                             /\ UNCHANGED <<rows, stored, phase, torn>>
      BY <2>7 DEF HardDelete
    <3> QED
      BY <3>1, <3>2, RemovalStarts
  <2> QED
    BY <1>2, <2>1, <2>2, <2>3, <2>4, <2>5, <2>6, <2>7, PutObjectKeeps, MarkDeletedKeeps, RemoveObjectKeeps,
       RemoveRowKeeps, UnlinkKeeps, ArticleWritten, ClearVideoKeeps, OtherFileStarts, FileFailureKeeps DEF FileStep
<1> QED
  BY <1>1, <1>2 DEF FileNext

LEMMA InitFilesOK == FileInit => FilesOK
<1> SUFFICES ASSUME FileInit PROVE FilesOK
  OBVIOUS
<1>1. \A h \in FileRequests : work[h] = NoWork
  BY DEF FileInit
<1>2. NoWork \in Works /\ HandOK(NoWork)
  BY FilesAssumption DEF NoWork, Works, HandOK, Uploads, Kinds, Pictures, Replacing, PictureDeletes
<1>3. NoWork.op \notin Uploads
  BY DEF NoWork, Uploads, Kinds, Pictures
<1>4. article.video = 0 /\ article \in [live : BOOLEAN, video : 0 .. MaxFiles, link : BOOLEAN]
  <2>1. article \in [live : {TRUE}, video : {0}, link : BOOLEAN]
    BY DEF FileInit
  <2>2. {0} \subseteq 0 .. MaxFiles
    BY FilesAssumption
  <2> QED
    BY <2>1, <2>2
<1>5. FileTypeOK
  BY <1>2, <1>4, FilesAssumption DEF FileInit, FileTypeOK
<1>6. FilesApart /\ FreshFiles /\ BehindNames
  BY <1>1, <1>3, <1>4, FilesAssumption DEF FileInit, FilesApart, FreshFiles, BehindNames, NamedFiles, Files
<1> QED
  BY <1>1, <1>2, <1>5, <1>6 DEF FilesOK

\* Uploads, replacements and deletions of documents, visas, pictures and videos, in any
\* number and whatever they overlap with or where they stop: what is listed or shown
\* has its object in storage, unless its removal is under way or was cut off.
THEOREM FilesAreThere == FileSpec => []FilesBehindRows
<1>1. FilesOK => FilesBehindRows
  BY FileFields DEF FilesOK, BehindNames, NamedFiles, FilesBehindRows, Downloadable, PortalFiles, ShownPictures,
                    StreamedVideo, Of
<1> QED
  BY <1>1, InitFilesOK, FilesAreInductive, PTL DEF FileSpec

\* The rows of files, the objects in storage and the requests at work on them have their
\* types in every reachable state.
THEOREM FileTypes == FileSpec => []FileTypeOK
<1>1. FilesOK => FileTypeOK
  BY DEF FilesOK
<1> QED
  BY <1>1, InitFilesOK, FilesAreInductive, PTL DEF FileSpec

-----------------------------------------------------------------------------
(* VisaIssue: the application follows its visas, the links stay good.         *)

VisaRow == [of : Travellers, state : {"live", "replaced", "emptied", "purged"}, left : 0 .. MaxHour]

\* A link to visa i that was asked for at that hour.
AskedInTime(i, asked) == asked <= hour /\ (visa[i].state = "replaced" => asked <= visa[i].left)

\* What a request is about to do, by its operation.
DutyOK(t) ==
  /\ t.op \in IssueOps \cup {"idle"}
  /\ t.op = "write" => t \in [op : {"write"}, at : {"mint"}, left : SUBSET (Audience \cup formerly)]
  /\ t.op \in {"decide", "release"} => t \in [op : {"decide", "release"}, at : {"set"}, to : Standings]
  /\ t.op = "status" =>
       t \in [op : {"status"}, at : {"person"}, of : Travellers, to : Fates]
             \cup [op : {"status"}, at : {"collect"}]
             \cup [op : {"status"}, at : {"compare", "set"}, to : Standings]
  /\ t.op = "issue" =>
       t \in [op : {"issue"}, at : {"insert"}, of : Travellers, old : 0 .. Len(visa)]
             \cup [op : {"issue"}, at : {"count", "ready", "recipients"}]
  /\ t.op = "erase" => t \in [op : {"erase"}, at : {"row"}, visa : 1 .. Len(visa)]
  /\ t.op = "email" => t \in [op : {"email"}, at : {"set"}, of : Travellers, to : Mailboxes]
  /\ t.op \in {"ask", "open"} =>
       /\ t \in [op : {"ask", "open"}, at : {"check", "sign"}, visa : 1 .. Len(visa), asked : 0 .. MaxHour,
                 lasts : {1, Day}]
       /\ AskedInTime(t.visa, t.asked)

LettersGood == \A l \in letterLink : l.to \in Audience \cup formerly

FileLinksGood == \A l \in fileLink : l.visa <= Len(visa) /\ AskedInTime(l.visa, l.asked)

\* The issue that stored the last visa has still to look.
Finishing(t) == t.op = "issue" /\ t.at \in {"count", "ready"}

Completed ==
  AllIssued /\ ~broken /\ ~overruled /\ standing # "READY_TO_DOWNLOAD" =>
    \E h \in IssueRequests : Finishing(doing[h])

IssueOK ==
  /\ VisaIssueTypeOK /\ DOMAIN doing = IssueRequests
  /\ \A h \in IssueRequests : DutyOK(doing[h])
  /\ LettersGood /\ FileLinksGood /\ Completed


LEMMA IssueFields ==
  ASSUME IssueOK
  PROVE  /\ standing \in Standings /\ fate \in [Travellers -> Fates] /\ visa \in Seq(VisaRow)
         /\ Len(visa) \in Nat /\ Len(visa) <= MaxVisas /\ (\A i \in 1 .. Len(visa) : visa[i] \in VisaRow)
         /\ address \in [Travellers -> Mailboxes] /\ formerly \subseteq Mailboxes
         /\ Audience \subseteq Mailboxes /\ Recipients = Audience
         /\ hour \in 0 .. MaxHour /\ hour \in Nat
         /\ {MaxVisas, MaxHour, MaxLinks, Day, MaxIssueFaults} \subseteq Nat
<1>1. VisaIssueTypeOK
  BY DEF IssueOK
<1>2. {MaxVisas, MaxHour, MaxLinks, Day, MaxIssueFaults} \subseteq Nat /\ Plain \in [Mailboxes -> Mailboxes]
      /\ Account \in Mailboxes
  BY VisaIssueAssumption
<1>3. visa \in Seq(VisaRow) /\ Len(visa) <= MaxVisas
  BY <1>1 DEF VisaIssueTypeOK, VisaRow
<1>4. Len(visa) \in Nat /\ \A i \in 1 .. Len(visa) : visa[i] \in VisaRow
  <2> HIDE DEF VisaRow
  <2> QED
    BY <1>3, LenProperties, ElementOfSeq
<1>5. hour \in 0 .. MaxHour /\ hour \in Nat
  BY <1>1, <1>2 DEF VisaIssueTypeOK
<1>6. address \in [Travellers -> Mailboxes] /\ formerly \subseteq Mailboxes /\ standing \in Standings
      /\ fate \in [Travellers -> Fates]
  BY <1>1 DEF VisaIssueTypeOK
<1>7. Audience \subseteq Mailboxes /\ Recipients = Audience
  BY <1>2, <1>6 DEF Audience, Recipients
<1> QED
  BY <1>2, <1>3, <1>4, <1>5, <1>6, <1>7

\* A request moves on to c.  No address leaves the audience unless it is corrected, no
\* visa is lost, and one that is replaced is replaced now.
LEMMA DutyMoves ==
  ASSUME IssueOK, VisaIssueTypeOK', NEW h \in IssueRequests, NEW c,
         doing' = [doing EXCEPT ![h] = c], DutyOK(c)', Completed',
         Len(visa') >= Len(visa), hour' = hour, formerly \subseteq formerly',
         Audience \subseteq Audience' \cup formerly',
         \A i \in 1 .. Len(visa) :
           visa'[i].state = "replaced" => \/ visa[i].state = "replaced" /\ visa'[i].left = visa[i].left
                                          \/ visa'[i].left = hour,
         \A l \in letterLink' \ letterLink : l.to \in Audience \cup formerly,
         \A l \in fileLink' \ fileLink : l.visa \in 1 .. Len(visa) /\ AskedInTime(l.visa, l.asked)
  PROVE  IssueOK'
<1> USE DEF IssueOK
<1>1. doing'[h] = c /\ (\A g \in IssueRequests : g # h => doing'[g] = doing[g]) /\ DOMAIN doing' = IssueRequests
  OBVIOUS
<1>2. \A i \in 1 .. Len(visa), asked \in Nat : AskedInTime(i, asked) => AskedInTime(i, asked)'
  BY DEF AskedInTime
<1>3. Len(visa) \in Nat /\ Len(visa') \in Nat
  BY IssueFields DEF VisaIssueTypeOK
<1>4. ASSUME NEW g \in IssueRequests, g # h
      PROVE  DutyOK(doing[g])'
  <2>1. DutyOK(doing[g]) /\ doing'[g] = doing[g]
    BY <1>1, <1>4
  <2>2. doing[g].op = "write" =>
          doing[g] \in [op : {"write"}, at : {"mint"}, left : SUBSET (Audience' \cup formerly')]
    BY <2>1 DEF DutyOK
  <2>3. doing[g].op = "issue" =>
          doing[g] \in [op : {"issue"}, at : {"insert"}, of : Travellers, old : 0 .. Len(visa')]
                       \cup [op : {"issue"}, at : {"count", "ready", "recipients"}]
    BY <1>3, <2>1 DEF DutyOK
  <2>4. doing[g].op = "erase" => doing[g] \in [op : {"erase"}, at : {"row"}, visa : 1 .. Len(visa')]
    BY <1>3, <2>1 DEF DutyOK
  <2>5. doing[g].op \in {"ask", "open"} =>
          /\ doing[g] \in [op : {"ask", "open"}, at : {"check", "sign"}, visa : 1 .. Len(visa'),
                           asked : 0 .. MaxHour, lasts : {1, Day}]
          /\ AskedInTime(doing[g].visa, doing[g].asked)'
    <3> SUFFICES ASSUME doing[g].op \in {"ask", "open"}
                 PROVE  /\ doing[g] \in [op : {"ask", "open"}, at : {"check", "sign"}, visa : 1 .. Len(visa'),
                                         asked : 0 .. MaxHour, lasts : {1, Day}]
                        /\ AskedInTime(doing[g].visa, doing[g].asked)'
      BY <1>1, <1>4
    <3>1. /\ doing[g] \in [op : {"ask", "open"}, at : {"check", "sign"}, visa : 1 .. Len(visa),
                           asked : 0 .. MaxHour, lasts : {1, Day}]
          /\ AskedInTime(doing[g].visa, doing[g].asked)
      BY <2>1 DEF DutyOK
    <3>2. doing[g].visa \in 1 .. Len(visa) /\ doing[g].asked \in Nat
      BY <3>1
    <3>3. PICK i, asked : i = doing[g].visa /\ asked = doing[g].asked
      OBVIOUS
    <3>4. AskedInTime(i, asked)'
      BY <1>2, <3>1, <3>2, <3>3
    <3> QED
      BY <1>1, <1>3, <1>4, <3>1, <3>3, <3>4
  <2> QED
    BY <2>1, <2>2, <2>3, <2>4, <2>5 DEF DutyOK
<1>5. \A g \in IssueRequests : DutyOK(doing[g])'
  BY <1>1, <1>4
<1>6. LettersGood'
  BY DEF LettersGood
<1>7. FileLinksGood'
  <2>1. SUFFICES ASSUME NEW l \in fileLink'
                 PROVE  l.visa <= Len(visa') /\ AskedInTime(l.visa, l.asked)'
    BY DEF FileLinksGood
  <2>2. l \in [visa : 1 .. MaxVisas, until : Nat, asked : 0 .. MaxHour]
    BY DEF VisaIssueTypeOK
  <2>3. l.visa \in 1 .. Len(visa) /\ l.asked \in Nat /\ AskedInTime(l.visa, l.asked)
    BY <1>3, <2>2, VisaIssueAssumption DEF FileLinksGood
  <2> QED
    BY <1>2, <1>3, <2>3
<1> QED
  BY <1>1, <1>5, <1>6, <1>7

\* Where the visas and the application stay as they are.
LEMMA DutyTurns ==
  ASSUME IssueOK, NEW h \in IssueRequests, NEW c, doing' = [doing EXCEPT ![h] = c], DutyOK(c)',
         UNCHANGED <<outcome, address, formerly, visa, hour, issueOffer>>, fate' \in [Travellers -> Fates],
         letterLink' \subseteq [to : Mailboxes, until : Nat],
         fileLink' \subseteq [visa : 1 .. MaxVisas, until : Nat, asked : 0 .. MaxHour],
         \A l \in letterLink' \ letterLink : l.to \in Audience \cup formerly,
         \A l \in fileLink' \ fileLink : l.visa \in 1 .. Len(visa) /\ AskedInTime(l.visa, l.asked),
         broken' \in BOOLEAN, issueFaults' \in 0 .. MaxIssueFaults, broken => broken',
         Finishing(doing[h]) => Finishing(c) \/ broken' \/ ~AllIssued \/ standing = "READY_TO_DOWNLOAD"
  PROVE  IssueOK'
<1> USE DEF IssueOK
<1>1. doing'[h] = c /\ \A g \in IssueRequests : g # h => doing'[g] = doing[g]
  OBVIOUS
<1>2. VisaIssueTypeOK'
  BY <1>1 DEF VisaIssueTypeOK, DutyOK, outcome
<1>3. AllIssued' = AllIssued
  BY DEF AllIssued, VisasOf
<1>4. Completed'
  BY <1>1, <1>3 DEF Completed, outcome
<1>5. Audience' = Audience /\ Len(visa') >= Len(visa)
  BY IssueFields DEF Audience
<1> QED
  BY <1>2, <1>4, <1>5, DutyMoves


LEMMA SameDuties ==
  ASSUME UNCHANGED <<address, formerly, visa, hour>>
  PROVE  \A t : DutyOK(t)' <=> DutyOK(t)
<1>1. Audience' = Audience
  BY DEF Audience
<1>2. \A i, asked : AskedInTime(i, asked)' <=> AskedInTime(i, asked)
  BY DEF AskedInTime
<1> QED
  BY <1>1, <1>2 DEF DutyOK

LEMMA RestingDuty == DutyOK(NotBusy) /\ ~Finishing(NotBusy)
BY DEF DutyOK, NotBusy, IssueOps, Finishing

\* A request starts, or goes on, and nothing else happens.
LEMMA DutyGoes ==
  ASSUME IssueOK, NEW h \in IssueRequests, NEW c, Goes(h, c), DutyOK(c),
         UNCHANGED <<outcome, people, visa, links, rest>>,
         Finishing(doing[h]) => Finishing(c) \/ ~AllIssued \/ standing = "READY_TO_DOWNLOAD"
  PROVE  IssueOK'
<1>1. DutyOK(c)'
  BY SameDuties DEF people, rest
<1>2. fate' \in [Travellers -> Fates] /\ broken' \in BOOLEAN /\ issueFaults' \in 0 .. MaxIssueFaults
      /\ letterLink' \subseteq [to : Mailboxes, until : Nat]
      /\ fileLink' \subseteq [visa : 1 .. MaxVisas, until : Nat, asked : 0 .. MaxHour]
  BY DEF IssueOK, VisaIssueTypeOK, people, rest, links
<1> QED
  BY <1>1, <1>2, DutyTurns DEF Goes, people, rest, links

LEMMA DutyStarts ==
  ASSUME IssueOK, NEW h \in IssueRequests, NEW t, Undertake(h, t), DutyOK(t),
         UNCHANGED <<outcome, people, visa, links, rest>>
  PROVE  IssueOK'
BY DutyGoes, RestingDuty DEF Undertake, Goes

LEMMA LetterDuty ==
  ASSUME IssueOK, NEW left, left \subseteq Audience \cup formerly
  PROVE  DutyOK(LetterTo(left)) /\ ~Finishing(LetterTo(left))
BY RestingDuty DEF LetterTo, DutyOK, IssueOps, Finishing

LEMMA CustomersDuties ==
  ASSUME IssueOK, NEW h \in IssueRequests,
         AskForDocument(h) \/ AskForVisa(h) \/ OpenLetter(h) \/ UpdateEmail(h) \/ CheckReleased(h)
  PROVE  IssueOK'
<1>1. \A p \in Travellers : VisasOf(p) \subseteq 1 .. Len(visa)
  BY DEF VisasOf
<1>2. \A p \in Travellers : \A i \in VisasOf(p) : AskedInTime(i, hour)
  BY IssueFields DEF AskedInTime, VisasOf
<1>3. PICK now : now = hour
  OBVIOUS
<1>4. \A p \in Travellers : \A i \in VisasOf(p), lasts \in {1, Day} :
         /\ DutyOK([op |-> "ask", at |-> "sign", visa |-> i, asked |-> now, lasts |-> lasts])
         /\ DutyOK([op |-> "open", at |-> "check", visa |-> i, asked |-> now, lasts |-> lasts])
  BY <1>1, <1>2, <1>3, IssueFields DEF DutyOK, IssueOps
<1>5. CASE AskForDocument(h) \/ AskForVisa(h)
  <2>1. PICK p \in Travellers, i \in 1 .. Len(visa), lasts \in {1, Day} :
          i \in VisasOf(p) /\ Undertake(h, [op |-> "ask", at |-> "sign", visa |-> i, asked |-> now, lasts |-> lasts])
    BY <1>1, <1>3, <1>5 DEF AskForDocument, AskForVisa
  <2> QED
    BY <1>4, <1>5, <2>1, DutyStarts DEF AskForDocument, AskForVisa
<1>6. CASE OpenLetter(h)
  <2>1. PICK p \in Travellers, i \in 1 .. Len(visa) :
          i \in VisasOf(p) /\ Undertake(h, [op |-> "open", at |-> "check", visa |-> i, asked |-> now, lasts |-> 1])
    BY <1>1, <1>3, <1>6 DEF OpenLetter
  <2> QED
    BY <1>4, <1>6, <2>1, DutyStarts DEF OpenLetter
<1>7. CASE UpdateEmail(h)
  <2>1. PICK p \in Travellers, a \in Mailboxes :
          Undertake(h, [op |-> "email", at |-> "set", of |-> p, to |-> Plain[a]])
    BY <1>7 DEF UpdateEmail
  <2>2. DutyOK([op |-> "email", at |-> "set", of |-> p, to |-> Plain[a]])
    BY VisaIssueAssumption DEF DutyOK, IssueOps
  <2> QED
    BY <1>7, <2>1, <2>2, DutyStarts DEF UpdateEmail
<1>8. CASE CheckReleased(h)
  <2>1. PICK c : c = IF standing \in Released THEN [doing[h] EXCEPT !.at = "sign"] ELSE NotBusy
    OBVIOUS
  <2>2. DutyOK(doing[h]) /\ doing[h].op = "open"
    BY <1>8 DEF IssueOK, CheckReleased, OnIt
  <2>3. DutyOK(c)
    <3>1. CASE c = NotBusy
      BY <3>1, RestingDuty
    <3>2. CASE c = [doing[h] EXCEPT !.at = "sign"]
      <4>1. doing[h] \in [op : {"ask", "open"}, at : {"check", "sign"}, visa : 1 .. Len(visa), asked : 0 .. MaxHour,
                          lasts : {1, Day}]
        BY <2>2 DEF DutyOK
      <4>2. /\ c \in [op : {"ask", "open"}, at : {"check", "sign"}, visa : 1 .. Len(visa), asked : 0 .. MaxHour,
                      lasts : {1, Day}]
            /\ c.op = "open" /\ c.visa = doing[h].visa /\ c.asked = doing[h].asked
        BY <2>2, <3>2, <4>1
      <4> QED
        BY <2>2, <4>2 DEF DutyOK, IssueOps
    <3> QED
      BY <2>1, <3>1, <3>2
  <2> QED
    BY <1>8, <2>1, <2>2, <2>3, DutyGoes DEF CheckReleased, Finishing
<1> QED
  BY <1>5, <1>6, <1>7, <1>8

LEMMA OperatorsDuties ==
  ASSUME IssueOK, NEW h \in IssueRequests,
         Decide(h) \/ ReleaseVisa(h) \/ UpdateFate(h) \/ CollectFates(h) \/ CompareStanding(h)
           \/ IssueVisaTo(h) \/ CountIssued(h) \/ ReadRecipients(h)
  PROVE  IssueOK'
<1>1. CASE Decide(h) \/ ReleaseVisa(h)
  <2>1. PICK op \in {"decide", "release"}, s \in Standings : Undertake(h, [op |-> op, at |-> "set", to |-> s])
    BY <1>1 DEF Decide, ReleaseVisa, Standings
  <2>2. DutyOK([op |-> op, at |-> "set", to |-> s])
    BY DEF DutyOK, IssueOps
  <2> QED
    BY <1>1, <2>1, <2>2, DutyStarts DEF Decide, ReleaseVisa
<1>2. CASE UpdateFate(h)
  <2>1. PICK p \in Travellers, s \in Fates : Undertake(h, [op |-> "status", at |-> "person", of |-> p, to |-> s])
    BY <1>2, VisaIssueAssumption DEF UpdateFate
  <2>2. DutyOK([op |-> "status", at |-> "person", of |-> p, to |-> s])
    BY DEF DutyOK, IssueOps
  <2> QED
    BY <1>2, <2>1, <2>2, DutyStarts DEF UpdateFate
<1>3. CASE CollectFates(h)
  <2>1. PICK s : s = Aggregate({fate[p] : p \in Travellers})
    OBVIOUS
  <2>2. s \in Standings
    BY <2>1 DEF Aggregate, Standings
  <2>3. DutyOK([op |-> "status", at |-> "compare", to |-> s])
    BY <2>2 DEF DutyOK, IssueOps
  <2> QED
    BY <1>3, <2>1, <2>3, DutyGoes DEF CollectFates, OnIt, Finishing
<1>4. CASE CompareStanding(h)
  <2>1. PICK c : c = IF standing = doing[h].to THEN NotBusy ELSE [doing[h] EXCEPT !.at = "set"]
    OBVIOUS
  <2>2. doing[h] \in [op : {"status"}, at : {"compare", "set"}, to : Standings]
    BY <1>4 DEF IssueOK, DutyOK, CompareStanding, OnIt
  <2>3. c = NotBusy \/ c \in [op : {"status"}, at : {"compare", "set"}, to : Standings]
    BY <2>1, <2>2
  <2>4. DutyOK(c)
    BY <2>3, RestingDuty DEF DutyOK, IssueOps
  <2> QED
    BY <1>4, <2>1, <2>2, <2>4, DutyGoes DEF CompareStanding, Finishing
<1>5. CASE IssueVisaTo(h)
  <2>1. PICK p \in Travellers, old \in 0 .. Len(visa) :
          Undertake(h, [op |-> "issue", at |-> "insert", of |-> p, old |-> old])
    BY <1>5, IssueFields DEF IssueVisaTo, VisasOf
  <2>2. DutyOK([op |-> "issue", at |-> "insert", of |-> p, old |-> old])
    BY DEF DutyOK, IssueOps
  <2> QED
    BY <1>5, <2>1, <2>2, DutyStarts DEF IssueVisaTo
<1>6. CASE CountIssued(h)
  <2>1. DutyOK([op |-> "issue", at |-> "ready"]) /\ Finishing([op |-> "issue", at |-> "ready"])
    BY DEF DutyOK, IssueOps, Finishing
  <2>2. CASE AllIssued /\ standing # "READY_TO_DOWNLOAD"
    BY <1>6, <2>1, <2>2, DutyGoes DEF CountIssued
  <2>3. CASE ~(AllIssued /\ standing # "READY_TO_DOWNLOAD")
    BY <1>6, <2>3, RestingDuty, DutyGoes DEF CountIssued
  <2> QED
    BY <2>2, <2>3
<1>7. CASE ReadRecipients(h)
  <2>1. PICK c : c = LetterTo(Recipients)
    OBVIOUS
  <2>2. PICK left : left = Recipients
    OBVIOUS
  <2>3. DutyOK(c)
    BY <2>1, <2>2, IssueFields, LetterDuty
  <2> QED
    BY <1>7, <2>1, <2>3, DutyGoes DEF ReadRecipients, OnIt, Finishing
<1> QED
  BY <1>1, <1>2, <1>3, <1>4, <1>5, <1>6, <1>7


LEMMA MintLinkKeeps ==
  ASSUME IssueOK, NEW h \in IssueRequests, MintLink(h)
  PROVE  IssueOK'
<1>1. doing[h] \in [op : {"write"}, at : {"mint"}, left : SUBSET (Audience \cup formerly)]
  BY DEF IssueOK, DutyOK, MintLink, OnIt
<1>2. PICK to \in doing[h].left :
        letterLink' = letterLink \cup {[to |-> to, until |-> hour + Day]} /\ Goes(h, LetterTo(doing[h].left \ {to}))
  BY DEF MintLink
<1>3. PICK c : c = LetterTo(doing[h].left \ {to})
  OBVIOUS
<1>4. PICK left : left = doing[h].left \ {to}
  OBVIOUS
<1>5. DutyOK(c)
  BY <1>1, <1>3, <1>4, LetterDuty
<1>6. DutyOK(c)'
  BY <1>5, SameDuties DEF MintLink, people, rest
<1>7. to \in Audience \cup formerly /\ to \in Mailboxes
  BY <1>1, <1>2, IssueFields
<1>8. letterLink' \subseteq [to : Mailboxes, until : Nat]
  BY <1>2, <1>7, IssueFields DEF IssueOK, VisaIssueTypeOK
<1>9. fate' \in [Travellers -> Fates] /\ broken' \in BOOLEAN /\ issueFaults' \in 0 .. MaxIssueFaults
      /\ fileLink' \subseteq [visa : 1 .. MaxVisas, until : Nat, asked : 0 .. MaxHour] /\ fileLink' = fileLink
  BY DEF MintLink, IssueOK, VisaIssueTypeOK, people, rest
<1>10. \A l \in letterLink' \ letterLink : l.to \in Audience \cup formerly
  BY <1>2, <1>7
<1>11. doing' = [doing EXCEPT ![h] = c] /\ ~Finishing(doing[h])
  BY <1>1, <1>2, <1>3 DEF Goes, Finishing
<1> QED
  BY <1>6, <1>8, <1>9, <1>10, <1>11, DutyTurns DEF MintLink, people, rest

LEMMA SignLinkKeeps ==
  ASSUME IssueOK, NEW h \in IssueRequests, SignLink(h)
  PROVE  IssueOK'
<1>1. /\ doing[h] \in [op : {"ask", "open"}, at : {"check", "sign"}, visa : 1 .. Len(visa), asked : 0 .. MaxHour,
                       lasts : {1, Day}]
      /\ AskedInTime(doing[h].visa, doing[h].asked)
  BY DEF IssueOK, DutyOK, SignLink
<1>2. DutyOK(NotBusy)'
  BY RestingDuty, SameDuties DEF SignLink, people, rest
<1>3. PICK l : l = [visa |-> doing[h].visa, asked |-> doing[h].asked, until |-> hour + doing[h].lasts]
  OBVIOUS
<1>4. fileLink' = fileLink \cup {l}
  BY <1>3 DEF SignLink
<1>5. l.visa = doing[h].visa /\ l.asked = doing[h].asked
  BY <1>3
<1>6. l.visa \in 1 .. Len(visa) /\ AskedInTime(l.visa, l.asked)
  BY <1>1, <1>5
<1>7. l \in [visa : 1 .. MaxVisas, until : Nat, asked : 0 .. MaxHour]
  <2>1. doing[h].lasts \in Nat /\ doing[h].visa \in 1 .. MaxVisas /\ doing[h].asked \in 0 .. MaxHour
    BY <1>1, IssueFields
  <2> QED
    BY <1>3, <2>1, IssueFields
<1>8. fileLink' \subseteq [visa : 1 .. MaxVisas, until : Nat, asked : 0 .. MaxHour]
  BY <1>4, <1>7 DEF IssueOK, VisaIssueTypeOK
<1>9. fate' \in [Travellers -> Fates] /\ broken' \in BOOLEAN /\ issueFaults' \in 0 .. MaxIssueFaults
      /\ letterLink' \subseteq [to : Mailboxes, until : Nat]
  BY DEF SignLink, IssueOK, VisaIssueTypeOK, people, rest
<1> QED
  BY <1>1, <1>2, <1>4, <1>6, <1>8, <1>9, DutyTurns DEF SignLink, Goes, Finishing, people, rest

LEMMA StoreFateKeeps ==
  ASSUME IssueOK, NEW h \in IssueRequests, StoreFate(h)
  PROVE  IssueOK'
<1>1. doing[h] \in [op : {"status"}, at : {"person"}, of : Travellers, to : Fates]
  BY DEF IssueOK, DutyOK, StoreFate, OnIt
<1>2. DutyOK([op |-> "status", at |-> "collect"])'
  BY DEF DutyOK, IssueOps
<1>3. fate' \in [Travellers -> Fates]
  BY <1>1, IssueFields DEF StoreFate
<1>4. broken' \in BOOLEAN /\ issueFaults' \in 0 .. MaxIssueFaults /\ letterLink' \subseteq [to : Mailboxes, until : Nat]
      /\ fileLink' \subseteq [visa : 1 .. MaxVisas, until : Nat, asked : 0 .. MaxHour]
  BY DEF StoreFate, IssueOK, VisaIssueTypeOK, rest, links
<1> QED
  BY <1>1, <1>2, <1>3, <1>4, DutyTurns DEF StoreFate, Goes, Finishing, rest, links

\* Where an interrupted issue leaves the application behind, it counts as broken.
LEMMA IssueFailureKeeps ==
  ASSUME IssueOK, NEW h \in IssueRequests, IssueRequestFails(h)
  PROVE  IssueOK'
<1>1. DutyOK(NotBusy)'
  BY RestingDuty, SameDuties DEF IssueRequestFails, people
<1>2. broken' \in BOOLEAN /\ (broken => broken')
  BY DEF IssueRequestFails, IssueOK, VisaIssueTypeOK
<1>3. Finishing(doing[h]) => broken'
  BY DEF IssueRequestFails, Finishing, OnIt
<1>4. fate' \in [Travellers -> Fates] /\ issueFaults' \in 0 .. MaxIssueFaults
      /\ letterLink' \subseteq [to : Mailboxes, until : Nat]
      /\ fileLink' \subseteq [visa : 1 .. MaxVisas, until : Nat, asked : 0 .. MaxHour]
  BY IssueFields DEF IssueRequestFails, IssueOK, VisaIssueTypeOK, people, links
<1> QED
  BY <1>1, <1>2, <1>3, <1>4, DutyTurns DEF IssueRequestFails, Goes, people, links

\* The status of the application is written: READY_TO_DOWNLOAD, or it is overruled.
LEMMA StandingWritten ==
  ASSUME IssueOK, NEW h \in IssueRequests, NEW c, NEW s \in Standings, SetStanding(s), Goes(h, c), DutyOK(c),
         Finishing(doing[h]) => s = "READY_TO_DOWNLOAD", UNCHANGED <<people, visa, links, rest>>
  PROVE  IssueOK'
<1>1. DutyOK(c)'
  BY SameDuties DEF people, rest
<1>2. doing'[h] = c /\ \A g \in IssueRequests : g # h => doing'[g] = doing[g]
  BY DEF Goes, IssueOK
<1>3. standing' = s /\ overruled' \in BOOLEAN
      /\ (s # "READY_TO_DOWNLOAD" => (overruled' <=> (overruled \/ standing = "READY_TO_DOWNLOAD")))
  BY DEF SetStanding, IssueOK, VisaIssueTypeOK
<1>4. VisaIssueTypeOK'
  <2>1. \A g \in IssueRequests : doing'[g].op \in IssueOps \cup {"idle"}
    BY <1>1, <1>2 DEF IssueOK, DutyOK
  <2> QED
    BY <1>3, <2>1 DEF IssueOK, VisaIssueTypeOK, people, links, rest
<1>5. AllIssued' = AllIssued
  BY DEF AllIssued, VisasOf
<1>6. Completed'
  BY <1>2, <1>3, <1>5 DEF IssueOK, Completed, rest
<1>7. Audience' = Audience /\ Len(visa') >= Len(visa)
  BY IssueFields DEF Audience, people
<1> QED
  BY <1>1, <1>4, <1>6, <1>7, DutyMoves DEF Goes, people, links, rest

LEMMA DecisionsKeep ==
  ASSUME IssueOK, NEW h \in IssueRequests, SaveDecision(h) \/ SaveAggregate(h) \/ MakeReady(h)
  PROVE  IssueOK'
<1>1. PICK c, s : c = LetterTo(Recipients) /\ s = doing[h].to
  OBVIOUS
<1>2. CASE SaveDecision(h)
  <2>1. doing[h] \in [op : {"decide", "release"}, at : {"set"}, to : Standings]
    BY <1>2 DEF IssueOK, DutyOK, SaveDecision
  <2>2. PICK left : left = Recipients
    OBVIOUS
  <2>3. DutyOK(c)
    BY <1>1, <2>2, IssueFields, LetterDuty
  <2>4. SetStanding(s) /\ Goes(h, c) /\ UNCHANGED <<people, visa, links, rest>> /\ ~Finishing(doing[h])
    BY <1>1, <1>2, <2>1 DEF SaveDecision, Finishing
  <2> QED
    BY <1>1, <2>1, <2>3, <2>4, StandingWritten
<1>3. CASE SaveAggregate(h)
  <2>1. doing[h] \in [op : {"status"}, at : {"compare", "set"}, to : Standings]
    BY <1>3 DEF IssueOK, DutyOK, SaveAggregate, OnIt
  <2>2. SetStanding(s) /\ Goes(h, NotBusy) /\ UNCHANGED <<people, visa, links, rest>> /\ ~Finishing(doing[h])
    BY <1>1, <1>3, <2>1 DEF SaveAggregate, Finishing
  <2> QED
    BY <1>1, <2>1, <2>2, RestingDuty, StandingWritten
<1>4. CASE MakeReady(h)
  <2>1. DutyOK([op |-> "issue", at |-> "recipients"]) /\ "READY_TO_DOWNLOAD" \in Standings
    BY DEF DutyOK, IssueOps, Standings
  <2> QED
    BY <1>4, <2>1, StandingWritten DEF MakeReady
<1> QED
  BY <1>2, <1>3, <1>4


\* A visa is marked: as replaced, emptied or gone.
Marked(i, r) == [visa EXCEPT ![i] = r]

LEMMA VisaMarked ==
  ASSUME IssueOK, NEW i \in 1 .. Len(visa), NEW r \in VisaRow
  PROVE  /\ Marked(i, r) \in Seq(VisaRow) /\ Len(Marked(i, r)) = Len(visa)
         /\ Marked(i, r)[i] = r /\ \A j \in 1 .. Len(visa) : j # i => Marked(i, r)[j] = visa[j]
<1>1. visa \in Seq(VisaRow)
  BY IssueFields
<1> HIDE DEF VisaRow
<1> QED
  BY <1>1, ExceptSeq DEF Marked

LEMMA ReplaceMarks ==
  ASSUME IssueOK, NEW i \in 0 .. Len(visa)
  PROVE  /\ Replace(i) \in Seq(VisaRow) /\ Len(Replace(i)) = Len(visa)
         /\ \A j \in 1 .. Len(visa) :
              Replace(i)[j].state = "replaced" => \/ visa[j].state = "replaced" /\ Replace(i)[j].left = visa[j].left
                                                  \/ Replace(i)[j].left = hour
<1>1. i # 0 => i \in 1 .. Len(visa) /\ visa[i] \in VisaRow
  BY IssueFields
<1>2. PICK marked : marked = Replace(i)
  OBVIOUS
<1>3. CASE i # 0 /\ visa[i].state = "live"
  <2>1. PICK r : r = [[visa[i] EXCEPT !.state = "replaced"] EXCEPT !.left = hour]
    OBVIOUS
  <2>2. r \in VisaRow /\ r.left = hour
    BY <1>1, <1>3, <2>1, IssueFields DEF VisaRow
  <2>3. marked = Marked(i, r)
    BY <1>2, <1>3, <2>1 DEF Replace, Marked
  <2>4. i \in 1 .. Len(visa) /\ r \in VisaRow
    BY <1>1, <1>3, <2>2
  <2>5. /\ marked \in Seq(VisaRow) /\ Len(marked) = Len(visa)
        /\ marked[i] = r /\ \A j \in 1 .. Len(visa) : j # i => marked[j] = visa[j]
    BY <2>3, <2>4, VisaMarked
  <2> QED
    BY <1>2, <2>2, <2>5
<1>4. CASE i # 0 /\ visa[i].state = "emptied"
  <2>1. PICK r : r = [visa[i] EXCEPT !.state = "purged"]
    OBVIOUS
  <2>2. r \in VisaRow /\ r.state = "purged"
    BY <1>1, <1>4, <2>1 DEF VisaRow
  <2>3. marked = Marked(i, r)
    BY <1>2, <1>4, <2>1 DEF Replace, Marked
  <2>4. i \in 1 .. Len(visa) /\ r \in VisaRow
    BY <1>1, <1>4, <2>2
  <2>5. /\ marked \in Seq(VisaRow) /\ Len(marked) = Len(visa)
        /\ marked[i] = r /\ \A j \in 1 .. Len(visa) : j # i => marked[j] = visa[j]
    BY <2>3, <2>4, VisaMarked
  <2> QED
    BY <1>2, <2>2, <2>5
<1>5. CASE ~(i # 0 /\ visa[i].state = "live") /\ ~(i # 0 /\ visa[i].state = "emptied")
  <2>1. Replace(i) = visa
    BY <1>5 DEF Replace
  <2> QED
    BY <2>1, IssueFields
<1> QED
  BY <1>3, <1>4, <1>5

\* The issue that stores a visa has still to look whether it was the last.
LEMMA InsertVisaRowKeeps ==
  ASSUME IssueOK, NEW h \in IssueRequests, InsertVisaRow(h)
  PROVE  IssueOK'
<1>1. doing[h] \in [op : {"issue"}, at : {"insert"}, of : Travellers, old : 0 .. Len(visa)]
  BY DEF IssueOK, DutyOK, InsertVisaRow, OnIt
<1>2. PICK old, of : old = doing[h].old /\ of = doing[h].of
  OBVIOUS
<1>3. old \in 0 .. Len(visa) /\ of \in Travellers
  BY <1>1, <1>2
<1>4. PICK base, added : base = Replace(old) /\ added = [of |-> of, state |-> "live", left |-> 0]
  OBVIOUS
<1>5. base \in Seq(VisaRow) /\ Len(base) = Len(visa) /\ added \in VisaRow
  <2>1. base \in Seq(VisaRow) /\ Len(base) = Len(visa)
    BY <1>3, <1>4, ReplaceMarks
  <2>2. added \in VisaRow
    BY <1>3, <1>4, IssueFields DEF VisaRow
  <2> QED
    BY <2>1, <2>2
<1>6. visa' = Append(base, added)
  BY <1>2, <1>4 DEF InsertVisaRow
<1>7. visa' \in Seq(VisaRow) /\ Len(visa') = Len(visa) + 1 /\ \A i \in 1 .. Len(visa) : visa'[i] = base[i]
  BY <1>5, <1>6, AppendProperties
<1>8. Len(visa') <= MaxVisas
  BY <1>7, IssueFields DEF InsertVisaRow
<1>9. PICK c : c = [op |-> "issue", at |-> "count"]
  OBVIOUS
<1>10. DutyOK(c)' /\ Finishing(c) /\ doing' = [doing EXCEPT ![h] = c] /\ doing'[h] = c
  BY <1>9 DEF DutyOK, IssueOps, Finishing, InsertVisaRow, Goes, IssueOK
<1>11. Completed'
  BY <1>10 DEF Completed
<1>12. fate' \in [Travellers -> Fates]
  BY <1>3, IssueFields DEF InsertVisaRow, Fates, Standings
<1>13. VisaIssueTypeOK'
  <2>1. \A g \in IssueRequests : doing'[g].op \in IssueOps \cup {"idle"}
    BY <1>9, <1>10 DEF IssueOK, DutyOK, IssueOps
  <2> QED
    BY <1>7, <1>8, <1>12, <2>1 DEF IssueOK, VisaIssueTypeOK, VisaRow, InsertVisaRow, outcome, links, rest
<1>14. \A i \in 1 .. Len(visa) :
         visa'[i].state = "replaced" => \/ visa[i].state = "replaced" /\ visa'[i].left = visa[i].left
                                        \/ visa'[i].left = hour
  BY <1>3, <1>4, <1>7, ReplaceMarks
<1>15. UNCHANGED <<address, formerly, hour, letterLink, fileLink>> /\ Audience' = Audience /\ Len(visa') >= Len(visa)
  BY <1>7, IssueFields DEF InsertVisaRow, Audience, rest, links
<1> QED
  BY <1>10, <1>11, <1>13, <1>14, <1>15, DutyMoves

\* A visa loses its file, or its row, and a request goes on: nobody has more visas than
\* before, and none is one that was replaced.
LEMMA VisaErased ==
  ASSUME IssueOK, NEW h \in IssueRequests, NEW c, NEW i \in 1 .. Len(visa), NEW r \in VisaRow,
         visa' = Marked(i, r), doing' = [doing EXCEPT ![h] = c],
         c = NotBusy \/ c = [op |-> "erase", at |-> "row", visa |-> i], ~Finishing(doing[h]),
         r.of = visa[i].of, r.state \in {"purged", "emptied"}, r.state = "emptied" => visa[i].state = "live",
         UNCHANGED <<outcome, people, links, rest>>
  PROVE  IssueOK'
<1>1. /\ visa' \in Seq(VisaRow) /\ Len(visa') = Len(visa)
      /\ visa'[i] = r /\ \A j \in 1 .. Len(visa) : j # i => visa'[j] = visa[j]
  BY VisaMarked
<1>2. AllIssued' => AllIssued
  <2>1. \A p \in Travellers : VisasOf(p)' \subseteq VisasOf(p)
    BY <1>1 DEF VisasOf
  <2> QED
    BY <2>1 DEF AllIssued
<1>3. doing'[h] = c /\ \A g \in IssueRequests : g # h => doing'[g] = doing[g]
  BY DEF IssueOK
<1>4. Completed'
  BY <1>2, <1>3 DEF IssueOK, Completed, outcome, rest
<1>5. DutyOK(c)'
  BY <1>1 DEF DutyOK, NotBusy, IssueOps
<1>6. VisaIssueTypeOK'
  <2>1. \A g \in IssueRequests : doing'[g].op \in IssueOps \cup {"idle"}
    BY <1>3, <1>5 DEF IssueOK, DutyOK
  <2> QED
    BY <1>1, <2>1, IssueFields DEF IssueOK, VisaIssueTypeOK, VisaRow, outcome, people, links, rest
<1>7. Audience' = Audience /\ Len(visa') >= Len(visa)
  BY <1>1, IssueFields DEF Audience, people
<1>8. \A j \in 1 .. Len(visa) :
        visa'[j].state = "replaced" => visa[j].state = "replaced" /\ visa'[j].left = visa[j].left
  BY <1>1
<1> QED
  BY <1>4, <1>5, <1>6, <1>7, <1>8, DutyMoves DEF people, links, rest

LEMMA ErasureKeeps ==
  ASSUME IssueOK, NEW h \in IssueRequests, EraseVisa(h) \/ EraseRow(h)
  PROVE  IssueOK'
<1>1. CASE EraseVisa(h)
  <2>1. PICK i \in 1 .. Len(visa) :
          /\ visa[i].state \in {"live", "replaced"}
          /\ Undertake(h, [op |-> "erase", at |-> "row", visa |-> i])
          /\ visa' = [visa EXCEPT ![i].state = IF @ = "live" THEN "emptied" ELSE "purged"]
          /\ UNCHANGED <<outcome, people, links, rest>>
    BY <1>1 DEF EraseVisa
  <2>2. PICK s : s = IF visa[i].state = "live" THEN "emptied" ELSE "purged"
    OBVIOUS
  <2>3. PICK r : r = [visa[i] EXCEPT !.state = s]
    OBVIOUS
  <2>4. visa[i] \in VisaRow /\ s \in {"purged", "emptied"} /\ (s = "emptied" => visa[i].state = "live")
    BY <2>2, IssueFields
  <2>5. r \in VisaRow /\ r.of = visa[i].of /\ r.state \in {"purged", "emptied"}
        /\ (r.state = "emptied" => visa[i].state = "live")
    BY <2>3, <2>4 DEF VisaRow
  <2>6. visa' = Marked(i, r)
    BY <2>1, <2>2, <2>3 DEF Marked
  <2>7. doing' = [doing EXCEPT ![h] = [op |-> "erase", at |-> "row", visa |-> i]] /\ ~Finishing(doing[h])
    BY <2>1, RestingDuty DEF Undertake
  <2> QED
    BY <2>1, <2>5, <2>6, <2>7, VisaErased
<1>2. CASE EraseRow(h)
  <2>1. doing[h] \in [op : {"erase"}, at : {"row"}, visa : 1 .. Len(visa)]
    BY <1>2 DEF IssueOK, DutyOK, EraseRow, OnIt
  <2>2. PICK i \in 1 .. Len(visa) : i = doing[h].visa
    BY <2>1
  <2>3. PICK r : r = [visa[i] EXCEPT !.state = "purged"]
    OBVIOUS
  <2>4. r \in VisaRow /\ r.of = visa[i].of /\ r.state = "purged"
    BY <2>3, IssueFields DEF VisaRow
  <2>5. visa' = Marked(i, r) /\ doing' = [doing EXCEPT ![h] = NotBusy] /\ ~Finishing(doing[h])
        /\ UNCHANGED <<outcome, people, links, rest>>
    BY <1>2, <2>1, <2>2, <2>3 DEF EraseRow, Goes, Finishing, Marked
  <2> QED
    BY <2>4, <2>5, VisaErased
<1> QED
  BY <1>1, <1>2


\* A corrected address leaves the audience, and is among the former ones.
LEMMA SaveEmailKeeps ==
  ASSUME IssueOK, NEW h \in IssueRequests, SaveEmail(h)
  PROVE  IssueOK'
<1>1. doing[h] \in [op : {"email"}, at : {"set"}, of : Travellers, to : Mailboxes]
  BY DEF IssueOK, DutyOK, SaveEmail
<1>2. PICK of \in Travellers, to \in Mailboxes : of = doing[h].of /\ to = doing[h].to
  BY <1>1
<1>3. /\ formerly' = formerly \cup {Plain[address[of]]} /\ address' = [address EXCEPT ![of] = to]
      /\ doing' = [doing EXCEPT ![h] = NotBusy] /\ UNCHANGED <<outcome, fate, visa, links, rest>>
  BY <1>2 DEF SaveEmail, Goes
<1>4. address' \in [Travellers -> Mailboxes] /\ formerly' \subseteq Mailboxes /\ formerly \subseteq formerly'
  BY <1>2, <1>3, IssueFields, VisaIssueAssumption
<1>5. Audience \subseteq Audience' \cup formerly'
  BY <1>2, <1>3, IssueFields DEF Audience
<1>6. DutyOK(NotBusy)' /\ ~Finishing(doing[h])
  BY <1>1 DEF DutyOK, NotBusy, IssueOps, Finishing
<1>7. doing'[h] = NotBusy /\ \A g \in IssueRequests : g # h => doing'[g] = doing[g]
  BY <1>3 DEF IssueOK
<1>8. VisaIssueTypeOK'
  <2>1. \A g \in IssueRequests : doing'[g].op \in IssueOps \cup {"idle"}
    BY <1>6, <1>7 DEF IssueOK, DutyOK
  <2> QED
    BY <1>3, <1>4, <2>1 DEF IssueOK, VisaIssueTypeOK, outcome, links, rest
<1>9. AllIssued' = AllIssued
  BY <1>3 DEF AllIssued, VisasOf
<1>10. Completed'
  BY <1>3, <1>6, <1>7, <1>9 DEF IssueOK, Completed, outcome, rest
<1>11. Len(visa') >= Len(visa)
  BY <1>3, IssueFields
<1> QED
  BY <1>3, <1>4, <1>5, <1>6, <1>8, <1>10, <1>11, DutyMoves DEF links, rest

LEMMA HourKeeps ==
  ASSUME IssueOK, HourPasses
  PROVE  IssueOK'
<1>1. hour' = hour + 1 /\ hour' \in 0 .. MaxHour /\ hour \in Nat
      /\ UNCHANGED <<outcome, people, visa, links, doing, broken, issueFaults, issueOffer>>
  BY IssueFields DEF HourPasses
<1>2. VisaIssueTypeOK'
  BY <1>1 DEF IssueOK, VisaIssueTypeOK, outcome, people, links
<1>3. Audience' = Audience
  BY <1>1 DEF Audience, people
<1>4. \A i, asked : asked \in Nat /\ AskedInTime(i, asked) => AskedInTime(i, asked)'
  BY <1>1 DEF AskedInTime
<1>5. ASSUME NEW h \in IssueRequests
      PROVE  DutyOK(doing[h])'
  <2>1. DutyOK(doing[h]) /\ doing'[h] = doing[h] /\ Audience' \cup formerly' = Audience \cup formerly
    BY <1>1, <1>3 DEF IssueOK, people
  <2>2. ASSUME doing[h].op \in {"ask", "open"}
        PROVE  AskedInTime(doing[h].visa, doing[h].asked)'
    <3>1. doing[h].asked \in Nat /\ AskedInTime(doing[h].visa, doing[h].asked)
      BY <2>1, <2>2 DEF DutyOK
    <3>2. PICK i, asked : i = doing[h].visa /\ asked = doing[h].asked
      OBVIOUS
    <3>3. AskedInTime(i, asked)'
      BY <1>4, <3>1, <3>2
    <3> QED
      BY <2>1, <3>2, <3>3
  <2> QED
    BY <1>1, <2>1, <2>2 DEF DutyOK
<1>6. FileLinksGood'
  <2>1. SUFFICES ASSUME NEW l \in fileLink
                 PROVE  l.visa <= Len(visa) /\ AskedInTime(l.visa, l.asked)'
    BY <1>1 DEF FileLinksGood, links
  <2>2. l \in [visa : 1 .. MaxVisas, until : Nat, asked : 0 .. MaxHour]
        /\ l.visa <= Len(visa) /\ AskedInTime(l.visa, l.asked)
    BY DEF IssueOK, VisaIssueTypeOK, FileLinksGood
  <2> QED
    BY <1>4, <2>2
<1>7. LettersGood'
  BY <1>1, <1>3 DEF IssueOK, LettersGood, links, people
<1>8. Completed'
  BY <1>1 DEF IssueOK, Completed, AllIssued, VisasOf, outcome
<1> QED
  BY <1>1, <1>2, <1>5, <1>6, <1>7, <1>8 DEF IssueOK

LEMMA IssueStarts == VisaIssueInit => IssueOK
<1> SUFFICES ASSUME VisaIssueInit
             PROVE  IssueOK
  OBVIOUS
<1>1. visa = << >> /\ visa \in Seq(VisaRow) /\ Len(visa) = 0
  BY EmptySeq DEF VisaIssueInit
<1>2. address \in [Travellers -> Mailboxes] /\ fate \in [Travellers -> Fates] /\ standing \in Standings
  BY VisaIssueAssumption DEF VisaIssueInit, Fates, Standings
<1>3. DOMAIN doing = IssueRequests /\ \A h \in IssueRequests : doing[h] = NotBusy
  BY DEF VisaIssueInit
<1>4. VisaIssueTypeOK
  <2>1. 0 \in 0 .. MaxHour /\ 0 \in 0 .. MaxIssueFaults /\ 0 <= MaxVisas
    BY VisaIssueAssumption
  <2> QED
    BY <1>1, <1>2, <1>3, <2>1 DEF VisaIssueInit, VisaIssueTypeOK, VisaRow, NotBusy
<1>5. ~AllIssued
  BY <1>1, VisaIssueAssumption DEF AllIssued, VisasOf
<1>6. Completed
  BY <1>5 DEF Completed, VisaIssueInit
<1> QED
  BY <1>3, <1>4, <1>6, RestingDuty DEF IssueOK, VisaIssueInit, LettersGood, FileLinksGood

LEMMA IssueIsInductive == IssueOK /\ [VisaIssueNext]_issueVars => IssueOK'
<1> SUFFICES ASSUME IssueOK, [VisaIssueNext]_issueVars
             PROVE  IssueOK'
  OBVIOUS
<1>1. CASE \E h \in IssueRequests : IssueStep(h)
  BY <1>1, CustomersDuties, OperatorsDuties, MintLinkKeeps, SignLinkKeeps, StoreFateKeeps, IssueFailureKeeps,
     DecisionsKeep, InsertVisaRowKeeps, ErasureKeeps, SaveEmailKeeps DEF IssueStep
<1>2. CASE HourPasses
  BY <1>2, HourKeeps
<1>3. CASE UNCHANGED issueVars
  <2>1. UNCHANGED <<outcome, people, visa, links, doing, rest>>
    BY <1>3 DEF issueVars
  <2>2. \A t : DutyOK(t)' <=> DutyOK(t)
    BY <2>1, SameDuties DEF people, rest
  <2>3. LettersGood' /\ FileLinksGood'
    BY <2>1 DEF IssueOK, LettersGood, FileLinksGood, AskedInTime, Audience, people, links, rest
  <2>4. Completed'
    BY <2>1 DEF IssueOK, Completed, AllIssued, VisasOf, outcome, rest
  <2>5. VisaIssueTypeOK'
    BY <2>1 DEF IssueOK, VisaIssueTypeOK, outcome, people, links, rest
  <2>6. \A h \in IssueRequests : DutyOK(doing[h])'
    <3>1. ASSUME NEW h \in IssueRequests
          PROVE  DutyOK(doing[h])'
      <4>1. PICK t : t = doing[h]
        OBVIOUS
      <4>2. DutyOK(t)'
        BY <2>2, <4>1 DEF IssueOK
      <4> QED
        BY <2>1, <4>1, <4>2
    <3> QED
      BY <3>1
  <2> QED
    BY <2>1, <2>3, <2>4, <2>5, <2>6 DEF IssueOK
<1> QED
  BY <1>1, <1>2, <1>3 DEF VisaIssueNext

LEMMA AlwaysIssueOK == VisaIssueSpec => []IssueOK
BY IssueStarts, IssueIsInductive, PTL DEF VisaIssueSpec

\* The statuses, visas, addresses and links of an application and the requests on their
\* way always have the shape the model says.
THEOREM VisaIssueTypes == VisaIssueSpec => []VisaIssueTypeOK
<1>1. IssueOK => VisaIssueTypeOK
  BY DEF IssueOK
<1> QED
  BY <1>1, AlwaysIssueOK, PTL

\* maybeTransitionApplicationToReady is enough: whoever issues the last visa, and however
\* issues, decisions and statuses overlap, an application whose applicants all have their
\* visas becomes READY_TO_DOWNLOAD once no issue is on its way, unless one was
\* interrupted or the status has been overruled.
THEOREM ReadyOnceAllAreIssued == VisaIssueSpec => []ReadyWhenAllIssued
<1>1. IssueOK => ReadyWhenAllIssued
  BY DEF IssueOK, Completed, Finishing, ReadyWhenAllIssued, Issuing
<1> QED
  BY <1>1, AlwaysIssueOK, PTL

\* A letter's link opens the booking for its address as long as it lasts unless that
\* address was corrected, and a visa that was replaced is served only through a link that
\* was asked for before it was.
THEOREM LinksStayGood == VisaIssueSpec => []LinksAreGood
<1>1. ASSUME IssueOK
      PROVE  LinksAreGood
  <2>1. \A l \in letterLink : l.until >= hour => Opens(l) \/ l.to \in formerly
    BY <1>1 DEF IssueOK, LettersGood, Opens
  <2>2. \A l \in fileLink : Serves(l) /\ visa[l.visa].state = "replaced" => l.asked <= visa[l.visa].left
    BY <1>1 DEF IssueOK, FileLinksGood, AskedInTime
  <2> QED
    BY <2>1, <2>2 DEF LinksAreGood
<1> QED
  BY <1>1, AlwaysIssueOK, PTL
=============================================================================
