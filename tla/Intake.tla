------------------------------- MODULE Intake -------------------------------
(***************************************************************************)
(* One upload in detail, from the request body to the text the worker      *)
(* reads back: _read_within_limit, validate_upload, LocalFileStorage, the  *)
(* rows and the event (app/api/routes/documents.py,                        *)
(* app/services/file_validation.py, file_storage.py), then read and        *)
(* extract_text on the worker's side.                                      *)
(*                                                                         *)
(* Uploads do not interact (file names are fresh UUIDs), so one suffices.  *)
(* A file name is the kind of its stem and its extension; content is what  *)
(* the leading bytes and a decoder make of it; size counts chunks.         *)
(* A write or a commit may fail at any point, and the process may die.     *)
(***************************************************************************)
EXTENDS Naturals

CONSTANTS
    Extensions,         \* file name extensions clients use, "" for none
    allowed_extensions, \* the configured ones
    MaxChunks,          \* max_upload_bytes, in chunks
    MaxSize             \* the largest upload tried, in chunks

ASSUME IntakeAssumption == MaxChunks \in Nat /\ MaxSize \in Nat

VARIABLES
    pc,             \* the next step of upload_document, or "done"
    upload,         \* what the client sends
    total,          \* chunks of the body read so far
    file,           \* the object at storage_path: "none", "partial" or "whole"
    row,            \* document and job are committed
    event,          \* the event is on the stream
    status,         \* the HTTP status answered, 0 for none
    text            \* what the worker made of the file

intakeVars == <<pc, upload, total, file, row, event, status, text>>

Stems == {"plain", "long", "unprintable", "missing"}
ContentTypes == {"pdf", "docx", "txt", "generic"}
Contents == {"pdf", "zip", "utf8", "cp1252", "blank"}

\* An empty body has no content to speak of.
Uploads == {u \in [stem : Stems, extension : Extensions, content_type : ContentTypes,
                   content : Contents, size : 0 .. MaxSize] :
              u.size = 0 => u.content = "blank"}

-----------------------------------------------------------------------------
(* validate_upload.                                                        *)

\* sanitize_filename as far as the extension goes: shortening a long name
\* keeps it, and when nothing of the stem is left the leading dot is stripped.
sanitize_filename(u) ==
    IF u.stem \in {"unprintable", "missing"} THEN "" ELSE u.extension

EXTENSION_CONTENT_TYPES == [e \in Extensions |->
    CASE e = ".pdf" -> {"pdf"} [] e = ".txt" -> {"txt"} [] e = ".docx" -> {"docx"}
      [] OTHER -> {}]

validate_content_type(e, u) ==
    u.content_type = "generic" \/ u.content_type \in EXTENSION_CONTENT_TYPES[e]

\* Faulty: the leading bytes are not looked at.
TrustsTheClient(e, u) == TRUE

\* An extension without a signature is not checked at all.
validate_magic_bytes(e, u) == CASE e = ".txt"  -> u.content \in {"utf8", "blank"}
                                [] e = ".pdf"  -> u.content = "pdf"
                                [] e = ".docx" -> u.content = "zip"
                                [] OTHER       -> TRUE

validate_upload(u) ==
    LET e == sanitize_filename(u)
    IN  /\ e # "" /\ e \in allowed_extensions
        /\ validate_content_type(e, u)
        /\ u.size > 0 /\ u.size <= MaxChunks
        /\ validate_magic_bytes(e, u)

-----------------------------------------------------------------------------
Init == /\ pc = "read"
        /\ upload \in Uploads
        /\ total = 0
        /\ file = "none" /\ row = FALSE /\ event = FALSE
        /\ status = 0
        /\ text = "none"

Respond(code) == pc' = "done" /\ status' = code

\* _read_within_limit: the chunk is counted before it is kept.
ReadChunk ==
    /\ pc = "read" /\ total < upload.size
    /\ total' = total + 1
    /\ IF total' > MaxChunks THEN Respond(413) ELSE UNCHANGED <<pc, status>>
    /\ UNCHANGED <<upload, file, row, event, text>>

\* The chunks are joined and checked.
Validate ==
    /\ pc = "read" /\ total = upload.size
    /\ IF validate_upload(upload)
       THEN pc' = "save" /\ UNCHANGED status
       ELSE Respond(415)
    /\ UNCHANGED <<upload, total, file, row, event, text>>

\* _write_bytes: the file exists before all its bytes do.
SaveBegins ==
    /\ pc = "save" /\ file = "none"
    /\ file' = "partial"
    /\ UNCHANGED <<pc, upload, total, row, event, status, text>>

\* Faulty: the rows are committed while the file is being written.
SavedInBackground ==
    /\ pc = "save" /\ file = "partial"
    /\ file' \in {"partial", "whole"}
    /\ pc' = "create"
    /\ UNCHANGED <<upload, total, row, event, status, text>>

SaveEnds ==
    /\ pc = "save" /\ file = "partial"
    /\ file' = "whole"
    /\ pc' = "create"
    /\ UNCHANGED <<upload, total, row, event, status, text>>

\* StorageError: what was written stays on the disk.
SaveRaises ==
    /\ pc = "save"
    /\ Respond(503)
    /\ UNCHANGED <<upload, total, file, row, event, text>>

\* Faulty: the event is sent in the same breath as the insert.
PublishesUncommitted ==
    /\ pc = "create"
    /\ row' \in BOOLEAN
    /\ event' = TRUE
    /\ pc' = "publish"
    /\ UNCHANGED <<upload, total, file, status, text>>

Create ==
    /\ pc = "create"
    /\ row' = TRUE
    /\ pc' = "publish"
    /\ UNCHANGED <<upload, total, file, event, status, text>>

CreateRaises ==
    /\ pc = "create"
    /\ row' \in BOOLEAN
    /\ Respond(500)
    /\ UNCHANGED <<upload, total, file, event, text>>

Publish ==
    /\ pc = "publish"
    /\ event' = TRUE
    /\ Respond(202)
    /\ UNCHANGED <<upload, total, file, row, text>>

\* QueueError: the job is failed, and the entry may have arrived all the same.
PublishRaises ==
    /\ pc = "publish"
    /\ event' \in BOOLEAN
    /\ Respond(503)
    /\ UNCHANGED <<upload, total, file, row, text>>

ApiCrash ==
    /\ pc # "done"
    /\ pc' = "done"
    /\ UNCHANGED <<upload, total, file, row, event, status, text>>

\* Faulty: the .docx extractor is not registered.
NoDocxExtractor == {".pdf", ".txt"}

\* The worker's side of the event: LocalFileStorage.read and extract_text.
EXTRACTORS == {".pdf", ".docx", ".txt"}

\* What extracting the text may come to.  The signature of a PDF or DOCX file
\* says nothing of the rest: it may not parse, or have no text layer.
extract_text(e, u) ==
    IF e \notin EXTRACTORS THEN {"UnsupportedFileTypeError"}
    ELSE IF u.content = "blank" THEN {"EmptyDocumentError"}
    ELSE IF e = ".txt" THEN {"text"}
    ELSE {"text", "EmptyDocumentError", "TextExtractionError"}

WorkerReads ==
    /\ event /\ row /\ text = "none"
    /\ text' \in CASE file = "none"    -> {"StoragePathError"}
                   [] file = "partial" -> {"part of the text", "TextExtractionError"}
                   [] OTHER -> extract_text(sanitize_filename(upload), upload)
    /\ UNCHANGED <<pc, upload, total, file, row, event, status>>

Next == \/ ReadChunk \/ Validate \/ SaveBegins \/ SaveEnds \/ SaveRaises
        \/ Create \/ CreateRaises \/ Publish \/ PublishRaises
        \/ ApiCrash \/ WorkerReads

Spec == Init /\ [][Next]_intakeVars

-----------------------------------------------------------------------------
\* A committed job always has its whole file to read, whatever failed or died
\* on the way (the docstring of upload_document).
RowHasFile == row => file = "whole"

\* An event never references a job that does not exist (same docstring).
EventHasRow == event => row

\* Content that is not what its extension claims never touches the disk.
OnlyGenuineIsStored ==
    file # "none" => CASE upload.extension = ".pdf"  -> upload.content = "pdf"
                       [] upload.extension = ".docx" -> upload.content = "zip"
                       [] OTHER                      -> upload.content \in {"utf8", "blank"}

\* What the API accepted fails in the worker only for what no signature can
\* tell: never for its type, a lost file, or a file not written to its end.
AcceptedIsReadable ==
    text \notin {"UnsupportedFileTypeError", "StoragePathError", "part of the text"}
=============================================================================
