---------------------------- MODULE IntakeProofs ----------------------------
(***************************************************************************)
(* Proofs about Intake: what an upload leaves behind, for every set of     *)
(* extensions, every limit and every size, whichever step fails and        *)
(* wherever the API process dies.                                          *)
(***************************************************************************)
EXTENDS Intake, TLAPS

\* Every configured extension has an extractor in the worker, as the shipped
\* ALLOWED_UPLOAD_EXTENSIONS has.  Settings does not enforce it.
EveryAllowedIsParsed == allowed_extensions \subseteq EXTRACTORS

IntakeTypeOK ==
    /\ pc \in {"read", "save", "create", "publish", "done"}
    /\ upload \in Uploads
    /\ total \in Nat
    /\ file \in {"none", "partial", "whole"}
    /\ row \in BOOLEAN
    /\ event \in BOOLEAN

\* The steps come in the order of the code: validated, saved, committed,
\* published with the last step.
Validated == (pc \in {"save", "create", "publish"} \/ file # "none") => validate_upload(upload)
Saved     == pc \in {"create", "publish"} => file = "whole"
Committed == pc = "publish" => row
Answered  == event => pc = "done"

\* What the worker made of the file it made of a whole and validated one.
ReadOnce ==
    /\ text \in {"none", "text", "EmptyDocumentError", "TextExtractionError",
                 "UnsupportedFileTypeError"}
    /\ text = "UnsupportedFileTypeError" =>
         event /\ sanitize_filename(upload) \notin EXTRACTORS

IntakeInv == /\ IntakeTypeOK
             /\ Validated /\ Saved /\ Committed /\ Answered /\ ReadOnce
             /\ RowHasFile /\ EventHasRow

-----------------------------------------------------------------------------
\* An upload that passes validate_upload is named with the extension it is
\* checked and later parsed by.
LEMMA AcceptedExtension ==
    ASSUME NEW u, validate_upload(u)
    PROVE  /\ sanitize_filename(u) = u.extension
           /\ u.extension \in allowed_extensions
           /\ validate_magic_bytes(u.extension, u)
BY DEF validate_upload, sanitize_filename

\* Before the first chunk nothing is stored, committed or published.
LEMMA IntakeInitial == Init => IntakeInv
<1> SUFFICES ASSUME Init PROVE IntakeInv
  OBVIOUS
<1>1. IntakeTypeOK
  BY DEF Init, IntakeTypeOK
<1> QED BY <1>1 DEF Init, IntakeInv, Validated, Saved, Committed, Answered, ReadOnce,
    RowHasFile, EventHasRow

\* Every step of upload_document, the death of the API and the worker's
\* reading keep the order of validation, file, rows and event.
LEMMA IntakeStep == IntakeInv /\ [Next]_intakeVars => IntakeInv'
<1> SUFFICES ASSUME IntakeInv, [Next]_intakeVars PROVE IntakeInv'
  OBVIOUS
<1> USE IntakeAssumption
<1> USE DEF IntakeInv, IntakeTypeOK, Validated, Saved, Committed, Answered, ReadOnce,
    RowHasFile, EventHasRow, Respond
<1>1. CASE ReadChunk
  <2>1. upload.size \in Nat
    BY DEF Uploads
  <2> QED BY <1>1, <2>1 DEF ReadChunk
<1>2. CASE Validate
  BY <1>2 DEF Validate
<1>3. CASE SaveBegins
  BY <1>3 DEF SaveBegins
<1>4. CASE SaveEnds
  BY <1>4 DEF SaveEnds
<1>5. CASE SaveRaises
  BY <1>5 DEF SaveRaises
<1>6. CASE Create
  BY <1>6 DEF Create
<1>7. CASE CreateRaises
  BY <1>7 DEF CreateRaises
<1>8. CASE Publish
  BY <1>8 DEF Publish
<1>9. CASE PublishRaises
  BY <1>9 DEF PublishRaises
<1>10. CASE ApiCrash
  BY <1>10 DEF ApiCrash
<1>11. CASE WorkerReads
  <2>1. file = "whole"
    BY <1>11 DEF WorkerReads
  <2>2. text' \in extract_text(sanitize_filename(upload), upload)
    BY <1>11, <2>1 DEF WorkerReads
  <2>3. ReadOnce'
    BY <1>11, <2>2 DEF WorkerReads, extract_text, sanitize_filename
  <2> QED BY <1>11, <2>3 DEF WorkerReads
<1>12. CASE UNCHANGED intakeVars
  BY <1>12 DEF intakeVars
<1> QED BY <1>1, <1>2, <1>3, <1>4, <1>5, <1>6, <1>7, <1>8, <1>9, <1>10, <1>11, <1>12 DEF Next

\* The inductive invariant of the upload holds throughout.
THEOREM IntakeInvariant == Spec => []IntakeInv
<1>1. Init => IntakeInv
  BY IntakeInitial
<1>2. IntakeInv /\ [Next]_intakeVars => IntakeInv'
  BY IntakeStep
<1> QED BY <1>1, <1>2, PTL DEF Spec

-----------------------------------------------------------------------------
\* A committed job has its whole file to read, for every failure and crash
\* between the steps of upload_document.
THEOREM CommittedHasFile == Spec => []RowHasFile
<1>1. IntakeInv => RowHasFile
  BY DEF IntakeInv
<1> QED BY <1>1, IntakeInvariant, PTL

\* No event on the stream references a job that was never committed.
THEOREM PublishedIsCommitted == Spec => []EventHasRow
<1>1. IntakeInv => EventHasRow
  BY DEF IntakeInv
<1> QED BY <1>1, IntakeInvariant, PTL

\* With the extensions the worker can parse, nothing is written to the
\* storage but what validate_magic_bytes took for what its name claims.
THEOREM StoredIsGenuine ==
    ASSUME EveryAllowedIsParsed
    PROVE  Spec => []OnlyGenuineIsStored
<1>1. IntakeInv => OnlyGenuineIsStored
  <2> SUFFICES ASSUME IntakeInv, file # "none" PROVE OnlyGenuineIsStored
    BY DEF OnlyGenuineIsStored
  <2>1. validate_upload(upload)
    BY DEF IntakeInv, Validated
  <2>2. /\ upload.extension \in EXTRACTORS
        /\ validate_magic_bytes(upload.extension, upload)
    BY <2>1, AcceptedExtension, EveryAllowedIsParsed DEF EveryAllowedIsParsed
  <2> QED BY <2>2 DEF OnlyGenuineIsStored, validate_magic_bytes, EXTRACTORS
<1> QED BY <1>1, IntakeInvariant, PTL

\* With the extensions the worker can parse, a job it was given never fails
\* for its type, a missing file or a truncated one.
THEOREM AcceptedCanBeRead ==
    ASSUME EveryAllowedIsParsed
    PROVE  Spec => []AcceptedIsReadable
<1>1. IntakeInv => AcceptedIsReadable
  <2> SUFFICES ASSUME IntakeInv, text = "UnsupportedFileTypeError" PROVE FALSE
    BY DEF IntakeInv, ReadOnce, AcceptedIsReadable
  <2>1. validate_upload(upload)
    BY DEF IntakeInv, ReadOnce, EventHasRow, RowHasFile, Validated
  <2>2. sanitize_filename(upload) \in EXTRACTORS
    BY <2>1, AcceptedExtension, EveryAllowedIsParsed DEF EveryAllowedIsParsed
  <2> QED BY <2>2 DEF IntakeInv, ReadOnce
<1> QED BY <1>1, IntakeInvariant, PTL
=============================================================================
