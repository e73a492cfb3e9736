SPECIFICATION Spec
CONSTANTS
    Extensions = {".pdf", ".txt", ".docx", ".exe", ""}
    allowed_extensions = {".pdf", ".txt", ".docx"}
    MaxChunks = 2
    MaxSize = 4
CHECK_DEADLOCK FALSE
INVARIANTS
    RowHasFile
    EventHasRow
    OnlyGenuineIsStored
    AcceptedIsReadable
