------------------------------ MODULE Attempt ------------------------------
(***************************************************************************)
(* One attempt in detail: DocumentProcessor._run with the provider behind  *)
(* it (app/llm) and the classification of what goes wrong                  *)
(* (app/core/exceptions.py, app/worker/retry_policy.py).                   *)
(*                                                                         *)
(* An attempt reads the file, extracts its text, classifies the document   *)
(* unless the client named its type, extracts the record, and commits.     *)
(* The OpenAI provider calls the model once for each of the two, and once  *)
(* more when the answer is unusable; the fake provider answers in process. *)
(* calls is the log of what was sent to the model.  A tick passes only     *)
(* while a call is outstanding; everything else is short.  The client's    *)
(* timeout is httpx's: it cuts off one network operation of the call (to   *)
(* connect, to write the request, each read of the reply), never the call  *)
(* as a whole.  Each operation may take Timeout ticks, and how many there  *)
(* are is up to the network and the provider.                              *)
(***************************************************************************)
EXTENDS Naturals, Sequences

CONSTANTS
    Timeout,        \* llm_timeout_seconds, in ticks
    Operations      \* the most network operations one call takes; no setting bounds it

ASSUME AttemptAssumption == Timeout \in Nat /\ Operations \in Nat \ {0}

VARIABLES
    pc,             \* "read", "text", "classify", "extract", "persist", "done" or "failed"
    provider,       \* llm_provider: "openai" or "fake"
    declared,       \* the document type the client named, or "none"
    hints,          \* the types whose keywords occur in the text
    type,           \* what _resolve_type returned, or "none"
    calls,          \* the calls made to the model, with their replies
    output,         \* the ExtractionOutput, or NoOutput
    operation,      \* network operations of the outstanding call that are over
    waited,         \* ticks since the current one began
    elapsed,        \* ticks since the attempt started
    failure         \* the exception that ended the attempt

document == <<provider, declared, hints>>
clock == <<operation, waited>>
attemptVars == <<pc, document, type, calls, output, clock, elapsed, failure>>

-----------------------------------------------------------------------------
(* Exceptions.                                                             *)

\* The subclasses of AppError with retryable = True that _run can meet.
RETRYABLE == {"StorageError", "LLMRateLimitError", "LLMTimeoutError", "LLMProviderError"}

\* RETRYABLE_EXCEPTIONS: DBAPIError is the base class of all the others.
RETRYABLE_EXCEPTIONS == {"OperationalError", "DBAPIError"}

is_retryable(error) == error \in RETRYABLE \cup RETRYABLE_EXCEPTIONS

PERMANENT == {"StoragePathError", "UnsupportedFileTypeError", "TextExtractionError",
              "EmptyDocumentError", "LLMAuthenticationError", "LLMResponseValidationError",
              "InvalidJobTransitionError", "unrecognised"}

Exceptions == RETRYABLE \cup RETRYABLE_EXCEPTIONS \cup PERMANENT

\* openai.APIError by what _map_openai_error tells apart, and the rejected
\* request it does not.
SdkErrors == {"rate limit", "timeout", "credentials", "connection", "server", "bad request"}

map_openai_error(e) == CASE e = "rate limit"  -> "LLMRateLimitError"
                         [] e = "timeout"     -> "LLMTimeoutError"
                         [] e = "credentials" -> "LLMAuthenticationError"
                         [] OTHER             -> "LLMProviderError"

\* LengthFinishReasonError and ContentFilterFinishReasonError.
Stopped == "stopped early"

\* pydantic's ValidationError from inside the SDK, which _complete does not catch.
Mismatch == "mismatch"

Replies == SdkErrors \cup {Stopped, Mismatch, "usable", "unusable", "outstanding"}

-----------------------------------------------------------------------------
(* Document types, schemas and answers.                                    *)

DocumentType == {"invoice", "resume", "support_ticket", "generic"}

SCHEMA_REGISTRY == [t \in DocumentType |->
                      CASE t = "invoice"        -> "InvoiceExtraction"
                        [] t = "resume"         -> "ResumeExtraction"
                        [] t = "support_ticket" -> "SupportTicketExtraction"
                        [] t = "generic"        -> "GenericDocumentExtraction"]

Schemas == {SCHEMA_REGISTRY[t] : t \in DocumentType} \cup {"DocumentClassification"}

\* What the model may say: a complete object of some schema with its confidence
\* in percent, or "neither": a refusal, prose, no choice, a missing field.
Answers == [shape : Schemas \cup {"neither"}, confidence : {0, 75, 100, 101}]

\* Faulty: whatever parses as JSON will do.
AcceptsAnyObject(answer, schema) == answer.shape # "neither"

\* Every field of the schema is required and the confidence is in 0 .. 1.
Accepts(answer, schema) == answer.shape = schema /\ answer.confidence \in 0 .. 100

response_format == IF pc = "classify" THEN "DocumentClassification" ELSE SCHEMA_REGISTRY[type]

Output(t, answer) == [document_type |-> t, data |-> answer]
NoOutput == [document_type |-> "none", data |-> [shape |-> "neither", confidence |-> 0]]

-----------------------------------------------------------------------------
\* What the text suggests is the model's business unless the provider is the fake.
Init == /\ pc = "read"
        /\ provider \in {"openai", "fake"}
        /\ declared \in DocumentType \cup {"none"}
        /\ hints \in SUBSET (DocumentType \ {"generic"})
        /\ provider = "openai" => hints = {}
        /\ type = "none"
        /\ calls = << >>
        /\ output = NoOutput
        /\ operation = 0
        /\ waited = 0
        /\ elapsed = 0
        /\ failure = "none"

Raise(error) == pc' = "failed" /\ failure' = error

\* LocalFileStorage.read.
Read == /\ pc = "read"
        /\ \/ pc' = "text" /\ UNCHANGED failure
           \/ \E e \in {"StorageError", "StoragePathError"} : Raise(e)
        /\ UNCHANGED <<document, type, calls, output, clock, elapsed>>

Call(op) == [op |-> op, reply |-> "outstanding"]

\* A new call begins with a new operation.
Restart == operation' = 0 /\ waited' = 0

Send(op) == IF provider = "openai"
            THEN calls' = Append(calls, Call(op)) /\ Restart
            ELSE UNCHANGED <<calls, clock>>

\* extract_text and the decision of _resolve_type.  A parser may also raise
\* what its wrapper does not list.
ExtractText ==
    /\ pc = "text"
    /\ \/ LET op == IF declared = "none" THEN "classify" ELSE "extract"
          IN  Send(op) /\ pc' = op /\ type' = declared /\ UNCHANGED failure
       \/ /\ \E e \in {"UnsupportedFileTypeError", "TextExtractionError",
                       "EmptyDocumentError", "unrecognised"} : Raise(e)
          /\ UNCHANGED <<type, calls, clock>>
    /\ UNCHANGED <<document, output, elapsed>>

-----------------------------------------------------------------------------
(* OpenAIProvider.                                                         *)

Calling == provider = "openai" /\ pc \in {"classify", "extract"}

Answered(reply) == [calls EXCEPT ![Len(calls)].reply = reply]

\* A classification _parsed_model accepts; the extraction follows.
Classified ==
    /\ Calling /\ pc = "classify"
    /\ \E answer \in Answers : Accepts(answer, response_format)
    /\ type' \in DocumentType
    /\ calls' = Append(Answered("usable"), Call("extract"))
    /\ Restart
    /\ pc' = "extract"
    /\ UNCHANGED <<document, output, elapsed, failure>>

\* A record _parsed_model accepts.
Extracted ==
    /\ Calling /\ pc = "extract"
    /\ \E answer \in Answers : /\ Accepts(answer, response_format)
                               /\ output' = Output(type, answer)
    /\ calls' = Answered("usable")
    /\ pc' = "persist"
    /\ UNCHANGED <<document, type, clock, elapsed, failure>>

\* The outstanding call is the repair of an earlier one.
IsRepair == Len(calls) > 1 /\ calls[Len(calls) - 1].op = pc

\* Faulty: repaired until the model obeys.
RepairForever ==
    /\ Calling
    /\ calls' = Append(Answered("unusable"), Call(pc))
    /\ Restart
    /\ UNCHANGED <<pc, failure, document, type, output, elapsed>>

\* No choices, a refusal, or content the schema rejects.
Unusable ==
    /\ Calling
    /\ \E answer \in Answers : ~Accepts(answer, response_format)
    /\ IF IsRepair
       THEN /\ calls' = Answered("unusable")
            /\ Raise("LLMResponseValidationError")
            /\ UNCHANGED clock
       ELSE /\ calls' = Append(Answered("unusable"), Call(pc))
            /\ Restart
            /\ UNCHANGED <<pc, failure>>
    /\ UNCHANGED <<document, type, output, elapsed>>

\* Faulty: the SDK tries a failed call once more before giving up.
SdkRetries ==
    /\ Calling
    /\ \E e \in SdkErrors :
         IF IsRepair
         THEN calls' = Answered(e) /\ Raise(map_openai_error(e)) /\ UNCHANGED clock
         ELSE /\ calls' = Append(Answered(e), Call(pc))
              /\ Restart
              /\ UNCHANGED <<pc, failure>>
    /\ UNCHANGED <<document, type, output, elapsed>>

\* The SDK raises its timeout when an operation has taken Timeout.
CompleteRaises ==
    /\ Calling
    /\ \/ \E e \in SdkErrors : /\ e = "timeout" => waited = Timeout
                               /\ calls' = Answered(e)
                               /\ Raise(map_openai_error(e))
       \/ calls' = Answered(Stopped) /\ Raise("LLMResponseValidationError")
       \/ calls' = Answered(Mismatch) /\ Raise("unrecognised")
    /\ UNCHANGED <<document, type, output, clock, elapsed>>

\* The reply is not complete, but the connection stands, the request is sent,
\* or another piece of the reply has arrived: the timeout starts anew.
OperationEnds == /\ Calling
                 /\ operation < Operations - 1
                 /\ operation' = operation + 1
                 /\ waited' = 0
                 /\ UNCHANGED <<pc, document, type, calls, output, elapsed, failure>>

\* Faulty: the client is built without a timeout.
NoClientTimeout == /\ Calling
                   /\ waited' = waited + 1
                   /\ elapsed' = elapsed + 1
                   /\ UNCHANGED <<pc, document, type, calls, output, operation, failure>>

Tick == /\ Calling
        /\ waited < Timeout
        /\ waited' = waited + 1
        /\ elapsed' = elapsed + 1
        /\ UNCHANGED <<pc, document, type, calls, output, operation, failure>>

-----------------------------------------------------------------------------
(* FakeLLMProvider.                                                        *)

\* The first type, in the order of _TYPE_HINTS, with a keyword in the sample.
guess_type(found) == CASE "invoice" \in found        -> "invoice"
                       [] "resume" \in found         -> "resume"
                       [] "support_ticket" \in found -> "support_ticket"
                       [] OTHER                      -> "generic"

\* The sample is cut to classification_max_chars and may miss a keyword.
FakeClassify ==
    /\ provider = "fake" /\ pc = "classify"
    /\ \E found \in SUBSET hints : type' = guess_type(found)
    /\ pc' = "extract"
    /\ UNCHANGED <<document, calls, output, clock, elapsed, failure>>

\* _find_after raises IndexError when nothing follows "vendor:" in the text.
FakeExtract ==
    /\ provider = "fake" /\ pc = "extract"
    /\ \/ LET payload == [shape |-> SCHEMA_REGISTRY[type], confidence |-> 75]
          IN  /\ Accepts(payload, response_format)
              /\ output' = Output(type, payload)
              /\ pc' = "persist"
              /\ UNCHANGED failure
       \/ /\ type = "invoice" /\ "invoice" \in hints
          /\ Raise("unrecognised")
          /\ UNCHANGED output
    /\ UNCHANGED <<document, type, calls, clock, elapsed>>

-----------------------------------------------------------------------------
\* _persist: committed, a driver error, a refused transition, or a result found
\* already stored: the handler of that last case reads job.id, which its own
\* rollback has expired, and what this raises nothing recognises.
Persist == /\ pc = "persist"
           /\ \/ pc' = "done" /\ UNCHANGED failure
              \/ \E e \in RETRYABLE_EXCEPTIONS \cup
                          {"InvalidJobTransitionError", "unrecognised"} : Raise(e)
           /\ UNCHANGED <<document, type, calls, output, clock, elapsed>>

Next == \/ Read \/ ExtractText
        \/ Classified \/ Extracted \/ Unusable \/ CompleteRaises
        \/ OperationEnds \/ Tick
        \/ FakeClassify \/ FakeExtract
        \/ Persist

\* The event loop resumes the task; a reply has finitely many pieces, and the
\* SDK's timeout ends the wait for each.
Spec == Init /\ [][Next]_attemptVars /\ WF_attemptVars(Next)

-----------------------------------------------------------------------------
AttemptTypeOK ==
    /\ pc \in {"read", "text", "classify", "extract", "persist", "done", "failed"}
    /\ provider \in {"openai", "fake"}
    /\ declared \in DocumentType \cup {"none"}
    /\ hints \in SUBSET DocumentType
    /\ type \in DocumentType \cup {"none"}
    /\ calls \in Seq([op : {"classify", "extract"}, reply : Replies])
    /\ output \in [document_type : DocumentType \cup {"none"}, data : Answers]
    /\ operation \in 0 .. Operations - 1
    /\ waited \in 0 .. Timeout
    /\ elapsed \in Nat
    /\ failure \in Exceptions \cup {"none"}

\* The model is asked again only because its answer was unusable, and at most
\* once per operation; a transport failure is left to the worker's delayed
\* retry (the docstring of _parse and max_retries=0).
RepairOnlyUnusable ==
    /\ \A i \in 1 .. Len(calls) - 1 :
         calls[i].op = calls[i + 1].op => calls[i].reply = "unusable"
    /\ \A i, j, k \in 1 .. Len(calls) :
         i < j /\ j < k => calls[i].op # calls[j].op \/ calls[j].op # calls[k].op

\* Whatever the model answers, first or repaired, and whichever provider is
\* configured, the stored record has the shape and the confidence its
\* detected_document_type promises to readers of extracted_data, and a type the
\* client named is the detected one.
StoredFitsType ==
    pc = "done" => /\ output.document_type \in DocumentType
                   /\ declared # "none" => output.document_type = declared
                   /\ output.data.shape = SCHEMA_REGISTRY[output.document_type]
                   /\ output.data.confidence <= 100

\* The longest a call can take.  llm_timeout_seconds is one of its factors only.
CallTime == Operations * Timeout

\* The attempt does what Worker assumes of the "work" stage: it always ends, in
\* a record that is ready to commit or a classified error, after at most a
\* classification and an extraction, each repaired once.  MaxWork is the time
\* of those four calls, however many times the timeout started anew in each.
Stage == INSTANCE WorkStage WITH
             MaxWork <- 4 * CallTime,
             stage <- CASE pc = "done" -> "succeeded" [] pc = "failed" -> "failed"
                        [] OTHER -> "work",
             error <- IF pc # "failed" THEN "null"
                      ELSE IF is_retryable(failure) THEN "transient" ELSE "permanent",
             age   <- elapsed

ImplementsWorkStage == Stage!Spec
=============================================================================
