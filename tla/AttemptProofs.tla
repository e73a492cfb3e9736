--------------------------- MODULE AttemptProofs ---------------------------
(***************************************************************************)
(* Proofs about Attempt, for every llm_timeout_seconds and every number of *)
(* network operations a call may take: what is asked of the model, how     *)
(* long that can take, what is stored, and that an attempt is the "work"   *)
(* stage that Worker takes it for.                                         *)
(***************************************************************************)
EXTENDS Attempt, SequenceTheorems, TLAPS

-----------------------------------------------------------------------------
(* The inductive invariant.                                                *)

\* Nothing is asked before the text is there, and never by the fake provider.
Unasked == pc \in {"read", "text"} \/ provider = "fake" => calls = << >>

\* The call the attempt waits for is the last one, for the operation it is at.
LastIsCurrent == Calling => Len(calls) > 0 /\ calls[Len(calls)].op = pc

\* No classification follows an extraction.
Ordered == \A i \in 1 .. Len(calls) - 1 :
              calls[i].op = "extract" => calls[i + 1].op = "extract"

\* No operation is called three times in a row.
RepairedOnce == \A i \in 1 .. Len(calls) - 2 : calls[i].op # calls[i + 2].op

\* Asked again for the same operation only after an unusable answer.
RepairsUnusable == \A i \in 1 .. Len(calls) - 1 :
                      calls[i].op = calls[i + 1].op => calls[i].reply = "unusable"

\* The time the outstanding call may have taken: the operations that are over
\* took at most Timeout each.
Spent == operation * Timeout + waited

\* Every call but the last took at most CallTime, the last one Spent.
Elapsed == IF calls = << >> THEN elapsed = 0
           ELSE elapsed <= (Len(calls) - 1) * CallTime + Spent

\* The type is settled before the extraction, and the client's is kept.
TypeSettled ==
    /\ pc = "classify" => declared = "none"
    /\ pc = "extract" => type \in DocumentType /\ (declared # "none" => type = declared)

\* What is handed to _persist fits the type already.
ReadyFits ==
    pc \in {"persist", "done"} =>
        /\ output.document_type \in DocumentType
        /\ declared # "none" => output.document_type = declared
        /\ output.data.shape = SCHEMA_REGISTRY[output.document_type]
        /\ output.data.confidence <= 100

CallsInv == LastIsCurrent /\ Ordered /\ RepairedOnce /\ RepairsUnusable

AttemptInv == AttemptTypeOK /\ Unasked /\ CallsInv /\ Elapsed /\ TypeSettled /\ ReadyFits

-----------------------------------------------------------------------------
\* The log of calls: its type, and what Append and Answered do to it.
CallRecord == [op : {"classify", "extract"}, reply : Replies]
CallLog == Seq(CallRecord)

\* Recording the reply to the last call changes that reply and nothing else.
LEMMA AnsweredLog ==
    ASSUME calls \in CallLog, Len(calls) > 0, NEW r \in Replies
    PROVE  /\ Answered(r) \in CallLog
           /\ Len(Answered(r)) = Len(calls)
           /\ \A i \in 1 .. Len(calls) : Answered(r)[i].op = calls[i].op
           /\ \A i \in 1 .. Len(calls) - 1 : Answered(r)[i] = calls[i]
           /\ Answered(r)[Len(calls)].reply = r
<1> DEFINE n == Len(calls)
           last == [calls[n] EXCEPT !.reply = r]
<1>1. n \in Nat /\ n \in 1 .. Len(calls)
  BY LenProperties DEF CallLog
<1>2. calls[n] \in CallRecord
  BY <1>1, ElementOfSeq DEF CallLog
<1>3. last \in CallRecord /\ last.op = calls[n].op /\ last.reply = r
  BY <1>2 DEF CallRecord
<1>4. Answered(r) = [calls EXCEPT ![n] = last]
  BY DEF Answered
<1> HIDE DEF last
<1>5. /\ Answered(r) \in Seq(CallRecord)
      /\ Len(Answered(r)) = n
      /\ \A j \in 1 .. n : Answered(r)[j] = IF j = n THEN last ELSE calls[j]
  BY <1>1, <1>3, <1>4, ExceptSeq DEF CallLog
<1> QED BY <1>1, <1>3, <1>5 DEF CallLog

\* Sending another call leaves the earlier ones as they are.
LEMMA AppendLog ==
    ASSUME NEW s \in CallLog, NEW op \in {"classify", "extract"}
    PROVE  /\ Append(s, Call(op)) \in CallLog
           /\ Len(Append(s, Call(op))) = Len(s) + 1
           /\ \A i \in 1 .. Len(s) : Append(s, Call(op))[i] = s[i]
           /\ Append(s, Call(op))[Len(s) + 1] = Call(op)
           /\ Append(s, Call(op)) # << >>
BY DEF CallLog, CallRecord, Call, Replies

\* A classification and an extraction, each repaired at most once, are at
\* most four calls.
LEMMA FourCalls ==
    ASSUME calls \in CallLog, Ordered, RepairedOnce
    PROVE  Len(calls) <= 4
<1> SUFFICES ASSUME Len(calls) > 4 PROVE FALSE
  BY DEF CallLog
<1>1. Len(calls) \in Nat
  BY DEF CallLog
<1>2. calls[1].op # calls[3].op /\ calls[3].op # calls[5].op
  BY <1>1 DEF RepairedOnce
<1>3. \A i \in {1, 2, 3, 4} : calls[i].op = "extract" => calls[i + 1].op = "extract"
  BY <1>1 DEF Ordered
<1>4. \A i \in 1 .. Len(calls) : calls[i] \in CallRecord
  BY ElementOfSeq DEF CallLog
<1>5. \A i \in {1, 3, 5} : calls[i].op \in {"classify", "extract"}
  BY <1>1, <1>4 DEF CallRecord
<1> QED BY <1>2, <1>3, <1>5

\* The operations of a call fit into CallTime, one more tick at a time, and
\* the end of an operation gives no time back.
LEMMA SpentInTime ==
    ASSUME operation \in 0 .. Operations - 1, waited \in 0 .. Timeout
    PROVE  /\ CallTime \in Nat
           /\ Spent \in Nat /\ Spent <= CallTime
           /\ waited < Timeout => Spent + 1 <= CallTime
           /\ Spent <= (operation + 1) * Timeout
<1>1. Timeout \in Nat /\ Operations \in Nat /\ operation \in Nat /\ waited \in Nat
  BY AttemptAssumption
<1>2. PICK rest \in Nat : Operations = (operation + 1) + rest
  <2>1. Operations - (operation + 1) \in Nat
    BY <1>1
  <2> QED BY <1>1, <2>1
<1>3. CallTime = (operation + 1) * Timeout + rest * Timeout
  BY <1>1, <1>2 DEF CallTime
<1>4. (operation + 1) * Timeout = operation * Timeout + Timeout
  BY <1>1
<1>5. operation * Timeout \in Nat /\ rest * Timeout \in Nat
  BY <1>1, <1>2
<1> QED BY <1>1, <1>3, <1>4, <1>5 DEF Spent

\* k calls of at most CallTime each.
LEMMA CallBudget ==
    ASSUME NEW n \in Nat, n > 0, n <= 4
    PROVE  /\ (n - 1) * CallTime + CallTime = n * CallTime
           /\ n * CallTime <= 4 * CallTime
           /\ (n - 1) * CallTime \in Nat
<1>1. n \in {1, 2, 3, 4}
  OBVIOUS
<1>2. CallTime \in Nat
  BY AttemptAssumption DEF CallTime
<1> QED BY <1>1, <1>2

-----------------------------------------------------------------------------
LogInv == Ordered /\ RepairedOnce /\ RepairsUnusable

\* A reply that ends an operation keeps the order of the log.
LEMMA EndingKeepsLog ==
    ASSUME calls \in CallLog, Len(calls) > 0, LogInv, NEW r \in Replies,
           calls' = Answered(r)
    PROVE  calls' \in CallLog /\ Len(calls') = Len(calls) /\ LogInv'
<1>1. /\ calls' \in CallLog
      /\ Len(calls') = Len(calls) /\ Len(calls) \in Nat
      /\ \A i \in 1 .. Len(calls) : calls'[i].op = calls[i].op
      /\ \A i \in 1 .. Len(calls) - 1 : calls'[i] = calls[i]
  BY AnsweredLog, LenProperties DEF CallLog
<1>2. Ordered'
  BY <1>1 DEF LogInv, Ordered
<1>3. RepairedOnce'
  BY <1>1 DEF LogInv, RepairedOnce
<1>4. RepairsUnusable'
  BY <1>1 DEF LogInv, RepairsUnusable
<1> QED BY <1>1, <1>2, <1>3, <1>4 DEF LogInv

\* So does a reply that is followed by another call, when that call repairs an
\* unusable first answer or begins the extraction.
LEMMA AskingKeepsLog ==
    ASSUME calls \in CallLog, Len(calls) > 0, LogInv, NEW r \in Replies,
           NEW op \in {"classify", "extract"},
           calls[Len(calls)].op = "extract" => op = "extract",
           calls[Len(calls)].op = op =>
               r = "unusable" /\ (Len(calls) > 1 => calls[Len(calls) - 1].op # op),
           calls' = Append(Answered(r), Call(op))
    PROVE  /\ calls' \in CallLog /\ Len(calls') = Len(calls) + 1 /\ calls' # << >>
           /\ calls'[Len(calls')].op = op
           /\ LogInv'
<1> DEFINE n == Len(calls)
<1>1. /\ Answered(r) \in CallLog
      /\ Len(Answered(r)) = n /\ n \in Nat
      /\ \A i \in 1 .. n : Answered(r)[i].op = calls[i].op
      /\ \A i \in 1 .. n - 1 : Answered(r)[i] = calls[i]
      /\ Answered(r)[n].reply = r
  BY AnsweredLog, LenProperties DEF CallLog
<1>2. /\ calls' \in CallLog
      /\ Len(calls') = n + 1
      /\ calls' # << >>
      /\ \A i \in 1 .. n : calls'[i] = Answered(r)[i]
      /\ calls'[n + 1].op = op
  BY <1>1, AppendLog DEF Call
<1>3. \A i \in 1 .. n : calls[i].op \in {"classify", "extract"}
  <2>1. \A i \in 1 .. n : calls[i] \in CallRecord
    BY ElementOfSeq DEF CallLog
  <2> QED BY <2>1 DEF CallRecord
<1>4. n > 1 => calls[n - 1].op # op
  <2> SUFFICES ASSUME n > 1, calls[n].op # op PROVE calls[n - 1].op # op
    OBVIOUS
  <2>1. calls[n].op = "classify" /\ op = "extract"
    BY <1>1, <1>3
  <2>2. calls[n - 1].op = "extract" => calls[(n - 1) + 1].op = "extract"
    BY <1>1 DEF LogInv, Ordered
  <2> QED BY <1>1, <2>1, <2>2
<1>5. Ordered'
  <2> SUFFICES ASSUME NEW i \in 1 .. n, calls'[i].op = "extract"
               PROVE  calls'[i + 1].op = "extract"
    BY <1>1, <1>2 DEF Ordered
  <2>1. CASE i < n
    BY <1>1, <1>2, <2>1 DEF LogInv, Ordered
  <2>2. CASE i = n
    BY <1>1, <1>2, <2>2
  <2> QED BY <1>1, <2>1, <2>2
<1>6. RepairedOnce'
  <2> SUFFICES ASSUME NEW i \in 1 .. n - 1 PROVE calls'[i].op # calls'[i + 2].op
    BY <1>1, <1>2 DEF RepairedOnce
  <2>1. CASE i < n - 1
    BY <1>1, <1>2, <2>1 DEF LogInv, RepairedOnce
  <2>2. CASE i = n - 1
    BY <1>1, <1>2, <1>4, <2>2
  <2> QED BY <1>1, <2>1, <2>2
<1>7. RepairsUnusable'
  <2> SUFFICES ASSUME NEW i \in 1 .. n, calls'[i].op = calls'[i + 1].op
               PROVE  calls'[i].reply = "unusable"
    BY <1>1, <1>2 DEF RepairsUnusable
  <2>1. CASE i < n
    BY <1>1, <1>2, <2>1 DEF LogInv, RepairsUnusable
  <2>2. CASE i = n
    BY <1>1, <1>2, <2>2
  <2> QED BY <1>1, <2>1, <2>2
<1> QED BY <1>1, <1>2, <1>5, <1>6, <1>7 DEF LogInv

\* The next call begins with what the earlier ones have used of their time.
LEMMA AskingKeepsBudget ==
    ASSUME calls \in CallLog, calls # << >>, LogInv, Elapsed,
           elapsed \in Nat, operation \in 0 .. Operations - 1, waited \in 0 .. Timeout,
           Len(calls') = Len(calls) + 1, calls' # << >>,
           Restart, UNCHANGED elapsed
    PROVE  Elapsed'
<1>1. Len(calls) \in Nat /\ Len(calls) > 0
  BY LenProperties, EmptySeq DEF CallLog
<1>2. Len(calls) <= 4
  BY FourCalls DEF LogInv
<1>3. (Len(calls) - 1) * CallTime + CallTime = Len(calls) * CallTime
  BY <1>1, <1>2, CallBudget
<1>4. elapsed <= (Len(calls) - 1) * CallTime + Spent /\ Spent <= CallTime
  BY SpentInTime DEF Elapsed
<1>5. (Len(calls) - 1) * CallTime \in Nat /\ Spent \in Nat /\ CallTime \in Nat
  BY <1>1, <1>2, CallBudget, SpentInTime
<1>6. elapsed <= Len(calls) * CallTime
  BY <1>3, <1>4, <1>5
<1>7. Len(calls') - 1 = Len(calls) /\ Spent' = 0
  BY <1>1, AttemptAssumption DEF Restart, Spent
<1>8. CallTime' = CallTime
  BY DEF CallTime
<1>9. (Len(calls') - 1) * CallTime' + Spent' = Len(calls) * CallTime + 0
  BY <1>7, <1>8
<1>10. Len(calls) * CallTime \in Nat
  BY <1>3, <1>5
<1> QED BY <1>6, <1>9, <1>10 DEF Elapsed

-----------------------------------------------------------------------------
\* The attempt begins with nothing asked and nothing stored.
LEMMA AttemptInitial == Init => AttemptInv
<1> SUFFICES ASSUME Init PROVE AttemptInv
  OBVIOUS
<1>1. calls = << >> /\ calls \in CallLog /\ Len(calls) = 0
  BY EmptySeq DEF Init, CallLog
<1>2. AttemptTypeOK
  <2>1. output \in [document_type : DocumentType \cup {"none"}, data : Answers]
    BY DEF Init, NoOutput, Answers, Schemas
  <2> QED BY <1>1, <2>1, AttemptAssumption
      DEF Init, AttemptTypeOK, CallLog, CallRecord
<1>3. CallsInv
  BY <1>1 DEF Init, CallsInv, LastIsCurrent, Calling, Ordered, RepairedOnce, RepairsUnusable
<1> QED BY <1>1, <1>2, <1>3 DEF Init, AttemptInv, Unasked, Elapsed, TypeSettled, ReadyFits

\* An accepted answer is a record of the schema that was asked for, with a
\* confidence a reader may rely on.
LEMMA AcceptedFits ==
    ASSUME NEW t \in DocumentType, NEW answer \in Answers, Accepts(answer, SCHEMA_REGISTRY[t])
    PROVE  LET o == Output(t, answer)
           IN  /\ o \in [document_type : DocumentType \cup {"none"}, data : Answers]
               /\ o.document_type = t
               /\ o.data.shape = SCHEMA_REGISTRY[t]
               /\ o.data.confidence <= 100
BY DEF Output, Accepts

\* Every exception _run meets is one the retry policy classifies.
LEMMA MappedIsException ==
    /\ \A e \in SdkErrors : map_openai_error(e) \in Exceptions
    /\ {"LLMResponseValidationError", "unrecognised", "InvalidJobTransitionError",
        "StorageError", "StoragePathError", "UnsupportedFileTypeError",
        "TextExtractionError", "EmptyDocumentError"} \subseteq Exceptions
    /\ RETRYABLE_EXCEPTIONS \subseteq Exceptions
BY DEF map_openai_error, SdkErrors, Exceptions, RETRYABLE, RETRYABLE_EXCEPTIONS, PERMANENT

\* Every step of the attempt, under either provider, keeps the invariant.
LEMMA AttemptStep == AttemptInv /\ [Next]_attemptVars => AttemptInv'
<1> SUFFICES ASSUME AttemptInv, [Next]_attemptVars PROVE AttemptInv'
  OBVIOUS
<1> USE AttemptAssumption
<1>a. calls \in CallLog /\ Len(calls) \in Nat /\ LogInv
  BY LenProperties DEF AttemptInv, AttemptTypeOK, CallLog, CallRecord, CallsInv, LogInv
<1>b. Calling => Len(calls) > 0 /\ calls # << >>
  BY <1>a, EmptySeq DEF AttemptInv, CallsInv, LastIsCurrent, CallLog
<1>c. ASSUME UNCHANGED calls PROVE LogInv' /\ (calls \in CallLog)'
  BY <1>a, <1>c DEF LogInv, Ordered, RepairedOnce, RepairsUnusable
<1>d. ASSUME LogInv', LastIsCurrent' PROVE CallsInv'
  BY <1>d DEF LogInv, CallsInv
<1> USE DEF AttemptInv, Unasked, Elapsed, Spent, TypeSettled, ReadyFits, document, clock, Raise
<1>1. CASE Read
  <2>1. AttemptTypeOK'
    BY <1>1, MappedIsException DEF Read, AttemptTypeOK
  <2>2. LastIsCurrent'
    BY <1>1 DEF Read, LastIsCurrent, Calling
  <2>3. CallsInv'
    BY <1>1, <1>c, <1>d, <2>2 DEF Read
  <2> QED BY <1>1, <2>1, <2>3 DEF Read
<1>2. CASE ExtractText
  <2>1. CASE pc' = "failed"
    <3>1. UNCHANGED <<document, type, calls, output, clock, elapsed>> /\ failure' \in Exceptions
      BY <1>2, <2>1, MappedIsException DEF ExtractText
    <3>2. AttemptTypeOK'
      BY <2>1, <3>1 DEF AttemptTypeOK
    <3>3. LastIsCurrent'
      BY <2>1 DEF LastIsCurrent, Calling
    <3> QED BY <1>c, <1>d, <2>1, <3>1, <3>2, <3>3
  <2>2. CASE pc' # "failed"
    <3> DEFINE op == IF declared = "none" THEN "classify" ELSE "extract"
    <3>1. /\ pc = "text" /\ pc' = op /\ type' = declared /\ Send(op)
          /\ UNCHANGED <<document, output, elapsed, failure>>
      BY <1>2, <2>2 DEF ExtractText
    <3>2. calls = << >> /\ elapsed = 0
      BY <3>1
    <3>3. op \in {"classify", "extract"}
      OBVIOUS
    <3>4. CASE provider = "openai"
      <4>1. calls' = Append(calls, Call(op)) /\ Restart
        BY <3>1, <3>4 DEF Send
      <4>2. /\ calls' \in CallLog /\ Len(calls') = 1 /\ calls' # << >>
            /\ calls'[1] = Call(op)
        <5>1. Len(calls) = 0
          BY <3>2, EmptySeq
        <5> HIDE DEF op
        <5>2. /\ calls' \in CallLog /\ Len(calls') = Len(calls) + 1 /\ calls' # << >>
              /\ calls'[Len(calls) + 1] = Call(op)
          BY <1>a, <3>3, <4>1, AppendLog
        <5> QED BY <5>1, <5>2
      <4>3. AttemptTypeOK'
        <5>1. calls' \in Seq([op : {"classify", "extract"}, reply : Replies])
          BY <4>2 DEF CallLog, CallRecord
        <5>2. operation' \in 0 .. Operations - 1 /\ waited' \in 0 .. Timeout
          BY <4>1 DEF Restart
        <5> QED BY <3>1, <3>3, <5>1, <5>2 DEF AttemptTypeOK
      <4>4. LastIsCurrent'
        BY <3>1, <4>2 DEF LastIsCurrent, Call
      <4>5. LogInv'
        BY <4>2 DEF LogInv, Ordered, RepairedOnce, RepairsUnusable
      <4>6. Elapsed'
        BY <3>1, <3>2, <4>1, <4>2 DEF Restart, CallTime
      <4> QED BY <1>d, <3>1, <3>2, <3>4, <4>1, <4>2, <4>3, <4>4, <4>5, <4>6 DEF AttemptTypeOK
    <3>5. CASE provider = "fake"
      <4>1. UNCHANGED <<calls, clock>>
        BY <3>1, <3>5 DEF Send
      <4>2. AttemptTypeOK'
        BY <3>1, <3>3, <4>1 DEF AttemptTypeOK
      <4>3. LastIsCurrent'
        BY <3>1, <3>5 DEF LastIsCurrent, Calling
      <4> QED BY <1>c, <1>d, <3>1, <3>2, <3>5, <4>1, <4>2, <4>3 DEF AttemptTypeOK
    <3> QED BY <3>4, <3>5 DEF AttemptTypeOK
  <2> QED BY <2>1, <2>2
<1>3. CASE Classified
  <2>1. /\ Len(calls) > 0 /\ calls # << >>
        /\ calls[Len(calls)].op = "classify" /\ provider = "openai"
    BY <1>3, <1>b DEF Classified, Calling, CallsInv, LastIsCurrent
  <2>2. /\ calls' \in CallLog /\ Len(calls') = Len(calls) + 1 /\ calls' # << >>
        /\ calls'[Len(calls')].op = "extract"
        /\ LogInv'
    BY <1>3, <1>a, <2>1, AskingKeepsLog DEF Classified, Replies
  <2>3. AttemptTypeOK'
    BY <1>3, <2>2 DEF Classified, Restart, AttemptTypeOK, CallLog, CallRecord
  <2>4. CallsInv'
    BY <1>3, <1>a, <1>d, <2>2 DEF Classified, LastIsCurrent, Calling
  <2>5. Elapsed'
    BY <1>3, <1>a, <2>1, <2>2, AskingKeepsBudget DEF Classified, AttemptTypeOK
  <2> QED BY <1>3, <2>1, <2>3, <2>4, <2>5 DEF Classified, Calling
<1>4. CASE Extracted
  <2>1. /\ Len(calls) > 0 /\ calls # << >> /\ provider = "openai" /\ pc = "extract"
        /\ UNCHANGED <<document, type, clock, elapsed, failure>> /\ pc' = "persist"
        /\ calls' = Answered("usable")
    BY <1>4, <1>b DEF Extracted, Calling
  <2>2. calls' \in CallLog /\ Len(calls') = Len(calls) /\ LogInv'
    BY <1>a, <2>1, EndingKeepsLog DEF Replies
  <2>3. calls' # << >>
    BY <2>1, <2>2, EmptySeq
  <2>4. PICK answer \in Answers : /\ Accepts(answer, SCHEMA_REGISTRY[type])
                                  /\ output' = Output(type, answer)
    BY <1>4, <2>1 DEF Extracted, response_format
  <2>5. /\ output' \in [document_type : DocumentType \cup {"none"}, data : Answers]
        /\ output'.document_type = type
        /\ output'.data.shape = SCHEMA_REGISTRY[type]
        /\ output'.data.confidence <= 100
    BY <2>1, <2>4, AcceptedFits
  <2>6. AttemptTypeOK'
    BY <2>1, <2>2, <2>5 DEF AttemptTypeOK, CallLog, CallRecord
  <2>7. CallsInv'
    BY <1>d, <2>1, <2>2 DEF LastIsCurrent, Calling
  <2> QED BY <2>1, <2>2, <2>3, <2>5, <2>6, <2>7
<1>5. CASE Unusable
  <2>1. /\ Len(calls) > 0 /\ calls # << >> /\ provider = "openai"
        /\ pc \in {"classify", "extract"} /\ calls[Len(calls)].op = pc
        /\ UNCHANGED <<document, type, output, elapsed>>
    BY <1>5, <1>b DEF Unusable, Calling, CallsInv, LastIsCurrent
  <2>2. CASE IsRepair
    <3>1. calls' = Answered("unusable") /\ Raise("LLMResponseValidationError") /\ UNCHANGED clock
      BY <1>5, <2>2 DEF Unusable
    <3>2. calls' \in CallLog /\ Len(calls') = Len(calls) /\ LogInv'
      BY <1>a, <2>1, <3>1, EndingKeepsLog DEF Replies
    <3>3. calls' # << >>
      BY <2>1, <3>2, EmptySeq
    <3>4. AttemptTypeOK'
      BY <2>1, <3>1, <3>2, MappedIsException DEF AttemptTypeOK, CallLog, CallRecord
    <3>5. CallsInv'
      BY <1>d, <3>1, <3>2 DEF LastIsCurrent, Calling
    <3> QED BY <2>1, <3>1, <3>2, <3>3, <3>4, <3>5
  <2>3. CASE ~ IsRepair
    <3>1. /\ calls' = Append(Answered("unusable"), Call(pc)) /\ Restart
          /\ UNCHANGED <<pc, failure>>
      BY <1>5, <2>3 DEF Unusable
    <3>2. Len(calls) > 1 => calls[Len(calls) - 1].op # pc
      BY <2>3 DEF IsRepair
    <3>3. /\ calls' \in CallLog /\ Len(calls') = Len(calls) + 1 /\ calls' # << >>
          /\ calls'[Len(calls')].op = pc
          /\ LogInv'
      BY <1>a, <2>1, <3>1, <3>2, AskingKeepsLog DEF Replies
    <3>4. AttemptTypeOK'
      BY <2>1, <3>1, <3>3 DEF Restart, AttemptTypeOK, CallLog, CallRecord
    <3>5. CallsInv'
      BY <1>a, <1>d, <3>1, <3>3 DEF LastIsCurrent
    <3>6. Elapsed'
      BY <1>a, <2>1, <3>1, <3>3, AskingKeepsBudget DEF AttemptTypeOK
    <3> QED BY <2>1, <3>1, <3>4, <3>5, <3>6
  <2> QED BY <2>2, <2>3
<1>6. CASE CompleteRaises
  <2>1. /\ Len(calls) > 0 /\ calls # << >> /\ provider = "openai"
        /\ pc' = "failed" /\ failure' \in Exceptions
        /\ UNCHANGED <<document, type, output, clock, elapsed>>
    BY <1>6, <1>b, MappedIsException DEF CompleteRaises, Calling
  <2>2. PICK r \in Replies : calls' = Answered(r)
    BY <1>6 DEF CompleteRaises, Replies
  <2>3. calls' \in CallLog /\ Len(calls') = Len(calls) /\ LogInv'
    BY <1>a, <2>1, <2>2, EndingKeepsLog
  <2>4. calls' # << >>
    BY <2>1, <2>3, EmptySeq
  <2>5. AttemptTypeOK'
    BY <2>1, <2>3 DEF AttemptTypeOK, CallLog, CallRecord
  <2>6. CallsInv'
    BY <1>d, <2>1, <2>3 DEF LastIsCurrent, Calling
  <2> QED BY <2>1, <2>3, <2>4, <2>5, <2>6
<1>7. CASE Tick
  <2>1. /\ calls # << >> /\ waited < Timeout
        /\ waited' = waited + 1 /\ elapsed' = elapsed + 1
        /\ UNCHANGED <<pc, document, type, calls, output, operation, failure>>
    BY <1>7, <1>b DEF Tick
  <2>2. AttemptTypeOK'
    BY <2>1 DEF AttemptTypeOK
  <2>3. CallsInv'
    BY <1>c, <1>d, <2>1 DEF CallsInv, LastIsCurrent, Calling
  <2>4. Elapsed'
    <3>1. elapsed <= (Len(calls) - 1) * CallTime + Spent
      BY <2>1
    <3>2. Spent' = Spent + 1 /\ Spent \in Nat
      BY <2>1, SpentInTime DEF Spent, AttemptTypeOK
    <3>3. (Len(calls) - 1) * CallTime \in Nat /\ elapsed \in Nat
      BY <1>a, <1>b, <2>1, FourCalls, CallBudget DEF AttemptTypeOK, LogInv, Tick
    <3>4. ((Len(calls) - 1) * CallTime)' = (Len(calls) - 1) * CallTime
      BY <2>1 DEF CallTime
    <3> QED BY <2>1, <3>1, <3>2, <3>3, <3>4
  <2> QED BY <2>1, <2>2, <2>3, <2>4
<1>12. CASE OperationEnds
  <2>1. /\ calls # << >> /\ operation < Operations - 1
        /\ operation' = operation + 1 /\ waited' = 0
        /\ UNCHANGED <<pc, document, type, calls, output, elapsed, failure>>
    BY <1>12, <1>b DEF OperationEnds
  <2>2. AttemptTypeOK'
    BY <2>1 DEF AttemptTypeOK
  <2>3. CallsInv'
    BY <1>c, <1>d, <2>1 DEF CallsInv, LastIsCurrent, Calling
  <2>4. Elapsed'
    <3>1. elapsed <= (Len(calls) - 1) * CallTime + Spent
      BY <2>1
    <3>2. Spent' \in Nat /\ Spent <= Spent' /\ Spent \in Nat
      <4>1. Spent \in Nat /\ Spent <= (operation + 1) * Timeout
        BY SpentInTime DEF AttemptTypeOK
      <4>2. Spent' = (operation + 1) * Timeout /\ (operation + 1) * Timeout \in Nat
        BY <2>1 DEF Spent, AttemptTypeOK
      <4> QED BY <4>1, <4>2
    <3>3. (Len(calls) - 1) * CallTime \in Nat /\ elapsed \in Nat
      BY <1>a, <1>b, <1>12, FourCalls, CallBudget DEF AttemptTypeOK, LogInv, OperationEnds
    <3>4. ((Len(calls) - 1) * CallTime)' = (Len(calls) - 1) * CallTime
      BY <2>1 DEF CallTime
    <3> QED BY <2>1, <3>1, <3>2, <3>3, <3>4
  <2> QED BY <2>1, <2>2, <2>3, <2>4
<1>8. CASE FakeClassify
  <2>1. type' \in DocumentType
    BY <1>8 DEF FakeClassify, guess_type, DocumentType
  <2>2. AttemptTypeOK'
    BY <1>8, <2>1 DEF FakeClassify, AttemptTypeOK
  <2>3. CallsInv'
    BY <1>8, <1>c, <1>d DEF FakeClassify, LastIsCurrent, Calling
  <2> QED BY <1>8, <2>1, <2>2, <2>3 DEF FakeClassify
<1>9. CASE FakeExtract
  <2>1. CASE pc' = "persist"
    <3> DEFINE payload == [shape |-> SCHEMA_REGISTRY[type], confidence |-> 75]
    <3>1. /\ Accepts(payload, SCHEMA_REGISTRY[type]) /\ output' = Output(type, payload)
          /\ UNCHANGED failure
      BY <1>9, <2>1 DEF FakeExtract, response_format
    <3>2. type \in DocumentType /\ payload \in Answers
      BY <1>9 DEF FakeExtract, Answers, Schemas
    <3>3. /\ output' \in [document_type : DocumentType \cup {"none"}, data : Answers]
          /\ output'.document_type = type
          /\ output'.data.shape = SCHEMA_REGISTRY[type]
          /\ output'.data.confidence <= 100
      <4> HIDE DEF payload
      <4> QED BY <3>1, <3>2, AcceptedFits
    <3>4. AttemptTypeOK'
      BY <1>9, <2>1, <3>1, <3>3 DEF FakeExtract, AttemptTypeOK
    <3>5. CallsInv'
      BY <1>9, <1>c, <1>d, <2>1 DEF FakeExtract, LastIsCurrent, Calling
    <3> QED BY <1>9, <2>1, <3>3, <3>4, <3>5 DEF FakeExtract
  <2>2. CASE pc' # "persist"
    <3>1. pc' = "failed" /\ failure' = "unrecognised" /\ UNCHANGED output
      BY <1>9, <2>2 DEF FakeExtract
    <3>2. AttemptTypeOK'
      BY <1>9, <3>1, MappedIsException DEF FakeExtract, AttemptTypeOK
    <3>3. CallsInv'
      BY <1>9, <1>c, <1>d, <3>1 DEF FakeExtract, LastIsCurrent, Calling
    <3> QED BY <1>9, <3>1, <3>2, <3>3 DEF FakeExtract
  <2> QED BY <2>1, <2>2
<1>10. CASE Persist
  <2>1. AttemptTypeOK'
    BY <1>10, MappedIsException DEF Persist, AttemptTypeOK
  <2>2. CallsInv'
    BY <1>10, <1>c, <1>d DEF Persist, LastIsCurrent, Calling
  <2> QED BY <1>10, <2>1, <2>2 DEF Persist
<1>11. CASE UNCHANGED attemptVars
  <2>1. AttemptTypeOK'
    BY <1>11 DEF attemptVars, AttemptTypeOK
  <2>2. CallsInv'
    BY <1>11, <1>c, <1>d DEF attemptVars, CallsInv, LastIsCurrent, Calling
  <2> QED BY <1>11, <2>1, <2>2 DEF attemptVars
<1> QED BY <1>1, <1>2, <1>3, <1>4, <1>5, <1>6, <1>7, <1>8, <1>9, <1>10, <1>11, <1>12 DEF Next

\* The inductive invariant of the attempt holds throughout.
THEOREM AttemptInvariant == Spec => []AttemptInv
<1>1. Init => AttemptInv
  BY AttemptInitial
<1>2. AttemptInv /\ [Next]_attemptVars => AttemptInv'
  BY AttemptStep
<1> QED BY <1>1, <1>2, PTL DEF Spec

-----------------------------------------------------------------------------
\* Every variable of the attempt keeps its type, and no call outlasts the
\* client's timeout.
THEOREM AttemptTypeCorrect == Spec => []AttemptTypeOK
<1>1. AttemptInv => AttemptTypeOK
  BY DEF AttemptInv
<1> QED BY <1>1, AttemptInvariant, PTL

\* _parse asks the model again only for an answer it could not use, and never
\* a third time for one operation, however the replies interleave.
THEOREM RepairsAreBounded == Spec => []RepairOnlyUnusable
<1>1. AttemptInv => RepairOnlyUnusable
  <2> SUFFICES ASSUME AttemptInv PROVE RepairOnlyUnusable
    OBVIOUS
  <2>1. /\ calls \in CallLog /\ Len(calls) \in Nat
        /\ Ordered /\ RepairedOnce /\ RepairsUnusable
    BY LenProperties DEF AttemptInv, AttemptTypeOK, CallsInv, CallLog, CallRecord
  <2>2. Len(calls) <= 4
    BY <2>1, FourCalls
  <2>3. ASSUME NEW i \in 1 .. Len(calls), NEW j \in 1 .. Len(calls), NEW k \in 1 .. Len(calls),
               i < j, j < k
        PROVE  calls[i].op # calls[j].op \/ calls[j].op # calls[k].op
    <3> SUFFICES ASSUME calls[i].op = calls[j].op, calls[j].op = calls[k].op PROVE FALSE
      OBVIOUS
    <3>1. \A m \in 1 .. Len(calls) : calls[m].op \in {"classify", "extract"}
      <4>1. \A m \in 1 .. Len(calls) : calls[m] \in CallRecord
        BY <2>1, ElementOfSeq DEF CallLog
      <4> QED BY <4>1 DEF CallRecord
    <3>2. i \in {1, 2} /\ k \in {i + 2, i + 3}
      BY <2>1, <2>2, <2>3
    <3>3. calls[i].op # calls[i + 2].op
      BY <2>1, <2>3, <3>2 DEF RepairedOnce
    <3>4. k = i + 3 /\ i = 1
      BY <2>1, <2>2, <3>2, <3>3
    <3>5. calls[1].op # calls[3].op /\ calls[1].op = calls[4].op
      BY <3>3, <3>4
    <3>6. /\ calls[1].op = "extract" => calls[2].op = "extract"
          /\ calls[2].op = "extract" => calls[3].op = "extract"
          /\ calls[3].op = "extract" => calls[4].op = "extract"
      BY <2>1, <3>4 DEF Ordered
    <3> QED BY <2>1, <3>1, <3>4, <3>5, <3>6
  <2> QED BY <2>1, <2>3 DEF RepairOnlyUnusable, RepairsUnusable
<1> QED BY <1>1, AttemptInvariant, PTL

\* An attempt has waited for the model at most four calls.
LEMMA FourCallTimes ==
    AttemptInv => elapsed <= 4 * CallTime /\ (Calling /\ waited < Timeout => elapsed < 4 * CallTime)
<1> SUFFICES ASSUME AttemptInv
             PROVE  elapsed <= 4 * CallTime /\ (Calling /\ waited < Timeout => elapsed < 4 * CallTime)
  OBVIOUS
<1>1. /\ elapsed \in Nat /\ waited \in 0 .. Timeout /\ operation \in 0 .. Operations - 1
      /\ CallTime \in Nat
  BY SpentInTime DEF AttemptInv, AttemptTypeOK
<1>2. CASE calls = << >>
  <2>1. ~ Calling
    BY <1>2, EmptySeq DEF AttemptInv, CallsInv, LastIsCurrent
  <2> QED BY <1>1, <1>2, <2>1 DEF AttemptInv, Elapsed
<1>3. CASE calls # << >>
  <2>1. calls \in CallLog /\ Len(calls) \in Nat /\ Len(calls) > 0 /\ Len(calls) <= 4
    BY <1>3, LenProperties, EmptySeq, FourCalls
    DEF AttemptInv, AttemptTypeOK, CallsInv, CallLog, CallRecord
  <2>2. /\ (Len(calls) - 1) * CallTime + CallTime = Len(calls) * CallTime
        /\ Len(calls) * CallTime <= 4 * CallTime
        /\ (Len(calls) - 1) * CallTime \in Nat
    BY <2>1, CallBudget
  <2>3. elapsed <= (Len(calls) - 1) * CallTime + Spent
    BY <1>3 DEF AttemptInv, Elapsed
  <2>4. Spent \in Nat /\ Spent <= CallTime /\ (waited < Timeout => Spent + 1 <= CallTime)
    BY <1>1, SpentInTime
  <2> QED BY <1>1, <2>2, <2>3, <2>4
<1> QED BY <1>2, <1>3

\* What _persist commits has the shape and the confidence that its detected
\* type promises, from either provider and after any repair.
THEOREM CommittedFitsType == Spec => []StoredFitsType
<1>1. AttemptInv => StoredFitsType
  BY DEF AttemptInv, ReadyFits, StoredFitsType
<1> QED BY <1>1, AttemptInvariant, PTL

-----------------------------------------------------------------------------
\* The attempt in detail takes only the steps that Worker allows its "work"
\* stage: it waits for at most four calls of the model, whatever is answered and
\* however often the timeout starts anew within a call, and succeeds, or fails
\* with an error the retry policy has classified.  (That it ends is left to TLC.)
THEOREM AttemptIsWorkStage == Spec => Stage!Init /\ [][Stage!Next]_(Stage!stageVars)
<1>1. Init => Stage!Init
  BY DEF Init, Stage!Init
<1>2. AttemptInv /\ [Next]_attemptVars => [Stage!Next]_(Stage!stageVars)
  <2> SUFFICES ASSUME AttemptInv, [Next]_attemptVars PROVE [Stage!Next]_(Stage!stageVars)
    OBVIOUS
  <2> USE DEF Stage!Next, Stage!stageVars, Raise
  <2>1. CASE Read
    BY <2>1 DEF Read, Stage!Fail
  <2>2. CASE ExtractText
    BY <2>2 DEF ExtractText, Stage!Fail
  <2>3. CASE Classified
    BY <2>3 DEF Classified
  <2>4. CASE Extracted
    BY <2>4 DEF Extracted
  <2>5. CASE Unusable
    BY <2>5 DEF Unusable, Calling, Stage!Fail
  <2>6. CASE CompleteRaises
    BY <2>6 DEF CompleteRaises, Calling, Stage!Fail
  <2>7. CASE Tick
    <3>1. elapsed < 4 * CallTime
      BY <2>7, FourCallTimes DEF Tick
    <3> QED BY <2>7, <3>1 DEF Tick, Calling, Stage!Wait
  <2>8. CASE FakeClassify
    BY <2>8 DEF FakeClassify
  <2>9. CASE FakeExtract
    BY <2>9 DEF FakeExtract, Stage!Fail
  <2>10. CASE Persist
    BY <2>10 DEF Persist, Stage!Succeed, Stage!Fail
  <2>11. CASE UNCHANGED attemptVars
    BY <2>11 DEF attemptVars
  <2>12. CASE OperationEnds
    BY <2>12 DEF OperationEnds
  <2> QED BY <2>1, <2>2, <2>3, <2>4, <2>5, <2>6, <2>7, <2>8, <2>9, <2>10, <2>11, <2>12 DEF Next
<1> QED BY <1>1, <1>2, AttemptInvariant, PTL DEF Spec
=============================================================================
