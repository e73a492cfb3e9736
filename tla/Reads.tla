------------------------------- MODULE Reads -------------------------------
(***************************************************************************)
(* The requests of a client of the API while the pipeline works: the page  *)
(* of jobs, one job, the metrics summary, and the two POSTs.  The tables   *)
(* are those of JobLifecycle; Api has the POSTs in their own steps.        *)
(*                                                                         *)
(* A request runs its SQL statements one after the other.  PostgreSQL runs *)
(* them READ COMMITTED: every statement sees what is committed when it     *)
(* starts, so the rows may move between two statements of one request.     *)
(* The session takes a connection from the pool for its first statement    *)
(* and returns it when the request ends.                                   *)
(***************************************************************************)
EXTENDS JobLifecycle, FiniteSets, Sequences

CONSTANTS
    Requests,       \* the requests in flight at once
    PoolSize        \* db_pool_size + db_max_overflow

ASSUME ReadsAssumption == /\ PoolSize \in Nat \ {0}
                          /\ IsFiniteSet(Jobs)
                          /\ IsFiniteSet(Requests)

VARIABLES
    request,        \* request[r]: a request, its snapshot and its reply
    pool            \* connections checked out

readVars == <<request, pool>>

JobStatus == {"queued", "processing", "retrying", "completed", "failed"}

Created == {j \in Jobs : status[j] # "absent"}

\* Faulty: the related rows are loaded first.
ResultsFirst == [page |-> <<"results", "rows", "count">>, metrics |-> <<"counts", "depth">>,
                 upload |-> <<"write">>, retry |-> <<"write">>]

\* The statements of each handler; selectinload follows the query it belongs to.
Statements == [page |-> <<"rows", "results", "count">>, metrics |-> <<"counts", "depth">>,
               upload |-> <<"write">>, retry |-> <<"write">>]

\* done statements of Statements[kind] have run.  known is the number of jobs
\* that existed when the metrics were asked for, targets the job of a retry.
Blank(kind, pc) == [kind |-> kind, pc |-> pc, done |-> 0, known |-> 0, targets |-> {},
                    rows |-> [j \in Jobs |-> "absent"], results |-> {},
                    counts |-> [s \in {} |-> 0], total |-> 0]

Sent(kind, targets) == [Blank(kind, "connect") EXCEPT
                 !.targets = targets,
                 !.known = IF kind = "metrics" THEN Cardinality(Created) ELSE 0]

NoRequest == Blank("page", "idle")

ReadsInit == /\ request = [r \in Requests |-> NoRequest]
             /\ pool = 0

Send(r, kind, targets) == /\ request[r].pc = "idle"
                          /\ request' = [request EXCEPT ![r] = Sent(kind, targets)]
                          /\ UNCHANGED pool

-----------------------------------------------------------------------------
\* Faulty: the pool has no limit.
AcquireUnlimited(r) == /\ request[r].pc = "connect"
                       /\ pool' = pool + 1
                       /\ request' = [request EXCEPT ![r].pc = "run"]
                       /\ UNCHANGED lifecycleVars

Acquire(r) == /\ request[r].pc = "connect"
              /\ pool < PoolSize
              /\ pool' = pool + 1
              /\ request' = [request EXCEPT ![r].pc = "run"]
              /\ UNCHANGED lifecycleVars

At(r, statement) == /\ request[r].pc = "run"
                    /\ Statements[request[r].kind][request[r].done + 1] = statement

\* The statement has left x; after the last one the session is closed.
Advance(r, x) ==
    LET last == x.done + 1 = Len(Statements[x.kind])
    IN  /\ request' = [request EXCEPT ![r] = [x EXCEPT !.done = @ + 1,
                                                      !.pc = IF last THEN "reply" ELSE "run"]]
        /\ pool' = IF last THEN pool - 1 ELSE pool

LoadRows(r) == /\ At(r, "rows")
               /\ Advance(r, [request[r] EXCEPT !.rows = status])
               /\ UNCHANGED lifecycleVars

LoadResults(r) == /\ At(r, "results")
                  /\ Advance(r, [request[r] EXCEPT !.results = {j \in Jobs : extracted[j]}])
                  /\ UNCHANGED lifecycleVars

CountRows(r) == /\ At(r, "count")
                /\ Advance(r, [request[r] EXCEPT !.total = Cardinality(Created)])
                /\ UNCHANGED lifecycleVars

InStatus(s) == Cardinality({j \in Jobs : status[j] = s})

\* Faulty: one COUNT per status instead of one GROUP BY.
CountEachStatus(r) ==
    /\ At(r, "counts")
    /\ \E s \in JobStatus \ DOMAIN request[r].counts :
         LET counted == DOMAIN request[r].counts \cup {s}
             x == [request[r] EXCEPT !.counts =
                     [t \in counted |-> IF t = s THEN InStatus(s) ELSE request[r].counts[t]]]
         IN  IF counted = JobStatus THEN Advance(r, x)
             ELSE request' = [request EXCEPT ![r] = x] /\ UNCHANGED pool
    /\ UNCHANGED lifecycleVars

\* The GROUP BY; the statements for the average and the last day change nothing here.
CountByStatus(r) ==
    /\ At(r, "counts")
    /\ Advance(r, [request[r] EXCEPT !.counts = [s \in JobStatus |-> InStatus(s)]])
    /\ UNCHANGED lifecycleVars

\* The total the summary reports.
total_jobs(counts) == counts["queued"] + counts["processing"] + counts["retrying"]
                        + counts["completed"] + counts["failed"]

\* The connection stays checked out while Redis is asked.
Depth(r) == /\ At(r, "depth")
            /\ Advance(r, request[r])
            /\ UNCHANGED lifecycleVars

\* upload_document and retry_job, in one step each.
Write(r) == /\ At(r, "write")
            /\ IF request[r].kind = "upload" THEN \E j \in Jobs : Submit(j)
                                             ELSE \E j \in request[r].targets : Requeue(j)
            /\ Advance(r, request[r])

\* Nothing of what was read reaches the client; its fetch rejects or says not ok.
Refused(r) == request' = [request EXCEPT ![r] = NoRequest]

PoolTimeout(r) == /\ request[r].pc = "connect"
                  /\ pool = PoolSize
                  /\ Refused(r)
                  /\ UNCHANGED <<lifecycleVars, pool>>

\* Faulty: an exception leaves the session open.
LeaksConnection(r) == /\ request[r].pc = "run"
                      /\ Refused(r)
                      /\ UNCHANGED <<lifecycleVars, pool>>

\* A statement fails, a POST is refused, depth() turns a Redis error into a
\* QueueError: the session is rolled back and closed on the way out.
RequestRaises(r) == /\ request[r].pc = "run"
                    /\ Refused(r)
                    /\ pool' = pool - 1
                    /\ UNCHANGED lifecycleVars

\* The request or its reply is lost.
Lost(r) == /\ request[r].pc \in {"connect", "reply"}
           /\ Refused(r)
           /\ UNCHANGED <<lifecycleVars, pool>>

Statement(r) == \/ LoadRows(r) \/ LoadResults(r) \/ CountRows(r)
                \/ CountByStatus(r) \/ Depth(r) \/ Write(r)

RequestFails(r) == PoolTimeout(r) \/ RequestRaises(r) \/ Lost(r)

ReadsTypeOK ==
    /\ \A r \in Requests :
         /\ request[r].kind \in DOMAIN Statements
         /\ request[r].pc \in {"idle", "connect", "run", "reply"}
         /\ request[r].done \in 0 .. Len(Statements[request[r].kind])
         /\ request[r].rows \in [Jobs -> JobStatus \cup {"absent"}]
         /\ request[r].results \subseteq Jobs
         /\ request[r].targets \subseteq Jobs
    /\ pool \in 0 .. PoolSize
=============================================================================
