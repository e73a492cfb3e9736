----------------------------- MODULE Dashboard -----------------------------
(***************************************************************************)
(* The dashboard in a browser (app/static/dashboard.js) over the API of    *)
(* Reads, while the pipeline and other clients move the jobs.              *)
(*                                                                         *)
(* poll() sends its two requests at the same time and handles each reply   *)
(* by itself, so each is an action of its own.  setInterval polls whether  *)
(* or not earlier requests have been answered; Requests bounds how many    *)
(* are under way.                                                          *)
(***************************************************************************)
EXTENDS Reads

VARIABLES
    board,          \* board[j]: the status the jobs table shows
    submit          \* the upload form: "ready", "uploading" or "refreshing"

dashVars == <<lifecycleVars, readVars, board, submit>>

DashboardInit == /\ Init
                 /\ ReadsInit
                 /\ board = [j \in Jobs |-> "absent"]
                 /\ submit = "ready"

\* Faulty: polling ends when every job shown is terminal (is_terminal).
PollWhileActive(r, kind) ==
    /\ \E j \in Jobs : board[j] \notin {"completed", "failed"}
    /\ Send(r, kind, {})
    /\ UNCHANGED <<lifecycleVars, board, submit>>

\* setInterval(poll), and the poll() that follows a retry or an upload.
Poll(r, kind) == /\ Send(r, kind, {})
                 /\ UNCHANGED <<lifecycleVars, board, submit>>

\* The button of a row shown as failed; it is never disabled.
ClickRetry(r) == /\ \E j \in Jobs : board[j] = "failed" /\ Send(r, "retry", {j})
                 /\ UNCHANGED <<lifecycleVars, board, submit>>

SubmitForm(r) == /\ submit = "ready"
                 /\ submit' = "uploading"
                 /\ Send(r, "upload", {})
                 /\ UNCHANGED <<lifecycleVars, board>>

\* The promise settles.  Only a page changes the table.
Deliver(r) ==
    /\ request[r].pc = "reply"
    /\ request' = [request EXCEPT ![r] = NoRequest]
    /\ board' = IF request[r].kind = "page" THEN request[r].rows ELSE board
    /\ submit' = IF request[r].kind = "upload" THEN "refreshing" ELSE submit
    /\ UNCHANGED <<lifecycleVars, pool>>

\* Faulty: the button is enabled again only after a successful upload.
BreakWithoutFinally(r) == /\ RequestFails(r)
                          /\ UNCHANGED <<board, submit>>

\* An error is shown as text; the finally of an upload enables its button.
Break(r) == /\ RequestFails(r)
            /\ submit' = IF request[r].kind = "upload" THEN "ready" ELSE submit
            /\ UNCHANGED board

\* The poll() after an upload never rejects; then finally enables the button.
Refreshed == /\ submit = "refreshing"
             /\ submit' = "ready"
             /\ UNCHANGED <<lifecycleVars, readVars, board>>

\* Workers and other clients.
JobsMove == Next /\ UNCHANGED <<readVars, board, submit>>

Serve(r) == /\ Acquire(r) \/ Statement(r)
            /\ UNCHANGED <<board, submit>>

DashboardNext ==
    \/ \E r \in Requests : \/ Poll(r, "page") \/ Poll(r, "metrics")
                           \/ ClickRetry(r) \/ SubmitForm(r)
                           \/ Serve(r) \/ Break(r) \/ Deliver(r)
    \/ Refreshed
    \/ JobsMove

\* The timer fires (strong, since the bound on requests under way is the model's),
\* the pool serves its waiters in turn, a statement ends one way or the other, the
\* browser settles every promise.  Nothing makes a job move or a user click.
DashboardFairness ==
    /\ SF_dashVars(\E r \in Requests : Poll(r, "page"))
    /\ \A r \in Requests : /\ SF_dashVars(Acquire(r) /\ UNCHANGED <<board, submit>>)
                           /\ WF_dashVars(Serve(r) \/ Break(r))
                           /\ WF_dashVars(Deliver(r))
    /\ WF_dashVars(Refreshed)

DashboardSpec == DashboardInit /\ [][DashboardNext]_dashVars /\ DashboardFairness

-----------------------------------------------------------------------------
DashboardTypeOK == /\ ReadsTypeOK
                   /\ board \in [Jobs -> JobStatus \cup {"absent"}]
                   /\ submit \in {"ready", "uploading", "refreshing"}

Replied(kind) == {request[r] : r \in {q \in Requests : /\ request[q].pc = "reply"
                                                        /\ request[q].kind = kind}}

\* A page is read by three statements, yet a job it shows as completed comes with
\* its result, and its total (unfiltered) covers the rows it shows.
PageIsCoherent ==
    \A x \in Replied("page") :
        /\ \A j \in Jobs : x.rows[j] = "completed" => j \in x.results
        /\ Cardinality({j \in Jobs : x.rows[j] # "absent"}) <= x.total

\* The counters of the metrics summary add up to the jobs there are: a job that
\* changes its status meanwhile is neither missed nor counted twice.
EveryJobCountedOnce ==
    \A x \in Replied("metrics") :
        x.known <= total_jobs(x.counts) /\ total_jobs(x.counts) <= Cardinality(Created)

\* Every connection checked out of the pool is held by a request that is being
\* served: whichever way requests end, polling for days does not drain the pool.
ConnectionsReturned == pool = Cardinality({r \in Requests : request[r].pc = "run"})

\* Once the jobs stand still and requests get through, the table shows the jobs
\* as they are, for good: replies of older polls that arrive late are replaced,
\* and neither an error nor a job shown as terminal ends the polling.
BoardConverges ==
    <>[][UNCHANGED status /\ ~ \E r \in Requests : Break(r)]_dashVars
        => <>[](board = status)

\* The upload form can be used again after every upload, failed ones included.
SubmitReenabled == (submit = "uploading") ~> (submit = "ready")
=============================================================================
