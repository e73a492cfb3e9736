-------------------------- MODULE DashboardProofs --------------------------
(***************************************************************************)
(* Theorems about Dashboard, for any number of jobs and of requests under  *)
(* way, any size of the pool and any number of polls.                      *)
(***************************************************************************)
EXTENDS Dashboard, FiniteSetTheorems, TLAPS

USE ReadsAssumption

-----------------------------------------------------------------------------
(* The inductive invariant.  A request keeps what earlier statements read  *)
(* while the rows move on; what makes its reply coherent is that rows are  *)
(* never deleted and results never withdrawn, so each part of the invariant*)
(* relates a snapshot to the tables of the moment.                         *)

Kinds == {"page", "metrics", "upload", "retry"}

RequestType == [kind : Kinds, pc : {"idle", "connect", "run", "reply"},
                done : Nat, known : Nat, targets : SUBSET Jobs,
                rows : [Jobs -> JobStatus \cup {"absent"}], results : SUBSET Jobs,
                counts : [{} -> Nat] \cup [JobStatus -> Nat], total : Nat]

\* How far a request is.
Placed(x) == /\ x \in RequestType
             /\ x.pc \in {"idle", "connect"} => x.done = 0
             /\ x.pc = "run" => x.done < Len(Statements[x.kind])
             /\ x.pc = "reply" => x.done = Len(Statements[x.kind])

Shown(x) == {j \in Jobs : x.rows[j] # "absent"}

\* What a page has read so far, against the status and the results by now.
PageSound(x, st, ex) ==
    x.kind = "page" =>
      /\ x.done >= 1 => \A j \in Jobs : /\ x.rows[j] # "absent" => st[j] # "absent"
                                        /\ x.rows[j] = "completed" => ex[j]
      /\ x.done >= 2 => \A j \in Jobs : x.rows[j] = "completed" => j \in x.results
      /\ x.done >= 3 => Cardinality(Shown(x)) <= x.total

\* What the metrics have counted so far, against the n jobs there are by now.
CountsSound(x, n) ==
    x.kind = "metrics" =>
      /\ x.known <= n
      /\ x.done >= 1 => /\ x.counts \in [JobStatus -> Nat]
                        /\ x.known <= total_jobs(x.counts)
                        /\ total_jobs(x.counts) <= n

RequestSound(x, st, ex, n) == Placed(x) /\ PageSound(x, st, ex) /\ CountsSound(x, n)

JobsSound == /\ status \in [Jobs -> JobStatus \cup {"absent"}]
             /\ extracted \in [Jobs -> BOOLEAN]
             /\ \A j \in Jobs : status[j] = "completed" => extracted[j]

RequestsSound == /\ request \in [Requests -> RequestType]
                 /\ \A r \in Requests :
                      RequestSound(request[r], status, extracted, Cardinality(Created))

Running == {r \in Requests : request[r].pc = "run"}

PoolSound == pool = Cardinality(Running) /\ pool <= PoolSize

PageState == /\ board \in [Jobs -> JobStatus \cup {"absent"}]
             /\ submit \in {"ready", "uploading", "refreshing"}

DashboardInv == JobsSound /\ RequestsSound /\ PoolSound /\ PageState

-----------------------------------------------------------------------------
(* The tables.                                                             *)

\* Rows are never deleted and results never withdrawn.
Grow == \A j \in Jobs : /\ status[j] # "absent" => status'[j] # "absent"
                        /\ extracted[j] => extracted'[j]

\* The jobs there are, and those in one status, are finitely many.
LEMMA CountsAreNumbers ==
    /\ IsFiniteSet(Created) /\ Cardinality(Created) \in Nat
    /\ \A s : IsFiniteSet({j \in Jobs : status[j] = s}) /\ InStatus(s) \in Nat
<1>1. Created \in SUBSET Jobs /\ \A s : {j \in Jobs : status[j] = s} \in SUBSET Jobs
  BY DEF Created
<1> QED BY <1>1, FS_Subset, FS_CardinalityType DEF InStatus

\* What is shown of a page is finite too.
LEMMA ShownIsFinite ==
    ASSUME NEW x
    PROVE  IsFiniteSet(Shown(x)) /\ Cardinality(Shown(x)) \in Nat
<1>1. Shown(x) \in SUBSET Jobs
  BY DEF Shown
<1> QED BY <1>1, FS_Subset, FS_CardinalityType

\* Every move of a job keeps the tables sound, and they grow.
LEMMA JobsKeep ==
    ASSUME JobsSound, NEW j \in Jobs, NEW from, NEW to \in JobStatus,
           Move(j, from, to), "completed" \notin from,
           \/ UNCHANGED extracted /\ to # "completed"
           \/ extracted' = [extracted EXCEPT ![j] = TRUE]
    PROVE  JobsSound' /\ Grow
<1>1. \A k \in Jobs : status'[k] = IF k = j THEN to ELSE status[k]
  BY DEF JobsSound, Move
<1>2. status' \in [Jobs -> JobStatus \cup {"absent"}] /\ extracted' \in [Jobs -> BOOLEAN]
  BY DEF JobsSound, Move
<1>3. "absent" \notin JobStatus
  BY DEF JobStatus
<1>4. Grow
  BY <1>1, <1>3 DEF JobsSound, Grow
<1>5. \A k \in Jobs : status'[k] = "completed" => extracted'[k]
  BY <1>1 DEF JobsSound
<1> QED BY <1>2, <1>4, <1>5 DEF JobsSound

\* The moves of JobLifecycle.
LEMMA LifecycleKeeps ==
    ASSUME JobsSound, Next
    PROVE  JobsSound' /\ Grow
<1>1. PICK j \in Jobs : \/ Submit(j) \/ Start(j) \/ Complete(j)
                        \/ Retry(j) \/ Fail(j) \/ Requeue(j)
  BY DEF Next
<1> USE DEF JobStatus
<1>2. CASE Submit(j)
  BY <1>2, JobsKeep DEF Submit
<1>3. CASE Start(j)
  BY <1>3, JobsKeep DEF Start
<1>4. CASE Complete(j)
  BY <1>4, JobsKeep DEF Complete
<1>5. CASE Retry(j)
  BY <1>5, JobsKeep DEF Retry
<1>6. CASE Fail(j)
  BY <1>6, JobsKeep DEF Fail
<1>7. CASE Requeue(j)
  BY <1>7, JobsKeep DEF Requeue
<1> QED BY <1>1, <1>2, <1>3, <1>4, <1>5, <1>6, <1>7

\* The tables left alone.
LEMMA LifecycleStutters ==
    ASSUME JobsSound, UNCHANGED lifecycleVars
    PROVE  JobsSound' /\ Grow /\ Created' = Created
BY DEF JobsSound, Grow, Created, lifecycleVars

\* The number of jobs never falls.
LEMMA JobsNeverFewer ==
    ASSUME Grow
    PROVE  /\ Cardinality(Created) \in Nat /\ Cardinality(Created') \in Nat
           /\ Cardinality(Created) <= Cardinality(Created')
<1>1. Created \in SUBSET Created' /\ Created' \in SUBSET Jobs
  BY DEF Grow, Created
<1>2. IsFiniteSet(Created')
  BY <1>1, FS_Subset
<1> QED BY <1>1, <1>2, FS_Subset, FS_CardinalityType

\* Two disjoint sets together.
LEMMA DisjointCounts ==
    ASSUME NEW S, NEW T, IsFiniteSet(S), IsFiniteSet(T), S \cap T = {}
    PROVE  /\ IsFiniteSet(S \cup T)
           /\ Cardinality(S \cup T) = Cardinality(S) + Cardinality(T)
<1>1. Cardinality(S) \in Nat /\ Cardinality(T) \in Nat
  BY FS_CardinalityType
<1>2. Cardinality(S \cap T) = 0
  BY FS_EmptySet
<1>3. /\ IsFiniteSet(S \cup T)
      /\ Cardinality(S \cup T) = Cardinality(S) + Cardinality(T) - Cardinality(S \cap T)
  BY FS_Union
<1> QED BY <1>1, <1>2, <1>3

\* One GROUP BY counts every job exactly once.
LEMMA CountsAddUp ==
    ASSUME JobsSound
    PROVE  total_jobs([s \in JobStatus |-> InStatus(s)]) = Cardinality(Created)
<1> DEFINE In(s) == {j \in Jobs : status[j] = s}
           two == In("queued") \cup In("processing")
           three == two \cup In("retrying")
           four == three \cup In("completed")
<1>1. \A s : IsFiniteSet(In(s)) /\ InStatus(s) = Cardinality(In(s)) /\ InStatus(s) \in Nat
  BY CountsAreNumbers DEF InStatus
<1>2. /\ In("queued") \cap In("processing") = {}
      /\ two \cap In("retrying") = {}
      /\ three \cap In("completed") = {}
      /\ four \cap In("failed") = {}
  OBVIOUS
<1>3. four \cup In("failed") = Created
  BY DEF JobsSound, Created, JobStatus
<1> HIDE DEF In
<1>4. IsFiniteSet(two) /\ Cardinality(two) = InStatus("queued") + InStatus("processing")
  BY <1>1, <1>2, DisjointCounts
<1>5. IsFiniteSet(three) /\ Cardinality(three) = Cardinality(two) + InStatus("retrying")
  BY <1>1, <1>2, <1>4, DisjointCounts
<1>6. IsFiniteSet(four) /\ Cardinality(four) = Cardinality(three) + InStatus("completed")
  BY <1>1, <1>2, <1>5, DisjointCounts
<1>7. Cardinality(four \cup In("failed")) = Cardinality(four) + InStatus("failed")
  BY <1>1, <1>2, <1>6, DisjointCounts
<1> QED BY <1>1, <1>3, <1>4, <1>5, <1>6, <1>7 DEF total_jobs, JobStatus

-----------------------------------------------------------------------------
(* The requests.                                                           *)

\* Where each statement stands in its handler.
LEMMA StatementPlaces ==
    /\ Len(Statements["page"]) = 3 /\ Len(Statements["metrics"]) = 2
    /\ Len(Statements["upload"]) = 1 /\ Len(Statements["retry"]) = 1
    /\ Statements["page"][1] = "rows" /\ Statements["page"][2] = "results"
    /\ Statements["page"][3] = "count"
    /\ Statements["metrics"][1] = "counts" /\ Statements["metrics"][2] = "depth"
    /\ Statements["upload"][1] = "write" /\ Statements["retry"][1] = "write"
    /\ DOMAIN Statements = Kinds
BY DEF Statements, Kinds

\* The handler a statement belongs to, and what has run before it.
LEMMA AtPlace ==
    ASSUME NEW r, NEW statement, At(r, statement), Placed(request[r])
    PROVE  LET x == request[r]
           IN  /\ statement = "rows" => x.kind = "page" /\ x.done = 0
               /\ statement = "results" => x.kind = "page" /\ x.done = 1
               /\ statement = "count" => x.kind = "page" /\ x.done = 2
               /\ statement = "counts" => x.kind = "metrics" /\ x.done = 0
               /\ statement = "depth" => x.kind = "metrics" /\ x.done = 1
               /\ statement = "write" => x.kind \in {"upload", "retry"}
<1>1. /\ request[r].pc = "run" /\ Statements[request[r].kind][request[r].done + 1] = statement
      /\ request[r].kind \in Kinds /\ request[r].done \in Nat
      /\ request[r].done < Len(Statements[request[r].kind])
  BY DEF At, Placed, RequestType
<1>2. CASE request[r].kind = "page"
  <2>1. request[r].done \in {0, 1, 2}
    BY <1>1, <1>2, StatementPlaces
  <2> QED BY <1>1, <1>2, <2>1, StatementPlaces
<1>3. CASE request[r].kind = "metrics"
  <2>1. request[r].done \in {0, 1}
    BY <1>1, <1>3, StatementPlaces
  <2> QED BY <1>1, <1>3, <2>1, StatementPlaces
<1>4. CASE request[r].kind \in {"upload", "retry"}
  <2>1. request[r].done = 0
    BY <1>1, <1>4, StatementPlaces
  <2> QED BY <1>1, <1>4, <2>1, StatementPlaces
<1> QED BY <1>1, <1>2, <1>3, <1>4 DEF Kinds

\* What a request has read stays sound while the tables grow.
LEMMA SnapshotsKeep ==
    ASSUME RequestsSound, Grow, NEW r \in Requests
    PROVE  RequestSound(request[r], status', extracted', Cardinality(Created'))
<1> DEFINE x == request[r]
<1>1. /\ RequestSound(x, status, extracted, Cardinality(Created))
      /\ x \in RequestType
  BY DEF RequestsSound
<1>2. PageSound(x, status', extracted')
  BY <1>1 DEF RequestSound, PageSound, Grow
<1>3. CountsSound(x, Cardinality(Created'))
  <2>1. CASE x.kind = "metrics"
    <3>1. x.known \in Nat /\ x.known <= Cardinality(Created)
      BY <1>1, <2>1 DEF RequestSound, CountsSound, RequestType
    <3>2. x.done >= 1 => /\ x.counts \in [JobStatus -> Nat]
                         /\ x.known <= total_jobs(x.counts)
                         /\ total_jobs(x.counts) <= Cardinality(Created)
                         /\ total_jobs(x.counts) \in Nat
      BY <1>1, <2>1 DEF RequestSound, CountsSound, total_jobs, JobStatus
    <3> QED BY <3>1, <3>2, JobsNeverFewer DEF CountsSound
  <2> QED BY <2>1 DEF CountsSound
<1> QED BY <1>1, <1>2, <1>3 DEF RequestSound

\* One request moves on, to a sound state, and the tables grow.
LEMMA RequestKeeps ==
    ASSUME RequestsSound, Grow, NEW r \in Requests, NEW y,
           request' = [request EXCEPT ![r] = y],
           RequestSound(y, status', extracted', Cardinality(Created'))
    PROVE  RequestsSound'
<1>1. y \in RequestType
  BY DEF RequestSound, Placed
<1>2. \A q \in Requests : request'[q] = IF q = r THEN y ELSE request[q]
  BY DEF RequestsSound
<1>3. request' \in [Requests -> RequestType]
  BY <1>1 DEF RequestsSound
<1>4. \A q \in Requests : RequestSound(request'[q], status', extracted', Cardinality(Created'))
  BY <1>2, SnapshotsKeep
<1> QED BY <1>3, <1>4 DEF RequestsSound

\* Nothing has been read for a request that is new, or over.
LEMMA BlankType ==
    ASSUME NEW kind \in Kinds, NEW pc \in {"idle", "connect"}
    PROVE  LET x == Blank(kind, pc)
           IN  x \in RequestType /\ x.kind = kind /\ x.pc = pc /\ x.done = 0
<1> DEFINE none == [s \in {} |-> 0]
           no == [j \in Jobs |-> "absent"]
           x == [kind |-> kind, pc |-> pc, done |-> 0, known |-> 0, targets |-> {},
                 rows |-> no, results |-> {}, counts |-> none, total |-> 0]
<1>1. none \in [{} -> Nat] /\ no \in [Jobs -> JobStatus \cup {"absent"}]
  OBVIOUS
<1>2. Blank(kind, pc) = x
  BY DEF Blank
<1> HIDE DEF none, no
<1>3. x \in RequestType /\ x.kind = kind /\ x.pc = pc /\ x.done = 0
  BY <1>1 DEF RequestType
<1> QED BY <1>2, <1>3

\* A request that has read nothing is sound, whatever the tables hold.
LEMMA UnreadIsSound ==
    ASSUME NEW y \in RequestType, y.pc \in {"idle", "connect"}, y.done = 0,
           NEW st, NEW ex, NEW n, y.kind = "metrics" => y.known <= n
    PROVE  RequestSound(y, st, ex, n)
BY DEF RequestSound, Placed, PageSound, CountsSound

\* A request that is over.
LEMMA NoRequestIsSound ==
    ASSUME NEW st, NEW ex, NEW n
    PROVE  RequestSound(NoRequest, st, ex, n) /\ NoRequest.pc = "idle"
<1>1. NoRequest \in RequestType /\ NoRequest.kind = "page" /\ NoRequest.pc = "idle" /\ NoRequest.done = 0
  BY BlankType DEF NoRequest, Kinds
<1> QED BY <1>1, UnreadIsSound

-----------------------------------------------------------------------------
(* The pool.                                                               *)

\* The requests that are being served are finitely many.
LEMMA RunningIsFinite == IsFiniteSet(Running) /\ Cardinality(Running) \in Nat
<1>1. Running \in SUBSET Requests
  BY DEF Running
<1> QED BY <1>1, FS_Subset, FS_CardinalityType

\* A request comes to be served, ceases to be, or neither.
LEMMA PoolKeeps ==
    ASSUME RequestsSound, PoolSound, NEW r \in Requests, NEW y,
           request' = [request EXCEPT ![r] = y],
           \/ /\ (y.pc = "run") <=> (request[r].pc = "run")
              /\ pool' = pool
           \/ /\ request[r].pc # "run" /\ y.pc = "run"
              /\ pool < PoolSize /\ pool' = pool + 1
           \/ /\ request[r].pc = "run" /\ y.pc # "run"
              /\ pool' = pool - 1
    PROVE  PoolSound'
<1>1. \A q \in Requests : request'[q] = IF q = r THEN y ELSE request[q]
  BY DEF RequestsSound
<1>2. pool = Cardinality(Running) /\ pool \in Nat /\ pool <= PoolSize
  BY RunningIsFinite DEF PoolSound
<1>3. CASE ((y.pc = "run") <=> (request[r].pc = "run")) /\ pool' = pool
  <2>1. Running' = Running
    BY <1>1, <1>3 DEF Running
  <2> QED BY <1>2, <1>3, <2>1 DEF PoolSound
<1>4. CASE request[r].pc # "run" /\ y.pc = "run" /\ pool < PoolSize /\ pool' = pool + 1
  <2>1. Running' = Running \cup {r} /\ r \notin Running
    BY <1>1, <1>4 DEF Running
  <2>2. Cardinality(Running \cup {r}) = Cardinality(Running) + 1
    BY <2>1, RunningIsFinite, FS_AddElement
  <2> QED BY <1>2, <1>4, <2>1, <2>2 DEF PoolSound
<1>5. CASE request[r].pc = "run" /\ y.pc # "run" /\ pool' = pool - 1
  <2>1. Running' = Running \ {r} /\ r \in Running
    BY <1>1, <1>5 DEF Running
  <2>2. Cardinality(Running \ {r}) = Cardinality(Running) - 1
    BY <2>1, RunningIsFinite, FS_RemoveElement
  <2> QED BY <1>2, <1>5, <2>1, <2>2 DEF PoolSound
<1> QED BY <1>3, <1>4, <1>5

-----------------------------------------------------------------------------
(* The steps.                                                              *)

\* x1 and x2 have read the same.
SameReads(x1, x2) == /\ x1.kind = x2.kind /\ x1.known = x2.known
                     /\ x1.rows = x2.rows /\ x1.results = x2.results
                     /\ x1.counts = x2.counts /\ x1.total = x2.total

\* After a statement that has left x the request is one statement further; the
\* last one returns the connection.
LEMMA AdvanceTo ==
    ASSUME RequestsSound, PoolSound, NEW r \in Requests, request[r].pc = "run",
           NEW x \in RequestType, x.kind = request[r].kind, x.done = request[r].done,
           Advance(r, x)
    PROVE  \E y : /\ Placed(y) /\ y.done = x.done + 1 /\ SameReads(x, y)
                  /\ request' = [request EXCEPT ![r] = y]
                  /\ PoolSound'
<1> DEFINE n == Len(Statements[x.kind])
           pc == IF x.done + 1 = n THEN "reply" ELSE "run"
           y == [x EXCEPT !.done = @ + 1, !.pc = pc]
<1>1. x.done \in Nat /\ x.done < n /\ n \in Nat
  <2>1. Placed(request[r])
    BY DEF RequestsSound, RequestSound
  <2>2. x.kind \in Kinds /\ n \in Nat
    BY StatementPlaces DEF RequestType, Kinds
  <2> QED BY <2>1, <2>2 DEF Placed, RequestType
<1>2. request' = [request EXCEPT ![r] = y] /\ pool' = IF x.done + 1 = n THEN pool - 1 ELSE pool
  BY DEF Advance
<1>3. pc \in {"reply", "run"} /\ (pc = "reply" <=> x.done + 1 = n)
  OBVIOUS
<1> HIDE DEF pc
<1>4. /\ y \in RequestType /\ y.done = x.done + 1 /\ y.pc = pc /\ y.kind = x.kind
      /\ SameReads(x, y)
  <2>1. /\ y.done = x.done + 1 /\ y.pc = pc /\ y.kind = x.kind
        /\ y.known = x.known /\ y.rows = x.rows /\ y.results = x.results
        /\ y.counts = x.counts /\ y.total = x.total
    BY DEF RequestType
  <2>2. y \in RequestType
    <3>1. x.done + 1 \in Nat /\ pc \in {"idle", "connect", "run", "reply"}
      BY <1>1, <1>3
    <3>2. \A d \in Nat, p \in {"idle", "connect", "run", "reply"} :
             [x EXCEPT !.done = d, !.pc = p] \in RequestType
      BY DEF RequestType
    <3> QED BY <3>1, <3>2
  <2> HIDE DEF y
  <2> QED BY <2>1, <2>2 DEF SameReads
<1> HIDE DEF y
<1>5. Placed(y)
  BY <1>1, <1>3, <1>4 DEF Placed
<1>6. PoolSound'
  BY <1>2, <1>3, <1>4, PoolKeeps
<1> QED BY <1>2, <1>4, <1>5, <1>6

\* Every statement of a request.
LEMMA StatementKeeps ==
    ASSUME DashboardInv, NEW r \in Requests, Statement(r)
    PROVE  JobsSound' /\ RequestsSound' /\ PoolSound'
<1> USE DEF DashboardInv
<1> DEFINE x0 == request[r]
<1>1. /\ x0 \in RequestType /\ Placed(x0)
      /\ PageSound(x0, status, extracted) /\ CountsSound(x0, Cardinality(Created))
  BY DEF RequestsSound, RequestSound
<1>2. CASE LoadRows(r)
  <2> DEFINE x == [x0 EXCEPT !.rows = status]
  <2>1. x0.kind = "page" /\ x0.done = 0 /\ x0.pc = "run"
    BY <1>1, <1>2, AtPlace DEF LoadRows, At
  <2>2. x \in RequestType /\ x.kind = x0.kind /\ x.done = x0.done /\ x.rows = status
    BY <1>1 DEF RequestType, JobsSound
  <2>3. Advance(r, x) /\ UNCHANGED lifecycleVars
    BY <1>2 DEF LoadRows
  <2> HIDE DEF x
  <2>4. PICK y : /\ Placed(y) /\ y.done = x.done + 1 /\ SameReads(x, y)
                 /\ request' = [request EXCEPT ![r] = y]
                 /\ PoolSound'
    BY <2>1, <2>2, <2>3, AdvanceTo
  <2>5. /\ status' = status /\ extracted' = extracted /\ Created' = Created
        /\ JobsSound' /\ Grow
    BY <2>3, LifecycleStutters DEF lifecycleVars
  <2>6. y.kind = "page" /\ y.done = 1 /\ y.rows = status
    BY <2>1, <2>2, <2>4 DEF SameReads
  <2>7. RequestSound(y, status, extracted, Cardinality(Created))
    BY <2>4, <2>6 DEF RequestSound, PageSound, CountsSound, JobsSound
  <2> QED BY <2>4, <2>5, <2>7, RequestKeeps
<1>3. CASE LoadResults(r)
  <2> DEFINE found == {j \in Jobs : extracted[j]}
             x == [x0 EXCEPT !.results = found]
  <2>1. x0.kind = "page" /\ x0.done = 1 /\ x0.pc = "run"
    BY <1>1, <1>3, AtPlace DEF LoadResults, At
  <2>2. /\ x \in RequestType /\ x.kind = x0.kind /\ x.done = x0.done
        /\ x.rows = x0.rows /\ x.results = found
    BY <1>1 DEF RequestType
  <2>3. Advance(r, x) /\ UNCHANGED lifecycleVars
    BY <1>3 DEF LoadResults
  <2> HIDE DEF x
  <2>4. PICK y : /\ Placed(y) /\ y.done = x.done + 1 /\ SameReads(x, y)
                 /\ request' = [request EXCEPT ![r] = y]
                 /\ PoolSound'
    BY <2>1, <2>2, <2>3, AdvanceTo
  <2>5. /\ status' = status /\ extracted' = extracted /\ Created' = Created
        /\ JobsSound' /\ Grow
    BY <2>3, LifecycleStutters DEF lifecycleVars
  <2>6. y.kind = "page" /\ y.done = 2 /\ y.rows = x0.rows /\ y.results = found
    BY <2>1, <2>2, <2>4 DEF SameReads
  <2>7. PageSound(y, status, extracted)
    BY <1>1, <2>1, <2>6 DEF PageSound
  <2>8. RequestSound(y, status, extracted, Cardinality(Created))
    BY <2>4, <2>6, <2>7 DEF RequestSound, CountsSound
  <2> QED BY <2>4, <2>5, <2>8, RequestKeeps
<1>4. CASE CountRows(r)
  <2> DEFINE n == Cardinality(Created)
             x == [x0 EXCEPT !.total = n]
  <2>1. x0.kind = "page" /\ x0.done = 2 /\ x0.pc = "run"
    BY <1>1, <1>4, AtPlace DEF CountRows, At
  <2>2. Advance(r, x) /\ UNCHANGED lifecycleVars
    BY <1>4 DEF CountRows
  <2>3. n \in Nat
    BY CountsAreNumbers
  <2> HIDE DEF n
  <2>4. /\ x \in RequestType /\ x.kind = x0.kind /\ x.done = x0.done
        /\ x.rows = x0.rows /\ x.results = x0.results /\ x.total = n
    BY <1>1, <2>3 DEF RequestType
  <2> HIDE DEF x
  <2>5. PICK y : /\ Placed(y) /\ y.done = x.done + 1 /\ SameReads(x, y)
                 /\ request' = [request EXCEPT ![r] = y]
                 /\ PoolSound'
    BY <2>1, <2>2, <2>4, AdvanceTo
  <2>6. /\ status' = status /\ extracted' = extracted /\ Created' = Created
        /\ JobsSound' /\ Grow
    BY <2>2, LifecycleStutters DEF lifecycleVars
  <2>7. y.kind = "page" /\ y.done = 3 /\ y.rows = x0.rows /\ y.results = x0.results /\ y.total = n
    BY <2>1, <2>4, <2>5 DEF SameReads
  <2>8. Cardinality(Shown(y)) <= y.total
    <3>1. Shown(y) \in SUBSET Created
      BY <1>1, <2>1, <2>7 DEF Shown, Created, PageSound
    <3> QED BY <2>7, <3>1, CountsAreNumbers, FS_Subset DEF n
  <2>9. PageSound(y, status, extracted)
    BY <1>1, <2>1, <2>7, <2>8 DEF PageSound
  <2>10. RequestSound(y, status, extracted, Cardinality(Created))
    BY <2>5, <2>7, <2>9 DEF RequestSound, CountsSound
  <2> QED BY <2>5, <2>6, <2>10, RequestKeeps
<1>5. CASE CountByStatus(r)
  <2> DEFINE c == [s \in JobStatus |-> InStatus(s)]
             x == [x0 EXCEPT !.counts = c]
  <2>1. x0.kind = "metrics" /\ x0.done = 0 /\ x0.pc = "run"
    BY <1>1, <1>5, AtPlace DEF CountByStatus, At
  <2>2. Advance(r, x) /\ UNCHANGED lifecycleVars
    BY <1>5 DEF CountByStatus
  <2>3. c \in [JobStatus -> Nat] /\ total_jobs(c) = Cardinality(Created)
    BY CountsAreNumbers, CountsAddUp
  <2> HIDE DEF c
  <2>4. /\ x \in RequestType /\ x.kind = x0.kind /\ x.done = x0.done
        /\ x.known = x0.known /\ x.counts = c
    BY <1>1, <2>3 DEF RequestType
  <2> HIDE DEF x
  <2>5. PICK y : /\ Placed(y) /\ y.done = x.done + 1 /\ SameReads(x, y)
                 /\ request' = [request EXCEPT ![r] = y]
                 /\ PoolSound'
    BY <2>1, <2>2, <2>4, AdvanceTo
  <2>6. /\ status' = status /\ extracted' = extracted /\ Created' = Created
        /\ JobsSound' /\ Grow
    BY <2>2, LifecycleStutters DEF lifecycleVars
  <2>7. y.kind = "metrics" /\ y.counts = c /\ y.known = x0.known
    BY <2>1, <2>4, <2>5 DEF SameReads
  <2>8. CountsSound(y, Cardinality(Created))
    <3>1. x0.known <= Cardinality(Created) /\ Cardinality(Created) \in Nat
      BY <1>1, <2>1, CountsAreNumbers DEF CountsSound
    <3>2. y.counts \in [JobStatus -> Nat] /\ total_jobs(y.counts) = Cardinality(Created)
      BY <2>3, <2>7
    <3> HIDE DEF x0
    <3> QED BY <2>7, <3>1, <3>2 DEF CountsSound
  <2>9. RequestSound(y, status, extracted, Cardinality(Created))
    BY <2>5, <2>7, <2>8 DEF RequestSound, PageSound
  <2> QED BY <2>5, <2>6, <2>9, RequestKeeps
<1>6. CASE Depth(r)
  <2>1. x0.kind = "metrics" /\ x0.done = 1 /\ x0.pc = "run"
    BY <1>1, <1>6, AtPlace DEF Depth, At
  <2>2. Advance(r, x0) /\ UNCHANGED lifecycleVars
    BY <1>6 DEF Depth
  <2>3. PICK y : /\ Placed(y) /\ y.done = x0.done + 1 /\ SameReads(x0, y)
                 /\ request' = [request EXCEPT ![r] = y]
                 /\ PoolSound'
    BY <1>1, <2>1, <2>2, AdvanceTo
  <2>4. /\ status' = status /\ extracted' = extracted /\ Created' = Created
        /\ JobsSound' /\ Grow
    BY <2>2, LifecycleStutters DEF lifecycleVars
  <2>5. CountsSound(y, Cardinality(Created)) /\ y.kind = "metrics"
    BY <1>1, <2>1, <2>3 DEF CountsSound, SameReads
  <2>6. RequestSound(y, status, extracted, Cardinality(Created))
    BY <2>3, <2>5 DEF RequestSound, PageSound
  <2> QED BY <2>3, <2>4, <2>6, RequestKeeps
<1>7. CASE Write(r)
  <2>1. x0.kind \in {"upload", "retry"} /\ x0.pc = "run"
    BY <1>1, <1>7, AtPlace DEF Write, At
  <2>2. Advance(r, x0)
    BY <1>7 DEF Write
  <2>3. PICK y : /\ Placed(y) /\ y.done = x0.done + 1 /\ SameReads(x0, y)
                 /\ request' = [request EXCEPT ![r] = y]
                 /\ PoolSound'
    BY <1>1, <2>1, <2>2, AdvanceTo
  <2>4. Next
    <3>1. x0.targets \subseteq Jobs
      BY <1>1 DEF RequestType
    <3> QED BY <1>7, <3>1 DEF Write, Next
  <2>5. JobsSound' /\ Grow
    BY <2>4, LifecycleKeeps
  <2>6. RequestSound(y, status', extracted', Cardinality(Created'))
    BY <2>1, <2>3 DEF RequestSound, PageSound, CountsSound, SameReads
  <2> QED BY <2>3, <2>5, <2>6, RequestKeeps
<1> QED BY <1>2, <1>3, <1>4, <1>5, <1>6, <1>7 DEF Statement

\* A request that is sent, refused, lost or answered: nothing is read.
LEMMA UnreadKeeps ==
    ASSUME DashboardInv, UNCHANGED lifecycleVars, NEW r \in Requests,
           NEW y \in RequestType, y.pc \in {"idle", "connect"}, y.done = 0,
           y.kind = "metrics" => y.known <= Cardinality(Created),
           request' = [request EXCEPT ![r] = y],
           pool' = IF request[r].pc = "run" THEN pool - 1 ELSE pool
    PROVE  JobsSound' /\ RequestsSound' /\ PoolSound'
<1> USE DEF DashboardInv
<1>1. /\ status' = status /\ extracted' = extracted /\ Created' = Created
      /\ JobsSound' /\ Grow
  BY LifecycleStutters DEF lifecycleVars
<1>2. RequestSound(y, status, extracted, Cardinality(Created))
  BY UnreadIsSound
<1>3. RequestsSound'
  BY <1>1, <1>2, RequestKeeps
<1>4. PoolSound'
  BY PoolKeeps
<1> QED BY <1>1, <1>3, <1>4

\* The requests the page sends.
LEMMA SendKeeps ==
    ASSUME DashboardInv, UNCHANGED lifecycleVars, NEW r \in Requests, NEW kind \in Kinds,
           NEW targets \in SUBSET Jobs, Send(r, kind, targets)
    PROVE  JobsSound' /\ RequestsSound' /\ PoolSound'
<1> DEFINE known == IF kind = "metrics" THEN Cardinality(Created) ELSE 0
           b == Blank(kind, "connect")
           y == [b EXCEPT !.targets = targets, !.known = known]
<1>1. b \in RequestType /\ b.kind = kind /\ b.pc = "connect" /\ b.done = 0
  BY BlankType
<1>2. known \in Nat /\ (kind = "metrics" => known <= Cardinality(Created))
  BY CountsAreNumbers
<1>3. request[r].pc = "idle" /\ request' = [request EXCEPT ![r] = y] /\ pool' = pool
  BY DEF Send, Sent
<1> HIDE DEF b, known
<1>4. y \in RequestType /\ y.kind = kind /\ y.pc = "connect" /\ y.done = 0 /\ y.known = known
  BY <1>1, <1>2 DEF RequestType
<1> HIDE DEF y
<1> QED BY <1>2, <1>3, <1>4, UnreadKeeps

\* A connection is taken from the pool.
LEMMA AcquireKeeps ==
    ASSUME DashboardInv, NEW r \in Requests, Acquire(r)
    PROVE  JobsSound' /\ RequestsSound' /\ PoolSound'
<1> USE DEF DashboardInv
<1> DEFINE x == request[r]
           y == [x EXCEPT !.pc = "run"]
<1>1. x \in RequestType /\ RequestSound(x, status, extracted, Cardinality(Created))
  BY DEF RequestsSound
<1>2. /\ x.pc = "connect" /\ pool < PoolSize /\ pool' = pool + 1
      /\ request' = [request EXCEPT ![r] = y] /\ UNCHANGED lifecycleVars
  BY DEF Acquire
<1>3. /\ status' = status /\ extracted' = extracted /\ Created' = Created
      /\ JobsSound' /\ Grow
  BY <1>2, LifecycleStutters DEF lifecycleVars
<1>4. /\ y \in RequestType /\ y.pc = "run" /\ y.done = x.done /\ y.kind = x.kind
      /\ y.known = x.known
  BY <1>1 DEF RequestType
<1>5. x.done = 0 /\ Len(Statements[x.kind]) \in Nat \ {0}
  BY <1>1, <1>2, StatementPlaces DEF RequestSound, Placed, RequestType, Kinds
<1>6. CountsSound(x, Cardinality(Created))
  BY <1>1 DEF RequestSound
<1> HIDE DEF y, x
<1>7. RequestSound(y, status, extracted, Cardinality(Created))
  BY <1>4, <1>5, <1>6 DEF RequestSound, Placed, PageSound, CountsSound
<1>8. RequestsSound'
  BY <1>2, <1>3, <1>7, RequestKeeps
<1>9. PoolSound'
  BY <1>2, <1>4, PoolKeeps DEF x
<1> QED BY <1>3, <1>8, <1>9

\* A request ends without an answer that counts.
LEMMA EndKeeps ==
    ASSUME DashboardInv, UNCHANGED lifecycleVars, NEW r \in Requests,
           request' = [request EXCEPT ![r] = NoRequest],
           pool' = IF request[r].pc = "run" THEN pool - 1 ELSE pool
    PROVE  JobsSound' /\ RequestsSound' /\ PoolSound'
<1>1. /\ NoRequest \in RequestType /\ NoRequest.kind = "page"
      /\ NoRequest.pc = "idle" /\ NoRequest.done = 0
  BY BlankType DEF NoRequest, Kinds
<1> QED BY <1>1, UnreadKeeps

\* Every step of the dashboard, the API and the jobs.
LEMMA NextKeeps == DashboardInv /\ [DashboardNext]_dashVars => DashboardInv'
<1> SUFFICES ASSUME DashboardInv, [DashboardNext]_dashVars PROVE DashboardInv'
  OBVIOUS
<1> USE DEF DashboardInv
<1>1. ASSUME NEW r \in Requests, NEW kind \in {"page", "metrics"}, Poll(r, kind)
      PROVE  DashboardInv'
  BY <1>1, SendKeeps DEF Poll, PageState, Kinds
<1>2. ASSUME NEW r \in Requests, ClickRetry(r)
      PROVE  DashboardInv'
  BY <1>2, SendKeeps DEF ClickRetry, PageState, Kinds
<1>3. ASSUME NEW r \in Requests, SubmitForm(r)
      PROVE  DashboardInv'
  BY <1>3, SendKeeps DEF SubmitForm, PageState, Kinds
<1>4. ASSUME NEW r \in Requests, Serve(r)
      PROVE  DashboardInv'
  BY <1>4, AcquireKeeps, StatementKeeps DEF Serve, PageState
<1>5. ASSUME NEW r \in Requests, Break(r)
      PROVE  DashboardInv'
  <2>1. /\ request' = [request EXCEPT ![r] = NoRequest] /\ UNCHANGED lifecycleVars
        /\ pool' = IF request[r].pc = "run" THEN pool - 1 ELSE pool
    BY <1>5 DEF Break, RequestFails, PoolTimeout, RequestRaises, Lost, Refused
  <2> QED BY <1>5, <2>1, EndKeeps DEF Break, PageState
<1>6. ASSUME NEW r \in Requests, Deliver(r)
      PROVE  DashboardInv'
  <2>1. /\ request' = [request EXCEPT ![r] = NoRequest] /\ UNCHANGED lifecycleVars
        /\ pool' = IF request[r].pc = "run" THEN pool - 1 ELSE pool
    BY <1>6 DEF Deliver
  <2>2. request[r].rows \in [Jobs -> JobStatus \cup {"absent"}]
    BY DEF RequestsSound, RequestType
  <2>3. PageState'
    BY <1>6, <2>2 DEF Deliver, PageState
  <2> QED BY <2>1, <2>3, EndKeeps
<1>7. CASE Refreshed \/ UNCHANGED dashVars
  <2>1. UNCHANGED lifecycleVars /\ request' = request /\ pool' = pool
    BY <1>7 DEF Refreshed, dashVars, readVars
  <2>2. PageState'
    BY <1>7 DEF Refreshed, dashVars, PageState
  <2>3. /\ status' = status /\ extracted' = extracted /\ Created' = Created /\ JobsSound'
    BY <2>1, LifecycleStutters DEF lifecycleVars
  <2>4. RequestsSound'
    BY <2>1, <2>3 DEF RequestsSound
  <2>5. PoolSound'
    BY <2>1 DEF PoolSound, Running
  <2> QED BY <2>2, <2>3, <2>4, <2>5
<1>8. CASE JobsMove
  <2>1. JobsSound' /\ Grow /\ request' = request /\ pool' = pool
    BY <1>8, LifecycleKeeps DEF JobsMove, readVars
  <2>2. RequestsSound'
    BY <2>1, SnapshotsKeep DEF RequestsSound
  <2>3. PoolSound' /\ PageState'
    BY <1>8, <2>1 DEF JobsMove, PoolSound, Running, PageState
  <2> QED BY <2>1, <2>2, <2>3
<1> QED BY <1>1, <1>2, <1>3, <1>4, <1>5, <1>6, <1>7, <1>8 DEF DashboardNext

\* The dashboard starts in the invariant.
LEMMA InitKeeps == DashboardInit => DashboardInv
<1> SUFFICES ASSUME DashboardInit PROVE DashboardInv
  OBVIOUS
<1>1. JobsSound
  BY DEF DashboardInit, Init, JobsSound
<1>2. NoRequest \in RequestType /\ NoRequest.pc = "idle"
  BY BlankType DEF NoRequest, Kinds
<1>3. RequestsSound
  BY <1>2, NoRequestIsSound DEF DashboardInit, ReadsInit, RequestsSound
<1>4. PoolSound
  <2>1. Running = {}
    BY <1>2 DEF DashboardInit, ReadsInit, Running
  <2> QED BY <2>1, FS_EmptySet DEF DashboardInit, ReadsInit, PoolSound
<1>5. PageState
  BY DEF DashboardInit, PageState
<1> QED BY <1>1, <1>3, <1>4, <1>5 DEF DashboardInv

-----------------------------------------------------------------------------
(* The theorems.                                                           *)

\* The invariant holds throughout every behaviour of the dashboard.
THEOREM DashboardInvariant == DashboardSpec => []DashboardInv
BY InitKeeps, NextKeeps, PTL DEF DashboardSpec

\* Type correctness: every request is where its handler has statements for it,
\* and the pool is never overdrawn.
THEOREM DashboardTypeCorrect == DashboardSpec => []DashboardTypeOK
<1>1. DashboardInv => DashboardTypeOK
  <2> SUFFICES ASSUME DashboardInv PROVE DashboardTypeOK
    OBVIOUS
  <2>1. ASSUME NEW r \in Requests
        PROVE  /\ request[r].kind \in DOMAIN Statements
               /\ request[r].pc \in {"idle", "connect", "run", "reply"}
               /\ request[r].done \in 0 .. Len(Statements[request[r].kind])
               /\ request[r].rows \in [Jobs -> JobStatus \cup {"absent"}]
               /\ request[r].results \subseteq Jobs
               /\ request[r].targets \subseteq Jobs
    <3>1. request[r] \in RequestType /\ Placed(request[r])
      BY DEF DashboardInv, RequestsSound, RequestSound
    <3>2. Len(Statements[request[r].kind]) \in Nat /\ request[r].kind \in DOMAIN Statements
      BY <3>1, StatementPlaces DEF RequestType, Kinds
    <3>3. request[r].done \in 0 .. Len(Statements[request[r].kind])
      BY <3>1, <3>2 DEF Placed, RequestType
    <3> QED BY <3>1, <3>2, <3>3 DEF RequestType
  <2>2. pool \in 0 .. PoolSize
    BY RunningIsFinite DEF DashboardInv, PoolSound
  <2> QED BY <2>1, <2>2 DEF DashboardInv, PageState, DashboardTypeOK, ReadsTypeOK
<1> QED BY <1>1, DashboardInvariant, PTL

\* A page is coherent however the jobs move between its three statements.
THEOREM PagesAreCoherent == DashboardSpec => []PageIsCoherent
<1>1. DashboardInv => PageIsCoherent
  <2> SUFFICES ASSUME DashboardInv, NEW r \in Requests,
                      request[r].pc = "reply", request[r].kind = "page"
               PROVE  /\ \A j \in Jobs : request[r].rows[j] = "completed" => j \in request[r].results
                      /\ Cardinality({j \in Jobs : request[r].rows[j] # "absent"}) <= request[r].total
    BY DEF PageIsCoherent, Replied
  <2>1. /\ PageSound(request[r], status, extracted)
        /\ Placed(request[r])
    BY DEF DashboardInv, RequestsSound, RequestSound
  <2>2. request[r].done = 3
    BY <2>1, StatementPlaces DEF Placed
  <2> QED BY <2>1, <2>2 DEF PageSound, Shown
<1> QED BY <1>1, DashboardInvariant, PTL

\* The metrics count every job that existed when they were asked for, and none
\* that does not exist.
THEOREM JobsAreCountedOnce == DashboardSpec => []EveryJobCountedOnce
<1>1. DashboardInv => EveryJobCountedOnce
  <2> SUFFICES ASSUME DashboardInv, NEW r \in Requests,
                      request[r].pc = "reply", request[r].kind = "metrics"
               PROVE  /\ request[r].known <= total_jobs(request[r].counts)
                      /\ total_jobs(request[r].counts) <= Cardinality(Created)
    BY DEF EveryJobCountedOnce, Replied
  <2>1. /\ CountsSound(request[r], Cardinality(Created))
        /\ Placed(request[r])
    BY DEF DashboardInv, RequestsSound, RequestSound
  <2>2. request[r].done = 2
    BY <2>1, StatementPlaces DEF Placed
  <2> QED BY <2>1, <2>2 DEF CountsSound
<1> QED BY <1>1, DashboardInvariant, PTL

\* However requests end, the connections checked out are those of the requests
\* being served.
THEOREM NoConnectionLeaks == DashboardSpec => []ConnectionsReturned
<1>1. DashboardInv => ConnectionsReturned
  BY DEF DashboardInv, PoolSound, Running, ConnectionsReturned
<1> QED BY <1>1, DashboardInvariant, PTL
=============================================================================
