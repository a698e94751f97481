--------------------------- MODULE DownloadQueue ---------------------------
(***************************************************************************)
(* The queue of URL downloads in src/src/remote_http.c: AT+FETCH puts a    *)
(* job into a small table, one job at a time is fetched through            *)
(* download_fc, and remote_http_download_poll, called from the main loop,  *)
(* retires it and starts another.  Each job owns a numbered file           *)
(* DOWNLOADS/download-NN.dat, and every byte written needs the physical    *)
(* write grant.  The fetch itself is module AutoFetch's; here it is busy   *)
(* until it is done or has failed.  What other modules also have is named  *)
(* with Queue here: HttpServerProofs extends this module and HttpServer.   *)
(***************************************************************************)
EXTENDS Integers, FiniteSets

CONSTANTS
  Depth,        \* M65_DOWNLOAD_QUEUE_DEPTH
  Numbers,      \* how many numbers NN there are; 256 in the code
  MaxRequests   \* bound on the accepted requests

ASSUME QueueAssumption ==
  /\ Depth \in Nat \ {0}
  /\ Numbers \in Nat \ {0} /\ Depth <= Numbers
  /\ MaxRequests \in Nat

VARIABLES
  job,       \* state of each entry of download_jobs
  number,    \* slot of each entry
  active,    \* download_active_job
  next,      \* download_next_slot
  fetch,     \* download_fc
  granted,   \* write_gate_active()
  requests   \* requests accepted so far

queueVars == <<job, number, active, next, fetch, granted, requests>>

Jobs == 0 .. Depth - 1
None == Depth  \* -1 in the code
NumberSet == 0 .. Numbers - 1
Pending == {i \in Jobs : job[i] \in {"queued", "running"}}
InUse == {number[i] : i \in Pending}

Least(S) == CHOOSE i \in S : \A j \in S : i <= j

QueueInit ==
  /\ job = [i \in Jobs |-> "empty"]
  /\ number = [i \in Jobs |-> 0]
  /\ active = None /\ next = 0
  /\ fetch = "none"
  /\ granted \in BOOLEAN
  /\ requests = 0

-----------------------------------------------------------------------------

\* Mutant: download_active_job is set before fetch_start and not reset.
StartJobEarly(i, js) ==
  /\ active' = i
  /\ \/ granted /\ job' = [js EXCEPT ![i] = "running"] /\ fetch' = "busy"
     \/ job' = [js EXCEPT ![i] = "failed"] /\ fetch' = "none"

\* Mutant: a job that cannot be started stays in the queue.
StartJobAgain(i, js) ==
  \/ /\ granted
     /\ job' = [js EXCEPT ![i] = "running"]
     /\ active' = i /\ fetch' = "busy"
  \/ job' = js /\ active' = None /\ fetch' = "none"

\* download_start_job(i) in the table js: fetch_start wants the grant, and
\* may fail for other reasons.
StartJob(i, js) ==
  \/ /\ granted
     /\ job' = [js EXCEPT ![i] = "running"]
     /\ active' = i
     /\ fetch' = "busy"
  \/ /\ job' = [js EXCEPT ![i] = "failed"]
     /\ active' = None
     /\ fetch' = "none"

\* download_start_next_job: the first queued entry of the table, and only
\* that one.
StartNext(js) ==
  LET queued == {i \in Jobs : js[i] = "queued"}
  IN IF queued = {}
       THEN /\ job' = js
            /\ active' = None
            /\ fetch' = "none"
       ELSE StartJob(Least(queued), js)

\* Mutant: a number is free whoever owns it.
AnyNumber(n) == TRUE

\* Mutant: the number does not wrap.
NumberNotWrapped ==
  next + Least({k \in NumberSet : (next + k) % Numbers \notin InUse})

\* download_allocate_slot(-1): the first number after the last one handed
\* out that no pending job owns.
FreeNumber(n) == n \notin InUse
FreeSteps == {k \in NumberSet : FreeNumber((next + k) % Numbers)}
NextNumber == (next + Least(FreeSteps)) % Numbers

\* download_find_free_job
FreeJobs == {i \in Jobs : job[i] \notin {"queued", "running"}}
FreeJob == Least(FreeJobs)

\* remote_http_download_start with number n: with no download active the new
\* job is started at once, ahead of the queue.
Enqueue(n) ==
  /\ granted
  /\ Cardinality({i \in Jobs : job[i] = "queued"})
       + (IF active = None THEN 0 ELSE 1) < Depth
  /\ FreeJobs # {}
  /\ requests < MaxRequests
  /\ requests' = requests + 1
  /\ number' = [number EXCEPT ![FreeJob] = n]
  /\ LET js == [job EXCEPT ![FreeJob] = "queued"]
     IN IF active = None
          THEN StartJob(FreeJob, js)
          ELSE job' = js /\ UNCHANGED <<active, fetch>>

\* AT+FETCH=url.  The number is used up even when the directory of the
\* downloads cannot be created.
RequestAny ==
  /\ FreeSteps # {}
  /\ \/ Enqueue(NextNumber)
     \/ granted /\ UNCHANGED <<job, number, active, fetch, requests>>
  /\ next' = (NextNumber + 1) % Numbers
  /\ UNCHANGED granted

\* AT+FETCH=url NN
RequestNumber ==
  /\ \E n \in NumberSet : FreeNumber(n) /\ Enqueue(n)
  /\ UNCHANGED <<next, granted>>

\* remote_http_download_poll
Poll ==
  /\ \/ /\ active # None /\ fetch = "done"
        /\ StartNext([job EXCEPT ![active] = "done"])
     \/ /\ active # None /\ fetch = "failed"
        /\ StartNext([job EXCEPT ![active] = "failed"])
     \/ /\ active = None
        /\ StartNext(job)
  /\ UNCHANGED <<number, next, granted, requests>>

\* The fetch completes, which its last write allows only under the grant, or
\* fails; its deadlines bound how long it takes.
FetchEnds ==
  /\ fetch = "busy"
  /\ fetch' \in IF granted THEN {"done", "failed"} ELSE {"failed"}
  /\ UNCHANGED <<job, number, active, next, granted, requests>>

\* The switch is operated or the grant times out.
SwitchMoves ==
  /\ granted' = ~granted
  /\ UNCHANGED <<job, number, active, next, fetch, requests>>

QueueNext == RequestAny \/ RequestNumber \/ Poll \/ FetchEnds \/ SwitchMoves

QueueSpec == QueueInit /\ [][QueueNext]_queueVars

\* The main loop polls, and every fetch has a deadline.
QueueFairSpec ==
  QueueSpec /\ WF_queueVars(Poll) /\ WF_queueVars(FetchEnds)

-----------------------------------------------------------------------------
(* Properties.                                                             *)

QueueTypeOK ==
  /\ job \in [Jobs -> {"empty", "queued", "running", "done", "failed"}]
  /\ number \in [Jobs -> NumberSet]
  /\ active \in Jobs \cup {None}
  /\ next \in NumberSet
  /\ fetch \in {"none", "busy", "done", "failed"}
  /\ granted \in BOOLEAN
  /\ requests \in 0 .. MaxRequests

\* download_fc serves the job that is marked as running, and no other job is.
OneRunning ==
  /\ \A i \in Jobs : job[i] = "running" <=> i = active
  /\ fetch = "none" <=> active = None

\* Two jobs that are waiting or running never write the same file.
NumbersDistinct ==
  \A i, j \in Pending : number[i] = number[j] => i = j

\* Once the operator stops asking, every accepted job is fetched or fails.
QueueDrains == \A i \in Jobs : job[i] = "queued" ~> job[i] # "queued"

=============================================================================
