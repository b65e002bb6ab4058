------------------------------ MODULE ParsePool -----------------------------
(***************************************************************************)
(* The parse pool of the indexer (Indexer.parse) and the check its caller  *)
(* makes of it.  The caller's goroutine sends the files over an unbuffered *)
(* channel and then collects results; workers extract; one more goroutine  *)
(* closes the results when all workers have gone.  A cancelled context     *)
(* stops each of them at another point.  A select with several ready cases *)
(* takes any of them.                                                      *)
(***************************************************************************)
EXTENDS Integers, Sequences, FiniteSets

CONSTANTS
  FileCount,  \* how many files are to be parsed; they are 1 .. FileCount
  Workers     \* config.WorkerCount()

ASSUME PoolAssumption == FileCount \in Nat /\ Workers \in Nat \ {0}

VARIABLES
  main,       \* the caller's goroutine
  next,       \* the file it sends next
  worker,     \* the step of each worker, and the file it has
  jobs,       \* the jobs channel: "open", "closed"
  results,    \* what the results channel holds
  closed,     \* the results channel is closed
  collected,  \* what parse returns
  cancelled   \* ctx.Done() is closed

pool == <<main, next, worker, jobs, results, closed, collected, cancelled>>

File == 1 .. FileCount
Doing(step, file) == [step |-> step, file |-> file]
Selecting == Doing("select", 0)
Gone == Doing("gone", 0)

\* At most one worker for a file; without a file they are all started.
Pool == IF Workers > FileCount /\ FileCount > 0 THEN 1 .. FileCount ELSE 1 .. Workers

InitPool ==
  /\ main = "send" /\ next = 1
  /\ worker = [w \in Pool |-> Selecting]
  /\ jobs = "open"
  /\ results = <<>> /\ closed = FALSE
  /\ collected = <<>>
  /\ cancelled = FALSE

-----------------------------------------------------------------------------
(* Workers                                                                 *)

\* jobs <- file, received by a worker that selects.
Hand(w) ==
  /\ main = "send" /\ next <= FileCount
  /\ worker[w] = Selecting
  /\ worker' = [worker EXCEPT ![w] = Doing("extract", next)]
  /\ next' = next + 1
  /\ UNCHANGED <<main, jobs, results, closed, collected, cancelled>>

\* Extract returns, with an extraction or an error.
Extract(w) ==
  /\ worker[w].step = "extract"
  /\ worker' = [worker EXCEPT ![w].step = "deliver"]
  /\ UNCHANGED <<main, next, jobs, results, closed, collected, cancelled>>

\* The channel has room for every file.
Deliver(w) ==
  /\ worker[w].step = "deliver"
  /\ Len(results) < FileCount
  /\ results' = Append(results, worker[w].file)
  /\ worker' = [worker EXCEPT ![w] = Selecting]
  /\ UNCHANGED <<main, next, jobs, closed, collected, cancelled>>

\* Faulty variant: a worker goes once the files are all handed out.
LeaveEarly(w) ==
  /\ \/ worker[w].step \in {"select", "deliver"} /\ cancelled
     \/ worker[w].step \in {"select", "deliver"} /\ jobs = "closed"
  /\ worker' = [worker EXCEPT ![w] = Gone]
  /\ UNCHANGED <<main, next, jobs, results, closed, collected, cancelled>>

\* Faulty variant: a worker with a result does not look at the context, and
\* one that selects goes only when it is cancelled.
LeaveOnCancel(w) ==
  /\ worker[w].step = "select" /\ cancelled
  /\ worker' = [worker EXCEPT ![w] = Gone]
  /\ UNCHANGED <<main, next, jobs, results, closed, collected, cancelled>>

\* defer wg.Done(): the context is cancelled, or the jobs are closed.
Leave(w) ==
  /\ \/ worker[w].step \in {"select", "deliver"} /\ cancelled
     \/ worker[w].step = "select" /\ jobs = "closed"
  /\ worker' = [worker EXCEPT ![w] = Gone]
  /\ UNCHANGED <<main, next, jobs, results, closed, collected, cancelled>>

\* wg.Wait(); close(results)
CloseResults ==
  /\ ~closed
  /\ \A w \in Pool : worker[w] = Gone
  /\ closed' = TRUE
  /\ UNCHANGED <<main, next, worker, jobs, results, collected, cancelled>>

-----------------------------------------------------------------------------
(* The caller                                                              *)

\* The loop over the files ends, or ctx.Done() breaks it; close(jobs).
StopSending ==
  /\ main = "send"
  /\ next > FileCount \/ cancelled
  /\ main' = "collect" /\ jobs' = "closed"
  /\ UNCHANGED <<next, worker, results, closed, collected, cancelled>>

Collect ==
  /\ main = "collect"
  /\ results # <<>>
  /\ collected' = Append(collected, Head(results))
  /\ results' = Tail(results)
  /\ UNCHANGED <<main, next, worker, jobs, closed, cancelled>>

\* The results are closed and drained: parse returns.
Return ==
  /\ main = "collect"
  /\ results = <<>> /\ closed
  /\ main' = "check"
  /\ UNCHANGED <<next, worker, jobs, results, closed, collected, cancelled>>

\* Faulty variant: the caller takes what parse returned.
CheckNothing ==
  /\ main = "check"
  /\ main' = "used"
  /\ UNCHANGED <<next, worker, jobs, results, closed, collected, cancelled>>

\* The caller: if err := ctx.Err(); err != nil, the run ends.
Check ==
  /\ main = "check"
  /\ main' = IF cancelled THEN "abandoned" ELSE "used"
  /\ UNCHANGED <<next, worker, jobs, results, closed, collected, cancelled>>

\* A signal, a client that goes, a deadline.
Cancel ==
  /\ ~cancelled
  /\ main \notin {"used", "abandoned"}
  /\ cancelled' = TRUE
  /\ UNCHANGED <<main, next, worker, jobs, results, closed, collected>>

-----------------------------------------------------------------------------

Sender == StopSending \/ Collect \/ Return \/ Check \/ \E w \in Pool : Hand(w)

PoolDone == main \in {"used", "abandoned"} /\ UNCHANGED pool

NextPool ==
  \/ \E w \in Pool : Hand(w) \/ Extract(w) \/ Deliver(w) \/ Leave(w)
  \/ CloseResults
  \/ StopSending \/ Collect \/ Return \/ Check
  \/ Cancel
  \/ PoolDone

PoolSpec == InitPool /\ [][NextPool]_pool

\* Every goroutine that can go on does; nothing says the context is cancelled.
PoolFairness ==
  /\ \A w \in Pool : WF_pool(Extract(w) \/ Deliver(w) \/ Leave(w))
  /\ WF_pool(CloseResults)
  /\ WF_pool(Sender)

FairPoolSpec == PoolSpec /\ PoolFairness

-----------------------------------------------------------------------------
(* Properties                                                              *)

PoolTypeOK ==
  /\ main \in {"send", "collect", "check", "used", "abandoned"}
  /\ next \in 1 .. FileCount + 1
  /\ worker \in [Pool -> [step : {"select", "extract", "deliver", "gone"}, file : 0 .. FileCount]]
  /\ jobs \in {"open", "closed"}
  /\ results \in Seq(File) /\ Len(results) <= FileCount
  /\ collected \in Seq(File) /\ Len(collected) <= FileCount
  /\ closed \in BOOLEAN /\ cancelled \in BOOLEAN

\* Results the caller goes on with are those of all files, each once: a file
\* whose result is lost would keep its old rows under the new revision
\* (indexer.go 179-256).
UsesAllFiles ==
  main = "used" =>
    /\ {collected[k] : k \in DOMAIN collected} = File
    /\ Len(collected) = FileCount

\* parse returns, cancelled at any moment or never: no worker, sender or
\* collector waits for one that is gone.
Returns == <>(main \in {"used", "abandoned"})

=============================================================================
