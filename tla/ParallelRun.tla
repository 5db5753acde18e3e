----------------------------- MODULE ParallelRun ------------------------------
(***************************************************************************)
(* processInParallel of src/src/parallel-processor.js: one call, from the  *)
(* size test to the promise it returns, composed with the WorkerPool it    *)
(* creates, drives and terminates.                                         *)
(*                                                                         *)
(* The chunks are the tasks 1..n.  A chunk's processed form is the number  *)
(* of the chunk its result was computed from; 0 stands for a chunk that no *)
(* worker has seen.  Continuations of settled promises are microtasks:     *)
(* they run before the event loop fires the next worker event.             *)
(***************************************************************************)
EXTENDS WorkerPool

CONSTANT Operations   \* operation names tried, known or not

\* The tasks are the numbers of the chunks, from 1 on.
ASSUME ChunkAssumption == Tasks \subseteq Nat \ {0} /\ \A t \in Tasks : 1..t \subseteq Tasks

VARIABLES
  operation, large, n,  \* the arguments: name, isLargeLockfile, chunks.length
  phase,                \* where the call is
  next,                 \* next chunk to hand to pool.execute
  seen,                 \* chunks whose continuation has run
  completed,            \* `completed`
  reported,             \* current values passed to onProgress
  awaited,              \* workers whose termination `finally` awaits
  result                \* what the call will return: a sequence, or <<>>

runVars == <<operation, large, n, phase, next, seen, completed, reported, awaited, result>>
allVars == <<vars, runVars>>

Done == {"returned", "threw"}
Known == {"hash-upgrade", "dedupe", "migration", "validation"}

RunInit ==
  /\ Init
  /\ operation \in Operations
  /\ large \in BOOLEAN
  /\ n \in Tasks
  /\ phase = "call"
  /\ next = 1
  /\ seen = {}
  /\ completed = 0
  /\ reported = <<>>
  /\ awaited = {}
  /\ result = <<>>

\* The chunks handed out so far whose promise the call awaits.
Handed == 1..(next - 1)
Rejected(t) == promise[t] = "rejected"

-------------------------------------------------------------------------------
(* Before the pool *)

Refused == ~large \/ operation = "migration"
\* A single chunk is returned as it is, except for a validation.
Trivial == n = 1 /\ operation # "validation"

Refuse ==
  /\ phase = "call"
  /\ Refused \/ (~Trivial /\ operation \notin Known)
  /\ phase' = "threw"
  /\ UNCHANGED <<vars, operation, large, n, next, seen, completed, reported, awaited, result>>

ReturnChunk ==
  /\ phase = "call"
  /\ ~Refused /\ Trivial
  /\ phase' = "returned"
  /\ result' = <<0>>
  /\ UNCHANGED <<vars, operation, large, n, next, seen, completed, reported, awaited>>

Begin ==
  /\ phase = "call"
  /\ ~Refused /\ ~Trivial /\ operation \in Known
  /\ InitPool
  /\ phase' = "submitting"
  /\ UNCHANGED <<operation, large, n, next, seen, completed, reported, awaited, result>>

-------------------------------------------------------------------------------
(* With the pool *)

\* tasks.map: every chunk is submitted before any worker event can fire.
SubmitNext ==
  /\ phase = "submitting"
  /\ Execute(next)
  /\ next' = next + 1
  /\ phase' = IF next = n THEN "awaiting" ELSE phase
  /\ UNCHANGED <<operation, large, n, seen, completed, reported, awaited, result>>

\* Mutant: the count is reported before it is incremented.
ContinueEarlyReport(t) ==
  /\ t \in Handed /\ t \notin seen /\ promise[t] \in Settled
  /\ seen' = seen \cup {t}
  /\ completed' = IF Rejected(t) THEN completed ELSE completed + 1
  /\ reported' = IF Rejected(t) THEN reported ELSE Append(reported, completed)
  /\ UNCHANGED <<vars, operation, large, n, phase, next, awaited, result>>

\* The continuation after `await pool.execute(task)`, run whatever the phase.
Continue(t) ==
  /\ t \in Handed /\ t \notin seen /\ promise[t] \in Settled
  /\ seen' = seen \cup {t}
  /\ completed' = IF Rejected(t) THEN completed ELSE completed + 1
  /\ reported' = IF Rejected(t) THEN reported ELSE Append(reported, completed')
  /\ UNCHANGED <<vars, operation, large, n, phase, next, awaited, result>>

\* Promise.all is decided by the first rejection or the last result.
Decided == (\E t \in seen : Rejected(t)) \/ seen = 1..n

\* Mutant: the result keeps the slots the continuations filled last first.
MergedReversed == [i \in 1..n |-> answer[n + 1 - i]]
\* Promise.all keeps chunk order; the mergers go through it in that order.
Merged == [i \in 1..n |-> answer[i]]

\* Merge if every chunk resolved; `finally` terminates the pool either way.
Finish ==
  /\ phase = "awaiting"
  /\ Decided
  /\ result' = IF \E t \in seen : Rejected(t) THEN <<>> ELSE Merged
  /\ awaited' = workers
  /\ phase' = "terminating"
  /\ Terminate
  /\ UNCHANGED <<operation, large, n, next, seen, completed, reported>>

\* Promise.all over worker.terminate(): each resolves once its thread exited.
PoolGone == \A w \in awaited : thread[w] = "reaped"

Return ==
  /\ phase = "terminating"
  /\ PoolGone
  /\ phase' = IF result = <<>> THEN "threw" ELSE "returned"
  /\ UNCHANGED <<vars, operation, large, n, next, seen, completed, reported, awaited, result>>

\* No code of the call is ready to run on the main thread.
CallWaits ==
  /\ phase # "submitting"
  /\ \A t \in Handed : promise[t] \in Settled => t \in seen
  /\ ~(phase = "awaiting" /\ Decided)

WorkerEvent(w) == /\ CallWaits
                  /\ OnMessage(w) \/ OnError(w) \/ OnExit(w)
                  /\ UNCHANGED runVars

ThreadStep(w) == /\ \/ Stop(w)
                    \/ \E ok \in BOOLEAN : Work(w, ok)
                 /\ UNCHANGED runVars

ThreadFault(w) == /\ \E how \in DOMAIN DeathOf : Fault(w, how)
                  /\ UNCHANGED runVars

RunNext ==
  \/ Refuse \/ ReturnChunk \/ Begin \/ SubmitNext \/ Finish \/ Return
  \/ \E t \in Tasks : Continue(t)
  \/ \E w \in WorkerIds : WorkerEvent(w) \/ ThreadStep(w) \/ ThreadFault(w)

\* The main thread runs what is ready, threads work or die, events fire.
RunFairness ==
  /\ WF_allVars(Begin) /\ WF_allVars(Refuse) /\ WF_allVars(ReturnChunk)
  /\ WF_allVars(SubmitNext) /\ WF_allVars(Finish) /\ WF_allVars(Return)
  /\ WF_allVars(\E t \in Tasks : Continue(t))
  /\ \A w \in WorkerIds : WF_allVars(WorkerEvent(w)) /\ WF_allVars(ThreadStep(w))

RunSpec == RunInit /\ [][RunNext]_allVars /\ RunFairness

-------------------------------------------------------------------------------
(* Properties *)

ChunksInOrder ==
  phase = "returned" => Len(result) = n /\ \A i \in 1..n : result[i] = i
ThrowsOnFailure == phase = "threw" <=> \E t \in 1..n : Rejected(t)
NoThreadLeft == \A w \in WorkerIds : thread[w] \notin {"running", "stopping"}

\* A call that has settled after starting the pool threw if and only if some
\* chunk failed (a partly processed lockfile would be silent data loss), or else
\* returns every chunk's own result, in chunk order, whatever order the workers
\* answered in and whatever crashed; and either way it leaves no thread running,
\* the replacement of a worker whose crash made it fail included.
AllOrNothing ==
  phase \in Done /\ next > 1 => ChunksInOrder /\ ThrowsOnFailure /\ NoThreadLeft

\* onProgress counts 1, 2, ... without gap or repetition, never past the total
\* and never after the call has settled.
ProgressCounts ==
  [][/\ reported' # reported => reported' = Append(reported, Len(reported) + 1)
     /\ Len(reported') <= n
     /\ phase \in Done => reported' = reported]_<<reported, phase>>

\* The call settles.
CallSettles == phase = "call" ~> phase \in Done
===============================================================================
