------------------------------ MODULE WorkerPool ------------------------------
(***************************************************************************)
(* The WorkerPool class of src/src/parallel-processor.js and the Node      *)
(* worker threads it drives.                                               *)
(*                                                                         *)
(* Every handler of the class runs to completion on the main thread, so    *)
(* each is one action.  The threads are external: between a postMessage    *)
(* and the event it leads to, the main thread may run any other handler.   *)
(*                                                                         *)
(* Abstractions.  A task is a value; a result is the task it was computed  *)
(* from and whether the worker reported success.  this.workers is a set:   *)
(* `find` takes the first idle worker of the array, the model any idle     *)
(* one.  Tasks are structured-cloneable, so postMessage does not throw.    *)
(***************************************************************************)
EXTENDS Integers, Sequences, FiniteSets

CONSTANTS
  Tasks,          \* the tasks callers may pass to execute(), each once
  None,           \* JavaScript null
  Size,           \* this.size
  MaxWorkers,     \* bound: worker records ever created
  MaxInits,       \* bound: calls of init() that spawn workers
  MaxFaults,      \* bound: threads that die by themselves
  IdleCleanExit,  \* TRUE: a thread may exit with code 0 between two tasks
  EarlyExecute    \* TRUE: execute() may be called before init()

ASSUME PoolAssumption ==
  /\ None \notin Tasks
  /\ Size \in Nat \ {0}
  /\ MaxWorkers \in Nat /\ MaxInits \in Nat /\ MaxFaults \in Nat
  /\ IdleCleanExit \in BOOLEAN /\ EarlyExecute \in BOOLEAN

WorkerIds == 1..MaxWorkers

VARIABLES
  workers,     \* this.workers
  queue,       \* this.queue
  active,      \* this.active
  terminated,  \* this.terminated
  info,        \* the info record of every worker, in the pool or not
  thread,      \* the life of each thread; "reaped": its 'exit' event has fired
  inbox,       \* tasks posted to the thread
  outbox,      \* results posted by the thread, 'message' not fired yet
  events,      \* 'error' and 'exit' events to fire, in order
  promise,     \* the promise execute(t) returned
  answer,      \* the task whose result settled it
  spawned,     \* worker records created so far
  inits,       \* init() calls that spawned
  faults       \* threads that died by themselves

poolVars == <<workers, queue, active, terminated, info>>
threadVars == <<thread, outbox, events>>
callerVars == <<promise, answer>>
boundVars == <<inits, faults>>
vars == <<poolVars, threadVars, inbox, callerVars, spawned, boundVars>>

NewInfo == [busy |-> FALSE, current |-> None, listener |-> None, dead |-> FALSE]
Settled == {"resolved", "rejected"}

Init ==
  /\ workers = {}
  /\ queue = <<>>
  /\ active = 0
  /\ terminated = FALSE
  /\ info = [w \in WorkerIds |-> NewInfo]
  /\ thread = [w \in WorkerIds |-> "unborn"]
  /\ inbox = [w \in WorkerIds |-> <<>>]
  /\ outbox = [w \in WorkerIds |-> <<>>]
  /\ events = [w \in WorkerIds |-> <<>>]
  /\ promise = [t \in Tasks |-> "unborn"]
  /\ answer = [t \in Tasks |-> None]
  /\ spawned = 0
  /\ inits = 0
  /\ faults = 0

-------------------------------------------------------------------------------
(* The dispatcher *)

Idle(pool, inf) == {w \in pool : ~inf[w].busy}

\* Mutant: _assign forgets busy = true.
AssignedNotBusy(r, t) == [r EXCEPT !.current = t, !.listener = t]

\* _assign: the record of a worker that was just given job t.
Assigned(r, t) == [r EXCEPT !.busy = TRUE, !.current = t, !.listener = t]

\* The dispatch loop ends when the queue is empty or every worker is busy.
LoopDone(k, q, took, idle) == k = Len(q) \/ took = idle

\* _dispatch with the pool's fields at the values the caller has just given
\* them: the first k jobs of q go to k distinct idle workers.
Dispatch(q, pool, inf, act) ==
  LET idle == IF terminated THEN {} ELSE Idle(pool, inf) IN
  \E k \in 0..Len(q), took \in SUBSET idle : \E job \in [took -> 1..k] :
    /\ \A v, w \in took : job[v] = job[w] => v = w
    /\ \A i \in 1..k : \E w \in took : job[w] = i
    /\ LoopDone(k, q, took, idle)
    /\ workers' = pool
    /\ queue' = SubSeq(q, k + 1, Len(q))
    /\ active' = act + k
    /\ info' = [w \in WorkerIds |-> IF w \in took THEN Assigned(inf[w], q[job[w]])
                                    ELSE inf[w]]
    /\ inbox' = [w \in WorkerIds |-> IF w \in took THEN Append(inbox[w], q[job[w]])
                                     ELSE inbox[w]]

\* Mutant: the outcome and its source are swapped.
SettleSwapped(t, o, from) == promise' = [promise EXCEPT ![t] = from]
                             /\ answer' = [answer EXCEPT ![t] = o]

\* resolve or reject the promise of t; a settled promise ignores it.
Settle(t, o, from) ==
  IF promise[t] = "pending"
  THEN /\ promise' = [promise EXCEPT ![t] = o]
       /\ answer' = [answer EXCEPT ![t] = from]
  ELSE UNCHANGED callerVars

-------------------------------------------------------------------------------
(* Calls *)

\* init(): a no-op on a live pool; it spawns but does not dispatch.
InitPool ==
  /\ workers = {}
  /\ inits < MaxInits
  /\ spawned + Size <= MaxWorkers
  /\ LET new == spawned + 1 .. spawned + Size IN
     /\ workers' = new
     /\ thread' = [w \in WorkerIds |-> IF w \in new THEN "running" ELSE thread[w]]
  /\ terminated' = FALSE
  /\ spawned' = spawned + Size
  /\ inits' = inits + 1
  /\ UNCHANGED <<queue, active, info, inbox, outbox, events, callerVars, faults>>

Execute(t) ==
  /\ promise[t] = "unborn"
  /\ EarlyExecute \/ inits > 0
  /\ answer' = answer
  /\ IF terminated
     THEN /\ promise' = [promise EXCEPT ![t] = "rejected"]
          /\ UNCHANGED <<poolVars, inbox>>
     ELSE /\ promise' = [promise EXCEPT ![t] = "pending"]
          /\ Dispatch(Append(queue, t), workers, info, active)
          /\ UNCHANGED terminated
  /\ UNCHANGED <<threadVars, spawned, boundVars>>

\* terminate() up to its await: the queue is refused, the threads are asked
\* to stop, and the jobs they hold are left as they are.
Terminate ==
  /\ terminated' = TRUE
  /\ workers' = {}
  /\ queue' = <<>>
  /\ active' = 0
  /\ promise' = [t \in Tasks |->
                   IF promise[t] = "pending" /\ \E i \in DOMAIN queue : queue[i] = t
                   THEN "rejected" ELSE promise[t]]
  /\ thread' = [w \in WorkerIds |-> IF w \in workers /\ thread[w] = "running"
                                    THEN "stopping" ELSE thread[w]]
  /\ UNCHANGED <<info, inbox, outbox, events, answer, spawned, boundVars>>

-------------------------------------------------------------------------------
(* Events on the main thread *)

\* Mutants: onMessage forgets busy = false; it forgets current = null.
AfterMessageBusy(r) == [r EXCEPT !.current = None, !.listener = None]
AfterMessageHeld(r) == [r EXCEPT !.busy = FALSE, !.listener = None]

\* What onMessage leaves of the record; `once` has removed the listener.
AfterMessage(r) == [r EXCEPT !.busy = FALSE, !.current = None, !.listener = None]

\* Mutant: onMessage settles but does not call _dispatch.
OnMessageStalls(w) ==
  /\ outbox[w] # <<>>
  /\ outbox' = [outbox EXCEPT ![w] = Tail(@)]
  /\ info' = [info EXCEPT ![w] = AfterMessage(@)]
  /\ active' = IF info[w].listener = None THEN active ELSE active - 1
  /\ IF info[w].listener = None THEN UNCHANGED callerVars
     ELSE Settle(info[w].listener, "resolved", Head(outbox[w]).task)
  /\ UNCHANGED <<workers, queue, terminated, inbox, thread, events, spawned, boundVars>>

\* The 'message' event.  Without a listener the message is dropped.
OnMessage(w) ==
  /\ outbox[w] # <<>>
  /\ outbox' = [outbox EXCEPT ![w] = Tail(@)]
  /\ LET res == Head(outbox[w])
         job == info[w].listener
     IN IF job = None
        THEN UNCHANGED <<poolVars, inbox, callerVars>>
        ELSE /\ Settle(job, IF res.ok THEN "resolved" ELSE "rejected", res.task)
             /\ Dispatch(queue, workers, [info EXCEPT ![w] = AfterMessage(@)], active - 1)
             /\ UNCHANGED terminated
  /\ UNCHANGED <<thread, events, spawned, boundVars>>

\* What _handleWorkerFailure leaves of the record.
AfterFailure(r) ==
  [r EXCEPT !.busy = FALSE, !.current = None, !.listener = None, !.dead = TRUE]

\* Mutant: the idx test is dropped.
ReplacementOfAny(w) == IF ~terminated THEN {spawned + 1} ELSE {}

\* The worker that replaces one spliced out of this.workers.
Replacement(w) == IF w \in workers /\ ~terminated THEN {spawned + 1} ELSE {}

HandleWorkerFailure(w) ==
  LET job == info[w].current
      new == Replacement(w)
  IN IF info[w].dead
     THEN UNCHANGED <<poolVars, inbox, callerVars, spawned>>
     ELSE /\ new \subseteq WorkerIds
          /\ IF job = None THEN UNCHANGED callerVars ELSE Settle(job, "rejected", None)
          /\ Dispatch(queue, (workers \ {w}) \cup new,
                      [info EXCEPT ![w] = AfterFailure(@)],
                      IF job = None THEN active ELSE active - 1)
          /\ spawned' = IF new = {} THEN spawned ELSE spawned + 1
          /\ UNCHANGED terminated

\* Threads after w's event: the replacement starts, an exited thread is reaped.
ThreadsAfter(w, last) ==
  [v \in WorkerIds |-> IF v = spawned' /\ spawned' > spawned THEN "running"
                       ELSE IF v = w THEN last ELSE thread[v]]

OnError(w) ==
  /\ events[w] # <<>> /\ Head(events[w]) = "error"
  /\ events' = [events EXCEPT ![w] = Tail(@)]
  /\ HandleWorkerFailure(w)
  /\ thread' = ThreadsAfter(w, thread[w])
  /\ UNCHANGED <<outbox, boundVars>>

\* Mutant: only a non-zero code is a failure.
ExitFailsOnCode(w, code) == ~terminated /\ code # "exit0"

\* The condition of the 'exit' listener: this exit is a failure.
ExitFails(w, code) == ~terminated /\ (info[w].current # None \/ code # "exit0")

\* Node fires the messages a thread posted before its 'exit'.
OnExit(w) ==
  /\ events[w] # <<>> /\ Head(events[w]) # "error"
  /\ outbox[w] = <<>>
  /\ events' = [events EXCEPT ![w] = Tail(@)]
  /\ IF ExitFails(w, Head(events[w]))
     THEN HandleWorkerFailure(w)
     ELSE UNCHANGED <<poolVars, inbox, callerVars, spawned>>
  /\ thread' = ThreadsAfter(w, "reaped")
  /\ UNCHANGED <<outbox, boundVars>>

-------------------------------------------------------------------------------
(* The worker threads (external, and src/src/workers) *)

\* The message listener of a worker script: one result for one task.
Work(w, ok) ==
  /\ thread[w] \in {"running", "stopping"}
  /\ inbox[w] # <<>>
  /\ inbox' = [inbox EXCEPT ![w] = Tail(@)]
  /\ outbox' = [outbox EXCEPT ![w] = Append(@, [task |-> Head(inbox[w]), ok |-> ok])]
  /\ UNCHANGED <<poolVars, thread, events, callerVars, spawned, boundVars>>

\* The events a thread leaves behind, by the way it dies.
DeathOf == [uncaught |-> <<"error", "exit1">>, exit1 |-> <<"exit1">>, exit0 |-> <<"exit0">>]

Die(w, how) ==
  /\ thread' = [thread EXCEPT ![w] = "dead"]
  /\ events' = [events EXCEPT ![w] = DeathOf[how]]
  /\ inbox' = [inbox EXCEPT ![w] = <<>>]
  /\ UNCHANGED <<poolVars, outbox, callerVars, spawned, inits>>

\* A thread dies by itself, in the middle of a task or between two.
Fault(w, how) ==
  /\ thread[w] = "running"
  /\ faults < MaxFaults
  /\ how = "exit0" => IdleCleanExit \/ inbox[w] # <<>>
  /\ faults' = faults + 1
  /\ Die(w, how)

\* worker.terminate() takes effect.
Stop(w) ==
  /\ thread[w] = "stopping"
  /\ faults' = faults
  /\ Die(w, "exit1")

-------------------------------------------------------------------------------
Next ==
  \/ InitPool
  \/ Terminate
  \/ \E t \in Tasks : Execute(t)
  \/ \E w \in WorkerIds :
       \/ OnMessage(w) \/ OnError(w) \/ OnExit(w) \/ Stop(w)
       \/ \E ok \in BOOLEAN : Work(w, ok)
       \/ \E how \in DOMAIN DeathOf : Fault(w, how)

\* Threads finish their task or die, and the event loop fires every event.
\* Nothing obliges anyone to call the pool or a thread to fail.
Fairness ==
  \A w \in WorkerIds :
    /\ WF_vars(OnMessage(w)) /\ WF_vars(OnError(w)) /\ WF_vars(OnExit(w))
    /\ WF_vars(Stop(w)) /\ WF_vars(\E ok \in BOOLEAN : Work(w, ok))

Spec == Init /\ [][Next]_vars /\ Fairness
-------------------------------------------------------------------------------
(* Properties *)

TypeOK ==
  /\ workers \in SUBSET WorkerIds
  /\ queue \in Seq(Tasks)
  /\ active \in Int
  /\ terminated \in BOOLEAN
  /\ info \in [WorkerIds -> [busy : BOOLEAN, current : Tasks \cup {None},
                             listener : Tasks \cup {None}, dead : BOOLEAN]]
  /\ thread \in [WorkerIds -> {"unborn", "running", "stopping", "dead", "reaped"}]
  /\ inbox \in [WorkerIds -> Seq(Tasks)]
  /\ outbox \in [WorkerIds -> Seq([task : Tasks, ok : BOOLEAN])]
  /\ events \in [WorkerIds -> Seq({"error", "exit0", "exit1"})]
  /\ promise \in [Tasks -> {"unborn", "pending"} \cup Settled]
  /\ answer \in [Tasks -> Tasks \cup {None}]
  /\ spawned \in 0..MaxWorkers
  /\ inits \in Nat
  /\ faults \in Nat

Queued(t) == \E i \in DOMAIN queue : queue[i] = t
Held(t) == \E w \in WorkerIds : info[w].current = t

\* A task waits only while every worker of the live pool is busy: "called on
\* every enqueue and on every task completion/failure so the queue never stalls"
\* (comment of _dispatch).
WorkConserving == ~terminated /\ queue # <<>> => \A w \in workers : info[w].busy

\* A promise is pending exactly while its job is in one place: one position of
\* the queue or the `current` of one worker.  No crash, late result, respawn or
\* terminate() loses a pending job, duplicates it or revives a settled one.
OneOwner ==
  /\ \A i, j \in DOMAIN queue : queue[i] = queue[j] => i = j
  /\ \A v, w \in WorkerIds : info[v].current = info[w].current /\ info[v].current # None
                               => v = w
  /\ \A t \in Tasks : ~(Queued(t) /\ Held(t))
  /\ \A t \in Tasks : promise[t] = "pending" <=> Queued(t) \/ Held(t)

\* A promise is settled by a result only if the result was computed from its own
\* task, whatever was posted to the worker before or after (_assign, onMessage).
OwnAnswer ==
  \A t \in Tasks : /\ answer[t] \in {None, t}
                   /\ promise[t] = "resolved" => answer[t] = t

\* A live pool keeps its configured capacity across crashes ("respawn a
\* replacement to keep capacity", comment of _handleWorkerFailure).
CapacityKept == inits > 0 /\ ~terminated => Cardinality(workers) = Size

\* A worker whose 'exit' the pool was told of is not in the pool, "so nothing
\* posts to a dead thread" (comment of _handleWorkerFailure).
NoReapedWorker == \A w \in workers : thread[w] # "reaped"

\* execute()'s promise settles unless terminate() tore down the worker that held
\* its job: tasks always drain, through crashes and respawns.
EveryTaskSettles ==
  \A t \in Tasks : promise[t] = "pending"
     ~> promise[t] \in Settled \/ \E w \in WorkerIds \ workers : info[w].current = t

\* The pool implements the abstract server: first come first served, Size
\* places, none empty while a task waits.
Server == INSTANCE TaskServer WITH
            waiting <- queue,
            running <- {info[w].current : w \in workers} \ {None},
            open <- ~terminated /\ workers # {}
ImplementsServer == Server!Spec
===============================================================================
