------------------------------ MODULE TaskServer ------------------------------
(***************************************************************************)
(* What WorkerPool (src/src/parallel-processor.js) promises to the callers *)
(* of execute(): a first-come first-served server with Size places that    *)
(* never leaves a place empty while a task waits.  It knows nothing of     *)
(* threads, messages, crashes or respawns.                                 *)
(***************************************************************************)
EXTENDS Naturals, Sequences, FiniteSets

CONSTANTS Tasks,  \* the tasks callers may submit, each at most once
          Size    \* number of places

VARIABLES waiting,  \* tasks accepted and not started, in arrival order
          running,  \* tasks that occupy a place
          promise,  \* what the caller of execute(t) sees
          open      \* the server accepts tasks

vars == <<waiting, running, promise, open>>

Outcomes == {"resolved", "rejected"}

Init == /\ waiting = <<>>
        /\ running = {}
        /\ promise = [t \in Tasks |-> "unborn"]
        /\ open = FALSE

\* Start the first k tasks of q beside those of R: as many as there are places.
Admit(q, R) ==
  \E k \in 0..Len(q) :
    LET R2 == R \cup {q[i] : i \in 1..k} IN
    /\ Cardinality(R2) <= Size
    /\ k = Len(q) \/ Cardinality(R2) = Size
    /\ running' = R2
    /\ waiting' = SubSeq(q, k + 1, Len(q))

Open == /\ ~open
        /\ open' = TRUE
        /\ UNCHANGED <<waiting, running, promise>>

Submit(t) ==
  /\ promise[t] = "unborn"
  /\ \/ /\ open
        /\ promise' = [promise EXCEPT ![t] = "pending"]
        /\ Admit(Append(waiting, t), running)
     \/ /\ ~open
        /\ promise' = [promise EXCEPT ![t] = "rejected"]
        /\ UNCHANGED <<waiting, running>>
  /\ UNCHANGED open

\* A started task is answered, or lost with the place it ran on; either way
\* the place is taken at once by the head of the queue.
Finish(t, o) ==
  /\ t \in running
  /\ promise' = [promise EXCEPT ![t] = o]
  /\ Admit(waiting, running \ {t})
  /\ UNCHANGED open

\* Closing refuses what waits and forgets what runs.
Close ==
  /\ open' = FALSE
  /\ promise' = [t \in Tasks |-> IF \E i \in DOMAIN waiting : waiting[i] = t
                                 THEN "rejected" ELSE promise[t]]
  /\ waiting' = <<>>
  /\ running' = {}

\* A forgotten task may still be answered late.
FinishLate(t, o) ==
  /\ promise[t] = "pending"
  /\ t \notin running
  /\ \A i \in DOMAIN waiting : waiting[i] # t
  /\ promise' = [promise EXCEPT ![t] = o]
  /\ UNCHANGED <<waiting, running, open>>

Next == \/ Open
        \/ Close
        \/ \E t \in Tasks : Submit(t)
        \/ \E t \in Tasks, o \in Outcomes : Finish(t, o) \/ FinishLate(t, o)

Spec == Init /\ [][Next]_vars
===============================================================================
