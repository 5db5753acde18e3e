--------------------------- MODULE WorkerPoolProofs ---------------------------
(***************************************************************************)
(* The safety properties of WorkerPool, for every number of tasks, workers *)
(* and faults, then those of a processInParallel call.  The call drives a  *)
(* pool, so what is proved of the pool's steps is used for it and not      *)
(* proved again; nothing about the pool rests on ChunkAssumption.  The     *)
(* parts of the inductive invariant are operators of the fields they speak *)
(* of, so that what a dispatch does to them is proved once, for whatever a *)
(* handler hands to _dispatch.                                             *)
(***************************************************************************)
EXTENDS ParallelRun, FiniteSetTheorems, TLAPS

Record == [busy : BOOLEAN, current : Tasks \cup {None},
           listener : Tasks \cup {None}, dead : BOOLEAN]

\* A record is busy, holds a job and listens for its answer, or none of these;
\* a dead one has left the pool and holds nothing.
Coherent(pool, inf) ==
  \A w \in WorkerIds :
    /\ inf[w].listener = inf[w].current
    /\ inf[w].busy <=> inf[w].current # None
    /\ inf[w].dead => w \notin pool /\ inf[w].current = None

In(q, t) == \E i \in DOMAIN q : q[i] = t
HeldIn(inf, t) == \E w \in WorkerIds : inf[w].current = t

\* OneOwner, of a queue, records and promises not yet assigned.
Owned(q, inf, prom) ==
  /\ \A i, j \in DOMAIN q : q[i] = q[j] => i = j
  /\ \A v, w \in WorkerIds : inf[v].current = inf[w].current /\ inf[v].current # None
                               => v = w
  /\ \A t \in Tasks : ~(In(q, t) /\ HeldIn(inf, t))
  /\ \A t \in Tasks : prom[t] = "pending" <=> In(q, t) \/ HeldIn(inf, t)

\* Between the main thread and a worker there is at most one message, and it is
\* about the job the worker holds.
Mailed(inf, ib, ob) ==
  \A w \in WorkerIds : ~inf[w].dead =>
    /\ Len(ib[w]) + Len(ob[w]) <= 1
    /\ \A i \in DOMAIN ib[w] : ib[w][i] = inf[w].current
    /\ \A i \in DOMAIN ob[w] : ob[w][i].task = inf[w].current

\* Workers that do not exist yet have no record, thread, message or event.
Unspawned ==
  \A w \in WorkerIds :
    /\ w \in workers => w <= spawned /\ thread[w] # "unborn"
    /\ w > spawned => /\ info[w] = NewInfo
                      /\ thread[w] = "unborn"
                      /\ inbox[w] = <<>> /\ outbox[w] = <<>> /\ events[w] = <<>>

\* The events still to fire for a thread, and why a code 0 means a lost job.
Deaths ==
  \A w \in WorkerIds :
    /\ events[w] \in {<<>>, <<"error", "exit1">>, <<"exit1">>, <<"exit0">>}
    /\ ~IdleCleanExit /\ events[w] = <<"exit0">> /\ w \in workers
         => info[w].current # None /\ outbox[w] = <<>>
    /\ events[w] # <<>> => thread[w] = "dead"
    /\ ~IdleCleanExit /\ w \in workers => thread[w] # "reaped"

\* What terminate() leaves, and where a queue can build up.
PoolLife ==
  /\ terminated => workers = {} /\ queue = <<>>
  /\ inits = 0 => workers = {}
  /\ inits = 0 /\ ~EarlyExecute => queue = <<>>
  /\ CapacityKept

IInv ==
  /\ TypeOK
  /\ Coherent(workers, info)
  /\ Owned(queue, info, promise)
  /\ Mailed(info, inbox, outbox)
  /\ Unspawned
  /\ Deaths
  /\ PoolLife
  /\ OwnAnswer
  /\ ~EarlyExecute => WorkConserving

-------------------------------------------------------------------------------
(* What _dispatch does, whatever the handler that calls it has done before *)

Free(pool, inf) == IF terminated THEN {} ELSE Idle(pool, inf)

\* One way to dispatch, as the definition has it: the first k jobs of q go to
\* the workers of took.
Given(q, pool, inf, act, k, took, job) ==
  /\ \A v, w \in took : job[v] = job[w] => v = w
  /\ \A i \in 1..k : \E w \in took : job[w] = i
  /\ LoopDone(k, q, took, Free(pool, inf))
  /\ workers' = pool
  /\ queue' = SubSeq(q, k + 1, Len(q))
  /\ active' = act + k
  /\ info' = [w \in WorkerIds |-> IF w \in took THEN Assigned(inf[w], q[job[w]])
                                  ELSE inf[w]]
  /\ inbox' = [w \in WorkerIds |-> IF w \in took THEN Append(inbox[w], q[job[w]])
                                   ELSE inbox[w]]

\* The same, worker by worker and field by field.
Chosen(q, pool, inf, act, k, took, job) ==
  /\ \A v, w \in took : job[v] = job[w] => v = w
  /\ \A i \in 1..k : \E w \in took : job[w] = i
  /\ LoopDone(k, q, took, Free(pool, inf))
  /\ workers' = pool
  /\ queue' = SubSeq(q, k + 1, Len(q))
  /\ active' = act + k
  /\ info' \in [WorkerIds -> Record]
  /\ inbox' \in [WorkerIds -> Seq(Tasks)]
  /\ \A w \in took : /\ w \in pool /\ ~inf[w].busy
                     /\ q[job[w]] \in Tasks
                     /\ info'[w].busy
                     /\ info'[w].current = q[job[w]]
                     /\ info'[w].listener = q[job[w]]
                     /\ info'[w].dead = inf[w].dead
                     /\ inbox'[w] = Append(inbox[w], q[job[w]])
  /\ \A w \in WorkerIds \ took : info'[w] = inf[w] /\ inbox'[w] = inbox[w]

\* Every dispatch is one of these ways.
LEMMA DispatchChoice ==
  ASSUME TypeOK, NEW q \in Seq(Tasks), NEW pool \in SUBSET WorkerIds,
         NEW inf \in [WorkerIds -> Record], NEW act \in Int, Dispatch(q, pool, inf, act)
  PROVE  \E k \in 0..Len(q), took \in SUBSET Free(pool, inf) : \E job \in [took -> 1..k] :
           Chosen(q, pool, inf, act, k, took, job)
<1>1. \E k \in 0..Len(q), took \in SUBSET Free(pool, inf) : \E job \in [took -> 1..k] :
        Given(q, pool, inf, act, k, took, job)
  BY DEF Dispatch, Given, Free
<1>2. PICK k \in 0..Len(q), took \in SUBSET Free(pool, inf) :
        \E job \in [took -> 1..k] : Given(q, pool, inf, act, k, took, job)
  BY <1>1
<1>3. PICK job \in [took -> 1..k] : Given(q, pool, inf, act, k, took, job)
  BY <1>2
<1>4. ASSUME NEW w \in took
      PROVE  /\ w \in pool /\ w \in WorkerIds /\ ~inf[w].busy
             /\ q[job[w]] \in Tasks
             /\ info'[w] \in Record
             /\ info'[w].busy
             /\ info'[w].current = q[job[w]]
             /\ info'[w].listener = q[job[w]]
             /\ info'[w].dead = inf[w].dead
             /\ inbox'[w] = Append(inbox[w], q[job[w]])
  <2>1. w \in pool /\ w \in WorkerIds /\ ~inf[w].busy
    BY DEF Free, Idle
  <2>2. q[job[w]] \in Tasks
    OBVIOUS
  <2>3. info'[w] = Assigned(inf[w], q[job[w]]) /\ inbox'[w] = Append(inbox[w], q[job[w]])
    BY <1>3, <2>1 DEF Given
  <2>4. inf[w] \in Record
    BY <2>1
  <2> QED BY <2>1, <2>2, <2>3, <2>4 DEF Assigned, Record
<1>5. \A w \in WorkerIds \ took : info'[w] = inf[w] /\ inbox'[w] = inbox[w]
  BY <1>3 DEF Given
<1>6. info' \in [WorkerIds -> Record]
  <2>1. \A w \in WorkerIds : info'[w] \in Record
    BY <1>4, <1>5
  <2>2. info' = [w \in WorkerIds |-> info'[w]]
    BY <1>3 DEF Given
  <2> QED BY <2>1, <2>2
<1>7. inbox' \in [WorkerIds -> Seq(Tasks)]
  BY <1>3, <1>4 DEF Given, TypeOK
<1>8. Chosen(q, pool, inf, act, k, took, job)
  BY <1>3, <1>4, <1>5, <1>6, <1>7 DEF Given, Chosen
<1> QED BY <1>8

\* Dispatch leaves the pool's fields well typed.
LEMMA DispatchTypes ==
  ASSUME TypeOK, NEW q \in Seq(Tasks), NEW pool \in SUBSET WorkerIds,
         NEW inf \in [WorkerIds -> Record], NEW act \in Int, Dispatch(q, pool, inf, act)
  PROVE  /\ workers' = pool
         /\ queue' \in Seq(Tasks)
         /\ active' \in Int
         /\ info' \in [WorkerIds -> Record]
         /\ inbox' \in [WorkerIds -> Seq(Tasks)]
<1>1. PICK k \in 0..Len(q), took \in SUBSET Free(pool, inf) :
        \E job \in [took -> 1..k] : Chosen(q, pool, inf, act, k, took, job)
  BY DispatchChoice
<1>2. PICK job \in [took -> 1..k] : Chosen(q, pool, inf, act, k, took, job)
  BY <1>1
<1> QED BY <1>2 DEF Chosen

\* Only idle workers of the pool are given a job, and no one else is touched.
LEMMA DispatchLocal ==
  ASSUME TypeOK, NEW q \in Seq(Tasks), NEW pool \in SUBSET WorkerIds,
         NEW inf \in [WorkerIds -> Record], NEW act \in Int, Dispatch(q, pool, inf, act),
         NEW w \in WorkerIds
  PROVE  /\ w \notin pool \/ inf[w].busy => info'[w] = inf[w] /\ inbox'[w] = inbox[w]
         /\ info'[w].dead = inf[w].dead
         /\ inf[w].busy => info'[w].busy
<1>1. PICK k \in 0..Len(q), took \in SUBSET Free(pool, inf) :
        \E job \in [took -> 1..k] : Chosen(q, pool, inf, act, k, took, job)
  BY DispatchChoice
<1>2. PICK job \in [took -> 1..k] : Chosen(q, pool, inf, act, k, took, job)
  BY <1>1
<1> QED BY <1>2 DEF Chosen

\* The loop stops only when nothing is left to give or no one to give it to.
LEMMA DispatchDrains ==
  ASSUME TypeOK, NEW q \in Seq(Tasks), NEW pool \in SUBSET WorkerIds,
         NEW inf \in [WorkerIds -> Record], NEW act \in Int, Dispatch(q, pool, inf, act)
  PROVE  /\ terminated \/ queue' = <<>> \/ \A w \in pool : info'[w].busy
         /\ q = <<>> => queue' = <<>>
         /\ pool = {} => queue' = q
<1>1. PICK k \in 0..Len(q), took \in SUBSET Free(pool, inf) :
        \E job \in [took -> 1..k] : Chosen(q, pool, inf, act, k, took, job)
  BY DispatchChoice
<1>2. PICK job \in [took -> 1..k] : Chosen(q, pool, inf, act, k, took, job)
  BY <1>1
<1>3. queue' = SubSeq(q, k + 1, Len(q))
  BY <1>2 DEF Chosen
<1>4. k = Len(q) => queue' = <<>>
  BY <1>3
<1>5. took = Free(pool, inf) /\ ~terminated => \A w \in pool : info'[w].busy
  <2>1. ASSUME took = Idle(pool, inf), NEW w \in pool PROVE info'[w].busy
    <3>1. CASE w \in took
      BY <1>2, <3>1 DEF Chosen
    <3>2. CASE w \notin took
      BY <1>2, <2>1, <3>2 DEF Idle, Chosen
    <3> QED BY <3>1, <3>2
  <2> QED BY <2>1 DEF Free
<1>6. pool = {} => k = 0
  BY <1>2 DEF Chosen, Free, Idle
<1>7. pool = {} => queue' = q
  BY <1>3, <1>6
<1>8. k = Len(q) \/ took = Free(pool, inf)
  BY <1>2 DEF Chosen, LoopDone
<1>9. q = <<>> => k = Len(q)
  OBVIOUS
<1> QED BY <1>4, <1>5, <1>7, <1>8, <1>9

\* Records stay coherent: a chosen worker gets all three fields.
LEMMA DispatchCoherent ==
  ASSUME TypeOK, NEW q \in Seq(Tasks), NEW pool \in SUBSET WorkerIds,
         NEW inf \in [WorkerIds -> Record], NEW act \in Int, Dispatch(q, pool, inf, act),
         Coherent(pool, inf)
  PROVE  Coherent(pool, info')
<1>1. PICK k \in 0..Len(q), took \in SUBSET Free(pool, inf) :
        \E job \in [took -> 1..k] : Chosen(q, pool, inf, act, k, took, job)
  BY DispatchChoice
<1>2. PICK job \in [took -> 1..k] : Chosen(q, pool, inf, act, k, took, job)
  BY <1>1
<1>3. ASSUME NEW w \in WorkerIds
      PROVE  /\ info'[w].listener = info'[w].current
             /\ info'[w].busy <=> info'[w].current # None
             /\ info'[w].dead => w \notin pool /\ info'[w].current = None
  <2>1. CASE w \in took
    <3>1. /\ info'[w].busy = TRUE /\ info'[w].dead = inf[w].dead
          /\ info'[w].listener = info'[w].current
          /\ info'[w].current \in Tasks /\ w \in pool
      BY <1>2, <2>1 DEF Chosen
    <3>2. info'[w].current # None
      BY <3>1, PoolAssumption DEF PoolAssumption
    <3> QED BY <3>1, <3>2 DEF Coherent
  <2>2. CASE w \notin took
    <3>1. info'[w] = inf[w]
      BY <1>2, <2>2 DEF Chosen
    <3> QED BY <3>1 DEF Coherent
  <2> QED BY <2>1, <2>2
<1> QED BY <1>3 DEF Coherent

\* A job leaves the queue for exactly one worker.
LEMMA DispatchOwned ==
  ASSUME TypeOK, NEW q \in Seq(Tasks), NEW pool \in SUBSET WorkerIds,
         NEW inf \in [WorkerIds -> Record], NEW act \in Int, Dispatch(q, pool, inf, act),
         Coherent(pool, inf), NEW prom, Owned(q, inf, prom)
  PROVE  Owned(queue', info', prom)
<1>1. PICK k \in 0..Len(q), took \in SUBSET Free(pool, inf) :
        \E job \in [took -> 1..k] : Chosen(q, pool, inf, act, k, took, job)
  BY DispatchChoice
<1>2. PICK job \in [took -> 1..k] : Chosen(q, pool, inf, act, k, took, job)
  BY <1>1
<1>3. \A w \in took : q[job[w]] \in Tasks /\ w \in WorkerIds /\ inf[w].current = None
  BY DEF Free, Idle, Coherent
<1>4. \A w \in WorkerIds : info'[w].current = IF w \in took THEN q[job[w]]
                                              ELSE inf[w].current
  BY <1>2 DEF Chosen
<1>5. /\ queue' \in Seq(Tasks)
      /\ Len(queue') = Len(q) - k
      /\ \A i \in 1..Len(queue') : queue'[i] = q[i + k]
  BY <1>2 DEF Chosen
<1>6. \A t \in Tasks : In(queue', t) <=> \E i \in (k + 1)..Len(q) : q[i] = t
  <2> TAKE t \in Tasks
  <2>1. ASSUME NEW i \in (k + 1)..Len(q), q[i] = t PROVE In(queue', t)
    <3>1. i - k \in 1..Len(queue') /\ queue'[i - k] = t
      BY <1>5, <2>1
    <3> QED BY <3>1, <1>5 DEF In
  <2>2. ASSUME In(queue', t) PROVE \E i \in (k + 1)..Len(q) : q[i] = t
    <3>1. PICK i \in 1..Len(queue') : queue'[i] = t
      BY <2>2, <1>5 DEF In
    <3>2. i + k \in (k + 1)..Len(q) /\ q[i + k] = t
      BY <1>5, <3>1
    <3> QED BY <3>2
  <2> QED BY <2>1, <2>2
<1>7. \A t \in Tasks : HeldIn(info', t) <=> HeldIn(inf, t) \/ \E i \in 1..k : q[i] = t
  <2> TAKE t \in Tasks
  <2>1. ASSUME HeldIn(inf, t) PROVE HeldIn(info', t)
    <3>1. PICK w \in WorkerIds : inf[w].current = t
      BY <2>1 DEF HeldIn
    <3>2. t # None
      BY PoolAssumption DEF PoolAssumption
    <3>3. w \notin took
      BY <1>3, <3>1, <3>2
    <3> QED BY <1>4, <3>1, <3>3 DEF HeldIn
  <2>2. ASSUME NEW i \in 1..k, q[i] = t PROVE HeldIn(info', t)
    <3>1. PICK w \in took : job[w] = i
      BY <1>2 DEF Chosen
    <3> QED BY <1>3, <1>4, <2>2, <3>1 DEF HeldIn
  <2>3. ASSUME HeldIn(info', t) PROVE HeldIn(inf, t) \/ \E i \in 1..k : q[i] = t
    <3>1. PICK w \in WorkerIds : info'[w].current = t
      BY <2>3 DEF HeldIn
    <3>2. CASE w \in took
      BY <1>4, <3>1, <3>2
    <3>3. CASE w \notin took
      BY <1>4, <3>1, <3>3 DEF HeldIn
    <3> QED BY <3>2, <3>3
  <2> QED BY <2>1, <2>2, <2>3
<1>8. \A t \in Tasks : In(q, t) <=> \E i \in 1..Len(q) : q[i] = t
  BY DEF In
<1>9. \A i, j \in 1..Len(q) : q[i] = q[j] => i = j
  BY DEF Owned
<1>10. \A i, j \in DOMAIN queue' : queue'[i] = queue'[j] => i = j
  <2> SUFFICES ASSUME NEW i \in 1..Len(queue'), NEW j \in 1..Len(queue'),
                      queue'[i] = queue'[j]
               PROVE  i = j
    BY <1>5
  <2>1. i + k \in 1..Len(q) /\ j + k \in 1..Len(q) /\ q[i + k] = q[j + k]
    BY <1>5
  <2>2. i + k = j + k
    BY <1>9, <2>1
  <2> QED BY <1>5, <2>2
<1>11. ASSUME NEW v \in WorkerIds, NEW w \in WorkerIds,
              info'[v].current = info'[w].current, info'[v].current # None
       PROVE  v = w
  <2>1. CASE v \in took /\ w \in took
    <3>1. job[v] \in 1..Len(q) /\ job[w] \in 1..Len(q) /\ q[job[v]] = q[job[w]]
      BY <1>4, <1>11, <2>1
    <3>2. job[v] = job[w]
      BY <1>9, <3>1
    <3> QED BY <1>2, <2>1, <3>2 DEF Chosen
  <2>2. CASE v \notin took /\ w \notin took
    BY <1>4, <1>11, <2>2 DEF Owned
  <2>3. ASSUME NEW x \in took, NEW y \in WorkerIds \ took, q[job[x]] = inf[y].current
        PROVE  FALSE
    <3>1. In(q, q[job[x]]) /\ HeldIn(inf, q[job[x]]) /\ q[job[x]] \in Tasks
      BY <1>3, <2>3 DEF In, HeldIn
    <3> QED BY <3>1 DEF Owned
  <2> QED BY <1>4, <1>11, <2>1, <2>2, <2>3
<1>12. \A t \in Tasks : ~(In(queue', t) /\ HeldIn(info', t))
  <2> SUFFICES ASSUME NEW t \in Tasks, In(queue', t), HeldIn(info', t) PROVE FALSE
    OBVIOUS
  <2>1. PICK i \in (k + 1)..Len(q) : q[i] = t
    BY <1>6
  <2>2. In(q, t)
    BY <1>8, <2>1
  <2>3. ~HeldIn(inf, t)
    BY <2>2 DEF Owned
  <2>4. PICK j \in 1..k : q[j] = t
    BY <1>7, <2>3
  <2> QED BY <1>9, <2>1, <2>4
<1>13. ASSUME NEW t \in Tasks
       PROVE In(q, t) \/ HeldIn(inf, t) <=> In(queue', t) \/ HeldIn(info', t)
  <2>1. (\E i \in 1..Len(q) : q[i] = t)
          <=> (\E i \in 1..k : q[i] = t) \/ (\E i \in (k + 1)..Len(q) : q[i] = t)
    OBVIOUS
  <2> QED BY <1>6, <1>7, <1>8, <2>1
<1>14. \A t \in Tasks : prom[t] = "pending" <=> In(queue', t) \/ HeldIn(info', t)
  BY <1>13 DEF Owned
<1> QED BY <1>10, <1>11, <1>12, <1>14 DEF Owned

\* The message posted is about the job just taken.
LEMMA DispatchMailed ==
  ASSUME TypeOK, NEW q \in Seq(Tasks), NEW pool \in SUBSET WorkerIds,
         NEW inf \in [WorkerIds -> Record], NEW act \in Int, Dispatch(q, pool, inf, act),
         Coherent(pool, inf), NEW ob \in [WorkerIds -> Seq([task : Tasks, ok : BOOLEAN])],
         Mailed(inf, inbox, ob)
  PROVE  Mailed(info', inbox', ob)
<1>1. PICK k \in 0..Len(q), took \in SUBSET Free(pool, inf) :
        \E job \in [took -> 1..k] : Chosen(q, pool, inf, act, k, took, job)
  BY DispatchChoice
<1>2. PICK job \in [took -> 1..k] : Chosen(q, pool, inf, act, k, took, job)
  BY <1>1
<1>3. ASSUME NEW w \in took
      PROVE  /\ w \in WorkerIds /\ inf[w].current = None /\ ~inf[w].dead
             /\ q[job[w]] \in Tasks
  BY DEF Free, Idle, Coherent
<1>4. ASSUME NEW w \in took PROVE inbox[w] = <<>> /\ ob[w] = <<>>
  <2>1. /\ inbox[w] \in Seq(Tasks) /\ ob[w] \in Seq([task : Tasks, ok : BOOLEAN])
        /\ \A i \in DOMAIN inbox[w] : inbox[w][i] = None
        /\ \A i \in DOMAIN ob[w] : ob[w][i].task = None
    BY <1>3 DEF Mailed, TypeOK
  <2>2. None \notin Tasks
    BY PoolAssumption DEF PoolAssumption
  <2>3. Len(inbox[w]) = 0 /\ Len(ob[w]) = 0
    <3>1. CASE Len(inbox[w]) > 0
      <4>1. inbox[w][1] \in Tasks /\ inbox[w][1] = None
        BY <2>1, <3>1
      <4> QED BY <2>2, <4>1
    <3>2. CASE Len(ob[w]) > 0
      <4>1. ob[w][1].task \in Tasks /\ ob[w][1].task = None
        <5>1. ob[w][1] \in [task : Tasks, ok : BOOLEAN] /\ 1 \in DOMAIN ob[w]
          <6>1. ASSUME NEW S, NEW s \in Seq(S), Len(s) > 0 PROVE s[1] \in S /\ 1 \in DOMAIN s
            BY <6>1
          <6> QED BY <2>1, <3>2, <6>1
        <5> QED BY <2>1, <5>1
      <4> QED BY <2>2, <4>1
    <3> QED BY <2>1, <3>1, <3>2
  <2> QED BY <2>1, <2>3
<1>5. ASSUME NEW w \in took
      PROVE  /\ info'[w].current = q[job[w]]
             /\ inbox'[w] = <<q[job[w]]>>
             /\ ob[w] = <<>>
  <2>1. inbox'[w] = Append(inbox[w], q[job[w]]) /\ info'[w].current = q[job[w]]
    BY <1>2, <1>3 DEF Chosen
  <2>2. inbox[w] = <<>> /\ ob[w] = <<>> /\ q[job[w]] \in Tasks
    BY <1>3, <1>4
  <2>3. Append(<<>>, q[job[w]]) = <<q[job[w]]>>
    BY <2>2
  <2> QED BY <2>1, <2>2, <2>3
<1>6. ASSUME NEW w \in WorkerIds \ took PROVE info'[w] = inf[w] /\ inbox'[w] = inbox[w]
  BY <1>2 DEF Chosen
<1>7. SUFFICES ASSUME NEW w \in WorkerIds, ~info'[w].dead
               PROVE  /\ Len(inbox'[w]) + Len(ob[w]) <= 1
                      /\ \A i \in DOMAIN inbox'[w] : inbox'[w][i] = info'[w].current
                      /\ \A i \in DOMAIN ob[w] : ob[w][i].task = info'[w].current
  BY DEF Mailed
<1>8. CASE w \in took
  <2>1. inbox'[w] = <<q[job[w]]>> /\ info'[w].current = q[job[w]] /\ ob[w] = <<>>
    BY <1>5, <1>8
  <2> HIDE DEF Mailed
  <2>2. \A x : Len(<<x>>) = 1 /\ DOMAIN <<x>> = {1} /\ <<x>>[1] = x
    OBVIOUS
  <2>3. Len(ob[w]) = 0 /\ DOMAIN ob[w] = {}
    BY <2>1
  <2> QED BY <2>1, <2>2, <2>3
<1>9. CASE w \notin took
  BY <1>6, <1>7, <1>9 DEF Mailed
<1> QED BY <1>8, <1>9

-------------------------------------------------------------------------------
(* Settling a promise and releasing a worker *)

\* Settle touches one promise, and only a result computed from its task resolves it.
LEMMA SettleStep ==
  ASSUME TypeOK, OwnAnswer, NEW t \in Tasks, NEW o \in Settled, NEW from \in {t, None},
         o = "resolved" => from = t, Settle(t, o, from)
  PROVE  /\ promise' \in [Tasks -> {"unborn", "pending"} \cup Settled]
         /\ answer' \in [Tasks -> Tasks \cup {None}]
         /\ \A s \in Tasks : promise'[s] = "pending" <=> promise[s] = "pending" /\ s # t
         /\ OwnAnswer'
<1>1. CASE promise[t] = "pending"
  <2>1. /\ promise' = [promise EXCEPT ![t] = o]
        /\ answer' = [answer EXCEPT ![t] = from]
    BY <1>1 DEF Settle
  <2> QED BY <2>1 DEF TypeOK, OwnAnswer, Settled
<1>2. CASE promise[t] # "pending"
  <2>1. promise' = promise /\ answer' = answer
    BY <1>2 DEF Settle, callerVars
  <2> QED BY <1>2, <2>1 DEF TypeOK, OwnAnswer
<1> QED BY <1>1, <1>2

\* A worker that gives up its job leaves the others' jobs as they were; the
\* promise of that job must be settled by then.
LEMMA OwnedRelease ==
  ASSUME NEW q, NEW inf, NEW prom, Owned(q, inf, prom), NEW w \in WorkerIds,
         NEW inf2, inf2[w].current = None, \A v \in WorkerIds \ {w} : inf2[v] = inf[v],
         NEW prom2,
         \A s \in Tasks : prom2[s] = "pending"
                            <=> prom[s] = "pending" /\ s # inf[w].current
  PROVE  Owned(q, inf2, prom2)
<1>1. None \notin Tasks
  BY PoolAssumption DEF PoolAssumption
<1>2. \A v \in WorkerIds : inf2[v].current = IF v = w THEN None ELSE inf[v].current
  OBVIOUS
<1>3. ASSUME NEW t \in Tasks PROVE HeldIn(inf2, t) <=> HeldIn(inf, t) /\ t # inf[w].current
  <2>1. ASSUME HeldIn(inf2, t) PROVE HeldIn(inf, t) /\ t # inf[w].current
    <3>1. PICK v \in WorkerIds : inf2[v].current = t
      BY <2>1 DEF HeldIn
    <3>2. v # w /\ inf[v].current = t
      BY <1>1, <1>2, <3>1
    <3>3. t # inf[w].current
      BY <1>1, <3>2 DEF Owned
    <3> QED BY <3>2, <3>3 DEF HeldIn
  <2>2. ASSUME HeldIn(inf, t), t # inf[w].current PROVE HeldIn(inf2, t)
    <3>1. PICK v \in WorkerIds : inf[v].current = t
      BY <2>2 DEF HeldIn
    <3>2. v # w
      BY <2>2, <3>1
    <3> QED BY <1>2, <3>1, <3>2 DEF HeldIn
  <2> QED BY <2>1, <2>2
<1>4. \A i, j \in DOMAIN q : q[i] = q[j] => i = j
  BY DEF Owned
<1>5. \A u, v \in WorkerIds : inf2[u].current = inf2[v].current /\ inf2[u].current # None
                                => u = v
  BY <1>2 DEF Owned
<1>6. \A t \in Tasks : ~(In(q, t) /\ HeldIn(inf2, t))
  BY <1>3 DEF Owned
<1>7. ASSUME NEW t \in Tasks
      PROVE  prom2[t] = "pending" <=> In(q, t) \/ HeldIn(inf2, t)
  <2>1. CASE t = inf[w].current
    <3>1. HeldIn(inf, t)
      BY <2>1 DEF HeldIn
    <3>2. ~In(q, t)
      BY <3>1 DEF Owned
    <3> QED BY <1>3, <2>1, <3>2
  <2>2. CASE t # inf[w].current
    BY <1>3, <2>2 DEF Owned
  <2> QED BY <2>1, <2>2
<1> QED BY <1>4, <1>5, <1>6, <1>7 DEF Owned

-------------------------------------------------------------------------------
(* The inductive invariant: initial states and calls *)

\* Before init() there are no workers, no jobs and no messages.
LEMMA IInvInit == Init => IInv
<1> SUFFICES ASSUME Init PROVE IInv
  OBVIOUS
<1> USE PoolAssumption DEF PoolAssumption, Init
<1>1. TypeOK
  <2>1. NewInfo \in Record
    BY DEF NewInfo, Record
  <2>2. info \in [WorkerIds -> Record]
    BY <2>1
  <2>3. 0 \in 0..MaxWorkers
    OBVIOUS
  <2>4. /\ inbox \in [WorkerIds -> Seq(Tasks)]
        /\ outbox \in [WorkerIds -> Seq([task : Tasks, ok : BOOLEAN])]
        /\ events \in [WorkerIds -> Seq({"error", "exit0", "exit1"})]
        /\ thread \in [WorkerIds -> {"unborn", "running", "stopping", "dead", "reaped"}]
    OBVIOUS
  <2>5. /\ promise \in [Tasks -> {"unborn", "pending"} \cup Settled]
        /\ answer \in [Tasks -> Tasks \cup {None}]
    OBVIOUS
  <2>6. workers \in SUBSET WorkerIds /\ terminated \in BOOLEAN
    BY Zenon
  <2>7. queue \in Seq(Tasks)
    OBVIOUS
  <2>8. active \in Int /\ spawned \in 0..MaxWorkers /\ inits \in Nat /\ faults \in Nat
    BY <2>3
  <2> HIDE DEF Init
  <2> QED BY <2>2, <2>4, <2>5, <2>6, <2>7, <2>8 DEF TypeOK, Record
<1>2. \A w \in WorkerIds : info[w] = NewInfo
  OBVIOUS
<1>3. Coherent(workers, info)
  BY <1>2 DEF Coherent, NewInfo
<1>4. \A t \in Tasks : ~In(queue, t) /\ ~HeldIn(info, t)
  BY <1>2 DEF In, HeldIn, NewInfo
<1>5. Owned(queue, info, promise)
  <2>1. \A w \in WorkerIds : info[w].current = None
    BY <1>2 DEF NewInfo
  <2>2. \A t \in Tasks : promise[t] = "unborn"
    OBVIOUS
  <2>3. DOMAIN queue = {}
    OBVIOUS
  <2> HIDE DEF Init
  <2> QED BY <1>4, <2>1, <2>2, <2>3 DEF Owned
<1>6. Mailed(info, inbox, outbox)
  BY DEF Mailed
<1>7. Unspawned
  BY DEF Unspawned, WorkerIds
<1>8. Deaths
  BY DEF Deaths
<1>9. PoolLife
  BY DEF PoolLife, CapacityKept
<1>10. OwnAnswer /\ WorkConserving
  BY DEF OwnAnswer, WorkConserving
<1> QED BY <1>1, <1>3, <1>5, <1>6, <1>7, <1>8, <1>9, <1>10 DEF IInv

\* init() spawns only into an empty pool, so nothing waits for its new workers.
LEMMA InitPoolStep == IInv /\ InitPool => IInv'
<1> SUFFICES ASSUME IInv, InitPool PROVE IInv'
  OBVIOUS
<1> DEFINE new == spawned + 1 .. spawned + Size
<1>1. /\ workers = {} /\ workers' = new /\ new \subseteq WorkerIds
      /\ thread' = [w \in WorkerIds |-> IF w \in new THEN "running" ELSE thread[w]]
      /\ terminated' = FALSE /\ spawned' = spawned + Size /\ inits' = inits + 1
      /\ spawned \in Nat /\ Size \in Nat \ {0} /\ inits \in Nat
      /\ UNCHANGED <<queue, active, info, inbox, outbox, events, callerVars, faults>>
  BY PoolAssumption DEF PoolAssumption, InitPool, IInv, TypeOK, WorkerIds
<1>2. TypeOK'
  <2>1. TypeOK
    BY DEF IInv
  <2>2. spawned' \in 0..MaxWorkers /\ inits' \in Nat
    BY <1>1, PoolAssumption DEF PoolAssumption, InitPool
  <2> QED BY <1>1, <2>1, <2>2 DEF TypeOK, callerVars
<1>3. \A w \in new : w \in WorkerIds /\ info[w] = NewInfo /\ events[w] = <<>>
  BY <1>1 DEF IInv, Unspawned
<1>4. Coherent(workers, info)'
  <2>1. \A w \in WorkerIds : info[w].dead => w \notin new
    BY <1>3 DEF NewInfo
  <2> QED BY <1>1, <2>1 DEF IInv, Coherent
<1>5. Owned(queue, info, promise)'
  BY <1>1 DEF IInv, Owned, In, HeldIn, callerVars
<1>6. Mailed(info, inbox, outbox)'
  BY <1>1 DEF IInv, Mailed
<1>7. Unspawned'
  BY <1>1 DEF IInv, Unspawned, WorkerIds
<1>8. Deaths'
  <2>1. \A w \in WorkerIds : events[w] # <<>> => thread'[w] = "dead"
    BY <1>1, <1>3 DEF IInv, Deaths
  <2> QED BY <1>1, <1>3, <2>1 DEF IInv, Deaths
<1>9. Cardinality(new) = Size
  BY <1>1, FS_Interval
<1>10. inits = 0 \/ terminated
  <2>1. Cardinality({}) = 0
    BY FS_EmptySet
  <2> QED BY <1>1, <2>1 DEF IInv, TypeOK, PoolLife, CapacityKept
<1>11. ~EarlyExecute => queue' = <<>>
  BY <1>1, <1>10 DEF IInv, PoolLife
<1>12. PoolLife'
  BY <1>1, <1>9 DEF PoolLife, CapacityKept
<1>13. OwnAnswer' /\ (~EarlyExecute => WorkConserving')
  BY <1>1, <1>11 DEF IInv, OwnAnswer, WorkConserving, callerVars
<1> QED BY <1>2, <1>4, <1>5, <1>6, <1>7, <1>8, <1>12, <1>13 DEF IInv

\* A task that is neither queued nor held may be queued.
LEMMA OwnedAppend ==
  ASSUME TypeOK, Owned(queue, info, promise), NEW t \in Tasks, ~In(queue, t), ~HeldIn(info, t),
         promise' = [promise EXCEPT ![t] = "pending"]
  PROVE  Owned(Append(queue, t), info, promise')
<1> DEFINE q == Append(queue, t)
<1>1. /\ queue \in Seq(Tasks) /\ q \in Seq(Tasks) /\ Len(q) = Len(queue) + 1
      /\ \A i \in 1..Len(q) : q[i] = IF i <= Len(queue) THEN queue[i] ELSE t
  BY DEF TypeOK
<1>2. DOMAIN q = 1..Len(q) /\ DOMAIN queue = 1..Len(queue)
  BY <1>1
<1> HIDE DEF q
<1>3. \A s \in Tasks : In(q, s) <=> In(queue, s) \/ s = t
  <2> TAKE s \in Tasks
  <2>1. ASSUME In(q, s) PROVE In(queue, s) \/ s = t
    BY <1>1, <1>2, <2>1 DEF In
  <2>2. ASSUME In(queue, s) PROVE In(q, s)
    BY <1>1, <1>2, <2>2 DEF In
  <2>3. In(q, t)
    <3>1. Len(q) \in DOMAIN q /\ q[Len(q)] = t
      BY <1>1, <1>2
    <3> QED BY <3>1 DEF In
  <2> QED BY <2>1, <2>2, <2>3
<1>4. \A i, j \in DOMAIN q : q[i] = q[j] => i = j
  <2>1. \A i \in 1..Len(queue) : queue[i] # t
    BY <1>2 DEF In
  <2> QED BY <1>1, <1>2, <2>1 DEF Owned
<1>5. \A s \in Tasks : promise'[s] = "pending" <=> promise[s] = "pending" \/ s = t
  BY DEF TypeOK
<1>6. Owned(q, info, promise')
  BY <1>3, <1>4, <1>5 DEF Owned
<1> QED
  BY <1>6 DEF q

\* execute() on a terminated pool rejects; on a live one it queues and dispatches.
LEMMA ExecuteStep == ASSUME IInv, NEW t \in Tasks, Execute(t) PROVE IInv'
<1>1. /\ promise[t] = "unborn" /\ (EarlyExecute \/ inits > 0) /\ answer' = answer
      /\ UNCHANGED <<thread, outbox, events, spawned, inits, faults>>
  BY DEF Execute, threadVars, boundVars
<1>2. /\ TypeOK /\ Coherent(workers, info) /\ Owned(queue, info, promise)
      /\ Mailed(info, inbox, outbox) /\ Unspawned /\ Deaths /\ PoolLife /\ OwnAnswer
  BY DEF IInv
<1>3. ~In(queue, t) /\ ~HeldIn(info, t)
  BY <1>1, <1>2 DEF Owned
<1>4. CASE terminated
  <2>1. /\ promise' = [promise EXCEPT ![t] = "rejected"]
        /\ UNCHANGED <<workers, queue, active, terminated, info, inbox>>
    BY <1>4 DEF Execute, poolVars
  <2>2. TypeOK'
    BY <1>1, <1>2, <2>1 DEF TypeOK, Settled
  <2>3. \A s \in Tasks : promise'[s] = "pending" <=> promise[s] = "pending"
    BY <1>1, <1>2, <2>1 DEF TypeOK
  <2>4. Owned(queue, info, promise)'
    BY <1>2, <2>1, <2>3 DEF Owned, In, HeldIn
  <2>5. OwnAnswer'
    BY <1>1, <1>2, <2>1 DEF OwnAnswer, TypeOK
  <2>6. Coherent(workers, info)' /\ Mailed(info, inbox, outbox)'
    BY <1>1, <1>2, <2>1 DEF Coherent, Mailed
  <2>7. Unspawned' /\ Deaths' /\ PoolLife'
    BY <1>1, <1>2, <2>1 DEF Unspawned, Deaths, PoolLife, CapacityKept
  <2>8. WorkConserving'
    BY <1>4, <2>1 DEF WorkConserving
  <2> QED BY <2>2, <2>4, <2>5, <2>6, <2>7, <2>8 DEF IInv
<1>5. CASE ~terminated
  <2> DEFINE q == Append(queue, t)
  <2>1. /\ promise' = [promise EXCEPT ![t] = "pending"]
        /\ Dispatch(q, workers, info, active)
        /\ terminated' = terminated
    BY <1>5 DEF Execute
  <2>2. /\ q \in Seq(Tasks) /\ workers \in SUBSET WorkerIds
        /\ info \in [WorkerIds -> Record] /\ active \in Int
    BY <1>2 DEF TypeOK, Record
  <2>3. Owned(q, info, promise')
    BY <1>2, <1>3, <2>1, OwnedAppend
  <2> HIDE DEF q
  <2>4. /\ workers' = workers /\ queue' \in Seq(Tasks) /\ active' \in Int
        /\ info' \in [WorkerIds -> Record] /\ inbox' \in [WorkerIds -> Seq(Tasks)]
    BY <1>2, <2>1, <2>2, DispatchTypes
  <2>5. \A w \in WorkerIds :
          /\ w \notin workers \/ info[w].busy => info'[w] = info[w] /\ inbox'[w] = inbox[w]
          /\ info'[w].dead = info[w].dead
    BY <1>2, <2>1, <2>2, DispatchLocal
  <2>6. TypeOK'
    <3>1. promise' \in [Tasks -> {"unborn", "pending"} \cup Settled]
      BY <1>2, <2>1 DEF TypeOK
    <3> QED BY <1>1, <1>2, <2>1, <2>4, <3>1 DEF TypeOK, Record
  <2>7. Coherent(workers, info)'
    BY <1>2, <2>1, <2>2, <2>4, DispatchCoherent
  <2>8. Owned(queue', info', promise')
    BY <1>2, <2>1, <2>2, <2>3, DispatchOwned
  <2>9. Mailed(info', inbox', outbox)
    <3>1. outbox \in [WorkerIds -> Seq([task : Tasks, ok : BOOLEAN])]
      BY <1>2 DEF TypeOK
    <3> QED BY <1>2, <2>1, <2>2, <3>1, DispatchMailed
  <2>10. Unspawned'
    <3>1. \A w \in WorkerIds : w > spawned => w \notin workers
      BY <1>2 DEF Unspawned, TypeOK, WorkerIds
    <3> QED BY <1>1, <1>2, <2>4, <2>5, <3>1 DEF Unspawned
  <2>11. Deaths'
    <3>1. \A w \in WorkerIds : info[w].current # None => info'[w].current # None
      BY <1>2, <2>5 DEF Coherent
    <3> QED BY <1>1, <1>2, <2>4, <3>1 DEF Deaths
  <2>12. /\ queue' = <<>> \/ \A w \in workers : info'[w].busy
         /\ workers = {} => queue' = q
    BY <1>2, <1>5, <2>1, <2>2, DispatchDrains
  <2>13. PoolLife'
    BY <1>1, <1>2, <1>5, <2>1, <2>4 DEF PoolLife, CapacityKept, TypeOK
  <2>14. OwnAnswer'
    BY <1>1, <1>2, <2>1 DEF OwnAnswer, TypeOK
  <2>15. WorkConserving'
    BY <2>4, <2>12 DEF WorkConserving
  <2> QED BY <1>1, <2>6, <2>7, <2>8, <2>9, <2>10, <2>11, <2>13, <2>14, <2>15 DEF IInv
<1> QED BY <1>4, <1>5

\* terminate() rejects what is queued and leaves what is held to its worker.
LEMMA TerminateStep == IInv /\ Terminate => IInv'
<1> SUFFICES ASSUME IInv, Terminate PROVE IInv'
  OBVIOUS
<1>1. /\ terminated' = TRUE /\ workers' = {} /\ queue' = <<>> /\ active' = 0
      /\ promise' = [t \in Tasks |-> IF promise[t] = "pending" /\ In(queue, t)
                                     THEN "rejected" ELSE promise[t]]
      /\ thread' = [w \in WorkerIds |-> IF w \in workers /\ thread[w] = "running"
                                        THEN "stopping" ELSE thread[w]]
      /\ UNCHANGED <<info, inbox, outbox, events, answer, spawned, inits, faults>>
  BY DEF Terminate, boundVars, In
<1>2. /\ TypeOK /\ Coherent(workers, info) /\ Owned(queue, info, promise)
      /\ Mailed(info, inbox, outbox) /\ Unspawned /\ Deaths /\ PoolLife /\ OwnAnswer
  BY DEF IInv
<1>3. TypeOK'
  <2>1. promise' \in [Tasks -> {"unborn", "pending"} \cup Settled]
    BY <1>1, <1>2 DEF TypeOK, Settled
  <2>2. thread' \in [WorkerIds -> {"unborn", "running", "stopping", "dead", "reaped"}]
    BY <1>1, <1>2 DEF TypeOK
  <2>3. workers' \in SUBSET WorkerIds /\ terminated' \in BOOLEAN
    BY <1>1
  <2>4. queue' \in Seq(Tasks) /\ active' \in Int
    BY <1>1
  <2> QED BY <1>1, <1>2, <2>1, <2>2, <2>3, <2>4 DEF TypeOK
<1>4. Coherent(workers, info)'
  BY <1>1, <1>2 DEF Coherent
<1>5. Owned(queue, info, promise)'
  <2>1. \A t \in Tasks : promise'[t] = "pending" <=> promise[t] = "pending" /\ ~In(queue, t)
    BY <1>1
  <2>2. \A t : ~In(queue', t)
    BY <1>1 DEF In
  <2>3. DOMAIN queue' = {}
    BY <1>1
  <2> QED BY <1>1, <1>2, <2>1, <2>2, <2>3 DEF Owned, HeldIn
<1>6. Mailed(info, inbox, outbox)'
  BY <1>1, <1>2 DEF Mailed
<1>7. Unspawned'
  BY <1>1, <1>2 DEF Unspawned
<1>8. Deaths'
  <2>1. \A w \in WorkerIds : thread[w] = "dead" => thread'[w] = "dead"
    BY <1>1
  <2> QED BY <1>1, <1>2, <2>1 DEF Deaths
<1>9. PoolLife'
  BY <1>1 DEF PoolLife, CapacityKept
<1>10. OwnAnswer' /\ WorkConserving'
  BY <1>1, <1>2 DEF OwnAnswer, WorkConserving, TypeOK
<1> QED BY <1>3, <1>4, <1>5, <1>6, <1>7, <1>8, <1>9, <1>10 DEF IInv

-------------------------------------------------------------------------------
(* The inductive invariant: events *)

\* onMessage answers the job the worker holds and gives the worker the next.
LEMMA MessageStep == ASSUME IInv, NEW w \in WorkerIds, OnMessage(w) PROVE IInv'
<1>1. /\ outbox[w] # <<>> /\ outbox' = [outbox EXCEPT ![w] = Tail(@)]
      /\ UNCHANGED <<thread, events, spawned, inits, faults>>
  BY DEF OnMessage, boundVars
<1>2. /\ TypeOK /\ Coherent(workers, info) /\ Owned(queue, info, promise)
      /\ Mailed(info, inbox, outbox) /\ Unspawned /\ Deaths /\ PoolLife /\ OwnAnswer
  BY DEF IInv
<1>3. /\ outbox' \in [WorkerIds -> Seq([task : Tasks, ok : BOOLEAN])]
      /\ outbox[w] \in Seq([task : Tasks, ok : BOOLEAN])
      /\ Len(outbox'[w]) = Len(outbox[w]) - 1
      /\ \A v \in WorkerIds \ {w} : outbox'[v] = outbox[v]
      /\ Head(outbox[w]) \in [task : Tasks, ok : BOOLEAN]
  <2> DEFINE R == [task : Tasks, ok : BOOLEAN]
  <2>1. outbox[w] \in Seq(R) /\ outbox \in [WorkerIds -> Seq(R)]
    BY <1>2 DEF TypeOK
  <2> HIDE DEF R
  <2>2. /\ Tail(outbox[w]) \in Seq(R) /\ Head(outbox[w]) \in R
        /\ Len(Tail(outbox[w])) = Len(outbox[w]) - 1
    BY <1>1, <2>1
  <2>3. outbox' \in [WorkerIds -> Seq(R)] /\ outbox'[w] = Tail(outbox[w])
        /\ \A v \in WorkerIds \ {w} : outbox'[v] = outbox[v]
    BY <1>1, <2>1, <2>2
  <2> QED BY <2>1, <2>2, <2>3 DEF R
<1>4. w <= spawned
  BY <1>1, <1>2 DEF Unspawned, TypeOK, WorkerIds
<1>5. CASE info[w].listener = None
  <2>1. UNCHANGED <<workers, queue, active, terminated, info, inbox, promise, answer>>
    BY <1>5 DEF OnMessage, poolVars, callerVars
  <2>2. info[w].dead
    <3>1. CASE ~info[w].dead
      <4>1. Head(outbox[w]).task = None
        <5>1. info[w].current = None /\ \A i \in DOMAIN outbox[w] : outbox[w][i].task = None
          BY <1>2, <1>5, <3>1 DEF Coherent, Mailed
        <5>2. 1 \in DOMAIN outbox[w] /\ Head(outbox[w]) = outbox[w][1]
          BY <1>1, <1>3
        <5> QED BY <5>1, <5>2
      <4> QED BY <1>3, <4>1, PoolAssumption DEF PoolAssumption
    <3> QED BY <3>1
  <2>3. Mailed(info, inbox, outbox)'
    <3>1. \A v \in WorkerIds : ~info[v].dead => outbox'[v] = outbox[v]
      BY <1>3, <2>2
    <3> QED BY <1>2, <2>1, <3>1 DEF Mailed
  <2>4. TypeOK'
    BY <1>1, <1>2, <1>3, <2>1 DEF TypeOK
  <2>5. Coherent(workers, info)' /\ Owned(queue, info, promise)' /\ OwnAnswer'
    BY <1>2, <2>1 DEF Coherent, Owned, In, HeldIn, OwnAnswer
  <2>6. Unspawned' /\ PoolLife'
    BY <1>1, <1>2, <1>3, <1>4, <2>1 DEF Unspawned, PoolLife, CapacityKept
  <2>7. Deaths'
    BY <1>1, <1>2, <1>3, <2>1, <2>2 DEF Deaths, Coherent
  <2>8. ~EarlyExecute => WorkConserving'
    BY <2>1 DEF IInv, WorkConserving
  <2> QED BY <2>3, <2>4, <2>5, <2>6, <2>7, <2>8 DEF IInv
<1>6. CASE info[w].listener # None
  <2> DEFINE job == info[w].current
             res == Head(outbox[w])
             inf == [info EXCEPT ![w] = AfterMessage(@)]
             outcome == IF res.ok THEN "resolved" ELSE "rejected"
  <2>1. info[w].listener = job /\ job \in Tasks /\ ~info[w].dead /\ info[w].busy
    BY <1>2, <1>6 DEF Coherent, TypeOK
  <2>2. /\ Settle(job, outcome, res.task)
        /\ Dispatch(queue, workers, inf, active - 1)
        /\ terminated' = terminated
    BY <1>6, <2>1 DEF OnMessage
  <2>3. /\ res.task = job /\ outbox'[w] = <<>> /\ inbox[w] = <<>>
    <3>1. /\ Len(inbox[w]) + Len(outbox[w]) <= 1 /\ inbox[w] \in Seq(Tasks)
          /\ \A i \in DOMAIN outbox[w] : outbox[w][i].task = job
      BY <1>2, <2>1 DEF Mailed, TypeOK
    <3>2. Len(outbox[w]) >= 1 /\ Head(outbox[w]) = outbox[w][1] /\ 1 \in DOMAIN outbox[w]
      BY <1>1, <1>3
    <3>3. Len(outbox[w]) = 1 /\ Len(inbox[w]) = 0 /\ Len(outbox'[w]) = 0
      <4>1. Len(inbox[w]) \in Nat /\ Len(outbox[w]) \in Nat
        BY <1>3, <3>1
      <4>2. Len(inbox[w]) + Len(outbox[w]) <= 1 /\ Len(outbox[w]) >= 1
        BY <3>1, <3>2
      <4>3. \A a, b \in Nat : a + b <= 1 /\ b >= 1 => a = 0 /\ b = 1
        OBVIOUS
      <4>4. Len(inbox[w]) = 0 /\ Len(outbox[w]) = 1
        BY <4>1, <4>2, <4>3
      <4>5. Len(outbox'[w]) = Len(outbox[w]) - 1
        BY <1>3
      <4> QED BY <4>4, <4>5
    <3>4. outbox'[w] \in Seq([task : Tasks, ok : BOOLEAN])
      BY <1>3
    <3> QED BY <3>1, <3>2, <3>3, <3>4
  <2>4. outcome \in Settled /\ res.task \in {job, None}
    BY <2>3 DEF Settled
  <2> HIDE DEF outcome, res
  <2>5. /\ promise' \in [Tasks -> {"unborn", "pending"} \cup Settled]
        /\ answer' \in [Tasks -> Tasks \cup {None}]
        /\ \A s \in Tasks : promise'[s] = "pending" <=> promise[s] = "pending" /\ s # job
        /\ OwnAnswer'
    BY <1>2, <2>1, <2>2, <2>3, <2>4, SettleStep
  <2>6. /\ inf \in [WorkerIds -> Record] /\ inf[w].current = None /\ ~inf[w].busy
        /\ inf[w].listener = None /\ inf[w].dead = info[w].dead
        /\ \A v \in WorkerIds \ {w} : inf[v] = info[v]
    <3>1. info \in [WorkerIds -> Record]
      BY <1>2 DEF TypeOK, Record
    <3>2. info[w] \in Record
      BY <3>1
    <3>3. /\ AfterMessage(info[w]) \in Record /\ AfterMessage(info[w]).current = None
          /\ ~AfterMessage(info[w]).busy /\ AfterMessage(info[w]).listener = None
          /\ AfterMessage(info[w]).dead = info[w].dead
      BY <3>2 DEF AfterMessage, Record
    <3>4. inf[w] = AfterMessage(info[w])
      BY <3>1
    <3> QED BY <3>1, <3>3, <3>4
  <2> HIDE DEF inf
  <2>7. queue \in Seq(Tasks) /\ workers \in SUBSET WorkerIds /\ active - 1 \in Int
    BY <1>2 DEF TypeOK
  <2>8. Coherent(workers, inf)
    BY <1>2, <2>1, <2>6 DEF Coherent
  <2>9. Owned(queue, inf, promise')
    BY <1>2, <2>5, <2>6, OwnedRelease
  <2>10. Mailed(inf, inbox, outbox')
    <3>1. /\ Len(inbox[w]) = 0 /\ Len(outbox'[w]) = 0
          /\ DOMAIN inbox[w] = {} /\ DOMAIN outbox'[w] = {}
      BY <2>3
    <3>2. \A v \in WorkerIds \ {w} : inf[v] = info[v] /\ outbox'[v] = outbox[v]
      BY <1>3, <2>6
    <3>3. ASSUME NEW v \in WorkerIds, ~inf[v].dead
          PROVE  /\ Len(inbox[v]) + Len(outbox'[v]) <= 1
                 /\ \A i \in DOMAIN inbox[v] : inbox[v][i] = inf[v].current
                 /\ \A i \in DOMAIN outbox'[v] : outbox'[v][i].task = inf[v].current
      <4>1. CASE v = w
        <5>1. 0 + 0 <= 1
          OBVIOUS
        <5> QED BY <3>1, <4>1, <5>1, Zenon
      <4>2. CASE v # w
        <5>1. inf[v] = info[v] /\ outbox'[v] = outbox[v]
          BY <3>2, <4>2
        <5> QED BY <1>2, <3>3, <5>1 DEF Mailed
      <4> QED BY <4>1, <4>2
    <3> QED BY <3>3 DEF Mailed
  <2>11. /\ workers' = workers /\ queue' \in Seq(Tasks) /\ active' \in Int
         /\ info' \in [WorkerIds -> Record] /\ inbox' \in [WorkerIds -> Seq(Tasks)]
    BY <1>2, <2>2, <2>6, <2>7, DispatchTypes
  <2>12. \A v \in WorkerIds :
           v \notin workers \/ inf[v].busy => info'[v] = inf[v] /\ inbox'[v] = inbox[v]
    BY <1>2, <2>2, <2>6, <2>7, DispatchLocal
  <2>13. TypeOK'
    BY <1>1, <1>2, <1>3, <2>2, <2>5, <2>11 DEF TypeOK, Record
  <2>14. Coherent(workers, info)'
    BY <1>2, <2>2, <2>6, <2>7, <2>8, <2>11, DispatchCoherent
  <2>15. Owned(queue', info', promise')
    BY <1>2, <2>2, <2>6, <2>7, <2>8, <2>9, DispatchOwned
  <2>16. Mailed(info', inbox', outbox')
    BY <1>2, <1>3, <2>2, <2>6, <2>7, <2>8, <2>10, DispatchMailed
  <2>17. Unspawned'
    <3>1. \A v \in WorkerIds : v > spawned => v \notin workers /\ v # w
      BY <1>2, <1>4 DEF Unspawned, TypeOK, WorkerIds
    <3> QED BY <1>1, <1>2, <1>3, <2>6, <2>11, <2>12, <3>1 DEF Unspawned
  <2>18. Deaths'
    <3>1. \A v \in WorkerIds \ {w} : info[v].current # None => info'[v].current # None
      BY <1>2, <2>6, <2>12 DEF Coherent
    <3> QED BY <1>1, <1>2, <1>3, <2>11, <3>1 DEF Deaths
  <2>19. /\ terminated \/ queue' = <<>> \/ \A v \in workers : info'[v].busy
         /\ queue = <<>> => queue' = <<>>
    BY <1>2, <2>2, <2>6, <2>7, DispatchDrains
  <2>20. PoolLife' /\ WorkConserving'
    BY <1>1, <1>2, <2>2, <2>11, <2>19 DEF PoolLife, CapacityKept, WorkConserving
  <2> QED BY <2>5, <2>13, <2>14, <2>15, <2>16, <2>17, <2>18, <2>20 DEF IInv
<1> QED BY <1>5, <1>6

\* The events left once the first one has fired.
LEMMA EventTails ==
  /\ Tail(<<"error", "exit1">>) = <<"exit1">>
  /\ Tail(<<"exit1">>) = <<>> /\ Tail(<<"exit0">>) = <<>>
  /\ Head(<<"error", "exit1">>) = "error"
  /\ Head(<<"exit1">>) = "exit1" /\ Head(<<"exit0">>) = "exit0"
  /\ <<>> \in Seq({"error", "exit0", "exit1"})
  /\ <<"exit1">> \in Seq({"error", "exit0", "exit1"})
  /\ <<"exit0">> \in Seq({"error", "exit0", "exit1"})
  /\ <<"error", "exit1">> \in Seq({"error", "exit0", "exit1"})
<1>1. /\ Tail(<<"error", "exit1">>) = <<"exit1">>
      /\ Tail(<<"exit1">>) = <<>> /\ Tail(<<"exit0">>) = <<>>
  OBVIOUS
<1>2. /\ Head(<<"error", "exit1">>) = "error"
      /\ Head(<<"exit1">>) = "exit1" /\ Head(<<"exit0">>) = "exit0"
  OBVIOUS
<1>3. /\ <<>> \in Seq({"error", "exit0", "exit1"})
      /\ <<"exit1">> \in Seq({"error", "exit0", "exit1"})
      /\ <<"exit0">> \in Seq({"error", "exit0", "exit1"})
      /\ <<"error", "exit1">> \in Seq({"error", "exit0", "exit1"})
  OBVIOUS
<1> QED BY <1>1, <1>2, <1>3

\* _handleWorkerFailure rejects the job, replaces the worker and dispatches;
\* last is the thread's state after the event.
LEMMA FailureStep ==
  ASSUME IInv, NEW w \in WorkerIds, NEW last \in {thread[w], "reaped"},
         events[w] # <<>>, events' = [events EXCEPT ![w] = Tail(@)],
         last = "reaped" => Tail(events[w]) = <<>>,
         HandleWorkerFailure(w), thread' = ThreadsAfter(w, last),
         UNCHANGED <<outbox, inits, faults>>
  PROVE  IInv'
<1>1. /\ TypeOK /\ Coherent(workers, info) /\ Owned(queue, info, promise)
      /\ Mailed(info, inbox, outbox) /\ Unspawned /\ Deaths /\ PoolLife /\ OwnAnswer
  BY DEF IInv
<1>2. w <= spawned /\ thread[w] = "dead" /\ spawned \in Nat /\ w \in Nat
  BY <1>1 DEF Unspawned, Deaths, TypeOK, WorkerIds
<1>3. /\ events' \in [WorkerIds -> Seq({"error", "exit0", "exit1"})]
      /\ events'[w] \in {<<>>, <<"exit1">>}
      /\ last = "reaped" => events'[w] = <<>>
      /\ \A v \in WorkerIds \ {w} : events'[v] = events[v]
  <2>1. Tail(events[w]) \in {<<>>, <<"exit1">>}
    <3>1. events[w] \in {<<"error", "exit1">>, <<"exit1">>, <<"exit0">>}
      BY <1>1 DEF Deaths
    <3> QED BY <3>1, EventTails, Zenon
  <2>2. Tail(events[w]) \in Seq({"error", "exit0", "exit1"})
    BY <2>1, EventTails, Zenon
  <2> QED BY <1>1, <2>1, <2>2 DEF TypeOK
<1>4. CASE info[w].dead
  <2>1. UNCHANGED <<workers, queue, active, terminated, info, inbox, promise, answer, spawned>>
    BY <1>4 DEF HandleWorkerFailure, poolVars, callerVars
  <2>2. thread' = [thread EXCEPT ![w] = last]
    <3>1. ~(spawned' > spawned)
      BY <1>2, <2>1
    <3>2. thread' = [v \in WorkerIds |-> IF v = w THEN last ELSE thread[v]]
      BY <3>1 DEF ThreadsAfter
    <3> QED BY <1>1, <3>2 DEF TypeOK
  <2>3. w \notin workers
    BY <1>1, <1>4 DEF Coherent
  <2>4. TypeOK'
    <3>1. thread' \in [WorkerIds -> {"unborn", "running", "stopping", "dead", "reaped"}]
      BY <1>1, <1>2, <2>2 DEF TypeOK
    <3> QED BY <1>1, <1>3, <2>1, <3>1 DEF TypeOK
  <2>5. Coherent(workers, info)' /\ Owned(queue, info, promise)' /\ OwnAnswer'
    BY <1>1, <2>1 DEF Coherent, Owned, In, HeldIn, OwnAnswer
  <2>6. Mailed(info, inbox, outbox)'
    BY <1>1, <2>1 DEF Mailed
  <2>7. Unspawned' /\ PoolLife'
    <3>1. \A v \in WorkerIds : v # w => thread'[v] = thread[v] /\ events'[v] = events[v]
      BY <1>1, <1>3, <2>2 DEF TypeOK
    <3> QED BY <1>1, <1>2, <2>1, <2>3, <3>1 DEF Unspawned, PoolLife, CapacityKept
  <2>8. Deaths'
    <3>1. \A v \in WorkerIds : thread'[v] = IF v = w THEN last ELSE thread[v]
      BY <1>1, <2>2 DEF TypeOK
    <3> QED BY <1>1, <1>2, <1>3, <2>1, <2>3, <3>1 DEF Deaths
  <2>9. ~EarlyExecute => WorkConserving'
    BY <2>1 DEF IInv, WorkConserving
  <2> QED BY <2>4, <2>5, <2>6, <2>7, <2>8, <2>9 DEF IInv
<1>5. CASE ~info[w].dead
  <2> DEFINE job == info[w].current
             new == Replacement(w)
             pool == (workers \ {w}) \cup new
             inf == [info EXCEPT ![w] = AfterFailure(@)]
             act == IF job = None THEN active ELSE active - 1
  <2>1. /\ new \subseteq WorkerIds
        /\ IF job = None THEN UNCHANGED callerVars ELSE Settle(job, "rejected", None)
        /\ Dispatch(queue, pool, inf, act)
        /\ spawned' = IF new = {} THEN spawned ELSE spawned + 1
        /\ terminated' = terminated
    BY <1>5 DEF HandleWorkerFailure
  <2>2. new = IF w \in workers /\ ~terminated THEN {spawned + 1} ELSE {}
    BY DEF Replacement
  <2>3. /\ promise' \in [Tasks -> {"unborn", "pending"} \cup Settled]
        /\ answer' \in [Tasks -> Tasks \cup {None}]
        /\ \A s \in Tasks : promise'[s] = "pending" <=> promise[s] = "pending" /\ s # job
        /\ OwnAnswer'
    <3>1. CASE job = None
      <4>1. promise' = promise /\ answer' = answer
        BY <2>1, <3>1 DEF callerVars
      <4>2. \A s \in Tasks : s # job
        BY <3>1, PoolAssumption DEF PoolAssumption
      <4> QED BY <1>1, <4>1, <4>2 DEF TypeOK, OwnAnswer
    <3>2. CASE job # None
      <4>1. job \in Tasks /\ Settle(job, "rejected", None)
        BY <1>1, <2>1, <3>2 DEF TypeOK
      <4>2. "rejected" \in Settled /\ None \in {job, None} /\ "rejected" # "resolved"
        BY DEF Settled
      <4> QED BY <1>1, <4>1, <4>2, SettleStep
    <3> QED BY <3>1, <3>2
  <2>4. /\ inf \in [WorkerIds -> Record] /\ inf[w].current = None /\ ~inf[w].busy
        /\ inf[w].listener = None /\ inf[w].dead
        /\ \A v \in WorkerIds \ {w} : inf[v] = info[v]
    <3>1. info \in [WorkerIds -> Record]
      BY <1>1 DEF TypeOK, Record
    <3>2. info[w] \in Record
      BY <3>1
    <3>3. /\ AfterFailure(info[w]) \in Record /\ AfterFailure(info[w]).current = None
          /\ ~AfterFailure(info[w]).busy /\ AfterFailure(info[w]).listener = None
          /\ AfterFailure(info[w]).dead
      BY <3>2 DEF AfterFailure, Record
    <3>4. inf[w] = AfterFailure(info[w])
      BY <3>1
    <3> QED BY <3>1, <3>3, <3>4
  <2>5. /\ queue \in Seq(Tasks) /\ pool \in SUBSET WorkerIds /\ act \in Int
        /\ outbox \in [WorkerIds -> Seq([task : Tasks, ok : BOOLEAN])]
    <3>1. workers \in SUBSET WorkerIds /\ active \in Int
      BY <1>1 DEF TypeOK
    <3>2. active - 1 \in Int
      BY <3>1
    <3>3. pool \in SUBSET WorkerIds
      BY <2>1, <3>1
    <3>4. act \in Int
      BY <3>1, <3>2
    <3> QED BY <1>1, <3>3, <3>4 DEF TypeOK
  <2>6. /\ w \notin pool /\ \A v \in new : v = spawned + 1
        /\ \A v \in pool : v # w /\ (v \in workers \/ v = spawned + 1)
    BY <1>2, <2>2
  <2>7. \A v \in new : info[v] = NewInfo /\ events[v] = <<>>
    BY <1>1, <1>2, <2>1, <2>6 DEF Unspawned
  <2> HIDE DEF inf, new, pool, act
  <2>8. Coherent(pool, inf)
    <3>1. \A v \in WorkerIds : v # w /\ info[v].dead => v \notin pool
      <4>1. \A v \in new : ~info[v].dead
        BY <2>7 DEF NewInfo
      <4>2. \A v \in pool : v \in workers \/ v \in new
        BY DEF pool
      <4> QED BY <1>1, <4>1, <4>2 DEF Coherent
    <3> QED BY <1>1, <2>4, <2>6, <3>1 DEF Coherent
  <2>9. Owned(queue, inf, promise')
    BY <1>1, <2>3, <2>4, OwnedRelease
  <2>10. Mailed(inf, inbox, outbox)
    BY <1>1, <2>4 DEF Mailed
  <2>11. /\ workers' = pool /\ queue' \in Seq(Tasks) /\ active' \in Int
         /\ info' \in [WorkerIds -> Record] /\ inbox' \in [WorkerIds -> Seq(Tasks)]
    BY <1>1, <2>1, <2>4, <2>5, DispatchTypes
  <2>12. \A v \in WorkerIds :
           v \notin pool \/ inf[v].busy => info'[v] = inf[v] /\ inbox'[v] = inbox[v]
    BY <1>1, <2>1, <2>4, <2>5, DispatchLocal
  <2>13. /\ \A v \in WorkerIds : thread'[v] = IF v \in new THEN "running"
                                              ELSE IF v = w THEN last ELSE thread[v]
         /\ thread' \in [WorkerIds -> {"unborn", "running", "stopping", "dead", "reaped"}]
    <3>1. \A v \in WorkerIds : (v = spawned' /\ spawned' > spawned) <=> v \in new
      BY <1>2, <2>1, <2>2
    <3>2. thread' = [v \in WorkerIds |-> IF v \in new THEN "running"
                                         ELSE IF v = w THEN last ELSE thread[v]]
      BY <3>1 DEF ThreadsAfter
    <3> QED BY <1>1, <3>2 DEF TypeOK
  <2>14. spawned' \in 0..MaxWorkers /\ (spawned' = spawned \/ (new = {spawned + 1} /\ spawned' = spawned + 1))
    <3>1. spawned \in 0..MaxWorkers /\ MaxWorkers \in Nat
      BY <1>1, PoolAssumption DEF TypeOK, PoolAssumption
    <3>2. CASE w \in workers /\ ~terminated
      <4>1. new = {spawned + 1} /\ spawned' = spawned + 1
        BY <2>1, <2>2, <3>2
      <4>2. spawned + 1 \in WorkerIds
        BY <2>1, <4>1
      <4> QED BY <3>1, <4>1, <4>2 DEF WorkerIds
    <3>3. CASE ~(w \in workers /\ ~terminated)
      <4>1. new = {}
        BY <2>2, <3>3
      <4>2. spawned' = spawned
        BY <2>1, <4>1
      <4> QED BY <3>1, <4>2
    <3> QED BY <3>2, <3>3
  <2>15. TypeOK'
    BY <1>1, <1>3, <2>1, <2>3, <2>5, <2>11, <2>13, <2>14 DEF TypeOK, Record
  <2>16. Coherent(workers, info)'
    BY <1>1, <2>1, <2>4, <2>5, <2>8, <2>11, DispatchCoherent
  <2>17. Owned(queue', info', promise')
    BY <1>1, <2>1, <2>4, <2>5, <2>8, <2>9, DispatchOwned
  <2>18. Mailed(info', inbox', outbox)
    BY <1>1, <2>1, <2>4, <2>5, <2>8, <2>10, DispatchMailed
  <2>19. Unspawned'
    <3>1. ASSUME NEW v \in WorkerIds, v \in pool
          PROVE  v <= spawned' /\ thread'[v] # "unborn"
      <4>1. CASE v \in new
        <5>1. v = spawned + 1 /\ new # {} /\ thread'[v] = "running"
          BY <2>6, <2>13, <4>1
        <5>2. spawned' = spawned + 1
          BY <2>1, <5>1
        <5>3. v <= spawned'
          BY <1>2, <5>1, <5>2
        <5> QED BY <5>1, <5>3
      <4>2. CASE v \notin new
        <5>1. v \in workers /\ v # w
          BY <3>1, <4>2, <2>6 DEF pool
        <5> QED BY <1>1, <1>2, <2>13, <2>14, <4>2, <5>1 DEF Unspawned, WorkerIds
      <4> QED BY <4>1, <4>2
    <3>2. ASSUME NEW v \in WorkerIds, v > spawned'
          PROVE  /\ info'[v] = NewInfo /\ thread'[v] = "unborn"
                 /\ inbox'[v] = <<>> /\ outbox'[v] = <<>> /\ events'[v] = <<>>
      <4>1. v > spawned /\ v # w /\ v \notin new
        <5>1. v \in Nat /\ spawned' \in Nat
          BY <2>14 DEF WorkerIds
        <5>2. spawned' = spawned \/ spawned' = spawned + 1
          BY <2>14
        <5>3. v > spawned /\ v # w
          BY <1>2, <3>2, <5>1, <5>2
        <5>4. v \in new => v = spawned'
          BY <2>1, <2>6
        <5> QED BY <3>2, <5>1, <5>3, <5>4
      <4>2. v \notin pool
        BY <1>1, <4>1, <1>2 DEF pool, Unspawned, WorkerIds
      <4> QED BY <1>1, <1>3, <2>4, <2>12, <2>13, <4>1, <4>2 DEF Unspawned
    <3> QED BY <2>11, <3>1, <3>2 DEF Unspawned
  <2>20. Deaths'
    <3>1. ASSUME NEW v \in WorkerIds
          PROVE  /\ events'[v] \in {<<>>, <<"error", "exit1">>, <<"exit1">>, <<"exit0">>}
                 /\ ~IdleCleanExit /\ events'[v] = <<"exit0">> /\ v \in pool
                      => info'[v].current # None /\ outbox[v] = <<>>
                 /\ events'[v] # <<>> => thread'[v] = "dead"
                 /\ ~IdleCleanExit /\ v \in pool => thread'[v] # "reaped"
      <4>1. CASE v = w
        BY <1>2, <1>3, <2>2, <2>6, <2>13, <4>1
      <4>2. CASE v \in new
        <5>1. v = spawned + 1 /\ v # w
          BY <1>2, <2>6, <4>2
        <5>2. events'[v] = <<>> /\ thread'[v] = "running"
          BY <1>3, <2>7, <2>13, <4>2, <5>1
        <5>3. <<>> # <<"exit0">>
          OBVIOUS
        <5> QED BY <5>2, <5>3
      <4>3. CASE v # w /\ v \notin new
        <5>1. /\ events'[v] = events[v] /\ thread'[v] = thread[v]
              /\ v \in pool => v \in workers /\ inf[v] = info[v]
          BY <1>3, <2>4, <2>13, <4>3 DEF pool
        <5>2. v \in pool /\ info[v].current # None => info'[v].current # None
          BY <1>1, <2>12, <5>1 DEF Coherent
        <5> QED BY <1>1, <5>1, <5>2 DEF Deaths
      <4> QED BY <4>1, <4>2, <4>3
    <3> QED BY <2>11, <3>1 DEF Deaths
  <2>21. /\ terminated \/ queue' = <<>> \/ \A v \in pool : info'[v].busy
         /\ queue = <<>> => queue' = <<>>
    BY <1>1, <2>1, <2>4, <2>5, DispatchDrains
  <2>22. PoolLife'
    <3>1. inits > 0 /\ ~terminated => Cardinality(pool) = Size
      <4>1. CASE w \in workers /\ ~terminated
        <5>1. IsFiniteSet(workers)
          <6>1. IsFiniteSet(WorkerIds)
            BY FS_Interval, PoolAssumption DEF PoolAssumption, WorkerIds
          <6> QED BY <1>1, <6>1, FS_Subset DEF TypeOK
        <5>2. IsFiniteSet(workers \ {w}) /\ Cardinality(workers \ {w}) = Cardinality(workers) - 1
          BY <4>1, <5>1, FS_RemoveElement
        <5>3. pool = (workers \ {w}) \cup {spawned + 1} /\ spawned + 1 \notin workers \ {w}
          <6>1. \A v \in workers : v \in Nat /\ v <= spawned
            BY <1>1 DEF TypeOK, Unspawned, WorkerIds
          <6> QED BY <1>2, <2>2, <4>1, <6>1 DEF pool
        <5>4. Cardinality(pool) = Cardinality(workers)
          <6>1. Cardinality(workers) \in Nat
            BY <5>1, FS_CardinalityType
          <6>2. Cardinality(pool) = Cardinality(workers \ {w}) + 1
            BY <5>2, <5>3, FS_AddElement
          <6> QED BY <5>2, <6>1, <6>2
        <5> QED BY <1>1, <5>4 DEF PoolLife, CapacityKept
      <4>2. CASE w \notin workers \/ terminated
        <5>1. ~terminated => pool = workers
          BY <2>2, <4>2 DEF pool
        <5> QED BY <1>1, <5>1 DEF PoolLife, CapacityKept
      <4> QED BY <4>1, <4>2
    <3>2. terminated \/ inits = 0 => pool = {}
      BY <1>1, <2>2 DEF pool, PoolLife
    <3> QED BY <1>1, <2>1, <2>11, <2>21, <3>1, <3>2 DEF PoolLife, CapacityKept
  <2>23. WorkConserving'
    BY <2>1, <2>11, <2>21 DEF WorkConserving
  <2> QED BY <2>3, <2>15, <2>16, <2>17, <2>18, <2>19, <2>20, <2>22, <2>23 DEF IInv
<1> QED BY <1>4, <1>5

\* An 'error' event is always a failure; its 'exit' is still to come.
LEMMA ErrorStep == ASSUME IInv, NEW w \in WorkerIds, OnError(w) PROVE IInv'
<1>1. /\ events[w] # <<>> /\ events' = [events EXCEPT ![w] = Tail(@)]
      /\ HandleWorkerFailure(w) /\ thread' = ThreadsAfter(w, thread[w])
      /\ UNCHANGED <<outbox, inits, faults>>
  BY DEF OnError, boundVars
<1>2. thread[w] # "reaped"
  BY <1>1 DEF IInv, Deaths
<1> QED BY <1>1, <1>2, FailureStep

\* An exit that is no failure concerns a terminated pool, or no job and no pool.
LEMMA ExitStep == ASSUME IInv, NEW w \in WorkerIds, OnExit(w) PROVE IInv'
<1>1. /\ events[w] # <<>> /\ Head(events[w]) # "error"
      /\ outbox[w] = <<>> /\ events' = [events EXCEPT ![w] = Tail(@)]
      /\ thread' = ThreadsAfter(w, "reaped")
      /\ UNCHANGED <<outbox, inits, faults>>
  BY DEF OnExit, boundVars
<1>2. /\ TypeOK /\ Coherent(workers, info) /\ Owned(queue, info, promise)
      /\ Mailed(info, inbox, outbox) /\ Unspawned /\ Deaths /\ PoolLife /\ OwnAnswer
  BY DEF IInv
<1>3. events[w] \in {<<"exit1">>, <<"exit0">>} /\ Tail(events[w]) = <<>>
  <2>1. events[w] \in {<<"error", "exit1">>, <<"exit1">>, <<"exit0">>}
    BY <1>1, <1>2 DEF Deaths
  <2>2. events[w] # <<"error", "exit1">>
    BY <1>1
  <2>3. events[w] \in {<<"exit1">>, <<"exit0">>}
    BY <2>1, <2>2
  <2> QED BY <2>3, EventTails, Zenon
<1>4. CASE ExitFails(w, Head(events[w]))
  <2>1. HandleWorkerFailure(w)
    BY <1>4 DEF OnExit
  <2> QED BY <1>1, <1>3, <2>1, FailureStep
<1>5. CASE ~ExitFails(w, Head(events[w]))
  <2>1. UNCHANGED <<workers, queue, active, terminated, info, inbox, promise, answer, spawned>>
    BY <1>5 DEF OnExit, poolVars, callerVars
  <2>2. thread' = [thread EXCEPT ![w] = "reaped"] /\ spawned \in Nat
    <3>1. ~(spawned' > spawned) /\ spawned \in Nat
      BY <1>2, <2>1 DEF TypeOK
    <3>2. thread' = [v \in WorkerIds |-> IF v = w THEN "reaped" ELSE thread[v]]
      BY <1>1, <3>1 DEF ThreadsAfter
    <3> QED BY <1>2, <3>1, <3>2 DEF TypeOK
  <2>3. ~IdleCleanExit => w \notin workers
    <3>1. CASE terminated
      BY <1>2, <3>1 DEF PoolLife
    <3>2. CASE ~terminated
      <4>1. info[w].current = None /\ Head(events[w]) = "exit0"
        BY <1>5, <3>2 DEF ExitFails
      <4>2. events[w] = <<"exit0">>
        BY <1>3, <4>1
      <4> QED BY <1>2, <4>1, <4>2 DEF Deaths
    <3> QED BY <3>1, <3>2
  <2>4. /\ \A v \in WorkerIds \ {w} : thread'[v] = thread[v] /\ events'[v] = events[v]
        /\ thread'[w] = "reaped" /\ events'[w] = <<>>
        /\ thread' \in [WorkerIds -> {"unborn", "running", "stopping", "dead", "reaped"}]
        /\ events' \in [WorkerIds -> Seq({"error", "exit0", "exit1"})]
    <3>1. Tail(events[w]) \in Seq({"error", "exit0", "exit1"})
      BY <1>3, EventTails, Zenon
    <3> QED BY <1>1, <1>2, <1>3, <2>2, <3>1 DEF TypeOK
  <2>5. TypeOK'
    BY <1>1, <1>2, <2>1, <2>4 DEF TypeOK
  <2>6. Coherent(workers, info)' /\ Owned(queue, info, promise)' /\ OwnAnswer'
    BY <1>2, <2>1 DEF Coherent, Owned, In, HeldIn, OwnAnswer
  <2>7. Mailed(info, inbox, outbox)'
    BY <1>1, <1>2, <2>1 DEF Mailed
  <2>8. Unspawned'
    <3>1. w <= spawned
      BY <1>1, <1>2 DEF Unspawned, TypeOK, WorkerIds
    <3> QED BY <1>1, <1>2, <2>1, <2>2, <2>4, <3>1 DEF Unspawned, WorkerIds
  <2>9. Deaths'
    BY <1>1, <1>2, <2>1, <2>3, <2>4 DEF Deaths
  <2>10. PoolLife' /\ (~EarlyExecute => WorkConserving')
    BY <1>1, <1>2, <2>1 DEF IInv, PoolLife, CapacityKept, WorkConserving
  <2> QED BY <2>5, <2>6, <2>7, <2>8, <2>9, <2>10 DEF IInv
<1> QED BY <1>4, <1>5

-------------------------------------------------------------------------------
(* The inductive invariant: threads *)

\* A worker turns the one task it was sent into the one answer it owes.
LEMMA WorkStep == ASSUME IInv, NEW w \in WorkerIds, NEW ok \in BOOLEAN, Work(w, ok) PROVE IInv'
<1> DEFINE res == [task |-> Head(inbox[w]), ok |-> ok]
           R == [task : Tasks, ok : BOOLEAN]
<1>1. /\ thread[w] \in {"running", "stopping"} /\ inbox[w] # <<>>
      /\ inbox' = [inbox EXCEPT ![w] = Tail(@)]
      /\ outbox' = [outbox EXCEPT ![w] = Append(@, res)]
      /\ UNCHANGED <<workers, queue, active, terminated, info, thread, events, promise,
                     answer, spawned, inits, faults>>
  BY DEF Work, poolVars, callerVars, boundVars
<1>2. /\ TypeOK /\ Coherent(workers, info) /\ Owned(queue, info, promise)
      /\ Mailed(info, inbox, outbox) /\ Unspawned /\ Deaths /\ PoolLife /\ OwnAnswer
  BY DEF IInv
<1>3. /\ inbox[w] \in Seq(Tasks) /\ outbox[w] \in Seq(R)
      /\ inbox \in [WorkerIds -> Seq(Tasks)] /\ outbox \in [WorkerIds -> Seq(R)]
  BY <1>2 DEF TypeOK
<1>4. res \in R /\ res.task = inbox[w][1] /\ 1 \in DOMAIN inbox[w] /\ Len(inbox[w]) >= 1
  BY <1>1, <1>3
<1> HIDE DEF res, R
<1>5. /\ inbox' \in [WorkerIds -> Seq(Tasks)] /\ outbox' \in [WorkerIds -> Seq(R)]
      /\ inbox'[w] = Tail(inbox[w]) /\ outbox'[w] = Append(outbox[w], res)
      /\ \A v \in WorkerIds \ {w} : inbox'[v] = inbox[v] /\ outbox'[v] = outbox[v]
  <2>1. Tail(inbox[w]) \in Seq(Tasks) /\ Append(outbox[w], res) \in Seq(R)
    BY <1>1, <1>3, <1>4
  <2> QED BY <1>1, <1>3, <2>1
<1>6. TypeOK'
  BY <1>1, <1>2, <1>5 DEF TypeOK, R
<1>7. Mailed(info, inbox, outbox)'
  <2>1. ASSUME ~info[w].dead
        PROVE  /\ Len(inbox'[w]) + Len(outbox'[w]) <= 1
               /\ \A i \in DOMAIN inbox'[w] : inbox'[w][i] = info[w].current
               /\ \A i \in DOMAIN outbox'[w] : outbox'[w][i].task = info[w].current
    <3>1. /\ Len(inbox[w]) + Len(outbox[w]) <= 1
          /\ \A i \in DOMAIN inbox[w] : inbox[w][i] = info[w].current
      BY <1>2, <2>1 DEF Mailed
    <3>2. Len(inbox[w]) \in Nat /\ Len(outbox[w]) \in Nat
      BY <1>3
    <3>3. \A a, b \in Nat : a + b <= 1 /\ a >= 1 => a = 1 /\ b = 0
      OBVIOUS
    <3>4. Len(inbox[w]) = 1 /\ Len(outbox[w]) = 0
      BY <1>4, <3>1, <3>2, <3>3
    <3>5. inbox'[w] = <<>> /\ outbox'[w] = <<res>>
      <4>1. ASSUME NEW S, NEW s \in Seq(S), Len(s) = 1 PROVE Tail(s) = <<>>
        <5>1. Tail(s) \in Seq(S) /\ Len(Tail(s)) = 0
          BY <4>1
        <5>2. \A r \in Seq(S) : Len(r) = 0 => r = <<>>
          OBVIOUS
        <5> QED BY <5>1, <5>2
      <4>2. ASSUME NEW S, NEW s \in Seq(S), Len(s) = 0, NEW x PROVE Append(s, x) = <<x>>
        BY <4>2
      <4> QED BY <1>3, <1>5, <3>4, <4>1, <4>2
    <3>6. res.task = info[w].current
      BY <1>4, <3>1
    <3>7. \A x : Len(<<x>>) = 1 /\ DOMAIN <<x>> = {1} /\ <<x>>[1] = x
      OBVIOUS
    <3> QED BY <3>5, <3>6, <3>7
  <2>2. info' = info
    BY <1>1
  <2> SUFFICES ASSUME NEW v \in WorkerIds, ~info[v].dead
               PROVE  /\ Len(inbox'[v]) + Len(outbox'[v]) <= 1
                      /\ \A i \in DOMAIN inbox'[v] : inbox'[v][i] = info[v].current
                      /\ \A i \in DOMAIN outbox'[v] : outbox'[v][i].task = info[v].current
    BY <2>2 DEF Mailed
  <2>3. CASE v = w
    BY <2>1, <2>3, Zenon
  <2>4. CASE v # w
    <3>1. inbox'[v] = inbox[v] /\ outbox'[v] = outbox[v]
      BY <1>5, <2>4
    <3> QED BY <1>2, <3>1 DEF Mailed
  <2> QED BY <2>3, <2>4
<1>8. Coherent(workers, info)' /\ Owned(queue, info, promise)' /\ OwnAnswer'
  BY <1>1, <1>2 DEF Coherent, Owned, In, HeldIn, OwnAnswer
<1>9. Unspawned'
  <2>1. ~(w > spawned)
    BY <1>1, <1>2 DEF Unspawned
  <2> QED BY <1>1, <1>2, <1>5, <2>1 DEF Unspawned
<1>10. Deaths'
  <2>1. events[w] = <<>>
    BY <1>1, <1>2 DEF Deaths
  <2>2. <<>> # <<"exit0">>
    OBVIOUS
  <2> QED BY <1>1, <1>2, <1>5, <2>1, <2>2 DEF Deaths
<1>11. PoolLife' /\ (~EarlyExecute => WorkConserving')
  BY <1>1 DEF IInv, PoolLife, CapacityKept, WorkConserving
<1> QED BY <1>6, <1>7, <1>8, <1>9, <1>10, <1>11 DEF IInv

\* A thread that dies takes the task it was working on with it.
LEMMA DeathStep ==
  ASSUME IInv, NEW w \in WorkerIds, NEW how \in DOMAIN DeathOf, Die(w, how),
         thread[w] \in {"running", "stopping"}, faults' \in Nat,
         how = "exit0" => IdleCleanExit \/ inbox[w] # <<>>
  PROVE  IInv'
<1>1. /\ thread' = [thread EXCEPT ![w] = "dead"]
      /\ events' = [events EXCEPT ![w] = DeathOf[how]]
      /\ inbox' = [inbox EXCEPT ![w] = <<>>]
      /\ UNCHANGED <<workers, queue, active, terminated, info, outbox, promise, answer,
                     spawned, inits>>
  BY DEF Die, poolVars, callerVars
<1>2. /\ TypeOK /\ Coherent(workers, info) /\ Owned(queue, info, promise)
      /\ Mailed(info, inbox, outbox) /\ Unspawned /\ Deaths /\ PoolLife /\ OwnAnswer
  BY DEF IInv
<1>3. /\ DeathOf[how] \in {<<"error", "exit1">>, <<"exit1">>, <<"exit0">>}
      /\ DeathOf[how] = <<"exit0">> => how = "exit0"
  <2>1. <<"error", "exit1">> # <<"exit0">> /\ <<"exit1">> # <<"exit0">>
    OBVIOUS
  <2> QED BY <2>1 DEF DeathOf
<1>4. /\ inbox' \in [WorkerIds -> Seq(Tasks)] /\ inbox'[w] = <<>>
      /\ thread' \in [WorkerIds -> {"unborn", "running", "stopping", "dead", "reaped"}]
      /\ thread'[w] = "dead"
      /\ events' \in [WorkerIds -> Seq({"error", "exit0", "exit1"})]
      /\ events'[w] = DeathOf[how]
      /\ \A v \in WorkerIds \ {w} :
           inbox'[v] = inbox[v] /\ thread'[v] = thread[v] /\ events'[v] = events[v]
  <2>1. DeathOf[how] \in Seq({"error", "exit0", "exit1"}) /\ <<>> \in Seq(Tasks)
    <3>1. <<>> \in Seq(Tasks)
      OBVIOUS
    <3> QED BY <1>3, <3>1, EventTails, Zenon
  <2> QED BY <1>1, <1>2, <2>1 DEF TypeOK
<1>5. TypeOK'
  BY <1>1, <1>2, <1>4 DEF TypeOK
<1>6. Mailed(info, inbox, outbox)'
  <2>1. ASSUME ~info[w].dead
        PROVE  /\ Len(inbox'[w]) + Len(outbox[w]) <= 1
               /\ \A i \in DOMAIN inbox'[w] : inbox'[w][i] = info[w].current
    <3>1. Len(inbox[w]) + Len(outbox[w]) <= 1
      BY <1>2, <2>1 DEF Mailed
    <3>2. inbox[w] \in Seq(Tasks) /\ outbox[w] \in Seq([task : Tasks, ok : BOOLEAN])
      BY <1>2 DEF TypeOK
    <3>3. Len(inbox[w]) \in Nat /\ Len(outbox[w]) \in Nat
      BY <3>2
    <3>4. Len(inbox'[w]) = 0 /\ DOMAIN inbox'[w] = {}
      BY <1>4
    <3>5. \A a, b, c \in Nat : a + b <= 1 /\ c = 0 => c + b <= 1
      OBVIOUS
    <3>6. Len(inbox'[w]) + Len(outbox[w]) <= 1
      <4>1. Len(inbox'[w]) \in Nat
        BY <3>4
      <4> QED BY <3>1, <3>3, <3>4, <3>5, <4>1, Zenon
    <3> QED BY <3>4, <3>6
  <2>2. outbox' = outbox /\ info' = info
    BY <1>1
  <2> SUFFICES ASSUME NEW v \in WorkerIds, ~info[v].dead
               PROVE  /\ Len(inbox'[v]) + Len(outbox[v]) <= 1
                      /\ \A i \in DOMAIN inbox'[v] : inbox'[v][i] = info[v].current
                      /\ \A i \in DOMAIN outbox[v] : outbox[v][i].task = info[v].current
    BY <2>2 DEF Mailed
  <2>3. \A i \in DOMAIN outbox[v] : outbox[v][i].task = info[v].current
    BY <1>2 DEF Mailed
  <2>4. CASE v = w
    BY <2>1, <2>3, <2>4, Zenon
  <2>5. CASE v # w
    <3>1. inbox'[v] = inbox[v]
      BY <1>4, <2>5
    <3> QED BY <1>2, <2>3, <3>1 DEF Mailed
  <2> QED BY <2>4, <2>5
<1>7. Coherent(workers, info)' /\ Owned(queue, info, promise)' /\ OwnAnswer'
  BY <1>1, <1>2 DEF Coherent, Owned, In, HeldIn, OwnAnswer
<1>8. Unspawned'
  <2>1. ~(w > spawned)
    BY <1>2 DEF Unspawned
  <2> QED BY <1>1, <1>2, <1>4, <2>1 DEF Unspawned
<1>9. Deaths'
  <2>1. ASSUME ~IdleCleanExit, DeathOf[how] = <<"exit0">>, w \in workers
        PROVE  info[w].current # None /\ outbox[w] = <<>>
    <3>1. inbox[w] # <<>> /\ ~info[w].dead
      BY <1>2, <1>3, <2>1 DEF Coherent
    <3>2. inbox[w] \in Seq(Tasks) /\ outbox[w] \in Seq([task : Tasks, ok : BOOLEAN])
      BY <1>2 DEF TypeOK
    <3>3. 1 \in DOMAIN inbox[w] /\ inbox[w][1] \in Tasks /\ Len(inbox[w]) >= 1
      BY <3>1, <3>2
    <3>4. /\ inbox[w][1] = info[w].current
          /\ Len(inbox[w]) + Len(outbox[w]) <= 1
      BY <1>2, <3>1, <3>3 DEF Mailed
    <3>5. Len(outbox[w]) = 0
      <4>1. Len(inbox[w]) \in Nat /\ Len(outbox[w]) \in Nat
        BY <3>2
      <4>2. \A a, b \in Nat : a + b <= 1 /\ a >= 1 => b = 0
        OBVIOUS
      <4> QED BY <3>3, <3>4, <4>1, <4>2
    <3>6. info[w].current # None
      BY <3>3, <3>4, PoolAssumption DEF PoolAssumption
    <3> QED BY <3>2, <3>5, <3>6
  <2>2. DeathOf[how] # <<>>
    <3>1. <<"error", "exit1">> # <<>> /\ <<"exit1">> # <<>> /\ <<"exit0">> # <<>>
      OBVIOUS
    <3> QED BY <1>3, <3>1
  <2> QED BY <1>1, <1>2, <1>3, <1>4, <2>1, <2>2 DEF Deaths
<1>10. PoolLife' /\ (~EarlyExecute => WorkConserving')
  BY <1>1 DEF IInv, PoolLife, CapacityKept, WorkConserving
<1> QED BY <1>5, <1>6, <1>7, <1>8, <1>9, <1>10 DEF IInv

-------------------------------------------------------------------------------
(* The theorems *)

\* A step that changes nothing keeps the invariant.
LEMMA StutterStep == IInv /\ UNCHANGED vars => IInv'
<1> SUFFICES ASSUME IInv, UNCHANGED vars PROVE IInv'
  OBVIOUS
<1> USE DEF vars, poolVars, threadVars, callerVars, boundVars
<1>1. TypeOK'
  BY DEF IInv, TypeOK
<1>2. Coherent(workers, info)' /\ Owned(queue, info, promise)' /\ OwnAnswer'
  BY DEF IInv, Coherent, Owned, In, HeldIn, OwnAnswer
<1>3. Mailed(info, inbox, outbox)'
  BY DEF IInv, Mailed
<1>4. Unspawned' /\ Deaths'
  BY DEF IInv, Unspawned, Deaths
<1>5. PoolLife' /\ (~EarlyExecute => WorkConserving')
  BY DEF IInv, PoolLife, CapacityKept, WorkConserving
<1> QED BY <1>1, <1>2, <1>3, <1>4, <1>5 DEF IInv

\* Every step of the pool, its callers or its threads keeps IInv.
LEMMA IInvNext == IInv /\ [Next]_vars => IInv'
<1> SUFFICES ASSUME IInv, [Next]_vars PROVE IInv'
  OBVIOUS
<1>1. CASE InitPool
  BY <1>1, InitPoolStep
<1>2. CASE Terminate
  BY <1>2, TerminateStep
<1>3. ASSUME NEW t \in Tasks, Execute(t) PROVE IInv'
  BY <1>3, ExecuteStep
<1>4. ASSUME NEW w \in WorkerIds, OnMessage(w) PROVE IInv'
  BY <1>4, MessageStep
<1>5. ASSUME NEW w \in WorkerIds, OnError(w) PROVE IInv'
  BY <1>5, ErrorStep
<1>6. ASSUME NEW w \in WorkerIds, OnExit(w) PROVE IInv'
  BY <1>6, ExitStep
<1>7. ASSUME NEW w \in WorkerIds, Stop(w) PROVE IInv'
  <2>1. thread[w] = "stopping" /\ faults' = faults /\ Die(w, "exit1")
    BY <1>7 DEF Stop
  <2>2. "exit1" \in DOMAIN DeathOf /\ "exit1" # "exit0" /\ faults' \in Nat
    BY <2>1 DEF DeathOf, IInv, TypeOK
  <2> QED BY <2>1, <2>2, DeathStep
<1>8. ASSUME NEW w \in WorkerIds, NEW ok \in BOOLEAN, Work(w, ok) PROVE IInv'
  BY <1>8, WorkStep
<1>9. ASSUME NEW w \in WorkerIds, NEW how \in DOMAIN DeathOf, Fault(w, how) PROVE IInv'
  <2>1. /\ thread[w] = "running" /\ Die(w, how) /\ faults' \in Nat
        /\ how = "exit0" => IdleCleanExit \/ inbox[w] # <<>>
    BY <1>9 DEF Fault, IInv, TypeOK
  <2> QED BY <2>1, DeathStep
<1>10. CASE UNCHANGED vars
  BY <1>10, StutterStep
<1> QED BY <1>1, <1>2, <1>3, <1>4, <1>5, <1>6, <1>7, <1>8, <1>9, <1>10 DEF Next

\* IInv holds in every reachable state.
THEOREM Invariance == Spec => []IInv
<1> QED BY IInvInit, IInvNext, PTL DEF Spec

\* The fields of the pool, its records and the messages keep their types.
THEOREM TypeCorrect == Spec => []TypeOK
<1>1. IInv => TypeOK
  BY DEF IInv
<1> QED BY Invariance, <1>1, PTL

\* A pending promise has exactly one owner: a place of the queue or a worker.
THEOREM OneOwnerHolds == Spec => []OneOwner
<1>1. IInv => OneOwner
  BY DEF IInv, Owned, OneOwner, In, HeldIn, Queued, Held
<1> QED BY Invariance, <1>1, PTL

\* No promise is resolved with the result of another task.
THEOREM OwnAnswerHolds == Spec => []OwnAnswer
<1>1. IInv => OwnAnswer
  BY DEF IInv
<1> QED BY Invariance, <1>1, PTL

\* The pool keeps its capacity, however many workers crash.
THEOREM CapacityHolds == Spec => []CapacityKept
<1>1. IInv => CapacityKept
  BY DEF IInv, PoolLife
<1> QED BY Invariance, <1>1, PTL

\* If execute() is called only after init(), no task waits beside an idle worker.
THEOREM WorkConservingHolds == ASSUME ~EarlyExecute PROVE Spec => []WorkConserving
<1>1. IInv => WorkConserving
  BY DEF IInv
<1> QED BY Invariance, <1>1, PTL

\* If no thread exits with code 0 between two tasks, the pool holds no worker
\* whose exit it was told of.
THEOREM NoReapedWorkerHolds == ASSUME ~IdleCleanExit PROVE Spec => []NoReapedWorker
<1>1. IInv => NoReapedWorker
  BY DEF IInv, TypeOK, Deaths, NoReapedWorker
<1> QED BY Invariance, <1>1, PTL

-------------------------------------------------------------------------------
(* The pool implements TaskServer *)

\* The tasks that occupy a place, of a pool and its records.
Running(pool, inf) == {inf[w].current : w \in pool} \ {None}

\* Workers without a job that join or leave change nothing about the jobs at work.
LEMMA RunningSame ==
  ASSUME NEW pool \in SUBSET WorkerIds, NEW inf, NEW others \in SUBSET WorkerIds, NEW after,
         \A v \in WorkerIds : after[v].current = inf[v].current,
         \A v \in WorkerIds : v \in others \ pool \/ v \in pool \ others => inf[v].current = None
  PROVE  Running(others, after) = Running(pool, inf)
<1>1. ASSUME NEW t PROVE t \in Running(others, after) => t \in Running(pool, inf)
  BY DEF Running
<1>2. ASSUME NEW t PROVE t \in Running(pool, inf) => t \in Running(others, after)
  BY DEF Running
<1> QED
  BY <1>1, <1>2

\* Whoever works in the pool after a dispatch worked before or was given one of the
\* first k jobs.
LEMMA DispatchRuns ==
  ASSUME TypeOK, NEW q \in Seq(Tasks), NEW pool \in SUBSET WorkerIds,
         NEW inf \in [WorkerIds -> Record], NEW act \in Int, NEW k \in 0..Len(q),
         NEW took \in SUBSET Free(pool, inf), NEW job \in [took -> 1..k],
         Chosen(q, pool, inf, act, k, took, job), Coherent(pool, inf)
  PROVE  Running(pool, info') = Running(pool, inf) \cup {q[i] : i \in 1..k}
<1>1. \A w \in took : w \in pool /\ inf[w].current = None /\ info'[w].current = q[job[w]]
                      /\ job[w] \in 1..k
  BY DEF Chosen, Coherent
<1>2. \A w \in pool \ took : info'[w] = inf[w]
  BY DEF Chosen
<1>3. \A i \in 1..k : q[i] \in Tasks /\ q[i] # None
  BY PoolAssumption DEF PoolAssumption
<1>4. ASSUME NEW x \in Running(pool, info') PROVE x \in Running(pool, inf) \cup {q[i] : i \in 1..k}
  <2>1. PICK w \in pool : x = info'[w].current /\ x # None
    BY DEF Running
  <2> QED
    BY <1>1, <1>2, <2>1 DEF Running
<1>5. ASSUME NEW x \in Running(pool, inf) PROVE x \in Running(pool, info')
  <2>1. PICK w \in pool : x = inf[w].current /\ x # None
    BY DEF Running
  <2> QED
    BY <1>1, <1>2, <2>1 DEF Running
<1>6. ASSUME NEW i \in 1..k PROVE q[i] \in Running(pool, info')
  <2>1. PICK w \in took : job[w] = i
    BY DEF Chosen
  <2> QED
    BY <1>1, <1>3, <2>1 DEF Running
<1> QED
  BY <1>4, <1>5, <1>6

\* A pool runs as many tasks as it has workers at most, and exactly as many when
\* all are busy with different ones.
LEMMA RunningCount ==
  ASSUME NEW pool, IsFiniteSet(pool), NEW inf
  PROVE  /\ IsFiniteSet(Running(pool, inf))
         /\ Cardinality(Running(pool, inf)) <= Cardinality(pool)
         /\ /\ \A w \in pool : inf[w].current # None
            /\ \A v, w \in pool : inf[v].current = inf[w].current => v = w
            => Cardinality(Running(pool, inf)) = Cardinality(pool)
<1> DEFINE f == [w \in pool |-> inf[w].current]
           all == {inf[w].current : w \in pool}
<1>1. f \in Surjection(pool, all)
  BY DEF Surjection
<1>2. IsFiniteSet(all) /\ Cardinality(all) <= Cardinality(pool)
  BY <1>1, FS_Surjection
<1>3. Running(pool, inf) \subseteq all
  BY DEF Running
<1>4. IsFiniteSet(Running(pool, inf)) /\ Cardinality(Running(pool, inf)) <= Cardinality(all)
  BY <1>2, <1>3, FS_Subset
<1>5. /\ Cardinality(pool) \in Nat /\ Cardinality(all) \in Nat
      /\ Cardinality(Running(pool, inf)) \in Nat
  BY <1>2, <1>4, FS_CardinalityType
<1>6. ASSUME \A w \in pool : inf[w].current # None,
             \A v, w \in pool : inf[v].current = inf[w].current => v = w
      PROVE  Cardinality(Running(pool, inf)) = Cardinality(pool)
  <2>1. Running(pool, inf) = all
    BY <1>6 DEF Running
  <2>2. f \in Injection(pool, all)
    BY <1>1, <1>6 DEF Surjection, Injection, IsInjective
  <2>3. Cardinality(pool) = Cardinality(all)
    BY <1>1, <2>2, FS_Surjection
  <2> QED
    BY <2>1, <2>3
<1> QED
  BY <1>2, <1>4, <1>5, <1>6

\* A dispatch by a full pool admits as many tasks as there are places.
LEMMA DispatchAdmits ==
  ASSUME TypeOK, NEW q \in Seq(Tasks), NEW pool \in SUBSET WorkerIds,
         NEW inf \in [WorkerIds -> Record], NEW act \in Int, Dispatch(q, pool, inf, act),
         NEW prom, Coherent(pool, inf), Owned(q, inf, prom), ~terminated,
         Cardinality(pool) = Size
  PROVE  \E k \in 0..Len(q) :
           LET R2 == Running(pool, inf) \cup {q[i] : i \in 1..k} IN
           /\ Cardinality(R2) <= Size
           /\ k = Len(q) \/ Cardinality(R2) = Size
           /\ Running(workers', info') = R2
           /\ queue' = SubSeq(q, k + 1, Len(q))
<1>1. PICK k \in 0..Len(q), took \in SUBSET Free(pool, inf) :
        \E job \in [took -> 1..k] : Chosen(q, pool, inf, act, k, took, job)
  BY DispatchChoice
<1>2. PICK job \in [took -> 1..k] : Chosen(q, pool, inf, act, k, took, job)
  BY <1>1
<1> DEFINE R2 == Running(pool, inf) \cup {q[i] : i \in 1..k}
<1>3. workers' = pool /\ queue' = SubSeq(q, k + 1, Len(q)) /\ LoopDone(k, q, took, Free(pool, inf))
  BY <1>2 DEF Chosen
<1>4. Running(pool, info') = R2
  BY <1>2, DispatchRuns
<1>5. IsFiniteSet(pool)
  <2>1. IsFiniteSet(WorkerIds)
    <3>1. MaxWorkers \in Int /\ 1 \in Int
      BY PoolAssumption DEF PoolAssumption
    <3> QED
      BY <3>1, FS_Interval DEF WorkerIds
  <2> QED
    BY <2>1, FS_Subset
<1>6. Cardinality(R2) <= Size
  BY <1>4, <1>5, RunningCount
<1>7. ASSUME k # Len(q) PROVE Cardinality(R2) = Size
  <2>1. \A w \in pool : info'[w].busy
    <3>1. took = Idle(pool, inf)
      BY <1>3, <1>7 DEF LoopDone, Free
    <3>2. ASSUME NEW w \in pool PROVE info'[w].busy
      <4>1. CASE w \in took
        BY <1>2, <4>1 DEF Chosen
      <4>2. CASE w \notin took
        BY <1>2, <3>1, <4>2 DEF Idle, Chosen
      <4> QED BY <4>1, <4>2
    <3> QED BY <3>2
  <2>2. Coherent(pool, info')
    BY DispatchCoherent
  <2>3. Owned(queue', info', prom)
    BY DispatchOwned
  <2>4. \A w \in pool : info'[w].current # None
    BY <2>1, <2>2 DEF Coherent
  <2>5. \A v, w \in pool : info'[v].current = info'[w].current => v = w
    BY <2>3, <2>4 DEF Owned
  <2> QED
    BY <1>4, <1>5, <2>4, <2>5, RunningCount
<1> QED
  BY <1>3, <1>4, <1>6, <1>7

\* Without a job to give or a worker to give it to, a dispatch changes nothing.
LEMMA DispatchIdles ==
  ASSUME TypeOK, NEW pool \in SUBSET WorkerIds,
         NEW inf \in [WorkerIds -> Record], NEW act \in Int, Dispatch(queue, pool, inf, act),
         terminated \/ queue = <<>> \/ \A w \in pool : inf[w].busy
  PROVE  queue' = queue /\ workers' = pool /\ \A w \in WorkerIds : info'[w] = inf[w]
<1>1. queue \in Seq(Tasks)
  BY DEF TypeOK
<1>2. PICK k \in 0..Len(queue), took \in SUBSET Free(pool, inf) :
        \E job \in [took -> 1..k] : Chosen(queue, pool, inf, act, k, took, job)
  BY <1>1, DispatchChoice
<1>3. PICK job \in [took -> 1..k] : Chosen(queue, pool, inf, act, k, took, job)
  BY <1>2
<1>4. queue = <<>> \/ took = {}
  BY DEF Free, Idle
<1>5. \A i \in 1..k : \E w \in took : job[w] = i
  BY <1>3 DEF Chosen
<1>6. k = 0 /\ took = {}
  BY <1>1, <1>4, <1>5
<1> QED
  BY <1>1, <1>3, <1>6 DEF Chosen

\* The instance counts as this module does.
LEMMA SameCardinality == \A S : Server!Cardinality(S) = Cardinality(S)
BY DEF Server!Cardinality, Cardinality

IsOpen == ~terminated /\ workers # {}

\* What of the pool the server's variables see.
ServerUnchanged ==
  /\ queue' = queue /\ promise' = promise
  /\ Running(workers', info') = Running(workers, info)
  /\ IsOpen' = IsOpen

\* The facts of the invariant that the refinement rests on.
LEMMA PoolFacts ==
  ASSUME IInv
  PROVE  /\ TypeOK /\ Coherent(workers, info) /\ Owned(queue, info, promise)
         /\ terminated => workers = {} /\ queue = <<>>
         /\ inits = 0 => workers = {}
         /\ inits > 0 /\ ~terminated => Cardinality(workers) = Size /\ workers # {}
         /\ inits \in Nat /\ info \in [WorkerIds -> Record]
<1>1. /\ TypeOK /\ Coherent(workers, info) /\ Owned(queue, info, promise) /\ PoolLife
      /\ inits \in Nat /\ info \in [WorkerIds -> Record]
  BY DEF IInv, TypeOK, Record
<1>2. ASSUME inits > 0, ~terminated PROVE workers # {}
  <2>1. Cardinality(workers) = Size
    BY <1>1, <1>2 DEF PoolLife, CapacityKept
  <2> QED
    BY <2>1, FS_EmptySet, PoolAssumption DEF PoolAssumption
<1> QED
  BY <1>1, <1>2 DEF PoolLife, CapacityKept

\* init() opens the server, again after a terminate().
LEMMA InitPoolServes == ASSUME IInv, InitPool PROVE Server!Open
<1>1. /\ workers = {} /\ workers' = spawned + 1 .. spawned + Size /\ terminated' = FALSE
      /\ UNCHANGED <<queue, info, promise>>
  BY DEF InitPool, callerVars
<1>2. spawned \in Nat /\ spawned + 1 \in workers'
  BY <1>1, PoolAssumption DEF PoolAssumption, IInv, TypeOK
<1>3. \A w \in workers' : w \in WorkerIds /\ info[w].current = None
  BY <1>1, <1>2, PoolAssumption DEF PoolAssumption, IInv, Unspawned, InitPool, NewInfo, WorkerIds
<1>4. {info'[w].current : w \in workers'} \ {None} = {} /\ {info[w].current : w \in workers} \ {None} = {}
  BY <1>1, <1>3
<1> QED
  BY <1>1, <1>2, <1>4 DEF Server!Open

\* terminate() closes it: what waits is refused, what runs is forgotten.
LEMMA TerminateServes == ASSUME IInv, Terminate PROVE Server!Close
<1>1. \A t \in Tasks : (\E i \in DOMAIN queue : queue[i] = t) => promise[t] = "pending"
  BY DEF IInv, Owned, In
<1>2. promise' = [t \in Tasks |-> IF \E i \in DOMAIN queue : queue[i] = t
                                  THEN "rejected" ELSE promise[t]]
  BY <1>1 DEF Terminate
<1> QED
  BY <1>2 DEF Terminate, Server!Close

\* execute() submits a task: it is queued and admitted, or refused.
LEMMA ExecuteServes ==
  ASSUME IInv, ~EarlyExecute, NEW t \in Tasks, Execute(t) PROVE Server!Submit(t)
<1>1. inits > 0 /\ promise[t] = "unborn" /\ ~In(queue, t) /\ ~HeldIn(info, t)
  BY PoolFacts DEF Execute, Owned
<1>2. CASE terminated
  <2>1. promise' = [promise EXCEPT ![t] = "rejected"] /\ UNCHANGED <<workers, queue, terminated, info>>
    BY <1>2 DEF Execute, poolVars
  <2> QED
    BY <1>1, <1>2, <2>1 DEF Server!Submit
<1>3. CASE ~terminated
  <2> DEFINE q == Append(queue, t)
  <2>1. /\ promise' = [promise EXCEPT ![t] = "pending"] /\ terminated' = terminated
        /\ Dispatch(q, workers, info, active)
    BY <1>3 DEF Execute
  <2>2. /\ q \in Seq(Tasks) /\ workers \in SUBSET WorkerIds /\ info \in [WorkerIds -> Record]
        /\ active \in Int /\ TypeOK /\ Coherent(workers, info)
        /\ Cardinality(workers) = Size /\ workers # {}
    <3>1. /\ TypeOK /\ Coherent(workers, info) /\ info \in [WorkerIds -> Record]
          /\ Cardinality(workers) = Size /\ workers # {}
      BY <1>1, <1>3, PoolFacts
    <3>2. queue \in Seq(Tasks) /\ workers \in SUBSET WorkerIds /\ active \in Int
      BY <3>1 DEF TypeOK
    <3> QED
      BY <3>1, <3>2
  <2>3. Owned(q, info, promise')
    BY <1>1, <2>1, PoolFacts, OwnedAppend
  <2>4. \E k \in 0..Len(q) :
           LET R2 == Running(workers, info) \cup {q[i] : i \in 1..k} IN
           /\ Cardinality(R2) <= Size
           /\ k = Len(q) \/ Cardinality(R2) = Size
           /\ Running(workers', info') = R2
           /\ queue' = SubSeq(q, k + 1, Len(q))
    BY <1>3, <2>1, <2>2, <2>3, DispatchAdmits
  <2>5. workers' = workers
    BY <2>1, <2>2, DispatchTypes
  <2>6. Server!Admit(q, Running(workers, info))
    BY <2>4, SameCardinality DEF Server!Admit, Running
  <2> QED
    BY <1>1, <1>3, <2>1, <2>2, <2>5, <2>6 DEF Server!Submit, Running
<1> QED
  BY <1>2, <1>3

\* A job that ends: the task that ran is finished, a forgotten one finished late,
\* and the place taken at once.
LEMMA JobServes ==
  ASSUME IInv, WorkConserving, NEW w \in WorkerIds, NEW pool \in SUBSET WorkerIds,
         NEW inf \in [WorkerIds -> Record], NEW act \in Int,
         NEW o \in Settled, NEW from, info[w].current # None, Settle(info[w].current, o, from),
         Dispatch(queue, pool, inf, act), terminated' = terminated,
         inf[w].current = None, \A v \in WorkerIds : v # w => inf[v] = info[v],
         Coherent(pool, inf),
         w \in workers => Cardinality(pool) = Size /\ pool # {},
         w \notin workers => pool = workers,
         \A v \in pool \ workers : info[v].current = None /\ v # w,
         w \in workers => workers \ {w} \subseteq pool
  PROVE  \E t \in Tasks : Server!Finish(t, o) \/ Server!FinishLate(t, o)
<1> DEFINE job == info[w].current
<1>1. job \in Tasks /\ promise[job] = "pending" /\ HeldIn(info, job) /\ ~In(queue, job)
  BY PoolFacts DEF TypeOK, HeldIn, Owned
<1>2. promise' = [promise EXCEPT ![job] = o]
  BY <1>1 DEF Settle
<1>3. \A u, v \in WorkerIds : info[u].current = info[v].current /\ info[u].current # None => u = v
  BY PoolFacts DEF Owned
<1>4. CASE w \in workers
  <2>1. ~terminated /\ IsOpen
    BY <1>4, PoolFacts DEF IsOpen
  <2>2. Running(pool, inf) = Running(workers, info) \ {job}
    <3>1. ASSUME NEW x \in Running(pool, inf) PROVE x \in Running(workers, info) /\ x # job
      <4>1. PICK v \in pool : x = inf[v].current /\ x # None
        BY DEF Running
      <4>2. v # w /\ x = info[v].current /\ v \in workers
        BY <4>1
      <4> QED
        BY <1>3, <4>1, <4>2 DEF Running
    <3>2. ASSUME NEW x \in Running(workers, info), x # job PROVE x \in Running(pool, inf)
      <4>1. PICK v \in workers : x = info[v].current /\ x # None
        BY DEF Running
      <4>2. v # w /\ v \in pool /\ v \in WorkerIds
        BY <1>4, <3>2, <4>1
      <4> QED
        BY <4>1, <4>2 DEF Running
    <3> QED
      BY <3>1, <3>2
  <2>3. Owned(queue, inf, promise')
    <3>1. \A s \in Tasks : promise'[s] = "pending" <=> promise[s] = "pending" /\ s # job
      BY <1>1, <1>2, PoolFacts DEF TypeOK, Settled
    <3> HIDE DEF job
    <3>2. /\ Owned(queue, info, promise) /\ \A v \in WorkerIds \ {w} : inf[v] = info[v]
      BY PoolFacts
    <3> QED
      BY <3>1, <3>2, OwnedRelease DEF job
  <2>4. \E k \in 0..Len(queue) :
           LET R2 == Running(pool, inf) \cup {queue[i] : i \in 1..k} IN
           /\ Cardinality(R2) <= Size
           /\ k = Len(queue) \/ Cardinality(R2) = Size
           /\ Running(workers', info') = R2
           /\ queue' = SubSeq(queue, k + 1, Len(queue))
    <3>1. TypeOK /\ queue \in Seq(Tasks)
      BY PoolFacts DEF TypeOK
    <3> QED
      BY <1>4, <2>1, <2>3, <3>1, DispatchAdmits
  <2>5. Server!Admit(queue, Running(workers, info) \ {job})
    BY <2>2, <2>4, SameCardinality DEF Server!Admit, Running
  <2>6. workers' = pool
    BY PoolFacts, DispatchTypes DEF TypeOK
  <2>7. job \in Running(workers, info)
    BY <1>4 DEF Running
  <2>8. Server!Finish(job, o)
    BY <1>2, <1>4, <2>1, <2>5, <2>6, <2>7 DEF Server!Finish, Running, IsOpen
  <2> QED
    BY <1>1, <2>8
<1>5. CASE w \notin workers
  <2>1. terminated \/ queue = <<>> \/ \A v \in pool : inf[v].busy
    BY <1>5 DEF WorkConserving
  <2>2. queue' = queue /\ workers' = workers /\ \A v \in WorkerIds : info'[v] = inf[v]
    BY <1>5, <2>1, PoolFacts, DispatchIdles
  <2>3. workers \in SUBSET WorkerIds
    BY PoolFacts DEF TypeOK
  <2>4. {info'[v].current : v \in workers'} \ {None} = {info[v].current : v \in workers} \ {None}
    BY <1>5, <2>2, <2>3
  <2>5. job \notin {info[v].current : v \in workers} \ {None}
    BY <1>3, <1>5, <2>3
  <2>6. \A i \in DOMAIN queue : queue[i] # job
    BY <1>1 DEF In
  <2>7. Server!FinishLate(job, o)
    BY <1>1, <1>2, <2>2, <2>4, <2>5, <2>6 DEF Server!FinishLate
  <2> QED
    BY <1>1, <2>7
<1> QED
  BY <1>4, <1>5

\* A step that leaves the pool's jobs, promises and life alone shows the server nothing.
LEMMA ServerStutters == ASSUME ServerUnchanged PROVE UNCHANGED Server!vars
BY DEF ServerUnchanged, Server!vars, Running, IsOpen

\* 'message': the task of the worker is finished, or the message is dropped.
LEMMA MessageServes ==
  ASSUME IInv, WorkConserving, NEW w \in WorkerIds, OnMessage(w)
  PROVE  [Server!Next]_(Server!vars)
<1>1. TypeOK /\ Coherent(workers, info) /\ info \in [WorkerIds -> Record]
  BY PoolFacts
<1>2. CASE info[w].listener = None
  <2>1. UNCHANGED <<workers, queue, terminated, info, promise>>
    BY <1>2 DEF OnMessage, poolVars, callerVars
  <2> QED
    BY <2>1, ServerStutters DEF ServerUnchanged, IsOpen
<1>3. CASE info[w].listener # None
  <2> DEFINE inf == [info EXCEPT ![w] = AfterMessage(@)]
             o == IF Head(outbox[w]).ok THEN "resolved" ELSE "rejected"
  <2>1. info[w].current # None /\ info[w].current = info[w].listener
    BY <1>1, <1>3 DEF Coherent
  <2>2. /\ Settle(info[w].current, o, Head(outbox[w]).task)
        /\ Dispatch(queue, workers, inf, active - 1) /\ terminated' = terminated
    BY <1>3, <2>1 DEF OnMessage
  <2>3. /\ inf \in [WorkerIds -> Record] /\ inf[w].current = None /\ o \in Settled
        /\ \A v \in WorkerIds : v # w => inf[v] = info[v]
        /\ inf[w].listener = None /\ ~inf[w].busy /\ inf[w].dead = info[w].dead
    BY <1>1 DEF Record, AfterMessage, Settled
  <2>4. Coherent(workers, inf)
    BY <1>1, <2>3 DEF Coherent
  <2>5. workers \in SUBSET WorkerIds /\ active - 1 \in Int
    BY <1>1 DEF TypeOK
  <2>6. w \in workers => Cardinality(workers) = Size /\ workers # {}
    BY PoolFacts
  <2> HIDE DEF inf, o
  <2>7. \E t \in Tasks : Server!Finish(t, o) \/ Server!FinishLate(t, o)
    BY <2>1, <2>2, <2>3, <2>4, <2>5, <2>6, JobServes
  <2>8. o \in Server!Outcomes
    BY <2>3 DEF Settled, Server!Outcomes
  <2> QED
    BY <2>7, <2>8 DEF Server!Next
<1> QED
  BY <1>2, <1>3

\* A failure finishes the task of the worker; its replacement takes the next one.
LEMMA FailureServes ==
  ASSUME IInv, WorkConserving, NEW w \in WorkerIds, events[w] # <<>>, HandleWorkerFailure(w)
  PROVE  [Server!Next]_(Server!vars)
<1>1. /\ TypeOK /\ Coherent(workers, info) /\ info \in [WorkerIds -> Record] /\ Unspawned
      /\ spawned \in Nat /\ w \in Nat /\ w <= spawned /\ workers \in SUBSET WorkerIds
      /\ active \in Int
  <2>1. TypeOK /\ Coherent(workers, info) /\ info \in [WorkerIds -> Record]
    BY PoolFacts
  <2>2. Unspawned
    BY DEF IInv
  <2>3. spawned \in Nat /\ w \in Nat /\ workers \in SUBSET WorkerIds /\ active \in Int
    BY <2>1 DEF TypeOK, WorkerIds
  <2>4. w <= spawned
    BY <2>2, <2>3 DEF Unspawned
  <2> QED
    BY <2>1, <2>2, <2>3, <2>4
<1>2. CASE info[w].dead
  <2>1. UNCHANGED <<workers, queue, terminated, info, promise>>
    BY <1>2 DEF HandleWorkerFailure, poolVars, callerVars
  <2> QED
    BY <2>1, ServerStutters DEF ServerUnchanged, IsOpen
<1>3. CASE ~info[w].dead
  <2> DEFINE job == info[w].current
             new == Replacement(w)
             pool == (workers \ {w}) \cup new
             inf == [info EXCEPT ![w] = AfterFailure(@)]
             act == IF job = None THEN active ELSE active - 1
  <2>1. /\ new \subseteq WorkerIds
        /\ IF job = None THEN UNCHANGED callerVars ELSE Settle(job, "rejected", None)
        /\ Dispatch(queue, pool, inf, act) /\ terminated' = terminated
    BY <1>3 DEF HandleWorkerFailure
  <2>2. /\ inf \in [WorkerIds -> Record] /\ inf[w].current = None
        /\ \A v \in WorkerIds : v # w => inf[v] = info[v]
        /\ inf[w].listener = None /\ ~inf[w].busy /\ inf[w].dead
    BY <1>1 DEF Record, AfterFailure
  <2>3. /\ new = IF w \in workers THEN {spawned + 1} ELSE {}
        /\ w \in workers => Cardinality(workers) = Size /\ ~terminated
    <3>1. terminated => w \notin workers
      BY PoolFacts
    <3>2. inits = 0 => w \notin workers
      BY PoolFacts
    <3> QED
      BY <3>1, <3>2, PoolFacts DEF Replacement
  <2>4. \A v \in new : v \in WorkerIds /\ v \notin workers /\ v # w /\ info[v] = NewInfo
    BY <1>1, <2>1, <2>3 DEF Unspawned
  <2>5. pool \in SUBSET WorkerIds /\ act \in Int
    <3>1. pool \in SUBSET WorkerIds
      <4> HIDE DEF new
      <4> QED
        BY <1>1, <2>1
    <3>2. act \in Int
      <4> HIDE DEF job
      <4> QED
        BY <1>1
    <3> QED
      BY <3>1, <3>2
  <2>6. w \in workers => Cardinality(pool) = Size /\ pool # {}
    <3> SUFFICES ASSUME w \in workers PROVE Cardinality(pool) = Size /\ pool # {}
      OBVIOUS
    <3>1. IsFiniteSet(workers)
      <4>1. IsFiniteSet(WorkerIds)
        <5>1. MaxWorkers \in Int /\ 1 \in Int
          BY PoolAssumption DEF PoolAssumption
        <5> QED
          BY <5>1, FS_Interval DEF WorkerIds
      <4> QED
        BY <1>1, <4>1, FS_Subset
    <3>2. IsFiniteSet(workers \ {w}) /\ Cardinality(workers \ {w}) = Cardinality(workers) - 1
      BY <3>1, FS_RemoveElement
    <3>3. pool = (workers \ {w}) \cup {spawned + 1} /\ spawned + 1 \notin workers \ {w}
      BY <2>3, <2>4
    <3>4. Cardinality(pool) = Cardinality(workers \ {w}) + 1
      BY <3>2, <3>3, FS_AddElement
    <3> QED
      BY <2>3, <3>2, <3>3, <3>4, PoolAssumption DEF PoolAssumption
  <2>7. Coherent(pool, inf)
    <3>1. \A v \in pool : v \in workers \/ info[v] = NewInfo
      BY <2>4
    <3>2. w \notin pool
      BY <2>4
    <3> HIDE DEF pool, inf
    <3> QED
      BY <1>1, <2>2, <3>1, <3>2 DEF Coherent, NewInfo
  <2>8. w \notin workers => pool = workers
    BY <2>3
  <2>9. \A v \in pool \ workers : info[v].current = None /\ v # w
    BY <2>4 DEF NewInfo
  <2>10. workers \ {w} \subseteq pool
    OBVIOUS
  <2>11. CASE job = None
    <3>1. promise' = promise
      BY <2>1, <2>11 DEF callerVars
    <3>2. w \in workers /\ ~terminated => ~info[w].busy
      BY <1>1, <2>11 DEF Coherent
    <3>3. terminated \/ queue = <<>> \/ \A v \in pool : inf[v].busy
      BY <1>1, <2>2, <2>3, <2>8, <3>2 DEF WorkConserving
    <3>4. queue' = queue /\ workers' = pool /\ \A v \in WorkerIds : info'[v] = inf[v]
      <4> HIDE DEF pool, inf, act
      <4> QED
        BY <1>1, <2>1, <2>2, <2>5, <3>3, DispatchIdles
    <3>5. \A v \in WorkerIds : info'[v].current = info[v].current
      BY <2>2, <2>11, <3>4
    <3>6. IsOpen' = IsOpen
      BY <2>1, <2>6, <2>8, <3>4 DEF IsOpen
    <3>7. Running(workers', info') = Running(workers, info)
      <4>1. ASSUME NEW v \in WorkerIds, v \in workers' \ workers \/ v \in workers \ workers'
            PROVE  info[v].current = None
        BY <2>9, <2>11, <3>4, <4>1
      <4>2. workers \subseteq WorkerIds /\ workers' \subseteq WorkerIds
        BY <1>1, <2>5, <3>4
      <4> QED
        BY <3>5, <4>1, <4>2, RunningSame
    <3> QED
      BY <3>1, <3>4, <3>6, <3>7, ServerStutters DEF ServerUnchanged
  <2>12. CASE job # None
    <3>1. /\ Settle(info[w].current, "rejected", None) /\ "rejected" \in Settled
          /\ "rejected" \in Server!Outcomes
      BY <2>1, <2>12 DEF Settled, Server!Outcomes
    <3> HIDE DEF pool, inf, act
    <3>2. \E t \in Tasks : Server!Finish(t, "rejected") \/ Server!FinishLate(t, "rejected")
      BY <2>1, <2>2, <2>5, <2>6, <2>7, <2>8, <2>9, <2>10, <2>12, <3>1, JobServes
    <3> QED
      BY <3>1, <3>2 DEF Server!Next
  <2> QED
    BY <2>11, <2>12
<1> QED
  BY <1>2, <1>3

\* Every step of the pool is a step of the server, or shows it nothing.
LEMMA StepServes ==
  ASSUME IInv, ~EarlyExecute, [Next]_vars PROVE [Server!Next]_(Server!vars)
<1>1. WorkConserving
  BY DEF IInv
<1>2. ASSUME UNCHANGED <<workers, queue, terminated, info, promise>>
      PROVE  [Server!Next]_(Server!vars)
  BY <1>2, ServerStutters DEF ServerUnchanged, IsOpen
<1>3. CASE InitPool
  BY <1>3, InitPoolServes DEF Server!Next
<1>4. CASE Terminate
  BY <1>4, TerminateServes DEF Server!Next
<1>5. ASSUME NEW t \in Tasks, Execute(t) PROVE [Server!Next]_(Server!vars)
  BY <1>5, ExecuteServes DEF Server!Next
<1>6. ASSUME NEW w \in WorkerIds, OnMessage(w) PROVE [Server!Next]_(Server!vars)
  BY <1>1, <1>6, MessageServes
<1>7. ASSUME NEW w \in WorkerIds, OnError(w) PROVE [Server!Next]_(Server!vars)
  BY <1>1, <1>7, FailureServes DEF OnError
<1>8. ASSUME NEW w \in WorkerIds, OnExit(w) PROVE [Server!Next]_(Server!vars)
  <2>1. CASE ExitFails(w, Head(events[w]))
    BY <1>1, <1>8, <2>1, FailureServes DEF OnExit
  <2>2. CASE ~ExitFails(w, Head(events[w]))
    BY <1>2, <1>8, <2>2 DEF OnExit, poolVars, callerVars
  <2> QED
    BY <2>1, <2>2
<1>9. ASSUME NEW w \in WorkerIds, NEW ok \in BOOLEAN, Work(w, ok) PROVE [Server!Next]_(Server!vars)
  BY <1>2, <1>9 DEF Work, poolVars, callerVars
<1>10. ASSUME NEW w \in WorkerIds, Stop(w) \/ \E how \in DOMAIN DeathOf : Fault(w, how)
       PROVE  [Server!Next]_(Server!vars)
  BY <1>2, <1>10 DEF Stop, Fault, Die, poolVars, callerVars
<1>11. CASE UNCHANGED vars
  BY <1>2, <1>11 DEF vars, poolVars, callerVars
<1> QED
  BY <1>3, <1>4, <1>5, <1>6, <1>7, <1>8, <1>9, <1>10, <1>11 DEF Next

\* Through crashes, respawns, late answers and terminate(), the callers of execute()
\* see the first-come first-served server of TaskServer.
THEOREM ImplementsServerHolds == ASSUME ~EarlyExecute PROVE Spec => ImplementsServer
<1>1. Init => Server!Init
  BY DEF Init, Server!Init
<1>2. IInv /\ [Next]_vars => [Server!Next]_(Server!vars)
  BY StepServes
<1> QED
  BY Invariance, <1>1, <1>2, PTL DEF Spec, Server!Spec, ImplementsServer

-------------------------------------------------------------------------------
(* A processInParallel call, for every number of chunks, workers and faults *)

Phases == {"call", "submitting", "awaiting", "terminating"} \cup Done

RunTypeOK ==
  /\ n \in Tasks
  /\ phase \in Phases
  /\ next \in 1..(n + 1)
  /\ seen \in SUBSET Handed
  /\ completed \in Nat
  /\ reported \in Seq(Nat)
  /\ awaited \in SUBSET WorkerIds

Live(w) == thread[w] \in {"running", "stopping"}
Occupied(w) == info[w].current # None

\* The call has asked its pool to stop.
Over == phase = "terminating" \/ (phase \in Done /\ next > 1)

\* Who may still be at work in each phase, and that nothing comes after an exit.
Lives ==
  /\ phase = "call" => next = 1 /\ spawned = 0
  /\ phase = "submitting" => next <= n /\ ~terminated /\ inits > 0
  /\ phase = "awaiting" => next = n + 1 /\ ~terminated
  /\ phase \in {"submitting", "awaiting"} =>
       \A w \in WorkerIds : Live(w) \/ Occupied(w) => w \in workers
  /\ Over => /\ next = n + 1 /\ terminated
             /\ \A w \in WorkerIds : Live(w) \/ Occupied(w) => w \in awaited
  /\ phase \in Done /\ next > 1 => \A w \in awaited : thread[w] = "reaped"
  /\ \A w \in WorkerIds : thread[w] = "reaped" => outbox[w] = <<>>

Chunks ==
  /\ \A t \in Tasks : promise[t] = "unborn" <=> t >= next
  /\ \A t \in seen : promise[t] \in Settled

Tally == completed = Len(reported) /\ Len(reported) <= Cardinality(seen)

\* The chunks whose continuation is ready and has not run.
Unseen == {t \in Handed : t \notin seen /\ promise[t] \in Settled}

\* At most one is ready while the call awaits, and then it decides nothing yet;
\* after terminate(), one that counts keeps the pool from being gone.
Ready ==
  /\ phase = "submitting" => Unseen = {} /\ seen = {}
  /\ phase = "awaiting" => /\ \A s, t \in Unseen : s = t
                           /\ Unseen # {} => ~Decided
  /\ phase = "terminating" /\ (\E t \in Unseen : promise[t] = "resolved")
       => \E w \in awaited : thread[w] # "reaped"
  /\ phase \in Done => \A t \in Unseen : promise[t] # "resolved"

\* What the call is about to return, or has.
Outcome ==
  /\ Over => IF result = <<>> THEN \E t \in 1..n : Rejected(t)
             ELSE result = [i \in 1..n |-> i] /\ \A t \in 1..n : promise[t] = "resolved"
  /\ phase \in Done /\ next > 1 => (phase = "threw" <=> result = <<>>)

RunInv == RunTypeOK /\ Lives /\ Chunks /\ Tally /\ Ready /\ Outcome

-------------------------------------------------------------------------------
(* What the pool's events do to promises, threads and records *)

\* An event of w settles at most the job w holds, by a result only if one was
\* posted; whoever lives or holds a job afterwards is in the pool or was out of it.
EventEffect(w) ==
  /\ terminated' = terminated /\ inits' = inits
  /\ terminated => workers' = {}
  /\ \A t \in Tasks :
       /\ promise[t] # "pending" \/ t # info[w].current => promise'[t] = promise[t]
       /\ promise'[t] = "unborn" <=> promise[t] = "unborn"
       /\ promise'[t] = "resolved" /\ promise[t] # "resolved"
            => t = info[w].current /\ outbox[w] # <<>>
  /\ \A v \in WorkerIds :
       /\ thread'[v] \in {"running", "stopping"} => v \in workers' \/ (Live(v) /\ v \notin workers)
       /\ info'[v].current # None => v \in workers' \/ (Occupied(v) /\ v \notin workers)
       /\ thread[v] = "reaped" => thread'[v] = "reaped"
       /\ thread'[v] = "reaped" => thread[v] = "reaped" \/ outbox[v] = <<>>
       /\ outbox[v] = <<>> => outbox'[v] = <<>>

\* The promise of one job is settled, if it is pending; no other is touched.
LEMMA SettleEffect ==
  ASSUME TypeOK, NEW job \in Tasks, NEW o \in Settled, NEW from, Settle(job, o, from)
  PROVE  \A t \in Tasks :
           /\ promise[t] # "pending" \/ t # job => promise'[t] = promise[t]
           /\ promise'[t] = "unborn" <=> promise[t] = "unborn"
           /\ promise'[t] = "resolved" /\ promise[t] # "resolved" => t = job /\ o = "resolved"
<1>1. CASE promise[job] = "pending"
  <2>1. promise' = [promise EXCEPT ![job] = o]
    BY <1>1 DEF Settle
  <2> QED
    BY <1>1, <2>1 DEF TypeOK, Settled
<1>2. CASE promise[job] # "pending"
  <2>1. promise' = promise
    BY <1>2 DEF Settle, callerVars
  <2> QED
    BY <2>1
<1> QED
  BY <1>1, <1>2

\* 'message': the job held is settled, and the worker takes the next one.
LEMMA MessageEffect == ASSUME IInv, NEW w \in WorkerIds, OnMessage(w) PROVE EventEffect(w)
<1>1. TypeOK /\ Coherent(workers, info) /\ PoolLife
  BY DEF IInv
<1>2. /\ outbox[w] # <<>> /\ outbox' = [outbox EXCEPT ![w] = Tail(@)]
      /\ UNCHANGED <<thread, inits>>
  BY DEF OnMessage, boundVars
<1>3. \A v \in WorkerIds : outbox[v] = <<>> => outbox'[v] = <<>>
  BY <1>1, <1>2 DEF TypeOK
<1>4. CASE info[w].listener = None
  <2>1. UNCHANGED <<workers, info, promise, terminated>>
    BY <1>4 DEF OnMessage, poolVars, callerVars
  <2> QED
    BY <1>1, <1>2, <1>3, <2>1 DEF EventEffect, Live, Occupied, PoolLife
<1>5. CASE info[w].listener # None
  <2> DEFINE job == info[w].current
             inf == [info EXCEPT ![w] = AfterMessage(@)]
             outcome == IF Head(outbox[w]).ok THEN "resolved" ELSE "rejected"
  <2>1. job = info[w].listener /\ job \in Tasks
    BY <1>1, <1>5 DEF Coherent, TypeOK
  <2>2. /\ Settle(job, outcome, Head(outbox[w]).task)
        /\ Dispatch(queue, workers, inf, active - 1) /\ terminated' = terminated
    BY <1>5, <2>1 DEF OnMessage
  <2>3. /\ inf \in [WorkerIds -> Record] /\ inf[w].current = None
        /\ \A v \in WorkerIds : v # w => inf[v] = info[v]
    BY <1>1 DEF TypeOK, Record, AfterMessage
  <2>4. /\ queue \in Seq(Tasks) /\ workers \in SUBSET WorkerIds /\ active - 1 \in Int
        /\ outcome \in Settled
    BY <1>1 DEF TypeOK, Settled
  <2> HIDE DEF inf, outcome
  <2>5. workers' = workers
    BY <1>1, <2>2, <2>3, <2>4, DispatchTypes
  <2>6. \A v \in WorkerIds : v \notin workers => info'[v] = inf[v]
    BY <1>1, <2>2, <2>3, <2>4, DispatchLocal
  <2>7. \A t \in Tasks :
          /\ promise[t] # "pending" \/ t # job => promise'[t] = promise[t]
          /\ promise'[t] = "unborn" <=> promise[t] = "unborn"
          /\ promise'[t] = "resolved" /\ promise[t] # "resolved" => t = job
    BY <1>1, <2>1, <2>2, <2>4, SettleEffect
  <2> QED
    BY <1>1, <1>2, <1>3, <2>2, <2>3, <2>5, <2>6, <2>7 DEF EventEffect, Live, Occupied, PoolLife
<1> QED
  BY <1>4, <1>5

\* A failure rejects the job held and spawns a worker of the pool at most.
LEMMA FailureEffect ==
  ASSUME IInv, NEW w \in WorkerIds, NEW last \in {"dead", "reaped"}, events[w] # <<>>,
         last = "reaped" => outbox[w] = <<>>,
         HandleWorkerFailure(w), thread' = ThreadsAfter(w, last), UNCHANGED <<outbox, inits>>
  PROVE  EventEffect(w)
<1>1. TypeOK /\ Coherent(workers, info) /\ PoolLife /\ Unspawned /\ Deaths
  BY DEF IInv
<1>2. thread[w] = "dead" /\ w <= spawned /\ spawned \in Nat /\ WorkerIds \subseteq Nat
  BY <1>1 DEF Deaths, Unspawned, TypeOK, WorkerIds
<1>3. CASE info[w].dead
  <2>1. UNCHANGED <<workers, info, promise, terminated, spawned>> /\ w \notin workers
    BY <1>1, <1>3 DEF HandleWorkerFailure, poolVars, callerVars, Coherent
  <2>2. \A v \in WorkerIds : thread'[v] = IF v = w THEN last ELSE thread[v]
    BY <1>2, <2>1 DEF ThreadsAfter
  <2> QED
    BY <1>1, <1>2, <2>1, <2>2 DEF EventEffect, Live, Occupied, PoolLife
<1>4. CASE ~info[w].dead
  <2> DEFINE job == info[w].current
             new == Replacement(w)
             pool == (workers \ {w}) \cup new
             inf == [info EXCEPT ![w] = AfterFailure(@)]
             act == IF job = None THEN active ELSE active - 1
  <2>1. /\ new \subseteq WorkerIds
        /\ IF job = None THEN UNCHANGED callerVars ELSE Settle(job, "rejected", None)
        /\ Dispatch(queue, pool, inf, act)
        /\ spawned' = IF new = {} THEN spawned ELSE spawned + 1
        /\ terminated' = terminated
    BY <1>4 DEF HandleWorkerFailure
  <2>2. /\ inf \in [WorkerIds -> Record] /\ inf[w].current = None
        /\ \A v \in WorkerIds : v # w => inf[v] = info[v]
    BY <1>1 DEF TypeOK, Record, AfterFailure
  <2>3. /\ queue \in Seq(Tasks) /\ pool \in SUBSET WorkerIds /\ act \in Int
        /\ new \in {{}, {spawned + 1}} /\ (terminated => new = {} /\ workers = {})
    BY <1>1, <2>1 DEF TypeOK, Replacement, PoolLife
  <2> HIDE DEF inf, act, new, pool
  <2>4. workers' = pool
    BY <1>1, <2>1, <2>2, <2>3, DispatchTypes
  <2>5. \A v \in WorkerIds : v \notin pool => info'[v] = inf[v]
    BY <1>1, <2>1, <2>2, <2>3, DispatchLocal
  <2>6. \A t \in Tasks :
          /\ promise[t] # "pending" \/ t # job => promise'[t] = promise[t]
          /\ promise'[t] = "unborn" <=> promise[t] = "unborn"
          /\ promise'[t] = "resolved" <=> promise[t] = "resolved"
    <3>1. CASE job = None
      BY <2>1, <3>1 DEF callerVars
    <3>2. CASE job # None
      <4>1. job \in Tasks /\ "rejected" \in Settled /\ "rejected" # "resolved"
        BY <1>1, <3>2 DEF TypeOK, Settled
      <4>2. \A t \in Tasks :
              /\ promise[t] # "pending" \/ t # job => promise'[t] = promise[t]
              /\ promise'[t] = "unborn" <=> promise[t] = "unborn"
              /\ promise'[t] = "resolved" /\ promise[t] # "resolved" => FALSE
        BY <1>1, <2>1, <3>2, <4>1, SettleEffect
      <4> QED
        BY <4>2
    <3> QED
      BY <3>1, <3>2
  <2>7. \A v \in WorkerIds : /\ v \in new => thread'[v] = "running" /\ thread[v] = "unborn"
                             /\ v \notin new => thread'[v] = IF v = w THEN last ELSE thread[v]
    BY <1>1, <1>2, <2>1, <2>3 DEF ThreadsAfter, Unspawned
  <2>8. \A v \in WorkerIds : v \in pool <=> v \in new \/ (v \in workers /\ v # w)
    BY <1>2, <2>3 DEF pool
  <2>9. \A v \in WorkerIds :
          /\ thread'[v] \in {"running", "stopping"} => v \in pool \/ (Live(v) /\ v \notin workers)
          /\ info'[v].current # None => v \in pool \/ (Occupied(v) /\ v \notin workers)
    BY <1>2, <2>2, <2>5, <2>7, <2>8 DEF Live, Occupied
  <2>10. \A v \in WorkerIds :
          /\ thread[v] = "reaped" => thread'[v] = "reaped"
          /\ thread'[v] = "reaped" => thread[v] = "reaped" \/ outbox[v] = <<>>
    BY <1>2, <2>7
  <2>11. terminated => pool = {}
    BY <2>3 DEF pool
  <2> QED
    BY <2>1, <2>4, <2>6, <2>9, <2>10, <2>11 DEF EventEffect
<1> QED
  BY <1>3, <1>4

\* 'error' is a failure, and 'exit' may be one.
LEMMA DeathEffect ==
  ASSUME IInv, NEW w \in WorkerIds, OnError(w) \/ OnExit(w) PROVE EventEffect(w)
<1>1. thread[w] = "dead" /\ events[w] # <<>> /\ UNCHANGED <<outbox, inits>>
  BY DEF IInv, Deaths, OnError, OnExit, boundVars
<1>2. CASE OnError(w)
  BY <1>1, <1>2, FailureEffect DEF OnError
<1>3. CASE OnExit(w) /\ ExitFails(w, Head(events[w]))
  BY <1>1, <1>3, FailureEffect DEF OnExit
<1>4. CASE OnExit(w) /\ ~ExitFails(w, Head(events[w]))
  <2>1. UNCHANGED <<workers, info, promise, terminated, spawned>> /\ outbox[w] = <<>>
    BY <1>4 DEF OnExit, poolVars, callerVars
  <2>2. \A v \in WorkerIds : thread'[v] = IF v = w THEN "reaped" ELSE thread[v]
    BY <1>4, <2>1 DEF OnExit, ThreadsAfter, IInv, TypeOK
  <2> QED
    BY <1>1, <2>1, <2>2 DEF EventEffect, Live, Occupied, IInv, PoolLife
<1> QED
  BY <1>2, <1>3, <1>4

\* A thread that works, stops or dies changes nothing on the main thread.
LEMMA ThreadEffect ==
  ASSUME IInv, NEW w \in WorkerIds, ThreadStep(w) \/ ThreadFault(w)
  PROVE  /\ UNCHANGED <<workers, queue, info, promise, terminated, spawned, inits, runVars>>
         /\ \A v \in WorkerIds :
              /\ thread'[v] \in {"running", "stopping"} => Live(v)
              /\ thread'[v] = "reaped" <=> thread[v] = "reaped"
              /\ thread[v] = "reaped" => outbox'[v] = outbox[v]
<1>1. TypeOK
  BY DEF IInv
<1>2. ASSUME NEW how, Die(w, how), thread[w] \in {"running", "stopping"}
      PROVE  /\ UNCHANGED <<workers, queue, info, promise, terminated, spawned, inits, outbox>>
             /\ \A v \in WorkerIds : /\ thread'[v] \in {"running", "stopping"} => Live(v)
                                     /\ thread'[v] = "reaped" <=> thread[v] = "reaped"
  BY <1>1, <1>2 DEF Die, poolVars, callerVars, Live, TypeOK
<1>3. ASSUME NEW ok \in BOOLEAN, Work(w, ok)
      PROVE  /\ UNCHANGED <<workers, queue, info, promise, terminated, spawned, inits, thread>>
             /\ \A v \in WorkerIds : thread[v] = "reaped" => outbox'[v] = outbox[v]
  BY <1>1, <1>3 DEF Work, poolVars, callerVars, boundVars, TypeOK
<1>4. CASE ThreadStep(w)
  <2>1. CASE Stop(w)
    BY <1>2, <1>4, <2>1 DEF Stop, ThreadStep
  <2>2. CASE \E ok \in BOOLEAN : Work(w, ok)
    BY <1>3, <1>4, <2>2 DEF Live, ThreadStep
  <2> QED
    BY <1>4, <2>1, <2>2 DEF ThreadStep
<1>5. CASE ThreadFault(w)
  BY <1>2, <1>5 DEF ThreadFault, Fault
<1> QED
  BY <1>4, <1>5

-------------------------------------------------------------------------------
(* The invariant of the call *)

\* The chunks handed out are tasks, and there are no more of them than chunks.
LEMMA HandedTasks ==
  ASSUME RunTypeOK
  PROVE  /\ n \in Nat \ {0} /\ next \in Nat /\ 1..n \subseteq Tasks
         /\ Handed \subseteq 1..n
         /\ IsFiniteSet(seen) /\ Cardinality(seen) \in Nat /\ Cardinality(seen) <= n
<1>1. n \in Nat \ {0} /\ next \in Nat /\ 1..n \subseteq Tasks /\ Handed \subseteq 1..n
  BY ChunkAssumption DEF RunTypeOK, Handed
<1>2. IsFiniteSet(1..n) /\ Cardinality(1..n) = n
  BY <1>1, FS_Interval, SMT
<1>3. seen \subseteq 1..n
  BY <1>1 DEF RunTypeOK
<1>4. IsFiniteSet(seen) /\ Cardinality(seen) <= Cardinality(1..n)
  BY <1>2, <1>3, FS_Subset
<1> QED
  BY <1>1, <1>2, <1>4, FS_CardinalityType

\* Before the call there is neither pool nor promise.
LEMMA RunInvInit == RunInit => IInv /\ RunInv
<1> SUFFICES ASSUME RunInit PROVE IInv /\ RunInv
  OBVIOUS
<1>1. IInv
  BY IInvInit DEF RunInit
<1>2. n \in Nat \ {0} /\ \A t \in Tasks : t \in Nat \ {0}
  BY ChunkAssumption DEF RunInit
<1>3. RunTypeOK
  BY <1>2 DEF RunInit, RunTypeOK, Phases, Handed, Done
<1>4. Lives /\ Ready /\ Outcome
  BY DEF RunInit, Init, Lives, Ready, Outcome, Over, Done
<1>5. Chunks
  BY <1>2 DEF RunInit, Init, Chunks
<1>6. Tally
  <2>1. Cardinality(seen) = 0
    BY FS_EmptySet DEF RunInit
  <2> QED
    BY <2>1 DEF RunInit, Tally
<1> QED
  BY <1>1, <1>3, <1>4, <1>5, <1>6 DEF RunInv

\* Every step of the call is a step of its pool, or leaves the pool as it is.
LEMMA PoolStep == RunInv /\ [RunNext]_allVars => [Next]_vars
<1> SUFFICES ASSUME RunInv, RunNext PROVE Next \/ UNCHANGED vars
  BY DEF allVars
<1>1. CASE Refuse \/ ReturnChunk \/ Return \/ \E t \in Tasks : Continue(t)
  BY <1>1 DEF Refuse, ReturnChunk, Return, Continue
<1>2. CASE Begin \/ Finish
  BY <1>2 DEF Begin, Finish, Next
<1>3. CASE SubmitNext
  <2>1. next \in 1..n /\ Execute(next)
    BY <1>3, HandedTasks DEF SubmitNext, RunInv, RunTypeOK, Lives
  <2> QED
    BY <2>1, HandedTasks DEF Next, RunInv
<1>4. ASSUME NEW w \in WorkerIds, WorkerEvent(w) \/ ThreadStep(w) \/ ThreadFault(w)
      PROVE  Next
  BY <1>4 DEF WorkerEvent, ThreadStep, ThreadFault, Next
<1> QED
  BY <1>1, <1>2, <1>3, <1>4 DEF RunNext

\* A call that is refused, or has one chunk to return, starts no pool.
LEMMA NoPoolStep == ASSUME RunInv, Refuse \/ ReturnChunk PROVE RunInv'
<1>1. /\ phase = "call" /\ phase' \in Done
      /\ UNCHANGED <<vars, n, next, seen, completed, reported, awaited>>
  BY DEF Refuse, ReturnChunk, Done
<1>2. UNCHANGED <<workers, terminated, info, thread, outbox, promise, spawned, inits>>
  BY <1>1 DEF vars, poolVars, threadVars, callerVars, boundVars
<1>3. next = 1 /\ ~Over' /\ Handed = {} /\ Handed' = {}
  BY <1>1 DEF RunInv, Lives, Over, Done, Handed
<1>4. RunTypeOK'
  BY <1>1 DEF RunInv, RunTypeOK, Phases, Handed
<1>5. Lives'
  BY <1>1, <1>2, <1>3 DEF RunInv, Lives, Done
<1>6. Chunks' /\ Tally'
  BY <1>1, <1>2 DEF RunInv, Chunks, Tally
<1>7. Ready' /\ Outcome'
  BY <1>1, <1>3 DEF Ready, Outcome, Unseen, Done
<1> QED
  BY <1>4, <1>5, <1>6, <1>7 DEF RunInv

\* The pool starts: its workers are the only ones alive.
LEMMA BeginStep == ASSUME IInv, RunInv, Begin PROVE RunInv'
<1>1. /\ phase = "call" /\ phase' = "submitting" /\ InitPool
      /\ UNCHANGED <<operation, large, n, next, seen, completed, reported, awaited, result>>
  BY DEF Begin
<1>2. next = 1 /\ spawned = 0 /\ n \in Nat \ {0} /\ Handed = {} /\ seen = {}
  BY <1>1, HandedTasks DEF RunInv, Lives, Handed, RunTypeOK
<1>3. /\ terminated' = FALSE /\ inits' = inits + 1
      /\ UNCHANGED <<info, outbox, promise>>
      /\ \A w \in WorkerIds : thread'[w] = IF w \in workers' THEN "running" ELSE thread[w]
  BY <1>1 DEF InitPool, callerVars
<1>4. /\ inits \in Nat
      /\ \A w \in WorkerIds : info[w].current = None /\ thread[w] = "unborn" /\ outbox[w] = <<>>
  BY <1>2 DEF IInv, Unspawned, NewInfo, WorkerIds, TypeOK
<1>5. RunTypeOK'
  BY <1>1 DEF RunInv, RunTypeOK, Phases, Handed
<1>6. Lives'
  <2>1. ~Over'
    BY <1>1 DEF Over, Done
  <2> QED
    BY <1>1, <1>2, <1>3, <1>4, <2>1 DEF Lives, Live, Occupied, Done
<1>7. Chunks' /\ Tally'
  BY <1>1, <1>3 DEF RunInv, Chunks, Tally
<1>8. Ready' /\ Outcome'
  <2>1. Handed' = {}
    BY <1>1, <1>2 DEF Handed
  <2> QED
    BY <1>1, <1>2, <2>1 DEF Ready, Outcome, Unseen, Over, Done
<1> QED
  BY <1>5, <1>6, <1>7, <1>8 DEF RunInv

\* A chunk is handed to the pool, whose promise is pending from then on.
LEMMA SubmitStep == ASSUME IInv, RunInv, SubmitNext PROVE RunInv'
<1>1. /\ phase = "submitting" /\ Execute(next) /\ next' = next + 1
      /\ phase' = IF next = n THEN "awaiting" ELSE phase
      /\ UNCHANGED <<n, seen, completed, reported, awaited, result>>
  BY DEF SubmitNext
<1>2. TypeOK /\ n \in Nat \ {0} /\ next \in 1..n /\ 1..n \subseteq Tasks /\ next \in Tasks
  BY <1>1, HandedTasks DEF IInv, RunInv, Lives, RunTypeOK
<1>3. /\ ~terminated /\ inits > 0 /\ Unseen = {} /\ seen = {}
      /\ \A w \in WorkerIds : Live(w) \/ Occupied(w) => w \in workers
  BY <1>1 DEF RunInv, Lives, Ready
<1>4. /\ promise' = [promise EXCEPT ![next] = "pending"]
      /\ Dispatch(Append(queue, next), workers, info, active)
      /\ UNCHANGED <<terminated, thread, outbox, spawned, inits>>
  BY <1>1, <1>3 DEF Execute, threadVars, boundVars
<1>5. /\ workers' = workers
      /\ \A w \in WorkerIds : w \notin workers => info'[w] = info[w]
  <2>1. /\ Append(queue, next) \in Seq(Tasks) /\ workers \in SUBSET WorkerIds
        /\ info \in [WorkerIds -> Record] /\ active \in Int
    BY <1>2 DEF TypeOK, Record
  <2> QED
    BY <1>2, <1>4, <2>1, DispatchTypes, DispatchLocal
<1>6. \A t \in Tasks : promise'[t] = IF t = next THEN "pending" ELSE promise[t]
  BY <1>2, <1>4 DEF TypeOK
<1>7. RunTypeOK'
  BY <1>1, <1>2, <1>3 DEF RunInv, RunTypeOK, Phases
<1>8. Lives'
  <2>1. ~Over' /\ phase' \notin Done \cup {"call"}
    BY <1>1 DEF Over, Done
  <2> QED
    BY <1>1, <1>2, <1>3, <1>4, <1>5, <2>1 DEF RunInv, Lives, Live, Occupied
<1>9. Chunks' /\ Tally'
  <2>1. \A t \in Tasks : t \in Nat
    BY ChunkAssumption
  <2>2. \A t \in Tasks : promise'[t] = "unborn" <=> t >= next + 1
    BY <1>2, <1>6, <2>1 DEF RunInv, Chunks
  <2> QED
    BY <1>1, <1>3, <2>2 DEF RunInv, Chunks, Tally
<1>10. Unseen' = {}
  <2>1. \A t \in Handed' : t = next \/ t \in Handed
    BY <1>1, <1>2 DEF Handed
  <2>2. \A t \in Handed' : t \in Tasks
    BY <1>1, <1>2 DEF Handed
  <2>3. \A t \in Handed : promise[t] \notin Settled
    BY <1>3 DEF Unseen
  <2>4. \A t \in Handed' : promise'[t] \notin Settled
    BY <1>6, <2>1, <2>2, <2>3 DEF Settled
  <2> QED
    BY <2>4 DEF Unseen
<1>11. Ready' /\ Outcome'
  BY <1>1, <1>3, <1>10 DEF Ready, Outcome, Over, Done
<1> QED
  BY <1>7, <1>8, <1>9, <1>11 DEF RunInv

\* A continuation counts its chunk; only it is ready while the call awaits.
LEMMA ContinueStep == ASSUME RunInv, NEW t \in Tasks, Continue(t) PROVE RunInv'
<1>1. /\ t \in Handed /\ t \notin seen /\ promise[t] \in Settled /\ seen' = seen \cup {t}
      /\ UNCHANGED <<vars, n, phase, next, awaited, result>>
  BY DEF Continue
<1>2. UNCHANGED <<workers, terminated, info, thread, outbox, promise, spawned, inits>>
  BY <1>1 DEF vars, poolVars, threadVars, callerVars, boundVars
<1>3. /\ completed' = IF Rejected(t) THEN completed ELSE completed + 1
      /\ reported' = IF Rejected(t) THEN reported ELSE Append(reported, completed + 1)
  BY DEF Continue
<1>4. RunTypeOK'
  BY <1>1, <1>3 DEF RunInv, RunTypeOK, Handed
<1>5. Lives' /\ Over' = Over
  BY <1>1, <1>2 DEF RunInv, Lives, Over, Live, Occupied
<1>6. Chunks'
  BY <1>1, <1>2 DEF RunInv, Chunks
<1>7. Tally'
  <2>1. IsFiniteSet(seen) /\ Cardinality(seen) \in Nat /\ reported \in Seq(Nat) /\ completed \in Nat
    BY HandedTasks DEF RunInv, RunTypeOK
  <2>2. Cardinality(seen') = Cardinality(seen) + 1
    BY <1>1, <2>1, FS_AddElement
  <2> QED
    BY <1>3, <2>1, <2>2 DEF RunInv, Tally
<1>8. Unseen' = Unseen \ {t} /\ t \in Unseen
  BY <1>1, <1>2 DEF Unseen, Handed
<1>9. Ready'
  BY <1>1, <1>2, <1>8 DEF RunInv, Ready
<1>10. Outcome'
  BY <1>1, <1>2, <1>5 DEF RunInv, Outcome, Rejected
<1> QED
  BY <1>4, <1>5, <1>6, <1>7, <1>9, <1>10 DEF RunInv

\* The call is decided: what it returns is fixed, and its pool is told to stop.
LEMMA FinishStep == ASSUME IInv, RunInv, Finish PROVE RunInv'
<1>1. /\ phase = "awaiting" /\ Decided /\ phase' = "terminating" /\ awaited' = workers
      /\ result' = IF \E t \in seen : Rejected(t) THEN <<>> ELSE Merged
      /\ UNCHANGED <<n, next, seen, completed, reported>>
  BY DEF Finish
<1>2. /\ terminated' = TRUE /\ workers' = {} /\ UNCHANGED <<info, outbox>>
      /\ \A t \in Tasks : promise'[t] = IF promise[t] = "pending" /\ In(queue, t)
                                        THEN "rejected" ELSE promise[t]
      /\ \A w \in WorkerIds : thread'[w] = IF w \in workers /\ thread[w] = "running"
                                           THEN "stopping" ELSE thread[w]
  BY DEF Finish, Terminate, In
<1>3. /\ TypeOK /\ next = n + 1 /\ n \in Nat \ {0} /\ 1..n \subseteq Tasks /\ Handed = 1..n
      /\ seen \subseteq 1..n
  BY <1>1, HandedTasks DEF IInv, RunInv, Lives, Handed, RunTypeOK
<1>4. Unseen = {}
  BY <1>1 DEF RunInv, Ready
<1>5. RunTypeOK'
  BY <1>1, <1>3 DEF RunInv, RunTypeOK, Phases, Handed, TypeOK
<1>6. Lives'
  BY <1>1, <1>2, <1>3 DEF RunInv, Lives, Over, Live, Occupied, Done
<1>7. Chunks'
  BY <1>1, <1>2, <1>3 DEF RunInv, Chunks, Settled
<1>8. Tally'
  BY <1>1 DEF RunInv, Tally
<1>9. Ready'
  <2>1. ASSUME NEW t \in Unseen' PROVE promise'[t] # "resolved"
    <3>1. t \in 1..n /\ t \notin seen /\ t \in Tasks
      BY <1>1, <1>3 DEF Unseen, Handed
    <3>2. promise[t] \notin Settled
      BY <1>3, <1>4, <3>1 DEF Unseen
    <3> QED
      BY <1>2, <3>1, <3>2 DEF Settled
  <2> QED
    BY <1>1, <2>1 DEF Ready, Done
<1>10. Outcome'
  <2>1. CASE \E t \in seen : Rejected(t)
    <3>1. PICK t \in seen : promise[t] = "rejected"
      BY <2>1 DEF Rejected
    <3>2. t \in 1..n /\ promise'[t] = "rejected"
      BY <1>2, <1>3, <3>1
    <3> QED
      BY <1>1, <2>1, <3>2 DEF Outcome, Done, Rejected
  <2>2. CASE ~\E t \in seen : Rejected(t)
    <3>1. seen = 1..n /\ result' = [i \in 1..n |-> answer[i]]
      BY <1>1, <2>2 DEF Decided, Merged
    <3>2. \A t \in 1..n : promise[t] = "resolved"
      BY <2>2, <3>1 DEF RunInv, Chunks, Settled, Rejected
    <3>3. \A t \in 1..n : answer[t] = t /\ promise'[t] = "resolved"
      BY <1>2, <1>3, <3>2 DEF IInv, OwnAnswer
    <3>4. result' = [i \in 1..n |-> i] /\ result' # <<>>
      BY <1>3, <3>1, <3>3
    <3> QED
      BY <1>1, <3>3, <3>4 DEF Outcome, Done
  <2> QED
    BY <2>1, <2>2
<1> QED
  BY <1>5, <1>6, <1>7, <1>8, <1>9, <1>10 DEF RunInv

\* The pool is gone: nothing the call has not seen can count any more.
LEMMA ReturnStep == ASSUME RunInv, Return PROVE RunInv'
<1>1. /\ phase = "terminating" /\ PoolGone
      /\ phase' = IF result = <<>> THEN "threw" ELSE "returned"
      /\ UNCHANGED <<vars, n, next, seen, completed, reported, awaited, result>>
  BY DEF Return
<1>2. UNCHANGED <<workers, terminated, info, thread, outbox, promise, spawned, inits>>
  BY <1>1 DEF vars, poolVars, threadVars, callerVars, boundVars
<1>3. Over /\ Over' /\ phase' \in Done /\ next = n + 1 /\ n \in Nat \ {0}
  BY <1>1, HandedTasks DEF Over, Done, RunInv, Lives
<1>4. RunTypeOK'
  BY <1>1, <1>3 DEF RunInv, RunTypeOK, Phases, Handed
<1>5. Lives'
  BY <1>1, <1>2, <1>3 DEF RunInv, Lives, PoolGone, Live, Occupied, Done
<1>6. Chunks' /\ Tally'
  BY <1>1, <1>2 DEF RunInv, Chunks, Tally
<1>7. Ready'
  BY <1>1, <1>2, <1>3 DEF RunInv, Ready, PoolGone, Unseen, Handed, Done
<1>8. Outcome'
  BY <1>1, <1>2, <1>3 DEF RunInv, Outcome, Rejected, Done
<1> QED
  BY <1>4, <1>5, <1>6, <1>7, <1>8 DEF RunInv

\* An event finds every continuation run, and readies one at most.
LEMMA EventStep == ASSUME IInv, RunInv, NEW w \in WorkerIds, WorkerEvent(w) PROVE RunInv'
<1>1. CallWaits /\ UNCHANGED <<n, phase, next, seen, completed, reported, awaited, result>>
  BY DEF WorkerEvent, runVars
<1>2. TypeOK /\ Coherent(workers, info) /\ Unspawned /\ EventEffect(w)
  BY MessageEffect, DeathEffect DEF WorkerEvent, IInv
<1>3. phase # "submitting" /\ Unseen = {} /\ ~(phase = "awaiting" /\ Decided)
  BY <1>1 DEF CallWaits, Unseen
<1>4. phase # "call"
  <2> SUFFICES ASSUME phase = "call" PROVE FALSE
    OBVIOUS
  <2>1. spawned = 0
    BY DEF RunInv, Lives
  <2>2. outbox[w] = <<>> /\ events[w] = <<>>
    BY <1>2, <2>1 DEF Unspawned, WorkerIds
  <2> QED
    BY <2>2 DEF WorkerEvent, OnMessage, OnError, OnExit
<1>5. n \in Nat \ {0} /\ 1..n \subseteq Tasks /\ Handed \subseteq 1..n /\ seen \subseteq 1..n
  BY HandedTasks DEF RunInv, RunTypeOK
<1>6. \A t \in Tasks : promise[t] \in Settled => promise'[t] = promise[t]
  BY <1>2 DEF EventEffect, Settled
<1>7. Over' = Over /\ Handed' = Handed
  BY <1>1 DEF Over, Handed
<1>8. RunTypeOK'
  BY <1>1, <1>7 DEF RunInv, RunTypeOK
<1>9. Lives'
  <2>1. terminated' = terminated /\ (terminated => workers' = {})
    BY <1>2 DEF EventEffect
  <2>2. phase = "awaiting" => \A v \in WorkerIds : (Live(v) \/ Occupied(v))' => v \in workers'
    BY <1>2 DEF RunInv, Lives, EventEffect, Live, Occupied
  <2>3. Over => \A v \in WorkerIds : (Live(v) \/ Occupied(v))' => v \in awaited
    BY <1>2, <2>1 DEF RunInv, Lives, EventEffect, Live, Occupied
  <2>4. \A v \in WorkerIds : /\ thread[v] = "reaped" => thread'[v] = "reaped"
                             /\ thread'[v] = "reaped" => outbox'[v] = <<>>
    BY <1>2 DEF RunInv, Lives, EventEffect
  <2>5. phase \in Done /\ next > 1 => \A v \in awaited : thread'[v] = "reaped"
    BY <2>4 DEF RunInv, Lives, RunTypeOK
  <2> QED
    BY <1>1, <1>3, <1>4, <1>7, <2>1, <2>2, <2>3, <2>4, <2>5 DEF RunInv, Lives
<1>10. Chunks' /\ Tally'
  BY <1>1, <1>2, <1>5, <1>6 DEF RunInv, Chunks, Tally, EventEffect
<1>11. \A t \in Unseen' : t \in Tasks /\ t = info[w].current
  BY <1>1, <1>2, <1>3, <1>5, <1>7 DEF Unseen, EventEffect
<1>12. Ready'
  <2>1. phase = "awaiting" => ~Decided'
    <3>1. Decided' = Decided
      BY <1>1, <1>5, <1>6 DEF Decided, Rejected, RunInv, Chunks
    <3> QED
      BY <1>3, <3>1
  <2>2. ASSUME Over, NEW t \in Unseen', promise'[t] = "resolved"
        PROVE  w \in awaited /\ thread[w] # "reaped" /\ thread'[w] # "reaped"
    <3>1. t \in Tasks /\ t = info[w].current
      BY <1>11
    <3>2. promise[t] # "resolved"
      BY <1>1, <1>3, <1>7, <2>2 DEF Unseen, Settled
    <3>3. outbox[w] # <<>>
      BY <1>2, <2>2, <3>1, <3>2 DEF EventEffect
    <3>4. Occupied(w)
      BY <3>1, PoolAssumption DEF Occupied, PoolAssumption
    <3>5. w \in awaited /\ thread[w] # "reaped"
      BY <2>2, <3>3, <3>4 DEF RunInv, Lives
    <3> QED
      BY <1>2, <3>3, <3>5 DEF EventEffect
  <2>3. next \in Nat /\ (next > 1 \/ next = 1)
    BY <1>5 DEF RunInv, RunTypeOK
  <2>4. next = 1 => Unseen' = {}
    BY <1>7 DEF Unseen, Handed
  <2>5. ASSUME phase \in Done, NEW t \in Unseen' PROVE promise'[t] # "resolved"
    <3>1. next > 1 /\ Over
      BY <2>3, <2>4, <2>5 DEF Over
    <3> QED
      BY <2>2, <2>5, <3>1 DEF RunInv, Lives
  <2>6. phase = "terminating" => Over
    BY DEF Over
  <2>7. \A s, t \in Unseen' : s = t
    BY <1>11
  <2> QED
    BY <1>1, <1>3, <2>1, <2>2, <2>5, <2>6, <2>7 DEF Ready
<1>13. Outcome'
  <2>1. \A t \in 1..n : promise[t] \in Settled => promise'[t] = promise[t]
    BY <1>5, <1>6
  <2> QED
    BY <1>1, <1>7, <2>1 DEF RunInv, Outcome, Rejected, Settled
<1> QED
  BY <1>8, <1>9, <1>10, <1>12, <1>13 DEF RunInv

\* A thread's step shows the call nothing.
LEMMA QuietStep ==
  ASSUME IInv, RunInv, NEW w \in WorkerIds, ThreadStep(w) \/ ThreadFault(w) PROVE RunInv'
<1>1. /\ UNCHANGED <<workers, info, promise, terminated, spawned, inits>>
      /\ UNCHANGED <<n, phase, next, seen, completed, reported, awaited, result>>
      /\ \A v \in WorkerIds :
           /\ thread'[v] \in {"running", "stopping"} => Live(v)
           /\ thread'[v] = "reaped" <=> thread[v] = "reaped"
           /\ thread[v] = "reaped" => outbox'[v] = outbox[v]
  BY ThreadEffect DEF runVars
<1>2. RunTypeOK' /\ Over' = Over /\ Unseen' = Unseen /\ Decided' = Decided
  BY <1>1 DEF RunInv, RunTypeOK, Handed, Over, Unseen, Decided, Rejected
<1>3. Lives'
  BY <1>1, <1>2 DEF RunInv, Lives, Live, Occupied, RunTypeOK
<1>4. Chunks' /\ Tally' /\ Outcome'
  BY <1>1, <1>2 DEF RunInv, Chunks, Tally, Outcome, Rejected
<1>5. Ready'
  BY <1>1, <1>2 DEF RunInv, Ready, RunTypeOK
<1> QED
  BY <1>2, <1>3, <1>4, <1>5 DEF RunInv

\* Every step of the call keeps RunInv.
LEMMA RunInvNext == IInv /\ RunInv /\ [RunNext]_allVars => RunInv'
<1> SUFFICES ASSUME IInv, RunInv, [RunNext]_allVars PROVE RunInv'
  OBVIOUS
<1>1. CASE Refuse \/ ReturnChunk
  BY <1>1, NoPoolStep
<1>2. CASE Begin
  BY <1>2, BeginStep
<1>3. CASE SubmitNext
  BY <1>3, SubmitStep
<1>4. CASE Finish
  BY <1>4, FinishStep
<1>5. CASE Return
  BY <1>5, ReturnStep
<1>6. ASSUME NEW t \in Tasks, Continue(t) PROVE RunInv'
  BY <1>6, ContinueStep
<1>7. ASSUME NEW w \in WorkerIds, WorkerEvent(w) PROVE RunInv'
  BY <1>7, EventStep
<1>8. ASSUME NEW w \in WorkerIds, ThreadStep(w) \/ ThreadFault(w) PROVE RunInv'
  BY <1>8, QuietStep
<1>9. CASE UNCHANGED allVars
  <2>1. /\ UNCHANGED <<workers, terminated, info, thread, outbox, promise, spawned, inits>>
        /\ UNCHANGED <<n, phase, next, seen, completed, reported, awaited, result>>
    BY <1>9 DEF allVars, runVars, vars, poolVars, threadVars, callerVars, boundVars
  <2>2. Over' = Over /\ Unseen' = Unseen /\ Decided' = Decided
    BY <2>1 DEF Handed, Over, Unseen, Decided, Rejected
  <2> QED
    BY <2>1, <2>2 DEF RunInv, RunTypeOK, Lives, Chunks, Tally, Ready, Outcome, Handed, Live,
                      Occupied, Rejected
<1> QED
  BY <1>1, <1>2, <1>3, <1>4, <1>5, <1>6, <1>7, <1>8, <1>9 DEF RunNext

\* The pool's invariant and the call's hold in every reachable state of the call.
THEOREM RunInvariance == RunSpec => [](IInv /\ RunInv)
<1>1. IInv /\ RunInv /\ [RunNext]_allVars => IInv' /\ RunInv'
  BY PoolStep, IInvNext, RunInvNext
<1> QED
  BY RunInvInit, <1>1, PTL DEF RunSpec

-------------------------------------------------------------------------------
(* The properties *)

\* A settled call threw if and only if a chunk failed, or else returns every chunk's
\* own result in chunk order; either way no thread of its pool is left.
THEOREM AllOrNothingHolds == RunSpec => []AllOrNothing
<1>1. ASSUME IInv, RunInv, phase \in Done, next > 1
      PROVE  ChunksInOrder /\ ThrowsOnFailure /\ NoThreadLeft
  <2>1. Over /\ n \in Nat
    BY <1>1, HandedTasks DEF Over, RunInv
  <2>2. ChunksInOrder
    <3> SUFFICES ASSUME phase = "returned" PROVE Len(result) = n /\ \A i \in 1..n : result[i] = i
      BY DEF ChunksInOrder
    <3>1. result = [i \in 1..n |-> i]
      BY <1>1, <2>1 DEF RunInv, Outcome
    <3> QED
      BY <2>1, <3>1
  <2>3. ThrowsOnFailure
    BY <1>1, <2>1 DEF RunInv, Outcome, ThrowsOnFailure, Rejected
  <2>4. NoThreadLeft
    BY <1>1, <2>1 DEF RunInv, Lives, NoThreadLeft, Live
  <2> QED
    BY <2>2, <2>3, <2>4
<1>2. IInv /\ RunInv => AllOrNothing
  BY <1>1 DEF AllOrNothing
<1> QED
  BY RunInvariance, <1>2, PTL

\* onProgress counts one by one, up to the number of chunks and not after the end.
THEOREM ProgressCountsHolds == RunSpec => ProgressCounts
<1>1. ASSUME IInv, RunInv, [RunNext]_allVars
      PROVE  /\ reported' # reported => reported' = Append(reported, Len(reported) + 1)
             /\ Len(reported') <= n
             /\ phase \in Done => reported' = reported
  <2>1. /\ reported \in Seq(Nat) /\ Len(reported) <= Cardinality(seen) /\ completed = Len(reported)
        /\ IsFiniteSet(seen) /\ Cardinality(seen) \in Nat /\ Cardinality(seen) <= n /\ n \in Nat
    BY <1>1, HandedTasks DEF RunInv, RunTypeOK, Tally
  <2>2. CASE UNCHANGED reported
    BY <2>1, <2>2
  <2>3. ASSUME NEW t \in Tasks, Continue(t), ~Rejected(t)
        PROVE  /\ reported' = Append(reported, Len(reported) + 1)
               /\ Len(reported') <= n /\ phase \notin Done
    <3>1. /\ reported' = Append(reported, Len(reported) + 1)
          /\ t \in Handed /\ t \notin seen /\ promise[t] \in Settled
      BY <2>1, <2>3 DEF Continue
    <3>2. Cardinality(seen \cup {t}) <= n
      <4>1. IsFiniteSet(1..n) /\ Cardinality(1..n) = n
        BY <2>1, FS_Interval, SMT
      <4>2. seen \cup {t} \subseteq 1..n
        BY <1>1, <3>1, HandedTasks DEF RunInv, RunTypeOK
      <4> QED
        BY <4>1, <4>2, FS_Subset
    <3>3. Cardinality(seen \cup {t}) = Cardinality(seen) + 1
      BY <2>1, <3>1, FS_AddElement
    <3>4. t \in Unseen /\ promise[t] = "resolved"
      BY <2>3, <3>1 DEF Unseen, Rejected, Settled
    <3> QED
      BY <1>1, <2>1, <3>1, <3>2, <3>3, <3>4 DEF RunInv, Ready
  <2>4. UNCHANGED reported \/ \E t \in Tasks : Continue(t) /\ ~Rejected(t)
    BY <1>1 DEF RunNext, Refuse, ReturnChunk, Begin, SubmitNext, Continue, Finish, Return,
                WorkerEvent, ThreadStep, ThreadFault, runVars, allVars
  <2> QED
    BY <2>1, <2>2, <2>3, <2>4
<1>2. IInv /\ RunInv /\ [RunNext]_allVars
        => [/\ reported' # reported => reported' = Append(reported, Len(reported) + 1)
            /\ Len(reported') <= n
            /\ phase \in Done => reported' = reported]_<<reported, phase>>
  BY <1>1
<1> QED
  BY RunInvariance, <1>2, PTL DEF RunSpec, ProgressCounts
===============================================================================
