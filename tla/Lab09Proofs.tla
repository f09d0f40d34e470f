------------------------------ MODULE Lab09Proofs ------------------------------
(***************************************************************************)
(* Proofs about the two modules of laboratory 9, for any number of         *)
(* processors, scan codes, log entries and interrupts: the last key is     *)
(* never missed, nothing of the workqueue module outlives it, the tasklet  *)
(* is used after kfree() only because of a key or a reader that comes      *)
(* late, and an undisturbed reader gets the whole log.                     *)
(***************************************************************************)
EXTENDS Lab09, TLAPS

-------------------------------------------------------------------------------
(* The workqueue: its inductive invariant *)

\* A work queue exists from create_workqueue() to destroy_workqueue().
LiveStages == {"initF", "initS", "loaded", "flush", "destroy", "drain"}

\* What is registered, allocated, initialised and queued at each call of
\* work_queue_init() and work_queue_exit().
StageInv ==
  /\ registered <=> stage # "out"
  /\ handler # None => registered
  /\ workQueue = "live" <=> stage \in LiveStages
  /\ stage \notin LiveStages => Queued = {} /\ Running = {}
  /\ heard => stage \notin {"create", "initF", "initS"}
  /\ stage = "create" => inited = {}
  /\ stage = "initS" => "fWork" \in inited
  /\ stage = "loaded" => inited = Works

\* A pending bit that queue_work() respects belongs to a work that is queued.
PendingInv ==
  stage \in {"initF", "initS", "loaded"} => inited \cap pending \subseteq Queued

\* The last key has been read, or fWork is still to read the port: handler() is
\* about to queue it, it is queued, or it runs and has not read.
KeyInv ==
  stage = "loaded" /\ heard /\ port < 84 =>
    \/ simbol = port
    \/ handler = "fWork"
    \/ "fWork" \in Queued
    \/ "fWork" \in Running /\ ~slept

WorkInv == TypeOK /\ StageInv /\ PendingInv /\ KeyInv

\* The invariant holds before part 2 is loaded.
LEMMA WorkInit == Init => WorkInv
<1> SUFFICES ASSUME Init PROVE WorkInv
  OBVIOUS
<1>1. Queued = {} /\ Running = {}
  BY DEF Init, Queued, Running, Works, None
<1>2. TypeOK
  <2>1. queue \in [Cpus -> Seq(Works)]
    BY DEF Init
  <2>2. presses \in 0 .. MaxPresses /\ port \in Codes \cup {-1}
    BY WorkQueueAssumption DEF Init
  <2>3. simbol \in {c \in Codes : c < 84} \cup {-1}
    BY DEF Init
  <2>4. running \in [Cpus -> Works \cup {None}] /\ handler \in Works \cup {None} /\ cpu \in Cpus
    BY DEF Init
  <2> QED
    BY <2>1, <2>2, <2>3, <2>4 DEF Init, TypeOK
<1>3. StageInv /\ PendingInv /\ KeyInv
  BY <1>1 DEF Init, StageInv, PendingInv, KeyInv, LiveStages
<1> QED
  BY <1>2, <1>3 DEF WorkInv

\* queue_work() puts the work on a processor.
LEMMA TargetIsProcessor ==
  ASSUME TypeOK, NEW w \in Works
  PROVE  Target(w) \in Cpus
<1>1. CASE w \in Running
  <2>1. \E k \in Cpus : running[k] = w
    BY <1>1 DEF Running
  <2> QED
    BY <1>1, <2>1 DEF Target
<1>2. CASE w \notin Running
  BY <1>2 DEF Target, TypeOK
<1> QED
  BY <1>1, <1>2

\* A work that is appended to a queue is queued, and so are the others.
LEMMA AppendQueues ==
  ASSUME TypeOK, NEW w \in Works, NEW k \in Cpus, queue' = [queue EXCEPT ![k] = Append(@, w)]
  PROVE  queue' \in [Cpus -> Seq(Works)] /\ Queued' = Queued \cup {w}
<1> DEFINE q == queue[k]
<1>1. queue \in [Cpus -> Seq(Works)] /\ q \in Seq(Works)
  BY DEF TypeOK
<1>2. /\ Append(q, w) \in Seq(Works)
      /\ DOMAIN q = 1 .. Len(q) /\ Len(q) \in Nat
      /\ DOMAIN Append(q, w) = 1 .. Len(q) + 1
      /\ \A n \in DOMAIN q : Append(q, w)[n] = q[n]
      /\ Append(q, w)[Len(q) + 1] = w
  BY <1>1
<1>3. /\ queue' \in [Cpus -> Seq(Works)]
      /\ queue'[k] = Append(q, w)
      /\ \A l \in Cpus : l # k => queue'[l] = queue[l]
  BY <1>1, <1>2
<1>4. \A x \in Works : (\E n \in DOMAIN queue'[k] : queue'[k][n] = x)
                         <=> (\E n \in DOMAIN queue[k] : queue[k][n] = x) \/ x = w
  BY <1>2, <1>3
<1> QED
  BY <1>3, <1>4 DEF Queued

\* Taking the first work out of a queue leaves all others queued.
LEMMA TailQueues ==
  ASSUME TypeOK, NEW k \in Cpus, queue[k] # <<>>, queue' = [queue EXCEPT ![k] = Tail(@)]
  PROVE  /\ queue' \in [Cpus -> Seq(Works)]
         /\ Head(queue[k]) \in Queued
         /\ Queued' \subseteq Queued /\ Queued \subseteq Queued' \cup {Head(queue[k])}
<1> DEFINE q == queue[k]
<1>1. queue \in [Cpus -> Seq(Works)] /\ q \in Seq(Works) /\ q # <<>>
  BY DEF TypeOK
<1>2. /\ Tail(q) \in Seq(Works)
      /\ DOMAIN q = 1 .. Len(q) /\ Len(q) \in Nat /\ Len(q) > 0
      /\ DOMAIN Tail(q) = 1 .. Len(q) - 1
      /\ \A n \in DOMAIN Tail(q) : n + 1 \in DOMAIN q /\ Tail(q)[n] = q[n + 1]
      /\ Head(q) = q[1] /\ Head(q) \in Works
  BY <1>1
<1>3. \A n \in DOMAIN q : n = 1 \/ (n - 1 \in DOMAIN Tail(q) /\ Tail(q)[n - 1] = q[n])
  BY <1>2
<1>4. /\ queue' \in [Cpus -> Seq(Works)]
      /\ queue'[k] = Tail(q)
      /\ \A l \in Cpus : l # k => queue'[l] = queue[l]
  BY <1>1, <1>2
<1>5. Head(q) \in Queued
  <2>1. 1 \in DOMAIN queue[k] /\ queue[k][1] = Head(q)
    BY <1>2
  <2> QED
    BY <1>2, <2>1 DEF Queued
<1>6. Queued' \subseteq Queued
  BY <1>2, <1>4 DEF Queued
<1>7. Queued \subseteq Queued' \cup {Head(q)}
  <2> SUFFICES ASSUME NEW x \in Works, NEW l \in Cpus, NEW n \in DOMAIN queue[l],
                      queue[l][n] = x, x # Head(q)
               PROVE  \E m \in DOMAIN queue'[l] : queue'[l][m] = x
    BY DEF Queued
  <2>1. CASE l = k
    <3>1. n - 1 \in DOMAIN queue'[l] /\ queue'[l][n - 1] = x
      BY <1>2, <1>3, <1>4, <2>1
    <3> QED
      BY <3>1
  <2>2. CASE l # k
    BY <1>4, <2>2
  <2> QED
    BY <2>1, <2>2
<1> QED
  BY <1>4, <1>5, <1>6, <1>7

-------------------------------------------------------------------------------
(* The workqueue: one lemma per action *)

\* insmod and request_irq(): nothing is queued and no key has been heard of.
LEMMA RequestIrqKeeps ==
  ASSUME WorkInv, RequestIrq
  PROVE  WorkInv'
<1>1. TypeOK'
  <2>1. queue' \in [Cpus -> Seq(Works)]
    BY DEF RequestIrq
  <2> QED
    BY <2>1 DEF WorkInv, TypeOK, RequestIrq
<1>2. StageInv'
  BY WorkQueueAssumption DEF WorkInv, StageInv, LiveStages, TypeOK, Queued, Running,
    RequestIrq
<1>3. PendingInv'
  BY WorkQueueAssumption DEF WorkInv, PendingInv, TypeOK, StageInv, LiveStages,
    Queued, Running, RequestIrq
<1>4. KeyInv'
  BY WorkQueueAssumption DEF WorkInv, KeyInv, TypeOK, StageInv, LiveStages,
    PendingInv, Queued, Running, RequestIrq
<1> QED
  BY <1>1, <1>2, <1>3, <1>4 DEF WorkInv

\* create_workqueue(), or not.
LEMMA CreateWorkqueueKeeps ==
  ASSUME WorkInv, CreateWorkqueue
  PROVE  WorkInv'
<1>1. TypeOK'
  BY WorkQueueAssumption DEF WorkInv, TypeOK, queueVars, keyVars, CreateWorkqueue
<1>2. StageInv'
  BY WorkQueueAssumption DEF WorkInv, StageInv, LiveStages, TypeOK, Queued, Running,
    queueVars, keyVars, CreateWorkqueue
<1>3. PendingInv'
  BY WorkQueueAssumption DEF WorkInv, PendingInv, TypeOK, StageInv, LiveStages,
    Queued, Running, queueVars, keyVars, CreateWorkqueue
<1>4. KeyInv'
  BY WorkQueueAssumption DEF WorkInv, KeyInv, TypeOK, StageInv, LiveStages,
    PendingInv, Queued, Running, queueVars, keyVars, CreateWorkqueue
<1> QED
  BY <1>1, <1>2, <1>3, <1>4 DEF WorkInv

\* free_irq() waits for the handler.
LEMMA FreeIrqKeeps ==
  ASSUME WorkInv, FreeIrq
  PROVE  WorkInv'
<1>1. TypeOK'
  BY WorkQueueAssumption DEF WorkInv, TypeOK, queueVars, keyVars, FreeIrq
<1>2. StageInv'
  BY WorkQueueAssumption DEF WorkInv, StageInv, LiveStages, TypeOK, Queued, Running,
    queueVars, keyVars, FreeIrq
<1>3. PendingInv'
  BY WorkQueueAssumption DEF WorkInv, PendingInv, TypeOK, StageInv, LiveStages,
    Queued, Running, queueVars, keyVars, FreeIrq
<1>4. KeyInv'
  BY WorkQueueAssumption DEF WorkInv, KeyInv, TypeOK, StageInv, LiveStages,
    PendingInv, Queued, Running, queueVars, keyVars, FreeIrq
<1> QED
  BY <1>1, <1>2, <1>3, <1>4 DEF WorkInv

\* INIT_WORK() clears the pending bit.
LEMMA InitWorkKeeps ==
  ASSUME WorkInv, NEW w \in Works, NEW from, NEW to, <<w, from, to>> \in {<<"fWork",
    "initF", "initS">>, <<"sWork", "initS", "loaded">>}, InitWork(w, from, to)
  PROVE  WorkInv'
<1>1. TypeOK'
  BY WorkQueueAssumption DEF WorkInv, TypeOK, keyVars, InitWork
<1>2. StageInv'
  <2>1. UNCHANGED <<registered, workQueue, queue, running, handler, heard>>
    BY DEF InitWork, keyVars
  <2>2. CASE w = "fWork" /\ from = "initF" /\ to = "initS"
    BY <2>1, <2>2 DEF WorkInv, StageInv, LiveStages, InitWork
  <2>3. CASE w = "sWork" /\ from = "initS" /\ to = "loaded"
    <3>1. inited' = Works
      BY <2>3 DEF WorkInv, TypeOK, StageInv, InitWork, Works
    <3> QED
      BY <2>1, <2>3, <3>1 DEF WorkInv, StageInv, LiveStages, InitWork
  <2> QED
    BY <2>2, <2>3
<1>3. PendingInv'
  BY WorkQueueAssumption DEF WorkInv, PendingInv, TypeOK, StageInv, LiveStages,
    Queued, Running, keyVars, InitWork
<1>4. KeyInv'
  BY WorkQueueAssumption DEF WorkInv, KeyInv, TypeOK, StageInv, LiveStages,
    PendingInv, Queued, Running, keyVars, InitWork
<1> QED
  BY <1>1, <1>2, <1>3, <1>4 DEF WorkInv

\* flush_workqueue().
LEMMA FlushKeeps ==
  ASSUME WorkInv, Flush
  PROVE  WorkInv'
<1>1. TypeOK'
  <2>1. waiting' \subseteq Works \X {"pending", "running"}
    BY DEF Flush, Queued, Running
  <2>2. stage' = "flush" /\ UNCHANGED <<registered, workQueue, inited, pending, queue, running>>
    BY DEF Flush, queueVars
  <2>3. UNCHANGED <<slept, handler, cpu, port, presses, heard, simbol, oops>>
    BY DEF Flush, queueVars, keyVars
  <2> QED
    BY <2>1, <2>2, <2>3 DEF WorkInv, TypeOK
<1>2. StageInv'
  BY WorkQueueAssumption DEF WorkInv, StageInv, LiveStages, TypeOK, Queued, Running,
    queueVars, keyVars, Flush
<1>3. PendingInv'
  BY WorkQueueAssumption DEF WorkInv, PendingInv, TypeOK, StageInv, LiveStages,
    Queued, Running, queueVars, keyVars, Flush
<1>4. KeyInv'
  BY WorkQueueAssumption DEF WorkInv, KeyInv, TypeOK, StageInv, LiveStages,
    PendingInv, Queued, Running, queueVars, keyVars, Flush
<1> QED
  BY <1>1, <1>2, <1>3, <1>4 DEF WorkInv

\* The end of flush_workqueue().
LEMMA FlushedKeeps ==
  ASSUME WorkInv, Flushed
  PROVE  WorkInv'
<1>1. TypeOK'
  BY WorkQueueAssumption DEF WorkInv, TypeOK, queueVars, keyVars, Flushed
<1>2. StageInv'
  BY WorkQueueAssumption DEF WorkInv, StageInv, LiveStages, TypeOK, Queued, Running,
    queueVars, keyVars, Flushed
<1>3. PendingInv'
  BY WorkQueueAssumption DEF WorkInv, PendingInv, TypeOK, StageInv, LiveStages,
    Queued, Running, queueVars, keyVars, Flushed
<1>4. KeyInv'
  BY WorkQueueAssumption DEF WorkInv, KeyInv, TypeOK, StageInv, LiveStages,
    PendingInv, Queued, Running, queueVars, keyVars, Flushed
<1> QED
  BY <1>1, <1>2, <1>3, <1>4 DEF WorkInv

\* destroy_workqueue().
LEMMA DestroyKeeps ==
  ASSUME WorkInv, Destroy
  PROVE  WorkInv'
<1>1. TypeOK'
  BY WorkQueueAssumption DEF WorkInv, TypeOK, queueVars, keyVars, Destroy
<1>2. StageInv'
  BY WorkQueueAssumption DEF WorkInv, StageInv, LiveStages, TypeOK, Queued, Running,
    queueVars, keyVars, Destroy
<1>3. PendingInv'
  BY WorkQueueAssumption DEF WorkInv, PendingInv, TypeOK, StageInv, LiveStages,
    Queued, Running, queueVars, keyVars, Destroy
<1>4. KeyInv'
  BY WorkQueueAssumption DEF WorkInv, KeyInv, TypeOK, StageInv, LiveStages,
    PendingInv, Queued, Running, queueVars, keyVars, Destroy
<1> QED
  BY <1>1, <1>2, <1>3, <1>4 DEF WorkInv

\* The end of destroy_workqueue(): the queues are empty.
LEMMA DestroyedKeeps ==
  ASSUME WorkInv, Destroyed
  PROVE  WorkInv'
<1>1. TypeOK'
  BY WorkQueueAssumption DEF WorkInv, TypeOK, Idle, queueVars, keyVars, Destroyed
<1>2. StageInv'
  BY WorkQueueAssumption DEF WorkInv, StageInv, LiveStages, TypeOK, Queued, Running,
    Idle, queueVars, keyVars, Destroyed
<1>3. PendingInv'
  BY WorkQueueAssumption DEF WorkInv, PendingInv, TypeOK, StageInv, LiveStages,
    Queued, Running, Idle, queueVars, keyVars, Destroyed
<1>4. KeyInv'
  BY WorkQueueAssumption DEF WorkInv, KeyInv, TypeOK, StageInv, LiveStages,
    PendingInv, Queued, Running, Idle, queueVars, keyVars, Destroyed
<1> QED
  BY <1>1, <1>2, <1>3, <1>4 DEF WorkInv

\* A key.
LEMMA PressKeeps ==
  ASSUME WorkInv, NEW c \in Codes, NEW k \in Cpus, Press(c, k)
  PROVE  WorkInv'
<1>1. TypeOK'
  <2>1. presses' \in 0 .. MaxPresses
    BY WorkQueueAssumption DEF WorkInv, TypeOK, Press
  <2>2. /\ UNCHANGED <<stage, registered, workQueue, inited, waiting, pending, queue, running, slept>>
        /\ UNCHANGED <<simbol, oops>>
        /\ port' = c /\ cpu' = k /\ handler' = "fWork" /\ heard' = (stage = "loaded")
    BY DEF Press, moduleVars, queueVars
  <2> QED
    BY <2>1, <2>2 DEF WorkInv, TypeOK, Works
<1>2. StageInv'
  BY WorkQueueAssumption DEF WorkInv, StageInv, LiveStages, TypeOK, Queued, Running,
    moduleVars, queueVars, Press
<1>3. PendingInv'
  BY WorkQueueAssumption DEF WorkInv, PendingInv, TypeOK, StageInv, LiveStages,
    Queued, Running, moduleVars, queueVars, Press
<1>4. KeyInv'
  BY WorkQueueAssumption DEF WorkInv, KeyInv, TypeOK, StageInv, LiveStages,
    PendingInv, Queued, Running, moduleVars, queueVars, Press
<1> QED
  BY <1>1, <1>2, <1>3, <1>4 DEF WorkInv

\* queue_work(): a work that is pending is queued already.
LEMMA QueueWorkKeeps ==
  ASSUME WorkInv, QueueWork
  PROVE  WorkInv'
<1> DEFINE h == handler
<1>a. h \in Works /\ TypeOK
  BY DEF WorkInv, TypeOK, QueueWork
<1>b. /\ UNCHANGED <<stage, registered, workQueue, inited, waiting, running, slept>>
      /\ UNCHANGED <<cpu, port, presses, heard, simbol>>
  BY DEF QueueWork, moduleVars
<1>c. \/ handler' \in {"sWork", None} /\ pending' = pending \cup {h} /\ oops' = oops
      \/ UNCHANGED <<handler, pending, queue>> /\ oops' = TRUE /\ workQueue # "live"
  BY DEF QueueWork, Handled
<1>d. /\ queue' \in [Cpus -> Seq(Works)]
      /\ Queued \subseteq Queued' /\ Running' = Running
      /\ Queued' = Queued \/ stage \in LiveStages
  <2>1. CASE queue' = queue
    BY <1>a, <1>b, <2>1 DEF TypeOK, Queued, Running
  <2>2. CASE workQueue = "live" /\ queue' = [queue EXCEPT ![Target(h)] = Append(@, h)]
    BY <1>a, <1>b, <2>2, TargetIsProcessor, AppendQueues DEF WorkInv, StageInv, Running
  <2> QED
    BY <2>1, <2>2 DEF QueueWork
<1>e. workQueue = "live" /\ stage # "drain" /\ h \in inited \ pending => h \in Queued'
  <2> SUFFICES ASSUME workQueue = "live", stage # "drain", h \in inited \ pending
               PROVE  h \in Queued'
    OBVIOUS
  <2>1. queue' = [queue EXCEPT ![Target(h)] = Append(@, h)]
    BY DEF QueueWork
  <2> QED
    BY <1>a, <2>1, TargetIsProcessor, AppendQueues
<1>f. workQueue = "live" => handler' = IF h = "fWork" THEN "sWork" ELSE None
  BY DEF QueueWork, Handled
<1> HIDE DEF h
<1>1. TypeOK'
  <2>1. handler' \in Works \cup {None} /\ pending' \subseteq Works /\ oops' \in BOOLEAN
    BY <1>a, <1>c DEF TypeOK, Works
  <2> QED
    BY <1>a, <1>b, <1>d, <2>1 DEF TypeOK
<1>2. StageInv'
  BY <1>a, <1>b, <1>c, <1>d DEF WorkInv, StageInv, h, None, Works
<1>3. PendingInv'
  <2>1. stage \in {"initF", "initS", "loaded"} => workQueue = "live" /\ stage # "drain"
    BY DEF WorkInv, StageInv, LiveStages
  <2> QED
    BY <1>b, <1>c, <1>d, <1>e, <2>1 DEF WorkInv, PendingInv
<1>4. KeyInv'
  <2> SUFFICES ASSUME stage = "loaded", heard, port < 84
               PROVE  simbol = port \/ "fWork" \in Queued' \/ ("fWork" \in Running /\ ~slept)
    BY <1>b, <1>d DEF KeyInv
  <2>1. workQueue = "live" /\ inited = Works
    BY DEF WorkInv, StageInv, LiveStages
  <2>2. CASE h = "fWork"
    <3>1. h \in inited
      BY <1>a, <2>1
    <3>2. h \in pending => h \in Queued
      BY <3>1 DEF WorkInv, PendingInv
    <3>3. h \notin pending => h \in Queued'
      BY <1>e, <2>1, <3>1
    <3>4. h \in Queued'
      BY <1>d, <3>2, <3>3
    <3> QED
      BY <2>2, <3>4
  <2>3. CASE h # "fWork"
    <3>1. simbol = port \/ "fWork" \in Queued \/ ("fWork" \in Running /\ ~slept)
      BY <2>3 DEF WorkInv, KeyInv, h
    <3> QED
      BY <1>d, <3>1
  <2> QED
    BY <2>2, <2>3
<1> QED
  BY <1>1, <1>2, <1>3, <1>4 DEF WorkInv

\* A worker takes a work out of its queue.
LEMMA StartKeeps ==
  ASSUME WorkInv, NEW k \in Cpus, Start(k)
  PROVE  WorkInv'
<1> DEFINE w == Head(queue[k])
<1>a. TypeOK /\ queue[k] # <<>> /\ queue' = [queue EXCEPT ![k] = Tail(@)]
  BY DEF WorkInv, Start
<1>b. /\ UNCHANGED <<stage, registered, workQueue, inited, handler, cpu, port, presses, heard>>
      /\ UNCHANGED <<simbol, oops>>
      /\ running[k] = None /\ running' = [running EXCEPT ![k] = w]
      /\ pending' = pending \ {w} /\ slept' = (IF w = "fWork" THEN FALSE ELSE slept)
  BY DEF Start, keyVars
<1>c. /\ queue' \in [Cpus -> Seq(Works)] /\ w \in Queued
      /\ Queued' \subseteq Queued /\ Queued \subseteq Queued' \cup {w}
  BY <1>a, TailQueues
<1>d. waiting' = IF <<w, "pending">> \in waiting
                 THEN (waiting \ {<<w, "pending">>}) \cup {<<w, "running">>} ELSE waiting
  BY DEF Start
<1> HIDE DEF w
<1>e. w \in Works
  BY <1>c DEF Queued
<1>f. w \in Running' /\ Running \subseteq Running'
  <2>1. /\ running'[k] = w
        /\ \A l \in Cpus : l # k => running'[l] = running[l]
    BY <1>a, <1>b DEF TypeOK
  <2>2. None \notin Works
    BY DEF None, Works
  <2> QED
    BY <1>b, <1>e, <2>1, <2>2 DEF Running
<1>1. TypeOK'
  <2>1. waiting' \subseteq Works \X {"pending", "running"}
    BY <1>a, <1>d, <1>e DEF TypeOK
  <2>2. running' \in [Cpus -> Works \cup {None}] /\ pending' \subseteq Works /\ slept' \in BOOLEAN
    BY <1>a, <1>b, <1>e DEF TypeOK
  <2>3. UNCHANGED <<stage, registered, workQueue, inited, handler, cpu, port, presses, heard, simbol, oops>>
    BY <1>b
  <2> QED
    BY <1>a, <1>c, <2>1, <2>2, <2>3 DEF TypeOK
<1>2. StageInv'
  <2>1. stage \in LiveStages
    BY <1>c DEF WorkInv, StageInv
  <2> QED
    BY <1>b, <2>1 DEF WorkInv, StageInv
<1>3. PendingInv'
  BY <1>b, <1>c DEF WorkInv, PendingInv
<1>4. KeyInv'
  BY <1>b, <1>c, <1>f DEF WorkInv, KeyInv
<1> QED
  BY <1>1, <1>2, <1>3, <1>4 DEF WorkInv

\* queue_functionF() reads the port.
LEMMA ReadPortKeeps ==
  ASSUME WorkInv, NEW k \in Cpus, ReadPort(k)
  PROVE  WorkInv'
<1>1. TypeOK'
  BY WorkQueueAssumption DEF WorkInv, TypeOK, moduleVars, keyVars, ReadPort
<1>2. StageInv'
  BY WorkQueueAssumption DEF WorkInv, StageInv, LiveStages, TypeOK, Queued, Running,
    moduleVars, keyVars, ReadPort
<1>3. PendingInv'
  BY WorkQueueAssumption DEF WorkInv, PendingInv, TypeOK, StageInv, LiveStages,
    Queued, Running, moduleVars, keyVars, ReadPort
<1>4. KeyInv'
  BY WorkQueueAssumption DEF WorkInv, KeyInv, TypeOK, StageInv, LiveStages,
    PendingInv, Queued, Running, moduleVars, keyVars, ReadPort
<1> QED
  BY <1>1, <1>2, <1>3, <1>4 DEF WorkInv

\* The end of a work.
LEMMA ReturnKeeps ==
  ASSUME WorkInv, NEW k \in Cpus, Return(k)
  PROVE  WorkInv'
<1>1. TypeOK'
  BY WorkQueueAssumption DEF WorkInv, TypeOK, keyVars, Return
<1>2. StageInv'
  BY WorkQueueAssumption DEF WorkInv, StageInv, LiveStages, TypeOK, Queued, Running,
    keyVars, Return
<1>3. PendingInv'
  BY WorkQueueAssumption DEF WorkInv, PendingInv, TypeOK, StageInv, LiveStages,
    Queued, Running, keyVars, Return
<1>4. KeyInv'
  BY WorkQueueAssumption DEF WorkInv, KeyInv, TypeOK, StageInv, LiveStages,
    PendingInv, Queued, Running, keyVars, Return
<1> QED
  BY <1>1, <1>2, <1>3, <1>4 DEF WorkInv

\* Every step of part 2 and of the kernel workers keeps it.
LEMMA WorkQueueKeeps == WorkInv /\ [Next]_vars => WorkInv'
<1> SUFFICES ASSUME WorkInv, [Next]_vars PROVE WorkInv'
  OBVIOUS
<1>1. CASE UNCHANGED vars
  <2>1. /\ UNCHANGED <<stage, registered, workQueue, inited, waiting, pending, queue, running>>
        /\ UNCHANGED <<slept, handler, cpu, port, presses, heard, simbol, oops>>
    BY <1>1 DEF vars, moduleVars, queueVars, keyVars
  <2>2. Queued' = Queued /\ Running' = Running
    BY <2>1 DEF Queued, Running
  <2> QED
    BY <2>1, <2>2 DEF WorkInv, TypeOK, StageInv, PendingInv, KeyInv
<1>2. CASE ModuleStep
  <2>1. CASE InitWork("fWork", "initF", "initS") \/ InitWork("sWork", "initS", "loaded")
    BY <2>1, InitWorkKeeps DEF Works
  <2> QED
    BY <1>2, <2>1, CreateWorkqueueKeeps, FreeIrqKeeps, FlushedKeeps, DestroyKeeps, DestroyedKeeps
       DEF ModuleStep
<1>3. CASE \E k \in Cpus : \/ Start(k) \/ ReadPort(k) \/ Return(k)
                           \/ \E c \in Codes : Press(c, k)
  BY <1>3, StartKeeps, ReadPortKeeps, ReturnKeeps, PressKeeps
<1> QED
  BY <1>1, <1>2, <1>3, RequestIrqKeeps, FlushKeeps, QueueWorkKeeps DEF Next, Halted

-------------------------------------------------------------------------------
(* The tasklet: its inductive invariant *)

\* What is registered, allocated and scheduled at each call of my_tasklet_init()
\* and my_tasklet_exit().
StepInv ==
  /\ my_tasklet = "live" <=> step \in {"irq", "proc", "loaded", "kill", "wait", "kfree"}
  /\ irq => step \notin {"out", "irq", "remove"}
  /\ step \in {"loaded", "kill", "wait", "kfree", "free_irq"} => irq
  /\ entry <=> step \notin {"out", "irq", "proc"}
  /\ step = "irq" => ~told
  /\ step = "irq" \/ (step = "proc" /\ ~irq) => sched = "no" /\ func = "no"
  /\ sched = "taken" <=> step = "wait"

\* Without a late key and without the remains of a failed load, the tasklet is
\* scheduled, and runs, only while its memory and text are there.
QuietInv ==
  ~late /\ dangling = {} =>
    /\ ~fault
    /\ sched = "queued" => step \in {"proc", "loaded", "kill"}
    /\ func # "no" => step \in {"proc", "loaded", "kill", "wait"}

\* What LastKeyLogged says of the log.
LoggedKey == IF pos_simbol > 0 THEN log[pos_simbol - 1] = key ELSE log[POS_MAX - 1] # NULL

\* The last key is logged, or it is on its way: a scheduled tasklet, one that has
\* not read the port, or one that has read this key.
LogInv ==
  /\ sched = "queued" \/ func = "begun" => key # NULL
  /\ func = "read" => code # NULL
  /\ \A n \in 0 .. pos_simbol - 1 : log[n] # NULL
  /\ step \in {"irq", "proc", "loaded"} /\ told /\ key < 84 =>
       \/ sched = "queued"
       \/ func = "begun"
       \/ func = "read" /\ code = key
       \/ func = "no" /\ LoggedKey

\* An undisturbed reader has shown the first i entries.
ReadInv ==
  i # NULL /\ calm =>
    /\ i <= pos_simbol + 1
    /\ Len(shown) = i
    /\ \A n \in 1 .. i : shown[n] = EntryAt(n - 1)

TaskInv == TaskletTypeOK /\ StepInv /\ QuietInv /\ LogInv /\ ReadInv

\* The invariant holds before part 1 is loaded.
LEMMA TaskInit == TaskletInit => TaskInv
<1> SUFFICES ASSUME TaskletInit PROVE TaskInv
  OBVIOUS
<1>1. TaskletTypeOK
  <2>1. /\ pos_simbol \in 0 .. POS_MAX /\ keys \in 0 .. MaxKeys
        /\ log \in [0 .. POS_MAX - 1 -> Keys \cup {NULL}]
    BY TaskletAssumption DEF TaskletInit
  <2>2. i \in {NULL} \cup 0 .. POS_MAX + 1 /\ shown \in Seq(Keys \cup {NULL})
    BY DEF TaskletInit
  <2>3. key \in Keys \cup {NULL} /\ code \in Keys \cup {NULL}
    BY DEF TaskletInit
  <2> QED
    BY <2>1, <2>2, <2>3 DEF TaskletInit, TaskletTypeOK
<1>2. StepInv /\ QuietInv
  BY DEF TaskletInit, StepInv, QuietInv
<1>3. LogInv /\ ReadInv
  BY DEF TaskletInit, LogInv, ReadInv
<1> QED
  BY <1>1, <1>2, <1>3 DEF TaskInv

-------------------------------------------------------------------------------
(* The tasklet: one lemma per action *)

\* kmalloc() and tasklet_init(): an empty log, nothing scheduled.
LEMMA AllocKeeps ==
  ASSUME TaskInv, Alloc
  PROVE  TaskInv'
<1>1. TaskletTypeOK'
  BY TaskletAssumption DEF TaskInv, TaskletTypeOK, readVars, Alloc
<1>2. StepInv'
  BY TaskletAssumption DEF TaskInv, StepInv, TaskletTypeOK, readVars, Alloc
<1>3. QuietInv'
  BY TaskletAssumption DEF TaskInv, QuietInv, TaskletTypeOK, StepInv, readVars,
    Alloc
<1>4. LogInv'
  BY TaskletAssumption DEF TaskInv, LogInv, LoggedKey, TaskletTypeOK, StepInv, NULL,
    readVars, Alloc
<1>5. ReadInv'
  BY TaskletAssumption DEF TaskInv, ReadInv, EntryAt, TaskletTypeOK, readVars, Alloc
<1> QED
  BY <1>1, <1>2, <1>3, <1>4, <1>5 DEF TaskInv

\* request_irq().
LEMMA RequestHandlerKeeps ==
  ASSUME TaskInv, RequestHandler
  PROVE  TaskInv'
<1>1. TaskletTypeOK'
  BY TaskletAssumption DEF TaskInv, TaskletTypeOK, runVars, readVars, kbdVars,
    RequestHandler
<1>2. StepInv'
  BY TaskletAssumption DEF TaskInv, StepInv, TaskletTypeOK, runVars, readVars,
    kbdVars, RequestHandler
<1>3. QuietInv'
  BY TaskletAssumption DEF TaskInv, QuietInv, TaskletTypeOK, StepInv, runVars,
    readVars, kbdVars, RequestHandler
<1>4. LogInv'
  BY TaskletAssumption DEF TaskInv, LogInv, LoggedKey, TaskletTypeOK, StepInv, NULL,
    runVars, readVars, kbdVars, RequestHandler
<1>5. ReadInv'
  BY TaskletAssumption DEF TaskInv, ReadInv, EntryAt, TaskletTypeOK, runVars,
    readVars, kbdVars, RequestHandler
<1> QED
  BY <1>1, <1>2, <1>3, <1>4, <1>5 DEF TaskInv

\* proc_create(), and the load ends or is undone.
LEMMA ProcCreateKeeps ==
  ASSUME TaskInv, ProcCreate
  PROVE  TaskInv'
<1>1. TaskletTypeOK'
  BY TaskletAssumption DEF TaskInv, TaskletTypeOK, runVars, readVars, kbdVars,
    ProcCreate
<1>2. StepInv'
  BY TaskletAssumption DEF TaskInv, StepInv, TaskletTypeOK, runVars, readVars,
    kbdVars, ProcCreate
<1>3. QuietInv'
  BY TaskletAssumption DEF TaskInv, QuietInv, TaskletTypeOK, StepInv, runVars,
    readVars, kbdVars, ProcCreate
<1>4. LogInv'
  BY TaskletAssumption DEF TaskInv, LogInv, LoggedKey, TaskletTypeOK, StepInv, NULL,
    runVars, readVars, kbdVars, ProcCreate
<1>5. ReadInv'
  BY TaskletAssumption DEF TaskInv, ReadInv, EntryAt, TaskletTypeOK, runVars,
    readVars, kbdVars, ProcCreate
<1> QED
  BY <1>1, <1>2, <1>3, <1>4, <1>5 DEF TaskInv

\* rmmod.
LEMMA RmmodKeeps ==
  ASSUME TaskInv, Rmmod
  PROVE  TaskInv'
<1>1. TaskletTypeOK'
  BY TaskletAssumption DEF TaskInv, TaskletTypeOK, runVars, readVars, kbdVars,
    Rmmod, Moves
<1>2. StepInv'
  BY TaskletAssumption DEF TaskInv, StepInv, TaskletTypeOK, runVars, readVars,
    kbdVars, Rmmod, Moves
<1>3. QuietInv'
  BY TaskletAssumption DEF TaskInv, QuietInv, TaskletTypeOK, StepInv, runVars,
    readVars, kbdVars, Rmmod, Moves
<1>4. LogInv'
  BY TaskletAssumption DEF TaskInv, LogInv, LoggedKey, TaskletTypeOK, StepInv, NULL,
    runVars, readVars, kbdVars, Rmmod, Moves
<1>5. ReadInv'
  BY TaskletAssumption DEF TaskInv, ReadInv, EntryAt, TaskletTypeOK, runVars,
    readVars, kbdVars, Rmmod, Moves
<1> QED
  BY <1>1, <1>2, <1>3, <1>4, <1>5 DEF TaskInv

\* tasklet_kill() takes the SCHED bit.
LEMMA KillTakesKeeps ==
  ASSUME TaskInv, KillTakes
  PROVE  TaskInv'
<1>1. TaskletTypeOK'
  BY TaskletAssumption DEF TaskInv, TaskletTypeOK, readVars, kbdVars, KillTakes,
    Moves
<1>2. StepInv'
  BY TaskletAssumption DEF TaskInv, StepInv, TaskletTypeOK, readVars, kbdVars,
    KillTakes, Moves
<1>3. QuietInv'
  BY TaskletAssumption DEF TaskInv, QuietInv, TaskletTypeOK, StepInv, readVars,
    kbdVars, KillTakes, Moves
<1>4. LogInv'
  BY TaskletAssumption DEF TaskInv, LogInv, LoggedKey, TaskletTypeOK, StepInv, NULL,
    readVars, kbdVars, KillTakes, Moves
<1>5. ReadInv'
  BY TaskletAssumption DEF TaskInv, ReadInv, EntryAt, TaskletTypeOK, readVars,
    kbdVars, KillTakes, Moves
<1> QED
  BY <1>1, <1>2, <1>3, <1>4, <1>5 DEF TaskInv

\* tasklet_kill() has waited for the function.
LEMMA KillWaitsKeeps ==
  ASSUME TaskInv, KillWaits
  PROVE  TaskInv'
<1>1. TaskletTypeOK'
  BY TaskletAssumption DEF TaskInv, TaskletTypeOK, readVars, kbdVars, KillWaits,
    Moves
<1>2. StepInv'
  BY TaskletAssumption DEF TaskInv, StepInv, TaskletTypeOK, readVars, kbdVars,
    KillWaits, Moves
<1>3. QuietInv'
  BY TaskletAssumption DEF TaskInv, QuietInv, TaskletTypeOK, StepInv, readVars,
    kbdVars, KillWaits, Moves
<1>4. LogInv'
  BY TaskletAssumption DEF TaskInv, LogInv, LoggedKey, TaskletTypeOK, StepInv, NULL,
    readVars, kbdVars, KillWaits, Moves
<1>5. ReadInv'
  BY TaskletAssumption DEF TaskInv, ReadInv, EntryAt, TaskletTypeOK, readVars,
    kbdVars, KillWaits, Moves
<1> QED
  BY <1>1, <1>2, <1>3, <1>4, <1>5 DEF TaskInv

\* kfree() of the tasklet.
LEMMA KfreeKeeps ==
  ASSUME TaskInv, Kfree
  PROVE  TaskInv'
<1>1. TaskletTypeOK'
  BY TaskletAssumption DEF TaskInv, TaskletTypeOK, runVars, readVars, kbdVars,
    Kfree, Moves
<1>2. StepInv'
  BY TaskletAssumption DEF TaskInv, StepInv, TaskletTypeOK, runVars, readVars,
    kbdVars, Kfree, Moves
<1>3. QuietInv'
  BY TaskletAssumption DEF TaskInv, QuietInv, TaskletTypeOK, StepInv, runVars,
    readVars, kbdVars, Kfree, Moves
<1>4. LogInv'
  BY TaskletAssumption DEF TaskInv, LogInv, LoggedKey, TaskletTypeOK, StepInv, NULL,
    runVars, readVars, kbdVars, Kfree, Moves
<1>5. ReadInv'
  BY TaskletAssumption DEF TaskInv, ReadInv, EntryAt, TaskletTypeOK, runVars,
    readVars, kbdVars, Kfree, Moves
<1> QED
  BY <1>1, <1>2, <1>3, <1>4, <1>5 DEF TaskInv

\* free_irq().
LEMMA FreeHandlerKeeps ==
  ASSUME TaskInv, FreeHandler
  PROVE  TaskInv'
<1>1. TaskletTypeOK'
  <2>1. step' = "remove" /\ irq' \in BOOLEAN /\ UNCHANGED <<entry, my_tasklet, dangling, fault>>
    BY DEF FreeHandler, Moves
  <2>2. UNCHANGED <<sched, func, code, log, pos_simbol, i, shown, calm, key, told, keys, late>>
    BY DEF FreeHandler, runVars, readVars, kbdVars
  <2> QED
    BY <2>1, <2>2 DEF TaskInv, TaskletTypeOK
<1>2. StepInv'
  BY TaskletAssumption DEF TaskInv, StepInv, TaskletTypeOK, runVars, readVars,
    kbdVars, FreeHandler, Moves
<1>3. QuietInv'
  BY TaskletAssumption DEF TaskInv, QuietInv, TaskletTypeOK, StepInv, runVars,
    readVars, kbdVars, FreeHandler, Moves
<1>4. LogInv'
  BY TaskletAssumption DEF TaskInv, LogInv, LoggedKey, TaskletTypeOK, StepInv, NULL,
    runVars, readVars, kbdVars, FreeHandler, Moves
<1>5. ReadInv'
  BY TaskletAssumption DEF TaskInv, ReadInv, EntryAt, TaskletTypeOK, runVars,
    readVars, kbdVars, FreeHandler, Moves
<1> QED
  BY <1>1, <1>2, <1>3, <1>4, <1>5 DEF TaskInv

\* remove_proc_entry().
LEMMA RemoveEntryKeeps ==
  ASSUME TaskInv, RemoveEntry
  PROVE  TaskInv'
<1>1. TaskletTypeOK'
  <2>1. step' = "out" /\ entry' \in BOOLEAN /\ UNCHANGED <<irq, my_tasklet, dangling, fault>>
    BY DEF RemoveEntry, Moves
  <2>2. UNCHANGED <<sched, func, code, log, pos_simbol, i, shown, calm, key, told, keys, late>>
    BY DEF RemoveEntry, runVars, readVars, kbdVars
  <2> QED
    BY <2>1, <2>2 DEF TaskInv, TaskletTypeOK
<1>2. StepInv'
  BY TaskletAssumption DEF TaskInv, StepInv, TaskletTypeOK, runVars, readVars,
    kbdVars, RemoveEntry, Moves
<1>3. QuietInv'
  BY TaskletAssumption DEF TaskInv, QuietInv, TaskletTypeOK, StepInv, runVars,
    readVars, kbdVars, RemoveEntry, Moves
<1>4. LogInv'
  BY TaskletAssumption DEF TaskInv, LogInv, LoggedKey, TaskletTypeOK, StepInv, NULL,
    runVars, readVars, kbdVars, RemoveEntry, Moves
<1>5. ReadInv'
  BY TaskletAssumption DEF TaskInv, ReadInv, EntryAt, TaskletTypeOK, runVars,
    readVars, kbdVars, RemoveEntry, Moves
<1> QED
  BY <1>1, <1>2, <1>3, <1>4, <1>5 DEF TaskInv

\* A key.
LEMMA KeyIrqKeeps ==
  ASSUME TaskInv, NEW k \in Keys, KeyIrq(k)
  PROVE  TaskInv'
<1>1. TaskletTypeOK'
  BY TaskletAssumption DEF TaskInv, TaskletTypeOK, loadVars, readVars, KeyIrq,
    Scheduled
<1>2. StepInv'
  BY TaskletAssumption DEF TaskInv, StepInv, TaskletTypeOK, loadVars, readVars,
    KeyIrq, Scheduled
<1>3. QuietInv'
  BY TaskletAssumption DEF TaskInv, QuietInv, TaskletTypeOK, StepInv, loadVars,
    readVars, KeyIrq, Scheduled
<1>4. LogInv'
  BY TaskletAssumption DEF TaskInv, LogInv, LoggedKey, TaskletTypeOK, StepInv, NULL,
    loadVars, readVars, KeyIrq, Scheduled
<1>5. ReadInv'
  BY TaskletAssumption DEF TaskInv, ReadInv, EntryAt, TaskletTypeOK, loadVars,
    readVars, KeyIrq, Scheduled
<1> QED
  BY <1>1, <1>2, <1>3, <1>4, <1>5 DEF TaskInv

\* The softirq starts the function.
LEMMA BeginKeeps ==
  ASSUME TaskInv, Begin
  PROVE  TaskInv'
<1>1. TaskletTypeOK'
  BY TaskletAssumption DEF TaskInv, TaskletTypeOK, loadVars, readVars, kbdVars,
    Begin, Usable
<1>2. StepInv'
  BY TaskletAssumption DEF TaskInv, StepInv, TaskletTypeOK, loadVars, readVars,
    kbdVars, Begin, Usable
<1>3. QuietInv'
  BY TaskletAssumption DEF TaskInv, QuietInv, TaskletTypeOK, StepInv, loadVars,
    readVars, kbdVars, Begin, Usable
<1>4. LogInv'
  BY TaskletAssumption DEF TaskInv, LogInv, LoggedKey, TaskletTypeOK, StepInv, NULL,
    loadVars, readVars, kbdVars, Begin, Usable
<1>5. ReadInv'
  BY TaskletAssumption DEF TaskInv, ReadInv, EntryAt, TaskletTypeOK, loadVars,
    readVars, kbdVars, Begin, Usable
<1> QED
  BY <1>1, <1>2, <1>3, <1>4, <1>5 DEF TaskInv

\* my_tasklet_function() reads the port.
LEMMA InbKeeps ==
  ASSUME TaskInv, Inb
  PROVE  TaskInv'
<1>1. TaskletTypeOK'
  BY TaskletAssumption DEF TaskInv, TaskletTypeOK, loadVars, readVars, kbdVars, Inb,
    Usable
<1>2. StepInv'
  BY TaskletAssumption DEF TaskInv, StepInv, TaskletTypeOK, loadVars, readVars,
    kbdVars, Inb, Usable
<1>3. QuietInv'
  BY TaskletAssumption DEF TaskInv, QuietInv, TaskletTypeOK, StepInv, loadVars,
    readVars, kbdVars, Inb, Usable
<1>4. LogInv'
  BY TaskletAssumption DEF TaskInv, LogInv, LoggedKey, TaskletTypeOK, StepInv, NULL,
    loadVars, readVars, kbdVars, Inb, Usable
<1>5. ReadInv'
  BY TaskletAssumption DEF TaskInv, ReadInv, EntryAt, TaskletTypeOK, loadVars,
    readVars, kbdVars, Inb, Usable
<1> QED
  BY <1>1, <1>2, <1>3, <1>4, <1>5 DEF TaskInv

\* my_tasklet_function() logs the key.
LEMMA LogKeeps ==
  ASSUME TaskInv, Log
  PROVE  TaskInv'
<1>a. /\ func = "read" /\ func' = "no" /\ fault' = ~Usable
      /\ UNCHANGED <<step, irq, entry, my_tasklet, dangling, sched, code, i, shown, key, told, keys, late>>
  BY DEF Log, loadVars, kbdVars
<1>b. code \in Int /\ POS_MAX \in Nat /\ POS_MAX > 0 /\ pos_simbol \in 0 .. POS_MAX
  BY TaskletAssumption DEF TaskInv, TaskletTypeOK, NULL
<1>c. \/ code >= 84 /\ UNCHANGED <<log, pos_simbol, calm>>
      \/ /\ code < 84 /\ pos_simbol < POS_MAX /\ calm' = FALSE
         /\ log' = [log EXCEPT ![pos_simbol] = code] /\ pos_simbol' = pos_simbol + 1
      \/ code < 84 /\ pos_simbol = POS_MAX /\ calm' = FALSE /\ log' = log /\ pos_simbol' = 0
  BY <1>b DEF Log
<1>1. TaskletTypeOK'
  <2>1. pos_simbol' \in 0 .. POS_MAX
    BY <1>b, <1>c
  <2>3. calm' \in BOOLEAN
    BY <1>c, Zenon DEF TaskInv, TaskletTypeOK
  <2>2. log' \in [0 .. POS_MAX - 1 -> Keys \cup {NULL}]
    BY <1>c DEF TaskInv, TaskletTypeOK
  <2> QED
    BY <1>a, <2>1, <2>2, <2>3 DEF TaskInv, TaskletTypeOK, Usable
<1>2. StepInv'
  BY TaskletAssumption DEF TaskInv, StepInv, TaskletTypeOK, loadVars, kbdVars, Log,
    Usable
<1>3. QuietInv'
  BY TaskletAssumption DEF TaskInv, QuietInv, TaskletTypeOK, StepInv, loadVars,
    kbdVars, Log, Usable
<1>4. LogInv'
  <2>1. code # NULL /\ log \in [0 .. POS_MAX - 1 -> Keys \cup {NULL}]
    BY <1>a DEF TaskInv, LogInv, TaskletTypeOK
  <2>2. \A n \in 0 .. pos_simbol' - 1 : log'[n] # NULL
    BY <1>b, <1>c, <2>1 DEF TaskInv, LogInv
  <2>3. code < 84 /\ code = key => LoggedKey'
    <3> SUFFICES ASSUME code < 84, code = key PROVE LoggedKey'
      OBVIOUS
    <3>1. CASE pos_simbol < POS_MAX
      <4>1. log'[pos_simbol' - 1] = code /\ pos_simbol' > 0
        BY <1>b, <1>c, <2>1, <3>1
      <4> QED
        BY <1>a, <4>1 DEF LoggedKey
    <3>2. CASE pos_simbol = POS_MAX
      <4>1. log[POS_MAX - 1] # NULL
        BY <1>b, <3>2 DEF TaskInv, LogInv
      <4> QED
        BY <1>b, <1>c, <3>2, <4>1 DEF LoggedKey
    <3> QED
      BY <1>b, <3>1, <3>2
  <2> QED
    BY <1>a, <2>2, <2>3 DEF TaskInv, LogInv
<1>5. ReadInv'
  BY TaskletAssumption DEF TaskInv, ReadInv, EntryAt, TaskletTypeOK, loadVars,
    kbdVars, Log, Usable
<1> QED
  BY <1>1, <1>2, <1>3, <1>4, <1>5 DEF TaskInv

\* A reader enters f().
LEMMA OpenLogKeeps ==
  ASSUME TaskInv, OpenLog
  PROVE  TaskInv'
<1>1. TaskletTypeOK'
  BY TaskletAssumption DEF TaskInv, TaskletTypeOK, loadVars, runVars, kbdVars,
    OpenLog
<1>2. StepInv'
  BY TaskletAssumption DEF TaskInv, StepInv, TaskletTypeOK, loadVars, runVars,
    kbdVars, OpenLog
<1>3. QuietInv'
  BY TaskletAssumption DEF TaskInv, QuietInv, TaskletTypeOK, StepInv, loadVars,
    runVars, kbdVars, OpenLog
<1>4. LogInv'
  BY TaskletAssumption DEF TaskInv, LogInv, LoggedKey, TaskletTypeOK, StepInv, NULL,
    loadVars, runVars, kbdVars, OpenLog
<1>5. ReadInv'
  BY TaskletAssumption DEF TaskInv, ReadInv, EntryAt, TaskletTypeOK, loadVars,
    runVars, kbdVars, OpenLog
<1> QED
  BY <1>1, <1>2, <1>3, <1>4, <1>5 DEF TaskInv

\* f() prints one entry.
LEMMA ShowKeeps ==
  ASSUME TaskInv, Show
  PROVE  TaskInv'
<1>1. TaskletTypeOK'
  <2>1. EntryAt(i) \in Keys \cup {NULL} /\ i' \in 0 .. POS_MAX + 1
    BY TaskletAssumption DEF TaskInv, TaskletTypeOK, Show, EntryAt, NULL
  <2>2. shown' \in Seq(Keys \cup {NULL})
    BY <2>1 DEF TaskInv, TaskletTypeOK, Show
  <2>3. UNCHANGED <<step, irq, entry, my_tasklet, dangling, sched, func, code, log, pos_simbol>>
    BY DEF Show, loadVars, runVars
  <2>4. UNCHANGED <<calm, key, told, keys, late, fault>>
    BY DEF Show, kbdVars
  <2> QED
    BY <2>1, <2>2, <2>3, <2>4 DEF TaskInv, TaskletTypeOK
<1>2. StepInv'
  BY TaskletAssumption DEF TaskInv, StepInv, TaskletTypeOK, loadVars, runVars,
    kbdVars, Show
<1>3. QuietInv'
  BY TaskletAssumption DEF TaskInv, QuietInv, TaskletTypeOK, StepInv, loadVars,
    runVars, kbdVars, Show
<1>4. LogInv'
  BY TaskletAssumption DEF TaskInv, LogInv, LoggedKey, TaskletTypeOK, StepInv, NULL,
    loadVars, runVars, kbdVars, Show
<1>5. ReadInv'
  BY TaskletAssumption DEF TaskInv, ReadInv, EntryAt, TaskletTypeOK, loadVars,
    runVars, kbdVars, Show
<1> QED
  BY <1>1, <1>2, <1>3, <1>4, <1>5 DEF TaskInv

\* f() ends.
LEMMA EndOfLogKeeps ==
  ASSUME TaskInv, EndOfLog
  PROVE  TaskInv'
<1>1. TaskletTypeOK'
  BY TaskletAssumption DEF TaskInv, TaskletTypeOK, loadVars, runVars, kbdVars,
    EndOfLog
<1>2. StepInv'
  BY TaskletAssumption DEF TaskInv, StepInv, TaskletTypeOK, loadVars, runVars,
    kbdVars, EndOfLog
<1>3. QuietInv'
  BY TaskletAssumption DEF TaskInv, QuietInv, TaskletTypeOK, StepInv, loadVars,
    runVars, kbdVars, EndOfLog
<1>4. LogInv'
  BY TaskletAssumption DEF TaskInv, LogInv, LoggedKey, TaskletTypeOK, StepInv, NULL,
    loadVars, runVars, kbdVars, EndOfLog
<1>5. ReadInv'
  BY TaskletAssumption DEF TaskInv, ReadInv, EntryAt, TaskletTypeOK, loadVars,
    runVars, kbdVars, EndOfLog
<1> QED
  BY <1>1, <1>2, <1>3, <1>4, <1>5 DEF TaskInv

\* Every step of part 1, of softirqs and of the reader keeps it.
LEMMA TaskletKeeps == TaskInv /\ [TaskletNext]_taskletVars => TaskInv'
<1> SUFFICES ASSUME TaskInv, [TaskletNext]_taskletVars PROVE TaskInv'
  OBVIOUS
<1>1. CASE UNCHANGED taskletVars
  <2>1. /\ UNCHANGED <<step, irq, entry, my_tasklet, dangling, sched, func, code, log>>
        /\ UNCHANGED <<pos_simbol, i, shown, calm, key, told, keys, late, fault>>
    BY <1>1 DEF taskletVars, loadVars, runVars, readVars, kbdVars
  <2> QED
    BY <2>1 DEF TaskInv, TaskletTypeOK, StepInv, QuietInv, LogInv, LoggedKey, ReadInv, EntryAt
<1>2. CASE LoadStep \/ OpenLog \/ \E k \in Keys : KeyIrq(k)
  BY <1>2, AllocKeeps, RmmodKeeps, OpenLogKeeps, KeyIrqKeeps DEF LoadStep
<1>3. CASE ModuleMoves
  BY <1>3, RequestHandlerKeeps, ProcCreateKeeps, KillTakesKeeps, KillWaitsKeeps, KfreeKeeps,
     FreeHandlerKeeps, RemoveEntryKeeps DEF ModuleMoves
<1>4. CASE SoftIrq \/ Reading
  BY <1>4, BeginKeeps, InbKeeps, LogKeeps, ShowKeeps, EndOfLogKeeps DEF SoftIrq, Reading
<1> QED
  BY <1>1, <1>2, <1>3, <1>4 DEF TaskletNext

-------------------------------------------------------------------------------
(* Both modules *)

\* Both invariants hold of the two modules side by side.
LEMMA Lab09Invariant == Lab09Spec => []WorkInv /\ []TaskInv
<1>1. Lab09Init => WorkInv /\ TaskInv
  BY WorkInit, TaskInit DEF Lab09Init
<1>2. [Lab09Next]_lab09Vars => [Next]_vars /\ [TaskletNext]_taskletVars
  BY DEF Lab09Next, Part1, Part2, lab09Vars
<1> QED
  BY <1>1, <1>2, WorkQueueKeeps, TaskletKeeps, PTL DEF Lab09Spec

\* Type correctness of both modules: queues hold works, the log holds keys.
THEOREM Lab09Types == Lab09Spec => [](TypeOK /\ TaskletTypeOK)
BY Lab09Invariant, PTL DEF WorkInv, TaskInv

\* The last key is never missed, whichever of the two modules is loaded and
\* however many interrupts queue_work() and tasklet_schedule() drop.
THEOREM LastKeyIsSeen == Lab09Spec => []LastKeySeen
<1>1. WorkInv => LastKeyWins
  BY DEF WorkInv, KeyInv, LastKeyWins, Idle, None
<1>2. TaskInv => LastKeyLogged
  BY DEF TaskInv, LogInv, LoggedKey, LastKeyLogged
<1> QED
  BY <1>1, <1>2, Lab09Invariant, PTL DEF LastKeySeen

\* Once the workqueue module has left the kernel, or has failed to enter it, no
\* handler and no work of it is left.
THEOREM NothingIsLeft == Lab09Spec => []NothingOutlivesModule
<1>1. WorkInv => NothingOutlivesModule
  BY DEF WorkInv, StageInv, LiveStages, NothingOutlivesModule
<1> QED
  BY <1>1, Lab09Invariant, PTL

\* Freed memory or text is used only because of a key between tasklet_kill() and
\* free_irq(), of a reader that enters f() between kfree() and remove_proc_entry(),
\* or after a load that failed half-way.
THEOREM FaultNeedsLatecomer == Lab09Spec => []FreedOnlyByLatecomers
<1>1. TaskInv => FreedOnlyByLatecomers
  BY DEF TaskInv, QuietInv, TaskletTypeOK, FreedOnlyByLatecomers
<1> QED
  BY <1>1, Lab09Invariant, PTL

\* A reader of f() that nothing is logged under from its first entry to its last gets
\* the whole log, and behind it one entry that belongs to no key.
THEOREM ReaderGetsTheLog == Lab09Spec => []ReaderShowsLog
<1>1. TaskInv => ReaderShowsLog
  <2> SUFFICES ASSUME TaskInv, i > pos_simbol, calm
               PROVE  /\ Len(shown) = pos_simbol + 1
                      /\ \A n \in 1 .. pos_simbol : shown[n] = log[n - 1]
    BY DEF ReaderShowsLog
  <2>1. pos_simbol \in 0 .. POS_MAX /\ POS_MAX \in Nat /\ i \in Nat /\ i # NULL
    BY TaskletAssumption DEF TaskInv, TaskletTypeOK, NULL
  <2>2. i = pos_simbol + 1 /\ Len(shown) = i /\ \A n \in 1 .. i : shown[n] = EntryAt(n - 1)
    BY <2>1 DEF TaskInv, ReadInv
  <2> QED
    BY <2>1, <2>2 DEF EntryAt
<1> QED
  BY <1>1, Lab09Invariant, PTL

===============================================================================
