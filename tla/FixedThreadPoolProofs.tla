----------------------- MODULE FixedThreadPoolProofs ------------------------
(***************************************************************************)
(* Proofs about FixedThreadPool for every number of workers, callers,      *)
(* tasks and pool objects: no idle worker while a task has nobody on its   *)
(* way to it, nothing left behind at the exit, and every step is one of    *)
(* Executor.  The inductive invariant adds who owns data_, and that a task *)
(* is in one place only.                                                   *)
(***************************************************************************)
EXTENDS FixedThreadPool, FiniteSetTheorems, TLAPS

(* One object has data_, none once the destructor has run.                 *)
OneOwner ==
  /\ \A o, p \in Object : object[o] = "holds" /\ object[p] = "holds" => o = p
  /\ is_shutdown => \A o \in Object : object[o] # "holds"

(* A task is queued once, or executed by one worker.                       *)
OnePlace ==
  /\ \A i, j \in 1 .. Len(tasks) : tasks[i] = tasks[j] => i = j
  /\ \A w, v \in At("executing") : current[w] = current[v] => w = v
  /\ Queued \cap Executing = {}
  /\ \A w \in At("executing") : current[w] \in Task

Inv ==
  /\ TypeOK /\ OneOwner /\ OnePlace
  /\ WorkConserving /\ DrainedAtExit /\ NobodySleepsForever

LEMMA Counts ==
  ASSUME TypeOK
  PROVE  /\ Len(tasks) \in Nat
         /\ \A s : IsFiniteSet(At(s)) /\ Cardinality(At(s)) \in Nat
         /\ IsFiniteSet(notifying) /\ Cardinality(notifying) \in Nat
  <1>1. \A s : At(s) \in SUBSET Worker
    BY DEF At
  <1>2. \A s : IsFiniteSet(At(s)) /\ Cardinality(At(s)) \in Nat
    BY <1>1, WorkersAssumption, FS_Subset, FS_CardinalityType
  <1>3. IsFiniteSet(Caller)
    BY WorkersAssumption, ClientsAssumption, FS_Union DEF Caller
  <1>4. IsFiniteSet(notifying) /\ Cardinality(notifying) \in Nat
    BY <1>3, FS_Subset, FS_CardinalityType DEF TypeOK
  <1> QED
    BY <1>2, <1>4 DEF TypeOK

(* One worker goes from its place to another.                              *)
LEMMA Goes ==
  ASSUME TypeOK, NEW w \in Worker, NEW from, worker[w] = from,
         NEW s \in {"ready", "waiting", "executing", "exited"}, s # from,
         worker' = [worker EXCEPT ![w] = s]
  PROVE  /\ worker' \in [Worker -> {"ready", "waiting", "executing", "exited"}]
         /\ At(s)' = At(s) \cup {w} /\ w \notin At(s)
         /\ At(from)' = At(from) \ {w} /\ w \in At(from)
         /\ \A r : r # s /\ r # from => At(r)' = At(r)
  <1>1. worker' \in [Worker -> {"ready", "waiting", "executing", "exited"}]
    BY DEF TypeOK
  <1>2. worker'[w] = s /\ \A v \in Worker \ {w} : worker'[v] = worker[v]
    BY DEF TypeOK
  <1> QED
    BY <1>1, <1>2 DEF At

LEMMA InvInit == Init => Inv
  <1> SUFFICES ASSUME Init PROVE Inv
    OBVIOUS
  <1>1. TypeOK
    <2>1. tasks \in Seq(Task) /\ notifying \subseteq Caller
      BY DEF Init
    <2>2. worker \in [Worker -> {"ready", "waiting", "executing", "exited"}]
      BY DEF Init
    <2>3. current \in [Worker -> Task \cup {None}]
      BY DEF Init
    <2>4. object \in [Object -> {"unborn", "holds", "null", "closing", "gone"}]
      BY DEF Init
    <2> QED
      BY <2>1, <2>2, <2>3, <2>4 DEF Init, TypeOK
  <1>2. At("waiting") = {} /\ At("exited") = {} /\ At("executing") = {}
    BY DEF Init, At
  <1>3. Executing = {}
    BY <1>2 DEF Executing
  <1> QED
    BY <1>1, <1>2, <1>3 DEF Init, Inv, OneOwner, OnePlace, WorkConserving,
       DrainedAtExit, NobodySleepsForever

-----------------------------------------------------------------------------
LEMMA TakeTaskStep ==
  ASSUME Inv, NEW w \in Worker, Look(w), TakeTask(w)
  PROVE  Inv' /\ Exec!Start
  <1> USE DEF Inv
  <1>1. /\ worker[w] = "ready" /\ tasks \in Seq(Task) /\ tasks # <<>>
        /\ current' = [current EXCEPT ![w] = Head(tasks)]
        /\ tasks' = Tail(tasks)
        /\ worker' = [worker EXCEPT ![w] = "executing"]
        /\ UNCHANGED <<is_shutdown, notifying, object, undefined>>
    BY DEF Look, TakeTask, TypeOK
  <1>2. /\ Len(tasks) \in Nat /\ Len(tasks) > 0
        /\ tasks' \in Seq(Task) /\ Len(tasks') = Len(tasks) - 1
        /\ \A i \in 1 .. Len(tasks') : tasks'[i] = tasks[i + 1] /\ i + 1 \in 1 .. Len(tasks)
        /\ Head(tasks) = tasks[1] /\ 1 \in 1 .. Len(tasks) /\ Head(tasks) \in Task
    BY <1>1
  <1>3. /\ worker' \in [Worker -> {"ready", "waiting", "executing", "exited"}]
        /\ At("executing")' = At("executing") \cup {w} /\ w \notin At("executing")
        /\ At("ready")' = At("ready") \ {w} /\ w \in At("ready")
        /\ At("waiting")' = At("waiting") /\ At("exited")' = At("exited")
    BY <1>1, Goes
  <1>4. current'[w] = Head(tasks) /\ \A v \in Worker \ {w} : current'[v] = current[v]
    BY <1>1 DEF TypeOK
  <1>5. TypeOK'
    BY <1>1, <1>2, <1>3 DEF TypeOK
  <1>6. Head(tasks) \in Queued /\ Head(tasks) \notin Executing
    BY <1>2 DEF Queued, OnePlace
  <1>7. Executing' = Executing \cup {Head(tasks)}
    <2>1. Executing' = {current'[v] : v \in At("executing") \cup {w}}
      BY <1>3 DEF Executing
    <2>2. \A v \in At("executing") : current'[v] = current[v]
      BY <1>3, <1>4 DEF At
    <2> QED
      BY <1>4, <2>1, <2>2 DEF Executing
  <1>8. OnePlace'
    <2>1. \A i, j \in 1 .. Len(tasks') : tasks'[i] = tasks'[j] => i = j
      BY <1>2 DEF OnePlace
    <2>2. \A i \in 1 .. Len(tasks') : tasks'[i] # Head(tasks) /\ tasks'[i] \in Queued
      BY <1>2 DEF OnePlace, Queued
    <2>3. Queued' \cap Executing' = {}
      BY <1>7, <2>2 DEF Queued, OnePlace
    <2>4. \A v \in At("executing") : v \in Worker \ {w} /\ current[v] \in Executing
      BY <1>3 DEF At, Executing
    <2>5. \A u, v \in At("executing")' : current'[u] = current'[v] => u = v
      BY <1>3, <1>4, <1>6, <2>4 DEF OnePlace
    <2>6. \A v \in At("executing")' : current'[v] \in Task
      BY <1>2, <1>3, <1>4, <2>4 DEF OnePlace
    <2> QED
      BY <2>1, <2>3, <2>5, <2>6 DEF OnePlace
  <1>9. WorkConserving'
    <2>1. Cardinality(At("ready")') = Cardinality(At("ready")) - 1
      BY <1>3, Counts, FS_RemoveElement
    <2> QED
      BY <1>1, <1>2, <1>3, <2>1, Counts DEF WorkConserving
  <1>10. DrainedAtExit' /\ NobodySleepsForever' /\ OneOwner'
    BY <1>1, <1>3 DEF DrainedAtExit, NobodySleepsForever, OneOwner
  <1>11. Exec!Start
    BY <1>1, <1>6, <1>7 DEF Exec!Start
  <1> QED
    BY <1>5, <1>8, <1>9, <1>10, <1>11

(* A worker that finds the queue empty leaves the loop or sleeps.          *)
LEMMA EmptyQueueStep ==
  ASSUME Inv, NEW w \in Worker, Look(w), Break(w) \/ Sleep(w)
  PROVE  Inv' /\ UNCHANGED <<tasks, Executing, is_shutdown>>
  <1> USE DEF Inv
  <1>1. /\ worker[w] = "ready" /\ tasks = <<>> /\ Len(tasks) = 0
        /\ UNCHANGED <<tasks, current, is_shutdown, notifying, object, undefined>>
    BY DEF Look, Break, Sleep
  <1>2. PICK s \in {"exited", "waiting"} :
          /\ worker' = [worker EXCEPT ![w] = s]
          /\ s = "exited" <=> is_shutdown
    BY DEF Break, Sleep, TypeOK
  <1>3. /\ worker' \in [Worker -> {"ready", "waiting", "executing", "exited"}]
        /\ At(s)' = At(s) \cup {w}
        /\ At("ready")' = At("ready") \ {w}
        /\ \A r : r # s /\ r # "ready" => At(r)' = At(r)
    BY <1>1, <1>2, Goes
  <1>4. At("executing")' = At("executing") /\ Executing' = Executing
    BY <1>1, <1>2, <1>3 DEF Executing
  <1>5. TypeOK' /\ OneOwner' /\ OnePlace'
    BY <1>1, <1>3, <1>4 DEF TypeOK, OneOwner, OnePlace, Queued
  <1>6. Cardinality(At("ready")') \in Nat
    BY <1>3, Counts, FS_RemoveElement, FS_CardinalityType
  <1>7. WorkConserving'
    BY <1>1, <1>6, Counts DEF WorkConserving
  <1>8. DrainedAtExit' /\ NobodySleepsForever'
    BY <1>1, <1>2, <1>3 DEF DrainedAtExit, NobodySleepsForever
  <1> QED
    BY <1>1, <1>4, <1>5, <1>7, <1>8

LEMMA FinishTaskStep ==
  ASSUME Inv, NEW w \in Worker, FinishTask(w)
  PROVE  Inv' /\ \E t \in Task : Exec!Finish(t)
  <1> USE DEF Inv
  <1>1. /\ worker[w] = "executing"
        /\ worker' = [worker EXCEPT ![w] = "ready"]
        /\ current' = [current EXCEPT ![w] = None]
        /\ UNCHANGED <<tasks, is_shutdown, notifying, object, undefined>>
    BY DEF FinishTask
  <1>2. /\ worker' \in [Worker -> {"ready", "waiting", "executing", "exited"}]
        /\ At("ready")' = At("ready") \cup {w} /\ w \notin At("ready")
        /\ At("executing")' = At("executing") \ {w} /\ w \in At("executing")
        /\ At("waiting")' = At("waiting") /\ At("exited")' = At("exited")
    BY <1>1, Goes
  <1>3. current' \in [Worker -> Task \cup {None}] /\ \A v \in Worker \ {w} : current'[v] = current[v]
    BY <1>1 DEF TypeOK
  <1>4. \A v \in At("executing") \ {w} : v \in Worker /\ current'[v] = current[v] /\ current[v] # current[w]
    BY <1>2, <1>3 DEF At, OnePlace
  <1>5. Executing' = Executing \ {current[w]} /\ current[w] \in Executing /\ current[w] \in Task
    <2>1. Executing' = {current'[v] : v \in At("executing") \ {w}}
      BY <1>2 DEF Executing
    <2> QED
      BY <1>2, <1>4, <2>1 DEF Executing, OnePlace
  <1>6. TypeOK'
    BY <1>1, <1>2, <1>3 DEF TypeOK
  <1>7. OnePlace'
    BY <1>1, <1>2, <1>4, <1>5 DEF OnePlace, Queued
  <1>8. WorkConserving'
    <2>1. Cardinality(At("ready")') = Cardinality(At("ready")) + 1
      BY <1>2, Counts, FS_AddElement
    <2> QED
      BY <1>1, <1>2, <2>1, Counts DEF WorkConserving
  <1>9. DrainedAtExit' /\ NobodySleepsForever' /\ OneOwner'
    BY <1>1, <1>2 DEF DrainedAtExit, NobodySleepsForever, OneOwner
  <1>10. Exec!Finish(current[w])
    BY <1>1, <1>5 DEF Exec!Finish
  <1> QED
    BY <1>5, <1>6, <1>7, <1>8, <1>9, <1>10

-----------------------------------------------------------------------------
(* A sleeping worker becomes ready, woken by nobody or by a caller that has *)
(* done with its notify_one.                                               *)
LEMMA SpuriousStep ==
  ASSUME Inv, NEW w \in Worker, SpuriousWakeup(w)
  PROVE  Inv' /\ UNCHANGED <<tasks, Executing, is_shutdown>>
  <1> USE DEF Inv
  <1>1. /\ worker[w] = "waiting"
        /\ worker' = [worker EXCEPT ![w] = "ready"]
        /\ UNCHANGED <<tasks, is_shutdown, current, notifying, object, undefined>>
    BY DEF SpuriousWakeup
  <1>2. /\ worker' \in [Worker -> {"ready", "waiting", "executing", "exited"}]
        /\ At("ready")' = At("ready") \cup {w} /\ w \notin At("ready")
        /\ At("waiting")' = At("waiting") \ {w} /\ w \in At("waiting")
        /\ At("executing")' = At("executing") /\ At("exited")' = At("exited")
    BY <1>1, Goes
  <1>3. Executing' = Executing
    BY <1>1, <1>2 DEF Executing
  <1>4. TypeOK' /\ OneOwner' /\ OnePlace'
    BY <1>1, <1>2, <1>3 DEF TypeOK, OneOwner, OnePlace, Queued
  <1>5. WorkConserving'
    <2>1. Cardinality(At("ready")') = Cardinality(At("ready")) + 1
      BY <1>2, Counts, FS_AddElement
    <2> QED
      BY <1>1, <1>2, <2>1, Counts DEF WorkConserving
  <1>6. DrainedAtExit' /\ NobodySleepsForever'
    BY <1>1, <1>2 DEF DrainedAtExit, NobodySleepsForever
  <1> QED
    BY <1>1, <1>3, <1>4, <1>5, <1>6

LEMMA NotifyOneStep ==
  ASSUME Inv, NEW c \in Caller, NotifyOne(c)
  PROVE  Inv' /\ UNCHANGED <<tasks, Executing, is_shutdown>>
  <1> USE DEF Inv
  <1>1. /\ c \in notifying /\ notifying' = notifying \ {c}
        /\ UNCHANGED <<tasks, is_shutdown, current, object, undefined>>
    BY DEF NotifyOne
  <1>2. Cardinality(notifying') = Cardinality(notifying) - 1
    BY <1>1, Counts, FS_RemoveElement
  <1>3. CASE At("waiting") = {} /\ UNCHANGED worker
    <2>1. \A s : At(s)' = At(s)
      BY <1>3 DEF At
    <2>2. Executing' = Executing
      BY <1>1, <2>1 DEF Executing
    <2>3. TypeOK' /\ OneOwner' /\ OnePlace'
      BY <1>1, <1>3, <2>1, <2>2 DEF TypeOK, OneOwner, OnePlace, Queued
    <2> QED
      BY <1>1, <1>3, <2>1, <2>2, <2>3 DEF WorkConserving, DrainedAtExit, NobodySleepsForever
  <1>4. CASE \E w \in At("waiting") : worker' = [worker EXCEPT ![w] = "ready"]
    <2>1. PICK w \in Worker : worker[w] = "waiting" /\ worker' = [worker EXCEPT ![w] = "ready"]
      BY <1>4 DEF At
    <2>2. /\ worker' \in [Worker -> {"ready", "waiting", "executing", "exited"}]
          /\ At("ready")' = At("ready") \cup {w} /\ w \notin At("ready")
          /\ At("waiting")' = At("waiting") \ {w} /\ w \in At("waiting")
          /\ At("executing")' = At("executing") /\ At("exited")' = At("exited")
      BY <2>1, Goes
    <2>3. Executing' = Executing
      BY <1>1, <2>2 DEF Executing
    <2>4. TypeOK' /\ OneOwner' /\ OnePlace'
      BY <1>1, <2>2, <2>3 DEF TypeOK, OneOwner, OnePlace, Queued
    <2>5. Cardinality(At("ready")') = Cardinality(At("ready")) + 1
      BY <2>2, Counts, FS_AddElement
    <2>6. WorkConserving'
      BY <1>1, <1>2, <2>2, <2>5, Counts DEF WorkConserving
    <2>7. DrainedAtExit' /\ NobodySleepsForever'
      BY <1>1, <2>2 DEF DrainedAtExit, NobodySleepsForever
    <2> QED
      BY <1>1, <2>3, <2>4, <2>6, <2>7
  <1> QED
    BY <1>3, <1>4 DEF NotifyOne

LEMMA ExecuteStep ==
  ASSUME Inv, NEW c \in Caller, NEW t \in Task, Execute(c, t)
  PROVE  Inv' /\ Exec!Submit(t)
  <1> USE DEF Inv
  <1>1. /\ ~is_shutdown
        /\ c \notin notifying /\ t \notin Queued \cup Executing
        /\ tasks' = Append(tasks, t) /\ tasks \in Seq(Task)
        /\ notifying' = notifying \cup {c}
        /\ UNCHANGED <<is_shutdown, worker, current, object, undefined>>
    BY DEF Execute, OneOwner, TypeOK
  <1>2. /\ tasks' \in Seq(Task) /\ Len(tasks') = Len(tasks) + 1 /\ Len(tasks) \in Nat
        /\ tasks'[Len(tasks) + 1] = t
        /\ \A i \in 1 .. Len(tasks) : tasks'[i] = tasks[i]
    BY <1>1
  <1>3. \A i \in 1 .. Len(tasks') : i \in 1 .. Len(tasks) \/ i = Len(tasks) + 1
    BY <1>2
  <1>4. \A i \in 1 .. Len(tasks) : tasks[i] # t /\ tasks[i] \in Queued
    BY <1>1 DEF Queued
  <1>5. (\A s : At(s)' = At(s)) /\ Executing' = Executing
    BY <1>1 DEF At, Executing
  <1>6. TypeOK' /\ OneOwner'
    BY <1>1, <1>2 DEF TypeOK, OneOwner
  <1>7. OnePlace'
    <2>1. \A i, j \in 1 .. Len(tasks') : tasks'[i] = tasks'[j] => i = j
      BY <1>2, <1>3, <1>4 DEF OnePlace
    <2>2. \A i \in 1 .. Len(tasks') : tasks'[i] \in Queued \cup {t}
      BY <1>2, <1>3, <1>4
    <2>3. Queued' \cap Executing' = {}
      BY <1>1, <1>5, <2>2 DEF Queued, OnePlace
    <2> QED
      BY <1>1, <1>5, <2>1, <2>3 DEF OnePlace
  <1>8. WorkConserving'
    <2>1. Cardinality(notifying') = Cardinality(notifying) + 1
      BY <1>1, Counts, FS_AddElement
    <2> QED
      BY <1>2, <1>5, <2>1, Counts DEF WorkConserving
  <1>9. DrainedAtExit' /\ NobodySleepsForever'
    BY <1>1, <1>5 DEF DrainedAtExit, NobodySleepsForever
  <1> QED
    BY <1>1, <1>5, <1>6, <1>7, <1>8, <1>9 DEF Exec!Submit

-----------------------------------------------------------------------------
(* What happens to the objects leaves the workers alone, except that       *)
(* notify_all wakes them.                                                  *)
LEMMA ObjectStep ==
  ASSUME Inv, NEW o \in Object,
         DefaultConstruct(o) \/ DestroyNull(o) \/ \E from \in Object : MoveConstruct(o, from)
  PROVE  Inv' /\ UNCHANGED <<tasks, Executing, is_shutdown>>
  <1> USE DEF Inv
  <1>1. UNCHANGED <<tasks, is_shutdown, worker, current, notifying>> /\ undefined' \in BOOLEAN
    BY DEF DefaultConstruct, DestroyNull, MoveConstruct, TypeOK
  <1>2. /\ object' \in [Object -> {"unborn", "holds", "null", "closing", "gone"}]
        /\ \A p \in Object : object'[p] = "closing" <=> object[p] = "closing"
        /\ (\A p \in Object : object[p] # "holds") => \A p \in Object : object'[p] # "holds"
        /\ \A p, q \in Object : object'[p] = "holds" /\ object'[q] = "holds" => p = q
    <2>1. CASE DefaultConstruct(o)
      BY <2>1 DEF DefaultConstruct, TypeOK, OneOwner
    <2>2. CASE DestroyNull(o)
      BY <2>2 DEF DestroyNull, TypeOK, OneOwner
    <2>3. CASE \E from \in Object : MoveConstruct(o, from)
      <3>1. PICK from \in Object : MoveConstruct(o, from)
        BY <2>3
      <3>2. /\ object[o] = "unborn" /\ object[from] \in {"holds", "null"} /\ from # o
            /\ object' = [object EXCEPT ![o] = object[from], ![from] = "null"]
        BY <3>1 DEF MoveConstruct
      <3>3. /\ object' \in [Object -> {"unborn", "holds", "null", "closing", "gone"}]
            /\ object'[o] = object[from] /\ object'[from] = "null"
            /\ \A p \in Object \ {o, from} : object'[p] = object[p]
        BY <3>2 DEF TypeOK
      <3> QED
        BY <3>2, <3>3 DEF OneOwner
    <2> QED
      BY <2>1, <2>2, <2>3
  <1>3. (\A s : At(s)' = At(s)) /\ Executing' = Executing
    BY <1>1 DEF At, Executing
  <1>4. TypeOK' /\ OneOwner' /\ OnePlace'
    BY <1>1, <1>2, <1>3 DEF TypeOK, OneOwner, OnePlace, Queued
  <1>5. WorkConserving' /\ DrainedAtExit' /\ NobodySleepsForever'
    BY <1>1, <1>2, <1>3 DEF WorkConserving, DrainedAtExit, NobodySleepsForever
  <1> QED
    BY <1>1, <1>3, <1>4, <1>5

LEMMA DestroyStep ==
  ASSUME Inv, NEW o \in Object, Destroy(o)
  PROVE  Inv' /\ Exec!Close
  <1> USE DEF Inv
  <1>1. /\ object[o] = "holds" /\ is_shutdown' = TRUE
        /\ object' = [object EXCEPT ![o] = "closing"]
        /\ UNCHANGED <<tasks, worker, current, notifying, undefined>>
    BY DEF Destroy
  <1>2. /\ object' \in [Object -> {"unborn", "holds", "null", "closing", "gone"}]
        /\ object'[o] = "closing" /\ \A p \in Object : object'[p] # "holds"
    BY <1>1 DEF TypeOK, OneOwner
  <1>3. (\A s : At(s)' = At(s)) /\ Executing' = Executing
    BY <1>1 DEF At, Executing
  <1>4. TypeOK' /\ OneOwner' /\ OnePlace'
    BY <1>1, <1>2, <1>3 DEF TypeOK, OneOwner, OnePlace, Queued
  <1>5. WorkConserving' /\ DrainedAtExit' /\ NobodySleepsForever'
    BY <1>1, <1>2, <1>3 DEF WorkConserving, DrainedAtExit, NobodySleepsForever
  <1> QED
    BY <1>1, <1>3, <1>4, <1>5 DEF Exec!Close

LEMMA NotifyAllStep ==
  ASSUME Inv, NEW o \in Object, NotifyAll(o)
  PROVE  Inv' /\ UNCHANGED <<tasks, Executing, is_shutdown>>
  <1> USE DEF Inv
  <1>1. /\ worker' = [w \in Worker |-> IF worker[w] = "waiting" THEN "ready" ELSE worker[w]]
        /\ object' = [object EXCEPT ![o] = "gone"]
        /\ UNCHANGED <<tasks, is_shutdown, current, notifying, undefined>>
    BY DEF NotifyAll
  <1>2. worker' \in [Worker -> {"ready", "waiting", "executing", "exited"}]
    BY <1>1 DEF TypeOK
  <1>3. At("waiting")' = {} /\ At("executing")' = At("executing") /\ At("exited")' = At("exited")
    BY <1>1 DEF At
  <1>4. Executing' = Executing
    BY <1>1, <1>3 DEF Executing
  <1>5. /\ object' \in [Object -> {"unborn", "holds", "null", "closing", "gone"}]
        /\ \A p \in Object : object'[p] = "holds" => object[p] = "holds"
    BY <1>1 DEF TypeOK
  <1>6. TypeOK' /\ OneOwner' /\ OnePlace'
    BY <1>1, <1>2, <1>3, <1>4, <1>5 DEF TypeOK, OneOwner, OnePlace, Queued
  <1>7. WorkConserving' /\ DrainedAtExit' /\ NobodySleepsForever'
    BY <1>1, <1>3 DEF WorkConserving, DrainedAtExit, NobodySleepsForever
  <1> QED
    BY <1>1, <1>4, <1>6, <1>7

-----------------------------------------------------------------------------
LEMMA Step ==
  ASSUME Inv, [Next]_vars
  PROVE  Inv' /\ [Exec!ExecNext]_Exec!execVars
  <1> DEFINE Done == Inv' /\ [Exec!ExecNext]_Exec!execVars
  <1>1. CASE UNCHANGED vars
    <2>1. (\A s : At(s)' = At(s)) /\ Executing' = Executing
      BY <1>1 DEF At, Executing, vars
    <2> QED
      BY <1>1, <2>1 DEF vars, Inv, TypeOK, OneOwner, OnePlace, Queued, WorkConserving,
         DrainedAtExit, NobodySleepsForever, Exec!execVars
  <1>2. ASSUME NEW w \in Worker, Look(w) PROVE Done
    <2>1. CASE TakeTask(w)
      BY <1>2, <2>1, TakeTaskStep DEF Exec!ExecNext
    <2>2. CASE Break(w) \/ Sleep(w)
      BY <1>2, <2>2, EmptyQueueStep DEF Exec!execVars
    <2> QED
      BY <1>2, <2>1, <2>2 DEF Look
  <1>3. ASSUME NEW w \in Worker, FinishTask(w) PROVE Done
    BY <1>3, FinishTaskStep DEF Exec!ExecNext
  <1>4. ASSUME NEW w \in Worker, SpuriousWakeup(w) PROVE Done
    BY <1>4, SpuriousStep DEF Exec!execVars
  <1>5. ASSUME NEW c \in Caller, NotifyOne(c) PROVE Done
    BY <1>5, NotifyOneStep DEF Exec!execVars
  <1>6. ASSUME NEW c \in Caller, NEW t \in Task, Execute(c, t) PROVE Done
    BY <1>6, ExecuteStep DEF Exec!ExecNext
  <1>7. ASSUME NEW o \in Object, Destroy(o) PROVE Done
    BY <1>7, DestroyStep DEF Exec!ExecNext
  <1>8. ASSUME NEW o \in Object, NotifyAll(o) PROVE Done
    BY <1>8, NotifyAllStep DEF Exec!execVars
  <1>9. ASSUME NEW o \in Object,
               DefaultConstruct(o) \/ DestroyNull(o) \/ \E from \in Object : MoveConstruct(o, from)
        PROVE  Done
    BY <1>9, ObjectStep DEF Exec!execVars
  <1> QED
    BY <1>1, <1>2, <1>3, <1>4, <1>5, <1>6, <1>7, <1>8, <1>9 DEF Next

LEMMA Invariance == Spec => []Inv
  BY InvInit, Step, PTL DEF Spec

(* The pool's variables keep their types.                                  *)
THEOREM Typing == Spec => []TypeOK
  <1>1. Inv => TypeOK
    BY DEF Inv
  <1> QED
    BY <1>1, Invariance, PTL

(* No queued task waits for a busy worker while an idle one sleeps with    *)
(* nobody about to wake it.                                                *)
THEOREM IdleWorkersAreWoken == Spec => []WorkConserving
  <1>1. Inv => WorkConserving
    BY DEF Inv
  <1> QED
    BY <1>1, Invariance, PTL

(* A worker exits only from a destroyed pool with an empty queue, and no   *)
(* worker sleeps on after the destructor.                                  *)
THEOREM CleanShutdown == Spec => [](DrainedAtExit /\ NobodySleepsForever)
  <1>1. Inv => DrainedAtExit /\ NobodySleepsForever
    BY DEF Inv
  <1> QED
    BY <1>1, Invariance, PTL

(* Every step of the pool is a step of the executor or none: tasks start   *)
(* in the order of the execute calls and each one once.                    *)
THEOREM StepsImplementExecutor == Spec => ImplementsExecutor
  <1>1. Init => Exec!ExecInit
    BY DEF Init, Exec!ExecInit, Executing, At
  <1> QED
    BY <1>1, Step, Invariance, PTL DEF Spec, ImplementsExecutor, Exec!ExecSpec
=============================================================================
