----------------------------- MODULE MCThreads -----------------------------
(* The two places where a thread waits for another one on a condition      *)
(* variable by itself: the start of the reactor's threads and the blocking *)
(* queue.  They share nothing; a behaviour is about one of them, and the   *)
(* other one stays as it began.                                            *)
EXTENDS EventLoopThread, BlockingQueue

VARIABLE subject

ThreadsInit == Init /\ QueueInit /\ subject \in {"loops", "queue"}

LoopsNext == subject = "loops" /\ Next /\ UNCHANGED <<queueVars, subject>>

QueueRuns == subject = "queue" /\ QueueNext /\ UNCHANGED <<vars, subject>>

ThreadsSpec ==
  /\ ThreadsInit /\ [][LoopsNext \/ QueueRuns]_<<vars, queueVars, subject>>
  /\ WF_vars(subject = "loops" /\ MainStep)
  /\ \A i \in Threads : /\ WF_vars(subject = "loops" /\ ThreadStep(i))
                        /\ SF_vars(subject = "loops" /\ ThreadLock(i))
  /\ \A t \in Users : /\ WF_queueVars(subject = "queue" /\ QueueStep(t))
                      /\ SF_queueVars(subject = "queue" /\ (LockQueue(t) \/ Relock(t)))

(* The liveness of each part, in the behaviours about it.                  *)
PoolComesUp == subject = "loops" => PoolStarts
GetsReturn  == subject = "queue" => EveryGetReturns
=============================================================================
