----------------------- MODULE SessionOwnership_proofs -----------------------
(***************************************************************************)
(* Proofs about SessionOwnership, for every set of sockets and nodes and   *)
(* every bound: type correctness, and, when leases do not lapse under a    *)
(* live holder, mutual exclusion of the critical sections, ownership of    *)
(* the snapshot, one user per id, a reachable owner, and refinement of     *)
(* SessionOwner; and, leases or not, that a teardown deletes only the      *)
(* session of the socket it was queued for.                                *)
(***************************************************************************)
EXTENDS SessionOwnership, SequenceTheorems, TLAPS

\* The identities under which the lock is taken.
LEMMA Holders ==
  /\ \A s \in Sock : <<"reg", s>> \in Holder
  /\ \A n \in Node : <<"job", n>> \in Holder /\ <<"sweep", n>> \in Holder
BY DEF Holder

\* What the sequence operators do to a node's queue of jobs.
LEMMA QueueOps ==
  ASSUME TypeOK, NEW n \in Node
  PROVE  /\ \A k \in Kinds, s \in Sock :
              /\ Append(queue[n], [kind |-> k, sock |-> s]) \in Seq(Job)
              /\ Append(queue[n], [kind |-> k, sock |-> s]) # <<>>
         /\ queue[n] # <<>> => /\ Head(queue[n]) \in Job
                               /\ Worker(n) \in Sock
                               /\ Tail(queue[n]) \in Seq(Job)
<1>1. queue[n] \in Seq(Job)
  BY DEF TypeOK
<1>2. ASSUME NEW k \in Kinds, NEW s \in Sock
      PROVE  /\ Append(queue[n], [kind |-> k, sock |-> s]) \in Seq(Job)
             /\ Append(queue[n], [kind |-> k, sock |-> s]) # <<>>
  <2>1. [kind |-> k, sock |-> s] \in Job
    BY DEF Job
  <2>2. QED BY <1>1, <2>1
<1>3. ASSUME queue[n] # <<>>
      PROVE  Head(queue[n]) \in Job /\ Tail(queue[n]) \in Seq(Job)
  BY <1>1, <1>3
<1>4. queue[n] # <<>> => Worker(n) \in Sock
  BY <1>3 DEF Worker, Job
<1>5. QED BY <1>2, <1>3, <1>4

\* Queueing a job keeps queues well typed and does not empty any.
LEMMA EnqueueKeepsType ==
  ASSUME TypeOK, NEW n \in Node, NEW k \in Kinds, NEW s \in Sock,
         Enqueue(n, k, s)
  PROVE  /\ queue' \in [Node -> Seq(Job)]
         /\ \A m \in Node : queue[m] # <<>> => queue'[m] # <<>>
<1>1. queue \in [Node -> Seq(Job)]
  BY DEF TypeOK
<1>2. /\ Append(queue[n], [kind |-> k, sock |-> s]) \in Seq(Job)
      /\ Append(queue[n], [kind |-> k, sock |-> s]) # <<>>
  BY QueueOps
<1>3. QED BY <1>1, <1>2 DEF Enqueue

\* Sockets live on nodes, and none of them is the null value.
LEMMA Places == NodeOf \in [Sock -> Node] /\ None \notin Sock
BY OwnershipAssumption

\* Every step keeps TypeOK.
LEMMA TypeStep == TypeOK /\ [Next]_vars => TypeOK'
<1>. USE DEF redis, memory, sockets, used
<1> SUFFICES ASSUME TypeOK, [Next]_vars PROVE TypeOK'
  OBVIOUS
<1>1. ASSUME NEW s \in Sock, SockStep(s) PROVE TypeOK'
  <2>1. CASE Connect(s)
    BY <2>1, Places DEF TypeOK, Connect, RegCritical, RegSettled
  <2>2. CASE RegAcquire(s)
    BY <2>2, Places, Holders DEF TypeOK, RegAcquire, Acquire, RegCritical,
        RegSettled
  <2>3. CASE RegTimeout(s)
    BY <2>3, Places DEF TypeOK, RegTimeout, RegCritical, RegSettled
  <2>4. CASE RegRead(s)
    BY <2>4, Places DEF TypeOK, RegRead, RegCritical, RegSettled
  <2>5. CASE RegClear(s)
    BY <2>5, Places DEF TypeOK, RegClear, RegCritical, RegSettled
  <2>6. CASE RegDelete(s)
    BY <2>6, Places DEF TypeOK, RegDelete, Forget, RegCritical, RegSettled
  <2>7. CASE RegReset(s)
    BY <2>7, Places, QueueOps DEF TypeOK, RegReset, Kinds, RegCritical, RegSettled
  <2>8. CASE RegWrite(s)
    BY <2>8, Places DEF TypeOK, RegWrite, RegCritical, RegSettled
  <2>9. CASE RegAttach(s)
    BY <2>9, Places DEF TypeOK, RegAttach, RegCritical, RegSettled
  <2>10. CASE RegRelease(s)
    BY <2>10, Places DEF TypeOK, RegRelease, Unlock, RegCritical, RegSettled
  <2>11. CASE RegBind(s)
    BY <2>11, Places DEF TypeOK, RegBind, RegCritical, RegSettled
  <2>12. CASE RegThrow(s)
    BY <2>12, Places DEF TypeOK, RegThrow, RedisFault, Unlock, RegCritical,
        RegSettled
  <2>13. CASE RegReleaseFails(s)
    BY <2>13, Places DEF TypeOK, RegReleaseFails, RedisFault, RegCritical,
        RegSettled
  <2>14. CASE EventArrive(s)
    BY <2>14, Places, EnqueueKeepsType DEF TypeOK, EventArrive, Kinds
  <2>15. CASE EndRequest(s)
    BY <2>15, Places DEF TypeOK, EndRequest
  <2>16. CASE Disconnect(s)
    BY <2>16, Places DEF TypeOK, Disconnect, OnDisconnect
  <2>17. ASSUME NEW k \in {"end", "disc"}, TokenAnswer(k, s) PROVE TypeOK'
    BY <2>17, Places, EnqueueKeepsType DEF TypeOK, TokenAnswer, Kinds
  <2>18. ASSUME NEW k \in {"end", "disc"}, TokenFails(k, s) PROVE TypeOK'
    BY <2>18, Places DEF TypeOK, TokenFails, RedisFault
  <2>19. QED
    BY <1>1, <2>1, <2>2, <2>3, <2>4, <2>5, <2>6, <2>7, <2>8, <2>9, <2>10, <2>11,
        <2>12, <2>13, <2>14, <2>15, <2>16, <2>17, <2>18 DEF SockStep, RegStep
<1>2. ASSUME NEW n \in Node, NodeStep(n) PROVE TypeOK'
  <2>1. CASE ResetJob(n)
    BY <2>1, Places, QueueOps DEF TypeOK, ResetJob, JobDone, HeadIs, RegCritical,
        RegSettled
  <2>2. CASE JobAcquire(n)
    BY <2>2, Places, Holders DEF TypeOK, JobAcquire, Acquire, HeadIs
  <2>3. CASE JobTimeout(n)
    BY <2>3, Places, QueueOps DEF TypeOK, JobTimeout, JobDone, HeadIs
  <2>4. CASE JobCheck(n)
    BY <2>4, Places DEF TypeOK, JobCheck
  <2>5. CASE EventApply(n)
    <3>1. Worker(n) \in Sock
      BY <2>5, QueueOps DEF EventApply, HeadIs
    <3>2. pend' \in [Node -> Sock \cup {None}]
      BY <2>5, <3>1 DEF EventApply, TypeOK
    <3>3. state' \in Sock \cup {None} /\ age' \in {"live", "idle", "expired"}
      BY <2>5, <3>1 DEF EventApply, TypeOK
    <3>4. QED
      BY <2>5, <3>2, <3>3 DEF EventApply, HeadIs, TypeOK
  <2>6. CASE JobClear(n)
    BY <2>6, Places DEF TypeOK, JobClear, HeadIs, Unbind
  <2>7. CASE JobDelete(n)
    BY <2>7, Places DEF TypeOK, JobDelete, Forget, Unbind
  <2>8. CASE JobRelease(n)
    BY <2>8, Places, QueueOps DEF TypeOK, JobRelease, Unlock, JobDone
  <2>9. CASE JobThrow(n)
    <3>1. CASE job[n] = "release"
      <4>1. Tail(queue[n]) \in Seq(Job)
        BY <3>1, QueueOps DEF TypeOK
      <4>2. /\ queue' \in [Node -> Seq(Job)]
            /\ job' \in [Node -> {"idle", "locked", "checked", "delete", "release"}]
            /\ \A m \in Node : job'[m] # "idle" => queue'[m] # <<>>
        BY <2>9, <3>1, <4>1 DEF TypeOK, JobThrow, JobDone
      <4>3. QED
        BY <2>9, <4>2, Places DEF TypeOK, JobThrow, RedisFault
    <3>2. CASE job[n] # "release"
      <4>1. /\ job' = [job EXCEPT ![n] = "release"]
            /\ queue' = queue /\ faults' = faults + 1
        BY <2>9, <3>2 DEF JobThrow, RedisFault
      <4>2. QED
        BY <2>9, <4>1 DEF TypeOK, JobThrow
    <3>3. QED BY <3>1, <3>2
  <2>10. CASE SweepExpired(n)
    BY <2>10, Places DEF TypeOK, SweepExpired, OnDisconnect, SweepCritical
  <2>11. CASE SweepScan(n)
    BY <2>11, Places DEF TypeOK, SweepScan, SweepCritical
  <2>12. CASE SweepCount(n)
    BY <2>12, Places DEF TypeOK, SweepCount, SweepCritical
  <2>13. CASE SweepRecheck(n)
    BY <2>13, Places DEF TypeOK, SweepRecheck, SweepCritical
  <2>14. CASE SweepAcquire(n)
    BY <2>14, Places, Holders DEF TypeOK, SweepAcquire, Acquire, SweepCritical
  <2>15. CASE SweepTimeout(n)
    BY <2>15, Places DEF TypeOK, SweepTimeout, SweepCritical
  <2>16. CASE SweepClear(n)
    BY <2>16, Places DEF TypeOK, SweepClear, SweepCritical
  <2>17. CASE SweepDelete(n)
    BY <2>17, Places DEF TypeOK, SweepDelete, Forget, SweepCritical
  <2>18. CASE SweepRelease(n)
    BY <2>18, Places DEF TypeOK, SweepRelease, Unlock, SweepCritical
  <2>19. CASE CleanupChild(n)
    BY <2>19, Places DEF TypeOK, CleanupChild, SweepCritical
  <2>23. CASE SweepThrow(n)
    BY <2>23, Places DEF TypeOK, SweepThrow, RedisFault, SweepCritical
  <2>20. CASE Shutdown(n)
    BY <2>20, Places DEF TypeOK, Shutdown
  <2>21. CASE Crash(n)
    BY <2>21, Places, QueueOps DEF TypeOK, Crash, SweepCritical, RegCritical,
        RegSettled
  <2>22. QED
    BY <1>2, <2>1, <2>2, <2>3, <2>4, <2>5, <2>6, <2>7, <2>8, <2>9, <2>10, <2>11,
        <2>12, <2>13, <2>14, <2>15, <2>16, <2>17, <2>18, <2>19, <2>20,
        <2>21, <2>23 DEF NodeStep, JobStep, SweepStep
<1>3. CASE LockExpire
  BY <1>3 DEF TypeOK, LockExpire
<1>4. CASE Tick
  BY <1>4 DEF TypeOK, Tick
<1>5. CASE UNCHANGED vars
  BY <1>5 DEF TypeOK, vars
<1>6. QED
  BY <1>1, <1>2, <1>3, <1>4, <1>5 DEF Next

\* What OwnershipInv needs of TypeOK.
Typed ==
  /\ reg \in [Sock -> {"idle", "waiting", "bind"} \cup RegCritical \cup RegSettled]
  /\ job \in [Node -> {"idle", "locked", "checked", "delete", "release"}]
  /\ sweep \in [Node -> {"idle", "count", "recheck", "acquire"} \cup SweepCritical]
  /\ record \in Sock \cup {None}
  /\ rowUser \in {UserOf[s] : s \in Sock} \cup {None}
  /\ queue \in [Node -> Seq(Job)]

\* A held lock is not a free one.
LEMMA NoneIsFree ==
  /\ \A s \in Sock : <<"reg", s>> # None
  /\ \A n \in Node : <<"job", n>> # None /\ <<"sweep", n>> # None
BY OwnershipAssumption, Holders

\* Queueing a job leaves the job at the head of every queue alone.
LEMMA EnqueueKeepsHead ==
  ASSUME TypeOK, NEW n \in Node, NEW k \in Kinds, NEW s \in Sock,
         Enqueue(n, k, s), NEW m \in Node, queue[m] # <<>>
  PROVE  Worker(m)' = Worker(m)
<1>1. queue \in [Node -> Seq(Job)] /\ [kind |-> k, sock |-> s] \in Job
  BY DEF TypeOK, Job
<1>2. Head(Append(queue[m], [kind |-> k, sock |-> s])) = Head(queue[m])
  BY <1>1
<1>3. Head(queue'[m]) = Head(queue[m])
  BY <1>1, <1>2 DEF Enqueue
<1>4. QED BY <1>3 DEF Worker

\* Every step keeps OwnershipInv, given the lock is not lost under a holder.
LEMMA OwnershipStep ==
  ASSUME ~LeaseMayLapse
  PROVE  TypeOK /\ OwnershipInv /\ [Next]_vars => OwnershipInv'
<1>. USE DEF redis, memory, sockets, used
<1> SUFFICES ASSUME TypeOK, OwnershipInv, [Next]_vars PROVE OwnershipInv'
  OBVIOUS
<1>1. Typed
  BY DEF TypeOK, Typed
<1>2. None \notin Sock /\ NodeOf \in [Sock -> Node] /\ \A s \in Sock : UserOf[s] # None
  BY OwnershipAssumption
<1>3. ASSUME NEW s \in Sock, SockStep(s) PROVE OwnershipInv' 
  <2>1. CASE Connect(s)
    BY <2>1, <1>1, <1>2 DEF Connect, OwnershipInv, HolderHasLock, RegKnows,
        JobKnows, OwnerState, OneUserPerId, RegCritical, SweepCritical, Worker,
        Typed
  <2>2. CASE RegAcquire(s)
    BY <2>2, <1>1, <1>2, NoneIsFree DEF RegAcquire, OwnershipInv, HolderHasLock,
        RegKnows, JobKnows, OwnerState, OneUserPerId, RegCritical, SweepCritical,
        Worker, Typed, Acquire
  <2>3. CASE RegTimeout(s)
    BY <2>3, <1>1, <1>2 DEF RegTimeout, OwnershipInv, HolderHasLock, RegKnows,
        JobKnows, OwnerState, OneUserPerId, RegCritical, SweepCritical, Worker,
        Typed
  <2>4. CASE RegRead(s)
    BY <2>4, <1>1, <1>2 DEF RegRead, OwnershipInv, HolderHasLock, RegKnows,
        JobKnows, OwnerState, OneUserPerId, RegCritical, SweepCritical, Worker,
        Typed
  <2>5. CASE RegClear(s)
    BY <2>5, <1>1, <1>2 DEF RegClear, OwnershipInv, HolderHasLock, RegKnows,
        JobKnows, OwnerState, OneUserPerId, RegCritical, SweepCritical, Worker,
        Typed
  <2>6. CASE RegDelete(s)
    <3>1. /\ lock = <<"reg", s>> /\ rowUser \in {None, UserOf[s]}
          /\ lock' = lock /\ record' = None /\ state' = None /\ rowUser' = rowUser
      BY <2>6, <1>1, <1>2 DEF RegDelete, Forget, OwnershipInv, HolderHasLock,
          RegKnows, JobKnows, OwnerState, OneUserPerId, RegCritical,
          SweepCritical, Worker, Typed
    <3>2. /\ \A r \in Sock \ {s} : reg[r] \notin RegCritical /\ reg'[r] = reg[r]
          /\ \A n \in Node : job'[n] = "idle" /\ sweep'[n] \notin SweepCritical
      BY <2>6, <1>1, <3>1 DEF RegDelete, OwnershipInv, HolderHasLock, Typed
    <3>3. reg'[s] = "reset"
      BY <2>6, <1>1 DEF RegDelete, Typed
    <3>4. QED
      BY <3>1, <3>2, <3>3 DEF OwnershipInv, HolderHasLock, RegKnows, JobKnows,
             OwnerState, OneUserPerId, RegCritical
  <2>7. CASE RegReset(s)
    BY <2>7, <1>1, <1>2 DEF RegReset, OwnershipInv, HolderHasLock, RegKnows,
        JobKnows, OwnerState, OneUserPerId, RegCritical, SweepCritical, Worker,
        Typed
  <2>8. CASE RegWrite(s)
    BY <2>8, <1>1, <1>2 DEF RegWrite, OwnershipInv, HolderHasLock, RegKnows,
        JobKnows, OwnerState, OneUserPerId, RegCritical, SweepCritical, Worker,
        Typed
  <2>9. CASE RegAttach(s)
    BY <2>9, <1>1, <1>2 DEF RegAttach, OwnershipInv, HolderHasLock, RegKnows,
        JobKnows, OwnerState, OneUserPerId, RegCritical, SweepCritical, Worker,
        Typed
  <2>10. CASE RegRelease(s)
    BY <2>10, <1>1, <1>2 DEF RegRelease, OwnershipInv, HolderHasLock, RegKnows,
        JobKnows, OwnerState, OneUserPerId, RegCritical, SweepCritical, Worker,
        Typed, Unlock
  <2>11. CASE RegBind(s)
    BY <2>11, <1>1, <1>2 DEF RegBind, OwnershipInv, HolderHasLock, RegKnows,
        JobKnows, OwnerState, OneUserPerId, RegCritical, SweepCritical, Worker,
        Typed
  <2>12. CASE RegThrow(s)
    BY <2>12, <1>1, <1>2 DEF RegThrow, OwnershipInv, HolderHasLock, RegKnows,
        JobKnows, OwnerState, OneUserPerId, RegCritical, SweepCritical, Worker,
        Typed, RedisFault, Unlock
  <2>13. CASE RegReleaseFails(s)
    BY <2>13, <1>1, <1>2 DEF RegReleaseFails, OwnershipInv, HolderHasLock,
        RegKnows, JobKnows, OwnerState, OneUserPerId, RegCritical, SweepCritical,
        Worker, Typed, RedisFault
  <2>14. CASE EventArrive(s)
    <3>1. \A m \in Node : queue[m] # <<>> => Worker(m)' = Worker(m)
      BY <2>14, <1>2, EnqueueKeepsHead DEF EventArrive, Kinds
    <3>2. \A m \in Node : job[m] # "idle" => Worker(m)' = Worker(m)
      BY <3>1 DEF TypeOK
    <3>3. QED
      BY <2>14, <3>2 DEF EventArrive, OwnershipInv, HolderHasLock, RegKnows,
             JobKnows, OwnerState, OneUserPerId
  <2>15. CASE EndRequest(s)
    BY <2>15, <1>1, <1>2 DEF EndRequest, OwnershipInv, HolderHasLock, RegKnows,
        JobKnows, OwnerState, OneUserPerId, RegCritical, SweepCritical, Worker,
        Typed
  <2>16. CASE Disconnect(s)
    BY <2>16, <1>1, <1>2 DEF Disconnect, OwnershipInv, HolderHasLock, RegKnows,
        JobKnows, OwnerState, OneUserPerId, RegCritical, SweepCritical, Worker,
        Typed
  <2>17. ASSUME NEW k \in {"end", "disc"}, TokenAnswer(k, s) PROVE OwnershipInv'
    <3>1. \A m \in Node : queue[m] # <<>> => Worker(m)' = Worker(m)
      <4>1. CASE Enqueue(NodeOf[s], k, s)
        BY <4>1, <1>2, EnqueueKeepsHead DEF Kinds
      <4>2. CASE UNCHANGED queue
        BY <4>2 DEF Worker
      <4>3. QED BY <2>17, <4>1, <4>2 DEF TokenAnswer
    <3>2. \A m \in Node : job[m] # "idle" => Worker(m)' = Worker(m)
      BY <3>1 DEF TypeOK
    <3>3. QED
      BY <2>17, <3>2 DEF TokenAnswer, OwnershipInv, HolderHasLock, RegKnows,
             JobKnows, OwnerState, OneUserPerId
  <2>18. ASSUME NEW k \in {"end", "disc"}, TokenFails(k, s) PROVE OwnershipInv'
    BY <2>18, <1>1, <1>2 DEF TokenFails, OwnershipInv, HolderHasLock, RegKnows,
        JobKnows, OwnerState, OneUserPerId, RegCritical, SweepCritical, Worker,
        Typed, RedisFault
  <2>19. QED
    BY <1>3, <2>1, <2>2, <2>3, <2>4, <2>5, <2>6, <2>7, <2>8, <2>9, <2>10, <2>11,
        <2>12, <2>13, <2>14, <2>15, <2>16, <2>17, <2>18 DEF SockStep, RegStep
<1>4. ASSUME NEW n \in Node, NodeStep(n) PROVE OwnershipInv'
  <2>1. CASE ResetJob(n)
    BY <2>1, <1>1, <1>2 DEF ResetJob, OwnershipInv, HolderHasLock, RegKnows,
        JobKnows, OwnerState, OneUserPerId, RegCritical, SweepCritical, Worker,
        Typed, JobDone, HeadIs
  <2>2. CASE JobAcquire(n)
    BY <2>2, <1>1, <1>2, NoneIsFree DEF JobAcquire, OwnershipInv, HolderHasLock,
        RegKnows, JobKnows, OwnerState, OneUserPerId, RegCritical, SweepCritical,
        Worker, Typed, Acquire, HeadIs
  <2>3. CASE JobTimeout(n)
    BY <2>3, <1>1, <1>2 DEF JobTimeout, OwnershipInv, HolderHasLock, RegKnows,
        JobKnows, OwnerState, OneUserPerId, RegCritical, SweepCritical, Worker,
        Typed, JobDone
  <2>4. CASE JobCheck(n)
    BY <2>4, <1>1, <1>2 DEF JobCheck, OwnershipInv, HolderHasLock, RegKnows,
        JobKnows, OwnerState, OneUserPerId, RegCritical, SweepCritical, Worker,
        Typed
  <2>5. CASE EventApply(n)
    BY <2>5, <1>1, <1>2 DEF EventApply, OwnershipInv, HolderHasLock, RegKnows,
        JobKnows, OwnerState, OneUserPerId, RegCritical, SweepCritical, Worker,
        Typed
  <2>6. CASE JobClear(n)
    BY <2>6, <1>1, <1>2 DEF JobClear, OwnershipInv, HolderHasLock, RegKnows,
        JobKnows, OwnerState, OneUserPerId, RegCritical, SweepCritical, Worker,
        Typed
  <2>7. CASE JobDelete(n)
    BY <2>7, <1>1, <1>2 DEF JobDelete, OwnershipInv, HolderHasLock, RegKnows,
        JobKnows, OwnerState, OneUserPerId, RegCritical, SweepCritical, Worker,
        Typed, Forget
  <2>8. CASE JobRelease(n)
    BY <2>8, <1>1, <1>2 DEF JobRelease, OwnershipInv, HolderHasLock, RegKnows,
        JobKnows, OwnerState, OneUserPerId, RegCritical, SweepCritical, Worker,
        Typed, Unlock, JobDone
  <2>9. CASE JobThrow(n)
    BY <2>9, <1>1, <1>2 DEF JobThrow, OwnershipInv, HolderHasLock, RegKnows,
        JobKnows, OwnerState, OneUserPerId, RegCritical, SweepCritical, Worker,
        Typed, RedisFault, JobDone
  <2>10. CASE SweepExpired(n)
    BY <2>10, <1>1, <1>2 DEF SweepExpired, OwnershipInv, HolderHasLock, RegKnows,
        JobKnows, OwnerState, OneUserPerId, RegCritical, SweepCritical, Worker,
        Typed
  <2>11. CASE SweepScan(n)
    BY <2>11, <1>1, <1>2 DEF SweepScan, OwnershipInv, HolderHasLock, RegKnows,
        JobKnows, OwnerState, OneUserPerId, RegCritical, SweepCritical, Worker,
        Typed
  <2>12. CASE SweepCount(n)
    BY <2>12, <1>1, <1>2 DEF SweepCount, OwnershipInv, HolderHasLock, RegKnows,
        JobKnows, OwnerState, OneUserPerId, RegCritical, SweepCritical, Worker,
        Typed
  <2>13. CASE SweepRecheck(n)
    BY <2>13, <1>1, <1>2 DEF SweepRecheck, OwnershipInv, HolderHasLock, RegKnows,
        JobKnows, OwnerState, OneUserPerId, RegCritical, SweepCritical, Worker,
        Typed
  <2>14. CASE SweepAcquire(n)
    BY <2>14, <1>1, <1>2, NoneIsFree DEF SweepAcquire, OwnershipInv,
        HolderHasLock, RegKnows, JobKnows, OwnerState, OneUserPerId, RegCritical,
        SweepCritical, Worker, Typed, Acquire
  <2>15. CASE SweepTimeout(n)
    BY <2>15, <1>1, <1>2 DEF SweepTimeout, OwnershipInv, HolderHasLock, RegKnows,
        JobKnows, OwnerState, OneUserPerId, RegCritical, SweepCritical, Worker,
        Typed
  <2>16. CASE SweepClear(n)
    BY <2>16, <1>1, <1>2 DEF SweepClear, OwnershipInv, HolderHasLock, RegKnows,
        JobKnows, OwnerState, OneUserPerId, RegCritical, SweepCritical, Worker,
        Typed
  <2>17. CASE SweepDelete(n)
    BY <2>17, <1>1, <1>2 DEF SweepDelete, OwnershipInv, HolderHasLock, RegKnows,
        JobKnows, OwnerState, OneUserPerId, RegCritical, SweepCritical, Worker,
        Typed, Forget
  <2>18. CASE SweepRelease(n)
    BY <2>18, <1>1, <1>2 DEF SweepRelease, OwnershipInv, HolderHasLock, RegKnows,
        JobKnows, OwnerState, OneUserPerId, RegCritical, SweepCritical, Worker,
        Typed, Unlock
  <2>19. CASE CleanupChild(n)
    BY <2>19, <1>1, <1>2 DEF CleanupChild, OwnershipInv, HolderHasLock, RegKnows,
        JobKnows, OwnerState, OneUserPerId, RegCritical, SweepCritical, Worker,
        Typed
  <2>23. CASE SweepThrow(n)
    BY <2>23, <1>1, <1>2 DEF SweepThrow, OwnershipInv, HolderHasLock, RegKnows,
        JobKnows, OwnerState, OneUserPerId, RegCritical, SweepCritical, Worker,
        Typed, RedisFault
  <2>20. CASE Shutdown(n)
    BY <2>20, <1>1, <1>2 DEF Shutdown, OwnershipInv, HolderHasLock, RegKnows,
        JobKnows, OwnerState, OneUserPerId, RegCritical, SweepCritical, Worker,
        Typed
  <2>21. CASE Crash(n)
    BY <2>21, <1>1, <1>2 DEF Crash, OwnershipInv, HolderHasLock, RegKnows,
        JobKnows, OwnerState, OneUserPerId, RegCritical, SweepCritical, Worker,
        Typed
  <2>22. QED
    BY <1>4, <2>1, <2>2, <2>3, <2>4, <2>5, <2>6, <2>7, <2>8, <2>9, <2>10, <2>11,
        <2>12, <2>13, <2>14, <2>15, <2>16, <2>17, <2>18, <2>19, <2>20,
        <2>21, <2>23 DEF NodeStep, JobStep, SweepStep
<1>5. CASE LockExpire
  BY <1>5, <1>1, <1>2 DEF LockExpire, InSection, OwnershipInv, HolderHasLock,
      RegKnows, JobKnows, OwnerState, OneUserPerId, RegCritical, SweepCritical,
      Worker, Typed
<1>6. CASE Tick
  BY <1>6, <1>1, <1>2 DEF Tick, OwnershipInv, HolderHasLock, RegKnows, JobKnows,
      OwnerState, OneUserPerId, RegCritical, SweepCritical, Worker, Typed
<1>7. CASE UNCHANGED vars
  BY <1>7, <1>1, <1>2 DEF vars, OwnershipInv, HolderHasLock, RegKnows, JobKnows,
      OwnerState, OneUserPerId, RegCritical, SweepCritical, Worker, Typed
<1>8. QED
  BY <1>3, <1>4, <1>5, <1>6, <1>7 DEF Next
-----------------------------------------------------------------------------

\* Every variable keeps to the values the code can store, and a job in
\* progress is a job of the queue.
THEOREM TypeCorrect == Spec => []TypeOK
<1>1. Init => TypeOK
  BY DEF Init, TypeOK
<1>2. QED BY <1>1, TypeStep, PTL DEF Spec

\* While no lease lapses under a live holder, every handler between acquire
\* and release holds the lock and the record is as it left it.
THEOREM OwnershipInvariant ==
  ASSUME ~LeaseMayLapse
  PROVE  Spec => [](TypeOK /\ OwnershipInv)
<1>1. Init => TypeOK /\ OwnershipInv
  BY DEF Init, TypeOK, OwnershipInv, HolderHasLock, RegKnows, JobKnows, OwnerState,
         OneUserPerId, RegCritical, SweepCritical
<1>2. TypeOK /\ OwnershipInv /\ [Next]_vars => (TypeOK /\ OwnershipInv)'
  BY TypeStep, OwnershipStep
<1>3. QED BY <1>1, <1>2, PTL DEF Spec

\* At most one registration, queued job or sweep is between acquire and
\* release of the ownership lock (sio-state.ts, acquireSessionOwnershipLock).
THEOREM MutualExclusion ==
  ASSUME ~LeaseMayLapse
  PROVE  Spec => []OneInSection
<1>1. OwnershipInv => OneInSection
  <2> SUFFICES ASSUME OwnershipInv, NEW g \in Holder, NEW h \in Holder,
                      InSection(g), InSection(h)
               PROVE  g = h
    BY DEF OneInSection
  <2>1. ASSUME NEW x \in Holder, InSection(x) PROVE lock = x
    <3>1. CASE x \in {"reg"} \X Sock
      BY <2>1, <3>1 DEF InSection, OwnershipInv, HolderHasLock
    <3>2. CASE x \in {"job"} \X Node
      BY <2>1, <3>2 DEF InSection, OwnershipInv, HolderHasLock
    <3>3. CASE x \in {"sweep"} \X Node
      BY <2>1, <3>3 DEF InSection, OwnershipInv, HolderHasLock
    <3>4. QED BY <3>1, <3>2, <3>3 DEF Holder
  <2>2. QED BY <2>1
<1>2. QED BY <1>1, OwnershipInvariant, PTL

\* The snapshot of the session was sent by the connection that owns it now:
\* the check and the write of an event are one critical section
\* (event-pipeline.ts, registerEventHandler).
THEOREM SnapshotOfOwner ==
  ASSUME ~LeaseMayLapse
  PROVE  Spec => []OwnerState
<1>1. OwnershipInv => OwnerState
  BY DEF OwnershipInv
<1>2. QED BY <1>1, OwnershipInvariant, PTL

\* A session id belongs to one user: the live record never disagrees with the
\* persisted row (the two guards of registerTuiSessionUnlocked).
THEOREM OneUser ==
  ASSUME ~LeaseMayLapse
  PROVE  Spec => []OneUserPerId
<1>1. OwnershipInv => OneUserPerId
  BY DEF OwnershipInv
<1>2. QED BY <1>1, OwnershipInvariant, PTL

\* A registration evicts a record of its own user only, although the record
\* was read several awaits before it is deleted.
THEOREM EvictsOwnUser ==
  ASSUME ~LeaseMayLapse
  PROVE  Spec => SameUserEviction
<1> DEFINE Act == \A s \in Sock :
                    reg[s] = "delete" /\ reg'[s] = "reset" /\ record # None
                      => UserOf[record] = UserOf[s]
<1>1. OwnershipInv => Act
  BY DEF OwnershipInv, RegKnows
<1>2. SameUserEviction <=> [][Act]_vars
  BY DEF SameUserEviction
<1>3. QED BY <1>1, <1>2, OwnershipInvariant, PTL

\* The relay implements SessionOwner: ownership is released before it is
\* claimed, only the owner's snapshot is accepted, the row keeps its user.
THEOREM Refinement ==
  ASSUME ~LeaseMayLapse
  PROVE  Spec => ImplementsOwner
<1>. USE DEF redis, memory, sockets, used
<1>1. Init => Abstract!Init
  BY DEF Init, Abstract!Init
<1>2. TypeOK /\ OwnershipInv /\ [Next]_vars => [Abstract!Next]_(Abstract!vars)
  <2> SUFFICES ASSUME TypeOK, OwnershipInv, [Next]_vars
               PROVE  Abstract!Next \/ UNCHANGED <<record, state, rowUser>>
    BY DEF Abstract!vars
  <2> USE DEF Abstract!Next
  <2>1. None \notin Sock
    BY OwnershipAssumption
  <2>2. ASSUME NEW s \in Sock, SockStep(s)
        PROVE  Abstract!Next \/ UNCHANGED <<record, state, rowUser>>
    <3>1. CASE RegDelete(s)
      BY <3>1 DEF RegDelete, Forget, Abstract!Release, OwnershipInv, RegKnows
    <3>2. CASE RegWrite(s)
      BY <3>2 DEF RegWrite, Abstract!Claim, OwnershipInv, RegKnows
    <3>3. CASE RegAttach(s)
      BY <2>1, <3>3 DEF RegAttach, Abstract!Persist, OwnershipInv, RegKnows,
          OneUserPerId
    <3>4. CASE \/ RegAcquire(s) \/ RegTimeout(s) \/ RegRead(s) \/ RegClear(s)
               \/ RegReset(s) \/ RegRelease(s) \/ RegBind(s) \/ RegThrow(s)
               \/ RegReleaseFails(s) \/ Connect(s)
      BY <3>4 DEF RegAcquire, RegTimeout, RegRead, RegClear, RegReset, RegRelease,
             RegBind, RegThrow, RegReleaseFails, Connect
    <3>5. CASE \/ EventArrive(s) \/ EndRequest(s) \/ Disconnect(s)
               \/ \E k \in {"end", "disc"} : TokenAnswer(k, s) \/ TokenFails(k, s)
      BY <3>5 DEF EventArrive, EndRequest, Disconnect, TokenAnswer, TokenFails
    <3>6. QED BY <2>2, <3>1, <3>2, <3>3, <3>4, <3>5 DEF SockStep, RegStep
  <2>3. ASSUME NEW n \in Node, NodeStep(n)
        PROVE  Abstract!Next \/ UNCHANGED <<record, state, rowUser>>
    <3>1. CASE EventApply(n)
      <4>1. record = Worker(n) /\ record # None
        BY <2>1, <3>1, QueueOps DEF EventApply, HeadIs, OwnershipInv, JobKnows
      <4>2. QED BY <3>1, <4>1 DEF EventApply, Abstract!Accept
    <3>2. CASE JobDelete(n)
      BY <2>1, <3>2, QueueOps DEF JobDelete, Forget, Abstract!Release, TypeOK
    <3>3. CASE SweepDelete(n)
      <4>1. CASE record = None
        BY <3>3, <4>1 DEF SweepDelete, Forget, OwnershipInv, OwnerState
      <4>2. CASE record # None
        BY <3>3, <4>2 DEF SweepDelete, Forget, Abstract!Release
      <4>3. QED BY <4>1, <4>2
    <3>4. CASE \/ ResetJob(n) \/ JobAcquire(n) \/ JobTimeout(n) \/ JobCheck(n)
               \/ JobClear(n) \/ JobRelease(n) \/ JobThrow(n)
      BY <3>4 DEF ResetJob, JobAcquire, JobTimeout, JobCheck, JobClear, JobRelease,
             JobThrow, JobDone
    <3>5. CASE \/ SweepExpired(n) \/ SweepScan(n) \/ SweepCount(n)
               \/ SweepRecheck(n) \/ SweepAcquire(n) \/ SweepTimeout(n)
               \/ SweepClear(n) \/ SweepRelease(n) \/ SweepThrow(n)
               \/ CleanupChild(n)
               \/ Shutdown(n) \/ Crash(n)
      BY <3>5 DEF SweepExpired, SweepScan, SweepCount, SweepRecheck, SweepAcquire,
             SweepTimeout, SweepClear, SweepRelease, SweepThrow, CleanupChild,
             Shutdown, Crash
    <3>6. QED BY <2>3, <3>1, <3>2, <3>3, <3>4, <3>5 DEF NodeStep, JobStep, SweepStep
  <2>4. CASE LockExpire
    BY <2>4 DEF LockExpire
  <2>5. CASE Tick
    BY <2>5 DEF Tick
  <2>6. CASE UNCHANGED vars
    BY <2>6 DEF vars
  <2>7. QED BY <2>2, <2>3, <2>4, <2>5, <2>6 DEF Next
<1>3. QED BY <1>1, <1>2, OwnershipInvariant, PTL DEF Spec, ImplementsOwner,
Abstract!Spec
-----------------------------------------------------------------------------
(* The owner is reachable.                                                  *)

\* Registered, from the moment its socket is in its node's map.
Attached(s) == reg[s] \in {"release", "bind", "done"}

\* Somebody on node n has begun to take the session away from its owner: the
\* map entry of n and the binding of its socket may be gone, the record is not.
Undoing(n) ==
  \/ \E s \in Sock : NodeOf[s] = n /\ reg[s] \in {"clear", "delete"}
  \/ job[n] = "delete"
  \/ sweep[n] = "delete"

\* A node maps the id to a socket of its own.
LocalHere == \A n \in Node : local[n] # None => NodeOf[local[n]] = n

\* The connected owner is in its node's map and bound, but for a takeover or a
\* teardown that runs on that very node; if the node crashes in the middle,
\* the owner is no longer connected.
ReachHere ==
  \A s \in Sock :
    record = s /\ s \in conn /\ Attached(s) =>
      \/ local[NodeOf[s]] = s /\ (reg[s] = "done" => s \in bound)
      \/ Undoing(NodeOf[s])

ReachInv == LocalHere /\ (faults = 0 => ReachHere)

\* What ReachInv needs of TypeOK.
Placed ==
  /\ Typed /\ faults \in Nat /\ local \in [Node -> Sock \cup {None}]
  /\ None \notin Sock /\ NodeOf \in [Sock -> Node]

\* Every step keeps the owner in the socket map or on its way there.
LEMMA ReachStep ==
  ASSUME TypeOK, OwnershipInv, ReachInv, [Next]_vars
  PROVE  ReachInv'
<1>. USE DEF redis, memory, sockets, used
<1>1. Placed
  BY Places DEF TypeOK, Placed, Typed
<1>2. RegKnows /\ JobKnows
  BY DEF OwnershipInv
<1>3. ASSUME NEW s \in Sock, SockStep(s) PROVE ReachInv'
  <2>1. CASE Connect(s)
    BY <2>1, <1>1, <1>2 DEF Connect, ReachInv, LocalHere, ReachHere, Undoing, Attached, Placed, Typed, RegKnows, JobKnows,
        RegCritical, SweepCritical, Worker
  <2>2. CASE RegAcquire(s)
    BY <2>2, <1>1, <1>2 DEF RegAcquire, Acquire, ReachInv, LocalHere, ReachHere, Undoing, Attached, Placed, Typed, RegKnows, JobKnows,
        RegCritical, SweepCritical, Worker
  <2>3. CASE RegTimeout(s)
    BY <2>3, <1>1, <1>2 DEF RegTimeout, ReachInv, LocalHere, ReachHere, Undoing, Attached, Placed, Typed, RegKnows, JobKnows,
        RegCritical, SweepCritical, Worker
  <2>4. CASE RegRead(s)
    BY <2>4, <1>1, <1>2 DEF RegRead, ReachInv, LocalHere, ReachHere, Undoing, Attached, Placed, Typed, RegKnows, JobKnows,
        RegCritical, SweepCritical, Worker
  <2>5. CASE RegClear(s)
    BY <2>5, <1>1, <1>2 DEF RegClear, ReachInv, LocalHere, ReachHere, Undoing, Attached, Placed, Typed, RegKnows, JobKnows,
        RegCritical, SweepCritical, Worker
  <2>6. CASE RegDelete(s)
    BY <2>6, <1>1, <1>2 DEF RegDelete, Forget, ReachInv, LocalHere, ReachHere, Undoing, Attached, Placed, Typed, RegKnows, JobKnows,
        RegCritical, SweepCritical, Worker
  <2>7. CASE RegReset(s)
    BY <2>7, <1>1, <1>2 DEF RegReset, ReachInv, LocalHere, ReachHere, Undoing, Attached, Placed, Typed, RegKnows, JobKnows,
        RegCritical, SweepCritical, Worker
  <2>8. CASE RegWrite(s)
    BY <2>8, <1>1, <1>2 DEF RegWrite, ReachInv, LocalHere, ReachHere, Undoing, Attached, Placed, Typed, RegKnows, JobKnows,
        RegCritical, SweepCritical, Worker
  <2>9. CASE RegAttach(s)
    BY <2>9, <1>1, <1>2 DEF RegAttach, ReachInv, LocalHere, ReachHere, Undoing, Attached, Placed, Typed, RegKnows, JobKnows,
        RegCritical, SweepCritical, Worker
  <2>10. CASE RegRelease(s)
    BY <2>10, <1>1, <1>2 DEF RegRelease, Unlock, ReachInv, LocalHere, ReachHere, Undoing, Attached, Placed, Typed, RegKnows, JobKnows,
        RegCritical, SweepCritical, Worker
  <2>11. CASE RegBind(s)
    BY <2>11, <1>1, <1>2 DEF RegBind, ReachInv, LocalHere, ReachHere, Undoing, Attached, Placed, Typed, RegKnows, JobKnows,
        RegCritical, SweepCritical, Worker
  <2>12. CASE RegThrow(s)
    BY <2>12, <1>1, <1>2 DEF RegThrow, RedisFault, ReachInv, LocalHere, ReachHere, Undoing, Attached, Placed, Typed, RegKnows, JobKnows,
        RegCritical, SweepCritical, Worker
  <2>13. CASE RegReleaseFails(s)
    BY <2>13, <1>1, <1>2 DEF RegReleaseFails, RedisFault, ReachInv, LocalHere, ReachHere, Undoing, Attached, Placed, Typed, RegKnows, JobKnows,
        RegCritical, SweepCritical, Worker
  <2>14. CASE EventArrive(s)
    BY <2>14, <1>1, <1>2 DEF EventArrive, Enqueue, ReachInv, LocalHere, ReachHere, Undoing, Attached, Placed, Typed, RegKnows, JobKnows,
        RegCritical, SweepCritical, Worker
  <2>15. CASE EndRequest(s)
    BY <2>15, <1>1, <1>2 DEF EndRequest, ReachInv, LocalHere, ReachHere, Undoing, Attached, Placed, Typed, RegKnows, JobKnows,
        RegCritical, SweepCritical, Worker
  <2>16. CASE Disconnect(s)
    BY <2>16, <1>1, <1>2 DEF Disconnect, ReachInv, LocalHere, ReachHere, Undoing, Attached, Placed, Typed, RegKnows, JobKnows,
        RegCritical, SweepCritical, Worker
  <2>17. ASSUME NEW k \in {"end", "disc"}, TokenAnswer(k, s) \/ TokenFails(k, s)
        PROVE  ReachInv'
    BY <2>17, <1>1 DEF TokenAnswer, TokenFails, RedisFault, ReachInv, LocalHere, ReachHere, Undoing, Attached, Placed
  <2>18. QED
    BY <1>3, <2>1, <2>2, <2>3, <2>4, <2>5, <2>6, <2>7, <2>8, <2>9, <2>10, <2>11, <2>12, <2>13, <2>14, <2>15, <2>16, <2>17 DEF SockStep, RegStep
<1>4. ASSUME NEW n \in Node, NodeStep(n) PROVE ReachInv'
  <2>1. CASE ResetJob(n)
    BY <2>1, <1>1, <1>2 DEF ResetJob, JobDone, HeadIs, ReachInv, LocalHere, ReachHere, Undoing, Attached, Placed, Typed, RegKnows, JobKnows,
        RegCritical, SweepCritical, Worker
  <2>2. CASE JobAcquire(n)
    BY <2>2, <1>1, <1>2 DEF JobAcquire, ReachInv, LocalHere, ReachHere, Undoing, Attached, Placed, Typed, RegKnows, JobKnows,
        RegCritical, SweepCritical, Worker
  <2>3. CASE JobTimeout(n)
    BY <2>3, <1>1, <1>2 DEF JobTimeout, JobDone, HeadIs, ReachInv, LocalHere, ReachHere, Undoing, Attached, Placed, Typed, RegKnows, JobKnows,
        RegCritical, SweepCritical, Worker
  <2>4. CASE JobCheck(n)
    BY <2>4, <1>1, <1>2 DEF JobCheck, ReachInv, LocalHere, ReachHere, Undoing, Attached, Placed, Typed, RegKnows, JobKnows,
        RegCritical, SweepCritical, Worker
  <2>5. CASE EventApply(n)
    BY <2>5, <1>1, <1>2 DEF EventApply, ReachInv, LocalHere, ReachHere, Undoing, Attached, Placed, Typed, RegKnows, JobKnows,
        RegCritical, SweepCritical, Worker
  <2>6. CASE JobClear(n)
    <3>1. CASE record = None
      BY <2>6, <1>1, <3>1 DEF JobClear, Unbind, HeadIs, ReachInv, LocalHere,
          ReachHere, Placed, Typed
    <3>2. CASE record # None
      <4>1. /\ job' = [job EXCEPT ![n] = "delete"]
            /\ local' = [local EXCEPT ![n] = None]
            /\ UNCHANGED <<record, sweep, reg, conn, bound, faults>>
        BY <2>6, <3>2 DEF JobClear
      <4>2. job'[n] = "delete" /\ local'[n] = None
        BY <4>1, <1>1 DEF Placed, Typed
      <4>3. \A m \in Node : m # n => job'[m] = job[m] /\ local'[m] = local[m]
        BY <4>1, <1>1 DEF Placed, Typed
      <4>4. LocalHere'
        BY <1>1, <4>2, <4>3 DEF ReachInv, LocalHere
      <4>5. ASSUME ReachHere PROVE ReachHere'
        <5> SUFFICES ASSUME NEW s \in Sock, record' = s, s \in conn', Attached(s)'
                     PROVE  \/ local'[NodeOf[s]] = s /\ (reg'[s] = "done" => s \in bound')
                            \/ Undoing(NodeOf[s])'
          BY DEF ReachHere
        <5>1. CASE NodeOf[s] = n
          BY <4>2, <5>1 DEF Undoing
        <5>2. CASE NodeOf[s] # n
          <6>1. NodeOf[s] \in Node
            BY <1>1 DEF Placed
          <6>2. \/ local[NodeOf[s]] = s /\ (reg[s] = "done" => s \in bound)
                \/ Undoing(NodeOf[s])
            BY <4>1, <4>5 DEF ReachHere, Attached
          <6>3. QED BY <4>1, <4>3, <5>2, <6>1, <6>2 DEF Undoing
        <5>3. QED BY <5>1, <5>2
      <4>6. QED BY <4>1, <4>4, <4>5 DEF ReachInv
    <3>3. QED BY <3>1, <3>2
  <2>7. CASE JobDelete(n)
    BY <2>7, <1>1, <1>2 DEF JobDelete, Forget, Unbind, ReachInv, LocalHere, ReachHere, Undoing, Attached, Placed, Typed, RegKnows, JobKnows,
        RegCritical, SweepCritical, Worker
  <2>8. CASE JobRelease(n)
    BY <2>8, <1>1, <1>2 DEF JobRelease, JobDone, ReachInv, LocalHere, ReachHere, Undoing, Attached, Placed, Typed, RegKnows, JobKnows,
        RegCritical, SweepCritical, Worker
  <2>9. CASE JobThrow(n)
    BY <2>9, <1>1, <1>2 DEF JobThrow, JobDone, RedisFault, ReachInv, LocalHere, ReachHere, Undoing, Attached, Placed, Typed, RegKnows, JobKnows,
        RegCritical, SweepCritical, Worker
  <2>10. CASE SweepExpired(n)
    BY <2>10, <1>1, <1>2 DEF SweepExpired, ReachInv, LocalHere, ReachHere, Undoing, Attached, Placed, Typed, RegKnows, JobKnows,
        RegCritical, SweepCritical, Worker
  <2>11. CASE SweepScan(n)
    BY <2>11, <1>1, <1>2 DEF SweepScan, ReachInv, LocalHere, ReachHere, Undoing, Attached, Placed, Typed, RegKnows, JobKnows,
        RegCritical, SweepCritical, Worker
  <2>12. CASE SweepCount(n)
    BY <2>12, <1>1, <1>2 DEF SweepCount, ReachInv, LocalHere, ReachHere, Undoing, Attached, Placed, Typed, RegKnows, JobKnows,
        RegCritical, SweepCritical, Worker
  <2>13. CASE SweepRecheck(n)
    BY <2>13, <1>1, <1>2 DEF SweepRecheck, ReachInv, LocalHere, ReachHere, Undoing, Attached, Placed, Typed, RegKnows, JobKnows,
        RegCritical, SweepCritical, Worker
  <2>14. CASE SweepAcquire(n)
    BY <2>14, <1>1, <1>2 DEF SweepAcquire, ReachInv, LocalHere, ReachHere, Undoing, Attached, Placed, Typed, RegKnows, JobKnows,
        RegCritical, SweepCritical, Worker
  <2>15. CASE SweepTimeout(n)
    BY <2>15, <1>1, <1>2 DEF SweepTimeout, ReachInv, LocalHere, ReachHere, Undoing, Attached, Placed, Typed, RegKnows, JobKnows,
        RegCritical, SweepCritical, Worker
  <2>16. CASE SweepClear(n)
    <3>1. CASE record = None
      BY <2>16, <1>1, <3>1 DEF SweepClear, ReachInv, LocalHere,
          ReachHere, Placed, Typed
    <3>2. CASE record # None
      <4>1. /\ sweep' = [sweep EXCEPT ![n] = "delete"]
            /\ local' = [local EXCEPT ![n] = None]
            /\ UNCHANGED <<record, job, reg, conn, bound, faults>>
        BY <2>16, <3>2 DEF SweepClear
      <4>2. sweep'[n] = "delete" /\ local'[n] = None
        BY <4>1, <1>1 DEF Placed, Typed
      <4>3. \A m \in Node : m # n => sweep'[m] = sweep[m] /\ local'[m] = local[m]
        BY <4>1, <1>1 DEF Placed, Typed
      <4>4. LocalHere'
        BY <1>1, <4>2, <4>3 DEF ReachInv, LocalHere
      <4>5. ASSUME ReachHere PROVE ReachHere'
        <5> SUFFICES ASSUME NEW s \in Sock, record' = s, s \in conn', Attached(s)'
                     PROVE  \/ local'[NodeOf[s]] = s /\ (reg'[s] = "done" => s \in bound')
                            \/ Undoing(NodeOf[s])'
          BY DEF ReachHere
        <5>1. CASE NodeOf[s] = n
          BY <4>2, <5>1 DEF Undoing
        <5>2. CASE NodeOf[s] # n
          <6>1. NodeOf[s] \in Node
            BY <1>1 DEF Placed
          <6>2. \/ local[NodeOf[s]] = s /\ (reg[s] = "done" => s \in bound)
                \/ Undoing(NodeOf[s])
            BY <4>1, <4>5 DEF ReachHere, Attached
          <6>3. QED BY <4>1, <4>3, <5>2, <6>1, <6>2 DEF Undoing
        <5>3. QED BY <5>1, <5>2
      <4>6. QED BY <4>1, <4>4, <4>5 DEF ReachInv
    <3>3. QED BY <3>1, <3>2
  <2>17. CASE SweepDelete(n)
    BY <2>17, <1>1, <1>2 DEF SweepDelete, Forget, ReachInv, LocalHere, ReachHere, Undoing, Attached, Placed, Typed, RegKnows, JobKnows,
        RegCritical, SweepCritical, Worker
  <2>18. CASE SweepRelease(n)
    BY <2>18, <1>1, <1>2 DEF SweepRelease, ReachInv, LocalHere, ReachHere, Undoing, Attached, Placed, Typed, RegKnows, JobKnows,
        RegCritical, SweepCritical, Worker
  <2>19. CASE SweepThrow(n)
    BY <2>19, <1>1, <1>2 DEF SweepThrow, RedisFault, ReachInv, LocalHere, ReachHere, Undoing, Attached, Placed, Typed, RegKnows, JobKnows,
        RegCritical, SweepCritical, Worker
  <2>20. CASE CleanupChild(n)
    BY <2>20, <1>1, <1>2 DEF CleanupChild, ReachInv, LocalHere, ReachHere, Undoing, Attached, Placed, Typed, RegKnows, JobKnows,
        RegCritical, SweepCritical, Worker
  <2>21. CASE Shutdown(n)
    BY <2>21, <1>1, <1>2 DEF Shutdown, ReachInv, LocalHere, ReachHere, Undoing, Attached, Placed, Typed, RegKnows, JobKnows,
        RegCritical, SweepCritical, Worker
  <2>22. CASE Crash(n)
    BY <2>22, <1>1, <1>2 DEF Crash, ReachInv, LocalHere, ReachHere, Undoing, Attached, Placed, Typed, RegKnows, JobKnows,
        RegCritical, SweepCritical, Worker
  <2>23. QED
    BY <1>4, <2>1, <2>2, <2>3, <2>4, <2>5, <2>6, <2>7, <2>8, <2>9, <2>10, <2>11, <2>12, <2>13, <2>14, <2>15, <2>16, <2>17, <2>18, <2>19, <2>20, <2>21, <2>22 DEF NodeStep, JobStep, SweepStep
<1>5. CASE LockExpire
  BY <1>5, <1>1 DEF LockExpire, ReachInv, LocalHere, ReachHere, Undoing, Attached, Placed
<1>6. CASE Tick
  BY <1>6, <1>1 DEF Tick, ReachInv, LocalHere, ReachHere, Undoing, Attached, Placed
<1>7. CASE UNCHANGED vars
  BY <1>7, <1>1 DEF vars, ReachInv, LocalHere, ReachHere, Undoing, Attached, Placed
<1>8. QED BY <1>3, <1>4, <1>5, <1>6, <1>7 DEF Next

\* As long as no Redis call has failed, a registered, connected owner is in its
\* node's map and bound whenever nobody holds the lock: no order of takeovers,
\* ends, sweeps and crashes leaves it owning a session it cannot be reached
\* for.  A call that fails between the unmapping and the deletion of a record
\* (RegThrow, JobThrow, SweepThrow) does leave it so.
THEOREM OwnerIsReachable ==
  ASSUME ~LeaseMayLapse
  PROVE  Spec => [](faults = 0 => OwnerReachable)
<1>1. Init => ReachInv
  BY OwnershipAssumption DEF Init, ReachInv, LocalHere, ReachHere
<1>2. ReachInv /\ OwnershipInv => (faults = 0 => OwnerReachable)
  BY Places, OwnershipAssumption, NoneIsFree
     DEF ReachInv, ReachHere, Undoing, Attached, OwnershipInv, HolderHasLock,
         OwnerReachable, RegCritical, SweepCritical
<1>3. QED BY <1>1, <1>2, ReachStep, OwnershipInvariant, PTL DEF Spec
-----------------------------------------------------------------------------
(* A teardown ends the session of the socket it was queued for.             *)

\* A socket that has been and gone: no socket connects twice.
Gone(s) == s \notin conn /\ reg[s] # "idle"

\* What a queue of jobs says of disconnected sockets.
QueueGone(q) == \A i \in 1..Len(q) : q[i].kind = "disc" => Gone(q[i].sock)

Known == \A s \in Sock : s \in conn \cup bound => reg[s] # "idle"
AskGone == \A s \in Sock : <<"disc", s>> \in asking => Gone(s)
TeardownKind == \A n \in Node : job[n] = "delete" => Head(queue[n]).kind \in {"end", "disc"}

TeardownInv ==
  Known /\ AskGone /\ TeardownKind /\ \A n \in Node : QueueGone(queue[n])

\* What a step can do to node m's queue.
QueueMoves(m) ==
  \/ queue'[m] = queue[m]
  \/ queue'[m] = <<>> /\ job'[m] = "idle"
  \/ queue[m] # <<>> /\ queue'[m] = Tail(queue[m]) /\ job'[m] = "idle"
  \/ \E j \in Job : /\ queue'[m] = Append(queue[m], j)
                    /\ j.kind = "disc" => <<"disc", j.sock>> \in asking

\* No handler brings a socket back, or makes one that was never connected
\* known to the relay, and a disconnect is asked about only for a socket that
\* is gone.
LEMMA GoneStep ==
  ASSUME TypeOK, Known, AskGone, [Next]_vars
  PROVE  (\A s \in Sock : Gone(s) => Gone(s)') /\ Known' /\ AskGone'
<1>. USE DEF redis, memory, sockets, used
<1> DEFINE Goal == (\A r \in Sock : Gone(r) => Gone(r)') /\ Known' /\ AskGone'
<1>1. /\ reg \in [Sock -> {"idle", "waiting", "bind"} \cup RegCritical \cup RegSettled]
      /\ local \in [Node -> Sock \cup {None}] /\ None \notin Sock
      /\ queue \in [Node -> Seq(Job)]
  BY Places DEF TypeOK
<1>2. ASSUME NEW s \in Sock, SockStep(s) PROVE Goal
  <2>1. CASE Connect(s)
    BY <2>1, <1>1 DEF Connect, Known, AskGone, Gone, RegCritical, RegSettled
  <2>2. CASE RegAcquire(s)
    BY <2>2, <1>1 DEF RegAcquire, Known, AskGone, Gone, RegCritical, RegSettled
  <2>3. CASE RegTimeout(s)
    BY <2>3, <1>1 DEF RegTimeout, Known, AskGone, Gone, RegCritical, RegSettled
  <2>4. CASE RegRead(s)
    BY <2>4, <1>1 DEF RegRead, Known, AskGone, Gone, RegCritical, RegSettled
  <2>5. CASE RegClear(s)
    BY <2>5, <1>1 DEF RegClear, Known, AskGone, Gone, RegCritical, RegSettled
  <2>6. CASE RegDelete(s)
    BY <2>6, <1>1 DEF RegDelete, Known, AskGone, Gone, RegCritical, RegSettled
  <2>7. CASE RegReset(s)
    BY <2>7, <1>1 DEF RegReset, Known, AskGone, Gone, RegCritical, RegSettled
  <2>8. CASE RegWrite(s)
    BY <2>8, <1>1 DEF RegWrite, Known, AskGone, Gone, RegCritical, RegSettled
  <2>9. CASE RegAttach(s)
    BY <2>9, <1>1 DEF RegAttach, Known, AskGone, Gone, RegCritical, RegSettled
  <2>10. CASE RegRelease(s)
    BY <2>10, <1>1 DEF RegRelease, Known, AskGone, Gone, RegCritical, RegSettled
  <2>11. CASE RegBind(s)
    BY <2>11, <1>1 DEF RegBind, Known, AskGone, Gone, RegCritical, RegSettled
  <2>12. CASE RegThrow(s)
    BY <2>12, <1>1 DEF RegThrow, Known, AskGone, Gone, RegCritical, RegSettled
  <2>13. CASE RegReleaseFails(s)
    BY <2>13, <1>1 DEF RegReleaseFails, Known, AskGone, Gone, RegCritical, RegSettled
  <2>14. CASE EventArrive(s)
    BY <2>14, <1>1 DEF EventArrive, Known, AskGone, Gone, RegCritical, RegSettled
  <2>15. CASE EndRequest(s)
    BY <2>15, <1>1 DEF EndRequest, Known, AskGone, Gone, RegCritical, RegSettled
  <2>16. CASE Disconnect(s)
    BY <2>16, <1>1 DEF Disconnect, OnDisconnect, Known, AskGone, Gone, RegCritical, RegSettled
  <2>17. ASSUME NEW k \in {"end", "disc"}, TokenAnswer(k, s) \/ TokenFails(k, s)
        PROVE  Goal
    BY <2>17, <1>1 DEF TokenAnswer, TokenFails, Known, AskGone, Gone
  <2>18. QED
    BY <1>2, <2>1, <2>2, <2>3, <2>4, <2>5, <2>6, <2>7, <2>8, <2>9, <2>10, <2>11, <2>12, <2>13, <2>14, <2>15, <2>16, <2>17 DEF SockStep, RegStep
<1>3. ASSUME NEW n \in Node, NodeStep(n) PROVE Goal
  <2>1. CASE ResetJob(n)
    BY <2>1, <1>1, QueueOps DEF ResetJob, JobDone, HeadIs, Known, AskGone, Gone, RegCritical, RegSettled
  <2>2. CASE JobAcquire(n)
    BY <2>2, <1>1 DEF JobAcquire, Known, AskGone, Gone, RegCritical, RegSettled
  <2>3. CASE JobTimeout(n)
    BY <2>3, <1>1 DEF JobTimeout, JobDone, HeadIs, Known, AskGone, Gone, RegCritical, RegSettled
  <2>4. CASE JobCheck(n)
    BY <2>4, <1>1 DEF JobCheck, Known, AskGone, Gone, RegCritical, RegSettled
  <2>5. CASE EventApply(n)
    BY <2>5, <1>1 DEF EventApply, Known, AskGone, Gone, RegCritical, RegSettled
  <2>6. CASE JobClear(n)
    BY <2>6, <1>1 DEF JobClear, Unbind, HeadIs, Known, AskGone, Gone, RegCritical, RegSettled
  <2>7. CASE JobDelete(n)
    BY <2>7, <1>1 DEF JobDelete, Forget, Unbind, Known, AskGone, Gone, RegCritical, RegSettled
  <2>8. CASE JobRelease(n)
    BY <2>8, <1>1 DEF JobRelease, JobDone, Known, AskGone, Gone, RegCritical, RegSettled
  <2>9. CASE JobThrow(n)
    BY <2>9, <1>1 DEF JobThrow, JobDone, Known, AskGone, Gone, RegCritical, RegSettled
  <2>10. CASE SweepExpired(n)
    BY <2>10, <1>1 DEF SweepExpired, OnDisconnect, Known, AskGone, Gone, RegCritical, RegSettled
  <2>11. CASE SweepScan(n)
    BY <2>11, <1>1 DEF SweepScan, Known, AskGone, Gone, RegCritical, RegSettled
  <2>12. CASE SweepCount(n)
    BY <2>12, <1>1 DEF SweepCount, Known, AskGone, Gone, RegCritical, RegSettled
  <2>13. CASE SweepRecheck(n)
    BY <2>13, <1>1 DEF SweepRecheck, Known, AskGone, Gone, RegCritical, RegSettled
  <2>14. CASE SweepAcquire(n)
    BY <2>14, <1>1 DEF SweepAcquire, Known, AskGone, Gone, RegCritical, RegSettled
  <2>15. CASE SweepTimeout(n)
    BY <2>15, <1>1 DEF SweepTimeout, Known, AskGone, Gone, RegCritical, RegSettled
  <2>16. CASE SweepClear(n)
    BY <2>16, <1>1 DEF SweepClear, Known, AskGone, Gone, RegCritical, RegSettled
  <2>17. CASE SweepDelete(n)
    BY <2>17, <1>1 DEF SweepDelete, Known, AskGone, Gone, RegCritical, RegSettled
  <2>18. CASE SweepRelease(n)
    BY <2>18, <1>1 DEF SweepRelease, Known, AskGone, Gone, RegCritical, RegSettled
  <2>19. CASE SweepThrow(n)
    BY <2>19, <1>1 DEF SweepThrow, Known, AskGone, Gone, RegCritical, RegSettled
  <2>20. CASE CleanupChild(n)
    BY <2>20, <1>1 DEF CleanupChild, Known, AskGone, Gone, RegCritical, RegSettled
  <2>21. CASE Shutdown(n)
    BY <2>21, <1>1 DEF Shutdown, Known, AskGone, Gone, RegCritical, RegSettled
  <2>22. CASE Crash(n)
    BY <2>22, <1>1 DEF Crash, Known, AskGone, Gone, RegCritical, RegSettled
  <2>23. QED
    BY <1>3, <2>1, <2>2, <2>3, <2>4, <2>5, <2>6, <2>7, <2>8, <2>9, <2>10, <2>11, <2>12, <2>13, <2>14, <2>15, <2>16, <2>17, <2>18, <2>19, <2>20, <2>21, <2>22 DEF NodeStep, JobStep, SweepStep
<1>4. CASE LockExpire \/ Tick
  BY <1>4 DEF LockExpire, Tick, Known, AskGone, Gone
<1>5. CASE UNCHANGED vars
  BY <1>5 DEF vars, Known, AskGone, Gone
<1>6. QED BY <1>2, <1>3, <1>4, <1>5 DEF Next

\* Jobs join a node's queue at its end and leave it from its head, only JobClear
\* begins a deletion, and the deletion compares the record with the job.
LEMMA QueueStep ==
  ASSUME TypeOK, [Next]_vars, NEW m \in Node
  PROVE  /\ QueueMoves(m)
         /\ job'[m] = "delete" =>
              \/ job[m] = "delete"
              \/ HeadIs(m, {"end", "disc"}) /\ queue'[m] = queue[m]
         /\ job[m] = "delete" /\ job'[m] # "delete" /\ record # None =>
              record' = record \/ record = Worker(m)
<1>. USE DEF redis, memory, sockets, used
<1> DEFINE Goal == /\ QueueMoves(m)
                   /\ job'[m] = "delete" =>
                        \/ job[m] = "delete"
                        \/ HeadIs(m, {"end", "disc"}) /\ queue'[m] = queue[m]
                   /\ job[m] = "delete" /\ job'[m] # "delete" /\ record # None =>
                        record' = record \/ record = Worker(m)
<1>1. /\ queue \in [Node -> Seq(Job)] /\ NodeOf \in [Sock -> Node]
      /\ job \in [Node -> {"idle", "locked", "checked", "delete", "release"}]
  BY Places DEF TypeOK
<1>2. ASSUME NEW k \in Kinds, NEW s \in Sock, NEW n \in Node, Enqueue(n, k, s), job' = job,
             k = "disc" => <<"disc", s>> \in asking
      PROVE  Goal
  <2> DEFINE j == [kind |-> k, sock |-> s]
  <2>1. j \in Job /\ j.kind = k /\ j.sock = s
    BY DEF Job
  <2>2. queue' = [queue EXCEPT ![n] = Append(@, j)]
    BY <1>2 DEF Enqueue
  <2> HIDE DEF j
  <2>3. queue'[m] = queue[m] \/ queue'[m] = Append(queue[m], j)
    BY <1>1, <2>2
  <2>4. QED BY <1>2, <2>1, <2>3 DEF QueueMoves
<1>3. ASSUME NEW n \in Node, JobDone(n), queue[n] # <<>>, record' = record PROVE Goal
  BY <1>1, <1>3 DEF JobDone, QueueMoves
<1>4. ASSUME NEW s \in Sock, SockStep(s) PROVE Goal
  <2>1. CASE \/ Connect(s) \/ RegAcquire(s) \/ RegTimeout(s) \/ RegRead(s) \/ RegClear(s)
             \/ RegDelete(s) \/ RegWrite(s) \/ RegAttach(s) \/ RegRelease(s) \/ RegBind(s)
             \/ RegThrow(s) \/ RegReleaseFails(s) \/ EndRequest(s) \/ Disconnect(s)
    BY <2>1 DEF Connect, RegAcquire, RegTimeout, RegRead, RegClear, RegDelete, RegWrite,
         RegAttach, RegRelease, RegBind, RegThrow, RegReleaseFails, EndRequest, Disconnect, QueueMoves
  <2>2. CASE RegReset(s)
    BY <1>1, <1>2, <2>2 DEF RegReset, Enqueue, Kinds
  <2>3. CASE EventArrive(s)
    BY <1>1, <1>2, <2>3 DEF EventArrive, Kinds
  <2>4. ASSUME NEW k \in {"end", "disc"}, TokenAnswer(k, s) \/ TokenFails(k, s) PROVE Goal
    <3>1. job' = job /\ (UNCHANGED queue \/ (Enqueue(NodeOf[s], k, s) /\ <<k, s>> \in asking))
      BY <2>4 DEF TokenAnswer, TokenFails
    <3>2. QED BY <1>1, <1>2, <3>1 DEF Kinds, QueueMoves
  <2>5. QED BY <1>4, <2>1, <2>2, <2>3, <2>4 DEF SockStep, RegStep
<1>5. ASSUME NEW n \in Node, NodeStep(n) PROVE Goal
  <2>1. CASE \/ JobAcquire(n) \/ JobCheck(n) \/ EventApply(n) \/ JobDelete(n) \/ SweepExpired(n)
             \/ SweepScan(n) \/ SweepCount(n) \/ SweepRecheck(n) \/ SweepAcquire(n) \/ SweepTimeout(n)
             \/ SweepClear(n) \/ SweepDelete(n) \/ SweepRelease(n) \/ SweepThrow(n) \/ CleanupChild(n)
             \/ Shutdown(n)
    BY <1>1, <2>1 DEF JobAcquire, JobCheck, EventApply, JobDelete, SweepExpired, SweepScan, SweepCount,
         SweepRecheck, SweepAcquire, SweepTimeout, SweepClear, SweepDelete, SweepRelease, SweepThrow,
         CleanupChild, Shutdown, QueueMoves
  <2>2. CASE ResetJob(n) \/ JobTimeout(n) \/ JobRelease(n)
    BY <1>3, <2>2 DEF ResetJob, JobTimeout, JobRelease, HeadIs, TypeOK
  <2>3. CASE JobClear(n)
    BY <1>1, <2>3 DEF JobClear, QueueMoves, HeadIs
  <2>4. CASE JobThrow(n)
    <3>1. CASE job[n] = "release"
      BY <1>3, <2>4, <3>1 DEF JobThrow, TypeOK
    <3>2. CASE job[n] # "release"
      BY <1>1, <2>4, <3>2 DEF JobThrow, QueueMoves
    <3>3. QED BY <3>1, <3>2
  <2>5. CASE Crash(n)
    BY <1>1, <2>5 DEF Crash, QueueMoves
  <2>6. QED BY <1>5, <2>1, <2>2, <2>3, <2>4, <2>5 DEF NodeStep, JobStep, SweepStep
<1>6. CASE LockExpire \/ Tick
  BY <1>6 DEF LockExpire, Tick, QueueMoves
<1>7. CASE UNCHANGED vars
  BY <1>7 DEF vars, QueueMoves
<1>8. QED BY <1>4, <1>5, <1>6, <1>7 DEF Next

\* Every step keeps queued teardowns to the sockets that queued them.
LEMMA TeardownStep ==
  ASSUME TypeOK, TeardownInv, [Next]_vars PROVE TeardownInv'
<1> DEFINE G(s) == s \notin conn' /\ reg'[s] # "idle"
<1>1. (\A s \in Sock : Gone(s) => G(s)) /\ Known' /\ AskGone'
  BY GoneStep DEF TeardownInv, Gone
<1>2. queue \in [Node -> Seq(Job)]
  BY DEF TypeOK
<1>3. \A j \in Job : j.sock \in Sock
  BY DEF Job
<1>4. ASSUME NEW m \in Node PROVE QueueGone(queue[m])'
  <2> DEFINE q == queue[m]
             p == queue'[m]
  <2>1. q \in Seq(Job) /\ QueueGone(q) /\ Len(q) \in Nat
    BY <1>2 DEF TeardownInv
  <2>2. \A i \in 1..Len(q) : q[i].kind = "disc" => G(q[i].sock)
    <3> SUFFICES ASSUME NEW i \in 1..Len(q), q[i].kind = "disc" PROVE G(q[i].sock)
      OBVIOUS
    <3>1. q[i] \in Job
      BY <2>1, ElementOfSeq
    <3>2. QED BY <1>1, <1>3, <2>1, <3>1 DEF QueueGone
  <2> SUFFICES ASSUME NEW i \in 1..Len(p), p[i].kind = "disc" PROVE G(p[i].sock)
    BY DEF QueueGone, Gone
  <2>3. \/ p = q \/ p = <<>> \/ (q # <<>> /\ p = Tail(q))
        \/ \E j \in Job : p = Append(q, j) /\ (j.kind = "disc" => <<"disc", j.sock>> \in asking)
    BY QueueStep DEF QueueMoves
  <2>4. CASE p = q
    BY <2>2, <2>4
  <2>5. CASE p = <<>>
    BY <2>5
  <2>6. CASE q # <<>> /\ p = Tail(q)
    <3>1. i + 1 \in 1..Len(q) /\ p[i] = q[i + 1]
      BY <2>1, <2>6, HeadTailProperties
    <3>2. QED BY <2>2, <3>1
  <2>7. ASSUME NEW j \in Job, p = Append(q, j), j.kind = "disc" => <<"disc", j.sock>> \in asking
        PROVE  G(p[i].sock)
    <3>1. (i \in 1..Len(q) /\ p[i] = q[i]) \/ p[i] = j
      BY <2>1, <2>7, AppendProperties
    <3>2. j.kind = "disc" => Gone(j.sock) /\ j.sock \in Sock
      BY <1>3, <2>7 DEF TeardownInv, AskGone
    <3>3. QED BY <1>1, <2>2, <3>1, <3>2
  <2>8. QED BY <2>3, <2>4, <2>5, <2>6, <2>7
<1>5. ASSUME NEW m \in Node, job'[m] = "delete"
      PROVE  Head(queue'[m]).kind \in {"end", "disc"}
  <2>1. \/ job[m] = "delete"
        \/ HeadIs(m, {"end", "disc"}) /\ queue'[m] = queue[m]
    BY <1>5, QueueStep
  <2>2. CASE job[m] = "delete"
    <3>1. queue[m] # <<>> /\ Head(queue[m]).kind \in {"end", "disc"}
      BY <2>2 DEF TypeOK, TeardownInv, TeardownKind
    <3>2. queue'[m] = queue[m] \/ \E j \in Job : queue'[m] = Append(queue[m], j)
      BY <1>5, QueueStep DEF QueueMoves
    <3>3. Head(queue'[m]) = Head(queue[m])
      BY <1>2, <3>1, <3>2
    <3>4. QED BY <3>1, <3>3
  <2>3. QED BY <2>1, <2>2 DEF HeadIs
<1>6. QED BY <1>1, <1>4, <1>5 DEF TeardownInv, TeardownKind

\* A queued teardown deletes the record of the socket it was queued for and of
\* no other, and of one that is still connected only at its own session_end: a
\* disconnect's teardown never ends a session that has reconnected since, even
\* if the lease ran out under the job (deleteSessionIfOwner compares the token
\* in the very step that deletes).
THEOREM TeardownOfOwner == Spec => NoStaleTeardown
<1> DEFINE Act ==
      \A n \in Node :
        job[n] = "delete" /\ job'[n] # "delete" /\ record # None /\ record' = None
          => \/ record = Worker(n) /\ (record \in conn => HeadIs(n, {"end"}))
             \/ queue'[n] = <<>>
<1>1. Init => TeardownInv
  BY DEF Init, TeardownInv, Known, AskGone, TeardownKind, QueueGone
<1>2. TypeOK /\ TeardownInv /\ [Next]_vars => Act
  <2> SUFFICES ASSUME TypeOK, TeardownInv, [Next]_vars,
                      NEW n \in Node, job[n] = "delete", job'[n] # "delete",
                      record # None, record' = None
               PROVE  record = Worker(n) /\ (record \in conn => HeadIs(n, {"end"}))
    OBVIOUS
  <2>1. record = Worker(n)
    BY QueueStep
  <2>2. queue[n] # <<>> /\ queue[n] \in Seq(Job) /\ Head(queue[n]).kind \in {"end", "disc"}
    BY DEF TypeOK, TeardownInv, TeardownKind
  <2>3. Len(queue[n]) \in Nat /\ Len(queue[n]) # 0 /\ Head(queue[n]) = queue[n][1]
    BY <2>2, EmptySeq, LenProperties
  <2>4. Head(queue[n]).kind = "disc" => Gone(Worker(n))
    BY <2>3 DEF TeardownInv, QueueGone, Worker
  <2>5. QED BY <2>1, <2>2, <2>4 DEF HeadIs, Gone
<1>3. NoStaleTeardown <=> [][Act]_vars
  BY DEF NoStaleTeardown
<1>4. QED BY <1>1, <1>2, <1>3, TeardownStep, TypeCorrect, PTL DEF Spec
=============================================================================
