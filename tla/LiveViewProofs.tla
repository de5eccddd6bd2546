---------------------------- MODULE LiveViewProofs ----------------------------
(***************************************************************************)
(* Proofs about LiveView, for any number of tasks, locks, processes,       *)
(* connections and users: types, who holds and who waits for which lock,   *)
(* one task at a time, who has the process, whose viewers are counted.     *)
(***************************************************************************)
EXTENDS LiveView, SequenceTheorems, FiniteSetTheorems, TLAPS

-----------------------------------------------------------------------------
(* Locks and tasks *)

\* A task that has a lock works with it or has just been given it.
Active(t) == Working(t) \/ task[t].at = "granted"

\* A lock that is owned is that of its owner, who is active, and the other way round.
OwnersAreActive ==
  /\ \A l \in Lock : owner[l] # NoTask => Active(owner[l]) /\ task[owner[l]].lock = l
  /\ \A t \in Task : Active(t) => task[t].lock \in Lock /\ owner[task[t].lock] = t

\* The queue of a lock has the tasks that wait for it, each once, and the lock has an owner.
QueuesAreServed ==
  /\ \A l \in Lock : waiting[l] # <<>> => owner[l] # NoTask
  /\ \A l \in Lock : \A i \in DOMAIN waiting[l] :
       task[waiting[l][i]].at = "waiting" /\ task[waiting[l][i]].lock = l
  /\ \A l \in Lock : \A i, j \in DOMAIN waiting[l] : waiting[l][i] = waiting[l][j] => i = j
  /\ \A t \in Task : task[t].at = "waiting" =>
       /\ task[t].lock \in Lock
       /\ \E i \in DOMAIN waiting[task[t].lock] : waiting[task[t].lock][i] = t

Locking == OwnersAreActive /\ QueuesAreServed

\* What task t may take or give back: it does not wait, and has no lock but l.
Mine(t, l) ==
  /\ task[t].at # "waiting"
  /\ \A k \in Lock : owner[k] = t => k = l
  /\ owner[l] = t \/ ~InUse(l)

\* What the type invariant says of a queue.
LEMMA Queue ==
  ASSUME TypeOK, NEW l \in Lock
  PROVE  /\ waiting[l] \in Seq(Task) /\ Len(waiting[l]) \in Nat
         /\ DOMAIN waiting[l] = 1..Len(waiting[l])
         /\ \A i \in DOMAIN waiting[l] : waiting[l][i] \in Task
         /\ owner[l] \in Task \cup {NoTask}
<1>1. waiting[l] \in Seq(Task) /\ owner[l] \in Task \cup {NoTask}
  BY DEF TypeOK
<1>2. Len(waiting[l]) \in Nat /\ DOMAIN waiting[l] = 1..Len(waiting[l])
  BY <1>1, LenProperties
<1> QED
  BY <1>1, <1>2, ElementOfSeq

\* An active task may go on with its lock.
LEMMA ActiveIsMine ==
  ASSUME TypeOK, Locking, NEW t \in Task, Active(t)
  PROVE  task[t].lock \in Lock /\ Mine(t, task[t].lock)
<1>1. task[t].lock \in Lock /\ owner[task[t].lock] = t
  BY DEF Locking, OwnersAreActive
<1>2. \A k \in Lock : owner[k] = t => k = task[t].lock
  BY ConstantsOK DEF Locking, OwnersAreActive
<1>3. task[t].at # "waiting"
  BY DEF Active, Working
<1> QED
  BY <1>1, <1>2, <1>3 DEF Mine

\* A task that has none yet may take a lock that is not in use.
LEMMA FreeIsMine ==
  ASSUME TypeOK, Locking, NEW t \in Task, task[t].at \in {"rest", "created"},
         NEW l \in Lock, ~InUse(l)
  PROVE  Mine(t, l)
<1>1. ~Active(t)
  BY DEF Active, Working
<1>2. \A k \in Lock : owner[k] # t
  BY <1>1, ConstantsOK DEF Locking, OwnersAreActive
<1> QED
  BY <1>2 DEF Mine

\* There are as many locks as tasks, so a task without one finds one that is not in use.
LEMMA LockToCreate ==
  ASSUME TypeOK, Locking, NEW t \in Task, task[t].at \in {"rest", "created"}
  PROVE  New \in Lock /\ ~InUse(New)
<1>1. \E l \in Lock : ~InUse(l)
  <2> SUFFICES ASSUME \A l \in Lock : InUse(l) PROVE FALSE
    OBVIOUS
  <2>1. \A l \in Lock : owner[l] \in Task \ {t}
    <3>1. \A l \in Lock : owner[l] # NoTask
      BY DEF InUse, Locking, QueuesAreServed
    <3>2. \A l \in Lock : owner[l] # t
      <4>1. ~Active(t)
        BY DEF Active, Working
      <4> QED
        BY <3>1, <4>1 DEF Locking, OwnersAreActive
    <3> QED
      BY <3>1, <3>2, Queue
  <2>2. \A k, l \in Lock : owner[k] = owner[l] => k = l
    BY <2>1, ConstantsOK DEF Locking, OwnersAreActive
  <2>3. owner \in [Lock -> Task \ {t}]
    BY <2>1 DEF TypeOK
  <2>4. IsFiniteSet(Task) /\ IsFiniteSet(Task \ {t})
        /\ Cardinality(Task \ {t}) = Cardinality(Task) - 1
    BY ConstantsOK, FS_RemoveElement
  <2>5. owner \in Injection(Lock, Task \ {t})
    BY <2>2, <2>3 DEF Injection, IsInjective
  <2>6. Cardinality(Lock) <= Cardinality(Task \ {t})
    BY <2>4, <2>5, FS_Injection
  <2>7. Cardinality(Task) \in Nat /\ Cardinality(Lock) \in Nat
    BY ConstantsOK, FS_CardinalityType
  <2> QED
    BY <2>4, <2>6, <2>7, ConstantsOK
<1> QED
  BY <1>1 DEF New

\* The part of the type invariant that is about locks and tasks.
LockTypes ==
  /\ owner \in [Lock -> Task \cup {NoTask}]
  /\ waiting \in [Lock -> Seq(Task)]
  /\ task \in [Task -> Tasks]
  /\ \A t \in Task : task[t].at \in {"launched", "stopping"} <=> task[t].proc \in Proc

LEMMA RestIsTask == Rest \in Tasks /\ Rest.at = "rest" /\ Rest.proc = NoProc /\ Rest.lock = NoLock
BY DEF Rest, Tasks, Places

LEMMA AtIsTask ==
  ASSUME NEW o \in {"none", "start", "stop"}, NEW a \in Places,
         NEW l \in Lock \cup {NoLock}, NEW p \in Proc \cup {NoProc}
  PROVE  /\ At(o, a, l, p) \in Tasks
         /\ At(o, a, l, p).op = o /\ At(o, a, l, p).at = a
         /\ At(o, a, l, p).lock = l /\ At(o, a, l, p).proc = p
BY DEF At, Tasks

\* A task goes on with its lock.
LEMMA Holding ==
  ASSUME TypeOK, Locking, NEW t \in Task, NEW l \in Lock, Mine(t, l),
         NEW j \in Tasks, j.lock = l, j.at \in {"launching", "launched", "stopping", "removing"},
         j.at \in {"launched", "stopping"} <=> j.proc \in Proc,
         Hold(t, l, j)
  PROVE  /\ Locking' /\ LockTypes'
         /\ \A k \in Lock : InUse(k)' => InUse(k) \/ k = l
         /\ task'[t] = j /\ \A s \in Task : s # t => task'[s] = task[s]
<1>0. owner' = [owner EXCEPT ![l] = t] /\ task' = [task EXCEPT ![t] = j] /\ waiting' = waiting
  BY DEF Hold
<1>1. LockTypes'
  BY <1>0 DEF TypeOK, LockTypes
<1>2. /\ task'[t] = j /\ \A s \in Task : s # t => task'[s] = task[s]
      /\ owner'[l] = t /\ \A k \in Lock : k # l => owner'[k] = owner[k]
  BY <1>0 DEF TypeOK
<1>3. \A k \in Lock : InUse(k)' => InUse(k) \/ k = l
  BY <1>0, <1>2 DEF InUse
<1>4. Active(t)' /\ \A s \in Task : s # t => (Active(s)' <=> Active(s))
  BY <1>2 DEF Active, Working
<1>5. OwnersAreActive'
  <2>1. ASSUME NEW k \in Lock, owner'[k] # NoTask
        PROVE  Active(owner[k])' /\ task'[owner'[k]].lock = k
    <3>1. CASE k = l
      BY <1>2, <1>4, <3>1
    <3>2. CASE k # l
      <4>1. owner'[k] = owner[k] /\ owner[k] \in Task /\ owner[k] # t
        BY <1>2, <2>1, <3>2, Queue DEF Mine
      <4>2. Active(owner[k]) /\ task[owner[k]].lock = k
        BY <2>1, <4>1 DEF Locking, OwnersAreActive
      <4> QED
        BY <1>2, <4>1, <4>2 DEF Active, Working
    <3> QED
      BY <3>1, <3>2
  <2>2. ASSUME NEW s \in Task, Active(s)'
        PROVE  task'[s].lock \in Lock /\ owner'[task'[s].lock] = s
    <3>1. CASE s = t
      BY <1>2, <3>1
    <3>2. CASE s # t
      <4>1. task[s].lock \in Lock /\ owner[task[s].lock] = s /\ task'[s] = task[s]
        BY <1>2, <1>4, <2>2, <3>2 DEF Locking, OwnersAreActive
      <4>2. task[s].lock # l
        <5>1. s # NoTask
          BY ConstantsOK
        <5> QED
          BY <3>2, <4>1, <5>1 DEF Mine, InUse
      <4> QED
        BY <1>2, <4>1, <4>2
    <3> QED
      BY <3>1, <3>2
  <2> QED
    BY <2>1, <2>2 DEF OwnersAreActive
<1>6. QueuesAreServed'
  <2>1. \A k \in Lock : waiting'[k] # <<>> => owner'[k] # NoTask
    BY <1>0, <1>2, ConstantsOK DEF Locking, QueuesAreServed
  <2>2. ASSUME NEW k \in Lock, NEW i \in DOMAIN waiting'[k]
        PROVE  task'[waiting'[k][i]].at = "waiting" /\ task'[waiting'[k][i]].lock = k
    <3>1. /\ waiting[k][i] \in Task /\ task[waiting[k][i]].at = "waiting"
          /\ task[waiting[k][i]].lock = k
      BY <1>0, <2>2, Queue DEF Locking, QueuesAreServed
    <3>2. waiting[k][i] # t
      BY <3>1 DEF Mine
    <3> QED
      BY <1>0, <1>2, <3>1, <3>2
  <2>3. \A k \in Lock : \A i, i1 \in DOMAIN waiting'[k] : waiting'[k][i] = waiting'[k][i1] => i = i1
    BY <1>0 DEF Locking, QueuesAreServed
  <2>4. ASSUME NEW s \in Task, task'[s].at = "waiting"
        PROVE  /\ task'[s].lock \in Lock
               /\ \E i \in DOMAIN waiting'[task'[s].lock] : waiting'[task'[s].lock][i] = s
    <3>1. s # t /\ task'[s] = task[s]
      BY <1>2, <2>4
    <3> QED
      BY <1>0, <2>4, <3>1 DEF Locking, QueuesAreServed
  <2> QED
    BY <2>1, <2>2, <2>3, <2>4 DEF QueuesAreServed
<1> QED
  BY <1>1, <1>2, <1>3, <1>5, <1>6 DEF Locking

\* What becomes of the others when a task leaves the block: at most one is given its lock.
Woken(s) ==
  task[s].at = "waiting" /\ task'[s].at = "granted" /\ task'[s].proc = NoProc

\* A task gives its lock back; the first that waits for it gets it.
LEMMA Leaving ==
  ASSUME TypeOK, Locking, NEW t \in Task, NEW l \in Lock, Mine(t, l), Leave(t, l)
  PROVE  /\ Locking' /\ LockTypes'
         /\ \A k \in Lock : InUse(k)' => InUse(k)
         /\ task'[t] = Rest
         /\ \A s \in Task : s # t => task'[s] = task[s] \/ Woken(s)
<1>0. Rest \in Tasks /\ Rest.at = "rest" /\ Rest.proc = NoProc /\ NoProc \notin Proc
      /\ NoTask \notin Task
  BY RestIsTask, ConstantsOK
<1>1. CASE waiting[l] = <<>>
  <2>0. owner' = [owner EXCEPT ![l] = NoTask] /\ task' = [task EXCEPT ![t] = Rest]
        /\ waiting' = waiting
    BY <1>1 DEF Leave
  <2>1. LockTypes'
    BY <1>0, <2>0 DEF TypeOK, LockTypes
  <2>2. /\ task'[t] = Rest /\ \A s \in Task : s # t => task'[s] = task[s]
        /\ owner'[l] = NoTask /\ \A k \in Lock : k # l => owner'[k] = owner[k]
    BY <2>0 DEF TypeOK
  <2>3. \A k \in Lock : InUse(k)' => InUse(k)
    BY <2>0, <2>2 DEF InUse
  <2>4. ~Active(t)' /\ \A s \in Task : s # t => (Active(s)' <=> Active(s))
    BY <1>0, <2>2 DEF Active, Working
  <2>5. ASSUME NEW k \in Lock, owner'[k] # NoTask
        PROVE  Active(owner[k])' /\ task'[owner'[k]].lock = k
    <3>1. k # l /\ owner'[k] = owner[k] /\ owner[k] \in Task /\ owner[k] # t
      BY <2>2, <2>5, Queue DEF Mine
    <3>2. Active(owner[k]) /\ task[owner[k]].lock = k
      BY <2>5, <3>1 DEF Locking, OwnersAreActive
    <3> QED
      BY <2>2, <3>1, <3>2 DEF Active, Working
  <2>6. ASSUME NEW s \in Task, Active(s)'
        PROVE  task'[s].lock \in Lock /\ owner'[task'[s].lock] = s
    <3>1. s # t /\ task'[s] = task[s]
      BY <2>2, <2>4, <2>6
    <3>2. task[s].lock \in Lock /\ owner[task[s].lock] = s
      BY <2>4, <2>6, <3>1 DEF Locking, OwnersAreActive
    <3>3. task[s].lock # l
      BY <1>0, <3>1, <3>2 DEF Mine, InUse
    <3> QED
      BY <2>2, <3>1, <3>2, <3>3
  <2>7. \A k \in Lock : waiting'[k] # <<>> => owner'[k] # NoTask
    BY <1>1, <2>0, <2>2 DEF Locking, QueuesAreServed
  <2>8. ASSUME NEW k \in Lock, NEW i \in DOMAIN waiting'[k]
        PROVE  task'[waiting'[k][i]].at = "waiting" /\ task'[waiting'[k][i]].lock = k
    <3>1. /\ waiting[k][i] \in Task /\ task[waiting[k][i]].at = "waiting"
          /\ task[waiting[k][i]].lock = k
      BY <2>0, <2>8, Queue DEF Locking, QueuesAreServed
    <3>2. waiting[k][i] # t
      BY <3>1 DEF Mine
    <3> QED
      BY <2>0, <2>2, <3>1, <3>2
  <2>9. \A k \in Lock : \A i, j \in DOMAIN waiting'[k] : waiting'[k][i] = waiting'[k][j] => i = j
    BY <2>0 DEF Locking, QueuesAreServed
  <2>10. ASSUME NEW s \in Task, task'[s].at = "waiting"
         PROVE  /\ task'[s].lock \in Lock
                /\ \E i \in DOMAIN waiting'[task'[s].lock] : waiting'[task'[s].lock][i] = s
    <3>1. s # t /\ task'[s] = task[s]
      BY <1>0, <2>2, <2>10
    <3> QED
      BY <2>0, <2>10, <3>1 DEF Locking, QueuesAreServed
  <2>11. OwnersAreActive' /\ QueuesAreServed'
    BY <2>5, <2>6, <2>7, <2>8, <2>9, <2>10 DEF OwnersAreActive, QueuesAreServed
  <2> QED
    BY <2>1, <2>2, <2>3, <2>11 DEF Locking
<1>2. CASE waiting[l] # <<>>
  <2>n. PICK n \in Task : n = Head(waiting[l])
    BY <1>2, Queue, HeadTailProperties
  <2>j. PICK j \in Tasks : /\ j = At(task[n].op, "granted", l, NoProc)
                           /\ j.at = "granted" /\ j.lock = l /\ j.proc = NoProc
    <3>1. task[n].op \in {"none", "start", "stop"}
      BY DEF TypeOK, Tasks
    <3> QED
      BY <3>1, AtIsTask DEF Places
  <2>0. /\ owner' = [owner EXCEPT ![l] = n]
        /\ waiting' = [waiting EXCEPT ![l] = Tail(waiting[l])]
        /\ task' = [task EXCEPT ![t] = Rest, ![n] = j]
    BY <1>2, <2>n, <2>j DEF Leave
  <2>1. /\ n \in Task /\ n = waiting[l][1] /\ 1 \in DOMAIN waiting[l]
        /\ Tail(waiting[l]) \in Seq(Task) /\ Len(Tail(waiting[l])) = Len(waiting[l]) - 1
        /\ \A i \in 1..Len(Tail(waiting[l])) : Tail(waiting[l])[i] = waiting[l][i + 1]
        /\ DOMAIN Tail(waiting[l]) = 1..Len(Tail(waiting[l]))
    <3>1. /\ Tail(waiting[l]) \in Seq(Task) /\ Len(Tail(waiting[l])) = Len(waiting[l]) - 1
          /\ \A i \in 1..Len(Tail(waiting[l])) : Tail(waiting[l])[i] = waiting[l][i + 1]
      BY <1>2, Queue, HeadTailProperties
    <3>2. Len(waiting[l]) \in Nat \ {0} /\ DOMAIN waiting[l] = 1..Len(waiting[l])
      BY <1>2, Queue, EmptySeq
    <3>3. n = waiting[l][1]
      BY <1>2, <2>n, Queue
    <3>4. DOMAIN Tail(waiting[l]) = 1..Len(Tail(waiting[l]))
      BY <3>1, LenProperties
    <3> QED
      BY <3>1, <3>2, <3>3, <3>4
  <2>2. task[n].at = "waiting" /\ task[n].lock = l /\ n # t
    BY <2>1 DEF Locking, QueuesAreServed, Mine
  <2>3. j.at = "granted" /\ j.lock = l /\ j.proc = NoProc
    BY <2>j
  <2>4. owner[l] = t
    BY <1>2 DEF Mine, InUse
  <2>5. LockTypes'
    BY <1>0, <2>0, <2>1, <2>2, <2>3 DEF TypeOK, LockTypes
  <2>6. /\ task'[t] = Rest /\ task'[n] = j
        /\ \A s \in Task : s # t /\ s # n => task'[s] = task[s]
        /\ owner'[l] = n /\ \A k \in Lock : k # l => owner'[k] = owner[k]
        /\ waiting'[l] = Tail(waiting[l]) /\ \A k \in Lock : k # l => waiting'[k] = waiting[k]
    BY <2>0, <2>1, <2>2 DEF TypeOK
  <2>7. \A k \in Lock : InUse(k)' => InUse(k)
    BY <1>2, <2>6 DEF InUse
  <2>8. ~Active(t)' /\ Active(n)'
        /\ \A s \in Task : s # t /\ s # n => (Active(s)' <=> Active(s))
    BY <1>0, <2>3, <2>6 DEF Active, Working
  <2>9. ASSUME NEW k \in Lock, owner'[k] # NoTask
        PROVE  Active(owner[k])' /\ task'[owner'[k]].lock = k
    <3>1. CASE k = l
      BY <2>3, <2>6, <2>8, <3>1
    <3>2. CASE k # l
      <4>1. owner'[k] = owner[k] /\ owner[k] \in Task /\ owner[k] # t
        BY <2>6, <2>9, <3>2, Queue DEF Mine
      <4>2. Active(owner[k]) /\ task[owner[k]].lock = k
        BY <2>9, <4>1 DEF Locking, OwnersAreActive
      <4>3. owner[k] # n
        BY <2>2, <3>2, <4>2
      <4> QED
        BY <2>6, <4>1, <4>2, <4>3 DEF Active, Working
    <3> QED
      BY <3>1, <3>2
  <2>10. ASSUME NEW s \in Task, Active(s)'
         PROVE  task'[s].lock \in Lock /\ owner'[task'[s].lock] = s
    <3>1. s # t
      BY <2>8, <2>10
    <3>2. CASE s = n
      BY <2>3, <2>6, <3>2
    <3>3. CASE s # n
      <4>1. task'[s] = task[s] /\ task[s].lock \in Lock /\ owner[task[s].lock] = s
        BY <2>6, <2>8, <2>10, <3>1, <3>3 DEF Locking, OwnersAreActive
      <4>2. task[s].lock # l
        BY <2>4, <3>1, <4>1
      <4> QED
        BY <2>6, <4>1, <4>2
    <3> QED
      BY <3>2, <3>3
  <2>11. \A k \in Lock : waiting'[k] # <<>> => owner'[k] # NoTask
    BY <1>0, <2>1, <2>6 DEF Locking, QueuesAreServed
  <2>12. \A i \in DOMAIN waiting'[l] :
           i + 1 \in DOMAIN waiting[l] /\ waiting'[l][i] = waiting[l][i + 1] /\ i + 1 # 1
    BY <2>1, <2>6, Queue
  <2>13. \A k \in Lock : \A i \in DOMAIN waiting'[k] :
           \E m \in DOMAIN waiting[k] : waiting'[k][i] = waiting[k][m] /\ (k = l => m # 1)
    <3> SUFFICES ASSUME NEW k \in Lock, NEW i \in DOMAIN waiting'[k]
                 PROVE  \E m \in DOMAIN waiting[k] :
                          waiting'[k][i] = waiting[k][m] /\ (k = l => m # 1)
      OBVIOUS
    <3>1. CASE k = l
      <4>1. i \in DOMAIN waiting'[l]
        BY <3>1
      <4>2. i + 1 \in DOMAIN waiting[l] /\ waiting'[l][i] = waiting[l][i + 1] /\ i + 1 # 1
        BY <2>12, <4>1
      <4> QED
        BY <3>1, <4>2
    <3>2. CASE k # l
      <4>1. waiting'[k] = waiting[k]
        BY <2>6, <3>2
      <4> QED
        BY <3>2, <4>1
    <3> QED
      BY <3>1, <3>2
  <2>14. ASSUME NEW k \in Lock, NEW i \in DOMAIN waiting'[k]
         PROVE  task'[waiting'[k][i]].at = "waiting" /\ task'[waiting'[k][i]].lock = k
    <3>1. \E m \in DOMAIN waiting[k] : waiting'[k][i] = waiting[k][m] /\ (k = l => m # 1)
      BY <2>14, <2>13
    <3>2. PICK m \in DOMAIN waiting[k] : waiting'[k][i] = waiting[k][m] /\ (k = l => m # 1)
      BY <3>1
    <3>3. /\ waiting[k][m] \in Task /\ task[waiting[k][m]].at = "waiting"
          /\ task[waiting[k][m]].lock = k
      BY <3>2, Queue DEF Locking, QueuesAreServed
    <3>4. waiting[k][m] # t
      BY <3>3 DEF Mine
    <3>5. waiting[k][m] # n
      BY <2>1, <2>2, <3>2, <3>3 DEF Locking, QueuesAreServed
    <3> QED
      BY <2>6, <3>2, <3>3, <3>4, <3>5
  <2>15. ASSUME NEW k \in Lock, NEW i \in DOMAIN waiting'[k], NEW m \in DOMAIN waiting'[k],
                waiting'[k][i] = waiting'[k][m]
         PROVE  i = m
    <3>1. CASE k = l
      <4>1. i + 1 = m + 1
        BY <2>12, <2>15, <3>1 DEF Locking, QueuesAreServed
      <4>2. DOMAIN waiting'[l] = 1..Len(Tail(waiting[l]))
        BY <2>1, <2>6
      <4>3. i \in Nat /\ m \in Nat
        BY <2>15, <3>1, <4>2
      <4> QED
        BY <4>1, <4>3
    <3>2. CASE k # l
      BY <2>6, <2>15, <3>2 DEF Locking, QueuesAreServed
    <3> QED
      BY <3>1, <3>2
  <2>16. ASSUME NEW s \in Task, task'[s].at = "waiting"
         PROVE  /\ task'[s].lock \in Lock
                /\ \E i \in DOMAIN waiting'[task'[s].lock] : waiting'[task'[s].lock][i] = s
    <3>1. s # t /\ s # n /\ task'[s] = task[s]
      BY <1>0, <2>3, <2>6, <2>16
    <3>2. PICK i \in DOMAIN waiting[task[s].lock] : waiting[task[s].lock][i] = s
      BY <2>16, <3>1 DEF Locking, QueuesAreServed
    <3>3. task[s].lock \in Lock
      BY <2>16, <3>1 DEF Locking, QueuesAreServed
    <3>4. CASE task[s].lock = l
      <4>1. i # 1 /\ i \in 1..Len(waiting[l])
        BY <2>1, <3>1, <3>2, <3>4, Queue
      <4>2. i - 1 \in 1..Len(Tail(waiting[l])) /\ (i - 1) + 1 = i
        BY <2>1, <4>1, Queue
      <4>3. waiting'[l][i - 1] = s /\ i - 1 \in DOMAIN waiting'[l]
        BY <2>1, <2>6, <3>2, <3>4, <4>2
      <4> QED
        BY <3>1, <3>3, <3>4, <4>3
    <3>5. CASE task[s].lock # l
      BY <2>6, <3>1, <3>2, <3>3, <3>5
    <3> QED
      BY <3>4, <3>5
  <2>17. OwnersAreActive' /\ QueuesAreServed'
    BY <2>9, <2>10, <2>11, <2>14, <2>15, <2>16 DEF OwnersAreActive, QueuesAreServed
  <2>18. \A s \in Task : s # t => task'[s] = task[s] \/ Woken(s)
    BY <2>2, <2>3, <2>6 DEF Woken
  <2> QED
    BY <2>5, <2>6, <2>7, <2>17, <2>18 DEF Locking
<1> QED
  BY <1>1, <1>2

\* A task joins the queue of a lock in use.
LEMMA Queueing ==
  ASSUME TypeOK, Locking, NEW t \in Task, task[t].at \in {"rest", "created"},
         NEW l \in Lock, InUse(l), NEW o \in {"start", "stop"},
         waiting' = [waiting EXCEPT ![l] = Append(waiting[l], t)],
         task' = [task EXCEPT ![t] = At(o, "waiting", l, NoProc)], owner' = owner
  PROVE  /\ Locking' /\ LockTypes' /\ \A k \in Lock : InUse(k)' => InUse(k)
         /\ task'[t].at = "waiting" /\ task'[t].proc = NoProc
         /\ \A s \in Task : s # t => task'[s] = task[s]
<1>j. PICK j \in Tasks : /\ j = At(o, "waiting", l, NoProc)
                         /\ j.at = "waiting" /\ j.lock = l /\ j.proc = NoProc
  BY AtIsTask DEF Places
<1>a. waiting[l] \in Seq(Task) /\ Len(waiting[l]) \in Nat
  BY Queue
<1>b. /\ Append(waiting[l], t) \in Seq(Task)
      /\ Len(Append(waiting[l], t)) = Len(waiting[l]) + 1
      /\ \A i \in 1..Len(waiting[l]) : Append(waiting[l], t)[i] = waiting[l][i]
      /\ Append(waiting[l], t)[Len(waiting[l]) + 1] = t
  BY <1>a, AppendProperties
<1>c. Append(waiting[l], t) # <<>>
  BY <1>a, AppendProperties
<1>q. PICK q \in Seq(Task) :
        /\ q = Append(waiting[l], t) /\ q # <<>> /\ Len(q) = Len(waiting[l]) + 1
        /\ \A i \in 1..Len(waiting[l]) : q[i] = waiting[l][i]
        /\ q[Len(waiting[l]) + 1] = t
  BY <1>b, <1>c, Zenon
<1>0. DOMAIN q = 1..Len(q) /\ NoProc \notin Proc /\ NoTask \notin Task
  BY LenProperties, ConstantsOK
<1>1. LockTypes'
  BY <1>j, <1>q, <1>0 DEF TypeOK, LockTypes
<1>2. /\ task'[t] = j /\ \A s \in Task : s # t => task'[s] = task[s]
      /\ waiting'[l] = q /\ \A k \in Lock : k # l => waiting'[k] = waiting[k]
  BY <1>j, <1>q DEF TypeOK
<1>3. \A k \in Lock : InUse(k)' => InUse(k)
  BY <1>2 DEF InUse
<1>4. ~Active(t) /\ ~Active(t)' /\ \A s \in Task : s # t => (Active(s)' <=> Active(s))
  BY <1>2, <1>j DEF Active, Working
<1>5. \A k \in Lock : owner[k] # t
  BY <1>0, <1>4 DEF Locking, OwnersAreActive
<1>6. OwnersAreActive'
  <2>1. ASSUME NEW k \in Lock, owner'[k] # NoTask
        PROVE  Active(owner[k])' /\ task'[owner'[k]].lock = k
    <3>1. owner[k] \in Task /\ owner[k] # t /\ Active(owner[k]) /\ task[owner[k]].lock = k
      BY <1>5, <2>1, Queue DEF Locking, OwnersAreActive
    <3> QED
      BY <1>2, <3>1 DEF Active, Working
  <2>2. \A s \in Task : Active(s)' => task'[s].lock \in Lock /\ owner'[task'[s].lock] = s
    BY <1>2, <1>4 DEF Locking, OwnersAreActive
  <2> QED
    BY <2>1, <2>2 DEF OwnersAreActive
<1>7. \A k \in Lock : waiting'[k] # <<>> => owner'[k] # NoTask
  BY <1>2 DEF Locking, QueuesAreServed, InUse
<1>8. ASSUME NEW i \in DOMAIN q
      PROVE  (i \in DOMAIN waiting[l] /\ q[i] = waiting[l][i]) \/ (i = Len(q) /\ q[i] = t)
  <2>1. i \in 1..Len(waiting[l]) \/ i = Len(waiting[l]) + 1
    BY <1>q, <1>0, Queue
  <2> QED
    BY <1>q, <2>1, Queue
<1>9. \A k \in Lock : \A i \in DOMAIN waiting[k] : waiting[k][i] # t /\ waiting[k][i] \in Task
  BY Queue DEF Locking, QueuesAreServed
<1>10. ASSUME NEW k \in Lock, NEW i \in DOMAIN waiting'[k]
       PROVE  task'[waiting'[k][i]].at = "waiting" /\ task'[waiting'[k][i]].lock = k
  <2>1. CASE i \in DOMAIN waiting[k] /\ waiting'[k][i] = waiting[k][i]
    BY <1>2, <1>9, <2>1 DEF Locking, QueuesAreServed
  <2>2. CASE k = l /\ waiting'[k][i] = t
    BY <1>2, <1>j, <2>2
  <2> QED
    BY <1>2, <1>8, <1>10, <2>1, <2>2
<1>11. ASSUME NEW k \in Lock, NEW i \in DOMAIN waiting'[k], NEW m \in DOMAIN waiting'[k],
              waiting'[k][i] = waiting'[k][m]
       PROVE  i = m
  <2>1. CASE k = l
    BY <1>2, <1>8, <1>9, <1>11, <2>1 DEF Locking, QueuesAreServed
  <2>2. CASE k # l
    BY <1>2, <1>11, <2>2 DEF Locking, QueuesAreServed
  <2> QED
    BY <2>1, <2>2
<1>12. ASSUME NEW s \in Task, task'[s].at = "waiting"
       PROVE  /\ task'[s].lock \in Lock
              /\ \E i \in DOMAIN waiting'[task'[s].lock] : waiting'[task'[s].lock][i] = s
  <2>1. CASE s = t
    <3>1. Len(q) \in DOMAIN q /\ q[Len(q)] = t
      BY <1>q, <1>0, Queue
    <3> QED
      BY <1>2, <1>j, <2>1, <3>1
  <2>2. CASE s # t
    <3>1. PICK i \in DOMAIN waiting[task[s].lock] : waiting[task[s].lock][i] = s
      BY <1>2, <1>12, <2>2 DEF Locking, QueuesAreServed
    <3>2. task'[s] = task[s] /\ task[s].lock \in Lock
      BY <1>2, <1>12, <2>2 DEF Locking, QueuesAreServed
    <3>3. CASE task[s].lock = l
      <4>1. i \in 1..Len(waiting[l]) /\ i \in DOMAIN q
        BY <1>q, <1>0, <3>1, <3>3, Queue
      <4>2. q[i] = s
        BY <1>q, <3>1, <3>3, <4>1
      <4> QED
        BY <1>2, <3>2, <3>3, <4>1, <4>2
    <3>4. CASE task[s].lock # l
      BY <1>2, <3>1, <3>2, <3>4
    <3> QED
      BY <3>3, <3>4
  <2> QED
    BY <2>1, <2>2
<1>13. QueuesAreServed'
  BY <1>7, <1>10, <1>11, <1>12 DEF QueuesAreServed
<1> QED
  BY <1>1, <1>2, <1>3, <1>6, <1>13, <1>j DEF Locking

\* A task is created, or nothing happens to tasks and locks.
LEMMA Creating ==
  ASSUME TypeOK, Locking, NEW t \in Task, task[t] = Rest, owner' = owner, waiting' = waiting,
         task' \in {task, [task EXCEPT ![t] = At("stop", "created", NoLock, NoProc)]}
  PROVE  /\ Locking' /\ LockTypes' /\ \A k \in Lock : InUse(k)' <=> InUse(k)
         /\ task'[t].at \in {"rest", "created"} /\ task'[t].proc = NoProc
         /\ \A s \in Task : s # t => task'[s] = task[s]
<1>j. PICK j \in Tasks : /\ j = At("stop", "created", NoLock, NoProc)
                         /\ j.at = "created" /\ j.lock = NoLock /\ j.proc = NoProc
  BY AtIsTask DEF Places
<1>0. NoProc \notin Proc /\ NoTask \notin Task /\ task[t].at = "rest" /\ task[t].proc = NoProc
  BY ConstantsOK, RestIsTask
<1>1. LockTypes'
  BY <1>j, <1>0 DEF TypeOK, LockTypes
<1>2. /\ task'[t].at \in {"rest", "created"} /\ task'[t].proc = NoProc
      /\ \A s \in Task : s # t => task'[s] = task[s]
  BY <1>j, <1>0 DEF TypeOK
<1>3. \A k \in Lock : InUse(k)' <=> InUse(k)
  BY DEF InUse
<1>4. ~Active(t) /\ ~Active(t)' /\ \A s \in Task : s # t => (Active(s)' <=> Active(s))
  BY <1>0, <1>2 DEF Active, Working
<1>5. ASSUME NEW k \in Lock, owner'[k] # NoTask
      PROVE  Active(owner[k])' /\ task'[owner'[k]].lock = k
  <2>1. owner[k] \in Task /\ Active(owner[k]) /\ task[owner[k]].lock = k
    BY <1>5, Queue DEF Locking, OwnersAreActive
  <2>2. owner[k] # t
    BY <1>4, <2>1
  <2> QED
    BY <1>2, <2>1, <2>2 DEF Active, Working
<1>6. OwnersAreActive'
  BY <1>2, <1>4, <1>5 DEF Locking, OwnersAreActive
<1>7. \A k \in Lock : \A i \in DOMAIN waiting[k] : waiting[k][i] # t /\ waiting[k][i] \in Task
  BY <1>0, Queue DEF Locking, QueuesAreServed
<1>8. \A s \in Task : task'[s].at = "waiting" => task'[s] = task[s]
  BY <1>2
<1>9. QueuesAreServed'
  BY <1>2, <1>7, <1>8 DEF Locking, QueuesAreServed
<1> QED
  BY <1>1, <1>2, <1>3, <1>6, <1>9 DEF Locking
-----------------------------------------------------------------------------
(* One task at a time *)

\* Until a second lock is created, one lock at most is in use, and it is that in _locks
\* unless stop_stream has dropped it from there.
Alone ==
  ~forked =>
    /\ \A l \in Lock : InUse(l) => lock \in {NoLock, l}
    /\ \A k, l \in Lock : InUse(k) /\ InUse(l) => k = l

\* Those who work hold their lock, so one of them works.
LEMMA OneAtATime ==
  ASSUME Locking, Alone
  PROVE  OneTaskWorks
<1>1. \A t \in Task : Working(t) =>
        task[t].lock \in Lock /\ owner[task[t].lock] = t /\ InUse(task[t].lock)
  BY ConstantsOK DEF Active, Locking, OwnersAreActive, InUse
<1>2. ASSUME ~forked, NEW t \in Task, NEW s \in Task, Working(t), Working(s)
      PROVE  t = s
  <2>1. task[t].lock = task[s].lock
    BY <1>1, <1>2 DEF Alone
  <2> QED
    BY <1>1, <1>2, <2>1
<1> QED
  BY <1>1, <1>2 DEF OneTaskWorks

\* The others keep their places, but for one that is given the lock.
Others(t) == \A s \in Task : s # t => task'[s] = task[s] \/ Woken(s)

\* What a task that arrives or is given the lock does to the stream.
Entered(t) ==
  /\ Others(t) /\ viewers' \in {viewers, {}}
  /\ UNCHANGED <<alive, dropped, tracking, leaked>>
  /\ \/ /\ task'[t].at \in {"rest", "waiting"} /\ task'[t].proc = NoProc
        /\ UNCHANGED <<stream, dir>>
     \/ /\ task'[t].at = "launching" /\ task'[t].proc = NoProc
        /\ stream \notin alive /\ dir' = TRUE /\ UNCHANGED stream
     \/ /\ task'[t].at = "stopping" /\ task'[t].proc = stream
        /\ stream' = NoProc /\ UNCHANGED dir
     \/ /\ task'[t].at = "removing" /\ task'[t].proc = NoProc
        /\ stream = NoProc /\ UNCHANGED <<stream, dir>>

\* A task with the lock goes on with start_stream or stop_stream.
LEMMA Entering ==
  ASSUME TypeOK, Locking, NEW t \in Task, NEW l \in Lock, Mine(t, l),
         NEW k \in Lock \cup {NoLock}, NEW o \in {"none", "start", "stop"}, Enter(t, o, l, k)
  PROVE  /\ Locking' /\ LockTypes' /\ Entered(t) /\ lock' \in {k, NoLock}
         /\ \A m \in Lock : InUse(m)' => InUse(m) \/ m = l
<1>0. UNCHANGED <<alive, dropped, tracking, leaked>>
  BY DEF Enter
<1>1. CASE o = "start" /\ Leave(t, l) /\ UNCHANGED dir
  <2>1. Leave(t, l) /\ dir' = dir /\ stream' = stream /\ viewers' = viewers /\ lock' = k
    BY <1>1 DEF Enter, EnterStart
  <2> QED
    BY <1>0, <2>1, Leaving, RestIsTask DEF Entered, Others
<1>2. CASE /\ o = "start" /\ stream \notin alive
           /\ Hold(t, l, At("start", "launching", l, NoProc)) /\ dir' = TRUE
  <2>1. /\ Hold(t, l, At("start", "launching", l, NoProc))
        /\ dir' = TRUE /\ stream' = stream /\ viewers' = viewers /\ lock' = k
    BY <1>2 DEF Enter, EnterStart
  <2>2. PICK j \in Tasks : /\ j = At("start", "launching", l, NoProc)
                           /\ j.at = "launching" /\ j.lock = l /\ j.proc = NoProc
    BY AtIsTask DEF Places
  <2>3. /\ Locking' /\ LockTypes' /\ \A m \in Lock : InUse(m)' => InUse(m) \/ m = l
        /\ task'[t] = j /\ \A s \in Task : s # t => task'[s] = task[s]
    <3>1. Hold(t, l, j) /\ NoProc \notin Proc
      BY <2>1, <2>2, ConstantsOK
    <3> QED
      BY <2>2, <3>1, Holding
  <2> QED
    BY <1>0, <1>2, <2>1, <2>2, <2>3 DEF Entered, Others
<1>3. CASE o # "start" /\ stream # NoProc
  <2>1. /\ Hold(t, l, At("stop", "stopping", l, stream))
        /\ dir' = dir /\ stream' = NoProc /\ viewers' = viewers /\ lock' = k
    BY <1>3 DEF Enter, EnterStop
  <2>2. PICK j \in Tasks : /\ j = At("stop", "stopping", l, stream)
                           /\ j.at = "stopping" /\ j.lock = l /\ j.proc = stream
    BY AtIsTask DEF Places, TypeOK
  <2>3. /\ Locking' /\ LockTypes' /\ \A m \in Lock : InUse(m)' => InUse(m) \/ m = l
        /\ task'[t] = j /\ \A s \in Task : s # t => task'[s] = task[s]
    <3>1. Hold(t, l, j) /\ stream \in Proc
      BY <1>3, <2>1, <2>2 DEF TypeOK
    <3> QED
      BY <2>2, <3>1, Holding
  <2> QED
    BY <1>0, <2>1, <2>2, <2>3 DEF Entered, Others
<1>4. CASE o # "start" /\ stream = NoProc
  <2>1. Clear(t, l) /\ dir' = dir /\ stream' = NoProc
    BY <1>4 DEF Enter, EnterStop
  <2>2. viewers' = {} /\ lock' = NoLock
    BY <2>1 DEF Clear
  <2>3. CASE dir
    <3>1. Hold(t, l, At("stop", "removing", l, NoProc))
      BY <2>1, <2>3 DEF Clear
    <3>2. PICK j \in Tasks : /\ j = At("stop", "removing", l, NoProc)
                             /\ j.at = "removing" /\ j.lock = l /\ j.proc = NoProc
      BY AtIsTask DEF Places
    <3>3. /\ Locking' /\ LockTypes' /\ \A m \in Lock : InUse(m)' => InUse(m) \/ m = l
          /\ task'[t] = j /\ \A s \in Task : s # t => task'[s] = task[s]
      <4>1. Hold(t, l, j) /\ NoProc \notin Proc
        BY <3>1, <3>2, ConstantsOK
      <4> QED
        BY <3>2, <4>1, Holding
    <3> QED
      BY <1>0, <1>4, <2>1, <2>2, <3>2, <3>3 DEF Entered, Others
  <2>4. CASE ~dir
    <3>1. Leave(t, l)
      BY <2>1, <2>4 DEF Clear
    <3> QED
      BY <1>0, <1>4, <2>1, <2>2, <3>1, Leaving, RestIsTask DEF Entered, Others
  <2> QED
    BY <2>3, <2>4
<1> QED
  <2>1. o # "start" \/ EnterStart(t, l, k)
    BY DEF Enter
  <2> QED
    BY <1>1, <1>2, <1>3, <1>4, <2>1 DEF EnterStart

\* A request, or a task that a connection created, gets the lock or waits for it.
LEMMA Arriving ==
  ASSUME TypeOK, Locking, Alone, NEW t \in Task, task[t].at \in {"rest", "created"},
         NEW o \in {"start", "stop"}, Arrive(t, o)
  PROVE  /\ Locking' /\ LockTypes' /\ Entered(t) /\ Alone'
         /\ lock' \in Lock \cup {NoLock} /\ forked' \in BOOLEAN /\ (forked => forked')
         /\ ~forked' => (\A m \in Lock : ~InUse(m)) \/ task'[t].at = "waiting"
<1>l. PICK l \in Lock : l = Get /\ (lock = NoLock => ~InUse(l)) /\ (lock # NoLock => l = lock)
  BY LockToCreate DEF Get, TypeOK
<1>f. forked' = (forked \/ (lock = NoLock /\ \E k \in Lock : InUse(k)))
  BY DEF Arrive
<1>f1. forked' \in BOOLEAN /\ (forked => forked')
  BY <1>f DEF TypeOK
<1>a. ASSUME \A m \in Lock : InUse(m)' => InUse(m) \/ m = l, lock' \in {l, NoLock}
      PROVE  Alone'
  <2> SUFFICES ASSUME ~forked' PROVE \A m \in Lock : InUse(m)' => m = l
    BY <1>a DEF Alone
  <2>1. ~forked /\ (lock = NoLock => \A m \in Lock : ~InUse(m))
    BY <1>f
  <2>2. \A m \in Lock : InUse(m) => m = l
    BY <1>l, <2>1, ConstantsOK DEF Alone
  <2> QED
    BY <1>a, <2>2
<1>1. CASE InUse(l)
  <2>1. /\ waiting' = [waiting EXCEPT ![l] = Append(waiting[l], t)]
        /\ task' = [task EXCEPT ![t] = At(o, "waiting", l, NoProc)]
        /\ UNCHANGED <<lock, owner, hls, clients>>
    BY <1>1, <1>l DEF Arrive
  <2>2. owner' = owner /\ lock' = lock /\ lock = l
    BY <1>1, <1>l, <2>1
  <2>3. /\ Locking' /\ LockTypes' /\ \A k \in Lock : InUse(k)' => InUse(k)
        /\ task'[t].at = "waiting" /\ task'[t].proc = NoProc
        /\ \A s \in Task : s # t => task'[s] = task[s]
    BY <1>1, <2>1, <2>2, Queueing
  <2>4. Entered(t)
    BY <2>1, <2>3 DEF Entered, Others, hls, clients
  <2>5. Alone'
    BY <1>a, <2>2, <2>3
  <2> QED
    BY <1>f1, <2>2, <2>3, <2>4, <2>5
<1>2. CASE ~InUse(l)
  <2>1. Enter(t, o, l, l)
    BY <1>2, <1>l DEF Arrive
  <2>2. Mine(t, l)
    BY <1>2, FreeIsMine
  <2>3. /\ Locking' /\ LockTypes' /\ Entered(t) /\ lock' \in {l, NoLock}
        /\ \A m \in Lock : InUse(m)' => InUse(m) \/ m = l
    BY <2>1, <2>2, Entering
  <2>4. ~forked' => \A m \in Lock : ~InUse(m)
    BY <1>2, <1>f, <1>l, ConstantsOK DEF Alone
  <2> QED
    BY <1>a, <1>f1, <2>3, <2>4
<1> QED
  BY <1>1, <1>2

\* A waiter that was given the lock goes on.
LEMMA Resuming ==
  ASSUME TypeOK, Locking, Alone, NEW t \in Task, Resume(t)
  PROVE  /\ Locking' /\ LockTypes' /\ Entered(t) /\ Alone'
         /\ lock' \in Lock \cup {NoLock} /\ forked' = forked
<1>1. Active(t)
  BY DEF Resume, Active
<1>l. PICK l \in Lock : l = task[t].lock /\ Mine(t, l) /\ InUse(l)
  <2>1. owner[task[t].lock] = t /\ task[t].lock \in Lock /\ t # NoTask
    BY <1>1, ConstantsOK DEF Locking, OwnersAreActive
  <2> QED
    BY <1>1, <2>1, ActiveIsMine DEF InUse
<1>o. task[t].op \in {"none", "start", "stop"} /\ lock \in Lock \cup {NoLock}
  BY DEF TypeOK, Tasks
<1>2. Enter(t, task[t].op, l, lock) /\ forked' = forked
  BY <1>l DEF Resume
<1>3. /\ Locking' /\ LockTypes' /\ Entered(t) /\ lock' \in {lock, NoLock}
      /\ \A m \in Lock : InUse(m)' => InUse(m) \/ m = l
  BY <1>l, <1>o, <1>2, Entering
<1>4. Alone'
  BY <1>l, <1>2, <1>3 DEF Alone
<1> QED
  BY <1>o, <1>2, <1>3, <1>4
-----------------------------------------------------------------------------
(* The process and its directory *)

\* A task that starts the stream has found none, and has made the directory; one that
\* stops it has taken it out.
InHand ==
  ~forked => \A t \in Task :
    /\ task[t].at \in {"launching", "launched"} => stream \notin alive /\ dir
    /\ task[t].at \in {"stopping", "removing"} => stream = NoProc

Inv == TypeOK /\ Locking /\ Alone /\ StreamIsManaged /\ InHand /\ ViewersAreSubscribed

\* A process is in the hands of a working task, so only a working task can lose it.
LEMMA ProcOfWorker ==
  ASSUME TypeOK, NEW t \in Task, ~Working(t)
  PROVE  task[t].proc = NoProc
BY DEF TypeOK, Tasks, Working

\* One who has the lock has it alone: nobody else works.
LEMMA NobodyElse ==
  ASSUME Inv, ~forked, NEW t \in Task, Active(t) \/ \A l \in Lock : ~InUse(l)
  PROVE  \A s \in Task : s # t => ~Working(s)
<1>1. \A s \in Task : Active(s) => task[s].lock \in Lock /\ owner[task[s].lock] = s
                                   /\ InUse(task[s].lock)
  BY ConstantsOK DEF Inv, Locking, OwnersAreActive, InUse
<1>2. \A s \in Task : Active(s) /\ Active(t) => task[s].lock = task[t].lock
  BY <1>1 DEF Inv, Alone
<1> QED
  BY <1>1, <1>2 DEF Active

\* Who enters the block leaves stream and directory as the others expect them.
LEMMA EnteredManages ==
  ASSUME Inv, NEW t \in Task, task[t].at \in {"rest", "created", "granted"}, Entered(t),
         forked => forked', forked' \in BOOLEAN,
         ~forked' => (\A s \in Task : s # t => ~Working(s)) \/ task'[t].at = "waiting"
  PROVE  StreamIsManaged' /\ InHand'
<1> SUFFICES ASSUME ~forked' PROVE StreamIsManaged' /\ InHand'
  BY DEF StreamIsManaged, InHand
<1>0. /\ ~forked /\ TypeOK /\ alive' = alive /\ NoProc \notin alive
      /\ \A p \in alive : p = stream \/ \E s \in Task : task[s].proc = p
      /\ stream \in alive => dir
  BY ConstantsOK DEF Inv, TypeOK, StreamIsManaged, Entered
<1>1. \A s \in Task : s # t => task'[s] = task[s] \/ Woken(s)
  BY DEF Entered, Others
<1>2. task[t].proc = NoProc
  BY <1>0, ProcOfWorker DEF Working
<1>3. \A s \in Task : task[s].proc \in alive => s # t /\ task'[s].proc = task[s].proc
  <2>1. ASSUME NEW s \in Task, Woken(s) PROVE task[s].proc \notin alive
    BY <1>0, <2>1, ProcOfWorker DEF Woken, Working
  <2> QED
    BY <1>0, <1>1, <1>2, <2>1
<1>4. \A p \in alive : p = stream \/ \E s \in Task : task'[s].proc = p
  BY <1>0, <1>3
<1>5. \A s \in Task : s # t /\ Working(s)' => task'[s] = task[s] /\ Working(s)
  BY <1>1 DEF Woken, Working
<1>6. \A s \in Task : s # t =>
        /\ task[s].at \in {"launching", "launched"} => stream \notin alive /\ dir
        /\ task[s].at \in {"stopping", "removing"} => stream = NoProc
  BY <1>0 DEF Inv, InHand
<1>7. /\ stream' = stream \/ (stream' = NoProc /\ task'[t].proc = stream)
      /\ stream' \in alive => dir'
  BY <1>0 DEF Entered
<1>8. StreamIsManaged'
  BY <1>0, <1>4, <1>7 DEF StreamIsManaged
<1>9. InHand'
  <2>1. CASE \A s \in Task : s # t => ~Working(s)
    <3>1. \A s \in Task : s # t => ~Working(s)'
      BY <1>5, <2>1
    <3>2. /\ task'[t].at \in {"launching", "launched"} => stream' \notin alive' /\ dir'
          /\ task'[t].at \in {"stopping", "removing"} => stream' = NoProc
      BY <1>0 DEF Entered
    <3> QED
      BY <3>1, <3>2 DEF InHand, Working
  <2>2. CASE task'[t].at = "waiting"
    <3>1. stream' = stream /\ dir' = dir
      BY <2>2 DEF Entered
    <3> QED
      BY <1>0, <1>5, <1>6, <2>2, <3>1 DEF InHand, Working
  <2> QED
    BY <2>1, <2>2
<1> QED
  BY <1>8, <1>9

\* Nobody becomes a viewer while a task enters the block.
LEMMA EnteredViewers ==
  ASSUME Inv, NEW t \in Task, Entered(t)
  PROVE  /\ ViewersAreSubscribed' /\ viewers' \in SUBSET User /\ dropped' \in SUBSET Socket
         /\ tracking' \in SUBSET Socket /\ leaked' \in SUBSET User
         /\ stream' \in Proc \cup {NoProc} /\ alive' \in SUBSET Proc /\ dir' \in BOOLEAN
BY DEF Inv, TypeOK, Entered, ViewersAreSubscribed
-----------------------------------------------------------------------------
(* The steps *)

LEMMA ArriveKeeps ==
  ASSUME Inv, NEW t \in Task, task[t].at \in {"rest", "created"},
         NEW o \in {"start", "stop"}, Arrive(t, o)
  PROVE  Inv'
<1>1. /\ Locking' /\ LockTypes' /\ Entered(t) /\ Alone'
      /\ lock' \in Lock \cup {NoLock} /\ forked' \in BOOLEAN /\ (forked => forked')
      /\ ~forked' => (\A m \in Lock : ~InUse(m)) \/ task'[t].at = "waiting"
  BY Arriving DEF Inv
<1>2. StreamIsManaged' /\ InHand'
  <2>1. ~forked' => (\A s \in Task : s # t => ~Working(s)) \/ task'[t].at = "waiting"
    BY <1>1, NobodyElse
  <2> QED
    BY <1>1, <2>1, EnteredManages
<1>3. TypeOK' /\ ViewersAreSubscribed'
  BY <1>1, EnteredViewers DEF TypeOK, LockTypes
<1> QED
  BY <1>1, <1>2, <1>3 DEF Inv

LEMMA ResumeKeeps ==
  ASSUME Inv, NEW t \in Task, Resume(t)
  PROVE  Inv'
<1>1. /\ Locking' /\ LockTypes' /\ Entered(t) /\ Alone'
      /\ lock' \in Lock \cup {NoLock} /\ forked' = forked
  BY Resuming DEF Inv
<1>2. forked \in BOOLEAN /\ Active(t) /\ task[t].at \in {"rest", "created", "granted"}
  BY DEF Inv, TypeOK, Resume, Active
<1>3. StreamIsManaged' /\ InHand'
  <2>1. ~forked' => \A s \in Task : s # t => ~Working(s)
    BY <1>1, <1>2, NobodyElse
  <2> QED
    BY <1>1, <1>2, <2>1, EnteredManages
<1>4. TypeOK' /\ ViewersAreSubscribed'
  BY <1>1, <1>2, EnteredViewers DEF TypeOK, LockTypes
<1> QED
  BY <1>1, <1>3, <1>4 DEF Inv

\* Any step of a working task: it keeps or gives back the lock it holds.
LEMMA WorkerAlone ==
  ASSUME Inv, NEW t \in Task, Working(t)
  PROVE  /\ task[t].lock \in Lock /\ Mine(t, task[t].lock) /\ InUse(task[t].lock)
         /\ ~forked => \A s \in Task : s # t => ~Working(s)
<1>1. Active(t)
  BY DEF Active
<1>2. task[t].lock \in Lock /\ Mine(t, task[t].lock) /\ owner[task[t].lock] = t /\ t # NoTask
  BY <1>1, ActiveIsMine, ConstantsOK DEF Inv, Locking, OwnersAreActive
<1> QED
  BY <1>1, <1>2, NobodyElse DEF InUse

LEMMA StillAlone ==
  ASSUME Alone, \A m \in Lock : InUse(m)' => InUse(m), lock' \in {lock, NoLock}, forked' = forked
  PROVE  Alone'
BY DEF Alone

\* A process that another task has in hand, it has still.
LEMMA OthersHold ==
  ASSUME TypeOK, NEW t \in Task, Others(t)
  PROVE  /\ \A s \in Task : s # t /\ task[s].proc \in Proc => task'[s].proc = task[s].proc
         /\ \A s \in Task : s # t /\ Working(s)' => Working(s) /\ task'[s] = task[s]
<1>1. ASSUME NEW s \in Task, Woken(s) PROVE task[s].proc = NoProc /\ NoProc \notin Proc
  BY <1>1, ProcOfWorker, ConstantsOK DEF Woken, Working
<1> QED
  BY <1>1 DEF Others, Woken, Working

LEMMA LaunchKeeps ==
  ASSUME Inv, NEW t \in Task, NEW p \in Proc, Launch(t, p)
  PROVE  Inv'
<1>0. /\ task[t].at = "launching" /\ p \notin alive /\ p # stream /\ alive' = alive \cup {p}
      /\ UNCHANGED <<lock, stream, dir, viewers, dropped, tracking, leaked, forked>>
  BY DEF Launch, clients
<1>w. Working(t) /\ TypeOK /\ NoProc \notin Proc
  BY <1>0, ConstantsOK DEF Working, Inv
<1>l. PICK l \in Lock : /\ l = task[t].lock /\ Mine(t, l) /\ InUse(l)
  BY <1>w, WorkerAlone
<1>j. PICK j \in Tasks : /\ j = At("start", "launched", l, p)
                         /\ j.at = "launched" /\ j.lock = l /\ j.proc = p
  BY AtIsTask DEF Places
<1>1. Hold(t, l, j)
  BY <1>l, <1>j DEF Launch
<1>2. /\ Locking' /\ LockTypes' /\ \A m \in Lock : InUse(m)' => InUse(m) \/ m = l
      /\ task'[t] = j /\ \A s \in Task : s # t => task'[s] = task[s]
  BY <1>1, <1>j, <1>l, Holding DEF Inv
<1>3. TypeOK'
  BY <1>0, <1>2, <1>w DEF TypeOK, LockTypes
<1>4. Alone'
  BY <1>0, <1>2, <1>l, StillAlone DEF Inv
<1>5. StreamIsManaged'
  <2>1. task[t].proc \notin alive
    BY <1>0, <1>w DEF TypeOK
  <2>2. ~forked => \A q \in alive' : q = stream \/ \E s \in Task : task'[s].proc = q
    BY <1>0, <1>2, <1>j, <2>1 DEF Inv, StreamIsManaged
  <2> QED
    BY <1>0, <2>2 DEF Inv, StreamIsManaged
<1>6. InHand'
  <2>1. ~forked => \A s \in Task : s # t => ~Working(s)'
    BY <1>2, <1>w, WorkerAlone DEF Working
  <2>2. ~forked => stream' \notin alive' /\ dir'
    BY <1>0 DEF Inv, InHand
  <2> QED
    BY <1>0, <1>2, <1>j, <2>1, <2>2 DEF InHand, Working
<1>7. ViewersAreSubscribed'
  BY <1>0 DEF Inv, ViewersAreSubscribed
<1> QED
  BY <1>2, <1>3, <1>4, <1>5, <1>6, <1>7 DEF Inv

\* A working task that gives its lock back hands its process over, or has lost it.
LEMMA LeaveKeeps ==
  ASSUME Inv, NEW t \in Task, Working(t), Leave(t, task[t].lock),
         lock' \in {lock, NoLock}, forked' = forked, ViewersAreSubscribed',
         stream' \in Proc \cup {NoProc}, alive' \in SUBSET alive, dir' \in BOOLEAN,
         viewers' \in SUBSET User, dropped' \in SUBSET Socket,
         tracking' \in SUBSET Socket, leaked' \in SUBSET User,
         ~forked => \A p \in alive' : /\ p = stream => p = stream'
                                      /\ p = task[t].proc => p = stream',
         ~forked => (stream' \in alive' => dir')
  PROVE  Inv'
<1>0. TypeOK /\ Locking /\ Alone /\ NoProc \notin Proc
  BY ConstantsOK DEF Inv
<1>l. PICK l \in Lock : l = task[t].lock /\ Mine(t, l)
  BY WorkerAlone
<1>1. Leave(t, l)
  BY <1>l
<1>2. /\ Locking' /\ LockTypes' /\ \A k \in Lock : InUse(k)' => InUse(k)
      /\ task'[t] = Rest /\ Others(t)
  BY <1>0, <1>l, <1>1, Leaving DEF Others
<1>3. TypeOK'
  <2>1. lock' \in Lock \cup {NoLock} /\ alive' \in SUBSET Proc /\ forked' \in BOOLEAN
    BY <1>0 DEF TypeOK
  <2> QED
    BY <1>2, <2>1 DEF TypeOK, LockTypes
<1>4. Alone'
  BY <1>0, <1>2, StillAlone
<1>5. StreamIsManaged'
  <2>1. ASSUME ~forked, NEW p \in alive' PROVE p = stream' \/ \E s \in Task : task'[s].proc = p
    <3>1. p \in Proc /\ p \in alive
      BY <1>0, <2>1 DEF TypeOK
    <3>2. p = stream \/ \E s \in Task : task[s].proc = p
      BY <2>1, <3>1 DEF Inv, StreamIsManaged
    <3>3. \A s \in Task : s # t /\ task[s].proc \in Proc => task'[s].proc = task[s].proc
      BY <1>0, <1>2, OthersHold
    <3> QED
      BY <2>1, <3>1, <3>2, <3>3
  <2> QED
    BY <2>1 DEF StreamIsManaged
<1>6. InHand'
  <2>1. ~forked => \A s \in Task : ~Working(s)'
    <3>1. ~forked => \A s \in Task : s # t => ~Working(s)
      BY WorkerAlone
    <3>2. ~Working(t)'
      BY <1>2, RestIsTask DEF Working
    <3> QED
      BY <1>0, <1>2, <3>1, <3>2, OthersHold
  <2> QED
    BY <2>1 DEF InHand, Working
<1> QED
  BY <1>2, <1>3, <1>4, <1>5, <1>6 DEF Inv

LEMMA LaunchFailsKeeps ==
  ASSUME Inv, NEW t \in Task, LaunchFails(t)
  PROVE  Inv'
<1>1. /\ task[t].at = "launching" /\ Working(t) /\ Leave(t, task[t].lock)
      /\ UNCHANGED <<lock, stream, alive, dir, viewers, dropped, tracking, leaked, forked>>
  BY DEF LaunchFails, hls, clients, Working
<1>2. task[t].proc \notin alive
  BY <1>1, ConstantsOK DEF Inv, TypeOK
<1>3. ViewersAreSubscribed'
  BY <1>1 DEF Inv, ViewersAreSubscribed
<1> QED
  BY <1>1, <1>2, <1>3, LeaveKeeps DEF Inv, TypeOK, StreamIsManaged

LEMMA RegisterKeeps ==
  ASSUME Inv, NEW t \in Task, Register(t)
  PROVE  Inv'
<1>1. /\ task[t].at = "launched" /\ Working(t) /\ Leave(t, task[t].lock)
      /\ stream' = task[t].proc
      /\ UNCHANGED <<lock, alive, dir, viewers, dropped, tracking, leaked, forked>>
  BY DEF Register, clients, Working
<1>2. task[t].proc \in Proc /\ (~forked => stream \notin alive /\ dir)
  BY <1>1 DEF Inv, TypeOK, InHand
<1>3. ViewersAreSubscribed'
  BY <1>1 DEF Inv, ViewersAreSubscribed
<1> QED
  BY <1>1, <1>2, <1>3, LeaveKeeps DEF Inv, TypeOK

LEMMA RemoveDirKeeps ==
  ASSUME Inv, NEW t \in Task, RemoveDir(t)
  PROVE  Inv'
<1>1. /\ task[t].at = "removing" /\ Working(t) /\ Leave(t, task[t].lock) /\ dir' = FALSE
      /\ UNCHANGED <<lock, stream, alive, viewers, dropped, tracking, leaked, forked>>
  BY DEF RemoveDir, clients, Working
<1>2. task[t].proc \notin alive /\ (~forked => stream \notin alive)
  BY <1>1, ConstantsOK DEF Inv, TypeOK, InHand
<1>3. ViewersAreSubscribed'
  BY <1>1 DEF Inv, ViewersAreSubscribed
<1> QED
  BY <1>1, <1>2, <1>3, LeaveKeeps DEF Inv, TypeOK

LEMMA StopProcessKeeps ==
  ASSUME Inv, NEW t \in Task, StopProcess(t)
  PROVE  Inv'
<1>0. /\ task[t].at = "stopping" /\ Working(t) /\ Clear(t, task[t].lock)
      /\ alive' = alive \ {task[t].proc} /\ viewers' = {} /\ lock' = NoLock
      /\ UNCHANGED <<stream, dir, dropped, tracking, leaked, forked>>
  BY DEF StopProcess, Clear, Working
<1>1. ViewersAreSubscribed' /\ (~forked => stream \notin alive)
  <2>1. ~forked => stream = NoProc
    BY <1>0 DEF Inv, InHand
  <2> QED
    BY <1>0, <2>1, ConstantsOK DEF Inv, TypeOK, ViewersAreSubscribed
<1>2. CASE ~dir
  <2>1. Leave(t, task[t].lock)
    BY <1>0, <1>2 DEF Clear
  <2> QED
    BY <1>0, <1>1, <2>1, LeaveKeeps DEF Inv, TypeOK
<1>3. CASE dir
  <2>0. TypeOK /\ Locking /\ Alone /\ NoProc \notin Proc
    BY ConstantsOK DEF Inv
  <2>l. PICK l \in Lock : /\ l = task[t].lock /\ Mine(t, l) /\ InUse(l)
    BY <1>0, WorkerAlone
  <2>j. PICK j \in Tasks : /\ j = At("stop", "removing", l, NoProc)
                           /\ j.at = "removing" /\ j.lock = l /\ j.proc = NoProc
    BY AtIsTask DEF Places
  <2>1. Hold(t, l, j)
    BY <1>0, <1>3, <2>l, <2>j DEF Clear
  <2>2. /\ Locking' /\ LockTypes' /\ \A m \in Lock : InUse(m)' => InUse(m) \/ m = l
        /\ task'[t] = j /\ \A s \in Task : s # t => task'[s] = task[s]
    BY <2>0, <2>1, <2>j, <2>l, Holding
  <2>3. TypeOK'
    BY <1>0, <2>0, <2>2 DEF TypeOK, LockTypes
  <2>4. Alone'
    BY <1>0, <2>0, <2>2, <2>l, StillAlone
  <2>5. StreamIsManaged'
    <3>1. ~forked => \A p \in alive' : p = stream \/ \E s \in Task : task'[s].proc = p
      BY <1>0, <2>2 DEF Inv, StreamIsManaged
    <3> QED
      BY <1>0, <3>1 DEF Inv, StreamIsManaged
  <2>6. InHand'
    <3>1. ~forked => \A s \in Task : s # t => ~Working(s)'
      BY <1>0, <2>2, WorkerAlone DEF Working
    <3>2. ~forked => stream' = NoProc
      BY <1>0 DEF Inv, InHand
    <3> QED
      BY <1>0, <2>2, <2>j, <3>1, <3>2 DEF InHand, Working
  <2> QED
    BY <1>1, <2>2, <2>3, <2>4, <2>5, <2>6 DEF Inv
<1> QED
  BY <1>2, <1>3

\* Steps that change neither locks nor tasks.
LEMMA Untouched ==
  ASSUME Inv, UNCHANGED <<locks, task>>, forked' = forked, ViewersAreSubscribed',
         StreamIsManaged', InHand',
         stream' \in Proc \cup {NoProc}, alive' \in SUBSET Proc, dir' \in BOOLEAN,
         viewers' \in SUBSET User, dropped' \in SUBSET Socket,
         tracking' \in SUBSET Socket, leaked' \in SUBSET User
  PROVE  Inv'
<1>1. UNCHANGED <<lock, owner, waiting, task>>
  BY DEF locks
<1>2. Locking' /\ Alone'
  BY <1>1 DEF Inv, Locking, OwnersAreActive, QueuesAreServed, Active, Working, Alone, InUse
<1>3. TypeOK'
  BY <1>1 DEF Inv, TypeOK
<1> QED
  BY <1>2, <1>3 DEF Inv

LEMMA WatchdogKeeps == ASSUME Inv, Watchdog PROVE Inv'
<1>1. /\ stream \notin alive /\ stream' = NoProc
      /\ UNCHANGED <<locks, task, alive, dir, viewers, dropped, tracking, leaked, forked>>
  BY DEF Watchdog, clients
<1>2. ViewersAreSubscribed'
  BY <1>1 DEF Inv, ViewersAreSubscribed
<1>3. StreamIsManaged' /\ InHand'
  BY <1>1, ConstantsOK DEF Inv, TypeOK, StreamIsManaged, InHand
<1> QED
  BY <1>1, <1>2, <1>3, Untouched DEF Inv, TypeOK

LEMMA DieKeeps == ASSUME Inv, NEW p \in Proc, Die(p) PROVE Inv'
<1>1. /\ alive' = alive \ {p}
      /\ UNCHANGED <<locks, task, stream, dir, viewers, dropped, tracking, leaked, forked>>
  BY DEF Die, clients
<1>2. ViewersAreSubscribed'
  BY <1>1 DEF Inv, ViewersAreSubscribed
<1>3. StreamIsManaged' /\ InHand'
  BY <1>1 DEF Inv, StreamIsManaged, InHand
<1> QED
  BY <1>1, <1>2, <1>3, Untouched DEF Inv, TypeOK

LEMMA ClientKeeps ==
  ASSUME Inv, NEW s \in Socket, Subscribe(s) \/ Unsubscribe(s) \/ SendFails(s)
  PROVE  Inv'
<1>1. UNCHANGED <<locks, task, stream, alive, dir, forked>> /\ UserOf[s] \in User
  BY ConstantsOK DEF Subscribe, Unsubscribe, SendFails, hls
<1>2. ViewersAreSubscribed'
  BY DEF Inv, Subscribe, Unsubscribe, SendFails, ViewersAreSubscribed
<1>3. StreamIsManaged' /\ InHand'
  BY <1>1 DEF Inv, StreamIsManaged, InHand
<1>4. /\ viewers' \in SUBSET User /\ dropped' \in SUBSET Socket
      /\ tracking' \in SUBSET Socket /\ leaked' \in SUBSET User
  BY <1>1 DEF Inv, TypeOK, Subscribe, Unsubscribe, SendFails
<1> QED
  BY <1>1, <1>2, <1>3, <1>4, Untouched DEF Inv, TypeOK

LEMMA DisconnectKeeps ==
  ASSUME Inv, NEW s \in Socket, NEW t \in Task, Disconnect(s, t)
  PROVE  Inv'
<1>1. /\ task[t] = Rest /\ task[t].at = "rest" /\ TypeOK /\ Locking /\ NoProc \notin Proc
      /\ UNCHANGED <<lock, owner, waiting, stream, alive, dir, leaked, forked>>
  BY ConstantsOK, RestIsTask DEF Inv, Disconnect, locks, hls
<1>2. /\ dropped' = dropped \ {s} /\ tracking' = tracking \ {s}
      /\ viewers' = IF s \in tracking THEN viewers \ {UserOf[s]} ELSE viewers
  BY DEF Disconnect
<1>3. task' \in {task, [task EXCEPT ![t] = At("stop", "created", NoLock, NoProc)]}
  BY DEF Disconnect
<1>4. /\ Locking' /\ LockTypes' /\ \A k \in Lock : InUse(k)' <=> InUse(k)
      /\ task'[t].at \in {"rest", "created"} /\ task'[t].proc = NoProc
      /\ \A r \in Task : r # t => task'[r] = task[r]
  BY <1>1, <1>3, Creating
<1>5. TypeOK'
  BY <1>1, <1>2, <1>4 DEF TypeOK, LockTypes
<1>6. Alone'
  BY <1>1, <1>4 DEF Inv, Alone
<1>7. ViewersAreSubscribed'
  BY <1>1, <1>2 DEF Inv, ViewersAreSubscribed
<1>8. InHand'
  BY <1>1, <1>4 DEF Inv, InHand
<1>9. StreamIsManaged'
  <2>1. \A p \in alive : p \in Proc
    BY <1>1 DEF TypeOK
  <2>2. task[t].proc = NoProc
    BY <1>1, RestIsTask
  <2> QED
    BY <1>1, <1>4, <2>1, <2>2 DEF Inv, StreamIsManaged
<1> QED
  BY <1>4, <1>5, <1>6, <1>7, <1>8, <1>9 DEF Inv
-----------------------------------------------------------------------------
(* The theorems *)

LEMMA InitInv == Init => Inv
<1> SUFFICES ASSUME Init PROVE Inv
  OBVIOUS
<1>1. /\ \A t \in Task : task[t] = Rest /\ task[t].at = "rest" /\ task[t].proc = NoProc
      /\ \A l \in Lock : owner[l] = NoTask /\ waiting[l] = <<>>
  BY RestIsTask DEF Init
<1>2. TypeOK
  <2>1. <<>> \in Seq(Task) /\ Rest \in Tasks /\ NoProc \notin Proc
    BY ConstantsOK, RestIsTask
  <2> QED
    BY <1>1, <2>1 DEF Init, TypeOK
<1>3. Locking
  <2>1. \A t \in Task : ~Active(t)
    BY <1>1 DEF Active, Working
  <2>2. \A l \in Lock : \A i \in DOMAIN waiting[l] : FALSE
    BY <1>1
  <2> QED
    BY <1>1, <2>1, <2>2 DEF Locking, OwnersAreActive, QueuesAreServed
<1>4. Alone
  BY <1>1 DEF Alone, InUse
<1>5. StreamIsManaged /\ InHand /\ ViewersAreSubscribed
  BY <1>1 DEF Init, StreamIsManaged, InHand, ViewersAreSubscribed
<1> QED
  BY <1>2, <1>3, <1>4, <1>5 DEF Inv

LEMMA NextInv == Inv /\ [Next]_vars => Inv'
<1> SUFFICES ASSUME Inv, [Next]_vars PROVE Inv'
  OBVIOUS
<1>1. ASSUME NEW t \in Task, TaskStep(t) PROVE Inv'
  <2>1. CASE Run(t)
    BY <2>1, ArriveKeeps DEF Run
  <2>2. CASE Resume(t)
    BY <2>2, ResumeKeeps
  <2>3. ASSUME NEW p \in Proc, Launch(t, p) PROVE Inv'
    BY <2>3, LaunchKeeps
  <2>4. CASE LaunchFails(t) \/ Register(t) \/ StopProcess(t) \/ RemoveDir(t)
    BY <2>4, LaunchFailsKeeps, RegisterKeeps, StopProcessKeeps, RemoveDirKeeps
  <2> QED
    BY <1>1, <2>1, <2>2, <2>3, <2>4 DEF TaskStep
<1>2. ASSUME NEW t \in Task, NEW o \in {"start", "stop"}, Request(t, o) PROVE Inv'
  BY <1>2, ArriveKeeps, RestIsTask DEF Request
<1>3. CASE Watchdog
  BY <1>3, WatchdogKeeps
<1>4. ASSUME NEW p \in Proc, Die(p) PROVE Inv'
  BY <1>4, DieKeeps
<1>5. ASSUME NEW s \in Socket, Subscribe(s) \/ Unsubscribe(s) \/ SendFails(s) PROVE Inv'
  BY <1>5, ClientKeeps
<1>6. ASSUME NEW s \in Socket, NEW t \in Task, Disconnect(s, t) PROVE Inv'
  BY <1>6, DisconnectKeeps
<1>7. CASE UNCHANGED vars
  <2>1. /\ UNCHANGED <<locks, task>> /\ forked' = forked
        /\ UNCHANGED <<stream, alive, dir, viewers, dropped, tracking, leaked>>
    BY <1>7 DEF vars, hls, clients
  <2>2. ViewersAreSubscribed' /\ StreamIsManaged' /\ InHand'
    BY <2>1 DEF Inv, ViewersAreSubscribed, StreamIsManaged, InHand
  <2> QED
    BY <2>1, <2>2, Untouched DEF Inv, TypeOK
<1> QED
  BY <1>1, <1>2, <1>3, <1>4, <1>5, <1>6, <1>7 DEF Next

LEMMA Invariance == Spec => []Inv
BY InitInv, NextInv, PTL DEF Spec

\* Every variable keeps its type, and a task has a process just while FFmpeg has been
\* started and not yet registered, or is being stopped.
THEOREM TypeCorrect == Spec => []TypeOK
<1>1. Inv => TypeOK
  BY DEF Inv
<1> QED
  BY <1>1, Invariance, PTL

\* Whatever locks are dropped from _locks while they are in use, a task that waits is
\* in the queue of its lock, and the owner of that lock is going to release it.
THEOREM WaitersServed == Spec => []WaitersAreServed
<1>1. Inv => WaitersAreServed
  <2> SUFFICES ASSUME Inv, NEW t \in Task, task[t].at = "waiting"
               PROVE  LET l == task[t].lock
                      IN  /\ \E i \in DOMAIN waiting[l] : waiting[l][i] = t
                          /\ \E s \in Task : /\ owner[l] = s /\ task[s].lock = l
                                             /\ Working(s) \/ task[s].at = "granted"
    BY DEF WaitersAreServed
  <2>1. PICK l \in Lock : l = task[t].lock /\ \E i \in DOMAIN waiting[l] : waiting[l][i] = t
    BY DEF Inv, Locking, QueuesAreServed
  <2>2. waiting[l] # <<>>
    BY <2>1
  <2>3. owner[l] \in Task
    BY <2>2, Queue DEF Inv, Locking, QueuesAreServed
  <2>4. Active(owner[l]) /\ task[owner[l]].lock = l
    BY <2>3, ConstantsOK DEF Inv, Locking, OwnersAreActive
  <2> QED
    BY <2>1, <2>3, <2>4 DEF Active
<1> QED
  BY <1>1, Invariance, PTL

\* Two tasks work on the camera at once only after a second lock was created for it.
THEOREM OneWorks == Spec => []OneTaskWorks
<1>1. Inv => OneTaskWorks
  BY OneAtATime DEF Inv
<1> QED
  BY <1>1, Invariance, PTL

\* With the same exception, no FFmpeg process is lost, and none that is registered has
\* its directory removed.
THEOREM Managed == Spec => []StreamIsManaged
<1>1. Inv => StreamIsManaged
  BY DEF Inv
<1> QED
  BY <1>1, Invariance, PTL

\* Only a user whose connection the manager forgot is counted without one.
THEOREM Viewed == Spec => []ViewersAreSubscribed
<1>1. Inv => ViewersAreSubscribed
  BY DEF Inv
<1> QED
  BY <1>1, Invariance, PTL
=============================================================================
