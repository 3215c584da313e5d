-------------------------- MODULE TaskQueueProofs --------------------------
(***************************************************************************)
(* Proofs about what every tool call goes through, for every set of calls: *)
(* the operation queue (TaskQueue), for every limit, and the breakers of   *)
(* its dependencies (ToolHealth).  The two share no variable.              *)
(***************************************************************************)
EXTENDS TaskQueue, ToolHealth, FiniteSetTheorems, TLAPS

(* ------------------------------ Typing --------------------------------- *)

\* Every variable keeps its type.
THEOREM TypeCorrect == Spec => []TypeOK
<1> USE LimitsAssumption
<1>1. Init => TypeOK
  BY DEF Init, TypeOK, Phases, Steps
<1>2. TypeOK /\ [Next]_vars => TypeOK'
  <2> SUFFICES ASSUME TypeOK, [Next]_vars PROVE TypeOK'
    OBVIOUS
  <2> USE DEF TypeOK
  <2>1. ASSUME NEW o \in Ops, Claim(o) PROVE TypeOK'
    BY <2>1 DEF Claim, Phases, Handler
  <2>2. ASSUME NEW o \in Ops, UndoClaim(o) PROVE TypeOK'
    BY <2>2 DEF UndoClaim, Phases
  <2>3. ASSUME NEW o \in Ops, Register(o) PROVE TypeOK'
    <3>1. Put(o) \in Seq(Ops)
      BY DEF Put
    <3>2. QED BY <2>3, <3>1 DEF Register, Phases, Task, Steps
  <2>4. ASSUME NEW o \in Ops, Acquire(o) PROVE TypeOK'
    <3>1. CASE permits > 0
      BY <2>4, <3>1 DEF Acquire, Phases, Task
    <3>2. CASE permits = 0
      <4>1. Append(waiters, o) \in Seq(Ops)
        OBVIOUS
      <4>2. waiters' = Append(waiters, o) /\ UNCHANGED <<permits, counter, status, cache, restarts>>
        BY <2>4, <3>2 DEF Acquire
      <4>3. pc' \in [Ops -> Phases]
        BY <2>4, <3>2 DEF Acquire, Phases, Task
      <4>4. QED BY <4>1, <4>2, <4>3
    <3>3. QED BY <3>1, <3>2
  <2>5. ASSUME NEW o \in Ops, StartStep(o) PROVE TypeOK'
    BY <2>5 DEF StartStep, Steps
  <2>6. ASSUME NEW o \in Ops, Finish(o) PROVE TypeOK'
    BY <2>6 DEF Finish, Phases, Task, Steps
  <2>7. ASSUME NEW o \in Ops, Panic(o) PROVE TypeOK'
    BY <2>7 DEF Panic, Phases, Task
  <2>8. ASSUME NEW o \in Ops, ReleasePermit(o) PROVE TypeOK'
    <3>1. CASE waiters = <<>>
      BY <2>8, <3>1 DEF ReleasePermit, Phases, Task
    <3>2. CASE waiters # <<>>
      <4>1. Head(waiters) \in Ops /\ Tail(waiters) \in Seq(Ops)
        BY <3>2
      <4>2. QED BY <2>8, <3>2, <4>1 DEF ReleasePermit, Phases, Task
    <3>3. QED BY <3>1, <3>2
  <2>9. ASSUME NEW o \in Ops, DropTaskGuard(o) PROVE TypeOK'
    BY <2>9 DEF DropTaskGuard, Phases, Task
  <2>10. ASSUME NEW o \in Ops, DropPipelineGuard(o) PROVE TypeOK'
    BY <2>10 DEF DropPipelineGuard, Phases, Steps, Terminal
  <2>11. ASSUME NEW o \in Ops, GetStatus(o) PROVE TypeOK'
    <3>1. PICK i \in DOMAIN cache : cache' = Promote(i)
      BY <2>11 DEF GetStatus
    <3>2. Promote(i) \in Seq(Ops)
      <4>1. /\ SubSeq(cache, 1, i - 1) \in Seq(Ops)
            /\ SubSeq(cache, i + 1, Len(cache)) \in Seq(Ops)
            /\ <<cache[i]>> \in Seq(Ops)
        BY <3>1
      <4>2. QED BY <4>1 DEF Promote
    <3>3. QED BY <2>11, <3>1, <3>2 DEF GetStatus
  <2>12. CASE Restart
    BY <2>12 DEF Restart, Phases, Steps
  <2>13. CASE UNCHANGED vars
    BY <2>13 DEF vars
  <2>14. QED
    BY <2>1, <2>2, <2>3, <2>4, <2>5, <2>6, <2>7, <2>8, <2>9, <2>10, <2>11, <2>12, <2>13
    DEF Next, HandlerStep, TaskStep
<1>3. QED BY <1>1, <1>2, PTL DEF Spec

(* ------------------------------ Counting ------------------------------- *)

\* The calls that f puts in a phase of P.
At(f, P) == {q \in Ops : f[q] \in P}

Plus(x, P) == IF x \in P THEN 1 ELSE 0

\* Moving one call to phase x changes the number of calls in a set P of phases
\* by at most one, and says by how much.
LEMMA CountMove ==
  \A f \in [Ops -> Phases], o \in Ops : \A x, P, g :
     g = [f EXCEPT ![o] = x] =>
       /\ Cardinality(At(f, P)) \in Nat
       /\ Cardinality(At(g, P)) = Cardinality(At(f, P)) + Plus(x, P) - Plus(f[o], P)
<1> SUFFICES ASSUME NEW f \in [Ops -> Phases], NEW o \in Ops, NEW x, NEW P, NEW g,
                    g = [f EXCEPT ![o] = x]
             PROVE  /\ Cardinality(At(f, P)) \in Nat
                    /\ Cardinality(At(g, P)) = Cardinality(At(f, P))
                                               + Plus(x, P) - Plus(f[o], P)
  OBVIOUS
<1> DEFINE S == At(f, P)
           T == At(g, P)
           R == S \ {o}
<1>1. /\ IsFiniteSet(S) /\ IsFiniteSet(T) /\ IsFiniteSet(R)
  <2>1. S \subseteq Ops /\ T \subseteq Ops /\ R \subseteq Ops
    BY DEF At
  <2>2. QED BY <2>1, OpsAssumption, FS_Subset
<1>2. /\ Cardinality(S) \in Nat /\ Cardinality(T) \in Nat /\ Cardinality(R) \in Nat
  BY <1>1, FS_CardinalityType
<1>3. Cardinality(S) = Cardinality(R) + (IF f[o] \in P THEN 1 ELSE 0)
  <2>1. Cardinality(R) = IF o \in S THEN Cardinality(S) - 1 ELSE Cardinality(S)
    BY <1>1, FS_RemoveElement
  <2>2. o \in S <=> f[o] \in P
    BY DEF At
  <2> HIDE DEF S, R
  <2>3. QED BY <1>2, <2>1, <2>2
<1>4. Cardinality(T) = Cardinality(R) + (IF x \in P THEN 1 ELSE 0)
  <2>1. CASE x \in P
    <3>1. T = R \cup {o} /\ o \notin R
      BY <2>1 DEF At
    <3>2. Cardinality(R \cup {o}) = Cardinality(R) + 1
      BY <1>1, <3>1, FS_AddElement
    <3>3. QED BY <2>1, <3>1, <3>2
  <2>2. CASE x \notin P
    <3>1. T = R
      BY <2>2 DEF At
    <3>2. Cardinality(T) = Cardinality(R)
      BY <3>1
    <3> HIDE DEF T, R
    <3>3. QED BY <1>2, <2>2, <3>2
  <2>3. QED BY <2>1, <2>2
<1>5. QED
  <2> HIDE DEF S, T, R
  <2>1. /\ Cardinality(S) \in Nat
        /\ Cardinality(T) = Cardinality(S)
                            + (IF x \in P THEN 1 ELSE 0)
                            - (IF f[o] \in P THEN 1 ELSE 0)
    BY <1>2, <1>3, <1>4
  <2>2. QED BY <2>1 DEF S, T, Plus

\* The step moves call o, and only it, to phase x.
Moves(o, x) == pc' = [pc EXCEPT ![o] = x]

\* The effect of a step that moves one call on the four populations.
LEMMA Move ==
  ASSUME TypeOK, NEW o \in Ops, NEW x, Moves(o, x)
  PROVE  /\ {Cardinality(Guarded), Cardinality(Overfull), Cardinality(Holders)} \subseteq Nat
         /\ Cardinality(Guarded)' = Cardinality(Guarded)
                                    + Plus(x, SlotPhases) - Plus(pc[o], SlotPhases)
         /\ Cardinality(Overfull)' = Cardinality(Overfull)
                                     + Plus(x, {"overfull"}) - Plus(pc[o], {"overfull"})
         /\ Cardinality(Holders)' = Cardinality(Holders)
                                    + Plus(x, PermitPhases) - Plus(pc[o], PermitPhases)
<1>1. /\ Guarded = At(pc, SlotPhases) /\ Guarded' = At(pc', SlotPhases)
      /\ Overfull = At(pc, {"overfull"}) /\ Overfull' = At(pc', {"overfull"})
      /\ Holders = At(pc, PermitPhases) /\ Holders' = At(pc', PermitPhases)
  BY DEF Guarded, Overfull, Holders, In, At
<1>2. pc \in [Ops -> Phases]
  BY DEF TypeOK
<1>3. \A P : /\ Cardinality(At(pc, P)) \in Nat
             /\ Cardinality(At(pc', P)) = Cardinality(At(pc, P))
                                          + Plus(x, P) - Plus(pc[o], P)
  <2>1. \A y, P, g :
           g = [pc EXCEPT ![o] = y] =>
             /\ Cardinality(At(pc, P)) \in Nat
             /\ Cardinality(At(g, P)) = Cardinality(At(pc, P)) + Plus(y, P) - Plus(pc[o], P)
    BY <1>2, CountMove, Zenon
  <2>2. QED BY <2>1, Zenon DEF Moves
<1>4. QED BY <1>1, <1>3

\* A call in no population moves to none.
LEMMA NoPopulation ==
  ASSUME pc' = pc
  PROVE  /\ Guarded' = Guarded
         /\ Overfull' = Overfull
         /\ Holders' = Holders
         /\ \A P : In(P)' = In(P)
BY DEF Guarded, Overfull, Holders, In

(* ---------------------------- The semaphore ---------------------------- *)

Waiting   == In({"waiting"})
QueueSafe == TypeOK /\ PermitsConserved

\* A call that neither enters nor leaves the wait queue and holds a permit after
\* the step iff it did before does not disturb the semaphore.
LEMMA Unqueued ==
  ASSUME QueueSafe, NEW o \in Ops, NEW x, Moves(o, x),
         pc[o] # "waiting", x # "waiting",
         pc[o] \in PermitPhases <=> x \in PermitPhases,
         UNCHANGED <<permits, waiters>>
  PROVE  PermitsConserved'
<1>1. Waiting' = Waiting
  BY DEF Waiting, In, QueueSafe, TypeOK, Moves
<1>2. Cardinality(Holders)' = Cardinality(Holders)
  <2>1. Plus(x, PermitPhases) = Plus(pc[o], PermitPhases)
    BY DEF Plus
  <2>2. Plus(x, PermitPhases) \in Nat
    BY DEF Plus
  <2>3. QED BY <2>1, <2>2, Move DEF QueueSafe
<1>3. QED BY <1>1, <1>2 DEF QueueSafe, PermitsConserved, Waiting

\* A step that moves no call does not disturb it either.
LEMMA Unmoved ==
  ASSUME QueueSafe, UNCHANGED <<pc, permits, waiters>>
  PROVE  PermitsConserved'
BY NoPopulation DEF QueueSafe, PermitsConserved

\* The first poll of sem.acquire(): a free permit is taken, or the call joins
\* the queue once.
LEMMA AcquireSafe ==
  ASSUME QueueSafe, NEW o \in Ops, Acquire(o)
  PROVE  PermitsConserved'
<1> USE DEF QueueSafe
<1>1. CASE permits > 0
  <2>1. Moves(o, "running") /\ permits' = permits - 1
        /\ waiters' = waiters /\ pc[o] = "spawned" /\ waiters = <<>>
    BY <1>1 DEF Acquire, PermitsConserved, Moves
  <2>2. Waiting' = Waiting
    BY <2>1 DEF Waiting, In, TypeOK, Moves
  <2>3. Cardinality(Holders)' = Cardinality(Holders) + 1 /\ Cardinality(Holders) \in Nat
    <3>1. Plus("running", PermitPhases) = 1 /\ Plus(pc[o], PermitPhases) = 0
      BY <2>1 DEF Plus, PermitPhases
    <3>2. QED BY <2>1, <3>1, Move
  <2>4. QED BY <1>1, <2>1, <2>2, <2>3 DEF PermitsConserved, Waiting, TypeOK
<1>2. CASE permits = 0
  <2>1. Moves(o, "waiting") /\ permits' = permits
        /\ waiters' = Append(waiters, o) /\ pc[o] = "spawned"
    BY <1>2 DEF Acquire, Moves
  <2>2. Waiting' = Waiting \cup {o} /\ o \notin Waiting
    BY <2>1 DEF Waiting, In, TypeOK, Moves
  <2>3. Cardinality(Holders)' = Cardinality(Holders)
    <3>1. Plus("waiting", PermitPhases) = 0 /\ Plus(pc[o], PermitPhases) = 0
      BY <2>1 DEF Plus, PermitPhases
    <3>2. QED BY <2>1, <3>1, Move
  <2>4. /\ {waiters[i] : i \in DOMAIN waiters} = Waiting
        /\ \A i, j \in DOMAIN waiters : waiters[i] = waiters[j] => i = j
        /\ waiters \in Seq(Ops)
    BY DEF PermitsConserved, Waiting, TypeOK
  <2>5. /\ Len(waiters') = Len(waiters) + 1 /\ Len(waiters) \in Nat
        /\ DOMAIN waiters' = 1..Len(waiters) + 1 /\ DOMAIN waiters = 1..Len(waiters)
        /\ \A i \in 1..Len(waiters) : waiters'[i] = waiters[i]
        /\ waiters'[Len(waiters) + 1] = o
    BY <2>1, <2>4
  <2>6. {waiters'[i] : i \in DOMAIN waiters'} = Waiting'
    <3>1. \A q \in Waiting : \E i \in 1..Len(waiters) : q = waiters[i]
      BY <2>4, <2>5
    <3>2. QED BY <2>2, <2>4, <2>5, <3>1
  <2>7. \A i, j \in DOMAIN waiters' : waiters'[i] = waiters'[j] => i = j
    <3>1. \A i \in 1..Len(waiters) : waiters[i] # o
      BY <2>2, <2>4, <2>5
    <3>2. QED BY <2>4, <2>5, <3>1
  <2>8. QED
    BY <1>2, <2>1, <2>3, <2>6, <2>7 DEF PermitsConserved, Waiting
<1>3. QED BY <1>1, <1>2 DEF TypeOK, Acquire

\* A permit handed from the task that ends to the oldest waiter: the waiter is
\* another task, it leaves the queue, and the populations keep their sizes.
LEMMA Handover ==
  ASSUME QueueSafe, NEW o \in Ops, ReleasePermit(o), waiters # <<>>
  PROVE  /\ Guarded' = Guarded
         /\ Overfull' = Overfull
         /\ Cardinality(Holders)' = Cardinality(Holders)
         /\ Waiting' = Waiting \ {Head(waiters)}
<1> DEFINE h == Head(waiters)
<1>1. h \in Ops /\ pc[h] = "waiting"
  <2>1. h = waiters[1] /\ 1 \in DOMAIN waiters
    BY DEF QueueSafe, TypeOK
  <2>2. h \in Waiting
    BY <2>1 DEF QueueSafe, PermitsConserved, Waiting
  <2>3. QED BY <2>2 DEF Waiting, In
<1>2. pc[o] = "exiting"
  BY DEF ReleasePermit
<1> HIDE DEF h
<1>3. \A q \in Ops : pc'[q] = IF q = h THEN "running" ELSE IF q = o THEN "released" ELSE pc[q]
  <2>1. pc' = [pc EXCEPT ![o] = "released", ![h] = "running"]
    BY DEF ReleasePermit, h
  <2>2. QED BY <1>1, <2>1 DEF QueueSafe, TypeOK
<1>4. Guarded' = Guarded /\ Overfull' = Overfull
  BY <1>1, <1>2, <1>3 DEF Guarded, Overfull, In, SlotPhases
<1>5. Waiting' = Waiting \ {h}
  BY <1>1, <1>2, <1>3 DEF Waiting, In
<1>6. Cardinality(Holders)' = Cardinality(Holders)
  <2>1. Holders' = (Holders \ {o}) \cup {h} /\ o \in Holders /\ h \notin Holders
    BY <1>1, <1>2, <1>3 DEF Holders, In, PermitPhases
  <2>2. IsFiniteSet(Holders)
    <3>1. Holders \subseteq Ops
      BY DEF Holders, In
    <3>2. QED BY <3>1, OpsAssumption, FS_Subset
  <2>3. /\ IsFiniteSet(Holders \ {o})
        /\ Cardinality(Holders \ {o}) = Cardinality(Holders) - 1
    BY <2>1, <2>2, FS_RemoveElement
  <2>4. Cardinality((Holders \ {o}) \cup {h}) = Cardinality(Holders \ {o}) + 1
    BY <2>1, <2>3, FS_AddElement
  <2>5. Cardinality(Holders) \in Nat
    BY <2>2, FS_CardinalityType
  <2>6. Cardinality(Holders') = Cardinality(Holders)
    BY <2>1, <2>3, <2>4, <2>5
  <2>7. QED BY <2>6
<1>7. QED BY <1>4, <1>5, <1>6 DEF h

\* The end of a body gives the permit back, or over, exactly once.
LEMMA ReleaseSafe ==
  ASSUME QueueSafe, NEW o \in Ops, ReleasePermit(o)
  PROVE  PermitsConserved'
<1>1. CASE waiters = <<>>
  <2>1. Moves(o, "released") /\ permits' = permits + 1
        /\ waiters' = <<>> /\ pc[o] = "exiting"
    BY <1>1 DEF ReleasePermit, Moves
  <2>2. Waiting' = Waiting
    BY <2>1 DEF Waiting, In, QueueSafe, TypeOK, Moves
  <2>3. Cardinality(Holders)' = Cardinality(Holders) - 1 /\ Cardinality(Holders) \in Nat
    <3>1. Plus("released", PermitPhases) = 0 /\ Plus(pc[o], PermitPhases) = 1
      BY <2>1 DEF Plus, PermitPhases
    <3>2. QED BY <2>1, <3>1, Move DEF QueueSafe
  <2>4. QED
    BY <1>1, <2>1, <2>2, <2>3 DEF QueueSafe, PermitsConserved, Waiting, TypeOK
<1>2. CASE waiters # <<>>
  <2>1. permits' = permits /\ waiters' = Tail(waiters)
    BY <1>2 DEF ReleasePermit
  <2>2. /\ {waiters[i] : i \in DOMAIN waiters} = Waiting
        /\ \A i, j \in DOMAIN waiters : waiters[i] = waiters[j] => i = j
        /\ permits + Cardinality(Holders) = Permits
        /\ permits > 0 => waiters = <<>>
        /\ permits \in Nat
        /\ waiters \in Seq(Ops)
    BY DEF QueueSafe, PermitsConserved, Waiting, TypeOK
  <2>3. /\ DOMAIN waiters = 1..Len(waiters) /\ Len(waiters) \in Nat \ {0}
        /\ Head(waiters) = waiters[1]
        /\ waiters' \in Seq(Ops) /\ DOMAIN waiters' = 1..Len(waiters) - 1
        /\ \A i \in 1..Len(waiters) - 1 : waiters'[i] = waiters[i + 1]
    BY <1>2, <2>1, <2>2
  <2>4. \A i, j \in DOMAIN waiters' : waiters'[i] = waiters'[j] => i = j
    <3> SUFFICES ASSUME NEW i \in 1..Len(waiters) - 1, NEW j \in 1..Len(waiters) - 1,
                        waiters'[i] = waiters'[j]
                 PROVE  i = j
      BY <2>3, Zenon
    <3>1. waiters[i + 1] = waiters[j + 1]
      BY <2>3, Zenon
    <3>2. i + 1 \in DOMAIN waiters /\ j + 1 \in DOMAIN waiters
      BY <2>3
    <3>3. i + 1 = j + 1
      BY <2>2, <3>1, <3>2, Zenon
    <3>4. QED BY <3>3, <2>3
  <2>5. {waiters'[i] : i \in DOMAIN waiters'} = Waiting \ {waiters[1]}
    <3>1. ASSUME NEW q \in Waiting, q # waiters[1]
          PROVE  \E i \in DOMAIN waiters' : q = waiters'[i]
      <4>1. PICK i \in 1..Len(waiters) : q = waiters[i]
        BY <2>2, <2>3, <3>1
      <4>2. i - 1 \in 1..Len(waiters) - 1 /\ waiters'[i - 1] = q
        BY <2>3, <3>1, <4>1
      <4>3. QED BY <2>3, <4>2
    <3>2. ASSUME NEW i \in DOMAIN waiters'
          PROVE  waiters'[i] \in Waiting \ {waiters[1]}
      BY <2>2, <2>3
    <3>3. QED BY <3>1, <3>2
  <2>6. Waiting' = Waiting \ {waiters[1]} /\ Cardinality(Holders)' = Cardinality(Holders)
    BY <1>2, <2>3, Handover
  <2>7. QED
    BY <2>1, <2>2, <2>4, <2>5, <2>6, <1>2 DEF PermitsConserved, Waiting
<1>3. QED BY <1>1, <1>2

\* No permit is lost or duplicated, the wait queue is exactly the waiting tasks,
\* and nobody waits while a permit is free, in every reachable state.
THEOREM PermitsSafe == Spec => []PermitsConserved
<1> USE LimitsAssumption
<1>1. Init => PermitsConserved
  <2> SUFFICES ASSUME Init PROVE PermitsConserved
    OBVIOUS
  <2>1. Holders = {} /\ In({"waiting"}) = {}
    BY DEF Init, Holders, In, PermitPhases
  <2>2. Cardinality(Holders) = 0
    BY <2>1, FS_EmptySet
  <2>3. QED BY <2>1, <2>2 DEF Init, PermitsConserved
<1>2. QueueSafe /\ [Next]_vars => PermitsConserved'
  <2> SUFFICES ASSUME QueueSafe, [Next]_vars PROVE PermitsConserved'
    OBVIOUS
  <2>1. ASSUME NEW o \in Ops, Claim(o) PROVE PermitsConserved'
    <3>1. CASE counter >= MaxPending
      <4>1. Moves(o, "overfull")
        BY <2>1, <3>1 DEF Claim, Moves
      <4>2. QED BY <2>1, <4>1, Unqueued DEF Claim, PermitPhases
    <3>2. CASE ~(counter >= MaxPending)
      <4>1. Moves(o, "admitted")
        BY <2>1, <3>2 DEF Claim, Moves
      <4>2. QED BY <2>1, <4>1, Unqueued DEF Claim, PermitPhases
    <3>3. QED BY <3>1, <3>2
  <2>2. ASSUME NEW o \in Ops, UndoClaim(o) PROVE PermitsConserved'
    <3>1. Moves(o, "busy")
      BY <2>2 DEF UndoClaim, Moves
    <3>2. QED BY <2>2, <3>1, Unqueued DEF UndoClaim, PermitPhases
  <2>3. ASSUME NEW o \in Ops, Register(o) PROVE PermitsConserved'
    <3>1. Moves(o, "spawned")
      BY <2>3 DEF Register, Moves
    <3>2. QED BY <2>3, <3>1, Unqueued DEF Register, PermitPhases
  <2>4. ASSUME NEW o \in Ops, Acquire(o) PROVE PermitsConserved'
    BY <2>4, AcquireSafe
  <2>5. ASSUME NEW o \in Ops, StartStep(o) PROVE PermitsConserved'
    BY <2>5, Unmoved DEF StartStep
  <2>6. ASSUME NEW o \in Ops, Finish(o) \/ Panic(o) PROVE PermitsConserved'
    <3>1. Moves(o, "exiting")
      BY <2>6 DEF Finish, Panic, Moves
    <3>2. QED BY <2>6, <3>1, Unqueued DEF Finish, Panic, PermitPhases
  <2>7. ASSUME NEW o \in Ops, ReleasePermit(o) PROVE PermitsConserved'
    BY <2>7, ReleaseSafe
  <2>8. ASSUME NEW o \in Ops, DropTaskGuard(o) PROVE PermitsConserved'
    <3>1. Moves(o, "uncounted")
      BY <2>8 DEF DropTaskGuard, Moves
    <3>2. QED BY <2>8, <3>1, Unqueued DEF DropTaskGuard, PermitPhases
  <2>9. ASSUME NEW o \in Ops, DropPipelineGuard(o) PROVE PermitsConserved'
    <3>1. Moves(o, "done")
      BY <2>9 DEF DropPipelineGuard, Moves
    <3>2. QED BY <2>9, <3>1, Unqueued DEF DropPipelineGuard, PermitPhases
  <2>10. ASSUME NEW o \in Ops, GetStatus(o) PROVE PermitsConserved'
    BY <2>10, Unmoved DEF GetStatus
  <2>11. CASE Restart
    <3>1. permits' = Permits /\ waiters' = <<>>
      BY <2>11 DEF Restart
    <3>2. \A q \in Ops : pc'[q] \notin Task
      BY <2>11 DEF Restart, Handler, Task
    <3>3. Holders' = {} /\ In({"waiting"})' = {}
      BY <3>2 DEF Holders, In, PermitPhases, Task
    <3>4. Cardinality(Holders') = 0
      BY <3>3, FS_EmptySet
    <3>5. QED BY <3>1, <3>3, <3>4 DEF PermitsConserved
  <2>12. CASE UNCHANGED vars
    BY <2>12, Unmoved DEF vars
  <2>13. QED
    BY <2>1, <2>2, <2>3, <2>4, <2>5, <2>6, <2>7, <2>8, <2>9, <2>10, <2>11, <2>12
    DEF Next, HandlerStep, TaskStep
<1>3. QED BY <1>1, <1>2, TypeCorrect, PTL DEF Spec, QueueSafe

(* ------------------------------ Admission ------------------------------ *)

\* The counter is exact, and the cap holds because a claim is admitted only on a
\* counter below it, and the counter is at least the number of slots held.
SlotsSafe == CounterAccounts /\ AdmissionBound

\* A step that neither gives nor takes a slot, nor enters or leaves try_enqueue.
LEMMA SameSlots ==
  ASSUME TypeOK, SlotsSafe, NEW o \in Ops, NEW x, Moves(o, x), counter' = counter,
         pc[o] \in SlotPhases <=> x \in SlotPhases,
         pc[o] # "overfull", x # "overfull"
  PROVE  SlotsSafe'
<1>1. /\ Plus(x, SlotPhases) = Plus(pc[o], SlotPhases) /\ Plus(x, SlotPhases) \in Nat
      /\ Plus(x, {"overfull"}) = 0 /\ Plus(pc[o], {"overfull"}) = 0
  BY DEF Plus
<1>2. Cardinality(Guarded)' = Cardinality(Guarded) /\ Cardinality(Overfull)' = Cardinality(Overfull)
  BY <1>1, Move
<1>3. QED BY <1>2 DEF SlotsSafe, CounterAccounts, AdmissionBound

\* However the claims, refusals and exits interleave, at most MaxPending calls
\* hold a slot, and the counter says exactly how many do.
THEOREM AdmissionSafe == Spec => [](CounterAccounts /\ AdmissionBound)
<1> USE LimitsAssumption
<1>1. Init => SlotsSafe
  <2> SUFFICES ASSUME Init PROVE SlotsSafe
    OBVIOUS
  <2>1. Guarded = {} /\ Overfull = {}
    BY DEF Init, Guarded, Overfull, In, SlotPhases
  <2>2. Cardinality(Guarded) = 0 /\ Cardinality(Overfull) = 0
    BY <2>1, FS_EmptySet
  <2>3. QED BY <2>2 DEF Init, SlotsSafe, CounterAccounts, AdmissionBound
<1>2. QueueSafe /\ SlotsSafe /\ [Next]_vars => SlotsSafe'
  <2> SUFFICES ASSUME QueueSafe, SlotsSafe, [Next]_vars PROVE SlotsSafe'
    OBVIOUS
  <2>0. TypeOK /\ counter \in Int
    BY DEF QueueSafe, TypeOK
  <2>1. ASSUME NEW o \in Ops, Claim(o) PROVE SlotsSafe'
    <3>1. counter' = counter + 1 /\ pc[o] = "idle"
      BY <2>1 DEF Claim
    <3>2. Plus(pc[o], SlotPhases) = 0 /\ Plus(pc[o], {"overfull"}) = 0
      BY <3>1 DEF Plus, SlotPhases
    <3>3. CASE counter >= MaxPending
      <4>1. Moves(o, "overfull")
        BY <2>1, <3>3 DEF Claim, Moves
      <4>2. Plus("overfull", SlotPhases) = 0 /\ Plus("overfull", {"overfull"}) = 1
        BY DEF Plus, SlotPhases
      <4>3. QED
        BY <2>0, <3>1, <3>2, <4>1, <4>2, Move DEF SlotsSafe, CounterAccounts, AdmissionBound
    <3>4. CASE ~(counter >= MaxPending)
      <4>1. Moves(o, "admitted")
        BY <2>1, <3>4 DEF Claim, Moves
      <4>2. Plus("admitted", SlotPhases) = 1 /\ Plus("admitted", {"overfull"}) = 0
        BY DEF Plus, SlotPhases
      <4>3. QED
        BY <2>0, <3>1, <3>2, <3>4, <4>1, <4>2, Move
        DEF SlotsSafe, CounterAccounts, AdmissionBound
    <3>5. QED BY <3>3, <3>4
  <2>2. ASSUME NEW o \in Ops, UndoClaim(o) PROVE SlotsSafe'
    <3>1. counter' = counter - 1 /\ pc[o] = "overfull" /\ Moves(o, "busy")
      BY <2>2 DEF UndoClaim, Moves
    <3>2. /\ Plus("busy", SlotPhases) = 0 /\ Plus("busy", {"overfull"}) = 0
          /\ Plus(pc[o], SlotPhases) = 0 /\ Plus(pc[o], {"overfull"}) = 1
      BY <3>1 DEF Plus, SlotPhases
    <3>3. QED BY <2>0, <3>1, <3>2, Move DEF SlotsSafe, CounterAccounts, AdmissionBound
  <2>3. ASSUME NEW o \in Ops, Register(o) PROVE SlotsSafe'
    <3>1. Moves(o, "spawned")
      BY <2>3 DEF Register, Moves
    <3>2. QED BY <2>0, <2>3, <3>1, SameSlots DEF Register, SlotPhases
  <2>4. ASSUME NEW o \in Ops, Acquire(o) PROVE SlotsSafe'
    <3>1. CASE permits > 0
      <4>1. Moves(o, "running")
        BY <2>4, <3>1 DEF Acquire, Moves
      <4>2. QED BY <2>0, <2>4, <4>1, SameSlots DEF Acquire, SlotPhases
    <3>2. CASE permits = 0
      <4>1. Moves(o, "waiting")
        BY <2>4, <3>2 DEF Acquire, Moves
      <4>2. QED BY <2>0, <2>4, <4>1, SameSlots DEF Acquire, SlotPhases
    <3>3. QED BY <2>4, <3>1, <3>2 DEF Acquire
  <2>5. ASSUME NEW o \in Ops, StartStep(o) \/ GetStatus(o) PROVE SlotsSafe'
    <3>1. UNCHANGED <<pc, counter>>
      BY <2>5 DEF StartStep, GetStatus
    <3>2. QED BY <3>1, NoPopulation DEF SlotsSafe, CounterAccounts, AdmissionBound
  <2>6. ASSUME NEW o \in Ops, Finish(o) \/ Panic(o) PROVE SlotsSafe'
    <3>1. Moves(o, "exiting")
      BY <2>6 DEF Finish, Panic, Moves
    <3>2. QED BY <2>0, <2>6, <3>1, SameSlots DEF Finish, Panic, SlotPhases
  <2>7. ASSUME NEW o \in Ops, ReleasePermit(o) PROVE SlotsSafe'
    <3>1. CASE waiters = <<>>
      <4>1. Moves(o, "released")
        BY <2>7, <3>1 DEF ReleasePermit, Moves
      <4>2. QED BY <2>0, <2>7, <4>1, SameSlots DEF ReleasePermit, SlotPhases
    <3>2. CASE waiters # <<>>
      <4>1. Guarded' = Guarded /\ Overfull' = Overfull /\ counter' = counter
        BY <2>7, <3>2, Handover DEF ReleasePermit
      <4>2. QED BY <4>1 DEF SlotsSafe, CounterAccounts, AdmissionBound
    <3>3. QED BY <3>1, <3>2
  <2>8. ASSUME NEW o \in Ops, DropTaskGuard(o) PROVE SlotsSafe'
    <3>1. counter' = counter - 1 /\ pc[o] = "released" /\ Moves(o, "uncounted")
      BY <2>8 DEF DropTaskGuard, Moves
    <3>2. /\ Plus("uncounted", SlotPhases) = 0 /\ Plus("uncounted", {"overfull"}) = 0
          /\ Plus(pc[o], SlotPhases) = 1 /\ Plus(pc[o], {"overfull"}) = 0
      BY <3>1 DEF Plus, SlotPhases
    <3>3. QED BY <2>0, <3>1, <3>2, Move DEF SlotsSafe, CounterAccounts, AdmissionBound
  <2>9. ASSUME NEW o \in Ops, DropPipelineGuard(o) PROVE SlotsSafe'
    <3>1. Moves(o, "done")
      BY <2>9 DEF DropPipelineGuard, Moves
    <3>2. QED BY <2>0, <2>9, <3>1, SameSlots DEF DropPipelineGuard, SlotPhases
  <2>10. CASE Restart
    <3>1. counter' = 0
      BY <2>10 DEF Restart
    <3>2. \A q \in Ops : pc'[q] \notin Handler \cup Task
      BY <2>10 DEF Restart, Handler, Task
    <3>3. Guarded' = {} /\ Overfull' = {}
      BY <3>2 DEF Guarded, Overfull, In, SlotPhases, Handler, Task
    <3>4. Cardinality(Guarded') = 0 /\ Cardinality(Overfull') = 0
      BY <3>3, FS_EmptySet
    <3>5. QED BY <3>1, <3>4 DEF SlotsSafe, CounterAccounts, AdmissionBound
  <2>11. CASE UNCHANGED vars
    <3>1. UNCHANGED <<pc, counter>>
      BY <2>11 DEF vars
    <3>2. QED BY <3>1, NoPopulation DEF SlotsSafe, CounterAccounts, AdmissionBound
  <2>12. QED
    BY <2>1, <2>2, <2>3, <2>4, <2>5, <2>6, <2>7, <2>8, <2>9, <2>10, <2>11
    DEF Next, HandlerStep, TaskStep
<1>3. QED BY <1>1, <1>2, TypeCorrect, PermitsSafe, PTL DEF Spec, QueueSafe, SlotsSafe

(* ------------------------------ Outcomes ------------------------------- *)

\* What the reported step can be in the phases before a body ends.
StatusFollowsPhase ==
  \A o \in Ops :
    /\ pc[o] \in {"idle", "overfull", "busy", "admitted", "lost"} => status[o] = "none"
    /\ pc[o] \in {"spawned", "waiting"} => status[o] = "queued"
    /\ pc[o] = "running" => status[o] \in {"queued", "working"}

\* The oldest waiter, when there is one, is a waiting call.
LEMMA HeadWaits ==
  ASSUME QueueSafe, waiters # <<>>
  PROVE  Head(waiters) \in Ops /\ pc[Head(waiters)] = "waiting"
<1>1. Head(waiters) = waiters[1] /\ 1 \in DOMAIN waiters
  BY DEF QueueSafe, TypeOK
<1>2. Head(waiters) \in In({"waiting"})
  BY <1>1 DEF QueueSafe, PermitsConserved
<1>3. QED BY <1>2 DEF In

\* What handing the permit on does to each phase.
LEMMA ReleasePhases ==
  ASSUME QueueSafe, NEW o \in Ops, ReleasePermit(o), NEW q \in Ops
  PROVE  \/ pc'[q] = pc[q]
         \/ q = o /\ pc[q] = "exiting" /\ pc'[q] = "released"
         \/ pc[q] = "waiting" /\ pc'[q] = "running"
<1>0. pc \in [Ops -> Phases] /\ pc[o] = "exiting"
  BY DEF QueueSafe, TypeOK, ReleasePermit
<1>1. CASE waiters = <<>>
  <2>1. pc' = [pc EXCEPT ![o] = "released"]
    BY <1>1 DEF ReleasePermit
  <2>2. QED BY <1>0, <2>1
<1>2. CASE waiters # <<>>
  <2>1. PICK h \in Ops : h = Head(waiters) /\ pc[h] = "waiting"
    BY <1>2, HeadWaits
  <2>2. pc' = [pc EXCEPT ![o] = "released", ![h] = "running"]
    BY <1>2, <2>1 DEF ReleasePermit
  <2>3. QED BY <1>0, <2>1, <2>2
<1>3. QED BY <1>1, <1>2

\* The reported step follows the phase of the task in every reachable state.
LEMMA StatusSafe == Spec => []StatusFollowsPhase
<1>1. Init => StatusFollowsPhase
  BY DEF Init, StatusFollowsPhase
<1>2. QueueSafe /\ StatusFollowsPhase /\ [Next]_vars => StatusFollowsPhase'
  <2> SUFFICES ASSUME QueueSafe, StatusFollowsPhase, [Next]_vars
               PROVE  StatusFollowsPhase'
    OBVIOUS
  <2>0. pc \in [Ops -> Phases] /\ status \in [Ops -> Steps]
    BY DEF QueueSafe, TypeOK
  <2> USE DEF StatusFollowsPhase
  <2>1. ASSUME NEW o \in Ops, Claim(o) \/ UndoClaim(o) PROVE StatusFollowsPhase'
    BY <2>0, <2>1 DEF Claim, UndoClaim
  <2>2. ASSUME NEW o \in Ops, Register(o) PROVE StatusFollowsPhase'
    BY <2>0, <2>2 DEF Register
  <2>3. ASSUME NEW o \in Ops, Acquire(o) PROVE StatusFollowsPhase'
    BY <2>0, <2>3 DEF Acquire
  <2>4. ASSUME NEW o \in Ops, StartStep(o) PROVE StatusFollowsPhase'
    BY <2>0, <2>4 DEF StartStep
  <2>5. ASSUME NEW o \in Ops, Finish(o) \/ Panic(o) PROVE StatusFollowsPhase'
    BY <2>0, <2>5 DEF Finish, Panic
  <2>6. ASSUME NEW o \in Ops, ReleasePermit(o) PROVE StatusFollowsPhase'
    <3>1. status' = status
      BY <2>6 DEF ReleasePermit
    <3>2. QED BY <2>6, <3>1, ReleasePhases
  <2>7. ASSUME NEW o \in Ops, DropTaskGuard(o) \/ DropPipelineGuard(o)
        PROVE  StatusFollowsPhase'
    BY <2>0, <2>7 DEF DropTaskGuard, DropPipelineGuard
  <2>8. ASSUME NEW o \in Ops, GetStatus(o) PROVE StatusFollowsPhase'
    BY <2>8 DEF GetStatus
  <2>9. CASE Restart
    BY <2>9 DEF Restart, Handler, Task
  <2>10. CASE UNCHANGED vars
    BY <2>10 DEF vars
  <2>11. QED
    BY <2>1, <2>2, <2>3, <2>4, <2>5, <2>6, <2>7, <2>8, <2>9, <2>10
    DEF Next, HandlerStep, TaskStep
<1>3. QED BY <1>1, <1>2, TypeCorrect, PermitsSafe, PTL DEF Spec, QueueSafe

\* An outcome once reported is never overwritten while the process lives.
THEOREM OutcomeKept == Spec => OutcomeIsFinal
<1> DEFINE Kept == \A o \in Ops : status[o] \in Terminal /\ restarts' = restarts
                                    => status'[o] = status[o]
<1>1. QueueSafe /\ StatusFollowsPhase /\ [Next]_vars => Kept
  <2> SUFFICES ASSUME QueueSafe, StatusFollowsPhase, [Next]_vars PROVE Kept
    OBVIOUS
  <2>0. status \in [Ops -> Steps] /\ restarts \in Nat
    BY DEF QueueSafe, TypeOK
  <2>1. ASSUME NEW o \in Ops, Register(o) PROVE Kept
    BY <2>0, <2>1 DEF Register, StatusFollowsPhase, Terminal
  <2>2. ASSUME NEW o \in Ops, StartStep(o) PROVE Kept
    BY <2>0, <2>2 DEF StartStep, Terminal
  <2>3. ASSUME NEW o \in Ops, Finish(o) PROVE Kept
    <3>1. status[o] \notin Terminal
      BY <2>3 DEF Finish, StatusFollowsPhase, Terminal
    <3>2. QED BY <2>0, <2>3, <3>1 DEF Finish
  <2>4. ASSUME NEW o \in Ops, DropPipelineGuard(o) PROVE Kept
    BY <2>0, <2>4 DEF DropPipelineGuard
  <2>5. ASSUME status' = status PROVE Kept
    BY <2>5
  <2>6. CASE Restart
    BY <2>0, <2>6 DEF Restart
  <2>7. QED
    BY <2>1, <2>2, <2>3, <2>4, <2>5, <2>6
    DEF Next, HandlerStep, TaskStep, Claim, UndoClaim, Acquire, Panic, ReleasePermit,
        DropTaskGuard, GetStatus, vars
<1>2. QED BY <1>1, TypeCorrect, PermitsSafe, StatusSafe, PTL DEF Spec, QueueSafe, OutcomeIsFinal

\* A record that a client can read belongs to a task that exists or is over, and
\* a pipeline task that is over has an outcome in it.
THEOREM RecordsHonest == Spec => []NoPhantomRecord
<1> USE LimitsAssumption
<1>1. Init => NoPhantomRecord
  BY DEF Init, NoPhantomRecord, Recorded
<1>2. QueueSafe /\ NoPhantomRecord /\ [Next]_vars => NoPhantomRecord'
  <2> SUFFICES ASSUME QueueSafe, NoPhantomRecord, [Next]_vars PROVE NoPhantomRecord'
    OBVIOUS
  <2>0. /\ pc \in [Ops -> Phases] /\ status \in [Ops -> Steps] /\ cache \in Seq(Ops)
        /\ Recorded \subseteq Ops
    BY DEF QueueSafe, TypeOK, Recorded
  <2>a. ASSUME Recorded' = Recorded, status' = status,
               \A q \in Recorded : (pc[q] \in Task /\ pc'[q] \in Task) \/ pc'[q] = pc[q]
        PROVE  NoPhantomRecord'
    BY <2>a DEF NoPhantomRecord, Task
  <2>1. ASSUME NEW o \in Ops, Claim(o) \/ UndoClaim(o) PROVE NoPhantomRecord'
    <3>1. pc[o] \notin Task \cup {"done"}
      BY <2>1 DEF Claim, UndoClaim, Task
    <3>2. o \notin Recorded
      BY <3>1 DEF NoPhantomRecord
    <3>3. Recorded' = Recorded /\ status' = status
      BY <2>1 DEF Claim, UndoClaim, Recorded
    <3>4. \A q \in Ops : q # o => pc'[q] = pc[q]
      BY <2>0, <2>1 DEF Claim, UndoClaim
    <3>5. QED BY <2>0, <2>a, <3>2, <3>3, <3>4
  <2>2. ASSUME NEW o \in Ops, Register(o) PROVE NoPhantomRecord'
    <3>1. Recorded' \subseteq Recorded \cup {o}
      <4>1. CASE Len(cache) < CacheCap
        <5>1. cache' = <<o>> \o cache
          BY <2>2, <4>1 DEF Register, Put
        <5>2. QED BY <2>0, <5>1 DEF Recorded
      <4>2. CASE ~(Len(cache) < CacheCap)
        <5>1. cache' = <<o>> \o SubSeq(cache, 1, CacheCap - 1)
          BY <2>2, <4>2 DEF Register, Put
        <5>2. CacheCap - 1 <= Len(cache)
          BY <2>0, <4>2
        <5>3. QED BY <2>0, <5>1, <5>2 DEF Recorded
      <4>3. QED BY <4>1, <4>2
    <3>2. pc'[o] = "spawned" /\ \A q \in Ops : q # o => pc'[q] = pc[q] /\ status'[q] = status[q]
      BY <2>0, <2>2 DEF Register
    <3>3. QED BY <2>0, <3>1, <3>2 DEF NoPhantomRecord, Task
  <2>3. ASSUME NEW o \in Ops, Acquire(o) PROVE NoPhantomRecord'
    <3>1. Recorded' = Recorded /\ status' = status
      BY <2>3 DEF Acquire, Recorded
    <3>2. \A q \in Ops : q # o => pc'[q] = pc[q]
      BY <2>0, <2>3 DEF Acquire
    <3>3. pc[o] \in Task /\ pc'[o] \in Task
      BY <2>0, <2>3 DEF Acquire, Task
    <3>4. QED BY <2>0, <2>a, <3>1, <3>2, <3>3
  <2>4. ASSUME NEW o \in Ops, StartStep(o) PROVE NoPhantomRecord'
    <3>1. pc[o] = "running" /\ pc' = pc
      BY <2>4 DEF StartStep
    <3>2. Recorded' = Recorded /\ \A q \in Ops : q # o => status'[q] = status[q]
      BY <2>0, <2>4 DEF StartStep, Recorded
    <3>3. QED BY <2>0, <3>1, <3>2 DEF NoPhantomRecord
  <2>5. ASSUME NEW o \in Ops, Finish(o) \/ Panic(o) PROVE NoPhantomRecord'
    <3>1. pc'[o] = "exiting" /\ \A q \in Ops : q # o => pc'[q] = pc[q]
      BY <2>0, <2>5 DEF Finish, Panic
    <3>2. Recorded' = Recorded /\ \A q \in Ops : q # o => status'[q] = status[q]
      BY <2>0, <2>5 DEF Finish, Panic, Recorded
    <3>3. QED BY <2>0, <3>1, <3>2 DEF NoPhantomRecord, Task
  <2>6. ASSUME NEW o \in Ops, ReleasePermit(o) PROVE NoPhantomRecord'
    <3>1. Recorded' = Recorded /\ status' = status
      BY <2>6 DEF ReleasePermit, Recorded
    <3>2. \A q \in Ops : (pc[q] \in Task /\ pc'[q] \in Task) \/ pc'[q] = pc[q]
      BY <2>6, ReleasePhases DEF Task
    <3>3. QED BY <2>0, <2>a, <3>1, <3>2
  <2>7. ASSUME NEW o \in Ops, DropTaskGuard(o) PROVE NoPhantomRecord'
    <3>1. Recorded' = Recorded /\ status' = status
      BY <2>7 DEF DropTaskGuard, Recorded
    <3>2. /\ pc[o] \in Task /\ pc'[o] \in Task
          /\ \A q \in Ops : q # o => pc'[q] = pc[q]
      BY <2>0, <2>7 DEF DropTaskGuard, Task
    <3>3. QED BY <2>0, <2>a, <3>1, <3>2
  <2>8. ASSUME NEW o \in Ops, DropPipelineGuard(o) PROVE NoPhantomRecord'
    <3>1. pc'[o] = "done" /\ \A q \in Ops : q # o => pc'[q] = pc[q] /\ status'[q] = status[q]
      BY <2>0, <2>8 DEF DropPipelineGuard
    <3>2. Recorded' = Recorded
      BY <2>8 DEF DropPipelineGuard, Recorded
    <3>3. o \in PipelineOps => status'[o] \in Terminal
      BY <2>0, <2>8 DEF DropPipelineGuard, Terminal
    <3>4. QED BY <2>0, <3>1, <3>2, <3>3 DEF NoPhantomRecord
  <2>9. ASSUME NEW o \in Ops, GetStatus(o) PROVE NoPhantomRecord'
    <3>1. PICK i \in DOMAIN cache : cache' = Promote(i)
      BY <2>9 DEF GetStatus
    <3>2. i \in 1..Len(cache) /\ Len(cache) \in Nat
      BY <2>0
    <3>3. Recorded' \subseteq Recorded
      <4> DEFINE before == SubSeq(cache, 1, i - 1)
                 after  == SubSeq(cache, i + 1, Len(cache))
      <4>1. /\ before \in Seq(Ops) /\ Len(before) = i - 1
            /\ \A j \in 1..i - 1 : before[j] = cache[j]
        BY <2>0, <3>2
      <4>2. /\ after \in Seq(Ops) /\ Len(after) = Len(cache) - i
            /\ \A j \in 1..Len(cache) - i : after[j] = cache[i + j]
        BY <2>0, <3>2
      <4> HIDE DEF before, after
      <4>3. cache' = <<cache[i]>> \o before \o after
        BY <3>1 DEF Promote, before, after
      <4> DEFINE front == <<cache[i]>> \o before
      <4>a. /\ front \in Seq(Ops) /\ Len(front) = i
            /\ front[1] = cache[i] /\ \A j \in 2..i : front[j] = before[j - 1]
        BY <2>0, <3>2, <4>1
      <4> HIDE DEF front
      <4>b. \A j \in 1..i : \E m \in 1..Len(cache) : front[j] = cache[m]
        <5> TAKE j \in 1..i
        <5>1. CASE j = 1
          BY <3>2, <4>a, <5>1
        <5>2. CASE j # 1
          <6>1. j - 1 \in 1..i - 1 /\ j - 1 \in 1..Len(cache) /\ j \in 2..i
            BY <3>2, <5>2
          <6>2. QED BY <4>1, <4>a, <6>1
        <5>3. QED BY <5>1, <5>2
      <4>c. /\ DOMAIN cache' = 1..Len(cache)
            /\ \A k \in 1..Len(cache) :
                 cache'[k] = IF k <= i THEN front[k] ELSE after[k - i]
        <5>1. cache' = front \o after
          BY <4>3 DEF front
        <5>2. QED BY <2>0, <3>2, <4>2, <4>a, <5>1
      <4>4. \A k \in DOMAIN cache' : \E j \in 1..Len(cache) : cache'[k] = cache[j]
        <5> TAKE k \in DOMAIN cache'
        <5>1. CASE k <= i
          <6>1. k \in 1..i /\ cache'[k] = front[k]
            BY <3>2, <4>c, <5>1
          <6>2. QED BY <4>b, <6>1
        <5>2. CASE ~(k <= i)
          <6>1. k - i \in 1..Len(cache) - i /\ i + (k - i) = k /\ k \in 1..Len(cache)
            BY <3>2, <4>c, <5>2
          <6>2. cache'[k] = cache[k]
            BY <4>2, <4>c, <5>2, <6>1
          <6>3. QED BY <6>1, <6>2
        <5>3. QED BY <5>1, <5>2
      <4>5. QED BY <2>0, <4>4 DEF Recorded
    <3>4. pc' = pc /\ status' = status
      BY <2>9 DEF GetStatus
    <3>5. QED BY <3>3, <3>4 DEF NoPhantomRecord
  <2>10. CASE Restart
    BY <2>10 DEF Restart, NoPhantomRecord, Recorded
  <2>11. CASE UNCHANGED vars
    BY <2>11 DEF vars, NoPhantomRecord, Recorded
  <2>12. QED
    BY <2>1, <2>2, <2>3, <2>4, <2>5, <2>6, <2>7, <2>8, <2>9, <2>10, <2>11
    DEF Next, HandlerStep, TaskStep
<1>3. QED BY <1>1, <1>2, TypeCorrect, PermitsSafe, PTL DEF Spec, QueueSafe

-----------------------------------------------------------------------------
(* The breaker of a dependency opens only after that dependency failed.    *)

Reporting == {"store", "stamp", "note", "reported"}
Places    == {"idle", "check", "look", "probe", "admitted", "refused", "work"} \cup Reporting
Replies   == {"none", "ok", "unavailable"}

HealthTypeOK ==
    /\ hstate \in [ToolDeps -> {"healthy", "down", "half_open"}]
    /\ hnoted \in [ToolDeps -> BOOLEAN]
    /\ hpc \in [Requests -> Places]
    /\ hdep \in [Requests -> ToolDeps]
    /\ hanswer \in [Requests -> Replies]
    /\ tool \in [Requests -> Tools]
    /\ left \in [Requests -> Seq(ToolDeps)]
    /\ broke \subseteq ToolDeps

\* A request that holds a failure to report, or found a breaker open, deals with a
\* dependency that failed; it has no other report to make.
Blames ==
    \A r \in Requests :
        /\ hpc[r] \in {"look", "probe"} => hdep[r] \in broke
        /\ hanswer[r] = "unavailable" /\ hpc[r] \in Reporting => hdep[r] \in broke /\ left[r] = <<>>

HealthSafe == HealthTypeOK /\ Blames /\ OwnFaultOnly

-----------------------------------------------------------------------------

LEMMA ToolsTyped ==
  ASSUME NEW t \in Tools
  PROVE  t.checks \in Seq(ToolDeps) /\ t.reports \in Seq(ToolDeps) /\ t.ends \subseteq ToolDeps
<1>1. Both \in Seq(ToolDeps) /\ <<"lancedb">> \in Seq(ToolDeps) /\ <<>> \in Seq(ToolDeps)
  BY DEF Both, ToolDeps
<1>2. {"lancedb"} \subseteq ToolDeps /\ {"embedding"} \subseteq ToolDeps
  BY DEF ToolDeps
<1>3. \A checks, ends, reports :
         LET tl == Tool(checks, ends, reports)
         IN  tl.checks = checks /\ tl.ends = ends /\ tl.reports = reports
  BY DEF Tool
<1>4. PICK checks \in {<<>>, <<"lancedb">>, Both}, reports \in {<<"lancedb">>, Both},
         ends \in {ToolDeps, {"lancedb"}, {"embedding"}} : t = Tool(checks, ends, reports)
  BY DEF Tools, AddTodo, UpdateTodo, CompleteTodo, ListTodosTool, GetTodo,
       DeleteTodo, SearchTool, AddMemory, UpdateMemory, IndexStandards, IndexCodeFiles
<1>5. t.checks = checks /\ t.ends = ends /\ t.reports = reports
  BY <1>3, <1>4
<1>6. QED BY <1>1, <1>2, <1>5

\* An error is blamed on the dependency that caused it, or on none.
LEMMA BlamedOwn ==
  /\ \A d \in ToolDeps : \A error \in ErrorsOf(d) : Blamed(error) = {} \/ Blamed(error) = {d}
  /\ \A error \in RequestErrors : Blamed(error) = {}
<1>1. ASSUME NEW d \in ToolDeps, NEW error \in ErrorsOf(d)
      PROVE  Blamed(error) = {} \/ Blamed(error) = {d}
  <2>1. CASE d = "embedding"
    BY <1>1, <2>1 DEF ErrorsOf, Blamed
  <2>2. CASE d = "lancedb"
    BY <1>1, <2>2 DEF ErrorsOf, Blamed
  <2>3. QED BY <2>1, <2>2 DEF ToolDeps
<1>2. \A error \in RequestErrors : Blamed(error) = {}
  BY DEF RequestErrors, Blamed
<1>3. QED BY <1>1, <1>2

LEMMA NextOfTyped ==
  ASSUME HealthTypeOK, NEW r \in Requests, NEW deps \in Seq(ToolDeps),
         NEW place \in Places, NEW end \in Places, NextOf(r, deps, place, end)
  PROVE  /\ left' \in [Requests -> Seq(ToolDeps)] /\ hdep' \in [Requests -> ToolDeps]
         /\ hpc' \in [Requests -> Places]
         /\ hpc'[r] \in {place, end}
         /\ deps = <<>> => hpc'[r] = end
         /\ deps # <<>> => hdep'[r] = Head(deps) /\ left'[r] = Tail(deps)
         /\ \A q \in Requests \ {r} : hpc'[q] = hpc[q] /\ hdep'[q] = hdep[q] /\ left'[q] = left[q]
<1>1. "embedding" \in ToolDeps /\ <<>> \in Seq(ToolDeps)
  BY DEF ToolDeps
<1>2. deps # <<>> => Head(deps) \in ToolDeps /\ Tail(deps) \in Seq(ToolDeps)
  OBVIOUS
<1>3. QED BY <1>1, <1>2 DEF NextOf, HealthTypeOK

\* The end of a request's work, or of a report: the answer is reported to what is
\* left, a failure to the one dependency that failed.
LEMMA AnsweredSafe ==
  ASSUME HealthSafe, NEW r \in Requests, NEW a \in Replies, NEW reports \in Seq(ToolDeps),
         Answered(r, a, reports), broke \subseteq broke', broke' \subseteq ToolDeps,
         a = "unavailable" /\ reports # <<>> => Head(reports) \in broke' /\ Tail(reports) = <<>>
  PROVE  HealthSafe'
<1>1. NextOf(r, reports, "store", "idle") /\ UNCHANGED <<hstate, hnoted>>
      /\ tool' = [tool EXCEPT ![r] = AddTodo]
      /\ hanswer' = [hanswer EXCEPT ![r] = IF reports = <<>> THEN "none" ELSE a]
  BY DEF Answered, breakers
<1>2. HealthTypeOK
  BY DEF HealthSafe
<1>3. /\ left' \in [Requests -> Seq(ToolDeps)] /\ hdep' \in [Requests -> ToolDeps]
      /\ hpc' \in [Requests -> Places]
      /\ hpc'[r] \in {"store", "idle"}
      /\ reports # <<>> => hdep'[r] = Head(reports) /\ left'[r] = Tail(reports)
      /\ \A q \in Requests \ {r} : hpc'[q] = hpc[q] /\ hdep'[q] = hdep[q] /\ left'[q] = left[q]
  BY <1>1, <1>2, NextOfTyped DEF Places, Reporting
<1>4. HealthTypeOK'
  <2>1. AddTodo \in Tools
    BY DEF Tools
  <2>2. QED BY <1>1, <1>2, <1>3, <2>1 DEF HealthTypeOK, Replies
<1>5. Blames'
  BY <1>1, <1>2, <1>3 DEF HealthSafe, Blames, HealthTypeOK, Reporting
<1>6. OwnFaultOnly'
  BY <1>1 DEF HealthSafe, OwnFaultOnly
<1>7. QED BY <1>4, <1>5, <1>6 DEF HealthSafe

-----------------------------------------------------------------------------

LEMMA HealthSafeInit == HealthInit => HealthSafe
<1> SUFFICES ASSUME HealthInit PROVE HealthSafe
  OBVIOUS
<1>1. HealthTypeOK
  BY DEF HealthInit, Breaker!BreakerInit, HealthTypeOK, ToolDeps, Tools, Places, Replies
<1>2. Blames
  BY DEF HealthInit, Blames, Reporting
<1>3. OwnFaultOnly
  BY DEF HealthInit, Breaker!BreakerInit, OwnFaultOnly
<1>4. QED BY <1>1, <1>2, <1>3 DEF HealthSafe

LEMMA HealthSafeStep == HealthSafe /\ [HealthNext]_tvars => HealthSafe'
<1> SUFFICES ASSUME HealthSafe, [HealthNext]_tvars PROVE HealthSafe'
  OBVIOUS
<1>0. HealthTypeOK /\ Blames /\ OwnFaultOnly
  BY DEF HealthSafe
<1>1. ASSUME NEW r \in Requests, CallTool(r) PROVE HealthSafe'
  <2>1. PICK t \in Tools : tool' = [tool EXCEPT ![r] = t] /\ NextOf(r, t.checks, "check", "work")
    BY <1>1 DEF CallTool
  <2>2. UNCHANGED <<hstate, hnoted, hanswer, broke>>
    BY <1>1 DEF CallTool, breakers
  <2>3. /\ left' \in [Requests -> Seq(ToolDeps)] /\ hdep' \in [Requests -> ToolDeps]
        /\ hpc' \in [Requests -> Places]
        /\ hpc'[r] \in {"check", "work"}
        /\ \A q \in Requests \ {r} : hpc'[q] = hpc[q] /\ hdep'[q] = hdep[q] /\ left'[q] = left[q]
    BY <1>0, <2>1, ToolsTyped, NextOfTyped DEF Places
  <2>4. HealthTypeOK'
    BY <1>0, <2>1, <2>2, <2>3 DEF HealthTypeOK
  <2>5. Blames'
    BY <1>0, <2>2, <2>3 DEF Blames, Reporting
  <2>6. OwnFaultOnly'
    BY <1>0, <2>2 DEF OwnFaultOnly
  <2>7. QED BY <2>4, <2>5, <2>6 DEF HealthSafe
<1>2. ASSUME NEW r \in Requests, MayGoOn(r) PROVE HealthSafe'
  <2>1. NextOf(r, left[r], "check", "work") /\ UNCHANGED <<hstate, hnoted, hanswer, tool, broke>>
    BY <1>2 DEF MayGoOn, breakers
  <2>2. left[r] \in Seq(ToolDeps)
    BY <1>0 DEF HealthTypeOK
  <2>3. /\ left' \in [Requests -> Seq(ToolDeps)] /\ hdep' \in [Requests -> ToolDeps]
        /\ hpc' \in [Requests -> Places]
        /\ hpc'[r] \in {"check", "work"}
        /\ \A q \in Requests \ {r} : hpc'[q] = hpc[q] /\ hdep'[q] = hdep[q] /\ left'[q] = left[q]
    BY <1>0, <2>1, <2>2, NextOfTyped DEF Places
  <2>4. HealthTypeOK'
    BY <1>0, <2>1, <2>3 DEF HealthTypeOK
  <2>5. Blames'
    BY <1>0, <2>1, <2>3 DEF Blames, Reporting
  <2>6. OwnFaultOnly'
    BY <1>0, <2>1 DEF OwnFaultOnly
  <2>7. QED BY <2>4, <2>5, <2>6 DEF HealthSafe
<1>3. ASSUME NEW r \in Requests, TurnedAway(r) PROVE HealthSafe'
  <2>1. <<>> \in Seq(ToolDeps)
    OBVIOUS
  <2>2. Answered(r, "none", <<>>) /\ broke' = broke
    BY <1>3 DEF TurnedAway
  <2>3. QED BY <1>0, <2>1, <2>2, AnsweredSafe DEF Replies, HealthTypeOK
<1>4. ASSUME NEW r \in Requests, Work(r) PROVE HealthSafe'
  <2>1. tool[r] \in Tools
    BY <1>0 DEF HealthTypeOK
  <2>2. CASE Answered(r, "ok", tool[r].reports) /\ UNCHANGED broke
    <3>1. tool[r].reports \in Seq(ToolDeps)
      BY <2>1, ToolsTyped
    <3>2. QED BY <1>0, <2>2, <3>1, AnsweredSafe DEF Replies, HealthTypeOK
  <2>3. ASSUME NEW error \in RequestErrors, FailWith(r, error), UNCHANGED broke
        PROVE  HealthSafe'
    <3>1. Answered(r, "unavailable", <<>>)
      BY <2>3, BlamedOwn DEF FailWith
    <3>2. <<>> \in Seq(ToolDeps)
      OBVIOUS
    <3>3. QED BY <1>0, <2>3, <3>1, <3>2, AnsweredSafe DEF Replies, HealthTypeOK
  <2>4. ASSUME NEW d \in tool[r].ends, NEW error \in ErrorsOf(d),
               FailWith(r, error), broke' = broke \cup {d}
        PROVE  HealthSafe'
    <3>1. d \in ToolDeps
      BY <2>1, <2>4, ToolsTyped
    <3>2. Blamed(error) = {} \/ Blamed(error) = {d}
      BY <2>4, <3>1, BlamedOwn
    <3>3. PICK reports \in {<<>>, <<d>>} : Answered(r, "unavailable", reports)
      BY <2>4, <3>2 DEF FailWith
    <3>4. reports \in Seq(ToolDeps) /\ (reports # <<>> => Head(reports) = d /\ Tail(reports) = <<>>)
      <4>1. <<>> \in Seq(ToolDeps) /\ <<d>> \in Seq(ToolDeps) /\ Head(<<d>>) = d /\ Tail(<<d>>) = <<>>
        BY <3>1
      <4>2. QED BY <3>3, <4>1
    <3>5. QED BY <1>0, <2>4, <3>1, <3>3, <3>4, AnsweredSafe DEF Replies, HealthTypeOK
  <2>5. QED BY <1>4, <2>2, <2>3, <2>4 DEF Work
<1>5. ASSUME NEW r \in Requests, NextReport(r) PROVE HealthSafe'
  <2>1. Answered(r, hanswer[r], left[r]) /\ broke' = broke /\ hpc[r] = "reported"
    BY <1>5 DEF NextReport
  <2>2. hanswer[r] \in Replies /\ left[r] \in Seq(ToolDeps)
    BY <1>0 DEF HealthTypeOK
  <2>3. hanswer[r] = "unavailable" => left[r] = <<>>
    BY <1>0, <2>1 DEF Blames, Reporting
  <2>4. QED BY <1>0, <2>1, <2>2, <2>3, AnsweredSafe DEF Replies, HealthTypeOK
<1>6. ASSUME NEW r \in Requests, Breaker!BreakerStep(r), UNCHANGED <<tool, left, broke>>
      PROVE  HealthSafe'
  <2> USE <1>0, <1>6 DEF HealthTypeOK, Places, Reporting, Breaker!Goto, Breaker!breakerVars
  <2>0. hdep[r] \in ToolDeps
    OBVIOUS
  <2>1. CASE Breaker!LoadState(r)
    <3>1. HealthTypeOK'
      BY <2>1 DEF Breaker!LoadState
    <3>2. Blames'
      BY <2>1, <2>0 DEF Breaker!LoadState, Blames, OwnFaultOnly
    <3>3. OwnFaultOnly'
      BY <2>1 DEF Breaker!LoadState, OwnFaultOnly
    <3>4. QED BY <3>1, <3>2, <3>3 DEF HealthSafe
  <2>2. CASE Breaker!LoadStamp(r)
    <3>1. HealthTypeOK'
      BY <2>2 DEF Breaker!LoadStamp
    <3>2. Blames'
      BY <2>2 DEF Breaker!LoadStamp, Blames
    <3>3. OwnFaultOnly'
      BY <2>2 DEF Breaker!LoadStamp, OwnFaultOnly
    <3>4. QED BY <3>1, <3>2, <3>3 DEF HealthSafe
  <2>3. CASE Breaker!TryHalfOpen(r)
    <3>1. HealthTypeOK'
      BY <2>3 DEF Breaker!TryHalfOpen
    <3>2. Blames'
      BY <2>3 DEF Breaker!TryHalfOpen, Blames
    <3>3. OwnFaultOnly'
      BY <2>3, <2>0 DEF Breaker!TryHalfOpen, OwnFaultOnly, Blames
    <3>4. QED BY <3>1, <3>2, <3>3 DEF HealthSafe
  <2>4. CASE Breaker!StoreState(r)
    <3>1. HealthTypeOK'
      BY <2>4, <2>0 DEF Breaker!StoreState
    <3>2. Blames'
      BY <2>4 DEF Breaker!StoreState, Blames
    <3>3. OwnFaultOnly'
      BY <2>4, <2>0 DEF Breaker!StoreState, OwnFaultOnly, Blames, Reporting
    <3>4. QED BY <3>1, <3>2, <3>3 DEF HealthSafe
  <2>5. CASE Breaker!StoreStamp(r)
    <3>1. HealthTypeOK'
      BY <2>5 DEF Breaker!StoreStamp
    <3>2. Blames'
      BY <2>5 DEF Breaker!StoreStamp, Blames
    <3>3. OwnFaultOnly'
      BY <2>5 DEF Breaker!StoreStamp, OwnFaultOnly
    <3>4. QED BY <3>1, <3>2, <3>3 DEF HealthSafe
  <2>6. CASE Breaker!StoreNote(r)
    <3>0. (hanswer[r] = "unavailable") \in BOOLEAN
      OBVIOUS
    <3>1. HealthTypeOK'
      BY <2>6, <2>0, <3>0 DEF Breaker!StoreNote
    <3>2. Blames'
      BY <2>6 DEF Breaker!StoreNote, Blames
    <3>3. OwnFaultOnly'
      BY <2>6, <2>0 DEF Breaker!StoreNote, OwnFaultOnly, Blames, Reporting
    <3>4. QED BY <3>1, <3>2, <3>3 DEF HealthSafe
  <2>7. QED
    BY <1>6, <2>1, <2>2, <2>3, <2>4, <2>5, <2>6 DEF Breaker!BreakerStep
<1>7. ASSUME NEW d \in ToolDeps, Breaker!Elapse(d), UNCHANGED <<tool, left, broke>>
      PROVE  HealthSafe'
  BY <1>0, <1>7 DEF Breaker!Elapse, HealthSafe, HealthTypeOK, Blames, OwnFaultOnly
<1>8. CASE UNCHANGED tvars
  BY <1>0, <1>8 DEF tvars, breakers, HealthSafe, HealthTypeOK, Blames, OwnFaultOnly
<1>9. QED
  BY <1>1, <1>2, <1>3, <1>4, <1>5, <1>6, <1>7, <1>8 DEF HealthNext, ToolStep

-----------------------------------------------------------------------------

\* The breaker of the embedder, or of LanceDB, opens only after that one failed,
\* however many requests check, work and report at once.
THEOREM OwnFault == HealthSpec => []OwnFaultOnly
<1>1. HealthSafe => OwnFaultOnly
  BY DEF HealthSafe
<1>2. QED BY <1>1, HealthSafeInit, HealthSafeStep, PTL DEF HealthSpec

=============================================================================
