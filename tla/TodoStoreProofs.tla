-------------------------- MODULE TodoStoreProofs --------------------------
(***************************************************************************)
(* Proofs about TodoStore, for every set of todos, references, shards and  *)
(* requests.                                                               *)
(***************************************************************************)
EXTENDS TodoStore, FiniteSetTheorems, TLAPS

(* ------------------------------- Rows ---------------------------------- *)

\* A change of a row gives a row.
LEMMA ChangedRow ==
  ASSUME NEW row \in Row, NEW c \in Change, NEW now \in Stamps
  PROVE  ApplyChange(row, c, now) \in Row
<1>1. CASE c.field = "title"
  <2>1. c.to \in Titles
    BY <1>1 DEF Change
  <2>2. QED BY <1>1, <2>1 DEF ApplyChange, Row
<1>2. CASE c.field # "title"
  <2>1. c.to \in Statuses
    BY <1>2 DEF Change
  <2>2. QED BY <1>2, <2>1 DEF ApplyChange, Row
<1>3. QED BY <1>1, <1>2

\* It keeps completed_at in step with the status.
LEMMA ChangedStamp ==
  ASSUME NEW row \in Row, NEW c \in Change, NEW now \in Stamps,
         StampMatchesStatus(row)
  PROVE  StampMatchesStatus(ApplyChange(row, c, now))
<1>1. CASE c.field = "title"
  BY <1>1 DEF ApplyChange, Row, StampMatchesStatus
<1>2. CASE c.field # "title"
  <2>1. now # NoStamp
    BY StampsAssumption
  <2>2. QED BY <1>2, <2>1 DEF ApplyChange, Row, StampMatchesStatus
<1>3. QED BY <1>1, <1>2

(* ------------------------------ Typing --------------------------------- *)

\* A request that acts by reference has a call, with a reference.
LEMMA UpdateCalls ==
  ASSUME NEW c \in Calls \cup {NoCall}, c.op = "update"
  PROVE  c.change \in Change
BY CallsAssumption DEF Call, NoCall

LEMMA AddCalls ==
  ASSUME NEW c \in Calls \cup {NoCall}, c.op = "add"
  PROVE  c.change.to \in Titles
BY CallsAssumption DEF Call, NoCall

LEMMA LookupCalls ==
  ASSUME NEW c \in Calls, c.op \in {"update", "delete", "get"}
  PROVE  c.ref \in Refs
BY CallsAssumption DEF Call

\* What a request asked for matches where it is.
Targeted == {"again", "apply", "gap"}
Lookups == {"exact", "resolve", "read_exact", "read_prefix"}
Shape == \A r \in Reqs : /\ pc[r] = "gap" => call[r].op = "update"
                         /\ pc[r] = "insert" => call[r].op = "add"
                         /\ pc[r] \in Lookups => call[r].ref \in Refs
                         /\ pc[r] \in Targeted => target[r] \in Ids
Typed == TypeOK /\ Shape

LEMMA TypedInit == Init => Typed
<1> SUFFICES ASSUME Init PROVE Typed
  OBVIOUS
<1>1. rows \in [Ids -> SUBSET Row]
  BY RowsAssumption DEF Init
<1>2. created \subseteq Ids
  BY RefsAssumption DEF Init
<1>3. queue \in [Shards -> Seq(Reqs)]
  BY DEF Init
<1>4. /\ pc \in [Reqs -> Phases] /\ call \in [Reqs -> Calls \cup {NoCall}]
      /\ target \in [Reqs -> Ids \cup {NoId}] /\ snap \in [Reqs -> SUBSET Row]
      /\ reply \in [Reqs -> Replies] /\ crashes \in 0..MaxCrashes
  BY CallsAssumption DEF Init, Phases, Replies
<1>5. Shape
  BY DEF Init, Shape, Lookups, Targeted
<1>6. QED BY <1>1, <1>2, <1>3, <1>4, <1>5 DEF Typed, TypeOK

LEMMA QueueTyped ==
  ASSUME TypeOK, NEW r \in Reqs, NEW ref
  PROVE  /\ Release(queue, r) \in [Shards -> Seq(Reqs)]
         /\ Enqueue(queue, r, ref) \in [Shards -> Seq(Reqs)]
<1>1. ASSUME NEW s \in Shards, First(r, queue[s]) PROVE Tail(queue[s]) \in Seq(Reqs)
  BY <1>1 DEF TypeOK, First
<1>2. Release(queue, r) \in [Shards -> Seq(Reqs)]
  BY <1>1 DEF TypeOK, Release
<1>3. ASSUME NEW s \in Shards PROVE Append(queue[s], r) \in Seq(Reqs)
  BY DEF TypeOK
<1>4. Enqueue(queue, r, ref) \in [Shards -> Seq(Reqs)]
  BY <1>3 DEF TypeOK, Enqueue
<1>5. QED BY <1>2, <1>4

LEMMA AnswerTyped ==
  ASSUME Typed, NEW r \in Reqs, NEW what \in Replies, Answer(r, what), call' = call,
         target' = target
  PROVE  /\ reply' \in [Reqs -> Replies] /\ snap' \in [Reqs -> SUBSET Row]
         /\ pc' \in [Reqs -> Phases] /\ Shape'
<1>1. reply' \in [Reqs -> Replies] /\ snap' \in [Reqs -> SUBSET Row]
  BY DEF Typed, TypeOK, Answer
<1>2. pc' = [pc EXCEPT ![r] = "done"] /\ pc \in [Reqs -> Phases]
  BY DEF Typed, TypeOK, Answer
<1>3. pc' \in [Reqs -> Phases]
  BY <1>2 DEF Phases
<1>4. Shape'
  BY <1>2 DEF Typed, Shape, Lookups, Targeted
<1>5. QED BY <1>1, <1>3, <1>4

LEMMA TypedStep == Typed /\ [Next]_vars => Typed'
<1> SUFFICES ASSUME Typed, [Next]_vars PROVE Typed'
  OBVIOUS
<1> USE DEF Typed, TypeOK, request
<1>1. ASSUME NEW r \in Reqs, Start(r) PROVE Typed'
  <2>1. PICK c \in Calls :
          /\ call' = [call EXCEPT ![r] = c]
          /\ \/ /\ c.op \in {"update", "delete"}
                /\ queue' = Enqueue(queue, r, c.ref) /\ pc' = [pc EXCEPT ![r] = "exact"]
             \/ /\ c.op = "get"
                /\ queue' = queue /\ pc' = [pc EXCEPT ![r] = "read_exact"]
             \/ /\ c.op = "add"
                /\ queue' = queue /\ pc' = [pc EXCEPT ![r] = "insert"]
    BY <1>1 DEF Start
  <2>2. queue' \in [Shards -> Seq(Reqs)]
    BY <2>1, QueueTyped
  <2>3. c.op \in {"update", "delete", "get"} => c.ref \in Refs
    BY LookupCalls
  <2>4. call' \in [Reqs -> Calls \cup {NoCall}] /\ pc' \in [Reqs -> Phases]
    BY <2>1 DEF Phases
  <2>5. Shape'
    BY <1>1, <2>1, <2>3 DEF Start, Shape, Lookups, Targeted
  <2>6. QED BY <1>1, <2>2, <2>4, <2>5 DEF Start
<1>2. ASSUME NEW r \in Reqs, Exact(r) PROVE Typed'
  <2>1. queue' \in [Shards -> Seq(Reqs)]
    BY <1>2, QueueTyped DEF Exact
  <2>2. pc' \in [Reqs -> Phases] /\ Shape'
    BY <1>2 DEF Exact, Phases, Shape, Lookups, Targeted
  <2>3. CASE UNCHANGED <<target, snap>>
    BY <1>2, <2>1, <2>2, <2>3 DEF Exact
  <2>4. CASE /\ call[r].ref \in Ids
             /\ \E row \in rows[call[r].ref] : snap' = [snap EXCEPT ![r] = {row}]
             /\ target' = [target EXCEPT ![r] = call[r].ref]
    <3>1. snap' \in [Reqs -> SUBSET Row]
      BY <2>4
    <3>2. target' \in [Reqs -> Ids \cup {NoId}]
      BY <2>4
    <3>3. QED BY <1>2, <2>1, <2>2, <3>1, <3>2 DEF Exact
  <2>5. QED BY <1>2, <2>3, <2>4 DEF Exact
<1>3. ASSUME NEW r \in Reqs, Resolve(r) PROVE Typed'
  <2>1. ASSUME NEW what \in Replies, Answer(r, what), UNCHANGED <<queue, target>>
        PROVE  Typed'
    BY <1>3, <2>1, AnswerTyped DEF Resolve
  <2>2. ASSUME NEW id \in Found(call[r].ref),
               target' = [target EXCEPT ![r] = id],
               queue' = Enqueue(queue, r, id),
               pc' = [pc EXCEPT ![r] = "again"],
               UNCHANGED <<snap, reply>>
        PROVE  Typed'
    <3>1. id \in Ids
      BY <1>3, RefsAssumption DEF Resolve, Found, Shape, Lookups, Targeted
    <3>2. queue' \in [Shards -> Seq(Reqs)]
      BY <2>2, QueueTyped
    <3>3. pc' \in [Reqs -> Phases] /\ Shape'
      BY <1>3, <2>2, <3>1 DEF Resolve, Phases, Shape, Lookups, Targeted
    <3>4. QED BY <1>3, <2>2, <3>1, <3>2, <3>3 DEF Resolve
  <2>3. "not_found" \in Replies /\ "ambiguous" \in Replies
    BY DEF Replies
  <2>4. QED BY <1>3, <2>1, <2>2, <2>3 DEF Resolve
<1>4. ASSUME NEW r \in Reqs, Again(r) PROVE Typed'
  <2>1. queue' \in [Shards -> Seq(Reqs)]
    BY <1>4, QueueTyped DEF Again
  <2>2. CASE Answer(r, "not_found")
    BY <1>4, <2>1, <2>2, AnswerTyped DEF Again, Replies
  <2>3. CASE /\ \E row \in rows[target[r]] : snap' = [snap EXCEPT ![r] = {row}]
             /\ pc' = [pc EXCEPT ![r] = "apply"]
             /\ UNCHANGED <<queue, reply>>
    <3>1. PICK row \in rows[target[r]] : snap' = [snap EXCEPT ![r] = {row}]
      BY <2>3
    <3>2. row \in Row
      BY <1>4, <3>1 DEF Again, Shape, Targeted
    <3>3. pc' \in [Reqs -> Phases] /\ Shape'
      BY <1>4, <2>3 DEF Again, Phases, Shape, Lookups, Targeted
    <3>4. QED BY <1>4, <2>1, <2>3, <3>1, <3>2, <3>3 DEF Again
  <2>4. QED BY <1>4, <2>2, <2>3 DEF Again
<1>5. ASSUME NEW r \in Reqs, Fail(r) PROVE Typed'
  BY <1>5, QueueTyped, AnswerTyped DEF Fail, Replies
<1>6. ASSUME NEW r \in Reqs, Delete(r) PROVE Typed'
  BY <1>6, QueueTyped, AnswerTyped DEF Delete, Replies
<1>7. ASSUME NEW r \in Reqs, UpsertDelete(r) PROVE Typed'
  BY <1>7 DEF UpsertDelete, Phases, Shape, Lookups, Targeted
<1>8. ASSUME NEW r \in Reqs, UpsertAdd(r) PROVE Typed'
  <2>1. PICK row \in snap[r] :
          rows' = [rows EXCEPT ![target[r]] = @ \cup {ApplyChange(row, call[r].change, r)}]
    BY <1>8 DEF UpsertAdd
  <2>2. ApplyChange(row, call[r].change, r) \in Row
    BY <1>8, ChangedRow, UpdateCalls, RowsAssumption DEF UpsertAdd, Shape
  <2>3. rows' \in [Ids -> SUBSET Row]
    BY <2>1, <2>2
  <2>4. QED BY <1>8, <2>3, QueueTyped, AnswerTyped DEF UpsertAdd, Replies
<1>9. ASSUME NEW r \in Reqs, ReadExact(r) \/ ReadPrefix(r) \/ ReadAgain(r) PROVE Typed'
  <2>1. ASSUME NEW what \in Replies, Answer(r, what), UNCHANGED <<queue, target>>
        PROVE  Typed'
    BY <1>9, <2>1, AnswerTyped DEF ReadExact, ReadPrefix, ReadAgain
  <2>2. "ok" \in Replies /\ "not_found" \in Replies /\ "ambiguous" \in Replies
    BY DEF Replies
  <2>3. CASE ReadExact(r) /\ pc' = [pc EXCEPT ![r] = "read_prefix"] /\ UNCHANGED <<snap, reply>>
    BY <2>3 DEF ReadExact, Phases, Shape, Lookups, Targeted
  <2>4. ASSUME NEW id \in Found(call[r].ref), ReadPrefix(r),
               target' = [target EXCEPT ![r] = id],
               pc' = [pc EXCEPT ![r] = "read_again"],
               UNCHANGED <<snap, reply>>
        PROVE  Typed'
    <3>1. id \in Ids
      BY <2>4, RefsAssumption DEF ReadPrefix, Found, Shape, Lookups, Targeted
    <3>2. pc' \in [Reqs -> Phases] /\ Shape'
      BY <2>4 DEF ReadPrefix, Phases, Shape, Lookups, Targeted
    <3>3. QED BY <2>4, <3>1, <3>2 DEF ReadPrefix
  <2>5. QED BY <1>9, <2>1, <2>2, <2>3, <2>4 DEF ReadExact, ReadPrefix, ReadAgain
<1>10. ASSUME NEW r \in Reqs, Insert(r) PROVE Typed'
  <2>1. Fresh(call[r].change.to) \in Row
    BY <1>10, AddCalls DEF Insert, Shape, Fresh, Row, Statuses
  <2>2. rows' \in [Ids -> SUBSET Row] /\ created' \subseteq Ids
    BY <1>10, <2>1 DEF Insert
  <2>3. QED BY <1>10, <2>2, AnswerTyped DEF Insert, Replies
<1>11. ASSUME Crash PROVE Typed'
  <2>1. queue' \in [Shards -> Seq(Reqs)] /\ snap' \in [Reqs -> SUBSET Row] /\ crashes' \in 0..MaxCrashes
    BY <1>11, CallsAssumption DEF Crash
  <2>2. pc' \in [Reqs -> Phases] /\ Shape'
    BY <1>11 DEF Crash, Phases, Shape, Lookups, Targeted
  <2>3. QED BY <1>11, <2>1, <2>2 DEF Crash
<1>12. ASSUME UNCHANGED vars PROVE Typed'
  BY <1>12 DEF vars, Shape
<1>13. QED
  BY <1>1, <1>2, <1>3, <1>4, <1>5, <1>6, <1>7, <1>8, <1>9, <1>10, <1>11, <1>12
  DEF Next, Step

\* Every variable keeps its type.
THEOREM TodoTypeCorrect == Spec => []TypeOK
<1>1. Typed => TypeOK
  BY DEF Typed
<1>2. QED BY TypedInit, TypedStep, <1>1, PTL DEF Spec

(* ------------------------------- Locks --------------------------------- *)

\* r acts: it leaves the other requests alone, and touches at most its own place
\* in a queue.
Untouched(w) == /\ pc'[w] = pc[w] /\ call'[w] = call[w] /\ target'[w] = target[w]
                /\ snap'[w] = snap[w] /\ reply'[w] = reply[w]
Alone(r) ==
    /\ \A w \in Reqs \ {r} : Untouched(w)
    /\ \/ queue' = queue
       \/ queue' = Release(queue, r)
       \/ \E ref \in Refs : queue' = Enqueue(queue, r, ref)

LEMMA StepAlone ==
  ASSUME Typed, NEW r \in Reqs, Start(r) \/ Step(r)
  PROVE  Alone(r)
<1> USE DEF Typed, TypeOK, Alone, Untouched, request
<1>1. CASE Start(r)
  <2>1. PICK c \in Calls :
          /\ call' = [call EXCEPT ![r] = c]
          /\ \/ c.op \in {"update", "delete"} /\ queue' = Enqueue(queue, r, c.ref)
             \/ queue' = queue
          /\ \E p \in Phases : pc' = [pc EXCEPT ![r] = p]
    BY <1>1 DEF Start, Phases
  <2>2. c.op \in {"update", "delete"} => c.ref \in Refs
    BY LookupCalls
  <2>3. QED BY <1>1, <2>1, <2>2 DEF Start
<1>2. CASE Resolve(r)
  <2>1. ASSUME NEW id \in Found(call[r].ref) PROVE id \in Refs
    BY <1>2, <2>1, RefsAssumption DEF Resolve, Found, Shape, Lookups
  <2>2. QED BY <1>2, <2>1 DEF Resolve, Answer
<1>3. CASE Exact(r) \/ Again(r)
  BY <1>3 DEF Exact, Again, Answer
<1>4. CASE Delete(r) \/ UpsertDelete(r) \/ UpsertAdd(r) \/ Insert(r) \/ Fail(r)
  BY <1>4 DEF Delete, UpsertDelete, UpsertAdd, Insert, Fail, Answer
<1>5. CASE ReadExact(r) \/ ReadPrefix(r) \/ ReadAgain(r)
  BY <1>5 DEF ReadExact, ReadPrefix, ReadAgain, Answer
<1>6. QED BY <1>1, <1>2, <1>3, <1>4, <1>5 DEF Step

\* A lock is only lost by the request that holds it.
LEMMA HoldsKept ==
  ASSUME Typed, NEW r \in Reqs, Alone(r), NEW w \in Reqs \ {r},
         NEW ref \in Refs, Holds(w, ref)
  PROVE  Holds(w, ref)'
<1> DEFINE s == ShardOf[ref]
<1>1. s \in Shards /\ queue[s] \in Seq(Reqs) /\ queue[s] # <<>> /\ Head(queue[s]) = w
  BY RefsAssumption DEF Typed, TypeOK, Holds, First
<1>2. CASE queue' = queue
  BY <1>1, <1>2 DEF Holds, First
<1>3. CASE queue' = Release(queue, r)
  BY <1>1, <1>3 DEF Holds, First, Release
<1>4. ASSUME NEW x \in Refs, queue' = Enqueue(queue, r, x) PROVE Holds(w, ref)'
  <2>1. queue'[s] = queue[s] \/ queue'[s] = Append(queue[s], r)
    BY <1>1, <1>4 DEF Enqueue, Typed, TypeOK
  <2>2. Append(queue[s], r) # <<>> /\ Head(Append(queue[s], r)) = w
    BY <1>1
  <2>3. QED BY <1>1, <2>1, <2>2 DEF Holds, First
<1>5. QED BY <1>2, <1>3, <1>4 DEF Alone

LEMMA LockInit == Init => LockDiscipline
BY DEF Init, LockDiscipline, Writing

LEMMA LockStep == Typed /\ LockDiscipline /\ [Next]_vars => LockDiscipline'
<1> SUFFICES ASSUME Typed, LockDiscipline, [Next]_vars PROVE LockDiscipline'
  OBVIOUS
<1>1. ASSUME NEW r \in Reqs, Start(r) \/ Step(r) PROVE LockDiscipline'
  <2>1. Alone(r)
    BY <1>1, StepAlone
  <2>2. ASSUME NEW w \in Reqs \ {r}, Writing(w)' PROVE Holds(w, target[w])'
    <3>1. Writing(w) /\ target'[w] = target[w]
      BY <2>1, <2>2 DEF Alone, Untouched, Writing
    <3>2. target[w] \in Refs /\ Holds(w, target[w])
      BY <3>1, RefsAssumption DEF Typed, Shape, Targeted, Writing, LockDiscipline
    <3>3. Holds(w, target[w])'
      <4> DEFINE ref == target[w]
      <4>1. ref \in Refs /\ Holds(w, ref) /\ target'[w] = ref
        BY <3>1, <3>2
      <4> HIDE DEF ref
      <4>2. First(w, queue'[ShardOf[ref]])
        BY <2>1, <4>1, HoldsKept DEF Holds
      <4>3. QED BY <4>1, <4>2 DEF Holds
    <3>4. QED BY <3>3
  <2>3. Writing(r)' => Holds(r, target[r])'
    <3>1. CASE Exact(r)
      BY <3>1 DEF Exact, Writing, Holds, Typed, TypeOK
    <3>2. CASE Again(r)
      BY <3>2 DEF Again, Answer, Writing, Holds, Typed, TypeOK
    <3>3. CASE UpsertDelete(r)
      BY <3>3 DEF UpsertDelete, Writing, Holds, Typed, TypeOK, request, LockDiscipline
    <3>4. CASE Start(r) \/ Resolve(r)
      BY <3>4 DEF Start, Resolve, Answer, Writing, Typed, TypeOK
    <3>5. CASE Delete(r) \/ UpsertAdd(r) \/ Insert(r) \/ Fail(r)
      BY <3>5 DEF Delete, UpsertAdd, Insert, Fail, Answer, Writing, Typed, TypeOK
    <3>6. CASE ReadExact(r) \/ ReadPrefix(r) \/ ReadAgain(r)
      BY <3>6 DEF ReadExact, ReadPrefix, ReadAgain, Answer, Writing, Typed, TypeOK
    <3>7. QED BY <1>1, <3>1, <3>2, <3>3, <3>4, <3>5, <3>6 DEF Step
  <2>4. QED BY <2>2, <2>3 DEF LockDiscipline
<1>2. CASE Crash
  BY <1>2 DEF Crash, LockDiscipline, Writing, Typed, TypeOK
<1>3. CASE UNCHANGED vars
  BY <1>3 DEF vars, request, LockDiscipline, Writing, Holds
<1>4. QED BY <1>1, <1>2, <1>3 DEF Next

\* Whoever read a todo to change it holds the lock of that todo, whatever
\* reference it was given: also when the delete of an upsert may fail.
THEOREM LocksHeld == Spec => []LockDiscipline
BY TypedInit, TypedStep, LockInit, LockStep, PTL DEF Spec

\* Hence at most one request writes a todo at a time.
LEMMA Exclusive ==
  ASSUME LockDiscipline, NEW r \in Reqs, NEW w \in Reqs,
         Writing(r), Writing(w), target[r] = target[w]
  PROVE  r = w
BY DEF LockDiscipline, Holds, First

(* ------------------------------- Data ---------------------------------- *)

Deleted(r) == pc[r] = "done" /\ call[r].op = "delete" /\ reply[r] = "ok"

\* A request is answered once, and only delete_todo answers "ok" to a delete.
Answers == \A r \in Reqs :
    /\ pc[r] # "done" => reply[r] = "none"
    /\ pc[r] \in {"read_exact", "read_prefix", "read_again"} => call[r].op = "get"
\* A stored row has a known ID, no other row has it, and its stamp is right.
Stored == \A id \in Ids : \A row \in rows[id] :
    /\ id \in created
    /\ rows[id] = {row}
    /\ StampMatchesStatus(row)
\* A writer has read its todo; before its first write the table still holds
\* what it read, in the gap it holds nothing.
Snapped == \A r \in Reqs : Writing(r) =>
    /\ target[r] \in created
    /\ \E row \in Row : snap[r] = {row} /\ StampMatchesStatus(row)
    /\ rows[target[r]] = IF pc[r] = "apply" THEN snap[r] ELSE {}
\* A deleted todo is gone, and nobody is about to write it back.
Gone == \A r \in Reqs : Deleted(r) =>
    /\ target[r] \in created
    /\ rows[target[r]] = {}
    /\ \A w \in Reqs : pc[w] = "gap" => target[w] # target[r]

Safe == LockDiscipline /\ Answers /\ Stored /\ Snapped /\ Gone

LEMMA SafeInit == Init => Safe
<1> SUFFICES ASSUME Init PROVE Safe
  OBVIOUS
<1>1. LockDiscipline /\ Answers /\ Snapped /\ Gone
  BY DEF Init, LockDiscipline, Writing, Answers, Snapped, Gone, Deleted
<1>2. Stored
  BY RowsAssumption DEF Init, Stored
<1>3. QED BY <1>1, <1>2 DEF Safe

\* The steps that leave the table alone and start no write.
Idler(w) == ~Writing(w)' /\ (Deleted(w)' => Deleted(w) /\ target'[w] = target[w])

LEMMA QuietSafe ==
  ASSUME Typed, Safe, LockDiscipline', Answers', rows' = rows, created' = created,
         \A w \in Reqs : Untouched(w) \/ Idler(w)
  PROVE  Safe'
<1>1. Stored'
  BY DEF Safe, Stored
<1>2. Snapped'
  <2>1. ASSUME NEW w \in Reqs, Writing(w)'
        PROVE  Writing(w) /\ pc'[w] = pc[w] /\ target'[w] = target[w] /\ snap'[w] = snap[w]
    BY <2>1 DEF Idler, Untouched, Writing
  <2>2. QED BY <2>1 DEF Safe, Snapped
<1>3. Gone'
  <2>1. ASSUME NEW w \in Reqs, Deleted(w)' PROVE Deleted(w) /\ target'[w] = target[w]
    BY <2>1 DEF Idler, Untouched, Deleted
  <2>2. ASSUME NEW w \in Reqs, pc'[w] = "gap" PROVE pc[w] = "gap" /\ target'[w] = target[w]
    BY <2>2 DEF Idler, Untouched, Writing
  <2>3. QED BY <2>1, <2>2 DEF Safe, Gone
<1>4. QED BY <1>1, <1>2, <1>3 DEF Safe

\* Reading a todo to change it.
LEMMA EnterSafe ==
  ASSUME Typed, Safe, LockDiscipline', Answers', rows' = rows, created' = created,
         NEW r \in Reqs, \A w \in Reqs \ {r} : Untouched(w),
         NEW id \in Ids, NEW row \in rows[id],
         pc'[r] = "apply", target'[r] = id, snap'[r] = {row}
  PROVE  Safe'
<1>1. Stored'
  BY DEF Safe, Stored
<1>2. Snapped'
  <2>1. ASSUME NEW w \in Reqs \ {r}, Writing(w)'
        PROVE  Writing(w) /\ pc'[w] = pc[w] /\ target'[w] = target[w] /\ snap'[w] = snap[w]
    BY <2>1 DEF Untouched, Writing
  <2>2. row \in Row /\ StampMatchesStatus(row) /\ id \in created /\ rows[id] = {row}
    BY DEF Safe, Stored, Typed, TypeOK
  <2>3. ASSUME NEW w \in Reqs, Writing(w)', w = r
        PROVE  /\ target'[w] \in created'
               /\ \E s \in Row : snap'[w] = {s} /\ StampMatchesStatus(s)
               /\ rows'[target'[w]] = IF pc'[w] = "apply" THEN snap'[w] ELSE {}
    BY <2>2, <2>3
  <2>4. ASSUME NEW w \in Reqs \ {r}, Writing(w)'
        PROVE  /\ target'[w] \in created'
               /\ \E s \in Row : snap'[w] = {s} /\ StampMatchesStatus(s)
               /\ rows'[target'[w]] = IF pc'[w] = "apply" THEN snap'[w] ELSE {}
    BY <2>1, <2>4 DEF Safe, Snapped
  <2>5. QED BY <2>3, <2>4 DEF Snapped
<1>3. Gone'
  <2>1. ASSUME NEW w \in Reqs, Deleted(w)' PROVE Deleted(w) /\ target'[w] = target[w]
    BY <2>1 DEF Untouched, Deleted
  <2>2. ASSUME NEW w \in Reqs, pc'[w] = "gap" PROVE pc[w] = "gap" /\ target'[w] = target[w]
    BY <2>2 DEF Untouched
  <2>3. QED BY <2>1, <2>2 DEF Safe, Gone
<1>4. QED BY <1>1, <1>2, <1>3 DEF Safe

\* The steps that write the row of one todo, that of their target.
WritesOnly(r) ==
    /\ \A id \in Ids : id # target[r] => rows'[id] = rows[id]
    /\ created' = created
    /\ target' = target /\ call' = call
    /\ \A w \in Reqs \ {r} : Untouched(w)

LEMMA UpsertDeleteSafe ==
  ASSUME Typed, Safe, LockDiscipline', Answers', NEW r \in Reqs, ~DeleteMayFail, UpsertDelete(r)
  PROVE  Safe'
<1>1. /\ WritesOnly(r) /\ pc[r] = "apply" /\ pc'[r] = "gap" /\ snap' = snap
      /\ target[r] \in Ids /\ rows'[target[r]] = {}
  BY DEF UpsertDelete, request, WritesOnly, Untouched, Typed, TypeOK, Shape, Targeted
<1>2. ASSUME NEW w \in Reqs \ {r}, Writing(w)'
      PROVE  Writing(w) /\ target[w] # target[r] /\ pc'[w] = pc[w] /\ snap'[w] = snap[w]
  BY <1>1, <1>2, Exclusive DEF WritesOnly, Untouched, Writing, Safe
<1>3. rows[target[r]] # {} /\ target[r] \in created
  BY <1>1 DEF Safe, Snapped, Writing
<1>4. Stored'
  BY <1>1 DEF Safe, Stored, WritesOnly
<1>5. Snapped'
  <2>1. ASSUME NEW w \in Reqs \ {r}, Writing(w)' PROVE target[w] \in Ids
    BY <1>2, <2>1 DEF Typed, Shape, Targeted, Writing
  <2>2. ASSUME NEW w \in Reqs, Writing(w)', w = r
        PROVE  /\ target'[w] \in created'
               /\ \E s \in Row : snap'[w] = {s} /\ StampMatchesStatus(s)
               /\ rows'[target'[w]] = IF pc'[w] = "apply" THEN snap'[w] ELSE {}
    BY <1>1, <1>3, <2>2 DEF Safe, Snapped, WritesOnly, Writing
  <2>3. ASSUME NEW w \in Reqs \ {r}, Writing(w)'
        PROVE  /\ target'[w] \in created'
               /\ \E s \in Row : snap'[w] = {s} /\ StampMatchesStatus(s)
               /\ rows'[target'[w]] = IF pc'[w] = "apply" THEN snap'[w] ELSE {}
    BY <1>1, <1>2, <2>1, <2>3 DEF Safe, Snapped, WritesOnly
  <2>4. QED BY <2>2, <2>3 DEF Snapped
<1>6. Gone'
  <2>1. ASSUME NEW w \in Reqs, Deleted(w)' PROVE Deleted(w) /\ target[w] # target[r]
    BY <1>1, <1>3, <2>1 DEF WritesOnly, Untouched, Deleted, Safe, Gone
  <2>2. ASSUME NEW w \in Reqs, pc'[w] = "gap" PROVE pc[w] = "gap" \/ w = r
    BY <1>1, <2>2 DEF WritesOnly, Untouched
  <2>3. ASSUME NEW w \in Reqs, Deleted(w)' PROVE rows'[target[w]] = {}
    <3>1. CASE target[w] \in Ids
      BY <1>1, <2>1, <2>3, <3>1 DEF WritesOnly, Safe, Gone
    <3>2. CASE target[w] \notin Ids
      BY <2>1, <2>3, <3>2 DEF Typed, TypeOK, Safe, Gone
    <3>3. QED BY <3>1, <3>2
  <2>4. QED BY <1>1, <2>1, <2>2, <2>3 DEF Safe, Gone, WritesOnly
<1>7. QED BY <1>4, <1>5, <1>6 DEF Safe

LEMMA UpsertAddSafe ==
  ASSUME Typed, Safe, LockDiscipline', Answers', NEW r \in Reqs, UpsertAdd(r)
  PROVE  Safe'
<1>1. PICK row \in snap[r] :
        rows' = [rows EXCEPT ![target[r]] = @ \cup {ApplyChange(row, call[r].change, r)}]
  BY DEF UpsertAdd
<1> DEFINE new == ApplyChange(row, call[r].change, r)
<1>2. StampMatchesStatus(new)
  BY ChangedStamp, UpdateCalls, RowsAssumption
  DEF UpsertAdd, Typed, TypeOK, Shape, Safe, Snapped, Writing
<1> HIDE DEF new
<1>3. /\ WritesOnly(r) /\ pc[r] = "gap" /\ pc'[r] = "done" /\ target[r] \in Ids
      /\ \A w \in Reqs \ {r} : Untouched(w)
  BY <1>1 DEF UpsertAdd, Answer, WritesOnly, Untouched, Typed, TypeOK, Shape, Targeted
<1>4. rows[target[r]] = {} /\ target[r] \in created
  BY <1>3 DEF Safe, Snapped, Writing
<1>5. rows'[target[r]] = {new}
  BY <1>1, <1>3, <1>4 DEF new, Typed, TypeOK
<1>6. ASSUME NEW w \in Reqs, Writing(w)'
      PROVE  Writing(w) /\ target[w] # target[r] /\ pc'[w] = pc[w] /\ snap'[w] = snap[w]
             /\ target[w] \in Ids
  BY <1>3, <1>6, Exclusive DEF Untouched, Writing, Safe, Typed, Shape, Targeted
<1>7. Stored'
  BY <1>2, <1>3, <1>4, <1>5 DEF Safe, Stored, WritesOnly
<1>8. Snapped'
  BY <1>3, <1>6 DEF Safe, Snapped, WritesOnly
<1>9. Gone'
  <2>1. call[r].op = "update"
    BY <1>3 DEF Typed, Shape
  <2>2. ASSUME NEW w \in Reqs, Deleted(w)'
        PROVE  Deleted(w) /\ target[w] # target[r] /\ target[w] \in Ids
    BY <1>3, <2>1, <2>2 DEF WritesOnly, Untouched, Deleted, Safe, Gone, Typed, TypeOK
  <2>3. ASSUME NEW w \in Reqs, pc'[w] = "gap" PROVE pc[w] = "gap"
    BY <1>3, <2>3 DEF Untouched
  <2>4. QED BY <1>3, <2>2, <2>3 DEF Safe, Gone, WritesOnly
<1>10. QED BY <1>7, <1>8, <1>9 DEF Safe

LEMMA DeleteSafe ==
  ASSUME Typed, Safe, LockDiscipline', Answers', NEW r \in Reqs, Delete(r)
  PROVE  Safe'
<1>1. /\ WritesOnly(r) /\ pc[r] = "apply" /\ pc'[r] = "done" /\ target[r] \in Ids
      /\ rows'[target[r]] = {} /\ \A w \in Reqs \ {r} : Untouched(w)
  BY DEF Delete, Answer, WritesOnly, Untouched, Typed, TypeOK, Shape, Targeted
<1>2. rows[target[r]] # {} /\ target[r] \in created
  BY <1>1 DEF Safe, Snapped, Writing
<1>3. ASSUME NEW w \in Reqs, Writing(w)'
      PROVE  Writing(w) /\ target[w] # target[r] /\ pc'[w] = pc[w] /\ snap'[w] = snap[w]
             /\ target[w] \in Ids
  BY <1>1, <1>3, Exclusive DEF Untouched, Writing, Safe, Typed, Shape, Targeted
<1>4. Stored'
  BY <1>1 DEF Safe, Stored, WritesOnly
<1>5. Snapped'
  BY <1>1, <1>3 DEF Safe, Snapped, WritesOnly
<1>6. Gone'
  <2>1. ASSUME NEW w \in Reqs \ {r}, Deleted(w)'
        PROVE  Deleted(w) /\ target[w] # target[r] /\ target[w] \in Ids
    BY <1>1, <1>2, <2>1 DEF WritesOnly, Untouched, Deleted, Safe, Gone, Typed, TypeOK
  <2>2. ASSUME NEW w \in Reqs, pc'[w] = "gap" PROVE pc[w] = "gap" /\ target[w] # target[r]
    BY <1>1, <1>3, <2>2 DEF Untouched, Writing
  <2>3. QED BY <1>1, <1>2, <2>1, <2>2 DEF Safe, Gone, WritesOnly
<1>7. QED BY <1>4, <1>5, <1>6 DEF Safe

LEMMA InsertSafe ==
  ASSUME Typed, Safe, LockDiscipline', Answers', NEW r \in Reqs, Insert(r)
  PROVE  Safe'
<1>1. PICK id \in Ids \ created :
        /\ rows' = [rows EXCEPT ![id] = @ \cup {Fresh(call[r].change.to)}]
        /\ created' = created \cup {id}
  BY DEF Insert
<1> DEFINE new == Fresh(call[r].change.to)
<1>2. StampMatchesStatus(new)
  BY DEF Fresh, StampMatchesStatus, TerminalStatuses
<1> HIDE DEF new
<1>3. rows[id] = {}
  BY <1>1 DEF Safe, Stored
<1>4. rows'[id] = {new} /\ \A x \in Ids \ {id} : rows'[x] = rows[x]
  BY <1>1, <1>3 DEF new, Typed, TypeOK
<1>5. /\ pc[r] = "insert" /\ pc'[r] = "done" /\ call[r].op = "add" /\ call' = call
      /\ target' = target /\ \A w \in Reqs \ {r} : Untouched(w)
  BY DEF Insert, Answer, Untouched, Typed, TypeOK, Shape
<1>6. Stored'
  BY <1>1, <1>2, <1>4 DEF Safe, Stored
<1>7. Snapped'
  <2>1. ASSUME NEW w \in Reqs, Writing(w)'
        PROVE  /\ Writing(w) /\ pc'[w] = pc[w] /\ snap'[w] = snap[w]
               /\ target[w] \in Ids \ {id}
    BY <1>1, <1>5, <2>1 DEF Untouched, Writing, Safe, Snapped, Typed, Shape, Targeted
  <2>2. QED BY <1>1, <1>4, <1>5, <2>1 DEF Safe, Snapped
<1>8. Gone'
  <2>1. ASSUME NEW w \in Reqs, Deleted(w)' PROVE Deleted(w) /\ target[w] \in Ids \ {id}
    BY <1>1, <1>5, <2>1 DEF Untouched, Deleted, Safe, Gone, Typed, TypeOK
  <2>2. ASSUME NEW w \in Reqs, pc'[w] = "gap" PROVE pc[w] = "gap"
    BY <1>5, <2>2 DEF Untouched
  <2>3. QED BY <1>1, <1>4, <1>5, <2>1, <2>2 DEF Safe, Gone
<1>9. QED BY <1>6, <1>7, <1>8 DEF Safe

LEMMA AnswersStep == Typed /\ Answers /\ [Next]_vars => Answers'
<1> SUFFICES ASSUME Typed, Answers, [Next]_vars PROVE Answers'
  OBVIOUS
<1>1. ASSUME NEW r \in Reqs, Start(r) \/ Step(r) PROVE Answers'
  <2>1. Alone(r)
    BY <1>1, StepAlone
  <2>2. /\ pc'[r] # "done" => reply'[r] = "none"
        /\ pc'[r] \in {"read_exact", "read_prefix", "read_again"} => call'[r].op = "get"
    <3> USE DEF Answers, Typed, TypeOK
    <3>1. CASE Start(r) \/ Exact(r) \/ Resolve(r) \/ Again(r)
      BY <3>1 DEF Start, Exact, Resolve, Again, Answer
    <3>2. CASE Delete(r) \/ UpsertDelete(r) \/ UpsertAdd(r) \/ Insert(r) \/ Fail(r)
      BY <3>2 DEF Delete, UpsertDelete, UpsertAdd, Insert, Fail, Answer, request
    <3>3. CASE ReadExact(r) \/ ReadPrefix(r) \/ ReadAgain(r)
      BY <3>3 DEF ReadExact, ReadPrefix, ReadAgain, Answer
    <3>4. QED BY <1>1, <3>1, <3>2, <3>3 DEF Step
  <2>3. QED BY <2>1, <2>2 DEF Alone, Untouched, Answers
<1>2. CASE Crash
  BY <1>2 DEF Crash, Answers, Typed, TypeOK
<1>3. CASE UNCHANGED vars
  BY <1>3 DEF vars, request, Answers
<1>4. QED BY <1>1, <1>2, <1>3 DEF Next

LEMMA SafeStep ==
  ASSUME ~DeleteMayFail
  PROVE  Typed /\ Safe /\ [Next]_vars => Safe'
<1> SUFFICES ASSUME Typed, Safe, [Next]_vars PROVE Safe'
  OBVIOUS
<1>1. LockDiscipline' /\ Answers'
  BY LockStep, AnswersStep DEF Safe
<1>2. ASSUME NEW r \in Reqs, Start(r) \/ Step(r) PROVE Safe'
  <2>1. Alone(r)
    BY <1>2, StepAlone
  <2>2. ASSUME rows' = rows, created' = created, ~Writing(r)', ~Deleted(r)' PROVE Safe'
    BY <1>1, <2>1, <2>2, QuietSafe DEF Alone, Idler
  <2>3. ASSUME rows' = rows, created' = created, NEW id \in Ids, NEW row \in rows[id],
               pc'[r] = "apply", target'[r] = id, snap'[r] = {row}
        PROVE  Safe'
    BY <1>1, <2>1, <2>3, EnterSafe DEF Alone
  <2> USE DEF Typed, TypeOK
  <2>4. CASE Start(r) \/ Resolve(r)
    BY <2>2, <2>4 DEF Start, Resolve, Answer, Writing, Deleted
  <2>5. CASE Exact(r)
    <3>1. CASE pc'[r] = "resolve"
      BY <2>2, <2>5, <3>1 DEF Exact, Writing, Deleted
    <3>2. CASE call[r].ref \in Ids /\ pc'[r] = "apply"
      BY <2>3, <2>5, <3>2 DEF Exact
    <3>3. QED BY <2>5, <3>1, <3>2 DEF Exact
  <2>6. CASE Again(r)
    <3>1. CASE Answer(r, "not_found")
      BY <2>2, <2>6, <3>1 DEF Again, Answer, Writing, Deleted
    <3>2. CASE pc'[r] = "apply"
      BY <2>3, <2>6, <3>2 DEF Again, Answer, Shape, Targeted
    <3>3. QED BY <2>6, <3>1, <3>2 DEF Again
  <2>7. CASE Fail(r)
    BY <2>2, <2>7 DEF Fail, Answer, Writing, Deleted
  <2>8. CASE ReadExact(r) \/ ReadPrefix(r) \/ ReadAgain(r)
    <3>1. call[r].op = "get" /\ call' = call
      BY <2>8 DEF ReadExact, ReadPrefix, ReadAgain, Safe, Answers
    <3>2. QED BY <2>2, <2>8, <3>1 DEF ReadExact, ReadPrefix, ReadAgain, Answer, Writing, Deleted
  <2>9. QED
    BY <1>1, <1>2, <2>4, <2>5, <2>6, <2>7, <2>8, DeleteSafe, UpsertDeleteSafe,
       UpsertAddSafe, InsertSafe
    DEF Step
<1>3. CASE Crash
  <2>1. ASSUME NEW w \in Reqs PROVE Idler(w)
    BY <1>3 DEF Crash, Idler, Writing, Deleted, Safe, Answers, Typed, TypeOK
  <2>2. QED BY <1>1, <1>3, <2>1, QuietSafe DEF Crash
<1>4. CASE UNCHANGED vars
  BY <1>1, <1>4, QuietSafe DEF vars, request, Untouched
<1>5. QED BY <1>2, <1>3, <1>4 DEF Next

\* While deletes in an upsert work, the whole invariant holds.
THEOREM TodoSafe ==
  ASSUME ~DeleteMayFail
  PROVE  Spec => [](Typed /\ Safe)
BY TypedInit, TypedStep, SafeInit, SafeStep, PTL DEF Spec

\* No update is lost: what a writer read is what the table holds when it writes.
THEOREM ReadsCurrent ==
  ASSUME ~DeleteMayFail
  PROVE  Spec => []ReadIsCurrent
<1>1. Safe => ReadIsCurrent
  BY DEF Safe, Snapped, ReadIsCurrent, Writing
<1>2. QED BY <1>1, TodoSafe, PTL

\* One row per ID, stamped exactly while its status is terminal.
THEOREM RowsConsistent ==
  ASSUME ~DeleteMayFail
  PROVE  Spec => []Consistent
<1>1. Safe => Consistent
  <2> SUFFICES ASSUME Safe, NEW id \in Ids
               PROVE  /\ Cardinality(rows[id]) <= 1
                      /\ \A row \in rows[id] : StampMatchesStatus(row)
    BY DEF Consistent
  <2>1. CASE rows[id] = {}
    BY <2>1, FS_EmptySet
  <2>2. CASE rows[id] # {}
    <3>1. PICK row \in rows[id] : rows[id] = {row} /\ StampMatchesStatus(row)
      BY <2>2 DEF Safe, Stored
    <3>2. Cardinality({row}) = 1
      BY FS_Singleton
    <3>3. QED BY <3>1, <3>2
  <2>3. QED BY <2>1, <2>2
<1>2. QED BY <1>1, TodoSafe, PTL

\* A todo that delete_todo reported deleted never comes back.
THEOREM DeletedForGood ==
  ASSUME ~DeleteMayFail
  PROVE  Spec => []NoResurrection
<1>1. Safe => NoResurrection
  BY DEF Safe, Gone, Deleted, NoResurrection
<1>2. QED BY <1>1, TodoSafe, PTL

(* ---------------------------- Refinement -------------------------------- *)

\* The abstract todo of an ID: the snapshot of the request in its gap, if there
\* is one, otherwise what the table holds.
Mapping ==
    /\ Logical = [id \in Ids |-> Logical[id]]
    /\ \A r \in Reqs : pc[r] = "gap" => Logical[target[r]] = snap[r]
    /\ \A id \in Ids : (\A r \in Reqs : pc[r] = "gap" => target[r] # id) => Logical[id] = rows[id]

LEMMA MappingHolds == Typed /\ Safe => Mapping
<1> SUFFICES ASSUME Typed, Safe PROVE Mapping
  OBVIOUS
<1>1. Logical = [id \in Ids |-> Logical[id]]
  BY DEF Logical
<1>2. ASSUME NEW r \in Reqs, pc[r] = "gap" PROVE Logical[target[r]] = snap[r]
  <2>1. target[r] \in Ids /\ rows[target[r]] = {}
    BY <1>2 DEF Typed, Shape, Targeted, Safe, Snapped, Writing
  <2>2. InGap(target[r]) = {r}
    BY <1>2, Exclusive DEF InGap, Writing, Safe
  <2>3. QED BY <2>1, <2>2 DEF Logical, Known
<1>3. ASSUME NEW id \in Ids, \A r \in Reqs : pc[r] = "gap" => target[r] # id
      PROVE  Logical[id] = rows[id]
  <2>1. InGap(id) = {}
    BY <1>3 DEF InGap
  <2>2. QED BY <2>1 DEF Logical, Known
<1>4. QED BY <1>1, <1>2, <1>3 DEF Mapping

LEMMA MappingHoldsNext == (Typed /\ Safe)' => Mapping'
BY MappingHolds, PTL

LEMMA SameChange ==
  ASSUME NEW row, NEW c, NEW now
  PROVE  Abstract!ApplyChange(row, c, now) = ApplyChange(row, c, now)
BY DEF ApplyChange, Abstract!ApplyChange, TerminalStatuses, Abstract!TerminalStatuses,
       NoStamp, Abstract!NoStamp

LEMMA MapsInit == Init => Abstract!SpecInit
<1> SUFFICES ASSUME Init PROVE Abstract!SpecInit
  OBVIOUS
<1>1. Mapping
  BY TypedInit, SafeInit, MappingHolds
<1>2. \A id \in Ids : Logical[id] = rows[id]
  BY <1>1 DEF Mapping, Init
<1>3. ASSUME NEW id \in Ids
      PROVE  /\ rows[id] \in {{}} \cup {{row} : row \in Abstract!Row}
             /\ \A row \in rows[id] : Abstract!StampMatchesStatus(row)
             /\ id \in created <=> rows[id] # {}
  <2>1. rows[id] \in {{}} \cup {{row} : row \in Initial}
    BY DEF Init
  <2>2. ASSUME NEW row \in Initial PROVE row \in Abstract!Row /\ Abstract!StampMatchesStatus(row)
    BY RowsAssumption
    DEF Row, Abstract!Row, Statuses, Abstract!Statuses, NoStamp, Abstract!NoStamp,
        StampMatchesStatus, Abstract!StampMatchesStatus, TerminalStatuses, Abstract!TerminalStatuses
  <2>3. id \in created <=> rows[id] # {}
    BY DEF Init
  <2>4. QED BY <2>1, <2>2, <2>3
<1>4. created \subseteq Ids
  BY RefsAssumption DEF Init
<1> HIDE DEF Init
<1>5. Logical \in [Ids -> {{}} \cup {{row} : row \in Abstract!Row}]
  BY <1>1, <1>2, <1>3 DEF Mapping
<1>6. created = {id \in Ids : Logical[id] # {}}
  BY <1>2, <1>3, <1>4
<1>7. QED BY <1>2, <1>3, <1>5, <1>6 DEF Abstract!SpecInit

\* A step that changes the abstract todo of no ID is a stutter.
LEMMA Stutters ==
  ASSUME Mapping, Mapping', created' = created, \A id \in Ids : Logical'[id] = Logical[id]
  PROVE  UNCHANGED Abstract!specVars
BY DEF Mapping, Abstract!specVars

\* The quiet steps write no row and start no gap.
QuietStep(r) == Alone(r) /\ rows' = rows /\ created' = created /\ pc'[r] # "gap"

\* They change at most the abstract todo of the gap their request leaves.
LEMMA QuietChange ==
  ASSUME Typed, Safe, Mapping, Mapping', NEW r \in Reqs, QuietStep(r),
         NEW id \in Ids, Logical'[id] # Logical[id]
  PROVE  pc[r] = "gap" /\ target[r] = id
<1> USE DEF QuietStep, Alone, Untouched
<1>1. CASE \E w \in Reqs \ {r} : pc[w] = "gap" /\ target[w] = id
  <2>1. PICK w \in Reqs \ {r} : pc[w] = "gap" /\ target[w] = id
    BY <1>1
  <2>2. pc'[w] = "gap" /\ target'[w] = id /\ snap'[w] = snap[w]
    BY <2>1
  <2>3. Logical'[id] = snap'[w] /\ Logical[id] = snap[w]
    BY <2>1, <2>2 DEF Mapping
  <2>4. QED BY <2>2, <2>3
<1>2. CASE \A w \in Reqs : pc[w] = "gap" => target[w] # id
  <2>1. \A w \in Reqs : pc'[w] = "gap" => target'[w] # id
    BY <1>2
  <2>2. QED BY <1>2, <2>1 DEF Mapping
<1>3. QED BY <1>1, <1>2

LEMMA MapsQuiet ==
  ASSUME Typed, Safe, Mapping, Mapping', NEW r \in Reqs, QuietStep(r)
  PROVE  Abstract!SpecNext \/ UNCHANGED Abstract!specVars
<1>1. CASE pc[r] = "gap"
  <2> DEFINE gone == {target[r]}
  <2>1. target[r] \in Ids /\ rows[target[r]] = {}
    BY <1>1 DEF Typed, Shape, Targeted, Safe, Snapped, Writing
  <2>2. Logical'[target[r]] = {}
    <3>1. \A w \in Reqs : pc'[w] = "gap" => target'[w] # target[r]
      BY <1>1, Exclusive DEF QuietStep, Alone, Untouched, Writing, Safe
    <3>2. QED BY <2>1, <3>1 DEF QuietStep, Mapping
  <2>3. \A id \in Ids : id # target[r] => Logical'[id] = Logical[id]
    BY QuietChange
  <2>4. Logical' = [id \in Ids |-> IF id \in gone THEN {} ELSE Logical[id]]
    BY <2>1, <2>2, <2>3 DEF Mapping
  <2>5. Abstract!Remove(gone)
    BY <2>4 DEF Abstract!Remove, QuietStep
  <2>6. QED BY <2>1, <2>5 DEF Abstract!SpecNext
<1>2. CASE pc[r] # "gap"
  BY <1>2, QuietChange, Stutters DEF QuietStep
<1>3. QED BY <1>1, <1>2

\* What a step of r on its target leaves of the other todos.
LEMMA OthersMapped ==
  ASSUME Typed, Safe, Mapping, Mapping', NEW r \in Reqs, \A w \in Reqs \ {r} : Untouched(w),
         target'[r] = target[r], NEW id \in Ids, id # target[r], rows'[id] = rows[id]
  PROVE  Logical'[id] = Logical[id]
<1>1. CASE \E w \in Reqs : pc[w] = "gap" /\ target[w] = id
  <2>1. PICK w \in Reqs : pc[w] = "gap" /\ target[w] = id
    BY <1>1
  <2>2. Untouched(w)
    BY <2>1
  <2>3. QED BY <2>1, <2>2 DEF Mapping, Untouched
<1>2. CASE \A w \in Reqs : pc[w] = "gap" => target[w] # id
  <2>1. \A w \in Reqs : pc'[w] = "gap" => target'[w] # id
    BY <1>2 DEF Untouched
  <2>2. QED BY <1>2, <2>1 DEF Mapping
<1>3. QED BY <1>1, <1>2

\* Nobody else is in the gap of the todo that r writes.
LEMMA NobodyElse ==
  ASSUME Typed, Safe, Mapping, NEW r \in Reqs, \A w \in Reqs \ {r} : Untouched(w), Writing(r)
  PROVE  \A w \in Reqs \ {r} : pc'[w] = "gap" => target'[w] # target[r]
BY Exclusive DEF Untouched, Writing, Safe

\* The first half of an upsert, when its delete works, changes no abstract todo.
LEMMA HalfUpsert ==
  ASSUME ~DeleteMayFail, Typed, Safe, Mapping, Mapping', NEW r \in Reqs, UpsertDelete(r)
  PROVE  created' = created /\ \A id \in Ids : Logical'[id] = Logical[id]
<1> USE DEF Typed, TypeOK
<1>1. /\ \A w \in Reqs \ {r} : Untouched(w) /\ target'[r] = target[r] /\ target[r] \in Ids
      /\ pc[r] = "apply" /\ pc'[r] = "gap" /\ snap' = snap /\ target' = target
      /\ created' = created
      /\ \A id \in Ids : id # target[r] => rows'[id] = rows[id]
  BY DEF UpsertDelete, request, Untouched, Shape, Targeted
<1>2. Logical[target[r]] = rows[target[r]] /\ rows[target[r]] = snap[r]
  <2>1. \A w \in Reqs : pc[w] = "gap" => target[w] # target[r]
    BY <1>1, Exclusive DEF Writing, Safe
  <2>2. QED BY <1>1, <2>1 DEF Mapping, Safe, Snapped, Writing
<1>3. Logical'[target[r]] = snap[r]
  BY <1>1 DEF Mapping
<1>4. QED BY <1>1, <1>2, <1>3, OthersMapped

LEMMA MapsWrites ==
  ASSUME ~DeleteMayFail, Typed, Safe, Mapping, Mapping', NEW r \in Reqs,
         UpsertDelete(r) \/ UpsertAdd(r) \/ Delete(r) \/ Insert(r)
  PROVE  Abstract!SpecNext \/ UNCHANGED Abstract!specVars
<1> USE DEF Typed, TypeOK
<1>1. CASE UpsertDelete(r)
  BY <1>1, HalfUpsert, Stutters
<1>2. CASE UpsertAdd(r)
  <2>1. PICK row \in snap[r] :
          rows' = [rows EXCEPT ![target[r]] = @ \cup {ApplyChange(row, call[r].change, r)}]
    BY <1>2 DEF UpsertAdd
  <2> DEFINE new == ApplyChange(row, call[r].change, r)
             id  == target[r]
  <2>2. /\ \A w \in Reqs \ {r} : Untouched(w)
        /\ target'[r] = id /\ id \in Ids /\ pc[r] = "gap" /\ pc'[r] = "done"
        /\ created' = created /\ call[r].op = "update"
        /\ \A x \in Ids : x # id => rows'[x] = rows[x]
    BY <1>2, <2>1 DEF UpsertAdd, Answer, Untouched, Shape, Targeted
  <2> HIDE DEF id
  <2>3. rows[id] = {} /\ snap[r] = {row}
    BY <2>2 DEF id, Safe, Snapped, Writing
  <2>4. rows'[id] = {new}
    BY <2>1, <2>2, <2>3 DEF id
  <2>5. row \in Logical[id]
    BY <2>2, <2>3 DEF id, Mapping
  <2>6. Logical'[id] = {new}
    <3>1. \A w \in Reqs : pc'[w] = "gap" => target'[w] # id
      BY <2>2, NobodyElse DEF id, Writing
    <3>2. QED BY <2>2, <2>4, <3>1 DEF Mapping
  <2>7. \A x \in Ids \ {id} : Logical'[x] = Logical[x]
    BY <2>2, OthersMapped DEF id
  <2>8. Logical' = [Logical EXCEPT ![id] = {Abstract!ApplyChange(row, call[r].change, r)}]
    BY <2>2, <2>6, <2>7, SameChange DEF Mapping
  <2>9. call[r].change \in Abstract!Change /\ r \in Stamps
    BY <2>2, UpdateCalls, RowsAssumption DEF Change, Abstract!Change, Statuses, Abstract!Statuses
  <2>10. Abstract!Update(id)
    BY <2>2, <2>5, <2>8, <2>9 DEF Abstract!Update
  <2>11. QED BY <2>2, <2>10 DEF Abstract!SpecNext
<1>3. CASE Delete(r)
  <2> DEFINE id == target[r]
  <2>1. /\ \A w \in Reqs \ {r} : Untouched(w)
        /\ target'[r] = id /\ id \in Ids /\ pc[r] = "apply" /\ pc'[r] = "done"
        /\ created' = created /\ rows'[id] = {}
        /\ \A x \in Ids : x # id => rows'[x] = rows[x]
    BY <1>3 DEF Delete, Answer, Untouched, Shape, Targeted
  <2> HIDE DEF id
  <2>2. Logical'[id] = {}
    <3>1. \A w \in Reqs : pc'[w] = "gap" => target'[w] # id
      BY <2>1, NobodyElse DEF id, Writing
    <3>2. QED BY <2>1, <3>1 DEF Mapping
  <2>3. \A x \in Ids \ {id} : Logical'[x] = Logical[x]
    BY <2>1, OthersMapped DEF id
  <2> DEFINE gone == {id}
  <2>4. Logical' = [x \in Ids |-> IF x \in gone THEN {} ELSE Logical[x]]
    BY <2>2, <2>3 DEF Mapping
  <2>5. Abstract!Remove(gone)
    BY <2>1, <2>4 DEF Abstract!Remove
  <2>6. QED BY <2>1, <2>5 DEF Abstract!SpecNext
<1>4. CASE Insert(r)
  <2>1. PICK id \in Ids \ created :
          /\ rows' = [rows EXCEPT ![id] = @ \cup {Fresh(call[r].change.to)}]
          /\ created' = created \cup {id}
    BY <1>4 DEF Insert
  <2>2. /\ \A w \in Reqs \ {r} : Untouched(w)
        /\ pc[r] = "insert" /\ pc'[r] = "done" /\ target' = target
        /\ call[r].op = "add"
    BY <1>4 DEF Insert, Answer, Untouched, Shape
  <2>3. rows[id] = {}
    BY <2>1 DEF Safe, Stored
  <2>4. rows'[id] = {Fresh(call[r].change.to)} /\ \A x \in Ids \ {id} : rows'[x] = rows[x]
    BY <2>1, <2>3
  <2>5. ASSUME NEW w \in Reqs PROVE pc'[w] = "gap" <=> pc[w] = "gap"
    BY <2>2 DEF Untouched
  <2>6. ASSUME NEW w \in Reqs, pc[w] = "gap" PROVE target[w] \in Ids \ {id} /\ snap'[w] = snap[w]
    BY <2>1, <2>2, <2>6 DEF Safe, Snapped, Writing, Shape, Targeted, Untouched
  <2>7. ASSUME NEW x \in Ids \ {id} PROVE Logical'[x] = Logical[x]
    <3>1. CASE \E w \in Reqs : pc[w] = "gap" /\ target[w] = x
      <4>1. PICK w \in Reqs : pc[w] = "gap" /\ target[w] = x
        BY <3>1
      <4>2. pc'[w] = "gap" /\ target'[w] = x /\ snap'[w] = snap[w]
        BY <2>2, <2>5, <2>6, <4>1
      <4>3. QED BY <4>1, <4>2 DEF Mapping
    <3>2. CASE \A w \in Reqs : pc[w] = "gap" => target[w] # x
      BY <2>2, <2>4, <2>5, <3>2 DEF Mapping
    <3>3. QED BY <3>1, <3>2
  <2>8. Logical'[id] = {Fresh(call[r].change.to)}
    BY <2>1, <2>2, <2>4, <2>5, <2>6 DEF Mapping
  <2>9. Fresh(call[r].change.to)
          = [title |-> call[r].change.to, status |-> "pending", done |-> Abstract!NoStamp]
    BY DEF Fresh, NoStamp, Abstract!NoStamp
  <2>10. call[r].change.to \in Titles
    BY <2>2, AddCalls
  <2>11. Logical' = [Logical EXCEPT ![id] =
            {[title |-> call[r].change.to, status |-> "pending", done |-> Abstract!NoStamp]}]
    BY <2>1, <2>7, <2>8, <2>9 DEF Mapping
  <2>12. Abstract!Create(id)
    BY <2>1, <2>10, <2>11 DEF Abstract!Create
  <2>13. QED BY <2>1, <2>12 DEF Abstract!SpecNext
<1>5. QED BY <1>1, <1>2, <1>3, <1>4

\* A crash ends every upsert in its gap: their todos are gone at once.
LEMMA MapsCrash ==
  ASSUME Typed, Safe, Mapping, Mapping', Crash
  PROVE  Abstract!SpecNext
<1> DEFINE gone == {id \in Ids : \E r \in Reqs : pc[r] = "gap" /\ target[r] = id}
<1>1. /\ rows' = rows /\ created' = created
      /\ \A r \in Reqs : pc'[r] # "gap"
  BY DEF Crash
<1>2. ASSUME NEW id \in Ids PROVE Logical'[id] = IF id \in gone THEN {} ELSE Logical[id]
  <2>1. Logical'[id] = rows[id]
    BY <1>1 DEF Mapping
  <2>2. CASE id \in gone
    BY <2>1, <2>2 DEF Safe, Snapped, Writing
  <2>3. CASE id \notin gone
    BY <2>1, <2>3 DEF Mapping
  <2>4. QED BY <2>2, <2>3
<1>3. Logical' = [id \in Ids |-> IF id \in gone THEN {} ELSE Logical[id]]
  BY <1>2 DEF Mapping
<1>4. Abstract!Remove(gone)
  BY <1>1, <1>3 DEF Abstract!Remove
<1>5. gone \in SUBSET Ids
  OBVIOUS
<1> HIDE DEF gone
<1>6. QED BY <1>4, <1>5 DEF Abstract!SpecNext

LEMMA MapsStep ==
  ASSUME ~DeleteMayFail
  PROVE  Typed /\ Safe /\ Mapping /\ Mapping' /\ [Next]_vars
           => [Abstract!SpecNext]_Abstract!specVars
<1> SUFFICES ASSUME Typed, Safe, Mapping, Mapping', [Next]_vars
             PROVE  Abstract!SpecNext \/ UNCHANGED Abstract!specVars
  OBVIOUS
<1>1. ASSUME NEW r \in Reqs, Start(r) \/ Step(r)
      PROVE  Abstract!SpecNext \/ UNCHANGED Abstract!specVars
  <2>1. Alone(r)
    BY <1>1, StepAlone
  <2> USE DEF Typed, TypeOK
  <2>2. CASE Start(r) \/ Exact(r) \/ Resolve(r) \/ Again(r)
    <3>1. rows' = rows /\ created' = created /\ pc'[r] # "gap"
      BY <2>2 DEF Start, Exact, Resolve, Again, Answer
    <3>2. QED BY <2>1, <3>1, MapsQuiet DEF QuietStep
  <2>3. CASE ReadExact(r) \/ ReadPrefix(r) \/ ReadAgain(r) \/ Fail(r)
    <3>1. rows' = rows /\ created' = created /\ pc'[r] # "gap"
      BY <2>3 DEF ReadExact, ReadPrefix, ReadAgain, Fail, Answer
    <3>2. QED BY <2>1, <3>1, MapsQuiet DEF QuietStep
  <2>4. CASE UpsertDelete(r) \/ UpsertAdd(r) \/ Delete(r) \/ Insert(r)
    BY <2>4, MapsWrites
  <2>5. QED BY <1>1, <2>2, <2>3, <2>4 DEF Step
<1>2. CASE Crash
  BY <1>2, MapsCrash
<1>3. CASE UNCHANGED vars
  <2>1. Logical' = Logical /\ created' = created
    BY <1>3 DEF vars, request, Logical, Known, InGap
  <2>2. QED BY <2>1 DEF Abstract!specVars
<1>4. QED BY <1>1, <1>2, <1>3 DEF Next

\* Locks, prefixes, half-done upserts, crashes and failures of anything but the
\* delete of an upsert notwithstanding, the todo collection behaves as atomic
\* creations, updates and removals.
THEOREM TodoImplements ==
  ASSUME ~DeleteMayFail
  PROVE  Spec => ImplementsSpec
<1>1. Init => Abstract!SpecInit
  BY MapsInit
<1>2. (Typed /\ Safe) /\ (Typed /\ Safe)' /\ [Next]_vars => [Abstract!SpecNext]_Abstract!specVars
  BY MappingHolds, MappingHoldsNext, MapsStep
<1>3. Spec => [](Typed /\ Safe)
  BY TodoSafe
<1>4. QED
  BY <1>1, <1>2, <1>3, PTL DEF Spec, ImplementsSpec, Abstract!TodoSpecification

(* ------------------------------ What a step may do ----------------------- *)

\* A todo is one row to its callers.
LEMMA OneTodo ==
  ASSUME Typed, Safe, NEW id \in Ids, NEW row \in Logical[id]
  PROVE  Logical[id] = {row} /\ row \in Row
<1>1. Mapping
  BY MappingHolds
<1>2. CASE \E r \in Reqs : pc[r] = "gap" /\ target[r] = id
  BY <1>1, <1>2 DEF Mapping, Safe, Snapped, Writing
<1>3. CASE \A r \in Reqs : pc[r] = "gap" => target[r] # id
  <2>1. Logical[id] = rows[id]
    BY <1>1, <1>3 DEF Mapping
  <2>2. QED BY <2>1 DEF Safe, Stored, Typed, TypeOK
<1>4. QED BY <1>2, <1>3

\* Neither kind of update moves the stamp of a todo that was and stays closed.
LEMMA ChangeKeepsStamp ==
  ASSUME NEW row \in Row, NEW c \in Change, NEW now,
         row.status \in TerminalStatuses,
         ApplyChange(row, c, now).status \in TerminalStatuses
  PROVE  ApplyChange(row, c, now).done = row.done
<1>1. CASE c.field = "title"
  BY <1>1 DEF ApplyChange, Row
<1>2. CASE c.field # "title"
  BY <1>2 DEF ApplyChange, Row
<1>3. QED BY <1>1, <1>2

\* On the abstract collection it is a matter of the two kinds of row that come.
LEMMA StampStep ==
  ASSUME Typed, Safe, [Abstract!SpecNext]_Abstract!specVars,
         NEW id \in Ids, NEW row \in Logical[id], NEW new \in Logical'[id],
         row.status \in TerminalStatuses, new.status \in TerminalStatuses
  PROVE  new.done = row.done
<1>1. Logical[id] = {row} /\ row \in Row /\ Logical = [x \in Ids |-> Logical[x]]
  BY OneTodo DEF Logical
<1>2. ASSUME NEW x \in Ids, Abstract!Create(x) PROVE new.done = row.done
  <2>1. PICK t \in Titles :
          Logical' = [Logical EXCEPT ![x] =
            {[title |-> t, status |-> "pending", done |-> Abstract!NoStamp]}]
    BY <1>2 DEF Abstract!Create
  <2>2. CASE x = id
    BY <1>1, <2>1, <2>2 DEF TerminalStatuses
  <2>3. CASE x # id
    BY <1>1, <2>1, <2>3
  <2>4. QED BY <2>2, <2>3
<1>3. ASSUME NEW x \in Ids, Abstract!Update(x) PROVE new.done = row.done
  <2>1. PICK old \in Logical[x], c \in Abstract!Change, now \in Stamps :
          Logical' = [Logical EXCEPT ![x] = {Abstract!ApplyChange(old, c, now)}]
    BY <1>3 DEF Abstract!Update
  <2>2. CASE x = id
    <3>1. old = row
      BY <1>1, <2>2
    <3>2. c \in Change
      BY DEF Change, Abstract!Change, Statuses, Abstract!Statuses
    <3>3. new = ApplyChange(row, c, now)
      BY <1>1, <2>1, <2>2, <3>1, SameChange
    <3>4. QED BY <1>1, <3>2, <3>3, ChangeKeepsStamp
  <2>3. CASE x # id
    BY <1>1, <2>1, <2>3
  <2>4. QED BY <2>2, <2>3
<1>4. ASSUME NEW gone \in SUBSET Ids, Abstract!Remove(gone) PROVE new.done = row.done
  <2>1. Logical'[id] \subseteq Logical[id]
    BY <1>4 DEF Abstract!Remove
  <2>2. QED BY <1>1, <2>1
<1>5. CASE UNCHANGED Abstract!specVars
  BY <1>1, <1>5 DEF Abstract!specVars
<1>6. QED BY <1>2, <1>3, <1>4, <1>5 DEF Abstract!SpecNext

\* "A terminal-to-terminal change keeps the earlier timestamp", with any number
\* of updates of one todo under way.
THEOREM EarlierStampKept ==
  ASSUME ~DeleteMayFail
  PROVE  Spec => KeepsEarlierStamp
<1>1. (Typed /\ Safe) /\ (Typed /\ Safe)' /\ [Next]_vars =>
        \A id \in Ids : \A row \in Logical[id], new \in Logical'[id] :
          row.status \in TerminalStatuses /\ new.status \in TerminalStatuses
            => new.done = row.done
  BY MappingHolds, MappingHoldsNext, MapsStep, StampStep
<1>2. QED BY <1>1, TodoSafe, PTL DEF Spec, KeepsEarlierStamp

\* Who may answer for a todo that is gone.
Reported(id) ==
    \/ crashes' # crashes
    \/ \E r \in Reqs : /\ target[r] = id /\ pc[r] # "done"
                       /\ \/ call[r].op = "delete" /\ reply'[r] = "ok"
                          \/ call[r].op = "update" /\ reply'[r] = "error"

LEMMA LossStep ==
  ASSUME ~DeleteMayFail, Typed, Safe, Mapping, Mapping', [Next]_vars,
         NEW id \in Ids, Logical[id] # {}, Logical'[id] = {}
  PROVE  Reported(id)
<1> USE DEF Typed, TypeOK
<1>1. ASSUME NEW r \in Reqs, Start(r) \/ Step(r) PROVE Reported(id)
  <2>1. Alone(r)
    BY <1>1, StepAlone
  <2>2. CASE Start(r) \/ Exact(r) \/ Resolve(r) \/ Again(r)
    <3>1. rows' = rows /\ created' = created /\ pc'[r] # "gap" /\ pc[r] # "gap"
      BY <2>2 DEF Start, Exact, Resolve, Again, Answer
    <3>2. QED BY <2>1, <3>1, QuietChange DEF QuietStep
  <2>3. CASE ReadExact(r) \/ ReadPrefix(r) \/ ReadAgain(r)
    <3>1. rows' = rows /\ created' = created /\ pc'[r] # "gap" /\ pc[r] # "gap"
      BY <2>3 DEF ReadExact, ReadPrefix, ReadAgain, Answer
    <3>2. QED BY <2>1, <3>1, QuietChange DEF QuietStep
  <2>4. CASE Fail(r)
    <3>1. rows' = rows /\ created' = created /\ pc'[r] # "gap" /\ reply'[r] = "error"
      BY <2>4 DEF Fail, Answer
    <3>2. pc[r] = "gap" /\ target[r] = id
      BY <2>1, <3>1, QuietChange DEF QuietStep
    <3>3. QED BY <3>1, <3>2 DEF Reported, Shape
  <2>5. CASE UpsertDelete(r)
    BY <2>5, HalfUpsert
  <2>6. CASE UpsertAdd(r)
    <3>0. PICK new : rows' = [rows EXCEPT ![target[r]] = @ \cup {new}]
      BY <2>6 DEF UpsertAdd
    <3>1. rows'[target[r]] # {} /\ target[r] \in Ids /\ target'[r] = target[r]
          /\ \A x \in Ids : x # target[r] => rows'[x] = rows[x]
      BY <2>6, <3>0 DEF UpsertAdd, Shape, Targeted
    <3>2. id # target[r]
      BY <3>1 DEF Logical, Known
    <3>3. QED BY <2>1, <3>1, <3>2, OthersMapped DEF Alone
  <2>7. CASE Delete(r)
    <3>1. /\ pc[r] = "apply" /\ call[r].op = "delete" /\ reply'[r] = "ok"
          /\ target'[r] = target[r]
          /\ \A x \in Ids : x # target[r] => rows'[x] = rows[x]
      BY <2>7 DEF Delete, Answer, Shape, Targeted
    <3>2. id = target[r]
      BY <2>1, <3>1, OthersMapped DEF Alone
    <3>3. QED BY <3>1, <3>2 DEF Reported
  <2>8. CASE Insert(r)
    <3>1. rows[id] \subseteq rows'[id] /\ pc[r] = "insert"
      BY <2>8 DEF Insert
    <3>2. ASSUME NEW w \in InGap(id) PROVE w \in InGap(id)' /\ snap'[w] = snap[w]
      BY <2>1, <3>1 DEF InGap, Alone, Untouched
    <3>3. Known(id) \subseteq Known(id)'
      BY <3>1, <3>2 DEF Known
    <3>4. QED BY <3>3 DEF Logical
  <2>9. QED BY <1>1, <2>2, <2>3, <2>4, <2>5, <2>6, <2>7, <2>8 DEF Step
<1>2. CASE Crash
  <2>1. crashes \in Nat /\ crashes' = crashes + 1
    BY <1>2, CallsAssumption DEF Crash
  <2>2. crashes' # crashes
    BY <2>1
  <2>3. QED BY <2>2 DEF Reported
<1>3. CASE UNCHANGED vars
  <2>1. Logical' = Logical
    BY <1>3 DEF vars, request, Logical, Known, InGap
  <2>2. QED BY <2>1
<1>4. QED BY <1>1, <1>2, <1>3 DEF Next

\* A todo never vanishes unreported: somebody's delete is answered "ok", the
\* update that lost it is answered with an error, or the process died.
THEOREM LossReported ==
  ASSUME ~DeleteMayFail
  PROVE  Spec => LossIsReported
<1>1. (Typed /\ Safe) /\ (Typed /\ Safe)' /\ [Next]_vars =>
        \A id \in Ids : Logical[id] # {} /\ Logical'[id] = {} =>
          \/ crashes' # crashes
          \/ \E r \in Reqs : /\ target[r] = id /\ pc[r] # "done"
                             /\ \/ call[r].op = "delete" /\ reply'[r] = "ok"
                                \/ call[r].op = "update" /\ reply'[r] = "error"
  BY MappingHolds, MappingHoldsNext, LossStep DEF Reported
<1>2. QED BY <1>1, TodoSafe, PTL DEF Spec, LossIsReported

=============================================================================
