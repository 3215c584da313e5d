---------------------------- MODULE MemoryProofs ----------------------------
(***************************************************************************)
(* Proofs about Memory, for any users, requests, memories, answers of the  *)
(* LLM and permits: a memory keeps its owner and its creation, what a      *)
(* deduplication changes is its user's own, and a deleted memory comes     *)
(* back only by a request that had read it.                                *)
(***************************************************************************)
EXTENDS Memory, TLAPS

Shape ==
    /\ DOMAIN rows = Ids /\ DOMAIN birth = Ids
    /\ DOMAIN pc = Reqs /\ DOMAIN call = Reqs /\ DOMAIN target = Reqs
    /\ DOMAIN seen = Reqs /\ (\A r \in Reqs : DOMAIN seen[r] = Ids)
    /\ DOMAIN stale = Reqs

\* What a request read is a memory as it was born, however old it is by now.
SeenBorn ==
    \A r \in Reqs : \A id \in Ids : \A row \in seen[r][id] : birth[id] = {BirthOf(row)}

\* An add_memory read its own user's.
SeenOwn ==
    \A r \in Reqs : call[r].op = "add" =>
        \A id \in Ids : \A row \in seen[r][id] : row.owner = call[r].user

\* Where a request is says what it is and what it has seen.
Placed ==
    \A r \in Reqs :
        /\ pc[r] = "get" => call[r].op = "update"
        /\ pc[r] = "idle" => seen[r] = Nothing
        /\ pc[r] = "delete" => target[r] \in Created

\* A deleted memory had been born, and is there or in somebody's hands only if
\* one of those who had read it when it was deleted may have put it back.
GoneFor ==
    \A id \in gone :
        /\ id \in Created
        /\ rows[id] # {} \/ (\E r \in Reqs : seen[r][id] # {}) =>
              \E r \in Reqs : id \in stale[r]

IInv == Shape /\ IdentityKept /\ SeenBorn /\ SeenOwn /\ Placed /\ GoneFor

-----------------------------------------------------------------------------

LEMMA InvInit == Init => IInv
<1> SUFFICES ASSUME Init PROVE IInv
  OBVIOUS
<1>1. Shape /\ SeenBorn /\ SeenOwn /\ Placed /\ GoneFor
  BY DEF Init, Shape, SeenBorn, SeenOwn, Placed, GoneFor, Nothing
<1>2. IdentityKept
  BY DEF Init, IdentityKept
<1>3. QED BY <1>1, <1>2 DEF IInv

\* A step that leaves the table, what is asked and who is stale alone, and at
\* most forgets what was read.
Quiet ==
    /\ UNCHANGED <<birth, gone, call, stale>>
    /\ \A id \in Ids : rows'[id] = rows[id]
    /\ \A q \in Reqs :
          /\ seen'[q] = seen[q] \/ seen'[q] = Nothing
          /\ pc'[q] \in {"idle", "get", "delete"} => pc'[q] = pc[q] /\ target'[q] = target[q]

LEMMA QuietStep == IInv /\ Shape' /\ Quiet => IInv'
<1> SUFFICES ASSUME IInv, Shape', Quiet PROVE IInv'
  OBVIOUS
<1> USE DEF IInv, Quiet
<1>1. \A q \in Reqs : \A id \in Ids : seen'[q][id] \subseteq seen[q][id]
  BY DEF Nothing
<1>2. IdentityKept'
  BY DEF IdentityKept
<1>3. SeenBorn'
  BY <1>1 DEF SeenBorn
<1>4. SeenOwn'
  BY <1>1 DEF SeenOwn
<1>5. Placed'
  BY DEF Placed, Created
<1>6. GoneFor'
  <2> SUFFICES ASSUME NEW id \in gone,
                      rows[id] # {} \/ \E r \in Reqs : seen'[r][id] # {}
               PROVE  \E r \in Reqs : id \in stale[r]
    BY DEF GoneFor, Created
  <2>1. id \in Ids
    BY DEF GoneFor, Created
  <2>2. rows[id] # {} \/ \E r \in Reqs : seen[r][id] # {}
    BY <1>1, <2>1
  <2>3. QED BY <2>2 DEF GoneFor
<1>7. QED BY <1>2, <1>3, <1>4, <1>5, <1>6

\* A fresh row: nobody can have read its ID, nobody can have deleted it.
LEMMA NewRowStep ==
  ASSUME IInv, Shape', NEW r \in Reqs, NEW owner, NEW text, NewRow(r, owner, text),
         UNCHANGED <<call, stale, target>>,
         \A q \in Reqs :
            /\ seen'[q] = seen[q] \/ seen'[q] = Nothing
            /\ pc'[q] \in {"idle", "get", "delete"} => pc'[q] = pc[q]
  PROVE  IInv'
<1>1. PICK id \in Ids \ Created :
        /\ rows' = [rows EXCEPT ![id] = @ \cup {[owner |-> owner, born |-> r, text |-> text]}]
        /\ birth' = [birth EXCEPT ![id] = {[owner |-> owner, born |-> r]}]
        /\ gone' = gone
  BY DEF NewRow
<1>2. birth[id] = {} /\ rows[id] = {} /\ id \notin gone /\ \A q \in Reqs : seen[q][id] = {}
  <2>1. id \in Ids /\ birth[id] = {}
    BY <1>1 DEF Created
  <2>2. rows[id] = {}
    BY <2>1 DEF IInv, IdentityKept
  <2>3. \A q \in Reqs : seen[q][id] = {}
    BY <2>1 DEF IInv, SeenBorn
  <2>4. id \notin gone
    BY <2>1 DEF IInv, GoneFor, Created
  <2>5. QED BY <2>1, <2>2, <2>3, <2>4
<1>3. \A q \in Reqs : \A i \in Ids : seen'[q][i] \subseteq seen[q][i]
  BY DEF Nothing
<1>4. \A i \in Ids : i # id => rows'[i] = rows[i] /\ birth'[i] = birth[i]
  BY <1>1 DEF IInv, Shape
<1>5. /\ rows'[id] = {[owner |-> owner, born |-> r, text |-> text]}
      /\ birth'[id] = {[owner |-> owner, born |-> r]}
  BY <1>1, <1>2 DEF IInv, Shape
<1>6. IdentityKept'
  BY <1>4, <1>5 DEF IInv, IdentityKept, BirthOf
<1>7. SeenBorn'
  BY <1>2, <1>3, <1>4 DEF IInv, SeenBorn
<1>8. SeenOwn'
  BY <1>3 DEF IInv, SeenOwn
<1>9. Created \subseteq Created'
  BY <1>4, <1>2 DEF Created
<1>10. Placed'
  BY <1>9 DEF IInv, Placed
<1>11. GoneFor'
  <2> SUFFICES ASSUME NEW i \in gone
               PROVE  /\ i \in Created'
                      /\ rows'[i] # {} \/ (\E q \in Reqs : seen'[q][i] # {}) =>
                            \E q \in Reqs : i \in stale[q]
    BY <1>1 DEF GoneFor
  <2>1. i \in Ids /\ i # id /\ i \in Created'
    BY <1>2, <1>9 DEF IInv, GoneFor, Created
  <2>2. rows'[i] = rows[i] /\ \A q \in Reqs : seen'[q][i] \subseteq seen[q][i]
    BY <1>3, <1>4, <2>1
  <2>3. QED BY <2>1, <2>2 DEF IInv, GoneFor
<1>12. QED BY <1>6, <1>7, <1>8, <1>10, <1>11 DEF IInv

\* Removing rows disturbs nothing but the hope of reading them.
LEMMA RemoveStep ==
  ASSUME IInv, Shape', NEW id, rows' = [rows EXCEPT ![id] = {}] \/ rows' = rows,
         UNCHANGED <<birth, gone, call, seen, stale>>,
         \A q \in Reqs : pc'[q] \in {"idle", "get", "delete"} => pc'[q] = pc[q] /\ target'[q] = target[q]
  PROVE  IInv'
<1>1. \A i \in Ids : rows'[i] \subseteq rows[i]
  <2>1. CASE rows' = [rows EXCEPT ![id] = {}]
    BY <2>1 DEF IInv, Shape
  <2>2. QED BY <2>1
<1>2. IdentityKept' /\ SeenBorn' /\ SeenOwn'
  BY <1>1 DEF IInv, IdentityKept, SeenBorn, SeenOwn
<1>3. Placed'
  BY DEF IInv, Placed, Created, Nothing
<1>4. GoneFor'
  BY <1>1 DEF IInv, GoneFor, Created
<1>5. QED BY <1>2, <1>3, <1>4 DEF IInv

LEMMA ShapeStep == Shape /\ [Next]_vars => Shape'
<1> SUFFICES ASSUME Shape, [Next]_vars PROVE Shape'
  OBVIOUS
<1>1. CASE Crash
  BY <1>1 DEF Crash, Shape, table, Nothing
<1>2. CASE UNCHANGED vars
  BY <1>2 DEF vars, Shape, table
<1>3. ASSUME NEW r \in Reqs, Start(r) \/ Step(r) PROVE Shape'
  <2> USE DEF Shape, table, plan, Go, Stays, End, Drop, Nothing
  <2>1. CASE Start(r) \/ Exact(r) \/ Prefix(r)
    BY <2>1 DEF Start, Exact, Prefix, Resolved
  <2>2. CASE Get(r) \/ Delete(r)
    BY <2>2 DEF Get, Delete
  <2>3. CASE Acquire(r) \/ Extract(r) \/ Search(r) \/ Decide(r)
    BY <2>3 DEF Acquire, Extract, AfterChunk, Search, Decide
  <2>4. CASE StoreRaw(r) \/ ApplyAdd(r)
    BY <2>4 DEF StoreRaw, ApplyAdd, NewRow
  <2>5. CASE ApplyUpdate(r) \/ UpsertAdd(r) \/ ApplyDelete(r) \/ ApplyNothing(r)
    BY <2>5 DEF ApplyUpdate, UpsertAdd, ApplyDelete, ApplyNothing
  <2>6. CASE NextFact(r) \/ Complete(r) \/ Fail(r)
    BY <2>6 DEF NextFact, Complete, Fail
  <2>7. QED BY <1>3, <2>1, <2>2, <2>3, <2>4, <2>5, <2>6 DEF Step
<1>4. QED BY <1>1, <1>2, <1>3 DEF Next

-----------------------------------------------------------------------------
(* The steps that read or write.                                           *)

LEMMA StartStep ==
  ASSUME IInv, Shape', NEW r \in Reqs, Start(r)
  PROVE  IInv'
<1>1. seen' = seen /\ seen[r] = Nothing /\ UNCHANGED <<rows, birth, gone, target, stale>>
  BY DEF IInv, Placed, Start, Stays, table
<1>2. /\ \A q \in Reqs : q # r => pc'[q] = pc[q] /\ call'[q] = call[q]
      /\ pc'[r] \in {"queued", "exact"}
  BY DEF IInv, Shape, Start, Go
<1>3. IdentityKept' /\ SeenBorn' /\ GoneFor'
  BY <1>1 DEF IInv, IdentityKept, SeenBorn, GoneFor, Created
<1>4. SeenOwn'
  BY <1>1, <1>2 DEF IInv, SeenOwn, Nothing
<1>5. Placed'
  BY <1>1, <1>2 DEF IInv, Placed, Created
<1>6. QED BY <1>3, <1>4, <1>5 DEF IInv

\* An ID is resolved where a row is.
LEMMA ResolvedStep ==
  ASSUME IInv, Shape', NEW r \in Reqs, NEW id \in Ids, rows[id] # {}, pc[r] # "idle",
         Resolved(r, id), UNCHANGED <<table, call, stale>>
  PROVE  IInv'
<1>1. id \in Created
  BY DEF IInv, IdentityKept, Created
<1>2. seen' = seen /\ UNCHANGED <<rows, birth, gone>>
  BY DEF Resolved, Stays, table
<1>3. /\ \A q \in Reqs : q # r => pc'[q] = pc[q] /\ target'[q] = target[q]
      /\ pc'[r] = IF call[r].op = "update" THEN "get" ELSE "delete"
      /\ target'[r] = id
  BY DEF IInv, Shape, Resolved, Go
<1>4. IdentityKept' /\ SeenBorn' /\ SeenOwn' /\ GoneFor'
  BY <1>2 DEF IInv, IdentityKept, SeenBorn, SeenOwn, GoneFor, Created
<1>5. Placed'
  BY <1>1, <1>2, <1>3 DEF IInv, Placed, Created
<1>6. QED BY <1>4, <1>5 DEF IInv

\* What a request reads is in the table, and for an add_memory its user's.
LEMMA ReadStep ==
  ASSUME IInv, Shape', NEW r \in Reqs, UNCHANGED <<table, call, stale, target>>,
         \A q \in Reqs : q # r => seen'[q] = seen[q] /\ pc'[q] = pc[q],
         pc'[r] \in {"queued", "decide"},
         \A id \in Ids : \A row \in seen'[r][id] :
            row \in rows[id] /\ (call[r].op = "add" => row.owner = call[r].user)
  PROVE  IInv'
<1>1. UNCHANGED <<rows, birth, gone>>
  BY DEF table
<1>2. IdentityKept'
  BY <1>1 DEF IInv, IdentityKept
<1>3. SeenBorn'
  BY <1>1 DEF IInv, SeenBorn, IdentityKept
<1>4. SeenOwn'
  BY DEF IInv, SeenOwn
<1>5. Placed'
  BY <1>1 DEF IInv, Placed, Created
<1>6. GoneFor'
  <2> SUFFICES ASSUME NEW id \in gone,
                      rows[id] # {} \/ \E q \in Reqs : seen'[q][id] # {}
               PROVE  \E q \in Reqs : id \in stale[q]
    BY <1>1 DEF IInv, GoneFor, Created
  <2>1. id \in Ids
    BY DEF IInv, GoneFor, Created
  <2>2. rows[id] # {} \/ \E q \in Reqs : seen[q][id] # {}
    BY <2>1
  <2>3. QED BY <2>2 DEF IInv, GoneFor
<1>7. QED BY <1>2, <1>3, <1>4, <1>5, <1>6 DEF IInv

LEMMA GetStep ==
  ASSUME IInv, Shape', NEW r \in Reqs, Get(r)
  PROVE  IInv'
<1>1. call[r].op = "update" /\ UNCHANGED <<table, call, target, stale>>
  BY DEF IInv, Placed, Get
<1>2. CASE \E row \in rows[target[r]] :
             seen' = [seen EXCEPT ![r] = [Nothing EXCEPT ![target[r]] = {row}]] /\ Go(r, "queued")
  <2>1. PICK row \in rows[target[r]] :
             seen' = [seen EXCEPT ![r] = [Nothing EXCEPT ![target[r]] = {row}]]
    BY <1>2
  <2>2. /\ \A q \in Reqs : q # r => seen'[q] = seen[q] /\ pc'[q] = pc[q]
        /\ pc'[r] = "queued"
    BY <1>2, <2>1 DEF IInv, Shape, Go
  <2>3. \A id \in Ids : \A x \in seen'[r][id] : x \in rows[id]
    BY <2>1 DEF IInv, Shape, Nothing
  <2>4. QED BY <1>1, <2>2, <2>3, ReadStep
<1>3. CASE rows[target[r]] = {} /\ End(r, "refused")
  <2>1. Quiet
    BY <1>1, <1>3 DEF Quiet, End, IInv, Shape, table
  <2>2. QED BY <2>1, QuietStep
<1>4. QED BY <1>2, <1>3 DEF Get

LEMMA SearchStep ==
  ASSUME IInv, Shape', NEW r \in Reqs, Search(r)
  PROVE  IInv'
<1>1. UNCHANGED <<table, call, target, stale>>
  BY DEF Search
<1>2. /\ \A q \in Reqs : q # r => seen'[q] = seen[q] /\ pc'[q] = pc[q]
      /\ pc'[r] = "decide"
      /\ seen'[r] = [id \in Ids |-> {row \in rows[id] : row.owner = call[r].user}]
  BY DEF Search, Go, IInv, Shape
<1>3. QED BY <1>1, <1>2, ReadStep

LEMMA DeleteStep ==
  ASSUME IInv, Shape', NEW r \in Reqs, Delete(r)
  PROVE  IInv'
<1> DEFINE id == target[r]
<1>1. id \in Ids /\ birth[id] # {}
  BY DEF IInv, Placed, Delete, Created
<1>2. /\ rows' = [rows EXCEPT ![id] = {}] /\ gone' = gone \cup {id}
      /\ stale' = [w \in Reqs |-> IF seen[w][id] # {} THEN stale[w] \cup {id} ELSE stale[w]]
      /\ UNCHANGED <<birth, call, target>>
  BY DEF Delete
<1>3. \A i \in Ids : rows'[i] \subseteq rows[i]
  BY <1>2 DEF IInv, Shape
<1>4. \A q \in Reqs : seen'[q] = seen[q] \/ seen'[q] = Nothing
  BY DEF Delete, End, IInv, Shape
<1>5. \A q \in Reqs : \A i \in Ids : seen'[q][i] \subseteq seen[q][i]
  BY <1>4 DEF Nothing
<1>6. \A q \in Reqs : pc'[q] \in {"idle", "get", "delete"} => pc'[q] = pc[q]
  BY DEF Delete, End, IInv, Shape
<1>7. IdentityKept' /\ SeenBorn' /\ SeenOwn'
  BY <1>2, <1>3, <1>5 DEF IInv, IdentityKept, SeenBorn, SeenOwn
<1>8. Placed'
  BY <1>2, <1>4, <1>6 DEF IInv, Placed, Created
<1>9. GoneFor'
  <2> SUFFICES ASSUME NEW i \in gone'
               PROVE  /\ i \in Created
                      /\ rows'[i] # {} \/ (\E q \in Reqs : seen'[q][i] # {}) =>
                            \E q \in Reqs : i \in stale'[q]
    BY <1>2 DEF GoneFor, Created
  <2>1. i \in Created /\ i \in Ids
    BY <1>1, <1>2 DEF IInv, GoneFor, Created
  <2>2. \A q \in Reqs : stale[q] \subseteq stale'[q]
    BY <1>2
  <2>3. CASE i = id
    <3>1. rows'[i] = {}
      BY <1>1, <1>2, <2>3 DEF IInv, Shape
    <3>2. ASSUME NEW q \in Reqs, seen'[q][i] # {} PROVE i \in stale'[q]
      BY <1>2, <1>5, <2>1, <2>3, <3>2
    <3>3. QED BY <2>1, <3>1, <3>2
  <2>4. CASE i # id
    <3>1. i \in gone
      BY <1>2, <2>4
    <3>2. rows'[i] \subseteq rows[i] /\ \A q \in Reqs : seen'[q][i] \subseteq seen[q][i]
      BY <1>3, <1>5, <2>1
    <3>3. QED BY <2>1, <2>2, <3>1, <3>2 DEF IInv, GoneFor
  <2>5. QED BY <2>3, <2>4
<1>10. QED BY <1>7, <1>8, <1>9 DEF IInv

\* The row an upsert adds is the one it read, with a new text.
LEMMA AddedKeeps ==
  ASSUME IInv, NEW r \in Reqs, UpsertAdd(r)
  PROVE  target[r] \in Ids => \E row \in seen[r][target[r]] : \E new :
            /\ rows' = [rows EXCEPT ![target[r]] = @ \cup {new}]
            /\ BirthOf(new) = BirthOf(row) /\ birth[target[r]] = {BirthOf(row)}
<1> SUFFICES ASSUME target[r] \in Ids
             PROVE  \E row \in seen[r][target[r]] : \E new :
                      /\ rows' = [rows EXCEPT ![target[r]] = @ \cup {new}]
                      /\ BirthOf(new) = BirthOf(row) /\ birth[target[r]] = {BirthOf(row)}
  OBVIOUS
<1> DEFINE new(row) == [owner |-> IF call[r].op = "add" THEN call[r].user ELSE row.owner,
                        born |-> row.born, text |-> fact[r]]
<1>1. PICK row \in seen[r][target[r]] : rows' = [rows EXCEPT ![target[r]] = @ \cup {new(row)}]
  BY DEF UpsertAdd
<1>2. birth[target[r]] = {BirthOf(row)}
  BY DEF IInv, SeenBorn
<1>3. call[r].op = "add" => row.owner = call[r].user
  BY DEF IInv, SeenOwn
<1>4. BirthOf(new(row)) = BirthOf(row)
  BY <1>3 DEF BirthOf
<1>5. QED BY <1>1, <1>2, <1>4

LEMMA UpsertAddStep ==
  ASSUME IInv, Shape', NEW r \in Reqs, UpsertAdd(r)
  PROVE  IInv'
<1>1. UNCHANGED <<birth, gone, call, target, seen, stale>> /\ pc' = [pc EXCEPT ![r] = "apply"]
  BY DEF UpsertAdd, Go
<1>2. CASE target[r] \notin Ids
  <2>1. \A i \in Ids : rows'[i] = rows[i]
    BY <1>2 DEF UpsertAdd, IInv, Shape
  <2>2. Quiet
    BY <1>1, <2>1 DEF Quiet, IInv, Shape
  <2>3. QED BY <2>2, QuietStep
<1>3. CASE target[r] \in Ids
  <2> DEFINE id == target[r]
  <2>0. PICK row \in seen[r][id] : \E new :
            /\ rows' = [rows EXCEPT ![id] = @ \cup {new}]
            /\ BirthOf(new) = BirthOf(row) /\ birth[id] = {BirthOf(row)}
    BY <1>3, AddedKeeps
  <2>1. PICK new :
            /\ rows' = [rows EXCEPT ![id] = @ \cup {new}]
            /\ BirthOf(new) = BirthOf(row) /\ birth[id] = {BirthOf(row)}
    BY <2>0
  <2>2. \A i \in Ids : i # id => rows'[i] = rows[i]
    BY <2>1 DEF IInv, Shape
  <2>3. rows'[id] = rows[id] \cup {new}
    BY <1>3, <2>1 DEF IInv, Shape
  <2>4. IdentityKept'
    BY <1>1, <2>1, <2>2, <2>3 DEF IInv, IdentityKept
  <2>5. SeenBorn' /\ SeenOwn'
    BY <1>1 DEF IInv, SeenBorn, SeenOwn
  <2>6. Placed'
    BY <1>1 DEF IInv, Placed, Created, Shape
  <2>7. GoneFor'
    <3> SUFFICES ASSUME NEW i \in gone,
                        rows'[i] # {} \/ \E q \in Reqs : seen[q][i] # {}
                 PROVE  \E q \in Reqs : i \in stale[q]
      BY <1>1 DEF IInv, GoneFor, Created
    <3>1. i \in Ids
      BY DEF IInv, GoneFor, Created
    <3>2. rows[i] # {} \/ \E q \in Reqs : seen[q][i] # {}
      BY <2>1, <2>2, <3>1
    <3>3. QED BY <3>2 DEF IInv, GoneFor
  <2>8. QED BY <2>4, <2>5, <2>6, <2>7 DEF IInv
<1>4. QED BY <1>2, <1>3
-----------------------------------------------------------------------------

LEMMA StepKeeps ==
  ASSUME IInv, Shape', NEW r \in Reqs, Step(r)
  PROVE  IInv'
<1>1. CASE Exact(r)
  <2>1. CASE call[r].ref \in Ids /\ rows[call[r].ref] # {} /\ Resolved(r, call[r].ref)
    BY <1>1, <2>1, ResolvedStep DEF Exact
  <2>2. CASE Go(r, "prefix") /\ UNCHANGED target /\ Stays
    <3>1. Quiet
      BY <1>1, <2>2 DEF Exact, Quiet, Go, Stays, table, IInv, Shape
    <3>2. QED BY <3>1, QuietStep
  <2>3. QED BY <1>1, <2>1, <2>2 DEF Exact
<1>2. CASE Prefix(r)
  <2> DEFINE ids == {id \in Ids \cap Names[call[r].ref] :
                       \E row \in rows[id] : call[r].scope \in {Anyone, row.owner}}
  <2>1. ASSUME NEW id \in ids, Resolved(r, id) PROVE IInv'
    <3>1. rows[id] # {} /\ pc[r] # "idle" /\ UNCHANGED <<table, call, stale>>
      BY <1>2 DEF Prefix
    <3>2. QED BY <2>1, <3>1, ResolvedStep
  <2>2. CASE End(r, "refused") /\ UNCHANGED target
    <3>1. Quiet
      BY <1>2, <2>2 DEF Prefix, Quiet, End, table, IInv, Shape
    <3>2. QED BY <3>1, QuietStep
  <2>3. QED BY <1>2, <2>1, <2>2 DEF Prefix
<1>3. CASE Acquire(r) \/ Extract(r) \/ Decide(r) \/ ApplyNothing(r) \/ NextFact(r) \/ Complete(r) \/ Fail(r)
  <2>1. CASE Acquire(r) \/ Extract(r) \/ Decide(r)
    <3>1. Quiet
      BY <2>1 DEF Acquire, Extract, AfterChunk, Decide, Quiet, Go, Stays, table, IInv, Shape
    <3>2. QED BY <3>1, QuietStep
  <2>2. CASE ApplyNothing(r) \/ NextFact(r) \/ Complete(r) \/ Fail(r)
    <3>1. Quiet
      BY <2>2 DEF ApplyNothing, NextFact, Complete, Fail, Quiet, Go, End, Stays, table, IInv, Shape
    <3>2. QED BY <3>1, QuietStep
  <2>3. QED BY <1>3, <2>1, <2>2
<1>4. CASE StoreRaw(r)
  <2>1. NewRow(r, call[r].user, call[r].text) /\ UNCHANGED <<call, stale, target>>
    BY <1>4 DEF StoreRaw
  <2>2. \A q \in Reqs :
          /\ seen'[q] = seen[q] \/ seen'[q] = Nothing
          /\ pc'[q] \in {"idle", "get", "delete"} => pc'[q] = pc[q]
    BY <1>4 DEF StoreRaw, End, IInv, Shape
  <2>3. QED BY <2>1, <2>2, NewRowStep
<1>5. CASE ApplyAdd(r)
  <2>1. NewRow(r, call[r].user, fact[r]) /\ UNCHANGED <<call, stale, target, seen, pc>>
    BY <1>5 DEF ApplyAdd
  <2>2. QED BY <2>1, NewRowStep
<1>6. CASE ApplyUpdate(r)
  <2>1. PICK id : /\ rows' = [rows EXCEPT ![id] = {}] \/ rows' = rows
                  /\ target' = [target EXCEPT ![r] = id]
    BY <1>6 DEF ApplyUpdate
  <2>2. /\ UNCHANGED <<birth, gone, call, seen, stale>>
        /\ \A q \in Reqs : pc'[q] \in {"idle", "get", "delete"} => pc'[q] = pc[q] /\ target'[q] = target[q]
    BY <1>6, <2>1 DEF ApplyUpdate, Go, Stays, IInv, Shape
  <2>3. QED BY <2>1, <2>2, RemoveStep
<1>7. CASE ApplyDelete(r)
  <2>1. PICK id : rows' = [rows EXCEPT ![id] = {}]
    BY <1>7 DEF ApplyDelete
  <2>2. UNCHANGED <<birth, gone, pc, call, target, seen, stale>>
    BY <1>7 DEF ApplyDelete
  <2>3. QED BY <2>1, <2>2, RemoveStep
<1>8. QED
  BY <1>1, <1>2, <1>3, <1>4, <1>5, <1>6, <1>7,
     GetStep, DeleteStep, SearchStep, UpsertAddStep DEF Step

LEMMA InvStep == IInv /\ [Next]_vars => IInv'
<1> SUFFICES ASSUME IInv, [Next]_vars PROVE IInv'
  OBVIOUS
<1>1. Shape'
  BY ShapeStep DEF IInv
<1>2. CASE Crash
  <2>1. Quiet
    BY <1>2 DEF Crash, Quiet, table
  <2>2. QED BY <1>1, <2>1, QuietStep
<1>3. CASE UNCHANGED vars
  <2>1. Quiet
    BY <1>3 DEF vars, Quiet, table
  <2>2. QED BY <1>1, <2>1, QuietStep
<1>4. ASSUME NEW r \in Reqs, Start(r) \/ Step(r) PROVE IInv'
  BY <1>1, <1>4, StartStep, StepKeeps
<1>5. QED BY <1>2, <1>3, <1>4 DEF Next

LEMMA Invariance == Spec => []IInv
BY InvInit, InvStep, PTL DEF Spec

\* A memory keeps its owner and its creation through any overlap of updates,
\* deletes, deduplications and crashes: whatever writes a row back writes it
\* with the identity of one it had read.
THEOREM Identity == Spec => []IdentityKept
BY Invariance, PTL DEF IInv

\* What is deleted stays deleted, but for the requests that had read it.
THEOREM Resurrection == Spec => []BackOnlyByStaleWriter
<1>1. IInv => BackOnlyByStaleWriter
  BY DEF IInv, GoneFor, BackOnlyByStaleWriter
<1>2. QED BY <1>1, Invariance, PTL

\* What add_memory changes is its caller's, with whatever IDs the LLM answers.
LEMMA ScopeStep ==
  ASSUME IInv, NEW r \in Reqs, call[r].op = "add",
         ApplyAdd(r) \/ ApplyUpdate(r) \/ UpsertAdd(r) \/ ApplyDelete(r),
         NEW id \in Ids, rows'[id] # rows[id]
  PROVE  \A b \in birth'[id] : b.owner = call[r].user
<1>1. CASE ApplyAdd(r)
  BY <1>1 DEF ApplyAdd, NewRow, IInv, Shape
<1>2. ASSUME seen[r][id] # {}, UNCHANGED birth
      PROVE  \A b \in birth'[id] : b.owner = call[r].user
  <2>1. PICK row \in seen[r][id] : TRUE
    BY <1>2
  <2>2. row.owner = call[r].user /\ birth'[id] = {BirthOf(row)}
    BY <1>2 DEF IInv, SeenOwn, SeenBorn
  <2>3. QED BY <2>2 DEF BirthOf
<1>3. CASE ApplyUpdate(r)
  BY <1>2, <1>3 DEF ApplyUpdate, Known, IInv, Shape
<1>4. CASE ApplyDelete(r)
  BY <1>2, <1>4 DEF ApplyDelete, Known, IInv, Shape
<1>5. CASE UpsertAdd(r)
  BY <1>2, <1>5 DEF UpsertAdd, IInv, Shape
<1>6. QED BY <1>1, <1>3, <1>4, <1>5

THEOREM Scope == Spec => DedupStaysInScope
<1>1. IInv => \A r \in Reqs :
          (ApplyAdd(r) \/ ApplyUpdate(r) \/ UpsertAdd(r) \/ ApplyDelete(r)) /\ call[r].op = "add" =>
             \A id \in Ids : rows'[id] # rows[id] => \A b \in birth'[id] : b.owner = call[r].user
  BY ScopeStep
<1>2. QED BY <1>1, Invariance, PTL DEF DedupStaysInScope
-----------------------------------------------------------------------------
(* Typing, and what a request's place says of its locals.                  *)

WhereIs(r) ==
    /\ pc[r] = "idle" => events[r] = {} /\ facts[r] = {}
    /\ pc[r] \in {"exact", "prefix"} => call[r].op \in {"update", "delete"}
    /\ pc[r] = "get" => call[r].op = "update"
    /\ pc[r] \in {"extract", "raw", "search", "decide"} => call[r].op = "add"
    /\ pc[r] \in {"queued", "apply", "gap"} => call[r].op \in {"add", "update"}
    /\ pc[r] = "extract" => chunk[r] > 0
    /\ pc[r] \in {"decide", "apply", "gap"} => fact[r] \in Texts
    /\ pc[r] \in {"get", "delete", "gap"} => target[r] \in Ids
    /\ pc[r] = "queued" /\ call[r].op = "update" => target[r] \in Ids
    /\ facts[r] # {} \/ (\E e \in events[r] : e.type # "UPDATE") => call[r].op = "add"
    /\ pc[r] # "done" => outcome[r] = "none"
Where == \A r \in Reqs : WhereIs(r)
Typed == TypeOK /\ Where

LEMMA CallTyped ==
  ASSUME NEW c \in Calls \cup {NoCall}
  PROVE  /\ c.op \in {"add", "update"} => c.text \in Texts
         /\ c.op = "add" => c.user \in Users
BY MemoryAssumption DEF Call, NoCall

LEMMA EventTyped ==
  ASSUME NEW e \in Event
  PROVE  /\ e.type \in {"UPDATE", "DELETE"} => e.id \in Ids
         /\ e.type = "DELETE" => e = [type |-> "DELETE", id |-> e.id]
BY DEF Event

LEMMA TypedInit == Init => Typed
<1> SUFFICES ASSUME Init PROVE Typed
  OBVIOUS
<1> USE MemoryAssumption
<1>1. ASSUME NEW id \in DOMAIN Initial PROVE Initial[id] \in Row /\ BirthOf(Initial[id]) \in Birth
  BY <1>1 DEF Row, Birth, BirthOf
<1>2. rows \in [Ids -> SUBSET Row] /\ birth \in [Ids -> SUBSET Birth]
  BY <1>1 DEF Init
<1>3. seen \in [Reqs -> [Ids -> SUBSET Row]]
  BY DEF Init, Nothing
<1>4. /\ gone \subseteq Ids /\ pc \in [Reqs -> Phases] /\ call \in [Reqs -> Calls \cup {NoCall}]
      /\ target \in [Reqs -> Ids \cup {NoId}] /\ chunk \in [Reqs -> Nat]
      /\ facts \in [Reqs -> SUBSET Texts] /\ fact \in [Reqs -> Texts \cup {NoText}]
  BY DEF Init, Phases
<1>5. /\ events \in [Reqs -> SUBSET Event] /\ warned \in [Reqs -> BOOLEAN]
      /\ outcome \in [Reqs -> Outcomes] /\ stale \in [Reqs -> SUBSET Ids]
      /\ crashes \in 0..MaxCrashes
  BY DEF Init, Outcomes
<1>6. Where
  BY DEF Init, Where, WhereIs
<1>7. QED BY <1>2, <1>3, <1>4, <1>5, <1>6 DEF Typed, TypeOK

\* What the steps of a request leave of the others.
Alone(r) == \A q \in Reqs \ {r} :
    /\ pc'[q] = pc[q] /\ call'[q] = call[q] /\ target'[q] = target[q]
    /\ chunk'[q] = chunk[q] /\ fact'[q] = fact[q] /\ events'[q] = events[q]
    /\ facts'[q] = facts[q] /\ outcome'[q] = outcome[q] /\ seen'[q] = seen[q]

LEMMA StepAlone ==
  ASSUME Typed, NEW r \in Reqs, Start(r) \/ Step(r)
  PROVE  Alone(r)
<1> USE DEF Typed, TypeOK, Alone, table, plan, Go, Stays, End, Drop
<1>1. CASE Start(r) \/ Exact(r) \/ Prefix(r)
  BY <1>1 DEF Start, Exact, Prefix, Resolved
<1>2. CASE Get(r) \/ Delete(r)
  BY <1>2 DEF Get, Delete
<1>3. CASE Acquire(r) \/ Extract(r) \/ Search(r) \/ Decide(r)
  BY <1>3 DEF Acquire, Extract, AfterChunk, Search, Decide
<1>4. CASE StoreRaw(r) \/ ApplyAdd(r)
  BY <1>4 DEF StoreRaw, ApplyAdd, NewRow
<1>5. CASE ApplyUpdate(r) \/ UpsertAdd(r) \/ ApplyDelete(r) \/ ApplyNothing(r)
  BY <1>5 DEF ApplyUpdate, UpsertAdd, ApplyDelete, ApplyNothing
<1>6. CASE NextFact(r) \/ Complete(r) \/ Fail(r)
  BY <1>6 DEF NextFact, Complete, Fail
<1>7. QED BY <1>1, <1>2, <1>3, <1>4, <1>5, <1>6 DEF Step

\* Hence only its own place matters.
LEMMA WhereAlone ==
  ASSUME Typed, NEW r \in Reqs, Alone(r), WhereIs(r)'
  PROVE  Where'
BY DEF Typed, Where, WhereIs, Alone

LEMMA WhereStep ==
  ASSUME Typed, NEW r \in Reqs, Start(r) \/ Step(r)
  PROVE  WhereIs(r)'
<1> USE DEF Typed, TypeOK, Where, WhereIs, table, plan, Go, Stays, End, Drop
<1>1. CASE Start(r)
  <2>1. PICK c \in Calls : call' = [call EXCEPT ![r] = c]
                         /\ Go(r, IF c.op = "add" THEN "queued" ELSE "exact")
    BY <1>1 DEF Start
  <2>2. c.op \in {"add", "update", "delete"}
    BY MemoryAssumption DEF Call
  <2>3. QED BY <1>1, <2>1, <2>2 DEF Start
<1>2. CASE Exact(r) \/ Prefix(r)
  <2>1. ASSUME NEW id \in Ids, Resolved(r, id), UNCHANGED <<call, stale>> PROVE WhereIs(r)'
    BY <1>2, <2>1 DEF Exact, Prefix, Resolved
  <2>2. QED BY <1>2, <2>1 DEF Exact, Prefix
<1>3. CASE Get(r) \/ Delete(r)
  BY <1>3 DEF Get, Delete
<1>4. CASE Acquire(r)
  <2>1. call[r].op \in {"add", "update"} => call[r].text \in Texts
    BY CallTyped
  <2>2. call[r].op = "add" => Chunks[call[r].text] > 0
    BY <2>1, MemoryAssumption
  <2>3. QED BY <1>4, <2>1, <2>2 DEF Acquire
<1>5. CASE Extract(r)
  <2>1. ASSUME NEW found, AfterChunk(r, found) PROVE WhereIs(r)'
    BY <1>5, <2>1 DEF Extract, AfterChunk
  <2>2. QED BY <1>5, <2>1 DEF Extract
<1>6. CASE Search(r) \/ Decide(r)
  BY <1>6 DEF Search, Decide
<1>7. CASE StoreRaw(r) \/ ApplyAdd(r)
  BY <1>7 DEF StoreRaw, ApplyAdd
<1>8. CASE ApplyUpdate(r)
  <2>1. PICK e \in events[r] : e.type = "UPDATE" /\ target' = [target EXCEPT ![r] = e.id]
    BY <1>8 DEF ApplyUpdate
  <2>2. e.id \in Ids
    BY <2>1, EventTyped
  <2>3. QED BY <1>8, <2>1, <2>2 DEF ApplyUpdate
<1>9. CASE UpsertAdd(r) \/ ApplyDelete(r) \/ ApplyNothing(r)
  BY <1>9 DEF UpsertAdd, ApplyDelete, ApplyNothing
<1>10. CASE NextFact(r) \/ Complete(r) \/ Fail(r)
  BY <1>10 DEF NextFact, Complete, Fail
<1>11. QED
  BY <1>1, <1>2, <1>3, <1>4, <1>5, <1>6, <1>7, <1>8, <1>9, <1>10 DEF Step
LEMMA EndTyped ==
  ASSUME Typed, NEW r \in Reqs, NEW how \in Outcomes, End(r, how)
  PROVE  /\ outcome' \in [Reqs -> Outcomes] /\ pc' \in [Reqs -> Phases]
         /\ seen' \in [Reqs -> [Ids -> SUBSET Row]] /\ facts' \in [Reqs -> SUBSET Texts]
         /\ events' \in [Reqs -> SUBSET Event] /\ UNCHANGED <<chunk, fact>>
<1>1. Nothing \in [Ids -> SUBSET Row] /\ "done" \in Phases
  BY DEF Nothing, Phases
<1>2. QED BY <1>1 DEF Typed, TypeOK, End

LEMMA NewRowTyped ==
  ASSUME Typed, NEW r \in Reqs, NEW owner \in Users, NEW text \in Texts, NewRow(r, owner, text)
  PROVE  rows' \in [Ids -> SUBSET Row] /\ birth' \in [Ids -> SUBSET Birth] /\ gone' = gone
<1>1. [owner |-> owner, born |-> r, text |-> text] \in Row
      /\ [owner |-> owner, born |-> r] \in Birth
  BY DEF Row, Birth
<1>2. PICK id \in Ids :
        /\ rows' = [rows EXCEPT ![id] = @ \cup {[owner |-> owner, born |-> r, text |-> text]}]
        /\ birth' = [birth EXCEPT ![id] = {[owner |-> owner, born |-> r]}]
        /\ gone' = gone
  BY DEF NewRow
<1>3. QED BY <1>1, <1>2 DEF Typed, TypeOK

LEMMA CompletedTyped ==
  ASSUME NEW r
  PROVE  Completed(r) \in Outcomes
BY DEF Completed, Outcomes

LEMMA TypeStep ==
  ASSUME Typed, NEW r \in Reqs, Start(r) \/ Step(r)
  PROVE  TypeOK'
<1> USE DEF Typed, TypeOK, table, plan, Go, Stays, Drop
<1>1. CASE Start(r)
  <2>1. PICK c \in Calls : call' = [call EXCEPT ![r] = c]
                         /\ Go(r, IF c.op = "add" THEN "queued" ELSE "exact")
    BY <1>1 DEF Start
  <2>2. pc' \in [Reqs -> Phases] /\ call' \in [Reqs -> Calls \cup {NoCall}]
    BY <2>1 DEF Phases
  <2>3. QED BY <1>1, <2>2 DEF Start
<1>2. CASE Exact(r) \/ Prefix(r)
  <2>1. UNCHANGED <<table, call, warned, stale, crashes>>
    BY <1>2 DEF Exact, Prefix
  <2>2. ASSUME NEW id \in Ids, Resolved(r, id) PROVE TypeOK'
    <3>1. pc' \in [Reqs -> Phases] /\ target' \in [Reqs -> Ids \cup {NoId}]
      BY <2>2 DEF Resolved, Phases
    <3>2. QED BY <2>1, <2>2, <3>1 DEF Resolved
  <2>3. ASSUME Go(r, "prefix"), UNCHANGED target, Stays PROVE TypeOK'
    <3>1. pc' \in [Reqs -> Phases]
      BY <2>3 DEF Phases
    <3>2. QED BY <2>1, <2>3, <3>1
  <2>4. ASSUME End(r, "refused"), UNCHANGED target PROVE TypeOK'
    <3>1. "refused" \in Outcomes
      BY DEF Outcomes
    <3>2. QED BY <2>1, <2>4, <3>1, EndTyped
  <2>5. QED BY <1>2, <2>2, <2>3, <2>4 DEF Exact, Prefix
<1>3. CASE Get(r)
  <2>1. UNCHANGED <<table, call, target, warned, stale, crashes>> /\ target[r] \in Ids
    BY <1>3 DEF Get, Where, WhereIs
  <2>2. CASE End(r, "refused")
    <3>1. "refused" \in Outcomes
      BY DEF Outcomes
    <3>2. QED BY <2>1, <2>2, <3>1, EndTyped
  <2>3. CASE /\ \E row \in rows[target[r]] :
                   seen' = [seen EXCEPT ![r] = [Nothing EXCEPT ![target[r]] = {row}]]
             /\ Go(r, "queued") /\ UNCHANGED <<plan, outcome>>
    <3>1. PICK row \in rows[target[r]] :
                   seen' = [seen EXCEPT ![r] = [Nothing EXCEPT ![target[r]] = {row}]]
      BY <2>3
    <3>2. row \in Row
      BY <2>1, <3>1
    <3>3. [Nothing EXCEPT ![target[r]] = {row}] \in [Ids -> SUBSET Row]
      BY <3>2 DEF Nothing
    <3>4. seen' \in [Reqs -> [Ids -> SUBSET Row]]
      BY <3>1, <3>3
    <3>5. pc' \in [Reqs -> Phases]
      BY <2>3 DEF Phases
    <3>6. QED BY <2>1, <2>3, <3>4, <3>5
  <2>4. QED BY <1>3, <2>2, <2>3 DEF Get
<1>4. CASE Delete(r)
  <2>1. target[r] \in Ids /\ "deleted" \in Outcomes
    BY <1>4 DEF Delete, Where, WhereIs, Outcomes
  <2>2. rows' \in [Ids -> SUBSET Row] /\ gone' \subseteq Ids /\ stale' \in [Reqs -> SUBSET Ids]
    BY <1>4, <2>1 DEF Delete
  <2>3. End(r, "deleted") /\ UNCHANGED <<birth, call, target, warned, crashes>>
    BY <1>4 DEF Delete
  <2>4. QED BY <2>1, <2>2, <2>3, EndTyped
<1>5. CASE Acquire(r)
  <2>1. call[r].op \in {"add", "update"} => call[r].text \in Texts
    BY CallTyped
  <2>2. UNCHANGED <<table, call, target, seen, facts, warned, outcome, stale, crashes>>
    BY <1>5 DEF Acquire
  <2>3. CASE /\ call[r].op = "update" /\ Go(r, "apply") /\ UNCHANGED chunk
             /\ events' = [events EXCEPT ![r] = {[type |-> "UPDATE", id |-> target[r]]}]
             /\ fact' = [fact EXCEPT ![r] = call[r].text]
    <3>1. [type |-> "UPDATE", id |-> target[r]] \in Event
      BY <1>5, <2>3 DEF Acquire, Where, WhereIs, Event
    <3>2. events' \in [Reqs -> SUBSET Event] /\ fact' \in [Reqs -> Texts \cup {NoText}]
      BY <2>1, <2>3, <3>1
    <3>3. pc' \in [Reqs -> Phases]
      BY <2>3 DEF Phases
    <3>4. QED BY <2>2, <2>3, <3>2, <3>3
  <2>4. CASE /\ call[r].op = "add" /\ Go(r, IF Distill THEN "extract" ELSE "raw")
             /\ chunk' = [chunk EXCEPT ![r] = Chunks[call[r].text]]
             /\ UNCHANGED <<events, fact>>
    <3>1. chunk' \in [Reqs -> Nat]
      BY <2>1, <2>4, MemoryAssumption
    <3>2. pc' \in [Reqs -> Phases]
      BY <2>4 DEF Phases
    <3>3. QED BY <2>2, <2>4, <3>1, <3>2
  <2>5. QED BY <1>5, <2>3, <2>4 DEF Acquire
<1>6. CASE Extract(r)
  <2>1. UNCHANGED <<table, call, target, stale, crashes>> /\ chunk[r] \in Nat /\ chunk[r] > 0
    BY <1>6 DEF Extract, Where, WhereIs
  <2>2. ASSUME NEW found \in SUBSET Texts, AfterChunk(r, found) PROVE TypeOK'
    <3>1. facts' \in [Reqs -> SUBSET Texts] /\ chunk' \in [Reqs -> Nat]
      BY <2>1, <2>2 DEF AfterChunk
    <3>2. pc' \in [Reqs -> Phases]
      BY <2>2 DEF AfterChunk, Phases
    <3>3. warned' \in [Reqs -> BOOLEAN]
      BY <2>2 DEF AfterChunk
    <3>4. QED BY <2>1, <2>2, <3>1, <3>2, <3>3 DEF AfterChunk
  <2>3. ASSUME warned' = [warned EXCEPT ![r] = TRUE], Go(r, "raw"), Stays PROVE TypeOK'
    <3>1. pc' \in [Reqs -> Phases]
      BY <2>3 DEF Phases
    <3>2. QED BY <2>1, <2>3, <3>1
  <2>4. \A found \in SUBSET Texts : facts[r] \cup found \in SUBSET Texts
    OBVIOUS
  <2>5. QED BY <1>6, <2>2, <2>3, <2>4 DEF Extract
<1>7. CASE StoreRaw(r)
  <2>1. call[r].user \in Users /\ call[r].text \in Texts
    BY <1>7, CallTyped DEF StoreRaw, Where, WhereIs
  <2>2. /\ NewRow(r, call[r].user, call[r].text) /\ End(r, Completed(r))
        /\ UNCHANGED <<call, target, warned, stale, crashes>>
    BY <1>7 DEF StoreRaw
  <2>3. QED BY <2>1, <2>2, NewRowTyped, EndTyped, CompletedTyped
<1>8. CASE Search(r)
  <2>1. [id \in Ids |-> {row \in rows[id] : row.owner = call[r].user}] \in [Ids -> SUBSET Row]
    OBVIOUS
  <2>2. seen' \in [Reqs -> [Ids -> SUBSET Row]]
    BY <1>8, <2>1 DEF Search
  <2>3. fact' \in [Reqs -> Texts \cup {NoText}] /\ facts' \in [Reqs -> SUBSET Texts]
    BY <1>8 DEF Search
  <2>4. pc' \in [Reqs -> Phases]
    BY <1>8 DEF Search, Phases
  <2>5. QED BY <1>8, <2>2, <2>3, <2>4 DEF Search
<1>9. CASE Decide(r)
  <2>1. [type |-> "ADD"] \in Event
    BY DEF Event
  <2>2. events' \in [Reqs -> SUBSET Event]
    <3>1. PICK es : /\ es \in Answers \cup {{[type |-> "ADD"]}}
                    /\ events' = [events EXCEPT ![r] = es]
      BY <1>9 DEF Decide
    <3>2. es \in SUBSET Event
      BY <2>1, <3>1, MemoryAssumption
    <3>3. QED BY <3>1, <3>2
  <2>3. pc' \in [Reqs -> Phases] /\ warned' \in [Reqs -> BOOLEAN]
    BY <1>9 DEF Decide, Phases
  <2>4. QED BY <1>9, <2>2, <2>3 DEF Decide
<1>10. CASE ApplyAdd(r)
  <2>1. PICK e \in events[r] : e.type = "ADD" /\ Drop(r, e)
    BY <1>10 DEF ApplyAdd
  <2>2. events' \in [Reqs -> SUBSET Event]
    BY <2>1
  <2>3. fact[r] \in Texts
    BY <1>10 DEF ApplyAdd, Where, WhereIs
  <2>4. /\ NewRow(r, call[r].user, fact[r])
        /\ UNCHANGED <<pc, call, target, seen, chunk, facts, fact, warned, outcome, stale, crashes>>
    BY <1>10 DEF ApplyAdd
  <2>5. call[r].user \in Users
    BY <1>10, <2>1, CallTyped DEF ApplyAdd, Where, WhereIs
  <2>6. QED BY <2>2, <2>3, <2>4, <2>5, NewRowTyped
<1>11. CASE ApplyUpdate(r)
  <2>1. PICK e \in events[r] : /\ e.type = "UPDATE"
                               /\ rows' = [rows EXCEPT ![e.id] = {}] \/ rows' = rows
                               /\ target' = [target EXCEPT ![r] = e.id]
    BY <1>11 DEF ApplyUpdate
  <2>2. e.id \in Ids
    BY <2>1, EventTyped
  <2>3. rows' \in [Ids -> SUBSET Row] /\ target' \in [Reqs -> Ids \cup {NoId}]
    BY <2>1, <2>2
  <2>4. pc' \in [Reqs -> Phases]
    BY <1>11 DEF ApplyUpdate, Phases
  <2>5. QED BY <1>11, <2>3, <2>4 DEF ApplyUpdate
<1>12. CASE UpsertAdd(r)
  <2>1. /\ target[r] \in Ids /\ fact[r] \in Texts
        /\ call[r].op = "add" => call[r].user \in Users
    BY <1>12, CallTyped DEF UpsertAdd, Where, WhereIs
  <2>2. PICK row \in seen[r][target[r]] :
          rows' = [rows EXCEPT ![target[r]] = @ \cup
                     {[owner |-> IF call[r].op = "add" THEN call[r].user ELSE row.owner,
                       born |-> row.born, text |-> fact[r]]}]
    BY <1>12 DEF UpsertAdd
  <2>3. row \in Row
    BY <2>1, <2>2
  <2>4. [owner |-> IF call[r].op = "add" THEN call[r].user ELSE row.owner,
         born |-> row.born, text |-> fact[r]] \in Row
    BY <2>1, <2>3 DEF Row
  <2>5. rows' \in [Ids -> SUBSET Row]
    BY <2>1, <2>2, <2>4
  <2>6. events' \in [Reqs -> SUBSET Event] /\ pc' \in [Reqs -> Phases]
    BY <1>12 DEF UpsertAdd, Phases
  <2>7. QED BY <1>12, <2>5, <2>6 DEF UpsertAdd
<1>13. CASE ApplyDelete(r)
  <2>1. PICK e \in events[r] : e.type = "DELETE" /\ rows' = [rows EXCEPT ![e.id] = {}] /\ Drop(r, e)
    BY <1>13 DEF ApplyDelete
  <2>2. rows' \in [Ids -> SUBSET Row] /\ events' \in [Reqs -> SUBSET Event]
    BY <2>1
  <2>3. QED BY <1>13, <2>2 DEF ApplyDelete
<1>14. CASE ApplyNothing(r)
  <2>1. events' \in [Reqs -> SUBSET Event]
    BY <1>14 DEF ApplyNothing
  <2>2. QED BY <1>14, <2>1 DEF ApplyNothing
<1>15. CASE NextFact(r)
  <2>1. pc' \in [Reqs -> Phases]
    BY <1>15 DEF NextFact, Phases
  <2>2. QED BY <1>15, <2>1 DEF NextFact
<1>16. CASE Complete(r) \/ Fail(r)
  <2>1. PICK how \in Outcomes : End(r, how)
    BY <1>16, CompletedTyped DEF Complete, Fail, Outcomes
  <2>2. UNCHANGED <<table, call, target, warned, stale, crashes>>
    BY <1>16 DEF Complete, Fail
  <2>3. QED BY <2>1, <2>2, EndTyped
<1>17. QED
  BY <1>1, <1>2, <1>3, <1>4, <1>5, <1>6, <1>7, <1>8, <1>9, <1>10, <1>11, <1>12, <1>13,
     <1>14, <1>15, <1>16 DEF Step

LEMMA CrashTyped == Typed /\ Crash => Typed'
<1> SUFFICES ASSUME Typed, Crash PROVE Typed'
  OBVIOUS
<1> USE DEF Typed, TypeOK, Crash, table
<1>1. Nothing \in [Ids -> SUBSET Row]
  BY DEF Nothing
<1>2. seen' \in [Reqs -> [Ids -> SUBSET Row]] /\ pc' \in [Reqs -> Phases]
      /\ events' \in [Reqs -> SUBSET Event] /\ facts' \in [Reqs -> SUBSET Texts]
  BY <1>1 DEF Phases
<1>3. crashes' \in 0..MaxCrashes
  BY MemoryAssumption
<1>4. Where'
  BY DEF Where, WhereIs
<1>5. QED BY <1>2, <1>3, <1>4

LEMMA TypedStep == Typed /\ [Next]_vars => Typed'
<1> SUFFICES ASSUME Typed, [Next]_vars PROVE Typed'
  OBVIOUS
<1>1. ASSUME NEW r \in Reqs, Start(r) \/ Step(r) PROVE Typed'
  BY <1>1, TypeStep, StepAlone, WhereStep, WhereAlone DEF Typed
<1>2. CASE UNCHANGED vars
  BY <1>2 DEF vars, table, plan, Typed, TypeOK, Where, WhereIs
<1>3. QED BY <1>1, <1>2, CrashTyped DEF Next

\* Every variable keeps its type, with whatever the LLM answers.
THEOREM MemoryTypeCorrect == Spec => []TypeOK
<1>1. Typed => TypeOK
  BY DEF Typed
<1>2. QED BY TypedInit, TypedStep, <1>1, PTL DEF Spec

-----------------------------------------------------------------------------
(* What may make a memory disappear.                                       *)

\* Rows stay, and whoever is between the halves of an upsert stays there.
LEMMA StillKnown ==
  ASSUME NEW id \in Ids, rows[id] \subseteq rows'[id],
         \A q \in Pending(id) : q \in Pending(id)' /\ seen'[q] = seen[q]
  PROVE  Logical(id) \subseteq Logical(id)'
BY DEF Logical

\* The same for a step of r that writes no more than the rows of one ID.
LEMMA OthersKnown ==
  ASSUME Typed, NEW r \in Reqs, Alone(r), NEW id \in Ids, rows[id] \subseteq rows'[id],
         r \notin Pending(id)
  PROVE  Logical(id) \subseteq Logical(id)'
<1>1. \A q \in Pending(id) : q \in Pending(id)' /\ seen'[q] = seen[q]
  BY DEF Alone, Pending
<1>2. QED BY <1>1, StillKnown

Lost(id) ==
    \/ crashes' # crashes
    \/ \E r \in Reqs : \/ outcome[r] = "none" /\ outcome'[r] \in {"deleted", "failed"}
                          /\ target[r] = id
                       \/ call[r].op = "add" /\ (\A b \in birth[id] : b.owner = call[r].user)
                          /\ [type |-> "DELETE", id |-> id] \in events[r] \ events'[r]

LEMMA LossStep ==
  ASSUME Typed, IInv, NEW r \in Reqs, Start(r) \/ Step(r),
         NEW id \in Ids, Logical(id) # {}, Logical(id)' = {}
  PROVE  Lost(id)
<1> USE DEF Typed, TypeOK, table, plan, Go, Stays, Drop
<1>1. Alone(r)
  BY StepAlone
<1>2. ~(rows[id] \subseteq rows'[id] /\ r \notin Pending(id))
  BY <1>1, OthersKnown
<1>3. CASE Start(r) \/ Exact(r) \/ Prefix(r) \/ Get(r)
  BY <1>2, <1>3 DEF Start, Exact, Prefix, Get, Pending
<1>4. CASE Acquire(r) \/ Extract(r) \/ Search(r) \/ Decide(r)
  BY <1>2, <1>4 DEF Acquire, Extract, Search, Decide, Pending
<1>5. CASE StoreRaw(r) \/ ApplyAdd(r)
  <2>1. PICK owner, text : NewRow(r, owner, text)
    BY <1>5 DEF StoreRaw, ApplyAdd
  <2>2. rows[id] \subseteq rows'[id]
    BY <2>1 DEF NewRow
  <2>3. r \notin Pending(id)
    BY <1>5 DEF StoreRaw, ApplyAdd, Pending
  <2>4. QED BY <1>2, <2>2, <2>3
<1>6. CASE ApplyNothing(r) \/ NextFact(r) \/ Complete(r)
  <2>1. rows' = rows /\ r \notin Pending(id)
    BY <1>6 DEF ApplyNothing, NextFact, Complete, Pending
  <2>2. QED BY <1>2, <2>1
<1>7. CASE Fail(r)
  <2>1. r \in Pending(id)
    BY <1>2, <1>7 DEF Fail
  <2>2. outcome'[r] = "failed" /\ outcome[r] = "none" /\ target[r] = id
    BY <1>7, <2>1 DEF Fail, End, Pending, Where, WhereIs
  <2>3. QED BY <2>2 DEF Lost
<1>8. CASE Delete(r)
  <2>1. id = target[r]
    BY <1>2, <1>8 DEF Delete, Pending
  <2>2. outcome'[r] = "deleted" /\ outcome[r] = "none"
    BY <1>8 DEF Delete, End, Where, WhereIs
  <2>3. QED BY <2>1, <2>2 DEF Lost
<1>9. CASE ApplyUpdate(r)
  <2>1. PICK e \in events[r] : /\ e.type = "UPDATE" /\ Known(r, e)
                               /\ target' = [target EXCEPT ![r] = e.id]
    BY <1>9 DEF ApplyUpdate
  <2>2. e.id = id
    BY <1>2, <1>9, <2>1 DEF ApplyUpdate, Pending
  <2>3. r \in Pending(id)' /\ seen'[r][id] # {}
    BY <1>9, <2>1, <2>2 DEF ApplyUpdate, Pending, Known
  <2>4. PICK row \in seen'[r][id] : TRUE
    BY <2>3
  <2>5. row \in Logical(id)'
    BY <2>3, <2>4 DEF Logical
  <2>6. QED BY <2>5
<1>10. CASE UpsertAdd(r)
  <2>1. target[r] \in Ids
    BY <1>10 DEF UpsertAdd, Where, WhereIs
  <2>2. PICK new : rows' = [rows EXCEPT ![target[r]] = @ \cup {new}]
    BY <1>10 DEF UpsertAdd
  <2>3. rows[id] \subseteq rows'[id] /\ (id = target[r] => rows'[id] # {})
    BY <2>1, <2>2
  <2>4. id = target[r]
    BY <1>2, <2>3 DEF Pending
  <2>5. QED BY <2>3, <2>4 DEF Logical
<1>11. CASE ApplyDelete(r)
  <2>1. PICK e \in events[r] : /\ e.type = "DELETE" /\ Known(r, e)
                               /\ rows' = [rows EXCEPT ![e.id] = {}] /\ Drop(r, e)
    BY <1>11 DEF ApplyDelete
  <2>2. e.id = id
    BY <1>2, <1>11, <2>1 DEF ApplyDelete, Pending
  <2>3. e = [type |-> "DELETE", id |-> id]
    BY <2>1, <2>2, EventTyped
  <2>4. [type |-> "DELETE", id |-> id] \in events[r] \ events'[r]
    BY <2>1, <2>3
  <2>5. call[r].op = "add"
    BY <2>1 DEF Where, WhereIs
  <2>6. PICK row \in seen[r][id] : TRUE
    BY <2>1, <2>2 DEF Known
  <2>7. row.owner = call[r].user /\ birth[id] = {BirthOf(row)}
    BY <2>5, <2>6 DEF IInv, SeenOwn, SeenBorn
  <2>8. \A b \in birth[id] : b.owner = call[r].user
    BY <2>7 DEF BirthOf
  <2>9. QED BY <2>4, <2>5, <2>8 DEF Lost
<1>12. QED
  BY <1>3, <1>4, <1>5, <1>6, <1>7, <1>8, <1>9, <1>10, <1>11 DEF Step

\* A memory goes only by a delete, by a decision for its own user, in a failed
\* update, or with the process: never by an overlap of requests.
THEOREM LossNotSilent == Spec => NoSilentLoss
<1>1. Typed /\ IInv /\ [Next]_vars =>
        \A id \in Ids : Logical(id) # {} /\ Logical(id)' = {} => Lost(id)
  <2> SUFFICES ASSUME Typed, IInv, [Next]_vars, NEW id \in Ids, Logical(id) # {}, Logical(id)' = {}
               PROVE  Lost(id)
    OBVIOUS
  <2>1. CASE Crash
    <3>1. crashes \in Nat /\ crashes' = crashes + 1
      BY <2>1, MemoryAssumption DEF Crash, Typed, TypeOK
    <3>2. crashes' # crashes
      BY <3>1
    <3>3. QED BY <3>2 DEF Lost
  <2>2. CASE UNCHANGED vars
    <3>1. Logical(id)' = Logical(id)
      BY <2>2 DEF vars, table, Logical, Pending
    <3>2. QED BY <3>1
  <2>3. QED BY <2>1, <2>2, LossStep DEF Next
<1>2. Spec => []Typed
  BY TypedInit, TypedStep, PTL DEF Spec
<1>3. QED BY <1>1, <1>2, Invariance, PTL DEF Spec, NoSilentLoss, Lost

=============================================================================
