------------------------------ MODULE TodoSpec ------------------------------
(***************************************************************************)
(* What the todo collection promises: a set of items, each created once,   *)
(* changed by atomic read-modify-writes, and removed for good.             *)
(*                                                                         *)
(* An item is {} when it does not exist and {row} when it does.            *)
(***************************************************************************)
EXTENDS TodoData, Integers, FiniteSets

CONSTANT Ids    \* todo IDs

VARIABLES
    todos,      \* the items
    created     \* the IDs ever given out

specVars == <<todos, created>>

SpecInit ==
    /\ todos \in [Ids -> {{}} \cup {{row} : row \in Row}]
    /\ \A id \in Ids : \A row \in todos[id] : StampMatchesStatus(row)
    /\ created = {id \in Ids : todos[id] # {}}

\* add_todo: a fresh UUID, status pending.
Create(id) ==
    /\ id \notin created
    /\ created' = created \cup {id}
    /\ \E t \in Titles :
          todos' = [todos EXCEPT ![id] = {[title |-> t, status |-> "pending", done |-> NoStamp]}]

\* update_todo, complete_todo.
Update(id) ==
    /\ \E row \in todos[id], c \in Change, now \in Stamps :
          todos' = [todos EXCEPT ![id] = {ApplyChange(row, c, now)}]
    /\ UNCHANGED created

\* delete_todo of one item, a store failure in the middle of a write, or a crash
\* in the middle of several.
Remove(gone) ==
    /\ todos' = [id \in Ids |-> IF id \in gone THEN {} ELSE todos[id]]
    /\ UNCHANGED created

SpecNext ==
    \/ \E id \in Ids : Create(id) \/ Update(id)
    \/ \E gone \in SUBSET Ids : Remove(gone)
TodoSpecification == SpecInit /\ [][SpecNext]_specVars

=============================================================================
