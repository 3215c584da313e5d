---------------------------- MODULE MCTodoStore ----------------------------
(* TLC instances of TodoStore.  i1 and i2 exist, i3 is the next UUID; the   *)
(* prefix p fits i1 and i2, the prefix q fits i2 and i3.  The shards are    *)
(* crossed: p hashes with i2 and q with i1.                                *)
EXTENDS TodoStore
CONSTANTS i1, i2, i3, p, q, r1, r2
MCIds      == {i1, i2, i3}
MCExisting == {i1, i2}
MCRefs     == {i1, i2, i3, p, q}
MCNames    == [ref \in MCRefs |-> IF ref = p THEN {i1, i2} ELSE IF ref = q THEN {i2, i3} ELSE {ref}]
MCShards   == {1, 2}
MCShardOf  == [ref \in MCRefs |-> IF ref \in {i1, i3, q} THEN 1 ELSE 2]
MCTitles   == {"old", "new"}
MCReqs2    == {r1, r2}
MCStamps   == {"earlier", r1, r2}
MCInitial  == {[title |-> "old", status |-> "pending", done |-> NoStamp],
               [title |-> "old", status |-> "done", done |-> "earlier"]}

Upd(ref, f, v) == [op |-> "update", ref |-> ref, change |-> [field |-> f, to |-> v]]
Op(op, ref)    == [op |-> op, ref |-> ref, change |-> NoChange]
AddCall        == [op |-> "add", ref |-> NoId, change |-> [field |-> "title", to |-> "old"]]

\* Every kind of request, by ID and by both kinds of prefix.
MCCalls ==
    {Upd(ref, "title", "new") : ref \in {i1, q}}
    \cup {Upd(ref, "status", s) : ref \in {i2, q}, s \in Statuses}
    \cup {Op("delete", ref) : ref \in {i2, p, q}}
    \cup {Op("get", ref) : ref \in {i2, q}}
    \cup {AddCall}

\* The lookups that take two locks, on crossed shards, and those they race with.
MCLookups ==
    {Upd(ref, "title", "new") : ref \in {i1, q}}
    \cup {Op("delete", ref) : ref \in {i2, p, q}}
    \cup {Op("get", q)}
=============================================================================
