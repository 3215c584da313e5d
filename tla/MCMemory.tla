------------------------------ MODULE MCMemory ------------------------------
(* TLC instances of Memory.  i1 is alice's, i2 bob's, i3 the next UUID; the *)
(* prefix p fits i1 and i2.  A long content is split into two chunks.      *)
EXTENDS Memory
CONSTANTS i1, i2, i3, p, r1, r2
MCIds     == {i1, i2, i3}
MCUsers   == {"alice", "bob"}
Old(user) == [owner |-> user, born |-> Before, text |-> "short"]
MCInitial == [id \in {i1, i2} |-> IF id = i1 THEN Old("alice") ELSE Old("bob")]
MCTexts   == {"short", "long"}
MCChunks  == [t \in MCTexts |-> IF t = "long" THEN 2 ELSE 1]
MCRefs    == MCIds \cup {p}
MCNames   == [ref \in MCRefs |-> IF ref = p THEN {i1, i2} ELSE {ref}]
MCReqs2   == {r1, r2}

Add(user, text)       == [op |-> "add", user |-> user, text |-> text]
Upd(ref, scope, text) == [op |-> "update", ref |-> ref, scope |-> scope, text |-> text]
Del(ref, scope)       == [op |-> "delete", ref |-> ref, scope |-> scope]

MCCalls ==
    {Add("alice", t) : t \in MCTexts}
    \cup {Upd(i1, Anyone, "long"), Upd(p, "alice", "short"), Upd(i3, "bob", "short")}
    \cup {Del(i1, "bob"), Del(p, "bob"), Del(p, Anyone), Del(i3, Anyone)}

\* Two updates of one memory, nothing else.
MCUpdates == {Upd(i1, Anyone, "long"), Upd(p, "alice", "short")}

Do(type, id) == [type |-> type, id |-> id]
MCAnswers ==
    {{}, {[type |-> "ADD"]}, {[type |-> "NONE"]}, {[type |-> "ADD"], Do("DELETE", i1)}}
    \cup {{Do(type, id)} : type \in {"UPDATE", "DELETE"}, id \in {i1, i2}}
=============================================================================
