------------------------------ MODULE Selection ------------------------------
(***************************************************************************)
(* Filtering a sequence, sorting it, and cutting it into chunks.           *)
(* SelectSeq, SortSeq and the folds take operators, of which the proof     *)
(* system knows nothing; here a set says what is kept or fits, a sequence  *)
(* what comes first, and CommonFacts proves what comes out.                *)
(***************************************************************************)
EXTENDS Naturals, Sequences

\* The elements of seq that are in set, in their order.
Keep(seq, set) ==
    LET kept[n \in 0..Len(seq)] ==
            IF n = 0 THEN <<>>
            ELSE IF seq[n] \in set THEN Append(kept[n - 1], seq[n]) ELSE kept[n - 1]
    IN  kept[Len(seq)]

\* One more element goes to the last chunk, if there is one and it fits.
AddToChunks(sofar, e, fitting) ==
    LET last == Len(sofar) IN
    IF last > 0 /\ Append(sofar[last], e) \in fitting
    THEN [sofar EXCEPT ![last] = Append(@, e)]
    ELSE Append(sofar, <<e>>)

\* seq cut into chunks that, from the second element on, are fitting.
InChunks(seq, fitting) ==
    LET chunked[n \in 0..Len(seq)] ==
            IF n = 0 THEN <<>> ELSE AddToChunks(chunked[n - 1], seq[n], fitting)
    IN  chunked[Len(seq)]

\* The sequences in a sequence, one after the other.
Joined(chunks) ==
    LET joined[n \in 0..Len(chunks)] == IF n = 0 THEN <<>> ELSE joined[n - 1] \o chunks[n]
    IN  joined[Len(chunks)]

\* The elements of seq, in the order in which another sequence has them.
InOrder(seq, order) == Joined([n \in 1..Len(order) |-> Keep(seq, {order[n]})])

=============================================================================
