------------------------------- MODULE MCChat -------------------------------
(***************************************************************************)
(* Two requests for one conversation, a worker's result and a reader.      *)
(* Readers and events have no state in common, and a stream stores what    *)
(* any request stores: behaviours with readers are cut off when there are  *)
(* events, or two streams (Apart); without readers all are explored.       *)
(***************************************************************************)
EXTENDS Chat, TLC

CONSTANTS q1, q2, h1, r1

MCRequests == {q1, q2}
MCResults == {h1}
MCReaders == {r1}

Apart ==
    (\E c \in Callers : emitted[c] > 0) \/ (\A q \in Requests : Streaming(q)) =>
        /\ \A r \in Readers : reader[r] = AtRest
        /\ ~raced /\ ~planRaced

Symmetry == Permutations(MCRequests)
=============================================================================
