--------------------------- MODULE AtomicVerdicts ---------------------------
(* What verification promises of the attempts of a chunk: each is judged at   *)
(* most once, and its decision is computed from, and committed against, one   *)
(* and the same set of earlier verdicts, as if reading the peers, deciding    *)
(* and applying were a single step.                                           *)

CONSTANTS Works, Chunks, ChunkOf, Decisions, None

VARIABLES verdict, \* the attempt's task_verdicts row
          basis    \* the attempts of the chunk it was decided from

vars == <<verdict, basis>>

Judged(c) == {w \in Works : ChunkOf[w] = c /\ verdict[w] # None}

Init ==
  /\ verdict = [w \in Works |-> None]
  /\ basis = [w \in Works |-> {}]

Judge(w, d) ==
  /\ verdict[w] = None
  /\ verdict' = [verdict EXCEPT ![w] = d]
  /\ basis' = [basis EXCEPT ![w] = Judged(ChunkOf[w])]

Next == \E w \in Works, d \in Decisions : Judge(w, d)

Spec == Init /\ [][Next]_vars
=============================================================================
