------------------------- MODULE MCVerificationWork -------------------------
(* Instances of VerificationWork for TLC.                                     *)
EXTENDS VerificationWork

CONSTANTS a, b, p, q, c

AllOneChunk == [w \in Works |-> c]

\* No lock session dies under its holder and nothing else moves the task.
Undisturbed ==
  /\ \A c1 \in Chunks : ~LoseLock(c1)
  /\ \A w1 \in Works : ~TaskMovesOn(w1)

\* Only the attempt a is ever refused a plan or rolled back; its object is
\* readable, the other's may be missing (and either is oversized once restaged).
Refuses(p1) == pc[p1] \in {"decide", "apply"} /\ pc'[p1] = "unlock"

OneRefused == \A p1 \in Procs : Refuses(p1) /\ Held(p1) /\ faults' = faults => on[p1] = a

KeptSpec ==
  /\ Init /\ staged[a] \in Contents /\ staged[b] # Oversized
  /\ [][Next /\ Undisturbed /\ OneRefused]_vars
  /\ WorkFairness
=============================================================================
