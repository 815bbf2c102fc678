----------------------------- MODULE Lifecycle -----------------------------
(***************************************************************************)
(* What the lifecycle trigger promises of the status column of a table: a   *)
(* row is inserted in one of a few states and moves only along legal edges; *)
(* one transaction may move several rows.  The trigger raises on any other  *)
(* UPDATE, so a specification that implements this one never has a          *)
(* transaction aborted by it.                                               *)
(***************************************************************************)
CONSTANTS Rows,       \* the rows of the table
          Inserted,   \* the states a row may be inserted in
          Edges       \* the legal changes, as pairs

VARIABLE state        \* state[r], "absent" before the row is inserted

Init == \A r \in Rows : state[r] \in Inserted \cup {"absent"}

Guard(r) ==
    \/ state'[r] = state[r]
    \/ state[r] = "absent" /\ state'[r] \in Inserted
    \/ <<state[r], state'[r]>> \in Edges

Next == \A r \in Rows : Guard(r)

Spec == Init /\ [][Next]_state
=============================================================================
