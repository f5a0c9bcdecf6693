--------------------------- MODULE CanonicalRows ---------------------------
(***************************************************************************)
(* What the daily tables (the stats of a channel and the evidence of its   *)
(* catalogue) promise their readers: at most one row for every key, which  *)
(* appears whole, in one step, sound on its own, and never changes or      *)
(* disappears afterwards.                                                  *)
(***************************************************************************)
CONSTANTS
    NULL,   \* no row yet
    Keys,
    Rows    \* the sound rows

VARIABLE rows

Init == rows = [k \in Keys |-> NULL]

Publish(k) ==
    /\ rows[k] = NULL
    /\ rows' \in [Keys -> Rows \cup {NULL}]
    /\ rows'[k] # NULL
    /\ \A j \in Keys \ {k} : rows'[j] = rows[j]

Next == \E k \in Keys : Publish(k)

Spec == Init /\ [][Next]_rows
=============================================================================
