------------------------------ MODULE Register ------------------------------
(***************************************************************************)
(* What a file of settings promises to those who save it: it always holds  *)
(* what one save wrote, whole; a save takes effect at one moment or never. *)
(* A crash undoes the saves in progress, and may undo the latest of those  *)
(* that have taken effect.                                                 *)
(***************************************************************************)
CONSTANTS Writer, Nothing

VARIABLES
    value,          \* what a reader finds
    earlier,        \* what readers found before, and a crash may bring back
    writing         \* writing[w]: what w is saving, or Nothing

Init == earlier = {} /\ writing = [w \in Writer |-> Nothing]

Begin(w) ==
    /\ writing[w] = Nothing
    /\ writing'[w] # Nothing /\ writing' = [writing EXCEPT ![w] = writing'[w]]
    /\ UNCHANGED <<value, earlier>>

Commit(w) ==
    /\ writing[w] # Nothing
    /\ value' = writing[w] /\ earlier' = earlier \cup {value}
    /\ writing' = [writing EXCEPT ![w] = Nothing]

Abandon(w) ==
    /\ writing[w] # Nothing
    /\ writing' = [writing EXCEPT ![w] = Nothing]
    /\ UNCHANGED <<value, earlier>>

Crash ==
    /\ \/ UNCHANGED <<value, earlier>>
       \/ value' \in earlier \cup {value} /\ earlier' = {}
    /\ writing' = [w \in Writer |-> Nothing]

Next == Crash \/ \E w \in Writer : Begin(w) \/ Commit(w) \/ Abandon(w)

Spec == Init /\ [][Next]_<<value, earlier, writing>>
=============================================================================
