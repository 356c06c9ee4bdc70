--------------------------- MODULE StoreRegister ---------------------------
(***************************************************************************)
(* What the store promises for one key ("atomic", "power-loss safe"): a    *)
(* register whose value changes from one whole value to another in one     *)
(* step, and which a power loss takes back at most to one of the values it *)
(* had since the last time it was made stable.                             *)
(***************************************************************************)
CONSTANTS Values, NoValue

VARIABLES
  value,   \* what a reader sees now
  stable,  \* what it may see after a power loss
  void     \* two writers were at work at once: nothing is promised any more

Init == value = NoValue /\ stable = {NoValue} /\ void = FALSE

\* save() or remove() takes effect.
Put(v) == value' = v /\ stable' = stable \cup {v}

\* The directory has been synced.
Sync == stable' = {value} /\ UNCHANGED value

PowerLoss == \E v \in stable : value' = v /\ stable' = {v}

Kept == Sync \/ PowerLoss \/ \E v \in Values \cup {NoValue} : Put(v)

Next == void' = TRUE \/ (UNCHANGED void /\ Kept)

Spec == Init /\ [][Next]_<<value, stable, void>>
=============================================================================
