----------------------------- MODULE Dictionary -----------------------------
(* What util/gtl/flatmap.h promises: a map from keys to values.            *)
EXTENDS Functions

VARIABLES
  map,     \* a function of the keys it has
  call     \* the last call: <<operation, key, value>>

Init == map = <<>> /\ call[1] = "none"

With(k, v) == [x \in DOMAIN map \cup {k} |-> IF x = k THEN v ELSE map[x]]

Insert == /\ call'[1] = "insert"
          /\ map' = IF call'[2] \in DOMAIN map THEN map
                    ELSE With(call'[2], call'[3])

Assign == /\ call'[1] = "assign"
          /\ map' = With(call'[2], call'[3])

Erase == /\ call'[1] = "erase"
         /\ map' = Restrict(map, DOMAIN map \ {call'[2]})

EraseAll == /\ call'[1] = "erase all"
            /\ map' = Restrict(map, {k \in DOMAIN map : map[k] # call'[3]})

Clear == call'[1] = "clear" /\ map' = <<>>
Keep  == call'[1] \in {"reserve", "copy"} /\ UNCHANGED map

Next == Insert \/ Assign \/ Erase \/ EraseAll \/ Clear \/ Keep
Spec == Init /\ [][Next]_<<map, call>>
=============================================================================
