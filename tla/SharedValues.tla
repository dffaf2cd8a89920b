---------------------------- MODULE SharedValues -----------------------------
(***************************************************************************)
(* What the memoizer promises: the owners that hold a value of a key hold   *)
(* the same one, and an owner keeps the value it got until it gives up all   *)
(* its values at once.  Memoize is shown to implement this specification.    *)
(***************************************************************************)
CONSTANTS Owners, Keys, Values, NoValue

VARIABLE value

Init == value = [o \in Owners |-> [k \in Keys |-> NoValue]]

\* The value others hold, or any if nobody holds one.
Acquire(o, k) ==
  \E v \in Values :
    /\ \A q \in Owners : value[q][k] \in {v, NoValue}
    /\ value' = [value EXCEPT ![o][k] = v]

GiveUp(o) == value' = [value EXCEPT ![o] = [k \in Keys |-> NoValue]]

Next == \E o \in Owners : GiveUp(o) \/ \E k \in Keys : Acquire(o, k)

Spec == Init /\ [][Next]_value

=============================================================================
