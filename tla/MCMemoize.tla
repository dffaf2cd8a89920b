------------------------------ MODULE MCMemoize ------------------------------
(***************************************************************************)
(* Two instances of Memoize in one run: all owners compile one key, or two  *)
(* owners compile all keys, so that Release ranges over a map that changes  *)
(* under it.  Which owner compiles which keys is chosen once; it limits the *)
(* calls that are started, never a step of a call.  Entries are numbers,    *)
(* allocated in order: one free address is as good as another.              *)
(***************************************************************************)
EXTENDS Memoize

CONSTANTS
  OneKey,       \* the key that every owner may compile
  TwoOwners     \* the owners that may compile every key

VARIABLE calls    \* the pairs of owner and key for which Do is called

MCInit ==
  /\ Init
  /\ calls \in {Owners \X {OneKey}, TwoOwners \X Keys}
  /\ \A o \in Owners : key[o] = OneKey

MCNext ==
  /\ \E o \in Owners :
       \/ Step(o)
       \/ \E k \in Keys : <<o, k>> \in calls /\ (Do(o, k) \/ Release(o))
  /\ used' = 1..Cardinality(used')
  /\ UNCHANGED calls

MCSpec == MCInit /\ [][MCNext]_<<vars, calls>> /\ \A o \in Owners : WF_vars(Step(o))

=============================================================================
