---------------------------- MODULE MemoizeProofs ----------------------------
(***************************************************************************)
(* Proofs about the memoizer, for all sets of owners, keys and entries.      *)
(***************************************************************************)
EXTENDS Memoize, TLAPS

-----------------------------------------------------------------------------
(* The inductive invariant *)

\* The leader of a key's flight is the only one working on the key.
Flights == \A o \in Owners : pc[o] \in Leading => flight[key[o]] = o

\* Whatever is in use was allocated, and an address not allocated is blank.
Allocated ==
  /\ \A k \in Keys : cache[k] # Nil => cache[k] \in used
  /\ \A o \in Owners : pc[o] \in AtEntry => e[o] \in used
  /\ \A x \in Entries \ used : owners[x] = {} /\ ~deleted[x]

\* A candidate is known to nobody but its compiler, which owns it.
Fresh ==
  \A o \in Owners : pc[o] = "store" =>
    /\ candidate[o] \in used /\ owners[candidate[o]] = {o}
    /\ \A k \in Keys : cache[k] # candidate[o]
    /\ \A q \in Owners : pc[q] \in AtEntry => e[q] # candidate[o]
    /\ \A q \in Owners : pc[q] = "store" /\ q # o => candidate[q] # candidate[o]

\* A deleted entry has no owners and never gets one.
DeadIsUnowned == \A x \in Entries : deleted[x] => owners[x] = {}

\* An entry of the cache has an owner or is deleted, and then it is locked by the
\* owner that is about to remove it.
DeadIsLocked ==
  \A k \in Keys : cache[k] # Nil =>
    /\ owners[cache[k]] = {} => deleted[cache[k]]
    /\ deleted[cache[k]] =>
         \E o \in Owners : mu[cache[k]] = o /\ pc[o] = "remove" /\ e[o] = cache[k] /\ key[o] = k

\* The lock is held from the deletion of an entry to its removal.
Locks == \A o \in Owners : pc[o] = "remove" => mu[e[o]] = o /\ deleted[e[o]]

\* The entry at hand is the one of the key, or is deleted; it is never the one
\* of another key.
Attached ==
  \A o \in Owners : pc[o] \in AtEntry =>
    /\ deleted[e[o]] \/ cache[key[o]] = e[o]
    /\ \A k \in Keys : cache[k] = e[o] => k = key[o]

\* No entry is the value of two keys.
Distinct == \A j, k \in Keys : cache[j] # Nil /\ cache[j] = cache[k] => j = k

\* While the leader is between the double check and the store, nobody else adds
\* an entry for its key.
Free ==
  \A o \in Owners :
    /\ pc[o] \in {"compute", "store"} => cache[key[o]] = Nil
    /\ pc[o] = "ownCheck" => cache[key[o]] \in {Nil, e[o]}

\* An owner that is closing holds nothing.
HeldNothing ==
  \A o \in Owners, k \in Keys : pc[o] \in Releasing \cup {"closed"} => held[o][k] = Nil

\* What a closing owner has visited it does not own any more, but for the entry
\* it is at.
Visited ==
  \A o \in Owners, k \in Keys :
    /\ pc[o] \in Releasing \cup {"closed"} /\ k \notin todo[o]
    /\ cache[k] # Nil /\ o \in owners[cache[k]]
    => pc[o] = "release" /\ key[o] = k /\ e[o] = cache[k]

AllVisited == \A o \in Owners : pc[o] = "closed" => todo[o] = {}

IInv ==
  /\ TypeOK /\ Flights /\ Allocated /\ Fresh /\ DeadIsUnowned /\ DeadIsLocked /\ Locks
  /\ Attached /\ Distinct /\ Free /\ HeldIsCached /\ HeldNothing /\ Visited
  /\ AllVisited

-----------------------------------------------------------------------------
(* Every action preserves the invariant.  Step e of a case collects the effects of
   the action; the following steps take one conjunct each that the action can
   disturb, the last ones those it does not. *)

\* Starting Do touches only the caller.
LEMMA DoKeeps == ASSUME IInv, NEW o \in Owners, NEW k \in Keys, Do(o, k) PROVE IInv'
<1>e. /\ pc' = [pc EXCEPT ![o] = "load"]
      /\ key' = [key EXCEPT ![o] = k]
      /\ pc[o] = "idle"
      /\ UNCHANGED <<cache, owners, deleted, mu, used, flight, e, candidate, todo, held>>
  BY MemoizeAssumption DEF IInv, TypeOK, Do, Goto, entryVars
<1>1. TypeOK'
  BY <1>e DEF IInv, TypeOK, OwnAt, Leading, Busy, Releasing, AtEntry
<1>2. Flights' /\ Allocated' /\ Fresh' /\ DeadIsUnowned' /\ DeadIsLocked' /\ Locks'
  BY <1>e DEF IInv, TypeOK, Flights, Allocated, Fresh, DeadIsUnowned, DeadIsLocked,
    Locks, OwnAt, Leading, Releasing, AtEntry
<1>3. Attached' /\ Distinct' /\ Free' /\ HeldIsCached' /\ HeldNothing' /\ Visited' /\ AllVisited'
  BY <1>e DEF IInv, TypeOK, Attached, Distinct, Free, HeldIsCached, HeldNothing, Visited,
    AllVisited, OwnAt, Leading, Releasing, AtEntry
<1> QED BY <1>1, <1>2, <1>3 DEF IInv

\* Load: the entry found under the key is attached to it; a leader that finds none may compile.
LEMMA LoadKeeps == ASSUME IInv, NEW o \in Owners, Load(o) PROVE IInv'
<1>1. CASE pc[o] = "load" /\ cache[key[o]] = Nil
  <2>e. /\ pc' = [pc EXCEPT ![o] = "join"]
        /\ e' = [e EXCEPT ![o] = Nil]
        /\ UNCHANGED <<cache, owners, deleted, mu, used, flight, key, candidate, todo, held>>
    BY <1>1, MemoizeAssumption DEF IInv, TypeOK, Load, Goto, entryVars
  <2>1. TypeOK'
    BY <2>e DEF IInv, TypeOK, OwnAt, Leading, Busy, Releasing, AtEntry
  <2>2. DeadIsLocked'
    BY <1>1, <2>e, MemoizeAssumption DEF IInv, TypeOK, DeadIsLocked, OwnAt, Leading,
      Releasing, AtEntry
  <2>3. Flights' /\ Allocated' /\ Fresh' /\ DeadIsUnowned' /\ Locks' /\ Attached'
    BY <2>e DEF IInv, TypeOK, Flights, Allocated, Fresh, DeadIsUnowned, Locks, Attached,
      OwnAt, Leading, Releasing, AtEntry
  <2>4. Distinct' /\ Free' /\ HeldIsCached' /\ HeldNothing' /\ Visited' /\ AllVisited'
    BY <2>e DEF IInv, TypeOK, Distinct, Free, HeldIsCached, HeldNothing, Visited,
      AllVisited, OwnAt, Leading, Releasing, AtEntry
  <2> QED BY <2>1, <2>2, <2>3, <2>4 DEF IInv
<1>2. CASE pc[o] = "load" /\ cache[key[o]] # Nil
  <2>e. /\ pc' = [pc EXCEPT ![o] = "own"]
        /\ e' = [e EXCEPT ![o] = cache[key[o]]]
        /\ UNCHANGED <<cache, owners, deleted, mu, used, flight, key, candidate, todo, held>>
    BY <1>2, MemoizeAssumption DEF IInv, TypeOK, Load, Goto, entryVars
  <2>1. TypeOK'
    BY <1>2, <2>e, MemoizeAssumption DEF IInv, TypeOK, OwnAt, Leading, Busy, Releasing,
      AtEntry
  <2>2. Allocated'
    BY <1>2, <2>e, MemoizeAssumption DEF IInv, TypeOK, Allocated, OwnAt, Leading,
      Releasing, AtEntry
  <2>3. DeadIsLocked'
    BY <1>2, <2>e, MemoizeAssumption DEF IInv, TypeOK, DeadIsLocked, OwnAt, Leading,
      Releasing, AtEntry
  <2>4. Attached'
    BY <1>2, <2>e, MemoizeAssumption DEF IInv, TypeOK, Attached, Distinct, OwnAt,
      Leading, Releasing, AtEntry
  <2>5. Flights' /\ Fresh' /\ DeadIsUnowned' /\ Locks' /\ Distinct'
    BY <2>e DEF IInv, TypeOK, Flights, Fresh, DeadIsUnowned, Locks, Distinct, OwnAt,
      Leading, Releasing, AtEntry
  <2>6. Free' /\ HeldIsCached' /\ HeldNothing' /\ Visited' /\ AllVisited'
    BY <2>e DEF IInv, TypeOK, Free, HeldIsCached, HeldNothing, Visited, AllVisited,
      OwnAt, Leading, Releasing, AtEntry
  <2> QED BY <2>1, <2>2, <2>3, <2>4, <2>5, <2>6 DEF IInv
<1>3. CASE pc[o] = "check" /\ cache[key[o]] = Nil
  <2>e. /\ pc' = [pc EXCEPT ![o] = "compute"]
        /\ e' = [e EXCEPT ![o] = Nil]
        /\ UNCHANGED <<cache, owners, deleted, mu, used, flight, key, candidate, todo, held>>
    BY <1>3, MemoizeAssumption DEF IInv, TypeOK, Load, Goto, entryVars
  <2>1. TypeOK'
    BY <2>e DEF IInv, TypeOK, OwnAt, Leading, Busy, Releasing, AtEntry
  <2>2. Flights'
    BY <1>3, <2>e, MemoizeAssumption DEF IInv, TypeOK, Flights, OwnAt, Leading,
      Releasing, AtEntry
  <2>3. DeadIsLocked'
    BY <1>3, <2>e, MemoizeAssumption DEF IInv, TypeOK, DeadIsLocked, OwnAt, Leading,
      Releasing, AtEntry
  <2>4. Free'
    BY <1>3, <2>e, MemoizeAssumption DEF IInv, TypeOK, Free, OwnAt, Leading, Releasing,
      AtEntry
  <2>5. Allocated' /\ Fresh' /\ DeadIsUnowned' /\ Locks' /\ Attached'
    BY <2>e DEF IInv, TypeOK, Allocated, Fresh, DeadIsUnowned, Locks, Attached, OwnAt,
      Leading, Releasing, AtEntry
  <2>6. Distinct' /\ HeldIsCached' /\ HeldNothing' /\ Visited' /\ AllVisited'
    BY <2>e DEF IInv, TypeOK, Distinct, HeldIsCached, HeldNothing, Visited, AllVisited,
      OwnAt, Leading, Releasing, AtEntry
  <2> QED BY <2>1, <2>2, <2>3, <2>4, <2>5, <2>6 DEF IInv
<1>4. CASE pc[o] = "check" /\ cache[key[o]] # Nil
  <2>e. /\ pc' = [pc EXCEPT ![o] = "ownCheck"]
        /\ e' = [e EXCEPT ![o] = cache[key[o]]]
        /\ UNCHANGED <<cache, owners, deleted, mu, used, flight, key, candidate, todo, held>>
    BY <1>4, MemoizeAssumption DEF IInv, TypeOK, Load, Goto, entryVars
  <2>1. TypeOK'
    BY <1>4, <2>e, MemoizeAssumption DEF IInv, TypeOK, OwnAt, Leading, Busy, Releasing,
      AtEntry
  <2>2. Flights'
    BY <1>4, <2>e, MemoizeAssumption DEF IInv, TypeOK, Flights, OwnAt, Leading,
      Releasing, AtEntry
  <2>3. Allocated'
    BY <1>4, <2>e, MemoizeAssumption DEF IInv, TypeOK, Allocated, OwnAt, Leading,
      Releasing, AtEntry
  <2>4. DeadIsLocked'
    BY <1>4, <2>e, MemoizeAssumption DEF IInv, TypeOK, DeadIsLocked, OwnAt, Leading,
      Releasing, AtEntry
  <2>5. Attached'
    BY <1>4, <2>e, MemoizeAssumption DEF IInv, TypeOK, Attached, Distinct, OwnAt,
      Leading, Releasing, AtEntry
  <2>6. Fresh' /\ DeadIsUnowned' /\ Locks' /\ Distinct'
    BY <2>e DEF IInv, TypeOK, Fresh, DeadIsUnowned, Locks, Distinct, OwnAt, Leading,
      Releasing, AtEntry
  <2>7. Free' /\ HeldIsCached' /\ HeldNothing' /\ Visited' /\ AllVisited'
    BY <2>e DEF IInv, TypeOK, Free, HeldIsCached, HeldNothing, Visited, AllVisited,
      OwnAt, Leading, Releasing, AtEntry
  <2> QED BY <2>1, <2>2, <2>3, <2>4, <2>5, <2>6, <2>7 DEF IInv
<1> QED BY <1>1, <1>2, <1>3, <1>4 DEF Load

\* addOwner: an entry that is not deleted is the one of its key; a leader that is
\* refused finds the key free, because the entry would otherwise still be locked.
LEMMA AddOwnerKeeps == ASSUME IInv, NEW o \in Owners, AddOwner(o) PROVE IInv'
<1>1. CASE Owned(o) /\ pc[o] \in {"own", "ownFinal"}
  <2>e. /\ pc' = [pc EXCEPT ![o] = "idle"]
        /\ owners' = [owners EXCEPT ![e[o]] = owners[e[o]] \cup {o}]
        /\ held' = [held EXCEPT ![o][key[o]] = e[o]]
        /\ ~deleted[e[o]]
        /\ UNCHANGED <<cache, deleted, mu, used, flight, key, e, candidate, todo>>
    BY <1>1, MemoizeAssumption DEF IInv, TypeOK, AddOwner, Owned, AfterOwned, AfterRefused,
      OwnAt, Goto, entryVars
  <2>1. TypeOK'
    BY <2>e, ZenonT(40) DEF IInv, TypeOK, OwnAt, Leading, Busy, Releasing, AtEntry
  <2>2. Allocated'
    BY <1>1, <2>e, MemoizeAssumption DEF IInv, TypeOK, Allocated, OwnAt, Leading,
      Releasing, AtEntry
  <2>3. Fresh'
    BY <1>1, <2>e, MemoizeAssumption DEF IInv, TypeOK, Fresh, OwnAt, Leading, Releasing,
      AtEntry
  <2>4. HeldIsCached'
    BY <1>1, <2>e, MemoizeAssumption DEF IInv, TypeOK, Allocated, Attached, HeldIsCached,
      OwnAt, Leading, Releasing, AtEntry
  <2>5. Flights' /\ DeadIsUnowned' /\ DeadIsLocked' /\ Locks' /\ Attached'
    BY <2>e DEF IInv, TypeOK, Flights, DeadIsUnowned, DeadIsLocked, Locks, Attached,
      OwnAt, Leading, Releasing, AtEntry
  <2>6. Distinct' /\ Free' /\ HeldNothing' /\ Visited' /\ AllVisited'
    BY <2>e DEF IInv, TypeOK, Distinct, Free, HeldNothing, Visited, AllVisited, OwnAt,
      Leading, Releasing, AtEntry
  <2> QED BY <2>1, <2>2, <2>3, <2>4, <2>5, <2>6 DEF IInv
<1>2. CASE Owned(o) /\ pc[o] = "ownCheck"
  <2>e. /\ pc' = [pc EXCEPT ![o] = "finish"]
        /\ owners' = [owners EXCEPT ![e[o]] = owners[e[o]] \cup {o}]
        /\ ~deleted[e[o]]
        /\ UNCHANGED <<cache, deleted, mu, used, flight, key, e, candidate, todo, held>>
    BY <1>2, MemoizeAssumption DEF IInv, TypeOK, AddOwner, Owned, AfterOwned, AfterRefused,
      OwnAt, Goto, entryVars
  <2>1. TypeOK'
    BY <1>2, <2>e, MemoizeAssumption DEF IInv, TypeOK, OwnAt, Leading, Busy, Releasing,
      AtEntry
  <2>2. Flights'
    BY <1>2, <2>e, MemoizeAssumption DEF IInv, TypeOK, Flights, OwnAt, Leading,
      Releasing, AtEntry
  <2>3. Allocated'
    BY <1>2, <2>e, MemoizeAssumption DEF IInv, TypeOK, Allocated, OwnAt, Leading,
      Releasing, AtEntry
  <2>4. Fresh'
    BY <1>2, <2>e, MemoizeAssumption DEF IInv, TypeOK, Fresh, OwnAt, Leading, Releasing,
      AtEntry
  <2>5. Attached'
    BY <1>2, <2>e, MemoizeAssumption DEF IInv, TypeOK, Attached, OwnAt, Leading,
      Releasing, AtEntry
  <2>6. DeadIsUnowned' /\ DeadIsLocked' /\ Locks' /\ Distinct'
    BY <2>e DEF IInv, TypeOK, DeadIsUnowned, DeadIsLocked, Locks, Distinct, OwnAt,
      Leading, Releasing, AtEntry
  <2>7. Free' /\ HeldIsCached' /\ HeldNothing' /\ Visited' /\ AllVisited'
    BY <2>e DEF IInv, TypeOK, Free, HeldIsCached, HeldNothing, Visited, AllVisited,
      OwnAt, Leading, Releasing, AtEntry
  <2> QED BY <2>1, <2>2, <2>3, <2>4, <2>5, <2>6, <2>7 DEF IInv
<1>3. CASE ~Owned(o) /\ pc[o] = "own"
  <2>e. /\ pc' = [pc EXCEPT ![o] = "join"]
        /\ UNCHANGED <<cache, owners, deleted, mu, used, flight, key, e, candidate, todo, held>>
    BY <1>3, MemoizeAssumption DEF IInv, TypeOK, AddOwner, Owned, AfterOwned, AfterRefused,
      OwnAt, Goto, entryVars
  <2>1. TypeOK'
    BY <2>e DEF IInv, TypeOK, OwnAt, Leading, Busy, Releasing, AtEntry
  <2>2. DeadIsLocked'
    BY <1>3, <2>e, MemoizeAssumption DEF IInv, TypeOK, DeadIsLocked, OwnAt, Leading,
      Releasing, AtEntry
  <2>3. Flights' /\ Allocated' /\ Fresh' /\ DeadIsUnowned' /\ Locks' /\ Attached'
    BY <2>e DEF IInv, TypeOK, Flights, Allocated, Fresh, DeadIsUnowned, Locks, Attached,
      OwnAt, Leading, Releasing, AtEntry
  <2>4. Distinct' /\ Free' /\ HeldIsCached' /\ HeldNothing' /\ Visited' /\ AllVisited'
    BY <2>e DEF IInv, TypeOK, Distinct, Free, HeldIsCached, HeldNothing, Visited,
      AllVisited, OwnAt, Leading, Releasing, AtEntry
  <2> QED BY <2>1, <2>2, <2>3, <2>4 DEF IInv
<1>4. CASE ~Owned(o) /\ pc[o] = "ownCheck"
  <2>e. /\ pc' = [pc EXCEPT ![o] = "compute"]
        /\ deleted[e[o]] /\ mu[e[o]] = Nil
        /\ UNCHANGED <<cache, owners, deleted, mu, used, flight, key, e, candidate, todo, held>>
    BY <1>4, MemoizeAssumption DEF IInv, TypeOK, AddOwner, Owned, AfterOwned, AfterRefused,
      OwnAt, Goto, entryVars
  <2>1. TypeOK'
    BY <2>e DEF IInv, TypeOK, OwnAt, Leading, Busy, Releasing, AtEntry
  <2>2. Flights'
    BY <1>4, <2>e, MemoizeAssumption DEF IInv, TypeOK, Flights, OwnAt, Leading,
      Releasing, AtEntry
  <2>3. DeadIsLocked'
    BY <1>4, <2>e, MemoizeAssumption DEF IInv, TypeOK, DeadIsLocked, OwnAt, Leading,
      Releasing, AtEntry
  <2>4. Free'
    BY <1>4, <2>e, MemoizeAssumption DEF IInv, TypeOK, DeadIsLocked, Free, OwnAt,
      Leading, Releasing, AtEntry
  <2>5. Allocated' /\ Fresh' /\ DeadIsUnowned' /\ Locks' /\ Attached'
    BY <2>e DEF IInv, TypeOK, Allocated, Fresh, DeadIsUnowned, Locks, Attached, OwnAt,
      Leading, Releasing, AtEntry
  <2>6. Distinct' /\ HeldIsCached' /\ HeldNothing' /\ Visited' /\ AllVisited'
    BY <2>e DEF IInv, TypeOK, Distinct, HeldIsCached, HeldNothing, Visited, AllVisited,
      OwnAt, Leading, Releasing, AtEntry
  <2> QED BY <2>1, <2>2, <2>3, <2>4, <2>5, <2>6 DEF IInv
<1>5. CASE ~Owned(o) /\ pc[o] = "ownFinal"
  <2>e. /\ pc' = [pc EXCEPT ![o] = "load"]
        /\ UNCHANGED <<cache, owners, deleted, mu, used, flight, key, e, candidate, todo, held>>
    BY <1>5, MemoizeAssumption DEF IInv, TypeOK, AddOwner, Owned, AfterOwned, AfterRefused,
      OwnAt, Goto, entryVars
  <2>1. TypeOK'
    BY <2>e DEF IInv, TypeOK, OwnAt, Leading, Busy, Releasing, AtEntry
  <2>2. DeadIsLocked'
    BY <1>5, <2>e, MemoizeAssumption DEF IInv, TypeOK, DeadIsLocked, OwnAt, Leading,
      Releasing, AtEntry
  <2>3. Flights' /\ Allocated' /\ Fresh' /\ DeadIsUnowned' /\ Locks' /\ Attached'
    BY <2>e DEF IInv, TypeOK, Flights, Allocated, Fresh, DeadIsUnowned, Locks, Attached,
      OwnAt, Leading, Releasing, AtEntry
  <2>4. Distinct' /\ Free' /\ HeldIsCached' /\ HeldNothing' /\ Visited' /\ AllVisited'
    BY <2>e DEF IInv, TypeOK, Distinct, Free, HeldIsCached, HeldNothing, Visited,
      AllVisited, OwnAt, Leading, Releasing, AtEntry
  <2> QED BY <2>1, <2>2, <2>3, <2>4 DEF IInv
<1> QED BY <1>1, <1>2, <1>3, <1>4, <1>5 DEF AddOwner, OwnAt

\* group.Do: a leader is alone in the flight of its key.
LEMMA EnterKeeps == ASSUME IInv, NEW o \in Owners, Enter(o) PROVE IInv'
<1>1. CASE flight[key[o]] = Nil
  <2>e. /\ pc' = [pc EXCEPT ![o] = "check"]
        /\ flight' = [flight EXCEPT ![key[o]] = o]
        /\ pc[o] = "join"
        /\ UNCHANGED <<cache, owners, deleted, mu, used, key, e, candidate, todo, held>>
    BY <1>1, MemoizeAssumption DEF IInv, TypeOK, Enter, Join, Goto, entryVars
  <2>1. TypeOK'
    BY <2>e DEF IInv, TypeOK, OwnAt, Leading, Busy, Releasing, AtEntry
  <2>2. Flights'
    BY <1>1, <2>e, MemoizeAssumption DEF IInv, TypeOK, Flights, OwnAt, Leading,
      Releasing, AtEntry
  <2>3. Allocated' /\ Fresh' /\ DeadIsUnowned' /\ DeadIsLocked' /\ Locks' /\ Attached'
    BY <2>e DEF IInv, TypeOK, Allocated, Fresh, DeadIsUnowned, DeadIsLocked, Locks,
      Attached, OwnAt, Leading, Releasing, AtEntry
  <2>4. Distinct' /\ Free' /\ HeldIsCached' /\ HeldNothing' /\ Visited' /\ AllVisited'
    BY <2>e DEF IInv, TypeOK, Distinct, Free, HeldIsCached, HeldNothing, Visited,
      AllVisited, OwnAt, Leading, Releasing, AtEntry
  <2> QED BY <2>1, <2>2, <2>3, <2>4 DEF IInv
<1>2. CASE flight[key[o]] # Nil
  <2>e. /\ pc' = [pc EXCEPT ![o] = "wait"]
        /\ pc[o] = "join"
        /\ UNCHANGED <<cache, owners, deleted, mu, used, flight, key, e, candidate, todo, held>>
    BY <1>2, MemoizeAssumption DEF IInv, TypeOK, Enter, Join, Goto, entryVars
  <2>1. TypeOK'
    BY <2>e DEF IInv, TypeOK, OwnAt, Leading, Busy, Releasing, AtEntry
  <2>2. Flights' /\ Allocated' /\ Fresh' /\ DeadIsUnowned' /\ DeadIsLocked' /\ Locks'
    BY <2>e DEF IInv, TypeOK, Flights, Allocated, Fresh, DeadIsUnowned, DeadIsLocked,
      Locks, OwnAt, Leading, Releasing, AtEntry
  <2>3. Attached' /\ Distinct' /\ Free' /\ HeldIsCached' /\ HeldNothing' /\ Visited' /\ AllVisited'
    BY <2>e DEF IInv, TypeOK, Attached, Distinct, Free, HeldIsCached, HeldNothing,
      Visited, AllVisited, OwnAt, Leading, Releasing, AtEntry
  <2> QED BY <2>1, <2>2, <2>3 DEF IInv
<1> QED BY <1>1, <1>2 DEF Enter

\* LoadOrStore: the candidate becomes the entry of one key, known to nobody else.
LEMMA LoadOrStoreKeeps == ASSUME IInv, NEW o \in Owners, LoadOrStore(o) PROVE IInv'
<1>e. /\ pc' = [pc EXCEPT ![o] = "finish"]
      /\ cache' = [cache EXCEPT ![key[o]] = candidate[o]]
      /\ e' = [e EXCEPT ![o] = candidate[o]]
      /\ pc[o] = "store" /\ cache[key[o]] = Nil
      /\ UNCHANGED <<owners, deleted, mu, used, flight, key, candidate, todo, held>>
  BY MemoizeAssumption DEF IInv, TypeOK, LoadOrStore, Goto, entryVars
<1>1. TypeOK'
  BY <1>e, MemoizeAssumption DEF IInv, TypeOK, OwnAt, Leading, Busy, Releasing, AtEntry,
    Fresh
<1>2. Allocated'
  BY <1>e, MemoizeAssumption, SMTT(40) DEF IInv, TypeOK, Allocated, Fresh, OwnAt, Leading,
    Releasing, AtEntry
<1>3. DeadIsLocked'
  <2> SUFFICES ASSUME NEW k \in Keys, cache'[k] # Nil
      PROVE  /\ owners'[cache'[k]] = {} => deleted'[cache'[k]]
             /\ deleted'[cache'[k]] =>
                  \E q \in Owners : /\ mu'[cache'[k]] = q /\ pc'[q] = "remove"
                                   /\ e'[q] = cache'[k] /\ key'[q] = k
    BY DEF DeadIsLocked
  <2>1. CASE k = key[o]
    BY <1>e, <2>1, Zenon DEF IInv, TypeOK, Allocated, Fresh, DeadIsUnowned
  <2>2. CASE k # key[o]
    <3>1. cache'[k] = cache[k] /\ cache[k] # Nil
      BY <1>e, <2>2 DEF IInv, TypeOK
    <3>2. owners[cache[k]] = {} => deleted[cache[k]]
      BY <3>1 DEF IInv, DeadIsLocked
    <3>3. ASSUME deleted[cache[k]]
          PROVE  \E q \in Owners : /\ mu'[cache'[k]] = q /\ pc'[q] = "remove"
                                  /\ e'[q] = cache'[k] /\ key'[q] = k
      <4>1. PICK q \in Owners : mu[cache[k]] = q /\ pc[q] = "remove" /\ e[q] = cache[k] /\ key[q] = k
        BY <3>1, <3>3 DEF IInv, DeadIsLocked
      <4> QED BY <1>e, <3>1, <4>1 DEF IInv, TypeOK
    <3> QED BY <1>e, <3>1, <3>2, <3>3
  <2> QED BY <2>1, <2>2
<1>4. Attached'
  BY <1>e, MemoizeAssumption DEF IInv, TypeOK, Fresh, Attached, OwnAt, Leading,
    Releasing, AtEntry
<1>5. Distinct'
  BY <1>e, MemoizeAssumption DEF IInv, TypeOK, Fresh, Distinct, OwnAt, Leading,
    Releasing, AtEntry
<1>6. Free'
  BY <1>e, MemoizeAssumption DEF IInv, TypeOK, Flights, Free, OwnAt, Leading, Releasing,
    AtEntry
<1>7. Visited'
  BY <1>e, MemoizeAssumption DEF IInv, TypeOK, Fresh, Visited, OwnAt, Leading, Releasing,
    AtEntry
<1>8. Flights' /\ Fresh' /\ DeadIsUnowned'
  BY <1>e DEF IInv, TypeOK, Flights, Fresh, DeadIsUnowned, OwnAt, Leading, Releasing,
    AtEntry
<1>9. Locks' /\ HeldIsCached' /\ HeldNothing' /\ AllVisited'
  BY <1>e DEF IInv, TypeOK, Locks, HeldIsCached, HeldNothing, AllVisited, OwnAt, Leading,
    Releasing, AtEntry
<1> QED BY <1>1, <1>2, <1>3, <1>4, <1>5, <1>6, <1>7, <1>8, <1>9 DEF IInv

\* Starting Release gives up all values.
LEMMA ReleaseKeeps == ASSUME IInv, NEW o \in Owners, Release(o) PROVE IInv'
<1>e. /\ pc' = [pc EXCEPT ![o] = "range"]
      /\ todo' = [todo EXCEPT ![o] = Keys]
      /\ held' = [held EXCEPT ![o] = [k \in Keys |-> Nil]]
      /\ pc[o] = "idle"
      /\ UNCHANGED <<cache, owners, deleted, mu, used, flight, key, e, candidate>>
  BY MemoizeAssumption DEF IInv, TypeOK, Release, Goto, entryVars
<1>1. TypeOK'
  BY <1>e, SMTT(40) DEF IInv, TypeOK, OwnAt, Leading, Busy, Releasing, AtEntry
<1>2. Flights' /\ Allocated' /\ Fresh' /\ DeadIsUnowned' /\ DeadIsLocked' /\ Locks'
  BY <1>e DEF IInv, TypeOK, Flights, Allocated, Fresh, DeadIsUnowned, DeadIsLocked,
    Locks, OwnAt, Leading, Releasing, AtEntry
<1>3. Attached' /\ Distinct' /\ Free' /\ HeldIsCached' /\ HeldNothing' /\ Visited' /\ AllVisited'
  BY <1>e DEF IInv, TypeOK, Attached, Distinct, Free, HeldIsCached, HeldNothing, Visited,
    AllVisited, OwnAt, Leading, Releasing, AtEntry
<1> QED BY <1>1, <1>2, <1>3 DEF IInv

\* Range: the next key is visited, with the entry it has.
LEMMA VisitKeeps == ASSUME IInv, NEW o \in Owners, NEW k \in Keys, Visit(o, k) PROVE IInv'
<1>1. CASE cache[k] = Nil
  <2>e. /\ todo' = [todo EXCEPT ![o] = todo[o] \ {k}]
        /\ pc[o] = "range" /\ k \in todo[o]
        /\ UNCHANGED <<cache, owners, deleted, mu, used, flight, pc, key, e, candidate, held>>
    BY <1>1, MemoizeAssumption DEF IInv, TypeOK, Visit, Goto, entryVars
  <2>1. TypeOK'
    BY <2>e DEF IInv, TypeOK, OwnAt, Leading, Busy, Releasing, AtEntry
  <2>2. Visited'
    BY <1>1, <2>e, MemoizeAssumption, SMTT(40) DEF IInv, TypeOK, Visited, OwnAt, Leading,
      Releasing, AtEntry
  <2>3. Flights' /\ Allocated' /\ Fresh' /\ DeadIsUnowned' /\ DeadIsLocked' /\ Locks'
    BY <2>e DEF IInv, TypeOK, Flights, Allocated, Fresh, DeadIsUnowned, DeadIsLocked,
      Locks, OwnAt, Leading, Releasing, AtEntry
  <2>4. Attached' /\ Distinct' /\ Free' /\ HeldIsCached' /\ HeldNothing' /\ AllVisited'
    BY <2>e DEF IInv, TypeOK, Attached, Distinct, Free, HeldIsCached, HeldNothing,
      AllVisited, OwnAt, Leading, Releasing, AtEntry
  <2> QED BY <2>1, <2>2, <2>3, <2>4 DEF IInv
<1>2. CASE cache[k] # Nil
  <2>e. /\ pc' = [pc EXCEPT ![o] = "release"]
        /\ todo' = [todo EXCEPT ![o] = todo[o] \ {k}]
        /\ key' = [key EXCEPT ![o] = k]
        /\ e' = [e EXCEPT ![o] = cache[k]]
        /\ pc[o] = "range" /\ k \in todo[o]
        /\ UNCHANGED <<cache, owners, deleted, mu, used, flight, candidate, held>>
    BY <1>2, MemoizeAssumption DEF IInv, TypeOK, Visit, Goto, entryVars
  <2>1. TypeOK'
    BY <1>2, <2>e, MemoizeAssumption DEF IInv, TypeOK, OwnAt, Leading, Busy, Releasing,
      AtEntry
  <2>2. Allocated'
    BY <1>2, <2>e, MemoizeAssumption DEF IInv, TypeOK, Allocated, OwnAt, Leading,
      Releasing, AtEntry
  <2>3. Attached'
    BY <1>2, <2>e, MemoizeAssumption, SMTT(40) DEF IInv, TypeOK, Attached, Distinct, OwnAt,
      Leading, Releasing, AtEntry
  <2>4. Flights' /\ Fresh' /\ DeadIsUnowned' /\ DeadIsLocked' /\ Locks'
    BY <2>e, SMTT(40) DEF IInv, TypeOK, Flights, Fresh, DeadIsUnowned, DeadIsLocked, Locks, OwnAt,
      Leading, Releasing, AtEntry
  <2>5. Distinct' /\ Free' /\ HeldIsCached' /\ HeldNothing' /\ Visited' /\ AllVisited'
    BY <2>e, SMTT(40) DEF IInv, TypeOK, Distinct, Free, HeldIsCached, HeldNothing, Visited,
      AllVisited, OwnAt, Leading, Releasing, AtEntry
  <2> QED BY <2>1, <2>2, <2>3, <2>4, <2>5 DEF IInv
<1> QED BY <1>1, <1>2 DEF Visit

\* releaseEntry: the last owner marks the entry and keeps its lock; a caller that
\* holds the value is another owner.
LEMMA ReleaseEntryKeeps == ASSUME IInv, NEW o \in Owners, ReleaseEntry(o) PROVE IInv'
<1>1. CASE owners[e[o]] \subseteq {o}
  <2>e. /\ pc' = [pc EXCEPT ![o] = "remove"]
        /\ owners' = [owners EXCEPT ![e[o]] = owners[e[o]] \ {o}]
        /\ deleted' = [deleted EXCEPT ![e[o]] = TRUE]
        /\ mu' = [mu EXCEPT ![e[o]] = o]
        /\ pc[o] = "release" /\ mu[e[o]] = Nil
        /\ UNCHANGED <<cache, used, flight, key, e, candidate, todo, held>>
    BY <1>1, MemoizeAssumption, ZenonT(40) DEF IInv, TypeOK, ReleaseEntry, Forget, Drop, KeepLock,
      Goto, AtEntry, entryVars
  <2>1. TypeOK'
    BY <2>e DEF IInv, TypeOK, OwnAt, Leading, Busy, Releasing, AtEntry
  <2>2. DeadIsUnowned'
    BY <1>1, <2>e, MemoizeAssumption DEF IInv, TypeOK, DeadIsUnowned, OwnAt, Leading,
      Releasing, AtEntry
  <2>3. DeadIsLocked'
    BY <1>1, <2>e, MemoizeAssumption DEF IInv, TypeOK, DeadIsLocked, Locks, Attached,
      OwnAt, Leading, Releasing, AtEntry
  <2>4. Locks'
    BY <1>1, <2>e, MemoizeAssumption DEF IInv, TypeOK, Locks, OwnAt, Leading, Releasing,
      AtEntry
  <2>5. HeldIsCached'
    BY <1>1, <2>e, MemoizeAssumption DEF IInv, TypeOK, HeldIsCached, HeldNothing, OwnAt,
      Leading, Releasing, AtEntry
  <2>6. Flights' /\ Allocated' /\ Fresh' /\ Attached'
    BY <2>e, SMTT(40) DEF IInv, TypeOK, Flights, Allocated, Fresh, Attached, OwnAt, Leading,
      Releasing, AtEntry
  <2>7. Distinct' /\ Free' /\ HeldNothing' /\ Visited' /\ AllVisited'
    BY <2>e DEF IInv, TypeOK, Distinct, Free, HeldNothing, Visited, AllVisited, OwnAt,
      Leading, Releasing, AtEntry
  <2> QED BY <2>1, <2>2, <2>3, <2>4, <2>5, <2>6, <2>7 DEF IInv
<1>2. CASE ~(owners[e[o]] \subseteq {o})
  <2>e. /\ pc' = [pc EXCEPT ![o] = "range"]
        /\ owners' = [owners EXCEPT ![e[o]] = owners[e[o]] \ {o}]
        /\ deleted' = [deleted EXCEPT ![e[o]] = FALSE]
        /\ pc[o] = "release" /\ mu[e[o]] = Nil
        /\ UNCHANGED <<cache, mu, used, flight, key, e, candidate, todo, held>>
    BY <1>2, MemoizeAssumption, ZenonT(40) DEF IInv, TypeOK, ReleaseEntry, Forget, Drop, KeepLock,
      Goto, AtEntry, entryVars
  <2>1. TypeOK'
    BY <2>e DEF IInv, TypeOK, OwnAt, Leading, Busy, Releasing, AtEntry
  <2>2. DeadIsLocked'
    BY <1>2, <2>e, MemoizeAssumption DEF IInv, TypeOK, DeadIsLocked, Locks, OwnAt,
      Leading, Releasing, AtEntry
  <2>3. Locks'
    BY <1>2, <2>e, MemoizeAssumption DEF IInv, TypeOK, DeadIsUnowned, Locks, OwnAt,
      Leading, Releasing, AtEntry
  <2>4. Attached'
    BY <1>2, <2>e, MemoizeAssumption DEF IInv, TypeOK, DeadIsUnowned, Attached, OwnAt,
      Leading, Releasing, AtEntry
  <2>5. HeldIsCached'
    BY <1>2, <2>e, MemoizeAssumption DEF IInv, TypeOK, HeldIsCached, HeldNothing, OwnAt,
      Leading, Releasing, AtEntry
  <2>6. Flights' /\ Allocated' /\ Fresh' /\ DeadIsUnowned'
    BY <2>e DEF IInv, TypeOK, Flights, Allocated, Fresh, DeadIsUnowned, OwnAt, Leading,
      Releasing, AtEntry
  <2>7. Distinct' /\ Free' /\ HeldNothing' /\ Visited' /\ AllVisited'
    BY <2>e DEF IInv, TypeOK, Distinct, Free, HeldNothing, Visited, AllVisited, OwnAt,
      Leading, Releasing, AtEntry
  <2> QED BY <2>1, <2>2, <2>3, <2>4, <2>5, <2>6, <2>7 DEF IInv
<1> QED BY <1>1, <1>2 DEF ReleaseEntry

\* CompareAndDelete removes a deleted entry, which nobody holds.
LEMMA RemoveKeeps == ASSUME IInv, NEW o \in Owners, Remove(o) PROVE IInv'
<1>1. CASE cache[key[o]] = e[o]
  <2>e. /\ pc' = [pc EXCEPT ![o] = "range"]
        /\ cache' = [cache EXCEPT ![key[o]] = Nil]
        /\ mu' = [mu EXCEPT ![e[o]] = Nil]
        /\ pc[o] = "remove"
        /\ UNCHANGED <<owners, deleted, used, flight, key, e, candidate, todo, held>>
    BY <1>1, MemoizeAssumption DEF IInv, TypeOK, Remove, CompareAndDelete, Goto, entryVars
  <2>1. TypeOK'
    BY <2>e DEF IInv, TypeOK, OwnAt, Leading, Busy, Releasing, AtEntry
  <2>2. Fresh'
    BY <1>1, <2>e, MemoizeAssumption, SMTT(40) DEF IInv, TypeOK, Fresh, OwnAt, Leading, Releasing,
      AtEntry
  <2>3. DeadIsLocked'
    BY <1>1, <2>e, MemoizeAssumption DEF IInv, TypeOK, DeadIsLocked, Locks, Attached,
      Distinct, OwnAt, Leading, Releasing, AtEntry
  <2>4. Attached'
    BY <1>1, <2>e, MemoizeAssumption DEF IInv, TypeOK, Locks, Attached, OwnAt, Leading,
      Releasing, AtEntry
  <2>5. HeldIsCached'
    BY <1>1, <2>e, MemoizeAssumption DEF IInv, TypeOK, Locks, HeldIsCached, OwnAt,
      Leading, Releasing, AtEntry
  <2>6. Flights' /\ Allocated' /\ DeadIsUnowned' /\ Locks'
    BY <2>e, SMTT(40) DEF IInv, TypeOK, Flights, Allocated, DeadIsUnowned, Locks, OwnAt, Leading,
      Releasing, AtEntry
  <2>7. Distinct' /\ Free' /\ HeldNothing' /\ Visited' /\ AllVisited'
    BY <2>e DEF IInv, TypeOK, Distinct, Free, HeldNothing, Visited, AllVisited, OwnAt,
      Leading, Releasing, AtEntry
  <2> QED BY <2>1, <2>2, <2>3, <2>4, <2>5, <2>6, <2>7 DEF IInv
<1>2. CASE cache[key[o]] # e[o]
  <2>e. /\ pc' = [pc EXCEPT ![o] = "range"]
        /\ mu' = [mu EXCEPT ![e[o]] = Nil]
        /\ pc[o] = "remove"
        /\ UNCHANGED <<cache, owners, deleted, used, flight, key, e, candidate, todo, held>>
    BY <1>2, MemoizeAssumption DEF IInv, TypeOK, Remove, CompareAndDelete, Goto, entryVars
  <2>1. TypeOK'
    BY <2>e, SMTT(40) DEF IInv, TypeOK, OwnAt, Leading, Busy, Releasing, AtEntry
  <2>2. DeadIsLocked'
    BY <1>2, <2>e, MemoizeAssumption, SMTT(40) DEF IInv, TypeOK, DeadIsLocked, Locks, Attached,
      OwnAt, Leading, Releasing, AtEntry
  <2>3. Flights' /\ Allocated' /\ Fresh' /\ DeadIsUnowned' /\ Locks' /\ Attached'
    BY <2>e, SMTT(40) DEF IInv, TypeOK, Flights, Allocated, Fresh, DeadIsUnowned, Locks, Attached,
      OwnAt, Leading, Releasing, AtEntry
  <2>4. Distinct' /\ Free' /\ HeldIsCached' /\ HeldNothing' /\ Visited' /\ AllVisited'
    BY <2>e DEF IInv, TypeOK, Distinct, Free, HeldIsCached, HeldNothing, Visited,
      AllVisited, OwnAt, Leading, Releasing, AtEntry
  <2> QED BY <2>1, <2>2, <2>3, <2>4 DEF IInv
<1> QED BY <1>1, <1>2 DEF Remove

\* The end of Range: all keys are visited.
LEMMA ClosedKeeps == ASSUME IInv, NEW o \in Owners, Closed(o) PROVE IInv'
<1>e. /\ pc' = [pc EXCEPT ![o] = "closed"]
      /\ pc[o] = "range" /\ todo[o] = {}
      /\ UNCHANGED <<cache, owners, deleted, mu, used, flight, key, e, candidate, todo, held>>
  BY MemoizeAssumption DEF IInv, TypeOK, Closed, Goto, entryVars
<1>1. TypeOK'
  BY <1>e, SMTT(40) DEF IInv, TypeOK, OwnAt, Leading, Busy, Releasing, AtEntry
<1>2. Flights' /\ Allocated' /\ Fresh' /\ DeadIsUnowned' /\ DeadIsLocked' /\ Locks'
  BY <1>e, SMTT(40) DEF IInv, TypeOK, Flights, Allocated, Fresh, DeadIsUnowned, DeadIsLocked,
    Locks, OwnAt, Leading, Releasing, AtEntry
<1>3. Attached' /\ Distinct' /\ Free' /\ HeldIsCached' /\ HeldNothing' /\ Visited' /\ AllVisited'
  BY <1>e DEF IInv, TypeOK, Attached, Distinct, Free, HeldIsCached, HeldNothing, Visited,
    AllVisited, OwnAt, Leading, Releasing, AtEntry
<1> QED BY <1>1, <1>2, <1>3 DEF IInv

\* The flight lands: leader and waiters have the same key and entry.
LEMMA FinishKeeps == ASSUME IInv, NEW o \in Owners, Finish(o) PROVE IInv'
<1>e. /\ pc' = [q \in Owners |-> IF q = o \/ (pc[q] = "wait" /\ key[q] = key[o]) THEN "ownFinal" ELSE pc[q]]
      /\ flight' = [flight EXCEPT ![key[o]] = Nil]
      /\ e' = [q \in Owners |-> IF q = o \/ (pc[q] = "wait" /\ key[q] = key[o]) THEN e[o] ELSE e[q]]
      /\ pc[o] = "finish"
      /\ UNCHANGED <<cache, owners, deleted, mu, used, key, candidate, todo, held>>
  BY MemoizeAssumption DEF IInv, TypeOK, Finish, Land, entryVars
<1>1. TypeOK'
  BY <1>e, SMTT(40) DEF IInv, TypeOK, OwnAt, Leading, Busy, Releasing, AtEntry
<1>2. Flights' /\ Allocated' /\ Fresh'
  BY <1>e, SMTT(40) DEF IInv, TypeOK, Flights, Allocated, Fresh, OwnAt,
    Leading, Releasing, AtEntry
<1>3. DeadIsUnowned' /\ DeadIsLocked' /\ Locks'
  BY <1>e, SMTT(40) DEF IInv, TypeOK, DeadIsUnowned, DeadIsLocked, Locks, OwnAt,
    Leading, Releasing, AtEntry
<1>4. Attached' /\ Distinct' /\ Free'
  BY <1>e, SMTT(40) DEF IInv, TypeOK, Attached, Distinct, Free, OwnAt,
    Leading, Releasing, AtEntry
<1>5. HeldIsCached' /\ HeldNothing' /\ Visited' /\ AllVisited'
  BY <1>e, SMTT(40) DEF IInv, TypeOK, HeldIsCached, HeldNothing, Visited, AllVisited, OwnAt,
    Leading, Releasing, AtEntry
<1> QED BY <1>1, <1>2, <1>3, <1>4, <1>5 DEF IInv

\* fn fails, or its value gets a blank entry.
LEMMA ComputeKeeps == ASSUME IInv, NEW o \in Owners, Compute(o) PROVE IInv'
<1>1. CASE Fail(o) /\ UNCHANGED <<owners, used, candidate>>
  <2>e. /\ pc' = [q \in Owners |-> IF q = o \/ (pc[q] = "wait" /\ key[q] = key[o]) THEN "idle" ELSE pc[q]]
        /\ flight' = [flight EXCEPT ![key[o]] = Nil]
        /\ pc[o] = "compute"
        /\ UNCHANGED <<cache, owners, deleted, mu, used, key, e, candidate, todo, held>>
    BY <1>1, MemoizeAssumption DEF IInv, TypeOK, Compute, Fail, Land, Goto, entryVars
  <2>1. TypeOK'
    BY <2>e, SMTT(40) DEF IInv, TypeOK, OwnAt, Leading, Busy, Releasing, AtEntry
  <2>2. Flights' /\ Allocated' /\ Fresh'
    BY <2>e, SMTT(40) DEF IInv, TypeOK, Flights, Allocated, Fresh, OwnAt,
      Leading, Releasing, AtEntry
  <2>3. DeadIsUnowned' /\ DeadIsLocked' /\ Locks'
    BY <2>e, SMTT(40) DEF IInv, TypeOK, DeadIsUnowned, DeadIsLocked, Locks, OwnAt,
      Leading, Releasing, AtEntry
  <2>4. Attached' /\ Distinct' /\ Free'
    BY <2>e, SMTT(40) DEF IInv, TypeOK, Attached, Distinct, Free, OwnAt,
      Leading, Releasing, AtEntry
  <2>5. HeldIsCached' /\ HeldNothing' /\ Visited' /\ AllVisited'
    BY <2>e, SMTT(40) DEF IInv, TypeOK, HeldIsCached, HeldNothing, Visited, AllVisited, OwnAt,
      Leading, Releasing, AtEntry
  <2> QED BY <2>1, <2>2, <2>3, <2>4, <2>5 DEF IInv
<1>2. ASSUME NEW x \in Entries \ used, used' = used \cup {x}, owners' = [owners EXCEPT ![x] = {o}],
            candidate' = [candidate EXCEPT ![o] = x], Goto(o, "store"), UNCHANGED flight
     PROVE  IInv'
  <2>e. /\ pc' = [pc EXCEPT ![o] = "store"]
        /\ used' = used \cup {x}
        /\ owners' = [owners EXCEPT ![x] = {o}]
        /\ candidate' = [candidate EXCEPT ![o] = x]
        /\ pc[o] = "compute"
        /\ UNCHANGED <<cache, deleted, mu, flight, key, e, todo, held>>
    BY <1>2, MemoizeAssumption DEF IInv, TypeOK, Compute, Fail, Land, Goto, entryVars
  <2>1. TypeOK'
    BY <2>e DEF IInv, TypeOK, OwnAt, Leading, Busy, Releasing, AtEntry
  <2>2. Fresh'
    BY <1>2, <2>e, MemoizeAssumption DEF IInv, TypeOK, Allocated, Fresh, OwnAt, Leading,
      Releasing, AtEntry
  <2>3. DeadIsUnowned'
    BY <1>2, <2>e, MemoizeAssumption, SMTT(40) DEF IInv, TypeOK, Allocated, DeadIsUnowned, OwnAt,
      Leading, Releasing, AtEntry
  <2>4. DeadIsLocked'
    BY <1>2, <2>e, MemoizeAssumption, SMTT(40) DEF IInv, TypeOK, Allocated, DeadIsLocked, OwnAt,
      Leading, Releasing, AtEntry
  <2>5. HeldIsCached'
    BY <1>2, <2>e, MemoizeAssumption, SMTT(40) DEF IInv, TypeOK, Allocated, HeldIsCached, OwnAt,
      Leading, Releasing, AtEntry
  <2>6. Flights' /\ Allocated' /\ Locks' /\ Attached'
    BY <2>e, SMTT(40) DEF IInv, TypeOK, Flights, Allocated, Locks, Attached, OwnAt, Leading,
      Releasing, AtEntry
  <2>7. Distinct' /\ Free' /\ HeldNothing' /\ Visited' /\ AllVisited'
    BY <2>e DEF IInv, TypeOK, Distinct, Free, HeldNothing, Visited, AllVisited, OwnAt,
      Leading, Releasing, AtEntry
  <2> QED BY <2>1, <2>2, <2>3, <2>4, <2>5, <2>6, <2>7 DEF IInv
<1> QED BY <1>1, <1>2 DEF Compute

-----------------------------------------------------------------------------
(* The invariant holds *)

\* An empty cache satisfies the invariant.
LEMMA InitInv == Init => IInv
<1> SUFFICES ASSUME Init PROVE IInv
  OBVIOUS
<1>1. TypeOK
  BY DEF Init, TypeOK, AtEntry, OwnAt
<1>2. Flights /\ Allocated /\ Fresh /\ Locks /\ Attached /\ Free /\ AllVisited
  BY DEF Init, Flights, Allocated, Fresh, Locks, Attached, Free, AllVisited, AtEntry, OwnAt, Leading
<1>3. DeadIsUnowned /\ DeadIsLocked /\ Distinct /\ HeldIsCached
  BY DEF Init, DeadIsUnowned, DeadIsLocked, Distinct, HeldIsCached
<1>4. HeldNothing /\ Visited
  BY DEF Init, HeldNothing, Visited, Releasing
<1> QED BY <1>1, <1>2, <1>3, <1>4 DEF IInv

\* Every step of Do and Release, and every stuttering step, preserves it.
LEMMA NextKeeps == IInv /\ [Next]_vars => IInv'
<1> SUFFICES ASSUME IInv, [Next]_vars PROVE IInv'
  OBVIOUS
<1>1. CASE UNCHANGED vars
  <2>e. /\ UNCHANGED <<cache, owners, deleted, mu, used, flight>>
        /\ UNCHANGED <<pc, key, e, candidate, todo, held>>
    BY <1>1 DEF vars, entryVars
  <2>1. TypeOK'
    BY <2>e, SMTT(40) DEF IInv, TypeOK
  <2>2. Flights' /\ Allocated' /\ Fresh' /\ DeadIsUnowned'
    BY <2>e, SMTT(40) DEF IInv, Flights, Allocated, Fresh, DeadIsUnowned
  <2>3. DeadIsLocked' /\ Locks' /\ Attached' /\ Distinct' /\ Free'
    BY <2>e, SMTT(40) DEF IInv, DeadIsLocked, Locks, Attached, Distinct, Free
  <2>4. HeldIsCached'
    BY <2>e, SMTT(40) DEF IInv, HeldIsCached
  <2>5. HeldNothing'
    BY <2>e, SMTT(40) DEF IInv, HeldNothing
  <2>6. Visited'
    BY <2>e, SMTT(40) DEF IInv, Visited
  <2>7. AllVisited'
    BY <2>e, SMTT(40) DEF IInv, AllVisited
  <2> QED BY <2>1, <2>2, <2>3, <2>4, <2>5, <2>6, <2>7 DEF IInv
<1>2. ASSUME NEW o \in Owners, Step(o) PROVE IInv'
  BY <1>2, LoadKeeps, AddOwnerKeeps, EnterKeeps, ComputeKeeps, LoadOrStoreKeeps, FinishKeeps,
     VisitKeeps, ReleaseEntryKeeps, RemoveKeeps, ClosedKeeps DEF Step
<1>3. ASSUME NEW o \in Owners, Release(o) PROVE IInv'
  BY <1>3, ReleaseKeeps
<1>4. ASSUME NEW o \in Owners, NEW k \in Keys, Do(o, k) PROVE IInv'
  BY <1>4, DoKeeps
<1> QED BY <1>1, <1>2, <1>3, <1>4 DEF Next

\* The invariant holds in every behaviour.
LEMMA Invariance == Spec => []IInv
BY InitInv, NextKeeps, PTL DEF Spec

-----------------------------------------------------------------------------
(* Theorems *)

\* The state of the memoizer is typed, and Do and Release have an entry wherever
\* they use one.
THEOREM MemoizeTyped == Spec => []TypeOK
<1>1. IInv => TypeOK
  BY DEF IInv
<1> QED BY <1>1, Invariance, PTL

\* What Do returned stays cached and owned until its caller is closed.
THEOREM ReturnedStaysOwned == Spec => []HeldIsCached
<1>1. IInv => HeldIsCached
  BY DEF IInv
<1> QED BY <1>1, Invariance, PTL

\* One compilation of a key at a time, and none while a value of it is in use.
THEOREM OneCompilation == Spec => []CompiledOnce
<1>1. IInv => CompiledOnce
  <2> SUFFICES ASSUME IInv, NEW o \in Owners, NEW q \in Owners, pc[o] = "compute"
      PROVE  /\ held[q][key[o]] = Nil
             /\ pc[q] = "compute" /\ key[q] = key[o] => q = o
    BY DEF CompiledOnce
  <2>1. cache[key[o]] = Nil /\ key[o] \in Keys
    BY DEF IInv, TypeOK, Free
  <2>2. held[q][key[o]] = Nil
    BY <2>1 DEF IInv, HeldIsCached
  <2>3. pc[q] = "compute" /\ key[q] = key[o] => q = o
    BY DEF IInv, Flights, Leading
  <2> QED BY <2>2, <2>3
<1> QED BY <1>1, Invariance, PTL

\* LoadOrStore always stores: the loop around it never turns.
THEOREM StoreSucceeds == Spec => []StoreIsFree
<1>1. IInv => StoreIsFree
  BY DEF IInv, Free, StoreIsFree
<1> QED BY <1>1, Invariance, PTL

\* A closed WAF owns no entry of the cache.
THEOREM CloseReleasesAll == Spec => []ClosedOwnsNothing
<1>1. IInv => ClosedOwnsNothing
  BY DEF IInv, Visited, AllVisited, ClosedOwnsNothing
<1> QED BY <1>1, Invariance, PTL

\* An entry without owners is in the cache only while it is being removed.
THEOREM DeadEntriesLeave == Spec => []NoDeadEntry
<1>1. IInv => NoDeadEntry
  BY DEF IInv, DeadIsLocked, NoDeadEntry
<1> QED BY <1>1, Invariance, PTL

\* The memoizer implements the sharing of values: Do returns the value others
\* hold, if any, and only Release gives values up.
THEOREM SharingImplemented == Spec => SharesValues
<1>1. Init => Shared!Init
  BY DEF Init, Shared!Init
<1>2. ASSUME IInv, [Next]_vars PROVE [Shared!Next]_held
  <2>1. CASE UNCHANGED vars
    BY <2>1 DEF vars
  <2>2. ASSUME NEW o \in Owners, AddOwner(o), held' # held PROVE Shared!Next
    <3>1. /\ pc[o] \in AtEntry /\ ~deleted[e[o]]
          /\ held' = [held EXCEPT ![o][key[o]] = e[o]]
      BY <2>2 DEF AddOwner, Owned, AtEntry
    <3>2. e[o] \in Entries /\ key[o] \in Keys /\ cache[key[o]] = e[o]
      BY <1>2, <3>1 DEF IInv, TypeOK, Attached
    <3>3. \A q \in Owners : held[q][key[o]] \in {e[o], Nil}
      BY <1>2, <3>2 DEF IInv, HeldIsCached
    <3>4. Shared!Acquire(o, key[o])
      BY <3>1, <3>2, <3>3, Zenon DEF Shared!Acquire
    <3> QED BY <3>2, <3>4 DEF Shared!Next
  <2>3. ASSUME NEW o \in Owners, Release(o) PROVE Shared!Next
    BY <2>3, Zenon DEF Release, Shared!Next, Shared!GiveUp
  <2>4. ASSUME NEW o \in Owners, Step(o), ~AddOwner(o) PROVE UNCHANGED held
    BY <2>4, Zenon DEF Step, Load, Enter, Compute, LoadOrStore, Finish, Visit, ReleaseEntry, Remove, Closed
  <2>5. ASSUME NEW o \in Owners, NEW k \in Keys, Do(o, k) PROVE UNCHANGED held
    BY <2>5 DEF Do
  <2> QED BY <1>2, <2>1, <2>2, <2>3, <2>4, <2>5 DEF Next
<1> QED BY <1>1, <1>2, Invariance, PTL DEF Spec, SharesValues, Shared!Spec

=============================================================================
