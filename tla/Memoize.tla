------------------------------- MODULE Memoize -------------------------------
(***************************************************************************)
(* The process-wide cache of compiled patterns (internal/memoize/sync.go).  *)
(* Each WAF is an owner: it calls Do while its rules are compiled, any       *)
(* number of times, and Release once, when it is closed.  Owners run         *)
(* concurrently; a step is one operation on the map, on an entry under its   *)
(* mutex, or on the singleflight group.                                      *)
(***************************************************************************)
EXTENDS Naturals, FiniteSets

CONSTANTS
  Owners,     \* WAFs, each with its owner id
  Keys,
  Entries,    \* the addresses of entries
  Nil

ASSUME MemoizeAssumption == Nil \notin Owners \cup Entries

VARIABLES
  cache,      \* sync.Map: key -> entry
  owners, deleted, mu,   \* the fields of an entry; mu is the holder of the mutex
  flight,     \* singleflight: the leader of the call in flight for a key
  pc, key, e, candidate, todo,   \* the program counter and locals of an owner
  used,       \* entries allocated so far
  held        \* history: the entry whose value Do last returned, until Close

entryVars == <<owners, deleted, mu, used>>
vars == <<cache, entryVars, flight, pc, key, e, candidate, todo, held>>

\* Where the owner is in Do and which addOwner it is about to call: of the fast
\* path, of the double check, or after the flight.
OwnAt == {"own", "ownCheck", "ownFinal"}
Leading == {"check", "ownCheck", "compute", "store", "finish"}
Busy == OwnAt \cup Leading \cup {"load", "join", "wait"}
Releasing == {"range", "release", "remove"}

\* Where the owner has an entry at hand.
AtEntry == OwnAt \cup {"finish", "release", "remove"}

Init ==
  /\ cache = [k \in Keys |-> Nil]
  /\ owners = [x \in Entries |-> {}] /\ deleted = [x \in Entries |-> FALSE]
  /\ mu = [x \in Entries |-> Nil] /\ used = {}
  /\ flight = [k \in Keys |-> Nil]
  /\ pc = [o \in Owners |-> "idle"] /\ key \in [Owners -> Keys]
  /\ e = [o \in Owners |-> Nil] /\ candidate = [o \in Owners |-> Nil]
  /\ todo = [o \in Owners |-> {}]
  /\ held = [o \in Owners |-> [k \in Keys |-> Nil]]

Goto(o, l) == pc' = [pc EXCEPT ![o] = l]

-----------------------------------------------------------------------------
(* Do *)

Do(o, k) ==
  /\ pc[o] = "idle"
  /\ Goto(o, "load") /\ key' = [key EXCEPT ![o] = k]
  /\ UNCHANGED <<cache, entryVars, flight, e, candidate, todo, held>>

\* cache.Load, of the fast path and of the double check inside the flight.
Load(o) ==
  /\ pc[o] \in {"load", "check"}
  /\ e' = [e EXCEPT ![o] = cache[key[o]]]
  /\ Goto(o, IF pc[o] = "load"
             THEN IF cache[key[o]] = Nil THEN "join" ELSE "own"
             ELSE IF cache[key[o]] = Nil THEN "compute" ELSE "ownCheck")
  /\ UNCHANGED <<cache, entryVars, flight, key, candidate, todo, held>>

BugOwned(o) == TRUE

\* addOwner succeeds unless the entry was released by its last owner.
Owned(o) == ~deleted[e[o]]

\* What Do does next: return, finish the flight, go on, or start again.
AfterOwned(l) == IF l \in {"own", "ownFinal"} THEN "idle" ELSE "finish"
AfterRefused(l) ==
  CASE l = "own" -> "join" [] l = "ownCheck" -> "compute" [] OTHER -> "load"

\* addOwner under the mutex of the entry, and the return of Do.
AddOwner(o) ==
  /\ pc[o] \in OwnAt /\ mu[e[o]] = Nil
  /\ \/ /\ Owned(o)
        /\ owners' = [owners EXCEPT ![e[o]] = @ \cup {o}]
        /\ Goto(o, AfterOwned(pc[o]))
        /\ held' = IF pc[o] \in {"own", "ownFinal"}
                   THEN [held EXCEPT ![o][key[o]] = e[o]] ELSE held
     \/ /\ ~Owned(o)
        /\ Goto(o, AfterRefused(pc[o]))
        /\ UNCHANGED <<owners, held>>
  /\ UNCHANGED <<cache, deleted, mu, used, flight, key, e, candidate, todo>>

BugJoin(o) == Goto(o, "check") /\ flight' = [flight EXCEPT ![key[o]] = o]

\* group.Do: the first caller of a key leads the flight, the others wait.
Join(o) ==
  IF flight[key[o]] = Nil
  THEN Goto(o, "check") /\ flight' = [flight EXCEPT ![key[o]] = o]
  ELSE Goto(o, "wait") /\ UNCHANGED flight

Enter(o) ==
  /\ pc[o] = "join"
  /\ Join(o)
  /\ UNCHANGED <<cache, entryVars, key, e, candidate, todo, held>>

\* Everybody in the flight of the key goes on at l.
Land(o, l) ==
  /\ flight' = [flight EXCEPT ![key[o]] = Nil]
  /\ pc' = [q \in Owners |->
              IF q = o \/ (pc[q] = "wait" /\ key[q] = key[o]) THEN l ELSE pc[q]]

BugFail(o) == Land(o, "ownFinal")

\* fn fails: the error is returned to all.
Fail(o) == Land(o, "idle")

\* fn succeeds: the candidate is owned by the leader before anyone can see it.
Compute(o) ==
  /\ pc[o] = "compute"
  /\ \/ /\ Fail(o)
        /\ UNCHANGED <<owners, used, candidate>>
     \/ \E x \in Entries \ used :
          /\ used' = used \cup {x}
          /\ owners' = [owners EXCEPT ![x] = {o}]
          /\ candidate' = [candidate EXCEPT ![o] = x]
          /\ Goto(o, "store") /\ UNCHANGED flight
  /\ UNCHANGED <<cache, deleted, mu, key, e, todo, held>>

\* cache.LoadOrStore stores the candidate.  What the code does if it finds an entry
\* (own it, or evict it and try again) has no action: StoreIsFree shows that it
\* never finds one.
LoadOrStore(o) ==
  /\ pc[o] = "store" /\ cache[key[o]] = Nil
  /\ cache' = [cache EXCEPT ![key[o]] = candidate[o]]
  /\ e' = [e EXCEPT ![o] = candidate[o]]
  /\ Goto(o, "finish")
  /\ UNCHANGED <<entryVars, flight, key, candidate, todo, held>>

\* The flight lands: the leader and the waiters go on with its entry.
Finish(o) ==
  /\ pc[o] = "finish"
  /\ Land(o, "ownFinal")
  /\ e' = [q \in Owners |->
             IF q = o \/ (pc[q] = "wait" /\ key[q] = key[o]) THEN e[o] ELSE e[q]]
  /\ UNCHANGED <<cache, entryVars, key, candidate, todo, held>>

-----------------------------------------------------------------------------
(* Release *)

Release(o) ==
  /\ pc[o] = "idle"
  /\ Goto(o, "range") /\ todo' = [todo EXCEPT ![o] = Keys]
  /\ held' = [held EXCEPT ![o] = [k \in Keys |-> Nil]]
  /\ UNCHANGED <<cache, entryVars, flight, key, e, candidate>>

\* cache.Range visits every key once, with the entry it has at that moment, and
\* calls releaseEntry on that entry later, when the key may have another one.
Visit(o, k) ==
  /\ pc[o] = "range" /\ k \in todo[o]
  /\ todo' = [todo EXCEPT ![o] = @ \ {k}]
  /\ \/ cache[k] = Nil /\ UNCHANGED <<pc, key, e>>
     \/ /\ cache[k] # Nil
        /\ key' = [key EXCEPT ![o] = k] /\ e' = [e EXCEPT ![o] = cache[k]]
        /\ Goto(o, "release")
  /\ UNCHANGED <<cache, entryVars, flight, candidate, held>>

BugForget(o) == owners' = IF owners[e[o]] = {o} THEN [owners EXCEPT ![e[o]] = {}] ELSE owners

Forget(o) == owners' = [owners EXCEPT ![e[o]] = @ \ {o}]

\* An entry without owners is marked, so that nobody can own it any more.
Drop(o) ==
  deleted' = [deleted EXCEPT ![e[o]] = owners[e[o]] \subseteq {o}]

BugKeepLock(o) == UNCHANGED mu

KeepLock(o) == mu' = [mu EXCEPT ![e[o]] = o]

\* releaseEntry; the mutex is kept until a dropped entry is out of the map.
ReleaseEntry(o) ==
  /\ pc[o] = "release" /\ mu[e[o]] = Nil
  /\ Forget(o) /\ Drop(o)
  /\ IF deleted'[e[o]]
     THEN Goto(o, "remove") /\ KeepLock(o)
     ELSE Goto(o, "range") /\ UNCHANGED mu
  /\ UNCHANGED <<cache, used, flight, key, e, candidate, todo, held>>

BugCompareAndDelete(o) == cache' = [cache EXCEPT ![key[o]] = Nil]

BugKeep(o) == UNCHANGED cache

CompareAndDelete(o) ==
  cache' = IF cache[key[o]] = e[o] THEN [cache EXCEPT ![key[o]] = Nil] ELSE cache

BugRemove(o) ==
  /\ pc[o] = "remove"
  /\ CompareAndDelete(o)
  /\ Goto(o, "range")
  /\ UNCHANGED <<owners, deleted, mu, used, flight, key, e, candidate, todo, held>>

\* The rest of releaseEntry, with the deferred unlock of the entry.
Remove(o) ==
  /\ pc[o] = "remove"
  /\ CompareAndDelete(o)
  /\ mu' = [mu EXCEPT ![e[o]] = Nil]
  /\ Goto(o, "range")
  /\ UNCHANGED <<owners, deleted, used, flight, key, e, candidate, todo, held>>

Closed(o) ==
  /\ pc[o] = "range" /\ todo[o] = {}
  /\ Goto(o, "closed")
  /\ UNCHANGED <<cache, entryVars, flight, key, e, candidate, todo, held>>

-----------------------------------------------------------------------------
(* Specification *)

Step(o) ==
  \/ Load(o) \/ AddOwner(o) \/ Enter(o) \/ Compute(o) \/ LoadOrStore(o) \/ Finish(o)
  \/ \E k \in Keys : Visit(o, k)
  \/ ReleaseEntry(o) \/ Remove(o) \/ Closed(o)

Next == \E o \in Owners : Step(o) \/ Release(o) \/ \E k \in Keys : Do(o, k)

\* A call that was started keeps running; no call has to be started.
Spec == Init /\ [][Next]_vars /\ \A o \in Owners : WF_vars(Step(o))

-----------------------------------------------------------------------------
(* Properties *)

\* The state is typed; where Do and Release use an entry they have one, so that
\* no type assertion on a missing result and no nil dereference is reached.
TypeOK ==
  /\ cache \in [Keys -> Entries \cup {Nil}]
  /\ owners \in [Entries -> SUBSET Owners] /\ deleted \in [Entries -> BOOLEAN]
  /\ mu \in [Entries -> Owners \cup {Nil}] /\ used \subseteq Entries
  /\ flight \in [Keys -> Owners \cup {Nil}]
  /\ pc \in [Owners -> {"idle", "closed"} \cup Busy \cup Releasing]
  /\ key \in [Owners -> Keys] /\ e \in [Owners -> Entries \cup {Nil}]
  /\ candidate \in [Owners -> Entries \cup {Nil}] /\ todo \in [Owners -> SUBSET Keys]
  /\ held \in [Owners -> [Keys -> Entries \cup {Nil}]]
  /\ \A o \in Owners : pc[o] \in AtEntry => e[o] \in Entries

\* A value that Do returned stays owned by the caller, and stays the value of
\* its key in the cache, until the caller is closed, whatever other owners
\* compile and release: so all owners share one value of a key at any time.
HeldIsCached ==
  \A o \in Owners, k \in Keys :
    held[o][k] # Nil => cache[k] = held[o][k] /\ o \in owners[held[o][k]] /\ ~deleted[held[o][k]]

\* Nothing is compiled twice: while an owner compiles the value of a key, nobody
\* else compiles it and nobody holds one.
CompiledOnce ==
  \A o, q \in Owners :
    pc[o] = "compute"
      => /\ held[q][key[o]] = Nil
         /\ pc[q] = "compute" /\ key[q] = key[o] => q = o

\* A closed WAF leaves nothing behind: it owns no entry of the cache.
ClosedOwnsNothing ==
  \A o \in Owners, k \in Keys :
    pc[o] = "closed" /\ cache[k] # Nil => o \notin owners[cache[k]]

\* An entry nobody can own any more is in the cache only while its last owner
\* is about to remove it, so that the cache is empty once all WAFs are closed.
NoDeadEntry ==
  \A k \in Keys :
    cache[k] # Nil /\ owners[cache[k]] = {}
      => \E o \in Owners : pc[o] = "remove" /\ e[o] = cache[k] /\ key[o] = k

\* A candidate is stored on the first attempt: the entry the leader found in the
\* double check, if any, left the map before the leader could see it deleted, and
\* only the leader of the flight stores.  So the loop around LoadOrStore never
\* turns, and no compiled value is thrown away.
StoreIsFree == \A o \in Owners : pc[o] = "store" => cache[key[o]] = Nil

\* Do returns, also when the entry it waited for is released under it again and
\* again, and Release returns.
CallsReturn == \A o \in Owners : pc[o] \in Busy \cup Releasing ~> pc[o] \in {"idle", "closed"}

Shared == INSTANCE SharedValues WITH value <- held, NoValue <- Nil, Values <- Entries

\* The cache implements sharing of values between owners.
SharesValues == Shared!Spec

=============================================================================
