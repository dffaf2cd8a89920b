# Verification of Coraza

TLA+ models of the Coraza web application firewall, TLC runs that check them on small
instances, and TLAPS proofs of their main properties for all instances. Paths below are
relative to `src/`.

## 1. The system and its parts

A **WAF** (`waf.go`, `internal/corazawaf/waf.go`) holds rules and defaults. For every
request a connector takes a **transaction** from a pool, feeds it the request and the
response, and asks after each step whether the request is interrupted.

| part | state | operations | interacts with |
|---|---|---|---|
| Transaction API (`internal/corazawaf/transaction.go`) | last phase, interruption, modes, bodies, variables | `ProcessRequestHeaders`, `ProcessRequestBody`, `ProcessResponseHeaders`, `ProcessResponseBody`, `ProcessLogging`, `Write*Body`, `Read*BodyFrom`, `Close` | rules, buffers, pool, audit log |
| Rule evaluation (`rulegroup.go`, `rule.go`) | allow type, skip counter, skipAfter marker, removed rules | `RuleGroup.Eval`, `Rule.doEvaluate`, `MatchRule` | transaction, actions, operators |
| Actions (`internal/actions`) | fields of the transaction | disruptive, flow and `ctl` actions | rule evaluation |
| Body buffers (`body_buffer.go`) | memory, temporary file, length, readers | `Write`, `Reader`, `Read`, `Reset` | transaction, file system |
| WAF creation (`waf.go`) | configuration | `NewWAF`, `Validate`, `newTransaction`, `Close` | parser, memoizer, pool |
| Memoizer (`internal/memoize`) | entries with owners | `Do`, `Release`, `Reset` | all WAFs, concurrently |
| HTTP connector (`http`) | status, flushed flags | `WrapHandler`, `processRequest`, `WriteHeader`, `Write`, `ReadFrom`, `Flush` | transaction, net/http |
| Audit log (`internal/auditlog`) | parts, writers | `AuditLog`, `Write` of the writers | transaction, files |
| Seclang (`internal/seclang`) | parser state, open chain | directives, rule parser | rule group |
| Collections and variables | maps of values | `Add`, `Set`, `Remove`, `Find*` | transaction |
| Operators, transformations, body processors | none or caches | string functions | rule evaluation |

### What makes it hard

* The connector may call in any order and repeat calls; body writes call the body phases
  themselves when a limit is reached under `ProcessPartial`.
* Flow control is kept in fields of the transaction (`AllowType`, `Skip`, `SkipAfter`,
  `ruleRemoveByID`) that are set by one rule and consumed, or not, by others.
* `ctl` changes modes and limits in the middle of a transaction, after buffers were created
  and bytes were stored.
* Transactions are pooled: what is not reset leaks into another request.
* Limits are compared in 64-bit arithmetic that wraps, with `>=`, `==` and `>` in different
  places.
* Several WAFs share memoized values concurrently, and several transactions share rules.

### What has to be right

Phases are evaluated once and in order; an interruption stops rule evaluation and is
reported to the connector; a detection-only transaction is never interrupted; a body buffer
never exceeds its limit and a body above its limit is noticed; skip and allow end where they
should; each interruption can be traced to a matched rule; the audit log is written when it
must be; every call of the memoizer returns.

`PROJECT.json` lists the hazards at their source lines with the properties that cover them.

## 2. Modules

| module | models |
|---|---|
| `RuleGroup` | `Eval`, `doEvaluate`, `MatchRule` and the actions of rules: one step per rule and per link of a chain |
| `Transaction` | the API calls, bodies and limits, logging, closing, reuse from the pool; extends `RuleGroup`; the properties |
| `PhaseProtocol` | abstract specification: what a connector may rely on about phases and verdicts |
| `MCRules`, `MCBody` | instances for TLC: rules in the foreground, bodies in the foreground |
| `TransactionProofs` | the type invariant, and what a body call can do |
| `SafetyProofs` | the safety properties and the refinement |
| `Memoize` | `internal/memoize/sync.go`: `Do`, `addOwner`, `Release`, `releaseEntry`, one step per operation on the map, an entry or the flight |
| `MCMemoize` | its instances for TLC: three WAFs and one key, two WAFs and two keys |
| `SharedValues` | abstract specification: owners share one value of a key and keep it until they are closed |
| `MemoizeProofs` | the inductive invariant of the memoizer and its theorems |
| `BodyBuffer`, `MCBodyBuffer` | `body_buffer.go`: memory, temporary file, readers, failing file operations, reuse; its instance for TLC |

**State.** `waf` is the WAF of the transaction, chosen from `Configs` and constant. The
fields of `corazawaf.Transaction` keep their names (`lastPhase`, `interruption`,
`detectionOnlyInterruption`, `allowType`, `skip`, `skipAfter`, `ruleRemoveByID`, `audit`,
`matchedRules`). `bodyAccess`, `bodyLimit`, `length`, `dataError` and `bodyError` are
functions of the side (request or response), since the code of the two sides has the same
shape; where it differs (statuses 413 and 500, overflow check and failing parser on an empty
body on the request side only) the definitions say so. `pc`, `ri` and `link` are the program
counter of the call under way: `idle`, in the loop of `Eval`, at a chain link, at the
actions of a matched rule, returning, or closed. `evaluated`, `engines`, `told`, `failure`,
`parserFailed` and `offered` are history variables that no action reads. `offered` counts the
bytes that the connector handed to an accessible body, stored or not, capped one above the
limit of the WAF: the properties of limits compare what was offered with the limit, not what
the code stored.

**Actions.** Each call is one action up to the evaluation of rules, which is one action per
rule or link, followed by `Return`. Calls of one transaction are sequential, as the API
demands; the actions of a call interleave with nothing. Whether an operator matches is a
free choice, so that one rule stands for every rule with the same actions. A rule is a
record of what steers evaluation; `links` holds the rule and those chained to it, with the
`ctl` action each runs when it matches, even if the rest of the chain does not match.

**Data left out.** Body contents (only lengths), variables, messages, log wording, operator
arguments, transformations.

**Memoizer.** An owner is a WAF: it calls `Do` any number of times, one call at a time, and
`Release` once (`closeOnce` in `WAF.Close`). `pc` says where it is in the code, `e`,
`candidate` and `todo` are its locals, `mu` is the mutex of an entry, which `releaseEntry`
keeps from the deletion to the removal, and `flight` is the call in flight of the external
`singleflight.Group`. `held` is history: the entries whose values were returned. A failing
`fn` ends the flight for everybody in it. The loop around `LoadOrStore` (lines 84-90) has no
action, since `StoreIsFree` shows that `LoadOrStore` never finds an entry: only the leader of
the flight stores, and an entry that it saw deleted had left the map before its mutex was
released.

**Body buffer.** A byte is the pair of its transaction and its position, so that a byte
lost, repeated or taken from another transaction shows. Creating the file, dumping the memory
into it, writing to it, closing and removing it may each fail, a write after a part of the
data. Reads have at least one byte of room, as the readers of package `io` do. Callers go on
after an error, as a handler may; what is stored is then only bounded.

## 3. Runs

| run | shows |
|---|---|
| `rules` | with 559 configurations of steering rules (allow in three forms, skip, skipAfter with a marker, chains, auditlog, ctl of the engine, of the audit engine and of rule removal, deny in every phase): phases, verdicts, flow, refinement, and the audit decision by status, by the status a detection-only transaction would have had, and by rule |
| `body` | with limits of two bytes, writes of 0 to 3 bytes, readers with right, wrong and maximal lengths, ctl of access and limits: the buffer stays within its limit, a body above the limit is rejected or flagged, partial processing, refinement |
| `memoize` | three WAFs and one key, or two WAFs and two keys, where `Release` ranges over a map that changes: a returned value stays cached and owned, one compilation at a time, nothing left behind, every call returns, refinement |
| `body_buffer` | two readers and two transactions over four buffers: order and completeness of what is read, no byte of another transaction, memory bound, temporary files |
| `doc_*` | eight comments of the code that the code does not keep (section 6) |

**Bounds.** `MaxInt` = 7 stands for the largest 64-bit integer; it is far enough above the
limit 2 that sums below it, at it and wrapped above it all occur. Sizes 0 to 3 are below, at
and above the limit from every fill level. Rule sets have up to five rules: two that steer
and up to three that would interrupt, so every omission of a rule shows. Rules are taken in
several phases because what leaks from one phase shows in the next. Call sequences are not
bounded: the state space is finite because phases and buffers are.

An entry of the memoizer is dropped only by an owner that is closing, so one entry per owner
and key is all that can be allocated. Three owners give a holder, a releaser and a compiler of
the replacement. `MCMemoize` allocates the four entries in order, since one free address is as
good as another, and restricts only which calls of `Do` are started. The buffers of `body_buffer` hold 3 or 4 bytes, 1 to 3 of them in memory, and
5 bytes are offered in pieces of 1 or 2.

**Fairness.** In `Memoize`, `WF_vars(Step(o))`: the goroutine of a call that was started keeps
running; nothing forces a WAF to make a call. `Transaction` states no fairness and no liveness
property: its calls interleave with nothing, and the loop of `Eval` advances with every step.

**Deadlock.** Checked in `rules` and `body`: some call is always possible. Not checked in the
other runs, where everything ends once all WAFs are closed or the bound on transactions is
reached; `CallsReturn` shows that nobody is stuck in a call of the memoizer.

## 4. Proofs

For all `Configs`, `Marks`, `Sizes`, `Lengths`, `Statuses` and `MaxInt` that satisfy
`ConfigsAssumption` (rules passed `RuleGroup.Add` and `WAF.Validate`; markers have no action)
and `SizesAssumption` (sizes are representable, limits below the largest integer):

| theorem | statement |
|---|---|
| `TypeCorrect` | `Spec => [](TypeOK /\ Located)` |
| `PhasesEvaluatedOnce` | `Spec => []PhasesOnce` |
| `InterruptionStopsRules` | `Spec => []NoRuleAfterInterruption` |
| `ConnectorIsTold` | `Spec => []InterruptionReported` |
| `DetectionOnlyIsSafe` | `Spec => []DetectionNeverInterrupts` |
| `InterruptionsAreExplained` | `Spec => []InterruptionExplained` |
| `FlowEndsWithPhase` | `Spec => []FlowContained` |
| `AllowStays` | `Spec => AllowIsFinal` |
| `BuffersAreBounded` | `Spec => []BufferBounded` |
| `ProtocolImplemented` | `Spec => FollowsProtocol`, that is `Protocol!Spec` |

For all `Owners`, `Keys` and `Entries`, with `MemoizeAssumption` (`Nil` is neither an owner nor
an entry), in `MemoizeProofs`:

| theorem | statement |
|---|---|
| `MemoizeTyped` | `Spec => []TypeOK` |
| `ReturnedStaysOwned` | `Spec => []HeldIsCached` |
| `OneCompilation` | `Spec => []CompiledOnce` |
| `StoreSucceeds` | `Spec => []StoreIsFree` |
| `CloseReleasesAll` | `Spec => []ClosedOwnsNothing` |
| `DeadEntriesLeave` | `Spec => []NoDeadEntry` |
| `SharingImplemented` | `Spec => SharesValues`, that is `Shared!Spec` |

The argument for the transaction. `Located` (a rule under evaluation exists) makes `TypeOK` inductive. The six
ways into a body share the lemma that a body call is a `BodyCall`: it answers, rejects or
enters the body phase, and adds at most what the buffer has room for; after that no proof
looks at limits again. `PhasesOnce` needs `PhaseOrder`: an evaluated phase is not after the
last phase, and a header phase that is last was evaluated. `InterruptionReported` needs
`Told`: during a phase before logging nothing has been told, since a phase starts only in a
transaction without interruption. `DetectionNeverInterrupts` needs `EngineHistory`: modes
held are remembered, and a WAF whose engine is Off never evaluates the rule that would switch
it on; `NewWAF`'s change of the limit action then excludes rejection. `AllowIsFinal` and
`FlowContained` need `Flow`: `allow:phase` and `skip` are gone when the loop ends, and no
rule is under evaluation while a plain allow, or in the request phases `allow:request`, is in
force; so the only step that changes such an allow there is the end of the request body phase. The refinement uses the type invariant and
`NoRuleAfterInterruption`.

The argument for the memoizer. `HeldIsCached` alone is not inductive: an owner between loading
an entry and registering on it must find either the entry of the key or a deleted one
(`Attached`). `DeadIsLocked` says that a deleted entry is in the map only under the lock of the
owner that removes it; so a leader that gets the lock and is refused finds its key free
(`Free`), and stays alone there by `Flights`. `Fresh` and `Allocated` keep candidates apart
from everything else, `Distinct` keeps keys apart, and `Visited` follows `Release` through the
map. `IInv` is the conjunction of these.

Only model-checked: all of `BodyBuffer`; `RejectInterrupts`, `LimitFlagged`, `PartialStartsBodyPhase` and
`AuditNotLost` (proofs planned), and `CallsReturn` of `Memoize` (liveness is beyond the prover).

## 5. Plan

Done: rule evaluation, transaction, phase protocol, memoizer, their proofs; body buffer. Next,
in this order:

1. `BodyBuffer`: proofs; refinement of a plain byte sequence; composition with `Transaction`.
2. `Memoize`: the variant of `nosync.go`, without singleflight.
3. `Interceptor`: handler, `rwInterceptor` and `WrapHandler` composed with `PhaseProtocol`;
   nothing of a blocked response reaches the client.
4. Pool and WAF lifecycle: double `Close`, concurrent transactions, lazy audit writer.
5. `AuditLog`: parts and their modification, writers.
6. `Seclang`: chains across directives, includes, rule updates and removals.
7. Rule targets and exceptions, collections, transformation cache, multiphase evaluation.
8. Proofs of the body limit properties and of the modules above.

## 6. Where comments and code disagree

Each is a run that violates the property named, with the quoted line in `PROJECT.json`:
`skipAfter` outlives its phase (`SkipAfterContained`); a plain `allow` also skips the rules of
the logging phase (`LoggingNotAllowedAway`); a body limit interrupts a transaction that `ctl`
made detection-only (`DetectionOnlyNeverDisrupts`); a limit raised by `ctl` makes the buffer
refuse a write (`BufferNeverRefuses`); a limit of zero set by `ctl` is at its limit without
interruption (`LimitMeansInterruption`); a limit set below the buffered length makes a write
slice with a negative bound, in the run with the limit -1, which `ctl` accepts
(`WriteReturns`); a body of exactly the limit is rejected and flagged like one above it
(`ExactFitIsWithinLimit`); the `RESBODY_ERROR` variables survive reuse of a
pooled transaction (`ResBodyErrorIsOwn`).

## 7. Not modelled

Operators, transformations and body processors are functions on strings: the models let them
succeed or fail. Debug logging is output only. Multiphase evaluation is off in the default
build. `PROJECT.json` gives the status of each component.
