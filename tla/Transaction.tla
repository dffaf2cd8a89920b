----------------------------- MODULE Transaction -----------------------------
(***************************************************************************)
(* One transaction of the WAF as a connector drives it: the Process* calls, *)
(* the body writes and reads of the request and of the response, logging,   *)
(* closing and reuse from the transaction pool.  The calls of a connector   *)
(* are sequential but come in any order and any number; a call that starts  *)
(* an evaluation goes on with the steps of RuleGroup and ends in Return.    *)
(* The two sides of the body have the same shape in the code and share      *)
(* their definitions here.                                                  *)
(***************************************************************************)
EXTENDS RuleGroup

CONSTANTS
  Sizes,      \* numbers of bytes a caller offers
  Lengths,    \* values a reader's Len() reports
  Statuses,   \* response status codes
  MaxInt      \* stands for math.MaxInt64

VARIABLES
  length,           \* bytes in the body buffer of each side
  dataError,        \* INBOUND_DATA_ERROR, OUTBOUND_DATA_ERROR
  bodyError,        \* REQBODY_ERROR, RESBODY_ERROR
  responseStatus,
  auditLog,         \* "no", "skipped" or "written"
  told,             \* history: last interruption a call returned
  failure,          \* history: "none", or what a call failed with
  parserFailed,     \* history: sides whose body processor failed
  offered           \* history: bytes offered to an accessible body, per side

bodyVars == <<length, dataError, bodyError, parserFailed>>
callVars == <<responseStatus, auditLog, told, failure, offered>>
vars == <<ruleVars, bodyVars, callVars>>

Unknown == -1     \* the length of a reader that has no Len()

ASSUME SizesAssumption ==
  /\ MaxInt \in Nat \ {0}
  /\ Sizes \subseteq 0..MaxInt
  /\ Lengths \subseteq 0..MaxInt
  /\ Statuses \subseteq Nat \ {0}
  /\ \A c \in Configs, s \in Sides : c.limit[s] < MaxInt

-----------------------------------------------------------------------------
(* Creation *)

BugNewWAF(c) == c

\* coraza.NewWAF: DetectionOnly enforces ProcessPartial on both sides.
NewWAF(c) ==
  IF c.ruleEngine = "DetectionOnly"
  THEN [c EXCEPT !.limitAction = [s \in Sides |-> "ProcessPartial"]]
  ELSE c

WAFs == {NewWAF(c) : c \in Configs}

Init ==
  /\ waf \in WAFs
  /\ ruleEngine = waf.ruleEngine /\ auditEngine = waf.auditEngine
  /\ bodyAccess = waf.access /\ bodyLimit = waf.limit
  /\ lastPhase = 0 /\ allowType = "unset" /\ skip = 0 /\ skipAfter = NoMark
  /\ interruption = NoInterruption /\ detectionOnlyInterruption = NoInterruption
  /\ ruleRemoveByID = {} /\ audit = FALSE /\ matchedRules = {}
  /\ pc = "idle" /\ ri = 1 /\ link = 1
  /\ evaluated = [p \in Phases |-> 0] /\ engines = {waf.ruleEngine}
  /\ length = [s \in Sides |-> 0]
  /\ dataError = [s \in Sides |-> FALSE]
  /\ bodyError = [s \in Sides |-> FALSE]
  /\ responseStatus = 0 /\ auditLog = "no"
  /\ told = NoInterruption /\ failure = "none" /\ parserFailed = {}
  /\ offered = [s \in Sides |-> 0]

-----------------------------------------------------------------------------
(* Calls *)

Off == ruleEngine = "Off"

BugReturning(it) == UNCHANGED told

\* A call returns the interruption it, or nil.
Returning(it) == told' = IF it = NoInterruption THEN told ELSE it

\* A call that returns at once.
Answer(it) == Returning(it) /\ UNCHANGED <<verdictVars, loopVars>>

HeaderPhase(side) == IF side = "request" THEN RequestHeaders ELSE ResponseHeaders
BodyPhase(side) == HeaderPhase(side) + 1

BugAdmits(phase) == ~Off

\* Guards of the two header phases.
AdmitsHeaders(phase) == ~Off /\ lastPhase < phase /\ ~Interrupted

ProcessRequestHeaders ==
  /\ pc = "idle"
  /\ \/ /\ AdmitsHeaders(RequestHeaders)
        /\ Enter(RequestHeaders)
        /\ UNCHANGED <<verdictVars, told>>
     \/ /\ ~AdmitsHeaders(RequestHeaders)
        /\ Answer(IF Off THEN NoInterruption ELSE interruption)
  /\ UNCHANGED <<waf, modeVars, flowVars, bodyVars, responseStatus, auditLog, failure, offered>>

ProcessResponseHeaders(code) ==
  /\ pc = "idle"
  /\ \/ /\ AdmitsHeaders(ResponseHeaders)
        /\ Enter(ResponseHeaders)
        /\ responseStatus' = code
        /\ UNCHANGED <<verdictVars, told>>
     \/ /\ ~AdmitsHeaders(ResponseHeaders)
        /\ Answer(IF Off THEN NoInterruption ELSE interruption)
        /\ UNCHANGED responseStatus
  /\ UNCHANGED <<waf, modeVars, flowVars, bodyVars, auditLog, failure, offered>>

BugAdmitsBody(side) == ~Off /\ ~Interrupted /\ lastPhase >= HeaderPhase(side)

\* Guards of the two body phases: the header phase is the last one evaluated.
AdmitsBody(side) == ~Off /\ ~Interrupted /\ lastPhase = HeaderPhase(side)

\* ProcessRequestBody and ProcessResponseBody, called with len bytes buffered.
\* A body processor may fail on an accessible body (an empty request body is
\* not parsed); the body phase is evaluated all the same.  Only an unknown
\* processor of the response also makes the call return an error.
ProcessBody(side, len) ==
  \/ /\ AdmitsBody(side)
     /\ Enter(BodyPhase(side))
     /\ \/ UNCHANGED <<bodyError, parserFailed, failure>>
        \/ /\ bodyAccess[side] /\ (side = "request" => len > 0)
           /\ bodyError' = [bodyError EXCEPT ![side] = TRUE]
           /\ parserFailed' = parserFailed \cup {side}
           /\ failure' \in IF side = "request" THEN {failure} ELSE {failure, "error"}
     /\ UNCHANGED <<verdictVars, told>>
  \/ /\ ~AdmitsBody(side)
     /\ Answer(IF Off THEN NoInterruption ELSE interruption)
     /\ UNCHANGED <<bodyError, parserFailed, failure>>

ProcessRequestBody ==
  /\ pc = "idle"
  /\ ProcessBody("request", length["request"])
  /\ UNCHANGED <<waf, modeVars, flowVars, length, dataError, responseStatus, auditLog, offered>>

ProcessResponseBody ==
  /\ pc = "idle"
  /\ ProcessBody("response", length["response"])
  /\ UNCHANGED <<waf, modeVars, flowVars, length, dataError, responseStatus, auditLog, offered>>

-----------------------------------------------------------------------------
(* Body writes and reads *)

\* 64-bit signed addition wraps.
Wrap(x) == IF x > MaxInt THEN x - 2 * (MaxInt + 1) ELSE x

LimitStatus == [request |-> 413, response |-> 500]
Rejects(side) == waf.limitAction[side] = "Reject"

BugRoom(side) == bodyLimit[side] - length[side]

\* The buffers are created with the limit of the WAF.
Room(side) == waf.limit[side] - length[side]
Flag(side) == dataError' = [dataError EXCEPT ![side] = TRUE]
Grow(side, n) == length' = [length EXCEPT ![side] = @ + n]

BugRejectBody(side) ==
  /\ interruption' = [action |-> "deny", status |-> LimitStatus[side], rule |-> NoID]
  /\ UNCHANGED <<detectionOnlyInterruption, audit, matchedRules, loopVars, told>>

\* setAndReturnBodyLimitInterruption: whatever the engine mode.
RejectBody(side) ==
  LET it == [action |-> "deny", status |-> LimitStatus[side], rule |-> NoID]
  IN /\ interruption' = it
     /\ Returning(it)
     /\ UNCHANGED <<detectionOnlyInterruption, audit, matchedRules, loopVars>>

BodyOpen(side) == ~Off /\ bodyAccess[side]

\* The size of the body so far, stored or not.  Counting stops one above the
\* limit of the WAF: more is as much too large.
Offer(side, n) ==
  LET total == offered[side] + n
      cap == waf.limit[side] + 1
  IN offered' = [offered EXCEPT ![side] = IF ~BodyOpen(side) THEN @
                                          ELSE IF total < cap THEN total ELSE cap]

AtLimit(side) == length[side] = bodyLimit[side]

\* The overflow check exists on the request side only.
Overflows(side, n) == side = "request" /\ length[side] >= MaxInt - n

BugExceeds(side, n) == Wrap(length[side] + n) > bodyLimit[side]

\* The limit check made before a write.
Exceeds(side, n) == Wrap(length[side] + n) >= bodyLimit[side]

Fail(how) == failure' = how /\ UNCHANGED <<verdictVars, loopVars, told>>

\* The early returns of the four functions.
BodyIgnored(side) ==
  \/ ~BodyOpen(side) /\ Answer(NoInterruption)
  \/ BodyOpen(side) /\ AtLimit(side) /\ Answer(IF Rejects(side) THEN interruption ELSE NoInterruption)

BugFinish(side, process, len) == Answer(interruption) /\ UNCHANGED <<bodyError, parserFailed, failure>>

\* What follows a successful store: the body phase, if the limit was reached
\* under ProcessPartial, and the interruption as the result.
Finish(side, process, len) ==
  \/ process /\ ProcessBody(side, len)
  \/ ~process /\ Answer(interruption) /\ UNCHANGED <<bodyError, parserFailed, failure>>

\* BodyBuffer.Write of b[:n]: a negative n panics, a write that does not fit is
\* refused, a write to the temporary file may fail before or after the length
\* was advanced (only the request buffer spills to a file).
Store(side, n, process) ==
  \/ /\ n < 0
     /\ Fail("panic")
     /\ UNCHANGED <<length, bodyError, parserFailed>>
  \/ /\ n > 0 /\ n > Room(side)
     /\ Fail("full")
     /\ UNCHANGED <<length, bodyError, parserFailed>>
  \/ /\ side = "request" /\ n > 0 /\ n <= Room(side)
     /\ Fail("error")
     /\ Grow(side, n) \/ UNCHANGED length
     /\ UNCHANGED <<bodyError, parserFailed>>
  \/ /\ n >= 0 /\ (n = 0 \/ n <= Room(side))
     /\ Grow(side, n)
     /\ Finish(side, process, length[side] + n)

\* WriteRequestBody and WriteResponseBody
WriteBody(side, n) ==
  /\ pc = "idle"
  /\ Offer(side, n)
  /\ \/ /\ BodyIgnored(side)
        /\ UNCHANGED <<bodyVars, failure>>
     \/ /\ BodyOpen(side) /\ ~AtLimit(side) /\ Overflows(side, n)
        /\ Fail("error")
        /\ UNCHANGED bodyVars
     \/ /\ BodyOpen(side) /\ ~AtLimit(side) /\ ~Overflows(side, n)
        /\ \/ /\ Exceeds(side, n) /\ Rejects(side)
              /\ Flag(side) /\ RejectBody(side)
              /\ UNCHANGED <<length, bodyError, parserFailed, failure>>
           \/ /\ Exceeds(side, n) /\ ~Rejects(side)
              /\ Flag(side)
              /\ Store(side, bodyLimit[side] - length[side], TRUE)
           \/ /\ ~Exceeds(side, n)
              /\ Store(side, n, FALSE)
              /\ UNCHANGED dataError
  /\ UNCHANGED <<waf, modeVars, flowVars, responseStatus, auditLog>>

WriteRequestBody(n) == WriteBody("request", n)
WriteResponseBody(n) == WriteBody("response", n)

BugLimitMet(side, len) == len > bodyLimit[side]

\* The check made after the copy.
LimitMet(side, len) == len = bodyLimit[side]

\* io.CopyN of n bytes from a reader that has avail.  The copy is made in
\* chunks: when it fails, in the reader or in the buffer, any part of it may
\* have been stored.
Copy(side, n, avail, process, flagged) ==
  LET copied == IF n < 0 THEN 0 ELSE IF n < avail THEN n ELSE avail
      len == length[side] + copied
  IN \/ /\ \E w \in 0..copied : w <= Room(side) /\ Grow(side, w)
        /\ Fail(IF copied > Room(side) THEN "full" ELSE "error")
        /\ dataError' = [dataError EXCEPT ![side] = @ \/ flagged]
        /\ UNCHANGED <<bodyError, parserFailed>>
     \/ /\ copied = 0 \/ copied <= Room(side)
        /\ Grow(side, copied)
        /\ dataError' = [dataError EXCEPT ![side] = @ \/ flagged \/ LimitMet(side, len)]
        /\ \/ /\ LimitMet(side, len) /\ Rejects(side)
              /\ RejectBody(side)
              /\ UNCHANGED <<bodyError, parserFailed, failure>>
           \/ /\ ~(LimitMet(side, len) /\ Rejects(side))
              /\ Finish(side, process \/ LimitMet(side, len), len)

\* ReadRequestBodyFrom and ReadResponseBodyFrom; len is Unknown when the reader
\* has no Len().
ReadBody(side, len, avail) ==
  /\ pc = "idle"
  /\ Offer(side, IF len = Unknown \/ avail < len THEN avail ELSE len)
  /\ \/ /\ BodyIgnored(side)
        /\ UNCHANGED <<bodyVars, failure>>
     \/ /\ BodyOpen(side) /\ ~AtLimit(side) /\ len = Unknown
        /\ Copy(side, bodyLimit[side] - length[side], avail, FALSE, FALSE)
     \/ /\ BodyOpen(side) /\ ~AtLimit(side) /\ len # Unknown /\ Overflows(side, len)
        /\ Fail("error")
        /\ UNCHANGED bodyVars
     \/ /\ BodyOpen(side) /\ ~AtLimit(side) /\ len # Unknown /\ ~Overflows(side, len)
        /\ \/ /\ Exceeds(side, len) /\ Rejects(side)
              /\ Flag(side) /\ RejectBody(side)
              /\ UNCHANGED <<length, bodyError, parserFailed, failure>>
           \/ /\ Exceeds(side, len) /\ ~Rejects(side)
              /\ Copy(side, bodyLimit[side] - length[side], avail, TRUE, TRUE)
           \/ /\ ~Exceeds(side, len)
              /\ Copy(side, len, avail, FALSE, FALSE)
  /\ UNCHANGED <<waf, modeVars, flowVars, responseStatus, auditLog>>

ReadRequestBodyFrom(len, avail) == ReadBody("request", len, avail)
ReadResponseBodyFrom(len, avail) == ReadBody("response", len, avail)

-----------------------------------------------------------------------------
(* Logging, closing, reuse *)

BugAuditStatus == IF Interrupted THEN interruption.status ELSE responseStatus

\* The status the audit decision looks at.
AuditStatus ==
  IF Interrupted THEN interruption.status
  ELSE IF detectionOnlyInterruption # NoInterruption THEN detectionOnlyInterruption.status
  ELSE responseStatus

BugAudited ==
  auditEngine = "On" \/ (auditEngine = "RelevantOnly" /\ AuditStatus \in waf.relevantStatus)

\* An empty relevantStatus stands for a missing SecAuditLogRelevantStatus.
Audited ==
  \/ auditEngine = "On"
  \/ /\ auditEngine = "RelevantOnly"
     /\ \/ AuditStatus \in waf.relevantStatus
        \/ audit /\ waf.relevantStatus = {}

DecideAudit == auditLog' = IF Audited \/ auditLog = "written" THEN "written" ELSE "skipped"

ProcessLogging ==
  /\ pc = "idle"
  /\ \/ ~Off /\ Enter(Logging) /\ UNCHANGED auditLog
     \/ Off /\ DecideAudit /\ UNCHANGED loopVars
  /\ UNCHANGED <<waf, modeVars, flowVars, verdictVars, bodyVars, responseStatus, told, failure,
                 offered>>

\* Eval returned: the calls of phases 1 to 4 return the interruption, the
\* logging call goes on with the audit decision.
Return ==
  /\ pc = "return"
  /\ pc' = "idle"
  /\ \/ lastPhase = Logging /\ DecideAudit /\ UNCHANGED told
     \/ lastPhase # Logging /\ Returning(interruption) /\ UNCHANGED auditLog
  /\ UNCHANGED <<waf, modeVars, flowVars, verdictVars, lastPhase, ri, link, evaluated,
                 bodyVars, responseStatus, failure, offered>>

\* Close: the variables reached by TransactionVariables.All are reset, which
\* the RESBODY_ERROR variables are not; both buffers are emptied.
Close ==
  /\ pc = "idle"
  /\ pc' = "closed"
  /\ length' = [s \in Sides |-> 0]
  /\ dataError' = [s \in Sides |-> FALSE]
  /\ bodyError' = [bodyError EXCEPT !["request"] = FALSE]
  /\ responseStatus' = 0
  /\ offered' = [s \in Sides |-> 0]
  /\ UNCHANGED <<waf, modeVars, flowVars, verdictVars, lastPhase, ri, link, evaluated,
                 parserFailed, auditLog, told, failure>>

\* The part of newTransaction that clears the rule flow.
ResetFlow == allowType' = "unset" /\ skip' = 0 /\ skipAfter' = NoMark

BugResetVerdict ==
  /\ UNCHANGED <<interruption, detectionOnlyInterruption>>
  /\ audit' = FALSE /\ matchedRules' = {}

\* The part of newTransaction that clears the verdict of the last transaction.
ResetVerdict ==
  /\ interruption' = NoInterruption /\ detectionOnlyInterruption' = NoInterruption
  /\ audit' = FALSE /\ matchedRules' = {}

\* WAF.newTransaction on a pooled transaction, or on a fresh one.
NewTransaction ==
  /\ pc = "closed"
  /\ pc' = "idle"
  /\ ruleEngine' = waf.ruleEngine /\ auditEngine' = waf.auditEngine
  /\ bodyAccess' = waf.access /\ bodyLimit' = waf.limit
  /\ ruleRemoveByID' = {} /\ engines' = {waf.ruleEngine}
  /\ ResetFlow /\ ResetVerdict
  /\ lastPhase' = 0 /\ ri' = 1 /\ link' = 1
  /\ evaluated' = [p \in Phases |-> 0]
  /\ bodyError' \in {bodyError, [s \in Sides |-> FALSE]}
  /\ auditLog' = "no" /\ told' = NoInterruption /\ failure' = "none" /\ parserFailed' = {}
  /\ UNCHANGED <<waf, length, dataError, responseStatus, offered>>

-----------------------------------------------------------------------------
(* Specification *)

EvalRule == EvalStep /\ UNCHANGED <<bodyVars, callVars>>

Call ==
  \/ ProcessRequestHeaders \/ ProcessRequestBody \/ ProcessResponseBody
  \/ \E code \in Statuses : ProcessResponseHeaders(code)
  \/ \E n \in Sizes : WriteRequestBody(n) \/ WriteResponseBody(n)
  \/ \E len \in Lengths \cup {Unknown}, avail \in Sizes :
       ReadRequestBodyFrom(len, avail) \/ ReadResponseBodyFrom(len, avail)
  \/ ProcessLogging \/ Close \/ NewTransaction

Next == EvalRule \/ Return \/ Call

Spec == Init /\ [][Next]_vars

-----------------------------------------------------------------------------
(* Properties *)

\* The values every field of the transaction ranges over.
TypeOK ==
  /\ waf \in WAFs
  /\ ruleEngine \in EngineModes /\ auditEngine \in AuditModes
  /\ bodyAccess \in [Sides -> BOOLEAN] /\ bodyLimit \in [Sides -> Int]
  /\ lastPhase \in 0..5 /\ allowType \in AllowTypes
  /\ skip \in Nat /\ skipAfter \in Marks \cup {NoMark} /\ ruleRemoveByID \subseteq Nat
  /\ interruption \in Interruption /\ detectionOnlyInterruption \in Interruption
  /\ audit \in BOOLEAN /\ matchedRules \subseteq [id : Nat, real : BOOLEAN]
  /\ pc \in {"idle", "eval", "link", "act", "return", "closed"}
  /\ ri \in Nat \ {0} /\ link \in Nat \ {0}
  /\ evaluated \in [Phases -> 0..2] /\ engines \subseteq EngineModes
  /\ length \in [Sides -> Nat] /\ dataError \in [Sides -> BOOLEAN]
  /\ bodyError \in [Sides -> BOOLEAN] /\ responseStatus \in Nat
  /\ auditLog \in {"no", "skipped", "written"}
  /\ told \in Interruption /\ parserFailed \subseteq Sides
  /\ failure \in {"none", "error", "full", "panic"}
  /\ offered \in [Sides -> Nat]

\* However the connector orders and repeats its calls, and although the body
\* writes call the body phases themselves, Eval runs at most once for each of
\* the phases 1 to 4, and a body phase only after its header phase.
PhasesOnce ==
  /\ \A p \in Phases \ {Logging} : evaluated[p] <= 1
  /\ evaluated[RequestBody] <= evaluated[RequestHeaders]
  /\ evaluated[ResponseBody] <= evaluated[ResponseHeaders]

\* No rule is under evaluation in an interrupted transaction, except in the
\* logging phase, whichever call or rule raised the interruption.
NoRuleAfterInterruption ==
  pc \in {"link", "act"} /\ Interrupted => lastPhase = Logging

\* When a call is over, the connector has been told of the interruption that
\* the transaction holds: the last interruption a call returned is the current
\* one, also when a body limit replaced the interruption of a rule.  Logging
\* returns nothing and is left out.
InterruptionReported ==
  pc = "idle" /\ lastPhase # Logging => told = interruption

\* A transaction whose engine was never On is not interrupted: neither by a
\* rule (Interrupt) nor by a body limit (NewWAF enforces ProcessPartial).
DetectionNeverInterrupts == "On" \notin engines => interruption = NoInterruption

\* An interruption by a rule is never anonymous: the rule is among the matched
\* rules, flagged as a real disruption.
InterruptionExplained ==
  Interrupted /\ interruption.rule # NoID
    => [id |-> interruption.rule, real |-> TRUE] \in matchedRules

\* Skip and allow:phase do not outlive the phase that set them.
FlowContained == pc = "idle" => skip = 0 /\ allowType # "phase"

\* Neither buffer ever holds more than the limit the WAF was configured with,
\* whatever limit ctl set and however a write or a copy failed.
BufferBounded == \A s \in Sides : length[s] <= waf.limit[s]

\* No rule of the WAF changes the body limit of the side.
LimitFixed(side) ==
  \A i \in DOMAIN waf.rules : \A k \in DOMAIN waf.rules[i].links :
    LET c == waf.rules[i].links[k].ctl
    IN ~(c.target = "bodyLimit" /\ c.side = side)

\* Under Reject, if no rule changes the limit and no call failed, a body larger
\* than the limit has interrupted the transaction, however it is cut into writes
\* and readers with or without a length.
RejectInterrupts ==
  \A s \in Sides :
    /\ Rejects(s) /\ failure = "none" /\ LimitFixed(s)
    /\ offered[s] > waf.limit[s]
    => Interrupted

\* A body larger than the limit is visible to the rules as INBOUND_DATA_ERROR or
\* OUTBOUND_DATA_ERROR under both limit actions, if no rule changes the limit and
\* no call failed.
LimitFlagged ==
  \A s \in Sides :
    /\ failure = "none" /\ LimitFixed(s)
    /\ offered[s] > waf.limit[s]
    => dataError[s]

\* A rule that asks for the audit log (auditlog) has matched.
AuditAsked ==
  \E i \in DOMAIN waf.rules : \E m \in matchedRules :
    waf.rules[i].audit /\ waf.rules[i].id = m.id

\* Once ProcessLogging has run, the audit log was written when the audit engine
\* is On, also if the rule engine is Off; when it is RelevantOnly and a rule
\* interrupted with a relevant status, or would have if the engine were not
\* DetectionOnly; and when it is RelevantOnly, no status is configured as relevant
\* and some rule that matched, in whatever phase, asked for it.
AuditNotLost ==
  /\ pc = "idle" /\ auditLog # "no"
  /\ \/ auditEngine = "On"
     \/ /\ auditEngine = "RelevantOnly"
        /\ \/ /\ Interrupted /\ interruption.rule # NoID
              /\ interruption.status \in waf.relevantStatus
           \/ /\ ~Interrupted /\ detectionOnlyInterruption # NoInterruption
              /\ detectionOnlyInterruption.status \in waf.relevantStatus
           \/ AuditAsked /\ waf.relevantStatus = {}
  => auditLog = "written"

\* An allow keeps what it promises about the phases 1 to 4, although its fields
\* are reset in two places of Eval: after a plain allow no rule is evaluated and
\* the allow stays in force; after allow:request no rule of the request phases is
\* evaluated, and the allow is used up only when the body phase ends.
AllowIsFinal ==
  [][pc # "closed" /\ lastPhase' # Logging
       => /\ allowType = "all" => allowType' = "all" /\ pc' \notin {"link", "act"}
          /\ allowType = "request" /\ lastPhase' <= RequestBody
               => /\ pc' \notin {"link", "act"}
                  /\ allowType' = "request" \/ (lastPhase' = RequestBody /\ pc' = "return")]_vars

\* Under ProcessPartial, the successful write or read that fills the body up to
\* the limit in the header phase starts the body phase itself.
PartialStartsBodyPhase ==
  [][\A s \in Sides :
       /\ length[s] < bodyLimit[s] /\ length'[s] = bodyLimit[s]
       /\ ~Rejects(s) /\ failure' = "none"
       /\ lastPhase = HeaderPhase(s) /\ ~Interrupted
       => pc' = "eval" /\ lastPhase' = BodyPhase(s)]_vars

RuleVerdicts == {it \in Interruption : it.rule # NoID}
LimitVerdicts == {[action |-> "deny", status |-> LimitStatus[s], rule |-> NoID] : s \in Sides}

Protocol == INSTANCE PhaseProtocol
  WITH Verdicts <- RuleVerdicts, LimitVerdicts <- LimitVerdicts, NoVerdict <- NoInterruption

\* The transaction implements the phase protocol, whatever the connector calls.
FollowsProtocol == Protocol!Spec

-----------------------------------------------------------------------------
(* What comments of the code say, and the code does not do *)

\* skipAfter "works only within the current processing phase": no phase starts
\* with rules to skip.  Eval resets Skip but not SkipAfter.
SkipAfterContained == pc = "eval" /\ ri = 1 => skipAfter = NoMark

\* allow skips "all other phases apart from the logging phase": no rule of the
\* logging phase is left out because of an allow.
LoggingNotAllowedAway == Reached /\ lastPhase = Logging => ~AllowStops

\* RuleEngineDetectionOnly "won't generate disruptive actions": nothing
\* interrupts the transaction while it is in that mode.
DetectionOnlyNeverDisrupts ==
  [][ruleEngine = "DetectionOnly" /\ interruption' # NoInterruption
       => interruption' = interruption]_vars

\* The transaction checks its limit before it writes to a buffer, so that the
\* buffer refusing a write "should never happen".
BufferNeverRefuses == failure # "full"

\* The limit "will never be zero", so that a body at the limit under Reject has
\* "an interruption ... for sure".
LimitMeansInterruption ==
  \A s \in Sides :
    pc = "idle" /\ failure = "none" /\ BodyOpen(s) /\ AtLimit(s) /\ Rejects(s) => Interrupted

\* WriteRequestBody "returns an interruption if the writing bytes go beyond the
\* request body limit": it returns.
WriteReturns == failure # "panic"

\* WriteRequestBody "returns an interruption if the body is bigger than the limit",
\* and INBOUND_DATA_ERROR says that it "is above the setting": a body of exactly the
\* limit, offered in writes or by readers without Len(), is neither rejected nor
\* flagged.  The code compares with >= before a write and == after a copy.
ExactFitIsWithinLimit ==
  \A s \in Sides :
    /\ Rejects(s) /\ failure = "none" /\ LimitFixed(s)
    /\ offered[s] = waf.limit[s]
    => ~dataError[s] /\ interruption \notin LimitVerdicts

\* ResBodyError "is set to 1 when the response body processor fails": not left
\* over from an earlier use of a pooled transaction.
ResBodyErrorIsOwn == bodyError["response"] => "response" \in parserFailed

=============================================================================
