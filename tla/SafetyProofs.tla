---------------------------- MODULE SafetyProofs -----------------------------
(***************************************************************************)
(* The safety properties of Transaction, proved for all configurations from *)
(* the type invariant and one inductive invariant per property.             *)
(***************************************************************************)
EXTENDS TransactionProofs

Typed == TypeOK /\ Located

\* A step of the specification, seen from a typed state.
LEMMA NextCases ==
  ASSUME Typed, [Next]_vars
  PROVE  Step \/ UNCHANGED vars
BY NextIsStep, TypeOKBuffers DEF Typed

-----------------------------------------------------------------------------
(* Phases *)

\* PhasesOnce, and what the last phase says about the phases evaluated so far.
PhaseOrder ==
  /\ PhasesOnce
  /\ \A p \in 1..4 : evaluated[p] = 1 => lastPhase >= p
  /\ lastPhase = RequestHeaders => evaluated[RequestHeaders] = 1
  /\ lastPhase = ResponseHeaders => evaluated[ResponseHeaders] = 1

\* Eval is entered for the phase p: only where the calls admit it.
Entered(p) ==
  /\ Enter(p)
  /\ \/ p \in {1, 3} /\ lastPhase < p
     \/ p \in {2, 4} /\ lastPhase = p - 1
     \/ p = 5

\* Every step enters a phase the way the calls admit it, starts afresh, or
\* changes neither the last phase nor the number of evaluations.
LEMMA PhaseSteps ==
  ASSUME Typed, [Next]_vars
  PROVE  \/ \E p \in Phases : Entered(p)
         \/ lastPhase' = 0 /\ evaluated' = [p \in Phases |-> 0]
         \/ UNCHANGED <<lastPhase, evaluated>>
<1> USE DEF loopVars, Phases
<1>1. CASE EvalRule
  BY <1>1 DEF EvalRule, EvalStep, PassOver, SkipToMarker, SkipRule, EvaluateRule, MatchLink,
              FailLink, RunActions, BreakOnAllow, EndOfLoop
<1>2. CASE Return
  BY <1>2 DEF Return
<1>3. CASE ProcessRequestHeaders
  BY <1>3 DEF ProcessRequestHeaders, AdmitsHeaders, Answer, Entered, RequestHeaders
<1>4. CASE \E code \in Statuses : ProcessResponseHeaders(code)
  BY <1>4 DEF ProcessResponseHeaders, AdmitsHeaders, Answer, Entered, ResponseHeaders
<1>5. ASSUME NEW side \in Sides, BodyCall(side)
      PROVE  (\E p \in Phases : Entered(p)) \/ UNCHANGED <<lastPhase, evaluated>>
  <2>1. BodyPhase(side) \in {2, 4} /\ HeaderPhase(side) = BodyPhase(side) - 1
    BY DEF BodyPhase, HeaderPhase, RequestHeaders, ResponseHeaders
  <2> QED
    BY <1>5, <2>1 DEF BodyCall, Outcome, Answer, RejectBody, AdmitsBody, Entered
<1>6. CASE ProcessLogging
  BY <1>6 DEF ProcessLogging, Entered, Logging
<1>7. CASE Close
  BY <1>7 DEF Close
<1>8. CASE NewTransaction
  BY <1>8 DEF NewTransaction
<1>9. CASE UNCHANGED vars
  BY <1>9 DEF vars, ruleVars
<1> QED
  BY <1>1, <1>2, <1>3, <1>4, <1>5, <1>6, <1>7, <1>8, <1>9, NextCases, SMTT(40) DEF Step

LEMMA PhaseOrderStep ==
  ASSUME Typed, PhaseOrder, [Next]_vars
  PROVE  PhaseOrder'
<1> USE DEF PhaseOrder, PhasesOnce, Phases, RequestHeaders, RequestBody, ResponseHeaders,
            ResponseBody, Logging
<1>1. evaluated \in [1..5 -> 0..2] /\ lastPhase \in 0..5
  BY DEF Typed, TypeOK
<1>2. ASSUME NEW p \in Phases, Entered(p)
      PROVE  PhaseOrder'
  <2>1. p \in 1..5 /\ lastPhase' = p
    BY <1>2 DEF Entered, Enter
  <2>2. \A q \in 1..5 \ {p} : evaluated'[q] = evaluated[q]
    BY <1>1, <1>2 DEF Entered, Enter
  <2>3. p # 5 => evaluated[p] = 0
    BY <1>1, <1>2 DEF Entered
  <2>4. p # 5 => evaluated'[p] = 1
    BY <1>1, <1>2, <2>3 DEF Entered, Enter
  <2> QED
    BY <1>1, <1>2, <2>1, <2>2, <2>3, <2>4 DEF Entered
<1>3. CASE lastPhase' = 0 /\ evaluated' = [p \in Phases |-> 0]
  BY <1>3
<1>4. CASE UNCHANGED <<lastPhase, evaluated>>
  BY <1>4
<1> QED
  BY <1>2, <1>3, <1>4, PhaseSteps

\* Eval runs at most once for each phase before logging, and a body phase only
\* after its header phase, for every sequence of calls of the connector and
\* although the body writes start the body phases themselves.
THEOREM PhasesEvaluatedOnce == Spec => []PhasesOnce
<1>1. Init => PhaseOrder
  BY DEF Init, PhaseOrder, PhasesOnce, Phases, RequestHeaders, RequestBody, ResponseHeaders,
         ResponseBody, Logging
<1>2. Typed /\ PhaseOrder /\ [Next]_vars => PhaseOrder'
  BY PhaseOrderStep
<1>3. PhaseOrder => PhasesOnce
  BY SMTT(40) DEF PhaseOrder
<1> QED
  BY <1>1, <1>2, <1>3, TypeCorrect, PTL DEF Spec, Typed

-----------------------------------------------------------------------------
(* Verdicts *)

\* The part of a step of Eval that every action shares.
LEMMA EvalFrame ==
  ASSUME Typed, EvalRule
  PROVE  /\ pc \in {"eval", "link", "act"} /\ pc' \in {"eval", "link", "act", "return"}
         /\ UNCHANGED <<waf, lastPhase, evaluated, told, length, dataError, failure>>
         /\ ~RunActions => UNCHANGED verdictVars
BY DEF EvalRule, EvalStep, PassOver, SkipToMarker, SkipRule, EvaluateRule, MatchLink, FailLink,
       RunActions, BreakOnAllow, EndOfLoop, AtRule, Reached, NextRule, SkipOver, bodyVars, callVars

\* No rule is evaluated in an interrupted transaction, except when logging:
\* the check of Eval before each rule is enough, whatever happens in between.
LEMMA NoRuleStep ==
  ASSUME Typed, NoRuleAfterInterruption, [Next]_vars
  PROVE  NoRuleAfterInterruption'
<1> USE DEF NoRuleAfterInterruption, Interrupted
<1>1. CASE EvalRule
  BY <1>1 DEF EvalRule, EvalStep, PassOver, SkipToMarker, SkipRule, EvaluateRule, MatchLink,
              FailLink, RunActions, BreakOnAllow, EndOfLoop, Reached, Stopped, NextRule, SkipOver,
              verdictVars
<1>2. CASE Return \/ Close \/ NewTransaction
  BY <1>2 DEF Return, Close, NewTransaction
<1>3. CASE ProcessRequestHeaders \/ \E code \in Statuses : ProcessResponseHeaders(code)
  BY <1>3 DEF ProcessRequestHeaders, ProcessResponseHeaders, Enter, Answer, loopVars
<1>4. CASE \E side \in Sides : BodyCall(side)
  BY <1>4 DEF BodyCall, Outcome, Answer, RejectBody, Enter, loopVars
<1>5. CASE ProcessLogging
  BY <1>5 DEF ProcessLogging, Enter, loopVars
<1>6. CASE UNCHANGED vars
  BY <1>6 DEF vars, ruleVars, verdictVars, loopVars
<1> QED
  BY <1>1, <1>2, <1>3, <1>4, <1>5, <1>6, NextCases, SMTT(40) DEF Step

\* An interruption, by a rule or by a body limit, ends the evaluation of rules
\* until the logging phase.
THEOREM InterruptionStopsRules == Spec => []NoRuleAfterInterruption
<1>1. Init => NoRuleAfterInterruption
  BY DEF Init, NoRuleAfterInterruption
<1>2. Typed /\ NoRuleAfterInterruption /\ [Next]_vars => NoRuleAfterInterruption'
  BY NoRuleStep
<1> QED
  BY <1>1, <1>2, TypeCorrect, PTL DEF Spec, Typed

\* InterruptionReported, also for a closed transaction, and what was told while
\* a phase is under way: a phase before logging starts without interruption.
Told ==
  /\ pc \in {"idle", "closed"} /\ lastPhase # Logging => told = interruption
  /\ pc \in {"eval", "link", "act", "return"} /\ lastPhase # Logging => told = NoInterruption

LEMMA ToldStep ==
  ASSUME Typed, Told, [Next]_vars
  PROVE  Told'
<1> USE DEF Told
<1>1. pc \in {"idle", "eval", "link", "act", "return", "closed"}
  BY DEF Typed, TypeOK
<1>2. CASE EvalRule
  BY <1>2, EvalFrame
<1>3. CASE Return
  BY <1>3 DEF Return, Returning, verdictVars
<1>4. CASE ProcessRequestHeaders \/ \E code \in Statuses : ProcessResponseHeaders(code)
  BY <1>4 DEF ProcessRequestHeaders, ProcessResponseHeaders, AdmitsHeaders, Enter, Answer, Returning,
              Interrupted, Logging, RequestHeaders, ResponseHeaders, loopVars, verdictVars
<1>5. ASSUME NEW side \in Sides, BodyCall(side)
      PROVE  Told'
  <2>1. CASE \E it \in {NoInterruption, interruption} : Answer(it)
    BY <1>5, <2>1 DEF BodyCall, Answer, Returning, loopVars, verdictVars
  <2>2. CASE RejectBody(side)
    <3>1. [action |-> "deny", status |-> LimitStatus[side], rule |-> NoID] # NoInterruption
      BY DEF NoInterruption
    <3>2. told' = interruption'
      BY <2>2, <3>1 DEF RejectBody, Returning
    <3> QED
      BY <1>5, <2>2, <3>2 DEF BodyCall, RejectBody, loopVars
  <2>3. CASE AdmitsBody(side) /\ Enter(BodyPhase(side)) /\ UNCHANGED <<verdictVars, told>>
    <3>1. lastPhase # Logging
      BY <2>3 DEF AdmitsBody, HeaderPhase, Logging, RequestHeaders, ResponseHeaders
    <3> QED
      BY <1>5, <2>3, <3>1 DEF BodyCall, AdmitsBody, Interrupted, Enter
  <2> QED
    BY <1>5, <2>1, <2>2, <2>3 DEF BodyCall, Outcome
<1>6. CASE ProcessLogging
  BY <1>6 DEF ProcessLogging, Enter, loopVars, verdictVars
<1>7. CASE Close
  BY <1>7 DEF Close, verdictVars
<1>8. CASE NewTransaction
  BY <1>8 DEF NewTransaction, ResetVerdict
<1>9. CASE UNCHANGED vars
  BY <1>9 DEF vars, ruleVars, verdictVars, loopVars, callVars
<1> QED
  BY <1>2, <1>3, <1>4, <1>5, <1>6, <1>7, <1>8, <1>9, NextCases DEF Step

\* A connector that looks at the results of its calls always knows the current
\* interruption: none is raised behind its back before logging.
THEOREM ConnectorIsTold == Spec => []InterruptionReported
<1>1. Init => Told
  BY DEF Init, Told
<1>2. Typed /\ Told /\ [Next]_vars => Told'
  BY ToldStep
<1>3. Told => InterruptionReported
  BY DEF Told, InterruptionReported
<1> QED
  BY <1>1, <1>2, <1>3, TypeCorrect, PTL DEF Spec, Typed

\* The engine modes held since the transaction was created; a WAF whose engine
\* is Off never evaluates a rule, so that no ctl can switch it on.
EngineHistory ==
  /\ ruleEngine \in engines /\ waf.ruleEngine \in engines
  /\ waf.ruleEngine = "Off" => ruleEngine = "Off" /\ pc \in {"idle", "closed"}
  /\ DetectionNeverInterrupts

\* Where a body limit may reject, the engine was On at some time: a WAF that is
\* DetectionOnly has ProcessPartial on both sides.
LEMMA RejectNeedsOn ==
  ASSUME Typed, EngineHistory, NEW side \in Sides, Rejects(side), BodyOpen(side)
  PROVE  "On" \in engines
<1>1. waf.limitAction[side] # "ProcessPartial"
  BY DEF Rejects
<1>2. waf.ruleEngine # "DetectionOnly"
  BY <1>1, WAFsTyped DEF Typed, TypeOK
<1>3. waf.ruleEngine # "Off"
  BY DEF EngineHistory, BodyOpen, Off
<1>4. waf.ruleEngine \in EngineModes
  BY WAFsTyped DEF Typed, TypeOK, WAF
<1> QED
  BY <1>2, <1>3, <1>4 DEF EngineHistory, EngineModes

LEMMA EngineHistoryStep ==
  ASSUME Typed, EngineHistory, [Next]_vars
  PROVE  EngineHistory'
<1> USE DEF EngineHistory, DetectionNeverInterrupts, modeVars
<1>1. CASE EvalRule
  <2>1. waf.ruleEngine # "Off" /\ waf' = waf
    BY <1>1, EvalFrame, SMTT(40)
  <2>2. CASE MatchLink
    <3>1. UNCHANGED verdictVars
      BY <2>2 DEF MatchLink
    <3>2. \E c \in {Current.links[link].ctl} : ApplyCtl(c)
      BY <2>2 DEF MatchLink
    <3> QED
      BY <2>1, <3>1, <3>2, SMTT(40) DEF ApplyCtl, SetRuleEngine, verdictVars
  <2>3. CASE RunActions
    BY <2>1, <2>3, SMTT(40) DEF RunActions, Disrupt, Interrupt
  <2>4. CASE ~MatchLink /\ ~RunActions
    BY <1>1, <2>1, <2>4 DEF EvalRule, EvalStep, PassOver, SkipToMarker, SkipRule, EvaluateRule,
       FailLink, BreakOnAllow, EndOfLoop, verdictVars
  <2> QED
    BY <2>2, <2>3, <2>4
<1>2. CASE Return \/ Close
  BY <1>2, SMTT(40) DEF Return, Close, verdictVars
<1>3. CASE ProcessRequestHeaders \/ \E code \in Statuses : ProcessResponseHeaders(code)
  BY <1>3 DEF ProcessRequestHeaders, ProcessResponseHeaders, AdmitsHeaders, Off, Enter, Answer,
              loopVars, verdictVars
<1>4. ASSUME NEW side \in Sides, BodyCall(side)
      PROVE  EngineHistory'
  <2>1. CASE \E it \in {NoInterruption, interruption} : Answer(it)
    BY <1>4, <2>1 DEF BodyCall, Answer, loopVars, verdictVars
  <2>2. CASE Rejects(side) /\ BodyOpen(side) /\ RejectBody(side)
    BY <1>4, <2>2, RejectNeedsOn DEF BodyCall, RejectBody, loopVars
  <2>3. CASE AdmitsBody(side) /\ Enter(BodyPhase(side)) /\ UNCHANGED <<verdictVars, told>>
    BY <1>4, <2>3 DEF BodyCall, AdmitsBody, Off, verdictVars
  <2> QED
    BY <1>4, <2>1, <2>2, <2>3 DEF BodyCall, Outcome
<1>5. CASE ProcessLogging
  BY <1>5 DEF ProcessLogging, Off, Enter, loopVars, verdictVars
<1>6. CASE NewTransaction
  BY <1>6 DEF NewTransaction, ResetVerdict
<1>7. CASE UNCHANGED vars
  BY <1>7 DEF vars, ruleVars, verdictVars, loopVars
<1> QED
  BY <1>1, <1>2, <1>3, <1>4, <1>5, <1>6, <1>7, NextCases, SMTT(40) DEF Step

\* A transaction whose engine was never On is never interrupted, by no rule and
\* by no body limit.
THEOREM DetectionOnlyIsSafe == Spec => []DetectionNeverInterrupts
<1>1. Init => EngineHistory
  BY DEF Init, EngineHistory, DetectionNeverInterrupts
<1>2. Typed /\ EngineHistory /\ [Next]_vars => EngineHistory'
  BY EngineHistoryStep
<1>3. EngineHistory => DetectionNeverInterrupts
  BY DEF EngineHistory
<1> QED
  BY <1>1, <1>2, <1>3, TypeCorrect, PTL DEF Spec, Typed

LEMMA ExplainedStep ==
  ASSUME Typed, InterruptionExplained, [Next]_vars
  PROVE  InterruptionExplained'
<1> USE DEF InterruptionExplained, Interrupted
<1>1. CASE EvalRule
  <2>1. CASE RunActions
    <3>1. Current.id = NoID => Current.disruptive = "pass"
      BY <2>1, CurrentTyped DEF RunActions, Typed, Located
    <3>2. matchedRules \subseteq matchedRules'
      BY <2>1 DEF RunActions, MatchRule
    <3>3. CASE interruption' = interruption
      BY <3>2, <3>3
    <3>4. CASE interruption' # interruption
      <4>1. /\ ruleEngine = "On" /\ Current.disruptive # "pass"
            /\ interruption'.rule = Current.id
        BY <2>1, <3>4 DEF RunActions, Disrupt, Interrupt
      <4>2. [id |-> Current.id, real |-> TRUE] \in matchedRules'
        BY <2>1, <3>1, <4>1, Zenon DEF RunActions, MatchRule
      <4> QED
        BY <4>1, <4>2
    <3> QED
      BY <3>3, <3>4
  <2>2. CASE ~RunActions
    BY <1>1, <2>2, EvalFrame DEF verdictVars
  <2> QED
    BY <2>1, <2>2
<1>2. ASSUME UNCHANGED <<interruption, matchedRules>>
      PROVE  InterruptionExplained'
  BY <1>2
<1>3. CASE \/ Return \/ Close \/ ProcessLogging
           \/ ProcessRequestHeaders \/ \E code \in Statuses : ProcessResponseHeaders(code)
  <2>1. UNCHANGED <<interruption, matchedRules>>
    BY <1>3 DEF Return, Close, ProcessLogging, ProcessRequestHeaders, ProcessResponseHeaders, Answer,
                verdictVars
  <2> QED
    BY <1>2, <2>1
<1>4. ASSUME NEW side \in Sides, BodyCall(side)
      PROVE  InterruptionExplained'
  <2>1. CASE RejectBody(side)
    <3>1. interruption'.rule = NoID
      BY <2>1 DEF RejectBody
    <3> QED
      BY <3>1
  <2>2. CASE ~RejectBody(side)
    <3>1. UNCHANGED <<interruption, matchedRules>>
      BY <1>4, <2>2 DEF BodyCall, Outcome, Answer, verdictVars
    <3> QED
      BY <1>2, <3>1
  <2> QED
    BY <2>1, <2>2
<1>5. CASE NewTransaction
  BY <1>5 DEF NewTransaction, ResetVerdict
<1>6. CASE UNCHANGED vars
  BY <1>6 DEF vars, ruleVars, verdictVars
<1> QED
  BY <1>1, <1>2, <1>3, <1>4, <1>5, <1>6, NextCases DEF Step

\* The rule that interrupted a transaction is always among its matched rules,
\* recorded as a real disruption: the audit log can name it.
THEOREM InterruptionsAreExplained == Spec => []InterruptionExplained
<1>1. Init => InterruptionExplained
  BY DEF Init, InterruptionExplained, Interrupted
<1>2. Typed /\ InterruptionExplained /\ [Next]_vars => InterruptionExplained'
  BY ExplainedStep
<1> QED
  BY <1>1, <1>2, TypeCorrect, PTL DEF Spec, Typed

-----------------------------------------------------------------------------
(* Flow of rules *)

\* FlowContained from the end of the loop on, and: under a plain allow, or under
\* allow:request in the request phases, no rule is being evaluated.
Flow ==
  /\ pc \in {"return", "idle", "closed"} => skip = 0 /\ allowType # "phase"
  /\ allowType = "all" => pc \notin {"link", "act"}
  /\ allowType = "request" /\ lastPhase \in {RequestHeaders, RequestBody}
       => pc \notin {"link", "act"}

LEMMA FlowStep ==
  ASSUME Typed, Flow, [Next]_vars
  PROVE  Flow'
<1> USE DEF Flow, flowVars
<1>1. CASE PassOver \/ SkipToMarker \/ SkipRule
  BY <1>1 DEF PassOver, SkipToMarker, SkipRule, SkipOver, NextRule
<1>2. CASE EvaluateRule
  BY <1>2, SMTT(40) DEF EvaluateRule, AllowStops
<1>3. CASE MatchLink \/ FailLink \/ RunActions
  BY <1>3 DEF MatchLink, FailLink, RunActions, NextRule
<1>4. CASE BreakOnAllow \/ EndOfLoop
  BY <1>4 DEF BreakOnAllow, EndOfLoop, AfterLoop
<1>5. CASE Return \/ Close
  BY <1>5 DEF Return, Close
<1>6. CASE ProcessRequestHeaders \/ \E code \in Statuses : ProcessResponseHeaders(code)
  BY <1>6, SMTT(40) DEF ProcessRequestHeaders, ProcessResponseHeaders, Enter, Answer, loopVars
<1>7. CASE \E side \in Sides : BodyCall(side)
  BY <1>7 DEF BodyCall, Outcome, Answer, RejectBody, Enter, loopVars
<1>8. CASE ProcessLogging
  BY <1>8 DEF ProcessLogging, Enter, loopVars
<1>9. CASE NewTransaction
  BY <1>9 DEF NewTransaction, ResetFlow
<1>10. CASE UNCHANGED vars
  BY <1>10 DEF vars, ruleVars, loopVars
<1> QED
  BY <1>1, <1>2, <1>3, <1>4, <1>5, <1>6, <1>7, <1>8, <1>9, <1>10, NextCases, SMTT(40)
  DEF Step, EvalRule, EvalStep

LEMMA FlowInvariant == Spec => []Flow
<1>1. Init => Flow
  BY DEF Init, Flow
<1>2. Typed /\ Flow /\ [Next]_vars => Flow'
  BY FlowStep
<1> QED
  BY <1>1, <1>2, TypeCorrect, PTL DEF Spec, Typed

\* No skip counter and no allow:phase is left over when a call returns.
THEOREM FlowEndsWithPhase == Spec => []FlowContained
<1>1. Flow => FlowContained
  BY DEF Flow, FlowContained
<1> QED
  BY <1>1, FlowInvariant, PTL

\* What a step does to an allow type that is in force: nothing, except where Eval
\* leaves its loop in the request body phase.
LEMMA AllowStep ==
  ASSUME Typed, Flow, [Next]_vars, pc # "closed", allowType \in {"all", "request"}
  PROVE  \/ allowType' = allowType
         \/ /\ allowType = "request" /\ lastPhase' = RequestBody /\ pc' = "return"
         \/ /\ allowType = "request" /\ pc = "act" /\ lastPhase' = lastPhase
<1> USE DEF Flow, flowVars
<1>1. CASE EvalRule
  <2>1. CASE PassOver \/ SkipToMarker \/ SkipRule
    BY <2>1, SMTT(40) DEF PassOver, SkipToMarker, SkipRule
  <2>2. CASE EvaluateRule \/ MatchLink
    BY <2>2, SMTT(40) DEF EvaluateRule, MatchLink
  <2>3. CASE FailLink \/ RunActions
    BY <2>3, SMTT(40) DEF FailLink, RunActions
  <2>4. CASE BreakOnAllow \/ EndOfLoop
    BY <2>4, SMTT(40) DEF BreakOnAllow, EndOfLoop, AfterLoop
  <2> QED
    BY <1>1, <2>1, <2>2, <2>3, <2>4 DEF EvalRule, EvalStep
<1>2. CASE ~EvalRule
  BY <1>2, NextCases, ZenonT(40) DEF Step, Return, ProcessRequestHeaders, ProcessResponseHeaders, BodyCall,
                         ProcessLogging, Close, NewTransaction, vars, ruleVars
<1> QED
  BY <1>1, <1>2

\* In the phases 1 to 4, a plain allow stays in force and keeps every rule from
\* being evaluated until the transaction is used again, and allow:request does so
\* until the request body phase ends.
THEOREM AllowStays == Spec => AllowIsFinal
<1> DEFINE A == pc # "closed" /\ lastPhase' # Logging
                => /\ allowType = "all" => allowType' = "all" /\ pc' \notin {"link", "act"}
                   /\ allowType = "request" /\ lastPhase' <= RequestBody
                        => /\ pc' \notin {"link", "act"}
                           /\ \/ allowType' = "request"
                              \/ lastPhase' = RequestBody /\ pc' = "return"
<1>1. Typed /\ Typed' /\ Flow /\ Flow' /\ [Next]_vars => [A]_vars
  <2> SUFFICES ASSUME Typed, Typed', Flow, Flow', [Next]_vars, pc # "closed", lastPhase' # Logging
               PROVE  A
    OBVIOUS
  <2>1. lastPhase' \in 0..5 /\ (pc' \in {"link", "act"} => lastPhase' \in 1..5)
    BY DEF Typed, TypeOK, Located, Phases
  <2>2. pc = "act" => lastPhase \in 1..5
    BY DEF Typed, Located, Phases
  <2>3. ASSUME allowType = "all"
        PROVE  allowType' = "all" /\ pc' \notin {"link", "act"}
    <3>1. allowType' = "all"
      BY <2>3, AllowStep
    <3> QED
      BY <3>1 DEF Flow
  <2>4. ASSUME allowType = "request", lastPhase' <= RequestBody
        PROVE  /\ pc' \notin {"link", "act"}
               /\ allowType' = "request" \/ (lastPhase' = RequestBody /\ pc' = "return")
    <3>1. ASSUME pc = "act", lastPhase' = lastPhase
          PROVE  FALSE
      BY <2>2, <2>4, <3>1 DEF Flow, RequestHeaders, RequestBody
    <3>2. allowType' = "request" \/ (lastPhase' = RequestBody /\ pc' = "return")
      BY <2>4, <3>1, AllowStep
    <3>3. allowType' = "request" => pc' \notin {"link", "act"}
      BY <2>1, <2>4 DEF Flow, RequestHeaders, RequestBody
    <3> QED
      BY <3>2, <3>3
  <2> QED
    BY <2>3, <2>4
<1> QED
  BY <1>1, TypeCorrect, FlowInvariant, PTL DEF Spec, Typed, AllowIsFinal

-----------------------------------------------------------------------------
(* Buffers *)

LEMMA BufferBoundedStep ==
  ASSUME Typed, BufferBounded, [Next]_vars
  PROVE  BufferBounded'
<1> USE DEF BufferBounded
<1>1. /\ length \in [Sides -> Nat]
      /\ \A s \in Sides : waf.limit[s] \in Nat \ {0}
  BY WAFsTyped DEF Typed, TypeOK
<1>2. ASSUME UNCHANGED <<waf, length>>
      PROVE  BufferBounded'
  BY <1>2
<1>3. CASE EvalRule
  BY <1>2, <1>3, EvalFrame
<1>4. ASSUME NEW side \in Sides, BodyCall(side)
      PROVE  BufferBounded'
  <2>1. PICK w \in Nat : (w = 0 \/ w <= waf.limit[side] - length[side]) /\ Grow(side, w)
    BY <1>4 DEF BodyCall, Buffered, Room
  <2>2. waf' = waf
    BY <1>4 DEF BodyCall
  <2>3. length'[side] <= waf.limit[side]
    BY <1>1, <2>1 DEF Grow
  <2>4. \A s \in Sides \ {side} : length'[s] = length[s]
    BY <1>1, <2>1 DEF Grow
  <2> QED
    BY <2>2, <2>3, <2>4, SMTT(40)
<1>5. CASE Close
  BY <1>1, <1>5 DEF Close
<1>6. CASE \/ Return \/ ProcessRequestHeaders \/ \E code \in Statuses : ProcessResponseHeaders(code)
           \/ ProcessLogging \/ NewTransaction \/ UNCHANGED vars
  <2>1. UNCHANGED <<waf, length>>
    <3>1. CASE Return \/ ProcessLogging
      BY <3>1 DEF Return, ProcessLogging, bodyVars, ruleVars
    <3>2. CASE ProcessRequestHeaders \/ \E code \in Statuses : ProcessResponseHeaders(code)
      BY <3>2 DEF ProcessRequestHeaders, ProcessResponseHeaders, bodyVars, ruleVars
    <3>3. CASE NewTransaction \/ UNCHANGED vars
      BY <3>3 DEF NewTransaction, vars, bodyVars, ruleVars
    <3> QED
      BY <1>6, <3>1, <3>2, <3>3
  <2> QED
    BY <1>2, <2>1, SMTT(40)
<1> QED
  BY <1>3, <1>4, <1>5, <1>6, NextCases, ZenonT(40) DEF Step

\* A body buffer never holds more than the limit of the WAF, whatever ctl did to
\* the limit of the transaction and wherever a write or a copy failed.
THEOREM BuffersAreBounded == Spec => []BufferBounded
<1>1. Init => BufferBounded
  <2> SUFFICES ASSUME Init PROVE BufferBounded
    OBVIOUS
  <2>1. \A s \in Sides : waf.limit[s] \in Nat
    BY WAFsTyped, SMTT(40) DEF Init
  <2> QED
    BY <2>1 DEF Init, BufferBounded
<1>2. Typed /\ BufferBounded /\ [Next]_vars => BufferBounded'
  BY BufferBoundedStep
<1> QED
  BY <1>1, <1>2, TypeCorrect, PTL DEF Spec, Typed

-----------------------------------------------------------------------------
(* Refinement of PhaseProtocol *)

\* A rule that interrupts does so with a verdict of its own, and only where the
\* protocol lets rules speak.
LEMMA RunActionsRefines ==
  ASSUME Typed, NoRuleAfterInterruption, RunActions
  PROVE  Protocol!Disrupt \/ UNCHANGED <<lastPhase, interruption>>
<1>1. lastPhase' = lastPhase
  BY DEF RunActions
<1>2. CASE interruption' # interruption
  <2>1. lastPhase \in Phases /\ ri \in DOMAIN waf.rules
    BY DEF RunActions, Typed, Located
  <2>2. lastPhase = Logging \/ interruption = NoInterruption
    BY SMTT(40) DEF RunActions, NoRuleAfterInterruption, Interrupted
  <2>3. Current.disruptive # "pass" /\ interruption'.rule = Current.id
    BY <1>2 DEF RunActions, Disrupt, Interrupt
  <2>4. Current.id # NoID
    BY <2>1, <2>3, CurrentTyped DEF Typed
  <2>5. interruption' \in Interruption
    <3>1. Current \in Rule
      BY <2>1, CurrentTyped DEF Typed
    <3>2. PICK r \in Rule : Disrupt(r)
      BY <3>1 DEF RunActions
    <3> QED
      BY <3>2, DisruptTyped DEF Typed
  <2>6. interruption' \in RuleVerdicts
    BY <2>3, <2>4, <2>5, SMTT(40) DEF RuleVerdicts
  <2> QED
    BY <1>1, <2>1, <2>2, <2>6 DEF Protocol!Disrupt, Phases, Logging
<1> QED
  BY <1>1, <1>2

LEMMA ProtocolStep ==
  ASSUME Typed, NoRuleAfterInterruption, [Next]_vars
  PROVE  [Protocol!Next]_(Protocol!protocolVars)
<1> USE DEF Protocol!Next, Protocol!protocolVars
<1>1. CASE EvalRule
  <2>1. CASE RunActions
    BY <2>1, RunActionsRefines
  <2>2. CASE ~RunActions
    BY <1>1, <2>2, EvalFrame, SMTT(40) DEF verdictVars
  <2> QED
    BY <2>1, <2>2
<1>2. CASE Return \/ Close
  BY <1>2 DEF Return, Close, verdictVars
<1>3. CASE ProcessRequestHeaders
  <2>1. CASE AdmitsHeaders(1) /\ Enter(1) /\ UNCHANGED verdictVars
    <3>1. Protocol!Start(1)
      BY <2>1 DEF Protocol!Start, AdmitsHeaders, Interrupted, Enter, verdictVars
    <3> QED
      BY <3>1
  <2>2. CASE UNCHANGED <<verdictVars, loopVars>>
    BY <2>2 DEF verdictVars, loopVars
  <2> QED
    BY <1>3, <2>1, <2>2 DEF ProcessRequestHeaders, Answer, RequestHeaders
<1>4. ASSUME NEW code \in Statuses, ProcessResponseHeaders(code)
      PROVE  [Protocol!Next]_(Protocol!protocolVars)
  <2>1. CASE AdmitsHeaders(3) /\ Enter(3) /\ UNCHANGED verdictVars
    <3>1. Protocol!Start(3)
      BY <2>1 DEF Protocol!Start, AdmitsHeaders, Interrupted, Enter, verdictVars
    <3> QED
      BY <3>1
  <2>2. CASE UNCHANGED <<verdictVars, loopVars>>
    BY <2>2 DEF verdictVars, loopVars
  <2> QED
    BY <1>4, <2>1, <2>2 DEF ProcessResponseHeaders, Answer, ResponseHeaders
<1>5. ASSUME NEW side \in Sides, BodyCall(side)
      PROVE  [Protocol!Next]_(Protocol!protocolVars)
  <2>1. CASE \E it \in {NoInterruption, interruption} : Answer(it)
    BY <2>1 DEF Answer, verdictVars, loopVars
  <2>2. CASE RejectBody(side)
    <3>1. Protocol!RejectBody
      BY <2>2 DEF Protocol!RejectBody, RejectBody, LimitVerdicts, loopVars
    <3> QED
      BY <3>1, SMTT(40)
  <2>3. CASE AdmitsBody(side) /\ Enter(BodyPhase(side)) /\ UNCHANGED <<verdictVars, told>>
    <3>1. BodyPhase(side) \in {2, 4} /\ HeaderPhase(side) = BodyPhase(side) - 1
      BY DEF BodyPhase, HeaderPhase, RequestHeaders, ResponseHeaders
    <3>2. Protocol!Start(BodyPhase(side))
      BY <2>3, <3>1 DEF Protocol!Start, AdmitsBody, Interrupted, Enter, verdictVars
    <3> QED
      BY <3>1, <3>2
  <2> QED
    BY <1>5, <2>1, <2>2, <2>3 DEF BodyCall, Outcome
<1>6. CASE ProcessLogging
  <2>1. CASE Enter(5) /\ UNCHANGED verdictVars
    <3>1. Protocol!Start(5)
      BY <2>1 DEF Protocol!Start, Enter, verdictVars
    <3> QED
      BY <3>1
  <2>2. CASE UNCHANGED <<verdictVars, loopVars>>
    BY <2>2 DEF verdictVars, loopVars
  <2> QED
    BY <1>6, <2>1, <2>2 DEF ProcessLogging, Logging
<1>7. CASE NewTransaction
  <2>1. Protocol!Recycle
    BY <1>7 DEF NewTransaction, ResetVerdict, Protocol!Recycle
  <2> QED
    BY <2>1
<1>8. CASE UNCHANGED vars
  BY <1>8 DEF vars, ruleVars, verdictVars, loopVars
<1> QED
  BY <1>1, <1>2, <1>3, <1>4, <1>5, <1>6, <1>7, <1>8, NextCases DEF Step

\* The transaction, with its rules, bodies and limits, implements the phase
\* protocol a connector relies on.
THEOREM ProtocolImplemented == Spec => FollowsProtocol
<1>1. Init => Protocol!Init
  BY DEF Init, Protocol!Init
<1>2. Typed /\ NoRuleAfterInterruption /\ [Next]_vars => [Protocol!Next]_(Protocol!protocolVars)
  BY ProtocolStep
<1> QED
  BY <1>1, <1>2, TypeCorrect, InterruptionStopsRules, PTL DEF Spec, Typed, FollowsProtocol, Protocol!Spec

=============================================================================
