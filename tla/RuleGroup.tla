------------------------------ MODULE RuleGroup ------------------------------
(***************************************************************************)
(* Rule evaluation of one transaction: RuleGroup.Eval, Rule.doEvaluate and  *)
(* the actions of a rule (flow, disruptive, ctl).  The loop of Eval is one   *)
(* step per rule, and one step per link of a chain, so that what happens     *)
(* between two rules is visible.  Whether an operator matches is data and    *)
(* is left to choice.  Transaction extends this module with the API calls    *)
(* that start an evaluation.  Operators named Bug... are variants of the     *)
(* definition that follows them, used to show that a property can fail.      *)
(***************************************************************************)
EXTENDS Integers, Sequences, FiniteSets

CONSTANTS
  Configs,    \* the WAF configurations a deployment may use
  Marks       \* the names of SecMarker rules

VARIABLES
  waf,                        \* the WAF, constant during a behaviour
  ruleEngine, auditEngine,    \* modes of the transaction, changed by ctl
  bodyAccess, bodyLimit,      \* per side, changed by ctl
  lastPhase, interruption, detectionOnlyInterruption,
  allowType, skip, skipAfter, ruleRemoveByID,
  audit, matchedRules,
  pc, ri, link,               \* control: location, rule index, chain link
  evaluated, engines          \* history: Evals per phase, engine modes held

modeVars == <<ruleEngine, auditEngine, bodyAccess, bodyLimit, ruleRemoveByID, engines>>
flowVars == <<allowType, skip, skipAfter>>
verdictVars == <<interruption, detectionOnlyInterruption, audit, matchedRules>>
loopVars == <<lastPhase, pc, ri, link, evaluated>>
ruleVars == <<waf, modeVars, flowVars, verdictVars, loopVars>>

-----------------------------------------------------------------------------
(* Values *)

Phases == 1..5
RequestHeaders == 1
RequestBody == 2
ResponseHeaders == 3
ResponseBody == 4
Logging == 5

EngineModes == {"On", "DetectionOnly", "Off"}
AuditModes == {"On", "Off", "RelevantOnly"}
AllowTypes == {"unset", "phase", "request", "all"}
Sides == {"request", "response"}
LimitActions == {"Reject", "ProcessPartial"}

NoID == 0
NoMark == ""
NoInterruption == [action |-> "none", status |-> 0, rule |-> NoID]
Interruption == [action : {"none", "deny", "drop", "redirect"}, status : Nat, rule : Nat]

\* A ctl action: what it changes, on which side, and the new value.
NoCtl == [target |-> "none", side |-> "request", value |-> 0]
Ctl == {NoCtl}
  \cup [target : {"ruleEngine"}, side : Sides, value : EngineModes]
  \cup [target : {"auditEngine"}, side : Sides, value : AuditModes]
  \cup [target : {"bodyAccess"}, side : Sides, value : BOOLEAN]
  \cup [target : {"bodyLimit"}, side : Sides, value : Int]
  \cup [target : {"ruleRemoveById"}, side : Sides, value : SUBSET Nat]

\* links[1] is the rule itself, the others are the rules chained to it.  A link
\* without operator is a SecAction or a SecMarker, which always matches.
Link == [operator : BOOLEAN, ctl : Ctl]
Rule == [id : Nat, phase : 0..5, mark : Marks \cup {NoMark}, links : Seq(Link),
         disruptive : {"pass", "deny", "drop", "redirect",
                       "allow", "allow:phase", "allow:request"},
         status : Nat, skip : Nat, skipAfter : Marks \cup {NoMark}, audit : BOOLEAN]

\* RuleGroup.Add: an id is mandatory and unique, except for SecMarker rules.
Addable(rules) ==
  /\ \A i \in DOMAIN rules : rules[i].id = NoID <=> rules[i].mark # NoMark
  /\ \A i, j \in DOMAIN rules :
       rules[i].id = rules[j].id /\ rules[i].id # NoID => i = j

\* directiveSecMarker: a marker runs in every phase and has no action.
Inert(r) ==
  /\ r.phase = 0 /\ r.disruptive = "pass" /\ r.skip = 0 /\ r.skipAfter = NoMark /\ ~r.audit
  /\ r.links = <<[operator |-> FALSE, ctl |-> NoCtl]>>

WAF == [rules : Seq(Rule), ruleEngine : EngineModes, auditEngine : AuditModes,
        relevantStatus : SUBSET Nat, access : [Sides -> BOOLEAN],
        limit : [Sides -> Nat \ {0}], limitAction : [Sides -> LimitActions]]

\* WAF.Validate and RuleGroup.Add accepted the configuration; every rule has
\* at least its own link.
ASSUME ConfigsAssumption ==
  /\ Configs \subseteq WAF
  /\ \A c \in Configs :
       /\ Addable(c.rules)
       /\ \A i \in DOMAIN c.rules :
            /\ Len(c.rules[i].links) > 0
            /\ c.rules[i].id = NoID => Inert(c.rules[i])

-----------------------------------------------------------------------------
(* The actions of a rule *)

BugInterruptAlways(it) ==
  /\ interruption' = it
  /\ UNCHANGED detectionOnlyInterruption

\* Transaction.Interrupt: enforced when the engine is On; remembered, the first
\* time only, when it is DetectionOnly; ignored when it is Off.
Interrupt(it) ==
  /\ interruption' = IF ruleEngine = "On" THEN it ELSE interruption
  /\ detectionOnlyInterruption' =
       IF ruleEngine = "DetectionOnly" /\ detectionOnlyInterruption = NoInterruption
       THEN it ELSE detectionOnlyInterruption

\* Transaction.Allow is enforced only when the engine is On.
Allow(a) == allowType' = IF ruleEngine = "On" THEN a ELSE allowType

\* The status an interrupting action reports: deny defaults to 403, redirect
\* keeps only the redirection codes, drop reports the status of the rule.
InterruptionStatus(r) ==
  CASE r.disruptive = "deny" -> IF r.status = 0 THEN 403 ELSE r.status
    [] r.disruptive = "redirect" -> IF r.status \in {301, 302, 303, 307} THEN r.status ELSE 302
    [] OTHER -> r.status

AllowOf == [x \in {"allow", "allow:phase", "allow:request"} |->
              CASE x = "allow" -> "all" [] x = "allow:phase" -> "phase" [] OTHER -> "request"]

\* The single disruptive action of a rule.
Disrupt(r) ==
  \/ /\ r.disruptive = "pass"
     /\ UNCHANGED <<interruption, detectionOnlyInterruption, allowType>>
  \/ /\ r.disruptive \in {"deny", "drop", "redirect"}
     /\ Interrupt([action |-> r.disruptive, status |-> InterruptionStatus(r), rule |-> r.id])
     /\ UNCHANGED allowType
  \/ /\ r.disruptive \in DOMAIN AllowOf
     /\ Allow(AllowOf[r.disruptive])
     /\ UNCHANGED <<interruption, detectionOnlyInterruption>>

\* The last phase in which ctl may still change the body settings of a side.
CtlDeadline(side) == IF side = "request" THEN RequestHeaders ELSE ResponseHeaders

\* The cases of ctlFn.Evaluate that steer a transaction.
SetRuleEngine(c) ==
  /\ ruleEngine' = IF c.target = "ruleEngine" THEN c.value ELSE ruleEngine
  /\ engines' = engines \cup {ruleEngine'}

SetAuditEngine(c) ==
  auditEngine' = IF c.target = "auditEngine" THEN c.value ELSE auditEngine

SetBodyAccess(c) ==
  bodyAccess' = IF c.target = "bodyAccess" /\ lastPhase <= CtlDeadline(c.side)
                THEN [bodyAccess EXCEPT ![c.side] = c.value] ELSE bodyAccess

SetBodyLimit(c) ==
  bodyLimit' = IF c.target = "bodyLimit" /\ lastPhase <= CtlDeadline(c.side)
               THEN [bodyLimit EXCEPT ![c.side] = c.value] ELSE bodyLimit

\* By id, by range, by message or by tag: in the end a set of ids.
RemoveRules(c) ==
  ruleRemoveByID' = IF c.target = "ruleRemoveById"
                    THEN ruleRemoveByID \cup c.value ELSE ruleRemoveByID

\* ctlFn.Evaluate: one of the cases, the others leave their field alone.
ApplyCtl(c) ==
  /\ SetRuleEngine(c) /\ SetAuditEngine(c)
  /\ SetBodyAccess(c) /\ SetBodyLimit(c)
  /\ RemoveRules(c)

BugMatchRule(r) ==
  /\ audit' = (audit \/ (r.id # NoID /\ r.audit))
  /\ matchedRules' = IF r.id = NoID THEN matchedRules
                     ELSE matchedRules \cup {[id |-> r.id, real |-> FALSE]}

\* Transaction.MatchRule; SecMarker rules have no id and are not recorded.
\* "real" is the Disruptive_ flag: the disruption was enforced, not potential.
MatchRule(r) ==
  /\ audit' = (audit \/ (r.id # NoID /\ r.audit))
  /\ matchedRules' = IF r.id = NoID THEN matchedRules
                     ELSE matchedRules \cup {[id |-> r.id, real |-> ruleEngine = "On"]}

-----------------------------------------------------------------------------
(* Eval *)

Interrupted == interruption # NoInterruption
Current == waf.rules[ri]
AtRule == pc = "eval" /\ ri <= Len(waf.rules)

\* Eval is entered: the phase is recorded before the first rule is looked at.
Enter(phase) ==
  /\ lastPhase' = phase
  /\ pc' = "eval"
  /\ ri' = 1
  /\ evaluated' = [evaluated EXCEPT ![phase] = IF @ < 2 THEN @ + 1 ELSE @]
  /\ UNCHANGED link

BugNoStop == FALSE

\* An interrupted transaction evaluates no more rules, except when logging.
Stopped == Interrupted /\ lastPhase # Logging

\* Rules of phase 0 run in every phase (multiphase evaluation is off).
InPhase(r) == r.phase = 0 \/ r.phase = lastPhase

\* The rule is considered in this phase: not skipped over before the checks
\* of skipAfter, skip and allow.
Considered(r) == InPhase(r) /\ r.id \notin ruleRemoveByID

BugAllowPhaseOnly == allowType = "phase"
BugAllowHeaders ==
  \/ allowType \in {"phase", "all"}
  \/ allowType = "request" /\ lastPhase = RequestHeaders

\* The switch on AllowType that ends the phase.
AllowStops ==
  \/ allowType \in {"phase", "all"}
  \/ allowType = "request" /\ lastPhase \in {RequestHeaders, RequestBody}

NextRule == pc' = "eval" /\ ri' = ri + 1

PassOver ==
  /\ AtRule /\ ~Stopped /\ ~Considered(Current)
  /\ NextRule
  /\ UNCHANGED <<waf, modeVars, flowVars, verdictVars, lastPhase, link, evaluated>>

\* While skipAfter is set every rule is skipped; the marker it names clears it.
SkipToMarker ==
  /\ AtRule /\ ~Stopped /\ Considered(Current)
  /\ skipAfter # NoMark
  /\ skipAfter' = IF Current.mark = skipAfter THEN NoMark ELSE skipAfter
  /\ NextRule
  /\ UNCHANGED <<waf, modeVars, allowType, skip, verdictVars, lastPhase, link, evaluated>>

BugSkipTwice == skip' = skip - 2 /\ NextRule

\* The skip branch of the loop.
SkipOver == skip' = skip - 1 /\ NextRule

SkipRule ==
  /\ AtRule /\ ~Stopped /\ Considered(Current)
  /\ skipAfter = NoMark /\ skip > 0
  /\ SkipOver
  /\ UNCHANGED <<waf, modeVars, allowType, skipAfter, verdictVars, lastPhase, link, evaluated>>

\* The rule is about to be evaluated.
Reached ==
  /\ AtRule /\ ~Stopped /\ Considered(Current)
  /\ skipAfter = NoMark /\ skip = 0

EvaluateRule ==
  /\ Reached /\ ~AllowStops
  /\ pc' = "link" /\ link' = 1
  /\ UNCHANGED <<waf, modeVars, flowVars, verdictVars, lastPhase, ri, evaluated>>

\* A link matches: its non-disruptive actions run at once, whether or not the
\* rest of the chain will match.
MatchLink ==
  /\ pc = "link"
  /\ ApplyCtl(Current.links[link].ctl)
  /\ IF link = Len(Current.links)
     THEN pc' = "act" /\ UNCHANGED link
     ELSE pc' = "link" /\ link' = link + 1
  /\ UNCHANGED <<waf, flowVars, verdictVars, lastPhase, ri, evaluated>>

\* A link does not match: the rule is left with nothing disruptive done.
FailLink ==
  /\ pc = "link" /\ Current.links[link].operator
  /\ NextRule
  /\ UNCHANGED <<waf, modeVars, flowVars, verdictVars, lastPhase, link, evaluated>>

\* The whole chain matched: flow and disruptive actions, then MatchRule.
RunActions ==
  /\ pc = "act"
  /\ Disrupt(Current)
  /\ skip' = IF Current.skip > 0 THEN Current.skip ELSE skip
  /\ skipAfter' = IF Current.skipAfter # NoMark THEN Current.skipAfter ELSE skipAfter
  /\ MatchRule(Current)
  /\ NextRule
  /\ UNCHANGED <<waf, modeVars, lastPhase, link, evaluated>>

BugAfterLoop(a) == allowType' = a /\ UNCHANGED skip

\* What Eval does after its loop: allow:phase and skip end with the phase,
\* skipAfter does not.
AfterLoop(a) ==
  /\ allowType' = IF a = "phase" THEN "unset" ELSE a
  /\ skip' = 0

\* An allow action in force ends the phase; allow:request is used up in phase 2.
BreakOnAllow ==
  /\ Reached /\ AllowStops
  /\ AfterLoop(IF allowType = "request" /\ lastPhase = RequestBody THEN "unset" ELSE allowType)
  /\ pc' = "return"
  /\ UNCHANGED <<waf, modeVars, skipAfter, verdictVars, lastPhase, ri, link, evaluated>>

\* The rules are exhausted, or an interruption breaks the loop.
EndOfLoop ==
  /\ pc = "eval"
  /\ ri > Len(waf.rules) \/ Stopped
  /\ AfterLoop(allowType)
  /\ pc' = "return"
  /\ UNCHANGED <<waf, modeVars, skipAfter, verdictVars, lastPhase, ri, link, evaluated>>

EvalStep ==
  \/ PassOver \/ SkipToMarker \/ SkipRule
  \/ EvaluateRule \/ MatchLink \/ FailLink \/ RunActions
  \/ BreakOnAllow \/ EndOfLoop

=============================================================================
