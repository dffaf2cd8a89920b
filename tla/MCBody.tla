------------------------------- MODULE MCBody --------------------------------
(***************************************************************************)
(* Transaction with the bodies in the foreground: limits of two bytes,      *)
(* writes and reads of zero to three bytes, readers whose Len() is right,    *)
(* wrong or as large as an integer can be, both limit actions, and rules     *)
(* that change the body settings or interrupt around the body phases.        *)
(***************************************************************************)
EXTENDS Transaction

CONSTANT CtlLimits    \* the limits a ctl action sets

NegativeLimits == {-1}

Plain == [operator |-> TRUE, ctl |-> NoCtl]
Setting(t, s, v) == [operator |-> TRUE, ctl |-> [target |-> t, side |-> s, value |-> v]]

RuleOf(id, phase, links, disruptive) ==
  [id |-> id, phase |-> phase, mark |-> NoMark, links |-> links, disruptive |-> disruptive,
   status |-> 0, skip |-> 0, skipAfter |-> NoMark, audit |-> FALSE]

\* A ctl of the body limit matters on the accessible side only.
RuleSets(side) ==
  { <<RuleOf(11, 1, <<Plain>>, "deny"), RuleOf(12, 2, <<Plain>>, "deny")>>,
    <<RuleOf(13, 3, <<Plain>>, "deny"), RuleOf(14, 4, <<Plain>>, "deny")>>,
    <<RuleOf(1, 1, <<Setting("bodyAccess", "request", FALSE)>>, "pass"),
      RuleOf(2, 2, <<Setting("bodyAccess", "response", FALSE)>>, "pass")>>,
    <<RuleOf(3, 1, <<Setting("ruleEngine", "request", "Off")>>, "pass")>>,
    <<RuleOf(6, 1, <<Setting("ruleEngine", "request", "DetectionOnly")>>, "pass")>> }
  \cup {<<RuleOf(4, HeaderPhase(side), <<Setting("bodyLimit", side, l)>>, "pass")>> :
          l \in CtlLimits}

\* One side at a time: the two sides meet only in the phases and the verdict.
ConfigsOf(side) ==
  { [rules |-> rs, ruleEngine |-> e, auditEngine |-> "Off", relevantStatus |-> {},
     access |-> [s \in Sides |-> s = side], limit |-> [s \in Sides |-> 2],
     limitAction |-> [s \in Sides |-> a]] :
      rs \in RuleSets(side), e \in {"On", "DetectionOnly"}, a \in LimitActions }

MCConfigs == UNION {ConfigsOf(side) : side \in Sides}

=============================================================================
