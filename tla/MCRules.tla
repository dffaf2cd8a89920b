------------------------------- MODULE MCRules -------------------------------
(***************************************************************************)
(* Transaction with the rules in the foreground: every sequence of up to    *)
(* three rules taken in order from a catalogue with each kind of action, no  *)
(* body.  The catalogue repeats a kind in several phases where the phase     *)
(* matters.                                                                  *)
(***************************************************************************)
EXTENDS Transaction

Plain == [operator |-> TRUE, ctl |-> NoCtl]
Always == [operator |-> FALSE, ctl |-> NoCtl]
Setting(t, v) == [operator |-> TRUE, ctl |-> [target |-> t, side |-> "request", value |-> v]]

RuleOf(id, phase, links, disruptive) ==
  [id |-> id, phase |-> phase, mark |-> NoMark, links |-> links, disruptive |-> disruptive,
   status |-> 0, skip |-> 0, skipAfter |-> NoMark, audit |-> FALSE]

Marker == [RuleOf(NoID, 0, <<Always>>, "pass") EXCEPT !.mark = "END"]

\* A rule that interrupts in each phase, so that every omission shows.
Deny(phase) == RuleOf(10 + phase, phase, <<Plain>>, "deny")

\* Rules that change what happens to the rules after them.
Steering ==
  { RuleOf(1, 1, <<Plain>>, "allow"),
    RuleOf(2, 1, <<Plain>>, "allow:phase"),
    RuleOf(3, 2, <<Plain>>, "allow:request"),
    RuleOf(4, 3, <<Plain>>, "allow"),
    [RuleOf(5, 1, <<Plain>>, "pass") EXCEPT !.skip = 1],
    [RuleOf(6, 3, <<Plain>>, "pass") EXCEPT !.skipAfter = "END"],
    RuleOf(7, 1, <<Setting("ruleEngine", "DetectionOnly"), Plain>>, "deny"),
    RuleOf(8, 1, <<Setting("ruleEngine", "Off")>>, "pass"),
    RuleOf(9, 2, <<Setting("ruleRemoveById", {0, 13})>>, "pass"),
    RuleOf(20, 1, <<Setting("ruleEngine", "On")>>, "redirect"),
    RuleOf(21, 5, <<Setting("auditEngine", "RelevantOnly")>>, "drop"),
    RuleOf(22, 1, <<Plain>>, "allow:request") }

\* Rules that ask for the audit log, before and in the logging phase.
Auditing ==
  { [RuleOf(23, 1, <<Plain>>, "pass") EXCEPT !.audit = TRUE],
    [RuleOf(24, 5, <<Always>>, "pass") EXCEPT !.audit = TRUE] }

Denials == {<<Deny(1), Deny(5)>>, <<Deny(2), Deny(3)>>, <<Deny(3), Marker, Deny(4)>>}

RuleSets == {<<s>> \o d : s \in Steering \cup Auditing, d \in Denials}
  \cup {<<s, t>> \o d : s, t \in {r \in Steering : r.phase <= 2}, d \in Denials}

\* Engine and audit modes; a WAF whose engine is Off needs only one rule set.
Modes == {<<"On", "RelevantOnly">>, <<"DetectionOnly", "On">>}

ConfigOf(rs, m, relevant) ==
  [rules |-> rs, ruleEngine |-> m[1], auditEngine |-> m[2], relevantStatus |-> relevant,
   access |-> [s \in Sides |-> FALSE], limit |-> [s \in Sides |-> 1],
   limitAction |-> [s \in Sides |-> "Reject"]]

\* The audit decision also sees a DetectionOnly WAF with a relevant status, and
\* rules that ask for the audit log where no status is relevant.
MCConfigs ==
  {ConfigOf(rs, m, {403}) : rs \in {r \in RuleSets : Addable(r)}, m \in Modes}
    \cup {ConfigOf(<<s>> \o d, <<"DetectionOnly", "RelevantOnly">>, {403}) :
            s \in Steering, d \in Denials}
    \cup {ConfigOf(<<a>> \o d, <<"On", "RelevantOnly">>, {}) : a \in Auditing, d \in Denials}
    \cup {ConfigOf(<<Deny(1)>>, <<"Off", "On">>, {403})}

=============================================================================
