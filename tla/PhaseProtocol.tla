---------------------------- MODULE PhaseProtocol ----------------------------
(***************************************************************************)
(* What a transaction promises a connector about phases and interruptions,  *)
(* with no rule, body or limit in sight: phases go forward, a body phase     *)
(* follows its header phase, nothing but logging starts once the transaction *)
(* is interrupted, and a verdict stands until logging unless a body limit    *)
(* replaces it.  Transaction is shown to implement this specification.       *)
(***************************************************************************)
EXTENDS Naturals

CONSTANTS
  Verdicts,        \* interruptions a rule can raise
  LimitVerdicts,   \* interruptions a body limit raises
  NoVerdict

VARIABLES lastPhase, interruption

protocolVars == <<lastPhase, interruption>>

Init == lastPhase = 0 /\ interruption = NoVerdict

\* A phase starts: header phases forward only, body phases right after their
\* header phase, logging at any time.
Start(p) ==
  /\ \/ p \in {1, 3} /\ lastPhase < p /\ interruption = NoVerdict
     \/ p \in {2, 4} /\ lastPhase = p - 1 /\ interruption = NoVerdict
     \/ p = 5
  /\ lastPhase' = p
  /\ UNCHANGED interruption

\* A rule of the phase interrupts.
Disrupt ==
  /\ lastPhase = 5 \/ (lastPhase > 0 /\ interruption = NoVerdict)
  /\ interruption' \in Verdicts
  /\ UNCHANGED lastPhase

\* A body reached its limit.
RejectBody == interruption' \in LimitVerdicts /\ UNCHANGED lastPhase

\* The transaction is closed and taken from the pool again.
Recycle == lastPhase' = 0 /\ interruption' = NoVerdict

Next == (\E p \in 1..5 : Start(p)) \/ Disrupt \/ RejectBody \/ Recycle

Spec == Init /\ [][Next]_protocolVars

=============================================================================
