-------------------------- MODULE TransactionProofs --------------------------
(***************************************************************************)
(* Proofs about Transaction, for every WAF configuration, every sequence of *)
(* rules and every size of body.  Each safety property is the consequence   *)
(* of an inductive invariant; the invariants build on the type invariant    *)
(* and on one lemma that says all a body call can do to the verdict and to  *)
(* the control of the transaction.                                          *)
(***************************************************************************)
EXTENDS Transaction, TLAPS

-----------------------------------------------------------------------------
(* Configurations *)

\* coraza.NewWAF keeps a configuration well formed, and a DetectionOnly WAF
\* rejects no body.
LEMMA WAFsTyped ==
  ASSUME NEW w \in WAFs
  PROVE  /\ w \in WAF
         /\ \A i \in DOMAIN w.rules :
              /\ Len(w.rules[i].links) > 0
              /\ w.rules[i].id = NoID => w.rules[i].disruptive = "pass"
         /\ \A s \in Sides : w.limit[s] \in Nat \ {0} /\ w.limit[s] < MaxInt
         /\ w.ruleEngine = "DetectionOnly" => \A s \in Sides : w.limitAction[s] = "ProcessPartial"
<1>1. PICK c \in Configs : w = NewWAF(c)
  BY DEF WAFs
<1>2. c \in WAF
  BY ConfigsAssumption
<1>3. w \in WAF
  BY <1>1, <1>2, Zenon DEF NewWAF, WAF, LimitActions
<1>4. w.rules = c.rules /\ w.limit = c.limit
  BY <1>1, <1>2 DEF NewWAF, WAF
<1>5. \A i \in DOMAIN w.rules :
        /\ Len(w.rules[i].links) > 0
        /\ w.rules[i].id = NoID => w.rules[i].disruptive = "pass"
  BY <1>4, ConfigsAssumption DEF Inert
<1>6. \A s \in Sides : w.limit[s] \in Nat \ {0} /\ w.limit[s] < MaxInt
  BY <1>2, <1>4, SizesAssumption DEF WAF
<1>7. w.ruleEngine = "DetectionOnly" => \A s \in Sides : w.limitAction[s] = "ProcessPartial"
  BY <1>1, <1>2 DEF NewWAF, WAF
<1> QED
  BY <1>3, <1>5, <1>6, <1>7

\* The modes, the access to bodies and the limits that a transaction copies from
\* its WAF are typed.
LEMMA WAFFields ==
  ASSUME NEW w \in WAFs
  PROVE  /\ w.ruleEngine \in EngineModes /\ w.auditEngine \in AuditModes
         /\ w.access \in [Sides -> BOOLEAN] /\ w.limit \in [Sides -> Int]
<1>1. w \in WAF
  BY WAFsTyped
<1>2. w.ruleEngine \in EngineModes /\ w.auditEngine \in AuditModes
  BY <1>1 DEF WAF
<1>3. w.access \in [Sides -> BOOLEAN]
  BY <1>1 DEF WAF
<1>4. w.limit \in [Sides -> Int]
  BY <1>1 DEF WAF
<1> QED
  BY <1>2, <1>3, <1>4

\* What ctlFn.Evaluate may put in the fields of the transaction.
LEMMA CtlTyped ==
  ASSUME NEW c \in Ctl
  PROVE  /\ c.side \in Sides
         /\ c.target = "ruleEngine" => c.value \in EngineModes
         /\ c.target = "auditEngine" => c.value \in AuditModes
         /\ c.target = "bodyAccess" => c.value \in BOOLEAN
         /\ c.target = "bodyLimit" => c.value \in Int
         /\ c.target = "ruleRemoveById" => c.value \subseteq Nat
<1>1. CASE c = NoCtl
  BY <1>1 DEF NoCtl, Sides
<1>2. CASE c \in [target : {"ruleEngine"}, side : Sides, value : EngineModes]
  BY <1>2
<1>3. CASE c \in [target : {"auditEngine"}, side : Sides, value : AuditModes]
  BY <1>3
<1>4. CASE c \in [target : {"bodyAccess"}, side : Sides, value : BOOLEAN]
  BY <1>4
<1>5. CASE c \in [target : {"bodyLimit"}, side : Sides, value : Int]
  BY <1>5
<1>6. CASE c \in [target : {"ruleRemoveById"}, side : Sides, value : SUBSET Nat]
  BY <1>6
<1> QED
  BY <1>1, <1>2, <1>3, <1>4, <1>5, <1>6 DEF Ctl

\* A rule of the WAF and its links are what their types say.
LEMMA RulesTyped ==
  ASSUME NEW w \in WAFs, NEW i \in DOMAIN w.rules
  PROVE  /\ w.rules[i] \in Rule
         /\ Len(w.rules[i].links) \in Nat \ {0}
         /\ DOMAIN w.rules[i].links = 1..Len(w.rules[i].links)
         /\ \A k \in DOMAIN w.rules[i].links : w.rules[i].links[k].ctl \in Ctl
<1>1. w.rules \in Seq(Rule)
  BY WAFsTyped DEF WAF
<1>2. w.rules[i] \in Rule
  BY <1>1
<1>3. w.rules[i].links \in Seq(Link) /\ Len(w.rules[i].links) > 0
  BY <1>2, WAFsTyped DEF Rule
<1>4. \A k \in DOMAIN w.rules[i].links : w.rules[i].links[k] \in Link
  BY <1>3
<1> QED
  BY <1>2, <1>3, <1>4 DEF Link

-----------------------------------------------------------------------------
(* Body calls *)

\* What a call on the body of a side does to the verdict and the control.
Outcome(side) ==
  \/ \E it \in {NoInterruption, interruption} : Answer(it)
  \/ Rejects(side) /\ BodyOpen(side) /\ RejectBody(side)
  \/ AdmitsBody(side) /\ Enter(BodyPhase(side)) /\ UNCHANGED <<verdictVars, told>>

\* What it does to the buffer and to the flags of the side.
Buffered(side) ==
  /\ \E w \in Nat : (w = 0 \/ w <= Room(side)) /\ Grow(side, w)
  /\ \E d \in BOOLEAN : dataError' = [dataError EXCEPT ![side] = d]
  /\ \E e \in BOOLEAN : bodyError' = [bodyError EXCEPT ![side] = e]
  /\ parserFailed' \subseteq parserFailed \cup {side}
  /\ failure' \in {failure, "error", "full", "panic"}

BodyCall(side) ==
  /\ pc = "idle"
  /\ Outcome(side) /\ Buffered(side)
  /\ offered' \in [Sides -> Nat]
  /\ UNCHANGED <<waf, modeVars, flowVars, responseStatus, auditLog>>

\* The part of the type invariant that the buffers need.
BuffersTyped ==
  /\ length \in [Sides -> Nat]
  /\ dataError \in [Sides -> BOOLEAN] /\ bodyError \in [Sides -> BOOLEAN]
  /\ bodyLimit \in [Sides -> Int]
  /\ offered \in [Sides -> Nat]
  /\ waf \in WAFs

\* Leaving a body alone is a way to buffer nothing.
LEMMA NothingBuffered ==
  ASSUME BuffersTyped, NEW side \in Sides, UNCHANGED <<bodyVars, failure>>
  PROVE  Buffered(side)
<1>1. Grow(side, 0)
  BY DEF BuffersTyped, Grow, bodyVars
<1>2. dataError' = [dataError EXCEPT ![side] = dataError[side]]
  BY DEF BuffersTyped, bodyVars
<1>3. bodyError' = [bodyError EXCEPT ![side] = bodyError[side]]
  BY DEF BuffersTyped, bodyVars
<1> QED
  BY <1>1, <1>2, <1>3 DEF Buffered, BuffersTyped, bodyVars

\* ProcessRequestBody and ProcessResponseBody: nothing is added to the buffer.
LEMMA ProcessBodyEffect ==
  ASSUME BuffersTyped, NEW side \in Sides, NEW len, ProcessBody(side, len)
  PROVE  /\ Outcome(side)
         /\ \E e \in BOOLEAN : bodyError' = [bodyError EXCEPT ![side] = e]
         /\ parserFailed' \subseteq parserFailed \cup {side}
         /\ failure' \in {failure, "error"}
<1>1. CASE AdmitsBody(side)
  <2>1. Outcome(side)
    BY <1>1 DEF ProcessBody, Outcome
  <2>2. \/ bodyError' = bodyError
        \/ bodyError' = [bodyError EXCEPT ![side] = TRUE]
    BY <1>1 DEF ProcessBody
  <2>3. bodyError = [bodyError EXCEPT ![side] = bodyError[side]]
    BY DEF BuffersTyped
  <2>4. \E e \in BOOLEAN : bodyError' = [bodyError EXCEPT ![side] = e]
    BY <2>2, <2>3, Zenon DEF BuffersTyped
  <2>5. parserFailed' \subseteq parserFailed \cup {side} /\ failure' \in {failure, "error"}
    BY <1>1 DEF ProcessBody
  <2> QED
    BY <2>1, <2>4, <2>5, Zenon
<1>2. CASE ~AdmitsBody(side)
  <2>1. Answer(IF Off THEN NoInterruption ELSE interruption)
    BY <1>2 DEF ProcessBody
  <2>2. UNCHANGED <<bodyError, parserFailed, failure>>
    BY <1>2 DEF ProcessBody
  <2>3. Outcome(side)
    BY <2>1 DEF Outcome
  <2>4. bodyError' = [bodyError EXCEPT ![side] = bodyError[side]]
    BY <2>2 DEF BuffersTyped
  <2> QED
    BY <2>2, <2>3, <2>4 DEF BuffersTyped
<1> QED
  BY <1>1, <1>2

\* What follows a successful store.
LEMMA FinishEffect ==
  ASSUME BuffersTyped, NEW side \in Sides, NEW process, NEW len, Finish(side, process, len)
  PROVE  /\ Outcome(side)
         /\ \E e \in BOOLEAN : bodyError' = [bodyError EXCEPT ![side] = e]
         /\ parserFailed' \subseteq parserFailed \cup {side}
         /\ failure' \in {failure, "error"}
<1>1. CASE process /\ ProcessBody(side, len)
  BY <1>1, ProcessBodyEffect
<1>2. CASE ~process /\ Answer(interruption) /\ UNCHANGED <<bodyError, parserFailed, failure>>
  <2>1. Outcome(side)
    BY <1>2 DEF Outcome
  <2>2. bodyError' = [bodyError EXCEPT ![side] = bodyError[side]]
    BY <1>2 DEF BuffersTyped
  <2> QED
    BY <1>2, <2>1, <2>2 DEF BuffersTyped
<1> QED
  BY <1>1, <1>2 DEF Finish

\* A failed call changes neither the verdict nor the control.
LEMMA FailEffect ==
  ASSUME NEW how \in {"error", "full", "panic"}, Fail(how), NEW side \in Sides
  PROVE  Outcome(side) /\ failure' \in {failure, "error", "full", "panic"}
BY DEF Fail, Outcome, Answer, Returning

\* BodyBuffer.Write: the limit of the buffer is kept on every path.
LEMMA StoreEffect ==
  ASSUME BuffersTyped, NEW side \in Sides, NEW n \in Int, NEW process,
         Store(side, n, process), \E d \in BOOLEAN : dataError' = [dataError EXCEPT ![side] = d]
  PROVE  Outcome(side) /\ Buffered(side)
<1>1. ASSUME UNCHANGED length PROVE Grow(side, 0)
  BY <1>1 DEF Grow, BuffersTyped
<1>2. ASSUME UNCHANGED bodyError
      PROVE  \E e \in BOOLEAN : bodyError' = [bodyError EXCEPT ![side] = e]
  <2>1. bodyError' = [bodyError EXCEPT ![side] = bodyError[side]]
    BY <1>2 DEF BuffersTyped
  <2> QED
    BY <2>1, Zenon DEF BuffersTyped
<1>3. CASE n < 0 /\ Fail("panic") /\ UNCHANGED <<length, bodyError, parserFailed>>
  BY <1>1, <1>2, <1>3, FailEffect, Zenon DEF Buffered
<1>4. CASE n > 0 /\ n > Room(side) /\ Fail("full") /\ UNCHANGED <<length, bodyError, parserFailed>>
  BY <1>1, <1>2, <1>4, FailEffect, Zenon DEF Buffered
<1>5. CASE /\ side = "request" /\ n > 0 /\ n <= Room(side)
           /\ Fail("error")
           /\ Grow(side, n) \/ UNCHANGED length
           /\ UNCHANGED <<bodyError, parserFailed>>
  <2>1. \E w \in Nat : (w = 0 \/ w <= Room(side)) /\ Grow(side, w)
    BY <1>1, <1>5
  <2> QED
    BY <1>2, <1>5, <2>1, FailEffect, Zenon DEF Buffered
<1>6. CASE /\ n >= 0 /\ (n = 0 \/ n <= Room(side))
           /\ Grow(side, n)
           /\ Finish(side, process, length[side] + n)
  <2>1. \E w \in Nat : (w = 0 \/ w <= Room(side)) /\ Grow(side, w)
    BY <1>6
  <2>2. PICK l : Finish(side, process, l)
    BY <1>6
  <2> QED
    BY <2>1, <2>2, FinishEffect, Zenon DEF Buffered
<1> QED
  BY <1>3, <1>4, <1>5, <1>6 DEF Store

\* io.CopyN into the buffer: the same, also when it fails half way.
LEMMA CopyEffect ==
  ASSUME BuffersTyped, NEW side \in Sides, NEW n \in Int, NEW avail \in Nat, NEW process,
         NEW flagged \in BOOLEAN, BodyOpen(side), Copy(side, n, avail, process, flagged)
  PROVE  Outcome(side) /\ Buffered(side)
<1> DEFINE copied == IF n < 0 THEN 0 ELSE IF n < avail THEN n ELSE avail
           len == length[side] + copied
<1>1. copied \in Nat
  OBVIOUS
<1>2. ASSUME UNCHANGED bodyError
      PROVE  \E e \in BOOLEAN : bodyError' = [bodyError EXCEPT ![side] = e]
  <2>1. bodyError' = [bodyError EXCEPT ![side] = bodyError[side]]
    BY <1>2 DEF BuffersTyped
  <2> QED
    BY <2>1, Zenon DEF BuffersTyped
<1>3. dataError[side] \in BOOLEAN
  BY DEF BuffersTyped
<1> HIDE DEF copied
<1>4. CASE /\ \E w \in 0..copied : w <= Room(side) /\ Grow(side, w)
           /\ Fail(IF copied > Room(side) THEN "full" ELSE "error")
           /\ dataError' = [dataError EXCEPT ![side] = @ \/ flagged]
           /\ UNCHANGED <<bodyError, parserFailed>>
  <2>1. \E w \in Nat : (w = 0 \/ w <= Room(side)) /\ Grow(side, w)
    BY <1>1, <1>4
  <2>2. \E d \in BOOLEAN : dataError' = [dataError EXCEPT ![side] = d]
    <3>1. dataError' = [dataError EXCEPT ![side] = dataError[side] \/ flagged]
      BY <1>4
    <3> QED
      BY <3>1, Zenon
  <2>3. Outcome(side) /\ failure' \in {failure, "error", "full", "panic"}
    BY <1>4, FailEffect
  <2> QED
    BY <1>2, <1>4, <2>1, <2>2, <2>3, Zenon DEF Buffered
<1>5. CASE /\ copied = 0 \/ copied <= Room(side)
           /\ Grow(side, copied)
           /\ dataError' = [dataError EXCEPT ![side] = @ \/ flagged \/ LimitMet(side, len)]
           /\ \/ /\ LimitMet(side, len) /\ Rejects(side)
                 /\ RejectBody(side)
                 /\ UNCHANGED <<bodyError, parserFailed, failure>>
              \/ /\ ~(LimitMet(side, len) /\ Rejects(side))
                 /\ Finish(side, process \/ LimitMet(side, len), len)
  <2>1. \E w \in Nat : (w = 0 \/ w <= Room(side)) /\ Grow(side, w)
    BY <1>1, <1>5
  <2>2. \E d \in BOOLEAN : dataError' = [dataError EXCEPT ![side] = d]
    <3>1. dataError' = [dataError EXCEPT ![side] = dataError[side] \/ flagged \/ LimitMet(side, len)]
      BY <1>5
    <3> QED
      BY <3>1, Zenon
  <2>3. CASE Rejects(side) /\ RejectBody(side) /\ UNCHANGED <<bodyError, parserFailed, failure>>
    BY <1>2, <2>1, <2>2, <2>3, Zenon DEF Buffered, Outcome
  <2>4. CASE Finish(side, process \/ LimitMet(side, len), len)
    BY <2>1, <2>2, <2>4, FinishEffect, Zenon DEF Buffered
  <2> QED
    BY <1>5, <2>3, <2>4
<1> QED
  BY <1>4, <1>5 DEF Copy, copied

\* The early returns of the body calls.
LEMMA IgnoredEffect ==
  ASSUME BuffersTyped, NEW side \in Sides, BodyIgnored(side), UNCHANGED <<bodyVars, failure>>
  PROVE  Outcome(side) /\ Buffered(side)
<1>1. Outcome(side)
  BY DEF BodyIgnored, Outcome
<1> QED
  BY <1>1, NothingBuffered

\* A refused or overflowing call that leaves the buffer alone.
LEMMA RefusedEffect ==
  ASSUME BuffersTyped, NEW side \in Sides, Fail("error"), UNCHANGED bodyVars
  PROVE  Outcome(side) /\ Buffered(side)
<1>1. Outcome(side) /\ failure' \in {failure, "error", "full", "panic"}
  BY FailEffect
<1>2. Grow(side, 0)
  BY DEF BuffersTyped, Grow, bodyVars
<1>3. dataError' = [dataError EXCEPT ![side] = dataError[side]]
  BY DEF BuffersTyped, bodyVars
<1>4. bodyError' = [bodyError EXCEPT ![side] = bodyError[side]]
  BY DEF BuffersTyped, bodyVars
<1> QED
  BY <1>1, <1>2, <1>3, <1>4, Zenon DEF Buffered, BuffersTyped, bodyVars

\* A body over the limit under Reject.
LEMMA RejectedEffect ==
  ASSUME BuffersTyped, NEW side \in Sides, Rejects(side), BodyOpen(side), RejectBody(side),
         Flag(side), UNCHANGED <<length, bodyError, parserFailed, failure>>
  PROVE  Outcome(side) /\ Buffered(side)
<1>1. Grow(side, 0)
  BY DEF BuffersTyped, Grow
<1>2. bodyError' = [bodyError EXCEPT ![side] = bodyError[side]]
  BY DEF BuffersTyped
<1> QED
  BY <1>1, <1>2, Zenon DEF Outcome, Buffered, BuffersTyped, Flag

\* The count of offered bytes stays a count.
LEMMA OfferTyped ==
  ASSUME BuffersTyped, NEW side \in Sides, NEW n \in Nat, Offer(side, n)
  PROVE  offered' \in [Sides -> Nat]
<1> DEFINE total == offered[side] + n
           cap == waf.limit[side] + 1
           new == IF ~BodyOpen(side) THEN offered[side] ELSE IF total < cap THEN total ELSE cap
<1>1. waf.limit[side] \in Nat /\ offered[side] \in Nat
  BY WAFsTyped DEF BuffersTyped
<1>2. total \in Nat /\ cap \in Nat
  BY <1>1
<1>3. offered' = [offered EXCEPT ![side] = new]
  BY DEF Offer
<1> HIDE DEF total, cap
<1>4. new \in Nat
  BY <1>1, <1>2
<1> HIDE DEF new
<1> QED
  BY <1>3, <1>4 DEF BuffersTyped

\* Every write, read or processing of a body is a BodyCall.
LEMMA WriteIsBodyCall ==
  ASSUME BuffersTyped, NEW side \in Sides, NEW n \in Sizes, WriteBody(side, n)
  PROVE  BodyCall(side)
<1>1. pc = "idle" /\ UNCHANGED <<waf, modeVars, flowVars, responseStatus, auditLog>>
  BY DEF WriteBody
<1>0. offered' \in [Sides -> Nat]
  <2>1. n \in Nat
    BY SizesAssumption
  <2> QED
    BY <2>1, OfferTyped DEF WriteBody
<1>2. n \in Int /\ bodyLimit[side] - length[side] \in Int
  BY SizesAssumption DEF BuffersTyped
<1>3. Outcome(side) /\ Buffered(side)
  <2>1. CASE BodyIgnored(side) /\ UNCHANGED <<bodyVars, failure>>
    BY <2>1, IgnoredEffect
  <2>2. CASE Fail("error") /\ UNCHANGED bodyVars
    BY <2>2, RefusedEffect
  <2>3. CASE /\ BodyOpen(side) /\ Rejects(side) /\ Flag(side) /\ RejectBody(side)
             /\ UNCHANGED <<length, bodyError, parserFailed, failure>>
    BY <2>3, RejectedEffect
  <2>4. CASE Flag(side) /\ Store(side, bodyLimit[side] - length[side], TRUE)
    <3>1. PICK k \in Int : Store(side, k, TRUE)
      BY <1>2, <2>4, Zenon
    <3> QED
      BY <2>4, <3>1, StoreEffect, Zenon DEF Flag
  <2>5. CASE Store(side, n, FALSE) /\ UNCHANGED dataError
    <3>1. dataError' = [dataError EXCEPT ![side] = dataError[side]]
      BY <2>5 DEF BuffersTyped
    <3>2. \E d \in BOOLEAN : dataError' = [dataError EXCEPT ![side] = d]
      BY <3>1, ZenonT(40) DEF BuffersTyped
    <3> QED
      BY <1>2, <2>5, <3>2, StoreEffect, Zenon
  <2> QED
    BY <2>1, <2>2, <2>3, <2>4, <2>5, Zenon DEF WriteBody
<1> QED
  BY <1>0, <1>1, <1>3 DEF BodyCall

LEMMA ReadIsBodyCall ==
  ASSUME BuffersTyped, NEW side \in Sides, NEW len \in Lengths \cup {Unknown}, NEW avail \in Sizes,
         ReadBody(side, len, avail)
  PROVE  BodyCall(side)
<1>1. pc = "idle" /\ UNCHANGED <<waf, modeVars, flowVars, responseStatus, auditLog>>
  BY DEF ReadBody
<1>0. offered' \in [Sides -> Nat]
  <2>1. PICK k \in {len, avail} : Offer(side, k) /\ (k = len => len # Unknown \/ k = avail)
    BY DEF ReadBody
  <2>2. k \in Nat
    BY <2>1, SizesAssumption DEF Unknown
  <2> QED
    BY <2>1, <2>2, OfferTyped
<1>2. len \in Int /\ avail \in Nat /\ bodyLimit[side] - length[side] \in Int
  <2>1. len \in Int /\ avail \in Nat
    <3>1. MaxInt \in Nat /\ Sizes \subseteq 0..MaxInt /\ Lengths \subseteq 0..MaxInt
      BY SizesAssumption
    <3>2. avail \in Nat
      BY <3>1
    <3>3. CASE len \in Lengths
      BY <3>1, <3>2, <3>3
    <3>4. CASE len = Unknown
      BY <3>2, <3>4 DEF Unknown
    <3> QED
      BY <3>3, <3>4
  <2>2. bodyLimit[side] \in Int /\ length[side] \in Nat
    BY DEF BuffersTyped
  <2> QED
    BY <2>1, <2>2
<1>3. Outcome(side) /\ Buffered(side)
  <2>1. CASE BodyIgnored(side) /\ UNCHANGED <<bodyVars, failure>>
    BY <2>1, IgnoredEffect
  <2>2. CASE Fail("error") /\ UNCHANGED bodyVars
    BY <2>2, RefusedEffect
  <2>3. CASE /\ BodyOpen(side) /\ Rejects(side) /\ Flag(side) /\ RejectBody(side)
             /\ UNCHANGED <<length, bodyError, parserFailed, failure>>
    BY <2>3, RejectedEffect
  <2>4. CASE BodyOpen(side) /\ Copy(side, bodyLimit[side] - length[side], avail, FALSE, FALSE)
    <3>1. PICK k \in Int : Copy(side, k, avail, FALSE, FALSE)
      BY <1>2, <2>4, Zenon
    <3> QED
      BY <1>2, <2>4, <3>1, CopyEffect, Zenon
  <2>5. CASE BodyOpen(side) /\ Copy(side, bodyLimit[side] - length[side], avail, TRUE, TRUE)
    <3>1. PICK k \in Int : Copy(side, k, avail, TRUE, TRUE)
      BY <1>2, <2>5, Zenon
    <3> QED
      BY <1>2, <2>5, <3>1, CopyEffect, Zenon
  <2>6. CASE BodyOpen(side) /\ Copy(side, len, avail, FALSE, FALSE)
    BY <1>2, <2>6, CopyEffect, Zenon
  <2> QED
    BY <2>1, <2>2, <2>3, <2>4, <2>5, <2>6, Zenon DEF ReadBody
<1> QED
  BY <1>0, <1>1, <1>3 DEF BodyCall

LEMMA ProcessIsBodyCall ==
  ASSUME BuffersTyped, NEW side \in Sides, NEW len, pc = "idle", ProcessBody(side, len),
         UNCHANGED <<waf, modeVars, flowVars, length, dataError, responseStatus, auditLog, offered>>
  PROVE  BodyCall(side)
<1>1. Grow(side, 0)
  BY DEF BuffersTyped, Grow
<1>2. dataError' = [dataError EXCEPT ![side] = dataError[side]]
  BY DEF BuffersTyped
<1>3. /\ Outcome(side)
      /\ \E e \in BOOLEAN : bodyError' = [bodyError EXCEPT ![side] = e]
      /\ parserFailed' \subseteq parserFailed \cup {side}
      /\ failure' \in {failure, "error"}
  BY ProcessBodyEffect
<1>4. Buffered(side)
  BY <1>1, <1>2, <1>3, Zenon DEF Buffered, BuffersTyped
<1> QED
  BY <1>3, <1>4 DEF BodyCall, BuffersTyped

-----------------------------------------------------------------------------
(* The type invariant *)

\* While Eval runs, a phase is current, and a rule under evaluation and its
\* link exist.
Located ==
  /\ pc \in {"eval", "link", "act", "return"} => lastPhase \in Phases
  /\ pc \in {"link", "act"} => ri \in DOMAIN waf.rules /\ link \in DOMAIN Current.links

\* The steps of a transaction, the body calls taken together.
Step ==
  \/ EvalRule \/ Return
  \/ ProcessRequestHeaders \/ \E code \in Statuses : ProcessResponseHeaders(code)
  \/ \E side \in Sides : BodyCall(side)
  \/ ProcessLogging \/ Close \/ NewTransaction

LEMMA NextIsStep ==
  ASSUME BuffersTyped, Next
  PROVE  Step
<1> USE DEF Step
<1>1. "request" \in Sides /\ "response" \in Sides
  BY DEF Sides
<1>2. CASE \E n \in Sizes : WriteRequestBody(n) \/ WriteResponseBody(n)
  BY <1>1, <1>2, WriteIsBodyCall DEF WriteRequestBody, WriteResponseBody
<1>3. CASE \E len \in Lengths \cup {Unknown}, avail \in Sizes :
             ReadRequestBodyFrom(len, avail) \/ ReadResponseBodyFrom(len, avail)
  BY <1>1, <1>3, ReadIsBodyCall DEF ReadRequestBodyFrom, ReadResponseBodyFrom
<1>4. CASE ProcessRequestBody
  <2>1. PICK len : ProcessBody("request", len)
    BY <1>4 DEF ProcessRequestBody
  <2> QED
    BY <1>1, <1>4, <2>1, ProcessIsBodyCall DEF ProcessRequestBody
<1>5. CASE ProcessResponseBody
  <2>1. PICK len : ProcessBody("response", len)
    BY <1>5 DEF ProcessResponseBody
  <2> QED
    BY <1>1, <1>5, <2>1, ProcessIsBodyCall DEF ProcessResponseBody
<1> QED
  BY <1>2, <1>3, <1>4, <1>5 DEF Next, Call

LEMMA TypeOKBuffers == TypeOK => BuffersTyped
BY SMTT(40) DEF TypeOK, BuffersTyped

\* A rule that Eval is about to look at, or is evaluating, is a rule.
LEMMA CurrentTyped ==
  ASSUME TypeOK, ri \in DOMAIN waf.rules
  PROVE  /\ Current \in Rule
         /\ Len(Current.links) \in Nat \ {0}
         /\ DOMAIN Current.links = 1..Len(Current.links)
         /\ \A k \in DOMAIN Current.links : Current.links[k].ctl \in Ctl
         /\ Current.id = NoID => Current.disruptive = "pass"
BY RulesTyped, WAFsTyped DEF TypeOK, Current

LEMMA RuleIndex ==
  ASSUME TypeOK
  PROVE  /\ DOMAIN waf.rules = 1..Len(waf.rules) /\ Len(waf.rules) \in Nat
         /\ AtRule => ri \in DOMAIN waf.rules
<1>1. waf.rules \in Seq(Rule)
  BY WAFsTyped DEF TypeOK, WAF
<1> QED
  BY <1>1 DEF TypeOK, AtRule

\* ctl actions keep the modes and the limits within their types.
LEMMA ApplyCtlTyped ==
  ASSUME TypeOK, NEW c \in Ctl, ApplyCtl(c)
  PROVE  /\ ruleEngine' \in EngineModes /\ auditEngine' \in AuditModes
         /\ bodyAccess' \in [Sides -> BOOLEAN] /\ bodyLimit' \in [Sides -> Int]
         /\ ruleRemoveByID' \subseteq Nat /\ engines' \subseteq EngineModes
<1>1. ruleEngine' \in EngineModes /\ engines' \subseteq EngineModes
  BY CtlTyped, SMTT(40) DEF TypeOK, ApplyCtl, SetRuleEngine
<1>2. auditEngine' \in AuditModes
  BY CtlTyped DEF TypeOK, ApplyCtl, SetAuditEngine
<1>3. bodyAccess' \in [Sides -> BOOLEAN]
  BY CtlTyped, SMTT(40) DEF TypeOK, ApplyCtl, SetBodyAccess
<1>4. bodyLimit' \in [Sides -> Int]
  BY CtlTyped, SMTT(40) DEF TypeOK, ApplyCtl, SetBodyLimit
<1>5. ruleRemoveByID' \subseteq Nat
  BY CtlTyped, Zenon DEF TypeOK, ApplyCtl, RemoveRules
<1> QED
  BY <1>1, <1>2, <1>3, <1>4, <1>5, SMTT(40)

\* The disruptive action of a rule leaves an interruption and an allow type.
LEMMA DisruptTyped ==
  ASSUME TypeOK, NEW r \in Rule, Disrupt(r)
  PROVE  /\ interruption' \in Interruption /\ detectionOnlyInterruption' \in Interruption
         /\ allowType' \in AllowTypes
<1> DEFINE it == [action |-> r.disruptive, status |-> InterruptionStatus(r), rule |-> r.id]
<1>1. CASE r.disruptive = "pass" /\ UNCHANGED <<interruption, detectionOnlyInterruption, allowType>>
  BY <1>1 DEF TypeOK
<1>2. CASE r.disruptive \in {"deny", "drop", "redirect"} /\ Interrupt(it) /\ UNCHANGED allowType
  <2>1. InterruptionStatus(r) \in Nat
    BY DEF InterruptionStatus, Rule
  <2>2. it \in Interruption
    BY <1>2, <2>1 DEF Interruption, Rule
  <2> QED
    BY <1>2, <2>2 DEF TypeOK, Interrupt
<1>3. CASE /\ r.disruptive \in DOMAIN AllowOf
           /\ Allow(AllowOf[r.disruptive])
           /\ UNCHANGED <<interruption, detectionOnlyInterruption>>
  <2>1. AllowOf[r.disruptive] \in AllowTypes
    BY <1>3 DEF AllowOf, AllowTypes
  <2> QED
    BY <1>3, <2>1 DEF TypeOK, Allow
<1> QED
  BY <1>1, <1>2, <1>3 DEF Disrupt

\* A step of Eval.
LEMMA EvalTyped ==
  ASSUME TypeOK, Located, EvalRule
  PROVE  TypeOK' /\ Located'
<1> USE DEF modeVars, flowVars, verdictVars, loopVars, bodyVars, callVars
<1>1. UNCHANGED <<length, dataError, bodyError, responseStatus, auditLog, told, failure, parserFailed,
                offered>>
  BY SMTT(40) DEF EvalRule
<1>2. CASE PassOver
  BY <1>1, <1>2, SMTT(40) DEF PassOver, NextRule, TypeOK, Located, AtRule
<1>3. CASE SkipToMarker
  <2>1. skipAfter' \in Marks \cup {NoMark}
    BY <1>3, SMTT(40) DEF SkipToMarker, TypeOK
  <2> QED
    BY <1>1, <1>3, <2>1, SMTT(40) DEF SkipToMarker, NextRule, TypeOK, Located, AtRule
<1>4. CASE SkipRule
  BY <1>1, <1>4, SMTT(40) DEF SkipRule, SkipOver, NextRule, TypeOK, Located, AtRule
<1>5. CASE EvaluateRule
  <2>1. ri \in DOMAIN waf.rules /\ 1 \in DOMAIN Current.links
    BY <1>5, RuleIndex, CurrentTyped, SMTT(40) DEF EvaluateRule, Reached
  <2>2. Located'
    BY <1>5, <2>1, ZenonT(40) DEF EvaluateRule, Reached, AtRule, Located, Current
  <2> QED
    BY <1>1, <1>5, <2>2, SMTT(40) DEF EvaluateRule, TypeOK
<1>6. CASE MatchLink
  <2>1. ri \in DOMAIN waf.rules /\ link \in DOMAIN Current.links
    BY <1>6 DEF MatchLink, Located
  <2>2. Current.links[link].ctl \in Ctl
    BY <2>1, CurrentTyped
  <2>3. /\ ruleEngine' \in EngineModes /\ auditEngine' \in AuditModes
        /\ bodyAccess' \in [Sides -> BOOLEAN] /\ bodyLimit' \in [Sides -> Int]
        /\ ruleRemoveByID' \subseteq Nat /\ engines' \subseteq EngineModes
    <3>1. PICK c \in Ctl : ApplyCtl(c)
      BY <1>6, <2>2, SMTT(40) DEF MatchLink
    <3> QED
      BY <3>1, ApplyCtlTyped
  <2>4. link' \in DOMAIN Current.links /\ link' \in Nat \ {0} /\ pc' \in {"link", "act"}
    BY <1>6, <2>1, CurrentTyped, SMTT(40) DEF MatchLink, TypeOK
  <2>5. Located'
    <3>1. UNCHANGED <<waf, ri>>
      BY <1>6 DEF MatchLink
    <3> QED
      BY <1>6, <2>1, <2>4, <3>1, SMTT(40) DEF MatchLink, Located, Current
  <2>6. UNCHANGED <<waf, skip, skipAfter, allowType, verdictVars, lastPhase, ri, evaluated>>
    BY <1>6 DEF MatchLink
  <2>7. TypeOK'
    BY <1>1, <2>3, <2>4, <2>6, SMTT(40) DEF TypeOK
  <2> QED
    BY <2>5, <2>7
<1>7. CASE FailLink
  BY <1>1, <1>7, SMTT(40) DEF FailLink, NextRule, TypeOK, Located
<1>8. CASE RunActions
  <2>1. Current \in Rule
    BY <1>8, CurrentTyped DEF RunActions, Located
  <2>2. /\ interruption' \in Interruption /\ detectionOnlyInterruption' \in Interruption
        /\ allowType' \in AllowTypes
    <3>1. PICK r \in Rule : Disrupt(r)
      BY <1>8, <2>1 DEF RunActions
    <3> QED
      BY <3>1, DisruptTyped
  <2>3. audit' \in BOOLEAN
    BY <1>8, SMTT(40) DEF RunActions, MatchRule
  <2>4. matchedRules' \subseteq [id : Nat, real : BOOLEAN]
    <3>1. [id |-> Current.id, real |-> ruleEngine = "On"] \in [id : Nat, real : BOOLEAN]
      BY <2>1 DEF Rule
    <3> QED
      BY <1>8, <3>1, Zenon DEF RunActions, MatchRule, TypeOK
  <2>5. skip' \in Nat /\ skipAfter' \in Marks \cup {NoMark}
    BY <1>8, <2>1 DEF RunActions, TypeOK, Rule
  <2> QED
    BY <1>1, <1>8, <2>2, <2>3, <2>4, <2>5, SMTT(40) DEF RunActions, NextRule, TypeOK, Located
<1>9. CASE BreakOnAllow
  <2>1. /\ pc = "eval" /\ pc' = "return"
        /\ UNCHANGED <<waf, modeVars, skipAfter, verdictVars, lastPhase, ri, link, evaluated>>
    BY <1>9 DEF BreakOnAllow, Reached, AtRule
  <2>2. allowType' \in AllowTypes /\ skip' \in Nat
    BY <1>9 DEF BreakOnAllow, AfterLoop, TypeOK, AllowTypes
  <2>3. Located'
    BY <2>1 DEF Located
  <2>4. TypeOK'
    BY <1>1, <2>1, <2>2, SMTT(40) DEF TypeOK
  <2> QED
    BY <2>3, <2>4
<1>10. CASE EndOfLoop
  BY <1>1, <1>10, SMTT(40) DEF EndOfLoop, AfterLoop, TypeOK, Located, AllowTypes
<1> QED
  BY <1>2, <1>3, <1>4, <1>5, <1>6, <1>7, <1>8, <1>9, <1>10 DEF EvalRule, EvalStep

\* Entering Eval.
LEMMA EnterTyped ==
  ASSUME TypeOK, NEW phase \in Phases, Enter(phase)
  PROVE  /\ lastPhase' \in 0..5 /\ pc' \in {"idle", "eval", "link", "act", "return", "closed"}
         /\ ri' \in Nat \ {0} /\ link' \in Nat \ {0} /\ evaluated' \in [Phases -> 0..2]
         /\ pc' = "eval" /\ lastPhase' \in Phases
BY DEF TypeOK, Enter, Phases

\* The interruption a call returns is one.
LEMMA AnswerTyped ==
  ASSUME TypeOK, NEW it \in {NoInterruption, interruption}, Answer(it)
  PROVE  told' \in Interruption /\ UNCHANGED <<verdictVars, loopVars>>
BY DEF TypeOK, Answer, Returning

\* The interruption of a body limit is one.
LEMMA LimitTyped ==
  ASSUME NEW side \in Sides
  PROVE  [action |-> "deny", status |-> LimitStatus[side], rule |-> NoID] \in Interruption
<1>1. LimitStatus[side] \in Nat
  BY DEF LimitStatus, Sides
<1> QED
  BY <1>1 DEF Interruption, NoID

\* A call on a body.
LEMMA BodyCallTyped ==
  ASSUME TypeOK, Located, NEW side \in Sides, BodyCall(side)
  PROVE  TypeOK' /\ Located'
<1> USE DEF modeVars, flowVars, verdictVars, loopVars
<1>1. pc = "idle" /\ UNCHANGED <<waf, modeVars, flowVars, responseStatus, auditLog>>
  BY SMTT(40) DEF BodyCall
<1>2. /\ length' \in [Sides -> Nat]
      /\ dataError' \in [Sides -> BOOLEAN] /\ bodyError' \in [Sides -> BOOLEAN]
      /\ parserFailed' \subseteq Sides /\ failure' \in {"none", "error", "full", "panic"}
      /\ offered' \in [Sides -> Nat]
  <2>1. /\ length \in [Sides -> Nat] /\ parserFailed \subseteq Sides
        /\ dataError \in [Sides -> BOOLEAN] /\ bodyError \in [Sides -> BOOLEAN]
        /\ failure \in {"none", "error", "full", "panic"}
    BY DEF TypeOK
  <2>2. Buffered(side) /\ offered' \in [Sides -> Nat]
    BY DEF BodyCall
  <2>3. length' \in [Sides -> Nat]
    BY <2>1, <2>2 DEF Buffered, Grow
  <2>4. dataError' \in [Sides -> BOOLEAN] /\ bodyError' \in [Sides -> BOOLEAN]
    BY <2>1, <2>2 DEF Buffered
  <2>5. parserFailed' \subseteq Sides /\ failure' \in {"none", "error", "full", "panic"}
    BY <2>1, <2>2 DEF Buffered
  <2> QED
    BY <2>2, <2>3, <2>4, <2>5
<1>3. CASE \E it \in {NoInterruption, interruption} : Answer(it)
  <2>1. told' \in Interruption /\ UNCHANGED <<verdictVars, loopVars>>
    BY <1>3, AnswerTyped
  <2>2. Located'
    BY <1>1, <2>1 DEF Located
  <2>3. TypeOK'
    BY <1>1, <1>2, <2>1, SMTT(40) DEF TypeOK
  <2> QED
    BY <2>2, <2>3
<1>4. CASE RejectBody(side)
  <2>1. [action |-> "deny", status |-> LimitStatus[side], rule |-> NoID] \in Interruption
    BY LimitTyped
  <2>2. interruption' \in Interruption /\ told' \in Interruption
    BY <1>4, <2>1, SMTT(40) DEF RejectBody, Returning, TypeOK
  <2>3. UNCHANGED <<detectionOnlyInterruption, audit, matchedRules, loopVars>>
    BY <1>4 DEF RejectBody
  <2>4. Located'
    BY <1>1, <2>3 DEF Located
  <2>5. TypeOK'
    BY <1>1, <1>2, <2>2, <2>3, SMTT(40) DEF TypeOK
  <2> QED
    BY <2>4, <2>5
<1>5. CASE Enter(BodyPhase(side)) /\ UNCHANGED <<verdictVars, told>>
  <2>1. PICK phase \in Phases : Enter(phase)
    BY <1>5 DEF BodyPhase, HeaderPhase, Phases, RequestHeaders, ResponseHeaders
  <2> QED
    BY <1>1, <1>2, <1>5, <2>1, EnterTyped, ZenonT(40) DEF TypeOK, Located
<1> QED
  BY <1>3, <1>4, <1>5 DEF BodyCall, Outcome

\* The decision about the audit log has one of its outcomes.
LEMMA AuditTyped ==
  ASSUME TypeOK, DecideAudit \/ UNCHANGED auditLog
  PROVE  auditLog' \in {"no", "skipped", "written"}
<1>1. auditLog \in {"no", "skipped", "written"}
  BY DEF TypeOK
<1> QED
  BY <1>1 DEF DecideAudit

\* The other calls.
LEMMA CallTyped ==
  ASSUME TypeOK, Located,
         \/ ProcessRequestHeaders \/ \E code \in Statuses : ProcessResponseHeaders(code)
         \/ Return \/ ProcessLogging \/ Close \/ NewTransaction
  PROVE  TypeOK' /\ Located'
<1> USE DEF modeVars, flowVars, verdictVars, loopVars, bodyVars
<1>1. NoInterruption \in Interruption
  BY DEF NoInterruption, Interruption, NoID
<1>2. ASSUME NEW it \in {NoInterruption, interruption}, Returning(it)
      PROVE  told' \in Interruption
  BY <1>2, SMTT(40) DEF Returning, TypeOK
<1>3. CASE ProcessRequestHeaders
  <2>1. CASE Enter(RequestHeaders) /\ UNCHANGED <<verdictVars, told>>
    <3>1. RequestHeaders \in Phases
      BY DEF Phases, RequestHeaders
    <3> QED
      BY <1>3, <2>1, <3>1, EnterTyped, ZenonT(40) DEF ProcessRequestHeaders, TypeOK, Located
  <2>2. CASE \E it \in {NoInterruption, interruption} : Answer(it)
    BY <1>3, <2>2, AnswerTyped, ZenonT(40) DEF ProcessRequestHeaders, TypeOK, Located
  <2> QED
    BY <1>3, <2>1, <2>2, SMTT(40) DEF ProcessRequestHeaders
<1>4. ASSUME NEW code \in Statuses, ProcessResponseHeaders(code)
      PROVE  TypeOK' /\ Located'
  <2>0. responseStatus' \in Nat
    BY <1>4, SizesAssumption, ZenonT(40) DEF ProcessResponseHeaders, TypeOK
  <2>1. CASE Enter(ResponseHeaders) /\ UNCHANGED <<verdictVars, told>>
    <3>1. ResponseHeaders \in Phases
      BY SMTT(40) DEF Phases, ResponseHeaders
    <3> QED
      BY <1>4, <2>0, <2>1, <3>1, EnterTyped, ZenonT(40) DEF ProcessResponseHeaders, TypeOK, Located
  <2>2. CASE \E it \in {NoInterruption, interruption} : Answer(it)
    BY <1>4, <2>0, <2>2, AnswerTyped, ZenonT(40) DEF ProcessResponseHeaders, TypeOK, Located
  <2> QED
    BY <1>4, <2>1, <2>2, SMTT(40) DEF ProcessResponseHeaders
<1>5. CASE Return
  <2>1. told' \in Interruption
    <3>1. UNCHANGED told \/ Returning(interruption)
      BY <1>5 DEF Return
    <3>2. told \in Interruption
      BY DEF TypeOK
    <3> QED
      BY <1>2, <3>1, <3>2
  <2>2. auditLog' \in {"no", "skipped", "written"}
    <3>1. DecideAudit \/ UNCHANGED auditLog
      BY <1>5 DEF Return
    <3> QED
      BY <3>1, AuditTyped
  <2> QED
    BY <1>5, <2>1, <2>2, ZenonT(40) DEF Return, TypeOK, Located
<1>6. CASE ProcessLogging
  <2>1. auditLog' \in {"no", "skipped", "written"}
    <3>1. DecideAudit \/ UNCHANGED auditLog
      BY <1>6 DEF ProcessLogging
    <3> QED
      BY <3>1, AuditTyped
  <2>2. CASE Enter(Logging)
    <3>1. Logging \in Phases
      BY SMTT(40) DEF Phases, Logging
    <3> QED
      BY <1>6, <2>1, <2>2, <3>1, EnterTyped, Zenon DEF ProcessLogging, TypeOK, Located
  <2>3. CASE UNCHANGED loopVars
    BY <1>6, <2>1, <2>3, ZenonT(40) DEF ProcessLogging, TypeOK, Located
  <2> QED
    BY <1>6, <2>2, <2>3, SMTT(40) DEF ProcessLogging
<1>7. CASE Close
  BY <1>7, ZenonT(40) DEF Close, TypeOK, Located
<1>8. CASE NewTransaction
  <2>1. /\ waf.ruleEngine \in EngineModes /\ waf.auditEngine \in AuditModes
        /\ waf.access \in [Sides -> BOOLEAN] /\ waf.limit \in [Sides -> Int]
    <3>1. waf \in WAFs
      BY SMTT(40) DEF TypeOK
    <3> QED
      BY <3>1, WAFFields, SMTT(40)
  <2>2. evaluated' \in [Phases -> 0..2]
    BY <1>8, SMTT(40) DEF NewTransaction
  <2>3. bodyError' \in [Sides -> BOOLEAN]
    BY <1>8, Zenon DEF NewTransaction, TypeOK
  <2>4. /\ ruleEngine' \in EngineModes /\ auditEngine' \in AuditModes
        /\ bodyAccess' \in [Sides -> BOOLEAN] /\ bodyLimit' \in [Sides -> Int]
        /\ ruleRemoveByID' \subseteq Nat /\ engines' \subseteq EngineModes
    BY <1>8, <2>1 DEF NewTransaction
  <2>5. /\ allowType' \in AllowTypes /\ skip' \in Nat /\ skipAfter' \in Marks \cup {NoMark}
        /\ interruption' \in Interruption /\ detectionOnlyInterruption' \in Interruption
        /\ audit' \in BOOLEAN /\ matchedRules' \subseteq [id : Nat, real : BOOLEAN]
    BY <1>1, <1>8, ZenonT(40) DEF NewTransaction, ResetFlow, ResetVerdict, AllowTypes
  <2>6. /\ pc' = "idle" /\ lastPhase' = 0 /\ ri' = 1 /\ link' = 1 /\ auditLog' = "no"
        /\ told' = NoInterruption /\ failure' = "none" /\ parserFailed' = {}
        /\ UNCHANGED <<waf, length, dataError, responseStatus, offered>>
    BY <1>8 DEF NewTransaction
  <2>7. Located'
    BY <2>6 DEF Located
  <2>8. TypeOK'
    BY <1>1, <2>2, <2>3, <2>4, <2>5, <2>6, SMTT(40) DEF TypeOK
  <2> QED
    BY <2>7, <2>8
<1> QED
  BY <1>3, <1>4, <1>5, <1>6, <1>7, <1>8

LEMMA InitTyped == Init => TypeOK /\ Located
<1> SUFFICES ASSUME Init PROVE TypeOK /\ Located
  OBVIOUS
<1>1. /\ waf.ruleEngine \in EngineModes /\ waf.auditEngine \in AuditModes
      /\ waf.access \in [Sides -> BOOLEAN] /\ waf.limit \in [Sides -> Int]
  <2>1. waf \in WAFs
    BY DEF Init
  <2> QED
    BY <2>1, WAFFields
<1>2. NoInterruption \in Interruption
  BY DEF NoInterruption, Interruption, NoID
<1>3. evaluated \in [Phases -> 0..2] /\ length \in [Sides -> Nat] /\ offered \in [Sides -> Nat]
  BY DEF Init
<1>4. dataError \in [Sides -> BOOLEAN] /\ bodyError \in [Sides -> BOOLEAN]
  BY SMTT(40) DEF Init
<1>5. /\ waf \in WAFs /\ ruleEngine \in EngineModes /\ auditEngine \in AuditModes
      /\ bodyAccess \in [Sides -> BOOLEAN] /\ bodyLimit \in [Sides -> Int]
      /\ engines \subseteq EngineModes /\ ruleRemoveByID \subseteq Nat
  BY <1>1, SMTT(40) DEF Init
<1>6. Located
  BY DEF Init, Located
<1>7. audit \in BOOLEAN /\ matchedRules \subseteq [id : Nat, real : BOOLEAN]
  BY ZenonT(40) DEF Init
<1>8. /\ interruption \in Interruption /\ detectionOnlyInterruption \in Interruption
      /\ told \in Interruption
  BY <1>2 DEF Init
<1>9. /\ lastPhase \in 0..5 /\ allowType \in AllowTypes /\ skip \in Nat
      /\ skipAfter \in Marks \cup {NoMark} /\ ri \in Nat \ {0} /\ link \in Nat \ {0}
      /\ pc \in {"idle", "eval", "link", "act", "return", "closed"} /\ responseStatus \in Nat
      /\ auditLog \in {"no", "skipped", "written"} /\ parserFailed \subseteq Sides
      /\ failure \in {"none", "error", "full", "panic"}
  BY DEF Init, AllowTypes
<1> QED
  BY <1>3, <1>4, <1>5, <1>6, <1>7, <1>8, <1>9 DEF TypeOK

LEMMA StepTyped ==
  ASSUME TypeOK, Located, [Next]_vars
  PROVE  TypeOK' /\ Located'
<1>1. CASE Next
  <2>1. Step
    BY <1>1, NextIsStep, TypeOKBuffers
  <2> QED
    BY <2>1, EvalTyped, BodyCallTyped, CallTyped DEF Step
<1>2. CASE UNCHANGED vars
  BY <1>2, ZenonT(40) DEF vars, ruleVars, modeVars, flowVars, verdictVars, loopVars, bodyVars, callVars,
              TypeOK, Located, Current
<1> QED
  BY <1>1, <1>2

\* Every field of a transaction keeps its type, and Eval always stands at an
\* existing rule and link, whatever the rules and whatever the connector calls.
THEOREM TypeCorrect == Spec => [](TypeOK /\ Located)
<1>1. Init => TypeOK /\ Located
  BY InitTyped
<1>2. TypeOK /\ Located /\ [Next]_vars => (TypeOK /\ Located)'
  BY StepTyped
<1> QED
  BY <1>1, <1>2, PTL DEF Spec

=============================================================================
