------------------------- MODULE CoordinatorProofs -------------------------
(***************************************************************************)
(* Theorems about Coordinator, for any number of turns, any number of them *)
(* in flight, any limits, with failures and expiry allowed or not: first   *)
(* the sessions, then what the turns leave outside themselves, whatever    *)
(* turns interleave, stop half-way or lose the answer of the tracker, and  *)
(* last that each turn acts as one on the session: it implements           *)
(* SessionFlow.                                                            *)
(***************************************************************************)
EXTENDS SessionHistory, FiniteSetTheorems, TLAPS

-----------------------------------------------------------------------------
(* The routing rules are total: a typed snapshot always has a next step,   *)
(* and a step that escalates carries a reason CS can read.                 *)
LEMMA NextStepTyped ==
  ASSUME NEW r \in RouteState
  PROVE  /\ NextStep(r).step \in AgentSteps \cup TerminalSteps
         /\ NextStep(r).step = "escalate" => NextStep(r).reason \in HandoffReasons
<1>1. CASE r.verifyOutcome # "none"
  BY <1>1 DEF RouteState, Optional, PendingFlows, TriageTargets, KnowledgeStatuses,
     VerifyOutcomes, NextStep, ResumeFlow, AfterVerification, Go, AgentSteps, TerminalSteps,
     HandoffReasons, NotifyReasons
<1>2. CASE r.verifyOutcome = "none" /\ r.knowledgeStatus # "none"
  BY <1>2 DEF RouteState, Optional, PendingFlows, TriageTargets, KnowledgeStatuses,
     VerifyOutcomes, NextStep, ResumeFlow, AfterKnowledge, Go, AgentSteps, TerminalSteps,
     HandoffReasons, NotifyReasons
<1>3. CASE r.verifyOutcome = "none" /\ r.knowledgeStatus = "none"
  BY <1>3 DEF RouteState, Optional, PendingFlows, TriageTargets, KnowledgeStatuses,
     VerifyOutcomes, NextStep, ResumeFlow, AfterTriage, Go, AgentSteps, TerminalSteps,
     HandoffReasons, NotifyReasons
<1>4. QED BY <1>1, <1>2, <1>3

(* Every way the driver changes its copy of the session keeps it a session.*)
LEMMA SessionOperatorsTyped ==
  ASSUME NEW s \in SessionState
  PROVE  /\ CloseFlow(s) \in SessionState
         /\ TakeContact(s) \in SessionState
         /\ \A wants \in BOOLEAN : MaybeCancel(s, wants) \in SessionState
         /\ SpendClarify(s) \in SessionState
         /\ AskToClarify(s) \in SessionState
         /\ \A t \in Turns : OpenVerification(s, t) \in SessionState
         /\ CountVerifyTurn(s) \in SessionState
         /\ \A o \in VerifyOutcomes : AfterVerdict(s, o) \in SessionState
         /\ \A why \in HandoffReasons, r \in Refs : ArmGate(s, why, r) \in SessionState
<1> USE DEF SessionState, Optional, PendingFlows
<1>1. NoContext \in Contexts BY DEF Contexts
<1>2. CloseFlow(s) \in SessionState BY <1>1 DEF CloseFlow
<1>3. TakeContact(s) \in SessionState BY <1>1 DEF TakeContact
<1>4. \A wants \in BOOLEAN : MaybeCancel(s, wants) \in SessionState
  BY <1>2 DEF MaybeCancel
<1>5. SpendClarify(s) \in SessionState BY DEF SpendClarify
<1>6. AskToClarify(s) \in SessionState
  <2>1. s.clarifyCount + 1 \in Nat OBVIOUS
  <2>2. QED BY <2>1 DEF AskToClarify
<1>7. \A t \in Turns : OpenVerification(s, t) \in SessionState
  <2> TAKE t \in Turns
  <2>1. VerifyContext(t) \in Contexts BY DEF Contexts, VerifyContext
  <2>2. QED BY <2>1 DEF OpenVerification
<1>8. CountVerifyTurn(s) \in SessionState BY DEF CountVerifyTurn
<1>9. \A o \in VerifyOutcomes : AfterVerdict(s, o) \in SessionState
  BY <1>2 DEF AfterVerdict
<1>10. \A why \in HandoffReasons, r \in Refs : ArmGate(s, why, r) \in SessionState
  <2> TAKE why \in HandoffReasons, r \in Refs
  <2>1. GateContext(why, r) \in Contexts BY DEF Contexts, GateContext, Refs
  <2>2. QED BY <2>1 DEF ArmGate
<1>11. QED BY <1>2, <1>3, <1>4, <1>5, <1>6, <1>7, <1>8, <1>9, <1>10

(* The two ways a snapshot is built give a snapshot.                       *)
LEMMA RouteOperatorsTyped ==
  ASSUME NEW s \in SessionState
  PROVE  /\ \A found \in BOOLEAN : StartRoute(s, found) \in RouteState
         /\ \A r \in RouteState, target \in TriageTargets :
              AfterStep(r, TriageReport(target), s) \in RouteState
         /\ \A r \in RouteState, status \in KnowledgeStatuses :
              AfterStep(r, KnowledgeReport(status), s) \in RouteState
         /\ \A r \in RouteState, outcome \in VerifyOutcomes :
              AfterStep(r, VerifyReport(outcome), s) \in RouteState
  BY DEF SessionState, RouteState, StartRoute, AfterStep, TriageReport, KnowledgeReport,
     VerifyReport, Optional

LEMMA StepReasonTyped ==
  ASSUME NEW r \in RouteState, NextStep(r).step = "escalate"
  PROVE  HandedOff(NextStep(r).reason) \in Results
BY NextStepTyped DEF HandedOff, Results, Optional

-----------------------------------------------------------------------------
(* Type correctness: every variable keeps its type whatever the turns do.  *)
LEMMA InitTyped == Init => TypeOK
<1> SUFFICES ASSUME Init PROVE TypeOK
  OBVIOUS
<1>1. FreshSession \in SessionState
  BY DEF FreshSession, SessionState, Optional, Contexts, NoContext
<1>2. NoRoute \in RouteState
  BY <1>1, RouteOperatorsTyped DEF NoRoute
<1>3. 0 \in TurnId BY CoordinatorConstants DEF TurnId
<1>4. NoRow \in Row /\ NoRefs \in Refs BY <1>3 DEF NoRow, Row, NoRefs, Refs
<1>5. PlainReply \in Results BY DEF PlainReply, Results, Optional
<1>6. QED BY <1>1, <1>2, <1>3, <1>4, <1>5 DEF Init, TypeOK, Locations, Optional

(* A step of one agent, folded back in.                                    *)
LEMMA FoldTyped ==
  ASSUME TypeOK, NEW t \in Turns, NEW s \in SessionState, NEW cited \in BOOLEAN, NEW report,
         AfterStep(route[t], report, s) \in RouteState,
         Fold(t, report, s, cited)
  PROVE  /\ local' \in [Turns -> SessionState]
         /\ route' \in [Turns -> RouteState]
         /\ result' \in [Turns -> Results]
         /\ pc' \in [Turns -> Locations]
<1>1. Answered(cited) \in Results BY DEF Answered, Results, Optional
<1>2. QED BY <1>1 DEF Fold, Goto, TypeOK, Locations

LEMMA TurnStepTyped ==
  ASSUME TypeOK, NEW t \in Turns, TurnStep(t)
  PROVE  TypeOK'
<1>t0. t \in TurnId /\ 0 \in TurnId BY CoordinatorConstants DEF Turns, TurnId
<1>t1. local[t] \in SessionState /\ route[t] \in RouteState /\ refs[t] \in Refs
  BY DEF TypeOK
<1>t2. PlainReply \in Results /\ NoRefs \in Refs
  BY <1>t0 DEF PlainReply, Results, Optional, NoRefs, Refs
<1>t3. FreshSession \in SessionState
  BY DEF FreshSession, SessionState, Optional, Contexts, NoContext
<1>t4. NoRoute \in RouteState BY <1>t3, RouteOperatorsTyped DEF NoRoute
<1>1. CASE BlockInput(t)
  BY <1>1, <1>t2 DEF BlockInput, Goto, TypeOK, durable, Locations
<1>2. CASE EnterRoute(t)
  <2>1. PICK found \in BOOLEAN, wants \in BOOLEAN :
          LET s == MaybeCancel(TakeContact(local[t]), wants) IN
          /\ local' = [local EXCEPT ![t] = s]
          /\ route' = [route EXCEPT ![t] = StartRoute(s, found)]
    BY <1>2 DEF EnterRoute
  <2>2. MaybeCancel(TakeContact(local[t]), wants) \in SessionState
    BY <1>t1, SessionOperatorsTyped
  <2>3. StartRoute(MaybeCancel(TakeContact(local[t]), wants), found) \in RouteState
    BY <2>2, RouteOperatorsTyped
  <2>4. RefsOf(local[t].context) \in Refs
    BY <1>t0, <1>t1, <1>t2 DEF RefsOf, SessionState, Contexts, Refs, NoContext
  <2>5. QED
    BY <1>2, <1>t2, <2>1, <2>2, <2>3, <2>4 DEF EnterRoute, Goto, TypeOK, durable, Locations
<1>3. CASE TriageStep(t)
  <2>1. PICK target \in TriageTargets : Fold(t, TriageReport(target), local[t], FALSE)
    BY <1>3 DEF TriageStep
  <2>2. AfterStep(route[t], TriageReport(target), local[t]) \in RouteState
    BY <1>t1, RouteOperatorsTyped
  <2>3. QED BY <1>3, <1>t1, <2>1, <2>2, FoldTyped DEF TriageStep, TypeOK, durable
<1>4. CASE KnowledgeAnswers(t)
  <2>1. SpendClarify(local[t]) \in SessionState BY <1>t1, SessionOperatorsTyped
  <2>2. \A status \in KnowledgeStatuses :
          AfterStep(route[t], KnowledgeReport(status), SpendClarify(local[t])) \in RouteState
    BY <1>t1, <2>1, RouteOperatorsTyped
  <2>3. PICK status \in KnowledgeStatuses, cited \in BOOLEAN :
          Fold(t, KnowledgeReport(status), SpendClarify(local[t]), cited)
    BY <1>4 DEF KnowledgeAnswers, KnowledgeStatuses
  <2>4. QED BY <1>4, <2>1, <2>2, <2>3, FoldTyped DEF KnowledgeAnswers, TypeOK, durable
<1>5. CASE KnowledgeAsks(t)
  <2>1. AskToClarify(local[t]) \in SessionState BY <1>t1, SessionOperatorsTyped
  <2>2. AfterStep(route[t], KnowledgeReport("clarify"), AskToClarify(local[t])) \in RouteState
    BY <1>t1, <2>1, RouteOperatorsTyped DEF KnowledgeStatuses
  <2>3. QED BY <1>5, <2>1, <2>2, FoldTyped DEF KnowledgeAsks, TypeOK, durable
<1>6. CASE LogMissingAnswer(t)
  <2>1. SpendClarify(local[t]) \in SessionState BY <1>t1, SessionOperatorsTyped
  <2>2. QED BY <1>6, <2>1 DEF LogMissingAnswer, Goto, TypeOK, Locations
<1>7. CASE QueueQuestion(t)
  <2>1. AfterStep(route[t], KnowledgeReport("no_answer"), local[t]) \in RouteState
    BY <1>t1, RouteOperatorsTyped DEF KnowledgeStatuses
  <2>2. QED BY <1>7, <1>t1, <2>1, FoldTyped DEF QueueQuestion, TypeOK
<1>8. CASE VerifyStep(t)
  <2> DEFINE after(o) == AfterVerdict(CountVerifyTurn(OpenVerification(local[t], t)), o)
  <2>1. PICK o \in VerifyOutcomes : Fold(t, VerifyReport(o), after(o), FALSE)
    BY <1>8 DEF VerifyStep
  <2>2. after(o) \in SessionState BY <1>t1, SessionOperatorsTyped
  <2>3. AfterStep(route[t], VerifyReport(o), after(o)) \in RouteState
    BY <1>t1, <2>2, RouteOperatorsTyped
  <2> HIDE DEF after
  <2>4. QED BY <1>8, <2>1, <2>2, <2>3, FoldTyped DEF VerifyStep, TypeOK, durable
<1>9. CASE ReplyStep(t)
  BY <1>9, <1>t4 DEF ReplyStep, LeaveRoute, Goto, TypeOK, durable, Locations
<1>10. CASE OutOfScopeStep(t)
  BY <1>10, <1>t2, <1>t4 DEF OutOfScopeStep, LeaveRoute, Goto, TypeOK, durable, Locations
<1>11. CASE EscalateStep(t)
  <2>1. HandedOff(NextStep(route[t]).reason) \in Results
    BY <1>11, <1>t1, StepReasonTyped DEF EscalateStep, AtStep
  <2>2. QED
    BY <1>11, <1>t2, <1>t4, <2>1
    DEF EscalateStep, HandOff, Page, LeaveRoute, Goto, TypeOK, Locations, Optional
<1>12. CASE CreateIssue(t)
  <2>1. FlowOf(local[t].context) \in TurnId
    BY <1>t0, <1>t1 DEF FlowOf, SessionState, Contexts, NoContext, Turns, TurnId
  <2>2. PICK stored, known \in BOOLEAN :
          /\ issues' = IF stored THEN [issues EXCEPT ![t] = FlowOf(local[t].context)] ELSE issues
          /\ refs' = [refs EXCEPT ![t] = [backlog |-> 0, issue |-> IF known THEN t ELSE 0]]
    BY <1>12 DEF CreateIssue
  <2>3. [backlog |-> 0, issue |-> IF known THEN t ELSE 0] \in Refs BY <1>t0 DEF Refs
  <2>4. QED BY <1>12, <2>1, <2>2, <2>3 DEF CreateIssue, Goto, TypeOK, Locations
<1>13. CASE AddBugRow(t)
  <2>1. FlowOf(local[t].context) \in TurnId
    BY <1>t0, <1>t1 DEF FlowOf, SessionState, Contexts, NoContext, Turns, TurnId
  <2>2. CloseFlow(local[t]) \in SessionState BY <1>t1, SessionOperatorsTyped
  <2>3. [filed |-> TRUE, flow |-> FlowOf(local[t].context), issue |-> refs[t].issue,
         contact |-> 0] \in Row
    BY <1>t0, <1>t1, <2>1 DEF Row, Refs
  <2>4. [refs EXCEPT ![t].backlog = t] \in [Turns -> Refs] BY <1>t0 DEF TypeOK, Refs
  <2>5. QED BY <1>13, <2>2, <2>3, <2>4 DEF AddBugRow, Goto, TypeOK, Locations
<1>14. CASE HandOffTicket(t)
  <2>1. HandedOff("verified bug") \in Results
    BY DEF HandedOff, Results, Optional, HandoffReasons, NotifyReasons
  <2>2. QED
    BY <1>14, <1>t4, <2>1
    DEF HandOffTicket, HandOff, Page, LeaveRoute, Goto, TypeOK, Locations, Optional
<1>15. CASE SetConversationContact(t)
  BY <1>15, <1>t0 DEF SetConversationContact, Goto, TypeOK, Locations
<1>16. CASE SetRowContact(t)
  <2>1. rows' \in [Turns -> Row]
    <3>1. CASE rows' = [rows EXCEPT ![refs[t].backlog].contact = t]
      BY <3>1, <1>t0 DEF TypeOK, Row
    <3>2. CASE UNCHANGED rows BY <3>2 DEF TypeOK
    <3>3. QED BY <1>16, <3>1, <3>2 DEF SetRowContact
  <2>2. QED BY <1>16, <2>1 DEF SetRowContact, Goto, TypeOK, Locations
<1>17. CASE AddContactNote(t)
  BY <1>17, <1>t0, <1>t2, <1>t4 DEF AddContactNote, LeaveRoute, Goto, TypeOK, Locations
<1>18. CASE ScreenReply(t)
  <2> DEFINE final(u) == IF u THEN HandedOff("ungrounded answer") ELSE result[t]
             made(u)  == IF u THEN NoRefs ELSE refs[t]
  <2>1. PICK u \in BOOLEAN :
          local' = IF final(u).escalated
                   THEN [local EXCEPT ![t] = ArmGate(local[t], final(u).reason, made(u))]
                   ELSE local
    BY <1>18 DEF ScreenReply
  <2>2. final(u) \in Results /\ made(u) \in Refs
    BY <1>t1, <1>t2 DEF HandedOff, Results, HandoffReasons, TypeOK
  <2>3. final(u).escalated => final(u).reason \in HandoffReasons
    BY <2>2 DEF Results
  <2> HIDE DEF final, made
  <2>4. final(u).escalated => ArmGate(local[t], final(u).reason, made(u)) \in SessionState
    BY <1>t1, <2>2, <2>3, SessionOperatorsTyped
  <2>5. local' \in [Turns -> SessionState]
    BY <2>1, <2>4 DEF TypeOK
  <2>6. QED BY <1>18, <1>t2, <2>5 DEF ScreenReply, Goto, TypeOK, durable, Locations
<1>19. CASE SaveSession(t)
  BY <1>19, <1>t1 DEF SaveSession, Goto, TypeOK, Locations
<1>20. CASE AppendUser(t)
  BY <1>20 DEF AppendUser, Goto, TypeOK, Locations
<1>21. CASE AppendReply(t)
  BY <1>21, <1>t2, <1>t3, <1>t4 DEF AppendReply, Release, Goto, TypeOK, Locations
<1>22. QED
  BY <1>1, <1>2, <1>3, <1>4, <1>5, <1>6, <1>7, <1>8, <1>9, <1>10, <1>11, <1>12, <1>13,
     <1>14, <1>15, <1>16, <1>17, <1>18, <1>19, <1>20, <1>21 DEF TurnStep

LEMMA NextTyped == TypeOK /\ [Next]_vars => TypeOK'
<1> SUFFICES ASSUME TypeOK, [Next]_vars PROVE TypeOK'
  OBVIOUS
<1>1. FreshSession \in SessionState
  BY DEF FreshSession, SessionState, Optional, Contexts, NoContext
<1>2. NoRoute \in RouteState BY <1>1, RouteOperatorsTyped DEF NoRoute
<1>3. PlainReply \in Results /\ NoRefs \in Refs
  BY CoordinatorConstants DEF PlainReply, Results, NoRefs, Refs, TurnId
<1>4. CASE \E t \in Turns : BeginTurn(t)
  BY <1>4 DEF BeginTurn, Goto, TypeOK, durable, Locations
<1>5. CASE \E t \in Turns : TurnStep(t)
  BY <1>5, TurnStepTyped
<1>6. CASE \E t \in Turns : Fail(t)
  BY <1>1, <1>2, <1>3, <1>6 DEF Fail, Release, Goto, TypeOK, durable, Locations
<1>7. CASE ExpireSession
  BY <1>1, <1>7 DEF ExpireSession, TypeOK, inMemory
<1>8. CASE UNCHANGED vars
  BY <1>8 DEF vars, durable, inMemory, TypeOK
<1>9. QED BY <1>4, <1>5, <1>6, <1>7, <1>8 DEF Next

THEOREM TypeCorrect == Spec => []TypeOK
<1>1. QED BY InitTyped, NextTyped, PTL DEF Spec

-----------------------------------------------------------------------------
(* The session a turn works on.  The strengthening relates a turn's copy   *)
(* of the session to its route snapshot while the routing loop runs: the   *)
(* snapshot's counters are the copy's, a flow the snapshot resumes is the  *)
(* copy's open flow, and a collection that is open without being resumed   *)
(* was just opened by a verifier that ends the turn.                       *)

InLoop(t) == pc[t] \in {"route", "queue_question"}

CountersAgree(t) ==
  /\ route[t].clarifyCount = local[t].clarifyCount
  /\ route[t].verifyTurns = local[t].verifyTurns
  /\ route[t].userErrorSeen = local[t].userErrorSeen

FlowAgrees(t) ==
  /\ route[t].pending # "none" => route[t].pending = local[t].pending
  /\ route[t].contactFound => local[t].pending = "none"
  /\ local[t].pending # "collect_contact"
  /\ local[t].pending = "verify_issue" =>
       \/ route[t].pending = "verify_issue"
       \/ route[t].verifyOutcome \in {"bug_confirmed", "need_more_info"}

(* How many steps a turn has taken by what it is about to do next.         *)
HopsFit(r) ==
  LET step == NextStep(r).step IN
  /\ r.hopCount <= LongestPath
  /\ step = "triage" => r.hopCount = 0
  /\ step = "knowledge" =>
       r.hopCount <= 1 \/ (r.hopCount <= 3 /\ r.verifyOutcome = "user_error")
  /\ step = "issue_verification" => r.hopCount <= 2
  /\ r.verifyOutcome = "user_error" => r.userErrorSeen

ResultFits(t) ==
  /\ ~ result[t].escalated
  /\ result[t].cited => local[t].pending = "none"

TurnInv(t) ==
  /\ InLoop(t) => CountersAgree(t) /\ HopsFit(route[t]) /\ ResultFits(t)
  /\ ~ InLoop(t) => route[t].hopCount <= LongestPath
  /\ pc[t] = "route" => FlowAgrees(t)
  /\ pc[t] = "queue_question" => NextStep(route[t]).step = "knowledge"
  /\ pc[t] \in {"queue_question", "hand_off", "contact_row", "contact_note"}
       => local[t].pending = "none"
  /\ pc[t] = "screen" /\ (result[t].escalated \/ result[t].cited)
       => local[t].pending \in {"none", "knowledge_clarify"}

Fits(s) == ContextFitsPending(s) /\ BudgetFits(s)

SessionInv ==
  /\ TypeOK
  /\ Fits(session)
  /\ \A t \in Turns : Fits(local[t]) /\ TurnInv(t)

(* What the rules read before they choose a step (below the hop limit).    *)
LEMMA StepComesFrom ==
  ASSUME NEW r \in RouteState, r.hopCount <= LongestPath
  PROVE  /\ NextStep(r).step = "issue_verification" =>
              /\ ~ r.contactFound
              /\ \/ r.pending = "verify_issue" /\ r.verifyTurns < MaxVerifyTurns
                 \/ r.pending # "verify_issue" /\ r.verifyOutcome = "none"
         /\ NextStep(r).step = "knowledge" =>
              /\ ~ r.contactFound
              /\ r.pending # "verify_issue"
              /\ r.pending = "knowledge_clarify" \/ r.verifyOutcome \in {"none", "user_error"}
         /\ NextStep(r).step = "triage" =>
              ~ r.contactFound /\ r.pending # "verify_issue" /\ r.verifyOutcome = "none"
         /\ NextStep(r).step = "escalate" =>
              ~ r.contactFound /\ r.pending # "verify_issue" /\ r.verifyOutcome = "none"
         /\ NextStep(r).step = "attach_contact" => r.contactFound
<1> USE RoutingLimits DEF LongestPath, RouteState, Optional, Go
<1>1. r.hopCount < MaxHops OBVIOUS
<1>2. CASE r.contactFound \/ r.pending \in {"verify_issue", "knowledge_clarify"}
  BY <1>1, <1>2 DEF NextStep, ResumeFlow
<1>3. CASE ~ r.contactFound /\ r.pending \notin {"verify_issue", "knowledge_clarify"}
  <2>1. CASE r.verifyOutcome # "none"
    BY <1>1, <1>3, <2>1 DEF NextStep, AfterVerification, VerifyOutcomes
  <2>2. CASE r.verifyOutcome = "none" /\ r.knowledgeStatus # "none"
    BY <1>1, <1>3, <2>2 DEF NextStep, AfterKnowledge, KnowledgeStatuses
  <2>3. CASE r.verifyOutcome = "none" /\ r.knowledgeStatus = "none"
    BY <1>1, <1>3, <2>3 DEF NextStep, AfterTriage, TriageTargets
  <2>4. QED BY <2>1, <2>2, <2>3
<1>4. QED BY <1>2, <1>3

(* Where each report sends the turn next: triage to an agent once, the     *)
(* verifier to knowledge after a user error only, knowledge to the         *)
(* verifier before a user error only.                                      *)
LEMMA StepAfterTriage ==
  ASSUME NEW r \in RouteState, NEW s \in SessionState, NEW target \in TriageTargets,
         r.hopCount = 0
  PROVE  HopsFit(AfterStep(r, TriageReport(target), s))
  BY RoutingLimits DEF RouteState, AfterStep, TriageReport, NextStep, AfterTriage, TriageTargets,
     Go, HopsFit, LongestPath

LEMMA StepAfterKnowledge ==
  ASSUME NEW r \in RouteState, NEW s \in SessionState, NEW status \in KnowledgeStatuses,
         HopsFit(r), NextStep(r).step = "knowledge", r.userErrorSeen = s.userErrorSeen
  PROVE  HopsFit(AfterStep(r, KnowledgeReport(status), s))
<1>1. r.hopCount <= 1 \/ (r.hopCount <= 3 /\ s.userErrorSeen) BY DEF HopsFit
<1>2. QED
  BY <1>1, RoutingLimits DEF RouteState, AfterStep, KnowledgeReport, NextStep, AfterKnowledge,
     KnowledgeStatuses, Go, HopsFit, LongestPath

LEMMA StepAfterVerification ==
  ASSUME NEW r \in RouteState, NEW s \in SessionState, NEW o \in VerifyOutcomes,
         HopsFit(r), NextStep(r).step = "issue_verification",
         o = "user_error" => s.userErrorSeen
  PROVE  HopsFit(AfterStep(r, VerifyReport(o), s))
<1>1. r.hopCount <= 2 BY DEF HopsFit
<1>2. QED
  BY <1>1, RoutingLimits DEF RouteState, AfterStep, VerifyReport, NextStep, AfterVerification,
     VerifyOutcomes, Go, HopsFit, LongestPath

-----------------------------------------------------------------------------
(* The session operators keep context and budget in step with the flow.    *)
LEMMA SessionOperatorsFit ==
  ASSUME NEW s \in SessionState, Fits(s)
  PROVE  /\ Fits(CloseFlow(s)) /\ CloseFlow(s).pending = "none"
         /\ Fits(TakeContact(s)) /\ TakeContact(s).pending # "collect_contact"
         /\ s.pending = "collect_contact" => TakeContact(s).pending = "none"
         /\ \A wants \in BOOLEAN :
              /\ Fits(MaybeCancel(s, wants))
              /\ MaybeCancel(s, wants).pending \in {s.pending, "none"}
         /\ s.pending # "verify_issue" => Fits(SpendClarify(s))
         /\ s.pending # "collect_contact" /\ s.pending # "verify_issue"
              => SpendClarify(s).pending = "none"
         /\ s.pending \in {"none", "knowledge_clarify"} /\ MayClarify(s)
              => Fits(AskToClarify(s))
<1> USE RoutingLimits DEF Fits, ContextFitsPending, BudgetFits, SessionState, Optional,
        PendingFlows, NoContext
<1>1. Fits(CloseFlow(s)) /\ CloseFlow(s).pending = "none" BY DEF CloseFlow
<1>2. /\ Fits(TakeContact(s)) /\ TakeContact(s).pending # "collect_contact"
      /\ s.pending = "collect_contact" => TakeContact(s).pending = "none"
  BY DEF TakeContact
<1>3. \A wants \in BOOLEAN :
        Fits(MaybeCancel(s, wants)) /\ MaybeCancel(s, wants).pending \in {s.pending, "none"}
  BY DEF MaybeCancel, CloseFlow
<1>4. s.pending # "verify_issue" => Fits(SpendClarify(s)) BY DEF SpendClarify
<1>5. s.pending # "collect_contact" /\ s.pending # "verify_issue"
        => SpendClarify(s).pending = "none"
  BY DEF SpendClarify
<1>6. s.pending \in {"none", "knowledge_clarify"} /\ MayClarify(s) => Fits(AskToClarify(s))
  <2> SUFFICES ASSUME s.pending \in {"none", "knowledge_clarify"}, MayClarify(s)
               PROVE  Fits(AskToClarify(s))
    OBVIOUS
  <2>1. /\ AskToClarify(s).pending = "knowledge_clarify"
        /\ AskToClarify(s).context = s.context
        /\ AskToClarify(s).verifyTurns = s.verifyTurns
        /\ AskToClarify(s).clarifyCount = s.clarifyCount + 1
    BY DEF AskToClarify
  <2>2. s.clarifyCount + 1 <= MaxClarify BY DEF MayClarify
  <2>3. QED BY <2>1, <2>2
<1>7. QED BY <1>1, <1>2, <1>3, <1>4, <1>5, <1>6

LEMMA ArmGateFits ==
  ASSUME NEW s \in SessionState, Fits(s), s.pending \in {"none", "knowledge_clarify"},
         NEW why, NEW r
  PROVE  Fits(ArmGate(s, why, r))
  BY DEF ArmGate, GateContext, Fits, ContextFitsPending, BudgetFits, SessionState

(* A verification step opens the flow if need be and counts its turn,      *)
(* within the cap because the cap was read first.                          *)
LEMMA VerifyStepFits ==
  ASSUME NEW s \in SessionState, Fits(s), NEW t \in Turns, NEW o \in VerifyOutcomes,
         s.pending = "verify_issue" => s.verifyTurns < MaxVerifyTurns
  PROVE  LET q == AfterVerdict(CountVerifyTurn(OpenVerification(s, t)), o) IN
         /\ Fits(q)
         /\ q.pending = IF o = "user_error" THEN "none" ELSE "verify_issue"
         /\ o = "user_error" => q.userErrorSeen
<1> DEFINE a == OpenVerification(s, t)
           b == CountVerifyTurn(a)
<1> USE RoutingLimits DEF SessionState
<1>1. /\ a \in SessionState
      /\ a.pending = "verify_issue" /\ a.context.kind = "verify"
      /\ a.verifyTurns < MaxVerifyTurns /\ a.clarifyCount <= MaxClarify
  <2>1. a \in SessionState BY SessionOperatorsTyped
  <2>2. CASE s.pending = "verify_issue"
    BY <2>1, <2>2 DEF OpenVerification, Fits, ContextFitsPending, BudgetFits
  <2>3. CASE s.pending # "verify_issue"
    <3>1. a = [s EXCEPT !.pending = "verify_issue", !.context = VerifyContext(t),
                        !.verifyTurns = 0]
      BY <2>3 DEF OpenVerification
    <3>2. QED BY <2>1, <3>1 DEF VerifyContext, Fits, BudgetFits
  <2>4. QED BY <2>2, <2>3, <2>1
<1> HIDE DEF a
<1>2. /\ b \in SessionState
      /\ b.pending = "verify_issue" /\ b.context.kind = "verify"
      /\ b.verifyTurns <= MaxVerifyTurns /\ b.clarifyCount <= MaxClarify
  BY <1>1, SessionOperatorsTyped DEF CountVerifyTurn
<1> HIDE DEF b
<1>3. /\ Fits(AfterVerdict(b, o))
      /\ AfterVerdict(b, o).pending = IF o = "user_error" THEN "none" ELSE "verify_issue"
      /\ o = "user_error" => AfterVerdict(b, o).userErrorSeen
  BY <1>2 DEF AfterVerdict, CloseFlow, NoContext, Fits, ContextFitsPending, BudgetFits
<1>4. QED BY <1>3 DEF a, b

-----------------------------------------------------------------------------
LEMMA InitSession == Init => SessionInv
<1> SUFFICES ASSUME Init PROVE SessionInv
  OBVIOUS
<1>1. Fits(FreshSession)
  BY RoutingLimits DEF FreshSession, NoContext, Fits, ContextFitsPending, BudgetFits
<1>2. NoRoute.hopCount = 0 BY DEF NoRoute, StartRoute
<1>3. QED
  BY <1>1, <1>2, InitTyped DEF Init, SessionInv, TurnInv, InLoop, LongestPath

(* A step folded back in leaves the turn fit to be routed again.           *)
LEMMA FoldFits ==
  ASSUME TypeOK, NEW t \in Turns, NEW s \in SessionState, Fits(s), NEW cited \in BOOLEAN,
         NEW report, Fold(t, report, s, cited),
         HopsFit(AfterStep(route[t], report, s)),
         s.pending # "collect_contact",
         s.pending = "verify_issue" => report.outcome \in {"bug_confirmed", "need_more_info"},
         cited => s.pending = "none"
  PROVE  Fits(local'[t]) /\ TurnInv(t)'
<1>1. /\ local'[t] = s /\ pc'[t] = "route"
      /\ route'[t] = AfterStep(route[t], report, s)
      /\ result'[t] = Answered(cited)
  BY DEF Fold, Goto, TypeOK
<1>2. /\ route'[t].clarifyCount = s.clarifyCount /\ route'[t].verifyTurns = s.verifyTurns
      /\ route'[t].userErrorSeen = s.userErrorSeen
      /\ route'[t].pending = "none" /\ ~ route'[t].contactFound
      /\ route'[t].verifyOutcome = report.outcome
  BY <1>1 DEF AfterStep
<1>3. result'[t].escalated = FALSE /\ result'[t].cited = cited BY <1>1 DEF Answered
<1>4. HopsFit(route[t])' BY <1>1 DEF HopsFit
<1>5. QED
  BY <1>1, <1>2, <1>3, <1>4 DEF TurnInv, InLoop, CountersAgree, FlowAgrees, ResultFits

(* A turn's step leaves the other turns alone.                             *)
LEMMA OtherTurnsUntouched ==
  ASSUME TypeOK, NEW t \in Turns, TurnStep(t), NEW u \in Turns, u # t
  PROVE  local'[u] = local[u] /\ route'[u] = route[u] /\ pc'[u] = pc[u] /\ result'[u] = result[u]
<1> USE DEF TypeOK
<1>1. CASE BlockInput(t) \/ EnterRoute(t)
  BY <1>1 DEF BlockInput, EnterRoute, Goto
<1>2. CASE TriageStep(t) \/ KnowledgeAnswers(t) \/ KnowledgeAsks(t) \/ QueueQuestion(t)
           \/ VerifyStep(t)
  <2>1. PICK report, s, cited : Fold(t, report, s, cited)
    BY <1>2 DEF TriageStep, KnowledgeAnswers, KnowledgeAsks, QueueQuestion, VerifyStep
  <2>2. QED BY <2>1 DEF Fold, Goto
<1>3. CASE LogMissingAnswer(t) BY <1>3 DEF LogMissingAnswer, Goto
<1>4. CASE ReplyStep(t) \/ OutOfScopeStep(t)
  BY <1>4 DEF ReplyStep, OutOfScopeStep, LeaveRoute, Goto
<1>5. CASE EscalateStep(t) \/ HandOffTicket(t)
  <2>1. PICK why : HandOff(t, why) BY <1>5 DEF EscalateStep, HandOffTicket
  <2>2. QED BY <2>1 DEF HandOff, LeaveRoute, Goto
<1>6. CASE CreateIssue(t) \/ AddBugRow(t)
  BY <1>6 DEF CreateIssue, AddBugRow, Goto
<1>7. CASE SetConversationContact(t) \/ SetRowContact(t) \/ AddContactNote(t)
  BY <1>7 DEF SetConversationContact, SetRowContact, AddContactNote, LeaveRoute, Goto
<1>8. CASE ScreenReply(t)
  BY <1>8 DEF ScreenReply, Goto
<1>9. CASE SaveSession(t) \/ AppendUser(t) \/ AppendReply(t)
  BY <1>9 DEF SaveSession, AppendUser, AppendReply, Release, Goto
<1>10. QED BY <1>1, <1>2, <1>3, <1>4, <1>5, <1>6, <1>7, <1>8, <1>9 DEF TurnStep

LEMMA TurnStepKeepsTurn ==
  ASSUME SessionInv, NEW t \in Turns, TurnStep(t)
  PROVE  Fits(local'[t]) /\ TurnInv(t)'
<1>t1. /\ TypeOK /\ Fits(local[t]) /\ TurnInv(t)
       /\ local[t] \in SessionState /\ route[t] \in RouteState /\ result[t] \in Results
  BY DEF SessionInv, TypeOK
<1>t2. route[t].hopCount <= LongestPath BY <1>t1 DEF TurnInv, HopsFit
<1>t3. Fits(FreshSession)
  BY RoutingLimits DEF FreshSession, NoContext, Fits, ContextFitsPending, BudgetFits
<1>t4. NoRoute.hopCount <= LongestPath BY DEF NoRoute, StartRoute, LongestPath
<1>t5. ~ PlainReply.escalated /\ ~ PlainReply.cited BY DEF PlainReply
<1>t6. local[t].pending \in {"none", "verify_issue", "knowledge_clarify", "collect_contact"}
  BY <1>t1 DEF SessionState, Optional, PendingFlows
<1>t7. (pc[t] = "route" /\ NextStep(route[t]).step \in {"triage", "knowledge", "escalate"})
         => local[t].pending \in {"none", "knowledge_clarify"}
  BY <1>t1, <1>t2, <1>t6, StepComesFrom DEF TurnInv, FlowAgrees
<1> DEFINE atRest == /\ pc'[t] \notin {"route", "queue_question", "hand_off", "contact_row",
                                       "contact_note", "screen"}
                     /\ route'[t].hopCount <= LongestPath
           atScreen == /\ pc'[t] = "screen"
                       /\ route'[t] = NoRoute
                       /\ local'[t] = local[t]
<1>t8. atRest => TurnInv(t)' BY DEF TurnInv, InLoop
<1>t9. atScreen /\ (result'[t].escalated \/ result'[t].cited
                      => local[t].pending \in {"none", "knowledge_clarify"})
         => TurnInv(t)' /\ Fits(local'[t])
  BY <1>t1, <1>t4 DEF TurnInv, InLoop
<1>1. CASE BlockInput(t)
  BY <1>1, <1>t1, <1>t2, <1>t8 DEF BlockInput, Goto, TypeOK
<1>2. CASE EnterRoute(t)
  <2>1. PICK found \in BOOLEAN, wants \in BOOLEAN :
          LET s == MaybeCancel(TakeContact(local[t]), wants) IN
          /\ found => local[t].pending = "collect_contact"
          /\ local' = [local EXCEPT ![t] = s]
          /\ route' = [route EXCEPT ![t] = StartRoute(s, found)]
    BY <1>2 DEF EnterRoute
  <2> DEFINE s == MaybeCancel(TakeContact(local[t]), wants)
  <2>2. TakeContact(local[t]) \in SessionState /\ Fits(TakeContact(local[t]))
    BY <1>t1, SessionOperatorsTyped, SessionOperatorsFit
  <2>3. /\ Fits(s)
        /\ s.pending # "collect_contact"
        /\ found => s.pending = "none"
    BY <1>t1, <2>1, <2>2, SessionOperatorsFit
  <2>4. local'[t] = s /\ route'[t] = StartRoute(s, found) /\ pc'[t] = "route"
        /\ result'[t] = PlainReply
    BY <1>2, <1>t1, <2>1 DEF EnterRoute, Goto, TypeOK
  <2> HIDE DEF s
  <2>5. /\ HopsFit(StartRoute(s, found))
        /\ StartRoute(s, found).pending = s.pending
        /\ StartRoute(s, found).contactFound = found
        /\ StartRoute(s, found).clarifyCount = s.clarifyCount
        /\ StartRoute(s, found).verifyTurns = s.verifyTurns
        /\ StartRoute(s, found).userErrorSeen = s.userErrorSeen
    BY DEF StartRoute, HopsFit, LongestPath
  <2>6. HopsFit(route[t])' BY <2>4, <2>5 DEF HopsFit
  <2>7. QED
    BY <1>t5, <2>3, <2>4, <2>5, <2>6 DEF TurnInv, InLoop, CountersAgree, FlowAgrees, ResultFits
<1>3. CASE TriageStep(t)
  <2>1. PICK target \in TriageTargets : Fold(t, TriageReport(target), local[t], FALSE)
    BY <1>3 DEF TriageStep
  <2>2. pc[t] = "route" /\ NextStep(route[t]).step = "triage" BY <1>3 DEF TriageStep, AtStep
  <2>3. route[t].hopCount = 0 BY <1>t1, <2>2 DEF TurnInv, InLoop, HopsFit
  <2>4. local[t].pending \in {"none", "knowledge_clarify"} BY <1>t7, <2>2
  <2>5. HopsFit(AfterStep(route[t], TriageReport(target), local[t]))
    BY <1>t1, <2>3, StepAfterTriage
  <2>6. QED BY <1>t1, <2>1, <2>4, <2>5, FoldFits
<1>4. CASE KnowledgeAnswers(t) \/ KnowledgeAsks(t)
  <2>1. pc[t] = "route" /\ NextStep(route[t]).step = "knowledge"
    BY <1>4 DEF KnowledgeAnswers, KnowledgeAsks, AtStep
  <2>2. HopsFit(route[t]) /\ route[t].userErrorSeen = local[t].userErrorSeen
    BY <1>t1, <2>1 DEF TurnInv, InLoop, CountersAgree
  <2>3. local[t].pending \in {"none", "knowledge_clarify"} BY <1>t7, <2>1
  <2>4. CASE KnowledgeAnswers(t)
    <3>1. PICK status \in KnowledgeStatuses, cited \in BOOLEAN :
            Fold(t, KnowledgeReport(status), SpendClarify(local[t]), cited)
      BY <2>4 DEF KnowledgeAnswers, KnowledgeStatuses
    <3>2. /\ SpendClarify(local[t]) \in SessionState /\ Fits(SpendClarify(local[t]))
          /\ SpendClarify(local[t]).pending = "none"
      BY <1>t1, <2>3, SessionOperatorsTyped, SessionOperatorsFit
    <3>3. SpendClarify(local[t]).userErrorSeen = local[t].userErrorSeen
      BY <1>t1 DEF SpendClarify, SessionState
    <3>4. HopsFit(AfterStep(route[t], KnowledgeReport(status), SpendClarify(local[t])))
      BY <1>t1, <2>1, <2>2, <3>2, <3>3, StepAfterKnowledge
    <3>5. QED BY <1>t1, <3>1, <3>2, <3>4, FoldFits
  <2>5. CASE KnowledgeAsks(t)
    <3>1. /\ AskToClarify(local[t]) \in SessionState /\ Fits(AskToClarify(local[t]))
      BY <1>t1, <2>3, <2>5, SessionOperatorsTyped, SessionOperatorsFit DEF KnowledgeAsks
    <3>2. /\ AskToClarify(local[t]).userErrorSeen = local[t].userErrorSeen
          /\ AskToClarify(local[t]).pending = "knowledge_clarify"
      BY <1>t1 DEF AskToClarify, SessionState
    <3>3. HopsFit(AfterStep(route[t], KnowledgeReport("clarify"), AskToClarify(local[t])))
      BY <1>t1, <2>1, <2>2, <3>1, <3>2, StepAfterKnowledge DEF KnowledgeStatuses
    <3>4. Fold(t, KnowledgeReport("clarify"), AskToClarify(local[t]), FALSE)
      BY <2>5 DEF KnowledgeAsks
    <3>5. QED BY <1>t1, <3>1, <3>2, <3>3, <3>4, FoldFits
  <2>6. QED BY <1>4, <2>4, <2>5
<1>5. CASE LogMissingAnswer(t)
  <2>1. pc[t] = "route" /\ NextStep(route[t]).step = "knowledge"
    BY <1>5 DEF LogMissingAnswer, AtStep
  <2>2. local[t].pending \in {"none", "knowledge_clarify"} BY <1>t7, <2>1
  <2>3. Fits(SpendClarify(local[t])) /\ SpendClarify(local[t]).pending = "none"
    BY <1>t1, <2>2, SessionOperatorsFit
  <2>4. /\ SpendClarify(local[t]).userErrorSeen = local[t].userErrorSeen
        /\ SpendClarify(local[t]).clarifyCount = local[t].clarifyCount
        /\ SpendClarify(local[t]).verifyTurns = local[t].verifyTurns
    BY <1>t1 DEF SpendClarify, SessionState
  <2>5. /\ local'[t] = SpendClarify(local[t]) /\ route'[t] = route[t]
        /\ result'[t] = result[t] /\ pc'[t] = "queue_question"
    BY <1>5 DEF LogMissingAnswer, Goto, TypeOK, SessionInv
  <2>6. CountersAgree(t) /\ HopsFit(route[t]) /\ ResultFits(t)
    BY <1>t1, <2>1 DEF TurnInv, InLoop
  <2>7. CountersAgree(t)' /\ ResultFits(t)'
    BY <2>3, <2>4, <2>5, <2>6 DEF CountersAgree, ResultFits
  <2>8. QED BY <2>1, <2>3, <2>5, <2>6, <2>7 DEF TurnInv, InLoop
<1>6. CASE QueueQuestion(t)
  <2>1. /\ pc[t] = "queue_question"
        /\ Fold(t, KnowledgeReport("no_answer"), local[t], FALSE)
    BY <1>6 DEF QueueQuestion
  <2>2. /\ HopsFit(route[t]) /\ NextStep(route[t]).step = "knowledge"
        /\ route[t].userErrorSeen = local[t].userErrorSeen /\ local[t].pending = "none"
    BY <1>t1, <2>1 DEF TurnInv, InLoop, CountersAgree
  <2>3. HopsFit(AfterStep(route[t], KnowledgeReport("no_answer"), local[t]))
    BY <1>t1, <2>2, StepAfterKnowledge DEF KnowledgeStatuses
  <2>4. QED BY <1>t1, <2>1, <2>2, <2>3, FoldFits
<1>7. CASE VerifyStep(t)
  <2> DEFINE after(o) == AfterVerdict(CountVerifyTurn(OpenVerification(local[t], t)), o)
  <2>1. PICK o \in VerifyOutcomes : Fold(t, VerifyReport(o), after(o), FALSE)
    BY <1>7 DEF VerifyStep
  <2>2. pc[t] = "route" /\ NextStep(route[t]).step = "issue_verification"
    BY <1>7 DEF VerifyStep, AtStep
  <2>3. HopsFit(route[t]) /\ CountersAgree(t) /\ FlowAgrees(t)
    BY <1>t1, <2>2 DEF TurnInv, InLoop
  <2>4. local[t].pending = "verify_issue" => local[t].verifyTurns < MaxVerifyTurns
    BY <1>t1, <1>t2, <2>2, <2>3, StepComesFrom DEF CountersAgree, FlowAgrees
  <2>5. /\ Fits(after(o))
        /\ after(o).pending = IF o = "user_error" THEN "none" ELSE "verify_issue"
        /\ o = "user_error" => after(o).userErrorSeen
    BY <1>t1, <2>4, VerifyStepFits
  <2>6. after(o) \in SessionState BY <1>t1, SessionOperatorsTyped
  <2> HIDE DEF after
  <2>7. HopsFit(AfterStep(route[t], VerifyReport(o), after(o)))
    BY <1>t1, <2>2, <2>3, <2>5, <2>6, StepAfterVerification
  <2>8. VerifyReport(o).outcome = o BY DEF VerifyReport
  <2>9. after(o).pending = "verify_issue" => o \in {"bug_confirmed", "need_more_info"}
    BY <2>5 DEF VerifyOutcomes
  <2>10. QED BY <1>t1, <2>1, <2>5, <2>6, <2>7, <2>8, <2>9, FoldFits
<1>8. CASE ReplyStep(t)
  <2>1. atScreen /\ result'[t] = result[t]
    BY <1>8 DEF ReplyStep, LeaveRoute, Goto, TypeOK, SessionInv
  <2>2. ResultFits(t) BY <1>8, <1>t1 DEF ReplyStep, AtStep, TurnInv, InLoop
  <2>3. QED BY <1>t9, <2>1, <2>2 DEF ResultFits
<1>9. CASE OutOfScopeStep(t)
  BY <1>9, <1>t5, <1>t9 DEF OutOfScopeStep, LeaveRoute, Goto, TypeOK, SessionInv
<1>10. CASE EscalateStep(t)
  <2>1. atScreen BY <1>10 DEF EscalateStep, HandOff, LeaveRoute, Goto, TypeOK, SessionInv
  <2>2. QED BY <1>10, <1>t7, <1>t9, <2>1 DEF EscalateStep, AtStep
<1>11. CASE CreateIssue(t)
  BY <1>11, <1>t1, <1>t2, <1>t8 DEF CreateIssue, Goto, TypeOK
<1>12. CASE AddBugRow(t)
  <2>1. Fits(CloseFlow(local[t])) /\ CloseFlow(local[t]).pending = "none"
    BY <1>t1, SessionOperatorsFit
  <2>2. /\ local'[t] = CloseFlow(local[t]) /\ pc'[t] = "hand_off" /\ route'[t] = route[t]
    BY <1>12 DEF AddBugRow, Goto, TypeOK, SessionInv
  <2>3. QED BY <1>t2, <2>1, <2>2 DEF TurnInv, InLoop
<1>13. CASE HandOffTicket(t)
  <2>1. atScreen BY <1>13 DEF HandOffTicket, HandOff, LeaveRoute, Goto, TypeOK, SessionInv
  <2>2. local[t].pending = "none" BY <1>13, <1>t1 DEF HandOffTicket, TurnInv
  <2>3. QED BY <1>t9, <2>1, <2>2
<1>14. CASE SetConversationContact(t)
  <2>1. local[t].pending = "none"
    BY <1>14, <1>t1, <1>t2, StepComesFrom
    DEF SetConversationContact, AtStep, TurnInv, FlowAgrees
  <2>2. pc'[t] = "contact_row" /\ local'[t] = local[t] /\ route'[t] = route[t]
    BY <1>14 DEF SetConversationContact, Goto, TypeOK, SessionInv
  <2>3. QED BY <1>t1, <1>t2, <2>1, <2>2 DEF TurnInv, InLoop
<1>15. CASE SetRowContact(t)
  <2>1. pc'[t] = "contact_note" /\ local'[t] = local[t] /\ route'[t] = route[t]
    BY <1>15 DEF SetRowContact, Goto, TypeOK, SessionInv
  <2>2. local[t].pending = "none" BY <1>15, <1>t1 DEF SetRowContact, TurnInv
  <2>3. QED BY <1>t1, <1>t2, <2>1, <2>2 DEF TurnInv, InLoop
<1>16. CASE AddContactNote(t)
  BY <1>16, <1>t5, <1>t9 DEF AddContactNote, LeaveRoute, Goto, TypeOK, SessionInv
<1>17. CASE ScreenReply(t)
  <2> DEFINE final(u) == IF u THEN HandedOff("ungrounded answer") ELSE result[t]
             made(u)  == IF u THEN NoRefs ELSE refs[t]
  <2>1. PICK u \in IF result[t].cited THEN BOOLEAN ELSE {FALSE} :
          local' = IF final(u).escalated
                   THEN [local EXCEPT ![t] = ArmGate(local[t], final(u).reason, made(u))]
                   ELSE local
    BY <1>17 DEF ScreenReply
  <2>2. final(u).escalated => result[t].escalated \/ result[t].cited
    OBVIOUS
  <2>3. final(u).escalated => local[t].pending \in {"none", "knowledge_clarify"}
    BY <1>17, <1>t1, <2>2 DEF ScreenReply, TurnInv
  <2> HIDE DEF final, made
  <2>4. final(u).escalated => Fits(ArmGate(local[t], final(u).reason, made(u)))
    BY <1>t1, <2>3, ArmGateFits
  <2>5. Fits(local'[t]) BY <1>t1, <2>1, <2>4 DEF TypeOK
  <2>6. pc'[t] = "save" /\ route'[t] = route[t]
    BY <1>17 DEF ScreenReply, Goto, TypeOK, SessionInv
  <2>7. QED BY <1>t2, <1>t8, <2>5, <2>6
<1>18. CASE SaveSession(t) \/ AppendUser(t)
  BY <1>18, <1>t1, <1>t2, <1>t8 DEF SaveSession, AppendUser, Goto, TypeOK
<1>19. CASE AppendReply(t)
  BY <1>19, <1>t3, <1>t4, <1>t8 DEF AppendReply, Release, Goto, TypeOK, SessionInv
<1>20. QED
  BY <1>1, <1>2, <1>3, <1>4, <1>5, <1>6, <1>7, <1>8, <1>9, <1>10, <1>11, <1>12, <1>13,
     <1>14, <1>15, <1>16, <1>17, <1>18, <1>19 DEF TurnStep

LEMMA NextKeepsSession == SessionInv /\ [Next]_vars => SessionInv'
<1> SUFFICES ASSUME SessionInv, [Next]_vars PROVE SessionInv'
  OBVIOUS
<1>1. TypeOK /\ TypeOK' BY NextTyped DEF SessionInv
<1>2. Fits(FreshSession)
  BY RoutingLimits DEF FreshSession, NoContext, Fits, ContextFitsPending, BudgetFits
<1>3. NoRoute.hopCount <= LongestPath BY DEF NoRoute, StartRoute, LongestPath
<1>4. CASE \E t \in Turns : TurnStep(t)
  <2>1. PICK t \in Turns : TurnStep(t) BY <1>4
  <2>2. Fits(local'[t]) /\ TurnInv(t)' BY <2>1, TurnStepKeepsTurn
  <2>3. ASSUME NEW u \in Turns, u # t PROVE Fits(local'[u]) /\ TurnInv(u)'
    <3>1. local'[u] = local[u] /\ route'[u] = route[u] /\ pc'[u] = pc[u]
          /\ result'[u] = result[u]
      BY <1>1, <2>1, <2>3, OtherTurnsUntouched
    <3>2. QED
      BY <3>1 DEF SessionInv, TurnInv, InLoop, CountersAgree, FlowAgrees, ResultFits
  <2>4. session' = session \/ session' = local[t]
    BY <2>1 DEF TurnStep, BlockInput, EnterRoute, TriageStep, KnowledgeAnswers, KnowledgeAsks,
       LogMissingAnswer, QueueQuestion, VerifyStep, ReplyStep, OutOfScopeStep, EscalateStep,
       HandOff, CreateIssue, AddBugRow, HandOffTicket, SetConversationContact, SetRowContact,
       AddContactNote, ScreenReply, SaveSession, AppendUser, AppendReply, durable
  <2>5. QED BY <1>1, <2>2, <2>3, <2>4 DEF SessionInv
<1>5. CASE \E t \in Turns : BeginTurn(t) \/ Fail(t)
  <2>1. PICK t \in Turns : BeginTurn(t) \/ Fail(t) BY <1>5
  <2>2. session' = session BY <2>1 DEF BeginTurn, Fail, durable
  <2>3. ASSUME NEW u \in Turns, u # t PROVE Fits(local'[u]) /\ TurnInv(u)'
    <3>1. local'[u] = local[u] /\ route'[u] = route[u] /\ pc'[u] = pc[u]
          /\ result'[u] = result[u]
      BY <1>1, <2>1, <2>3 DEF BeginTurn, Fail, Release, Goto, TypeOK
    <3>2. QED
      BY <3>1 DEF SessionInv, TurnInv, InLoop, CountersAgree, FlowAgrees, ResultFits
  <2>4. CASE BeginTurn(t)
    <3>1. /\ local'[t] = session /\ pc'[t] = "loaded" /\ route'[t] = route[t]
          /\ pc[t] = "idle"
      BY <1>1, <2>4 DEF BeginTurn, Goto, TypeOK
    <3>2. Fits(local'[t]) /\ TurnInv(t)' BY <3>1 DEF SessionInv, TurnInv, InLoop
    <3>3. QED BY <1>1, <2>2, <2>3, <3>2 DEF SessionInv
  <2>5. CASE Fail(t)
    <3>1. local'[t] = FreshSession /\ pc'[t] = "failed" /\ route'[t] = NoRoute
      BY <1>1, <2>5 DEF Fail, Release, Goto, TypeOK
    <3>2. Fits(local'[t]) /\ TurnInv(t)' BY <1>2, <1>3, <3>1 DEF TurnInv, InLoop
    <3>3. QED BY <1>1, <2>2, <2>3, <3>2 DEF SessionInv
  <2>6. QED BY <2>1, <2>4, <2>5
<1>6. CASE ExpireSession
  BY <1>1, <1>2, <1>6
  DEF ExpireSession, inMemory, SessionInv, TurnInv, InLoop, CountersAgree, FlowAgrees, ResultFits
<1>7. CASE UNCHANGED vars
  BY <1>1, <1>7
  DEF vars, durable, inMemory, SessionInv, TurnInv, InLoop, CountersAgree, FlowAgrees, ResultFits
<1>8. QED BY <1>4, <1>5, <1>6, <1>7 DEF Next

(* What the invariant says of the properties the runs check.               *)
LEMMA SessionInvSays ==
  SessionInv => /\ ContextMatchesPending /\ BudgetFollowsFlow
                /\ HopLimitNeverFires /\ HandoffLeavesNoFlowOpen
<1> SUFFICES ASSUME SessionInv
             PROVE  /\ ContextMatchesPending /\ BudgetFollowsFlow
                    /\ HopLimitNeverFires /\ HandoffLeavesNoFlowOpen
  OBVIOUS
<1>1. ContextMatchesPending /\ BudgetFollowsFlow
  BY DEF SessionInv, Fits, ContextMatchesPending, BudgetFollowsFlow, Copies
<1>2. HopLimitNeverFires BY DEF SessionInv, TurnInv, HopsFit, HopLimitNeverFires
<1>3. HandoffLeavesNoFlowOpen
  <2> SUFFICES ASSUME NEW t \in Turns, pc[t] = "screen", result[t].escalated \/ result[t].cited
               PROVE  local[t].context = NoContext /\ local[t].verifyTurns = 0
    BY DEF HandoffLeavesNoFlowOpen
  <2>1. local[t].pending \in {"none", "knowledge_clarify"} BY DEF SessionInv, TurnInv
  <2>2. local[t] \in SessionState /\ Fits(local[t]) BY DEF SessionInv, TypeOK
  <2>3. local[t].context.kind = "none" BY <2>1, <2>2 DEF Fits, ContextFitsPending
  <2>4. local[t].context = NoContext BY <2>2, <2>3 DEF SessionState, Contexts, NoContext
  <2>5. QED BY <2>1, <2>2, <2>4 DEF Fits, BudgetFits
<1>4. QED BY <1>1, <1>2, <1>3

LEMMA SessionInvariant == Spec => []SessionInv
<1>1. QED BY InitSession, NextKeepsSession, PTL DEF Spec

(* No copy of the session ever pairs a flow with another flow's context.   *)
THEOREM ContextAlwaysMatches == Spec => []ContextMatchesPending
<1>1. QED BY SessionInvariant, SessionInvSays, PTL

(* The evidence budget is the open flow's own and never exceeds the cap.   *)
THEOREM BudgetAlwaysFits == Spec => []BudgetFollowsFlow
<1>1. QED BY SessionInvariant, SessionInvSays, PTL

(* No turn takes more than four agent steps, so with the limit above that  *)
(* the backstop never hands a user off.                                    *)
THEOREM HopLimitIsNeverReached == Spec => []HopLimitNeverFires
<1>1. QED BY SessionInvariant, SessionInvSays, PTL

(* When a contact gate is about to be armed, it overwrites no open flow.   *)
THEOREM HandoffsCloseTheirFlow == Spec => []HandoffLeavesNoFlowOpen
<1>1. QED BY SessionInvariant, SessionInvSays, PTL

-----------------------------------------------------------------------------
(* Where a turn is tells which of its effects are out.  Nothing is filed   *)
(* or paged before the handoff; a turn that wrote a how_to_missing row     *)
(* still has to queue its question, or to page CS, until it has; and what  *)
(* the last location hands over is what the stores hold.                   *)

BeforeHandoff ==
  {"idle", "loaded", "route", "queue_question", "add_row", "contact_row", "contact_note"}
NoMissLocations == {"idle", "loaded", "add_row", "hand_off", "contact_row", "contact_note"}
Closing         == {"screen", "save", "append_user", "append_reply", "done"}

AllOut(t) ==
  /\ rows[t].filed => paged[t] = "verified bug"
  /\ t \in missingRows => paged[t] = "knowledge unresolved"

MissAgrees(t) ==
  /\ t \in missingRows <=> route[t].knowledgeStatus = "no_answer"
  /\ t \in missingRows =>
       /\ t \in questions
       /\ ~ route[t].contactFound
       /\ route[t].pending = "none"
       /\ route[t].verifyOutcome = "none"

IssueKnown(t) ==
  /\ refs[t].issue \in {0, t}
  /\ refs[t].issue = t => issues[t] = FlowOf(local[t].context)

TicketHeld(t) == refs[t].backlog = t /\ refs[t].issue = rows[t].issue

HandoffRecorded(t) ==
  IF result[t].reason = "verified bug"
  THEN TicketHeld(t) /\ rows[t].filed /\ paged[t] = "verified bug"
  ELSE refs[t].backlog = 0

RowIssueFits(t) ==
  rows[t].filed /\ rows[t].issue # 0 => rows[t].issue = t /\ issues[t] = rows[t].flow

PagedIsRecorded(t) ==
  /\ paged[t] = "verified bug" => rows[t].filed
  /\ paged[t] = "knowledge unresolved" => t \in missingRows \cap questions

StageInv(t) ==
  /\ pc[t] \in BeforeHandoff => ~ rows[t].filed /\ paged[t] = "none"
  /\ pc[t] \in NoMissLocations => t \notin missingRows
  /\ pc[t] = "route" => MissAgrees(t)
  /\ pc[t] = "queue_question" => t \in missingRows
  /\ pc[t] = "add_row" => IssueKnown(t)
  /\ pc[t] = "hand_off" => TicketHeld(t) /\ rows[t].filed /\ paged[t] = "none"
  /\ pc[t] = "screen" /\ result[t].escalated => HandoffRecorded(t)
  /\ pc[t] \in Closing => AllOut(t)
  /\ saved[t] > 0 => AllOut(t) /\ pc[t] \in {"append_reply", "done", "failed"}
  /\ RowIssueFits(t)
  /\ PagedIsRecorded(t)

EffectsInv ==
  /\ SessionInv
  /\ \A t \in Turns : StageInv(t)
  /\ GateNamesHandoff(session)
  /\ \A t \in Turns : GateNamesHandoff(local[t])

-----------------------------------------------------------------------------
LEMMA NoAnswerRule ==
  ASSUME NEW r, r.knowledgeStatus = "no_answer"
  PROVE  AfterKnowledge(r).reason = "knowledge unresolved"
<1>1. AfterKnowledge(r) = Go("escalate", "knowledge unresolved")
  BY Zenon DEF AfterKnowledge
<1>2. Go("escalate", "knowledge unresolved").reason = "knowledge unresolved" BY DEF Go
<1>3. QED BY <1>1, <1>2

(* What the rules make of a miss: it is handed off for that reason, and    *)
(* for no other; "verified bug" is never the router's reason to escalate.  *)
LEMMA MissIsEscalated ==
  ASSUME NEW r \in RouteState, r.hopCount <= LongestPath
  PROVE  /\ NextStep(r).step = "escalate" => NextStep(r).reason # "verified bug"
         /\ NextStep(r).reason = "knowledge unresolved" => r.knowledgeStatus = "no_answer"
         /\ r.knowledgeStatus = "no_answer" /\ ~ r.contactFound /\ r.pending = "none"
              /\ r.verifyOutcome = "none"
              => /\ NextStep(r).step = "escalate"
                 /\ NextStep(r).reason = "knowledge unresolved"
<1>1. r.hopCount < MaxHops BY RoutingLimits DEF LongestPath, RouteState
<1>2. CASE r.contactFound \/ r.pending \in {"verify_issue", "knowledge_clarify"}
  BY <1>1, <1>2, RoutingLimits DEF NextStep, ResumeFlow, Go, RouteState
<1>3. CASE ~ r.contactFound /\ r.pending \notin {"verify_issue", "knowledge_clarify"}
  <2>1. CASE r.verifyOutcome # "none"
    BY <1>1, <1>3, <2>1, RoutingLimits
    DEF NextStep, AfterVerification, VerifyOutcomes, Go, RouteState, Optional
  <2>2. CASE r.verifyOutcome = "none" /\ r.knowledgeStatus # "none"
    <3> USE <1>1, <1>3, <2>2, RoutingLimits DEF NextStep, AfterKnowledge, Go, RouteState, Optional
    <3>1. CASE r.knowledgeStatus = "no_answer"
      <4>1. NextStep(r).step = "escalate" BY <3>1
      <4>2. ~ (r.hopCount >= MaxHops) OBVIOUS
      <4> HIDE DEF AfterKnowledge, Go, NextStep
      <4>3. NextStep(r) = AfterKnowledge(r) BY <1>3, <2>2, <4>2, Zenon DEF NextStep
      <4>4. NextStep(r).reason = "knowledge unresolved" BY <3>1, <4>3, NoAnswerRule
      <4>5. QED BY <3>1, <4>1, <4>4
    <3>2. CASE r.knowledgeStatus = "suspected_bug" BY <3>2
    <3>3. CASE r.knowledgeStatus = "clarify" BY <3>3
    <3>4. CASE r.knowledgeStatus = "answer" BY <3>4
    <3>5. QED BY <3>1, <3>2, <3>3, <3>4 DEF KnowledgeStatuses
  <2>3. CASE r.verifyOutcome = "none" /\ r.knowledgeStatus = "none"
    BY <1>1, <1>3, <2>3, RoutingLimits
    DEF NextStep, AfterTriage, TriageTargets, Go, RouteState, Optional
  <2>4. QED BY <2>1, <2>2, <2>3
<1>4. QED BY <1>2, <1>3

(* A turn that takes another step than the handoff has missed nothing.     *)
LEMMA NothingMissed ==
  ASSUME SessionInv, NEW t \in Turns, StageInv(t), pc[t] = "route",
         NextStep(route[t]).step # "escalate"
  PROVE  t \notin missingRows /\ route[t].knowledgeStatus # "no_answer"
<1>1. route[t] \in RouteState /\ route[t].hopCount <= LongestPath
  BY DEF SessionInv, TypeOK, TurnInv, InLoop, HopsFit
<1>2. MissAgrees(t) BY DEF StageInv
<1>3. t \in missingRows => NextStep(route[t]).step = "escalate"
  BY <1>1, <1>2, MissIsEscalated DEF MissAgrees
<1>4. t \notin missingRows BY <1>3
<1>5. QED BY <1>2, <1>4 DEF MissAgrees

-----------------------------------------------------------------------------
(* What a step keeps of turn u's effects: a contact that reaches the row   *)
(* changes neither what was filed nor the issue it names.                  *)
EffectsKept(u) ==
  /\ rows'[u].filed = rows[u].filed /\ rows'[u].flow = rows[u].flow
  /\ rows'[u].issue = rows[u].issue
  /\ issues'[u] = issues[u] /\ paged'[u] = paged[u] /\ saved'[u] = saved[u]
  /\ u \in missingRows' <=> u \in missingRows
  /\ u \in questions' <=> u \in questions

LEMMA DurableKept == UNCHANGED durable => \A u \in Turns : EffectsKept(u)
BY DEF durable, EffectsKept

LEMMA OthersKeepEffects ==
  ASSUME TypeOK, NEW t \in Turns, TurnStep(t), NEW u \in Turns, u # t
  PROVE  EffectsKept(u) /\ refs'[u] = refs[u]
<1> USE DEF TypeOK
<1>1. CASE BlockInput(t) \/ EnterRoute(t)
  BY <1>1, DurableKept DEF BlockInput, EnterRoute
<1>2. CASE TriageStep(t) \/ KnowledgeAnswers(t) \/ KnowledgeAsks(t) \/ VerifyStep(t)
  <2>1. UNCHANGED <<durable, refs>>
    BY <1>2 DEF TriageStep, KnowledgeAnswers, KnowledgeAsks, VerifyStep
  <2>2. QED BY <2>1, DurableKept
<1>3. CASE LogMissingAnswer(t) \/ QueueQuestion(t)
  BY <1>3 DEF LogMissingAnswer, QueueQuestion, EffectsKept
<1>4. CASE ReplyStep(t) \/ OutOfScopeStep(t)
  BY <1>4, DurableKept DEF ReplyStep, OutOfScopeStep
<1>5. CASE EscalateStep(t) \/ HandOffTicket(t)
  <2>1. PICK why : HandOff(t, why) BY <1>5 DEF EscalateStep, HandOffTicket
  <2>2. paged'[u] = paged[u] BY <2>1 DEF HandOff, Page
  <2>3. refs'[u] = refs[u] BY <1>5 DEF EscalateStep, HandOffTicket
  <2>4. QED BY <2>1, <2>2, <2>3 DEF HandOff, EffectsKept
<1>6. CASE CreateIssue(t)
  <2>1. issues'[u] = issues[u] /\ refs'[u] = refs[u] BY <1>6 DEF CreateIssue
  <2>2. QED BY <1>6, <2>1 DEF CreateIssue, EffectsKept
<1>7. CASE AddBugRow(t)
  BY <1>7 DEF AddBugRow, EffectsKept
<1>8. CASE SetConversationContact(t) \/ AddContactNote(t)
  BY <1>8 DEF SetConversationContact, AddContactNote, EffectsKept
<1>9. CASE SetRowContact(t)
  <2>1. \/ rows' = [rows EXCEPT ![refs[t].backlog].contact = t]
        \/ rows' = rows
    BY <1>9 DEF SetRowContact
  <2>2. /\ rows'[u].filed = rows[u].filed /\ rows'[u].flow = rows[u].flow
        /\ rows'[u].issue = rows[u].issue
    BY <2>1 DEF Row
  <2>3. QED BY <1>9, <2>2 DEF SetRowContact, EffectsKept
<1>10. CASE ScreenReply(t)
  BY <1>10, DurableKept DEF ScreenReply
<1>11. CASE SaveSession(t)
  BY <1>11 DEF SaveSession, EffectsKept
<1>12. CASE AppendUser(t)
  BY <1>12 DEF AppendUser, EffectsKept
<1>13. CASE AppendReply(t)
  BY <1>13 DEF AppendReply, Release, EffectsKept
<1>14. QED
  BY <1>1, <1>2, <1>3, <1>4, <1>5, <1>6, <1>7, <1>8, <1>9, <1>10, <1>11, <1>12, <1>13
  DEF TurnStep

(* A turn of which nothing changed is still where its effects say it is.   *)
LEMMA UntouchedKeepsStage ==
  ASSUME NEW u \in Turns, StageInv(u), EffectsKept(u), pc'[u] = pc[u], refs'[u] = refs[u],
         route'[u] = route[u], result'[u] = result[u], local'[u] = local[u]
  PROVE  StageInv(u)'
<1>1. AllOut(u)' <=> AllOut(u) BY DEF AllOut, EffectsKept
<1>2. MissAgrees(u)' <=> MissAgrees(u) BY DEF MissAgrees, EffectsKept
<1>3. IssueKnown(u)' <=> IssueKnown(u) BY DEF IssueKnown, EffectsKept
<1>4. TicketHeld(u)' <=> TicketHeld(u) BY DEF TicketHeld, EffectsKept
<1>5. HandoffRecorded(u)' <=> HandoffRecorded(u)
  BY <1>4 DEF HandoffRecorded, EffectsKept
<1>6. RowIssueFits(u)' <=> RowIssueFits(u) BY DEF RowIssueFits, EffectsKept
<1>7. PagedIsRecorded(u)' <=> PagedIsRecorded(u) BY DEF PagedIsRecorded, EffectsKept
<1>8. QED BY <1>1, <1>2, <1>3, <1>4, <1>5, <1>6, <1>7 DEF StageInv, EffectsKept

-----------------------------------------------------------------------------
(* An agent's report folded back in leaves the turn on its way, and on its *)
(* way to the handoff of a miss exactly when it reported one.              *)
LEMMA FoldKeepsStage ==
  ASSUME TypeOK, NEW t \in Turns, StageInv(t), pc[t] \in {"route", "queue_question"},
         NEW s, NEW cited, NEW report, Fold(t, report, s, cited),
         UNCHANGED <<rows, paged, saved, issues, missingRows>>,
         questions \subseteq questions',
         t \in missingRows <=> report.status = "no_answer",
         t \in missingRows => report.outcome = "none" /\ t \in questions'
  PROVE  StageInv(t)'
<1>1. pc'[t] = "route" /\ route'[t] = AfterStep(route[t], report, s)
  BY DEF Fold, Goto, TypeOK
<1>2. /\ route'[t].knowledgeStatus = report.status /\ route'[t].verifyOutcome = report.outcome
      /\ ~ route'[t].contactFound /\ route'[t].pending = "none"
  BY <1>1 DEF AfterStep
<1>3. MissAgrees(t)' BY <1>2 DEF MissAgrees
<1>4. ~ rows[t].filed /\ paged[t] = "none" BY DEF StageInv, BeforeHandoff
<1>5. saved[t] = 0 BY DEF StageInv, TypeOK
<1>6. QED
  BY <1>1, <1>3, <1>4, <1>5
  DEF StageInv, NoMissLocations, Closing, RowIssueFits, PagedIsRecorded

(* A turn still before its handoff moves to another such location, or to   *)
(* the end of its routing without having paged anybody.                    *)
LEMMA MoveKeepsStage ==
  ASSUME TypeOK, NEW t \in Turns, StageInv(t), UNCHANGED durable,
         pc[t] \in BeforeHandoff \ {"queue_question", "add_row"}, t \notin missingRows,
         pc'[t] \in {"screen", "save"} \/ pc'[t] \in {"loaded", "contact_row", "contact_note"},
         pc'[t] = "screen" => ~ result'[t].escalated
  PROVE  StageInv(t)'
<1>1. ~ rows[t].filed /\ paged[t] = "none" BY DEF StageInv
<1>2. saved[t] = 0 BY DEF StageInv, BeforeHandoff, TypeOK
<1>3. AllOut(t)' BY <1>1 DEF AllOut, durable
<1>4. RowIssueFits(t)' /\ PagedIsRecorded(t)'
  BY <1>1 DEF RowIssueFits, PagedIsRecorded, durable
<1>5. QED BY <1>1, <1>2, <1>3, <1>4 DEF StageInv, durable

(* Once its effects are out a turn only has its reply to put away.         *)
LEMMA EndKeepsStage ==
  ASSUME TypeOK, NEW t \in Turns, StageInv(t), EffectsKept(t),
         pc[t] \in Closing \ {"done"}, pc'[t] \in Closing \cup {"failed"}, pc'[t] # "screen",
         pc[t] = "append_reply" => pc'[t] \in {"done", "failed"}
  PROVE  StageInv(t)'
<1>1. AllOut(t)' BY DEF StageInv, AllOut, EffectsKept
<1>2. RowIssueFits(t)' /\ PagedIsRecorded(t)'
  BY DEF StageInv, RowIssueFits, PagedIsRecorded, EffectsKept
<1>3. saved[t] > 0 => pc'[t] \in {"append_reply", "done", "failed"}
  BY DEF StageInv, Closing
<1>4. QED
  BY <1>1, <1>2, <1>3
  DEF StageInv, EffectsKept, Closing, BeforeHandoff, NoMissLocations

LEMMA TurnStepKeepsStage ==
  ASSUME SessionInv, NEW t \in Turns, StageInv(t), TurnStep(t)
  PROVE  StageInv(t)'
<1>t1. TypeOK /\ TypeOK' BY TurnStepTyped DEF SessionInv
<1>t2. /\ route[t] \in RouteState /\ local[t] \in SessionState /\ refs[t] \in Refs
       /\ rows[t] \in Row /\ t # 0
  BY <1>t1 DEF TypeOK, Turns
<1>t3. pc[t] = "route" => route[t].hopCount <= LongestPath /\ ~ result[t].escalated
  BY DEF SessionInv, TurnInv, InLoop, HopsFit, ResultFits
<1>t4. ~ PlainReply.escalated BY DEF PlainReply
<1>1. CASE BlockInput(t)
  <2>1. pc[t] = "loaded" /\ pc'[t] = "save" /\ UNCHANGED durable
    BY <1>1, <1>t1 DEF BlockInput, Goto, TypeOK
  <2>2. t \notin missingRows BY <2>1 DEF StageInv, NoMissLocations
  <2>3. QED BY <1>t1, <2>1, <2>2, MoveKeepsStage DEF BeforeHandoff
<1>2. CASE EnterRoute(t)
  <2>1. PICK found \in BOOLEAN, wants \in BOOLEAN :
          route' = [route EXCEPT ![t] =
            StartRoute(MaybeCancel(TakeContact(local[t]), wants), found)]
    BY <1>2 DEF EnterRoute
  <2>2. route'[t].knowledgeStatus = "none" BY <1>t1, <2>1 DEF StartRoute, TypeOK
  <2>3. pc[t] = "loaded" /\ pc'[t] = "route" /\ UNCHANGED durable
    BY <1>2, <1>t1 DEF EnterRoute, Goto, TypeOK
  <2>4. t \notin missingRows BY <2>3 DEF StageInv, NoMissLocations
  <2>5. MissAgrees(t)' BY <2>2, <2>3, <2>4 DEF MissAgrees, durable
  <2>6. ~ rows[t].filed /\ paged[t] = "none" /\ saved[t] = 0
    BY <1>t1, <2>3 DEF StageInv, BeforeHandoff, TypeOK
  <2>7. QED
    BY <2>3, <2>4, <2>5, <2>6
    DEF StageInv, NoMissLocations, Closing, RowIssueFits, PagedIsRecorded, durable
<1>3. CASE TriageStep(t) \/ KnowledgeAnswers(t) \/ KnowledgeAsks(t) \/ VerifyStep(t)
  <2>1. PICK report, s, cited : Fold(t, report, s, cited) /\ report.status # "no_answer"
    <3>1. CASE TriageStep(t)
      <4>1. PICK target : Fold(t, TriageReport(target), local[t], FALSE)
        BY <3>1 DEF TriageStep
      <4>2. TriageReport(target).status # "no_answer" BY DEF TriageReport
      <4>3. QED BY <4>1, <4>2
    <3>2. CASE KnowledgeAnswers(t) \/ KnowledgeAsks(t)
      <4>1. PICK status \in {"answer", "suspected_bug", "clarify"} :
              \E s, cited : Fold(t, KnowledgeReport(status), s, cited)
        BY <3>2, Zenon DEF KnowledgeAnswers, KnowledgeAsks
      <4>2. KnowledgeReport(status).status # "no_answer" BY DEF KnowledgeReport
      <4>3. QED BY <4>1, <4>2
    <3>3. CASE VerifyStep(t)
      <4>1. PICK o, s : Fold(t, VerifyReport(o), s, FALSE) BY <3>3 DEF VerifyStep
      <4>2. VerifyReport(o).status # "no_answer" BY DEF VerifyReport
      <4>3. QED BY <4>1, <4>2
    <3>4. QED BY <1>3, <3>1, <3>2, <3>3
  <2>2. /\ pc[t] = "route" /\ UNCHANGED durable
        /\ NextStep(route[t]).step \in {"triage", "knowledge", "issue_verification"}
    BY <1>3 DEF TriageStep, KnowledgeAnswers, KnowledgeAsks, VerifyStep, AtStep
  <2>3. t \notin missingRows BY <2>2, NothingMissed
  <2>4. QED BY <1>t1, <2>1, <2>2, <2>3, FoldKeepsStage DEF durable
<1>4. CASE LogMissingAnswer(t)
  <2>1. pc[t] = "route" /\ pc'[t] = "queue_question" /\ t \in missingRows'
    BY <1>4, <1>t1 DEF LogMissingAnswer, AtStep, Goto, TypeOK
  <2>2. ~ rows[t].filed /\ paged[t] = "none" /\ saved[t] = 0
    BY <1>t1, <2>1 DEF StageInv, BeforeHandoff, TypeOK
  <2>3. rows' = rows /\ paged' = paged /\ saved' = saved BY <1>4 DEF LogMissingAnswer
  <2>4. QED
    BY <2>1, <2>2, <2>3 DEF StageInv, NoMissLocations, Closing, RowIssueFits, PagedIsRecorded
<1>5. CASE QueueQuestion(t)
  <2>1. /\ pc[t] = "queue_question" /\ t \in missingRows
        /\ Fold(t, KnowledgeReport("no_answer"), local[t], FALSE)
        /\ UNCHANGED <<rows, paged, saved, issues, missingRows>>
        /\ t \in questions' /\ questions \subseteq questions'
    BY <1>5 DEF QueueQuestion, StageInv
  <2>2. KnowledgeReport("no_answer").status = "no_answer"
        /\ KnowledgeReport("no_answer").outcome = "none"
    BY DEF KnowledgeReport
  <2>3. QED BY <1>t1, <2>1, <2>2, FoldKeepsStage
<1>6. CASE ReplyStep(t) \/ OutOfScopeStep(t)
  <2>1. /\ pc[t] = "route" /\ NextStep(route[t]).step # "escalate"
        /\ UNCHANGED durable /\ pc'[t] = "screen"
    BY <1>6, <1>t1 DEF ReplyStep, OutOfScopeStep, AtStep, LeaveRoute, Goto, TypeOK
  <2>2. ~ result'[t].escalated
    BY <1>6, <1>t1, <1>t3, <1>t4, <2>1 DEF ReplyStep, OutOfScopeStep, TypeOK
  <2>3. t \notin missingRows BY <2>1, NothingMissed
  <2>4. QED BY <1>t1, <2>1, <2>2, <2>3, MoveKeepsStage DEF BeforeHandoff
<1>7. CASE EscalateStep(t)
  <2> DEFINE why == NextStep(route[t]).reason
  <2>1. /\ pc[t] = "route" /\ NextStep(route[t]).step = "escalate" /\ pc'[t] = "screen"
        /\ paged' = IF why \in NotifyReasons THEN [paged EXCEPT ![t] = why] ELSE paged
        /\ result'[t] = HandedOff(why) /\ refs'[t] = NoRefs
        /\ UNCHANGED <<saved, issues, rows, missingRows, questions>>
    BY <1>7, <1>t1
    DEF EscalateStep, AtStep, HandOff, Page, LeaveRoute, Goto, TypeOK
  <2>2. why # "verified bug" BY <1>t2, <1>t3, <2>1, MissIsEscalated
  <2>3. why = "knowledge unresolved" <=> t \in missingRows
    BY <1>t2, <1>t3, <2>1, MissIsEscalated DEF StageInv, MissAgrees
  <2>4. ~ rows[t].filed /\ paged[t] = "none" /\ saved[t] = 0 /\ MissAgrees(t)
    BY <1>t1, <2>1 DEF StageInv, BeforeHandoff, TypeOK
  <2>5. paged'[t] = IF why \in NotifyReasons THEN why ELSE "none"
    BY <1>t1, <2>1, <2>4 DEF TypeOK
  <2> HIDE DEF why
  <2>6. AllOut(t)' BY <2>1, <2>3, <2>4, <2>5 DEF AllOut, NotifyReasons
  <2>7. PagedIsRecorded(t)'
    BY <2>1, <2>2, <2>3, <2>4, <2>5 DEF PagedIsRecorded, MissAgrees
  <2>8. HandoffRecorded(t)'
    <3>1. result'[t].reason = why BY <2>1 DEF HandedOff
    <3>2. refs'[t].backlog = 0 BY <2>1 DEF NoRefs
    <3>3. QED BY <2>2, <3>1, <3>2 DEF HandoffRecorded
  <2>9. RowIssueFits(t)' BY <2>1, <2>4 DEF RowIssueFits
  <2>10. QED
    BY <2>1, <2>4, <2>6, <2>7, <2>8, <2>9 DEF StageInv, BeforeHandoff, NoMissLocations
<1>8. CASE CreateIssue(t)
  <2>1. PICK stored, known \in BOOLEAN :
          /\ known => stored
          /\ issues' = IF stored THEN [issues EXCEPT ![t] = FlowOf(local[t].context)] ELSE issues
          /\ refs' = [refs EXCEPT ![t] = [backlog |-> 0, issue |-> IF known THEN t ELSE 0]]
    BY <1>8 DEF CreateIssue
  <2>2. /\ pc[t] = "route" /\ NextStep(route[t]).step # "escalate" /\ pc'[t] = "add_row"
        /\ UNCHANGED <<saved, rows, missingRows, questions, paged, local>>
    BY <1>8, <1>t1 DEF CreateIssue, AtStep, Goto, TypeOK
  <2>3. refs'[t].issue = (IF known THEN t ELSE 0)
    BY <1>t1, <2>1 DEF TypeOK
  <2>4. known => issues'[t] = FlowOf(local[t].context) BY <1>t1, <2>1 DEF TypeOK
  <2>5. IssueKnown(t)' BY <1>t2, <2>2, <2>3, <2>4 DEF IssueKnown
  <2>6. t \notin missingRows BY <2>2, NothingMissed
  <2>7. ~ rows[t].filed /\ paged[t] = "none" /\ saved[t] = 0
    BY <1>t1, <2>2 DEF StageInv, BeforeHandoff, TypeOK
  <2>8. QED
    BY <2>2, <2>5, <2>6, <2>7 DEF StageInv, Closing, RowIssueFits, PagedIsRecorded
<1>9. CASE AddBugRow(t)
  <2>1. /\ pc[t] = "add_row" /\ pc'[t] = "hand_off"
        /\ UNCHANGED <<saved, issues, missingRows, questions, paged>>
        /\ rows'[t] = [filed |-> TRUE, flow |-> FlowOf(local[t].context),
                       issue |-> refs[t].issue, contact |-> 0]
        /\ refs'[t].backlog = t /\ refs'[t].issue = refs[t].issue
    BY <1>9, <1>t1 DEF AddBugRow, Goto, TypeOK, Refs
  <2>2. IssueKnown(t) /\ paged[t] = "none" /\ saved[t] = 0 /\ t \notin missingRows
    BY <1>t1, <2>1 DEF StageInv, BeforeHandoff, NoMissLocations, TypeOK
  <2>3. TicketHeld(t)' BY <2>1 DEF TicketHeld
  <2>4. RowIssueFits(t)' BY <2>1, <2>2 DEF RowIssueFits, IssueKnown
  <2>5. PagedIsRecorded(t)' BY <2>1, <2>2 DEF PagedIsRecorded
  <2>6. QED
    BY <2>1, <2>2, <2>3, <2>4, <2>5 DEF StageInv, BeforeHandoff, Closing
<1>10. CASE HandOffTicket(t)
  <2>1. /\ pc[t] = "hand_off" /\ pc'[t] = "screen"
        /\ paged'[t] = "verified bug" /\ result'[t] = HandedOff("verified bug")
        /\ UNCHANGED <<saved, issues, rows, missingRows, questions, refs>>
    BY <1>10, <1>t1
    DEF HandOffTicket, HandOff, Page, LeaveRoute, Goto, NotifyReasons, TypeOK
  <2>2. /\ TicketHeld(t) /\ rows[t].filed /\ saved[t] = 0 /\ t \notin missingRows
        /\ RowIssueFits(t)
    <3>1. TicketHeld(t) /\ rows[t].filed /\ RowIssueFits(t) BY <2>1 DEF StageInv
    <3>2. saved[t] = 0
      <4>1. ~ (saved[t] > 0) BY <2>1 DEF StageInv
      <4>2. saved[t] \in 0 .. 2 BY <1>t1 DEF TypeOK
      <4>3. QED BY <4>1, <4>2
    <3>3. t \notin missingRows BY <2>1 DEF StageInv, NoMissLocations
    <3>4. QED BY <3>1, <3>2, <3>3
  <2>3. HandoffRecorded(t)'
    <3>1. result'[t].reason = "verified bug"
      <4>1. HandedOff("verified bug").reason = "verified bug" BY DEF HandedOff
      <4>2. QED BY <2>1, <4>1
    <3>2. TicketHeld(t)' BY <2>1, <2>2 DEF TicketHeld
    <3>3. QED BY <2>1, <2>2, <3>1, <3>2 DEF HandoffRecorded
  <2>4. AllOut(t)' /\ PagedIsRecorded(t)' /\ RowIssueFits(t)'
    BY <2>1, <2>2 DEF AllOut, PagedIsRecorded, RowIssueFits
  <2>5. QED BY <2>1, <2>2, <2>3, <2>4 DEF StageInv, BeforeHandoff, NoMissLocations
<1>11. CASE SetConversationContact(t) \/ SetRowContact(t) \/ AddContactNote(t)
  <2>1. /\ pc[t] \in {"route", "contact_row", "contact_note"}
        /\ pc'[t] \in {"contact_row", "contact_note", "screen"}
        /\ pc'[t] = "screen" => ~ result'[t].escalated
        /\ pc[t] = "route" => NextStep(route[t]).step # "escalate"
    BY <1>11, <1>t1, <1>t4
    DEF SetConversationContact, SetRowContact, AddContactNote, AtStep, LeaveRoute, Goto, TypeOK
  <2>2. EffectsKept(t)
    <3>1. CASE SetConversationContact(t) \/ AddContactNote(t)
      BY <3>1 DEF SetConversationContact, AddContactNote, EffectsKept
    <3>2. CASE SetRowContact(t)
      <4>1. \/ rows' = [rows EXCEPT ![refs[t].backlog].contact = t]
            \/ rows' = rows
        BY <3>2 DEF SetRowContact
      <4>2. /\ rows'[t].filed = rows[t].filed /\ rows'[t].flow = rows[t].flow
            /\ rows'[t].issue = rows[t].issue
        BY <1>t1, <4>1 DEF TypeOK, Row
      <4>3. QED BY <3>2, <4>2 DEF SetRowContact, EffectsKept
    <3>3. QED BY <1>11, <3>1, <3>2
  <2>3. t \notin missingRows
    BY <2>1, NothingMissed DEF StageInv, NoMissLocations
  <2>4. ~ rows[t].filed /\ paged[t] = "none" /\ saved[t] = 0
    BY <1>t1, <2>1 DEF StageInv, BeforeHandoff, TypeOK
  <2>5. AllOut(t)' /\ RowIssueFits(t)' /\ PagedIsRecorded(t)'
    BY <2>2, <2>3, <2>4 DEF EffectsKept, AllOut, RowIssueFits, PagedIsRecorded
  <2>6. QED BY <2>1, <2>2, <2>3, <2>4, <2>5 DEF StageInv, EffectsKept
<1>12. CASE ScreenReply(t) \/ SaveSession(t) \/ AppendReply(t)
  <2>1. CASE ScreenReply(t)
    <3>1. pc[t] = "screen" /\ pc'[t] = "save" /\ EffectsKept(t)
      BY <1>t1, <2>1, DurableKept DEF ScreenReply, Goto, TypeOK
    <3>2. QED BY <1>t1, <3>1, EndKeepsStage DEF Closing
  <2>2. CASE SaveSession(t)
    <3>1. pc[t] = "save" /\ pc'[t] = "append_user" /\ EffectsKept(t)
      BY <1>t1, <2>2 DEF SaveSession, Goto, TypeOK, EffectsKept
    <3>2. QED BY <1>t1, <3>1, EndKeepsStage DEF Closing
  <2>3. CASE AppendReply(t)
    <3>1. /\ pc[t] = "append_reply" /\ pc'[t] = "done"
          /\ UNCHANGED <<issues, rows, missingRows, questions, paged>>
      BY <1>t1, <2>3 DEF AppendReply, Goto, TypeOK
    <3>2. AllOut(t) /\ RowIssueFits(t) /\ PagedIsRecorded(t)
      BY <3>1 DEF StageInv, Closing
    <3>3. AllOut(t)' /\ RowIssueFits(t)' /\ PagedIsRecorded(t)'
      BY <3>1, <3>2 DEF AllOut, RowIssueFits, PagedIsRecorded
    <3>4. QED BY <3>1, <3>3 DEF StageInv, BeforeHandoff, NoMissLocations
  <2>4. QED BY <1>12, <2>1, <2>2, <2>3
<1>13. CASE AppendUser(t)
  <2>1. /\ pc[t] = "append_user" /\ pc'[t] = "append_reply"
        /\ UNCHANGED <<issues, rows, missingRows, questions, paged>>
    BY <1>13, <1>t1 DEF AppendUser, Goto, TypeOK
  <2>2. AllOut(t) /\ RowIssueFits(t) /\ PagedIsRecorded(t)
    BY <2>1 DEF StageInv, Closing
  <2>3. AllOut(t)' /\ RowIssueFits(t)' /\ PagedIsRecorded(t)'
    BY <2>1, <2>2 DEF AllOut, RowIssueFits, PagedIsRecorded
  <2>4. QED BY <2>1, <2>3 DEF StageInv, BeforeHandoff, NoMissLocations
<1>14. QED
  BY <1>1, <1>2, <1>3, <1>4, <1>5, <1>6, <1>7, <1>8, <1>9, <1>10, <1>11, <1>12, <1>13
  DEF TurnStep

-----------------------------------------------------------------------------
(* Gates.  A ticket that was filed and paged about stays so, so a gate     *)
(* that named it, in Redis or in the copy of a turn, goes on doing so.     *)

TicketsStay ==
  \A b \in Turns : rows[b].filed /\ paged[b] = "verified bug" =>
    rows'[b].filed /\ rows'[b].issue = rows[b].issue /\ paged'[b] = "verified bug"

LEMMA TurnStepKeepsTickets ==
  ASSUME SessionInv, NEW t \in Turns, StageInv(t), TurnStep(t)
  PROVE  TicketsStay
<1>1. TypeOK BY DEF SessionInv
<1>2. SUFFICES ASSUME NEW b \in Turns, rows[b].filed, paged[b] = "verified bug"
               PROVE  /\ rows'[b].filed = rows[b].filed /\ rows'[b].issue = rows[b].issue
                      /\ paged'[b] = paged[b]
  BY DEF TicketsStay
<1>3. CASE b # t BY <1>1, <1>3, OthersKeepEffects DEF EffectsKept
<1>4. CASE b = t
  <2>1. pc[t] \notin BeforeHandoff \cup {"hand_off"} BY <1>2, <1>4 DEF StageInv
  <2>2. ScreenReply(t) \/ SaveSession(t) \/ AppendUser(t) \/ AppendReply(t)
    BY <2>1
    DEF TurnStep, BeforeHandoff, BlockInput, EnterRoute, TriageStep, KnowledgeAnswers,
        KnowledgeAsks, LogMissingAnswer, QueueQuestion, VerifyStep, ReplyStep, OutOfScopeStep,
        EscalateStep, CreateIssue, AddBugRow, HandOffTicket, SetConversationContact,
        SetRowContact, AddContactNote, AtStep
  <2>3. UNCHANGED <<rows, paged>>
    BY <2>2 DEF ScreenReply, SaveSession, AppendUser, AppendReply, durable
  <2>4. QED BY <2>3
<1>5. QED BY <1>3, <1>4

(* The gate a session names, read against the stores after the step.       *)
GateNamesAfter(s) ==
  s.context.kind = "gate" =>
    LET b == s.context.backlog IN
    /\ s.context.reason = "verified bug" <=> b # 0
    /\ b # 0 => /\ rows'[b].filed
                /\ rows'[b].issue = s.context.issue
                /\ paged'[b] = "verified bug"

LEMMA GateStays ==
  ASSUME TicketsStay, NEW s \in SessionState, GateNamesHandoff(s)
  PROVE  GateNamesAfter(s)
<1>1. SUFFICES ASSUME s.context.kind = "gate" PROVE GateNamesAfter(s)
  BY DEF GateNamesAfter
<1>2. s.context.backlog \in TurnId
  BY <1>1 DEF SessionState, Contexts, NoContext
<1>3. s.context.backlog # 0 => s.context.backlog \in Turns
  BY <1>2, CoordinatorConstants DEF TurnId, Turns
<1>4. QED BY <1>1, <1>3 DEF GateNamesHandoff, GateNamesAfter, TicketsStay

(* What a session carries over: the context it had, none, or a flow's own. *)
LEMMA ContextsCarried ==
  ASSUME NEW s \in SessionState
  PROVE  /\ CloseFlow(s).context = NoContext
         /\ \A wants \in BOOLEAN :
              MaybeCancel(TakeContact(s), wants).context \in {s.context, NoContext}
         /\ SpendClarify(s).context = s.context
         /\ AskToClarify(s).context = s.context
         /\ \A t \in Turns, o \in VerifyOutcomes :
              LET q == AfterVerdict(CountVerifyTurn(OpenVerification(s, t)), o) IN
              /\ q.context \in {s.context, VerifyContext(t), NoContext}
              /\ o # "user_error" => q.pending = "verify_issue"
<1> USE DEF SessionState
<1>1. CloseFlow(s).context = NoContext BY DEF CloseFlow
<1>2. \A wants \in BOOLEAN :
        MaybeCancel(TakeContact(s), wants).context \in {s.context, NoContext}
  BY DEF MaybeCancel, TakeContact, CloseFlow
<1>3. SpendClarify(s).context = s.context BY DEF SpendClarify
<1>4. AskToClarify(s).context = s.context BY DEF AskToClarify
<1>5. ASSUME NEW t \in Turns, NEW o \in VerifyOutcomes
      PROVE  LET q == AfterVerdict(CountVerifyTurn(OpenVerification(s, t)), o) IN
             /\ q.context \in {s.context, VerifyContext(t), NoContext}
             /\ o # "user_error" => q.pending = "verify_issue"
  <2> DEFINE b == CountVerifyTurn(OpenVerification(s, t))
  <2>1. b.context \in {s.context, VerifyContext(t)} /\ b.pending = "verify_issue"
    BY DEF OpenVerification, CountVerifyTurn
  <2>2. b \in SessionState BY SessionOperatorsTyped
  <2> HIDE DEF b
  <2>3. /\ AfterVerdict(b, o).context \in {b.context, NoContext}
        /\ o # "user_error" => AfterVerdict(b, o).pending = b.pending
    BY <2>2 DEF AfterVerdict, CloseFlow
  <2>4. /\ AfterVerdict(b, o).context \in {s.context, VerifyContext(t), NoContext}
        /\ o # "user_error" => AfterVerdict(b, o).pending = "verify_issue"
    BY <2>1, <2>3
  <2>5. QED BY <2>4 DEF b
<1>6. QED BY <1>1, <1>2, <1>3, <1>4, <1>5

(* What a step does to the context of the turn's copy.                     *)
LEMMA TurnStepContext ==
  ASSUME SessionInv, NEW t \in Turns, TurnStep(t)
  PROVE  \/ local'[t].context \in {local[t].context, NoContext}
         \/ VerifyStep(t) /\ local'[t].context = VerifyContext(t)
         \/ /\ ScreenReply(t)
            /\ \/ local'[t].context = GateContext("ungrounded answer", NoRefs)
               \/ /\ result[t].escalated
                  /\ local'[t].context = GateContext(result[t].reason, refs[t])
<1>t1. TypeOK /\ local[t] \in SessionState BY DEF SessionInv, TypeOK
<1>1. CASE EnterRoute(t)
  <2>1. PICK wants \in BOOLEAN :
          local' = [local EXCEPT ![t] = MaybeCancel(TakeContact(local[t]), wants)]
    BY <1>1 DEF EnterRoute
  <2>2. local'[t] = MaybeCancel(TakeContact(local[t]), wants) BY <1>t1, <2>1 DEF TypeOK
  <2>3. QED BY <1>t1, <2>2, ContextsCarried
<1>2. CASE TriageStep(t) \/ QueueQuestion(t)
  <2>1. PICK report : Fold(t, report, local[t], FALSE)
    BY <1>2 DEF TriageStep, QueueQuestion
  <2>2. local'[t] = local[t] BY <1>t1, <2>1 DEF Fold, TypeOK
  <2>3. QED BY <2>2
<1>3. CASE KnowledgeAnswers(t) \/ KnowledgeAsks(t) \/ LogMissingAnswer(t)
  <2>1. local'[t] = SpendClarify(local[t]) \/ local'[t] = AskToClarify(local[t])
    <3>1. CASE KnowledgeAnswers(t)
      <4>1. PICK report, cited : Fold(t, report, SpendClarify(local[t]), cited)
        BY <3>1 DEF KnowledgeAnswers
      <4>2. QED BY <1>t1, <4>1 DEF Fold, TypeOK
    <3>2. CASE KnowledgeAsks(t)
      BY <1>t1, <3>2 DEF KnowledgeAsks, Fold, TypeOK
    <3>3. CASE LogMissingAnswer(t)
      BY <1>t1, <3>3 DEF LogMissingAnswer, TypeOK
    <3>4. QED BY <1>3, <3>1, <3>2, <3>3
  <2>2. QED BY <1>t1, <2>1, ContextsCarried
<1>4. CASE VerifyStep(t)
  <2> DEFINE after(o) == AfterVerdict(CountVerifyTurn(OpenVerification(local[t], t)), o)
  <2>1. PICK o \in VerifyOutcomes : Fold(t, VerifyReport(o), after(o), FALSE)
    BY <1>4 DEF VerifyStep
  <2>2. after(o).context \in {local[t].context, VerifyContext(t), NoContext}
    BY <1>t1, ContextsCarried
  <2> HIDE DEF after
  <2>3. local'[t] = after(o) BY <1>t1, <2>1 DEF Fold, TypeOK
  <2>4. QED BY <1>4, <2>2, <2>3
<1>5. CASE AddBugRow(t)
  <2>1. local'[t] = CloseFlow(local[t]) BY <1>t1, <1>5 DEF AddBugRow, TypeOK
  <2>2. QED BY <1>t1, <2>1, ContextsCarried
<1>6. CASE ScreenReply(t)
  <2>1. ASSUME NEW why, NEW r PROVE ArmGate(local[t], why, r).context = GateContext(why, r)
    BY <1>t1 DEF ArmGate, SessionState
  <2>2. /\ HandedOff("ungrounded answer").escalated
        /\ HandedOff("ungrounded answer").reason = "ungrounded answer"
    BY DEF HandedOff
  <2>3. \/ local' = local
        \/ local' = [local EXCEPT ![t] = ArmGate(local[t], "ungrounded answer", NoRefs)]
        \/ /\ result[t].escalated
           /\ local' = [local EXCEPT ![t] = ArmGate(local[t], result[t].reason, refs[t])]
    BY <1>6, <2>2 DEF ScreenReply
  <2>4. \/ local'[t] = local[t]
        \/ local'[t] = ArmGate(local[t], "ungrounded answer", NoRefs)
        \/ result[t].escalated /\ local'[t] = ArmGate(local[t], result[t].reason, refs[t])
    BY <1>t1, <2>3 DEF TypeOK
  <2>5. QED BY <1>6, <2>1, <2>4
<1>7. CASE AppendReply(t)
  <2>1. local'[t] = FreshSession BY <1>t1, <1>7 DEF AppendReply, Release, TypeOK
  <2>2. QED BY <2>1 DEF FreshSession
<1>8. CASE \/ BlockInput(t) \/ ReplyStep(t) \/ OutOfScopeStep(t) \/ EscalateStep(t)
           \/ CreateIssue(t) \/ HandOffTicket(t) \/ SetConversationContact(t)
           \/ SetRowContact(t) \/ AddContactNote(t) \/ SaveSession(t) \/ AppendUser(t)
  <2>1. local' = local
    BY <1>8
    DEF BlockInput, ReplyStep, OutOfScopeStep, EscalateStep, CreateIssue, HandOffTicket, HandOff,
        SetConversationContact, SetRowContact, AddContactNote, SaveSession, AppendUser
  <2>2. QED BY <2>1
<1>9. QED BY <1>1, <1>2, <1>3, <1>4, <1>5, <1>6, <1>7, <1>8 DEF TurnStep

(* Only a handoff about to end arms a gate, and only from what the turn's  *)
(* own stage has recorded.                                                 *)
LEMMA TurnStepKeepsGate ==
  ASSUME SessionInv, NEW t \in Turns, StageInv(t), TurnStep(t),
         GateNamesHandoff(local[t])
  PROVE  GateNamesAfter(local'[t])
<1>t1. local[t] \in SessionState /\ t # 0 BY DEF SessionInv, TypeOK, Turns
<1>t2. NoContext.kind = "none" /\ VerifyContext(t).kind = "verify"
  BY DEF NoContext, VerifyContext
<1>1. CASE local'[t].context = local[t].context
  <2>1. GateNamesAfter(local[t]) BY <1>t1, TurnStepKeepsTickets, GateStays
  <2>2. QED BY <1>1, <2>1 DEF GateNamesAfter
<1>2. CASE local'[t].context \in {NoContext, VerifyContext(t)}
  BY <1>t2, <1>2 DEF GateNamesAfter
<1>3. CASE ScreenReply(t) /\ local'[t].context = GateContext("ungrounded answer", NoRefs)
  <2>1. ASSUME NEW why, NEW r
        PROVE  GateContext(why, r).reason = why /\ GateContext(why, r).backlog = r.backlog
    BY DEF GateContext
  <2>2. NoRefs.backlog = 0 BY DEF NoRefs
  <2>3. /\ local'[t].context.reason = "ungrounded answer"
        /\ local'[t].context.backlog = 0
    <3> DEFINE g == GateContext("ungrounded answer", NoRefs)
    <3>1. g.reason = "ungrounded answer" /\ g.backlog = 0 BY <2>1, <2>2
    <3> HIDE DEF g
    <3>2. local'[t].context = g BY <1>3 DEF g
    <3>3. QED BY <3>1, <3>2
  <2>4. QED BY <2>3 DEF GateNamesAfter
<1>4. CASE /\ ScreenReply(t) /\ result[t].escalated
           /\ local'[t].context = GateContext(result[t].reason, refs[t])
  <2>1. UNCHANGED <<rows, paged>> BY <1>4 DEF ScreenReply, durable
  <2>2. HandoffRecorded(t) BY <1>4 DEF ScreenReply, StageInv
  <2>3. /\ local'[t].context.reason = result[t].reason
        /\ local'[t].context.backlog = refs[t].backlog
        /\ local'[t].context.issue = refs[t].issue
    BY <1>4 DEF GateContext
  <2>4. CASE result[t].reason = "verified bug"
    <3>1. TicketHeld(t) /\ rows[t].filed /\ paged[t] = "verified bug"
      BY <2>2, <2>4 DEF HandoffRecorded
    <3>2. refs[t].backlog = t /\ refs[t].issue = rows[t].issue BY <3>1 DEF TicketHeld
    <3>3. QED BY <1>t1, <2>1, <2>3, <2>4, <3>1, <3>2 DEF GateNamesAfter
  <2>5. CASE result[t].reason # "verified bug"
    <3>1. refs[t].backlog = 0 BY <2>2, <2>5 DEF HandoffRecorded
    <3>2. QED BY <2>3, <2>5, <3>1 DEF GateNamesAfter
  <2>6. QED BY <2>4, <2>5
<1>5. QED BY <1>1, <1>2, <1>3, <1>4, TurnStepContext

-----------------------------------------------------------------------------
LEMMA InitEffects == Init => EffectsInv
<1> SUFFICES ASSUME Init PROVE EffectsInv
  OBVIOUS
<1>1. SessionInv BY InitSession
<1>2. GateNamesHandoff(FreshSession)
  BY DEF GateNamesHandoff, FreshSession, NoContext
<1>3. ASSUME NEW t \in Turns PROVE StageInv(t)
  <2>1. /\ pc[t] = "idle" /\ ~ rows[t].filed /\ paged[t] = "none" /\ saved[t] = 0
        /\ t \notin missingRows
    BY DEF Init, NoRow
  <2>2. QED BY <2>1 DEF StageInv, Closing, RowIssueFits, PagedIsRecorded
<1>4. QED BY <1>1, <1>2, <1>3 DEF Init, EffectsInv

LEMMA NextKeepsEffects == EffectsInv /\ [Next]_vars => EffectsInv'
<1> SUFFICES ASSUME EffectsInv, [Next]_vars PROVE EffectsInv'
  OBVIOUS
<1>1. SessionInv /\ SessionInv' BY NextKeepsSession DEF EffectsInv
<1>2. TypeOK /\ TypeOK' BY <1>1 DEF SessionInv
<1>3. SUFFICES /\ \A u \in Turns : StageInv(u)' /\ GateNamesAfter(local'[u])
               /\ GateNamesAfter(session')
  BY <1>1 DEF EffectsInv, GateNamesHandoff, GateNamesAfter
<1>4. GateNamesAfter(FreshSession) BY DEF GateNamesAfter, FreshSession, NoContext
<1>5. TicketsStay =>
        GateNamesAfter(session) /\ \A u \in Turns : GateNamesAfter(local[u])
  BY <1>2, GateStays DEF EffectsInv, TypeOK
<1>6. CASE \E t \in Turns : TurnStep(t)
  <2>1. PICK t \in Turns : TurnStep(t) BY <1>6
  <2>2. TicketsStay BY <1>1, <2>1, TurnStepKeepsTickets DEF EffectsInv
  <2>3. StageInv(t)' BY <1>1, <2>1, TurnStepKeepsStage DEF EffectsInv
  <2>4. GateNamesAfter(local'[t]) BY <1>1, <2>1, TurnStepKeepsGate DEF EffectsInv
  <2>5. ASSUME NEW u \in Turns, u # t PROVE StageInv(u)' /\ GateNamesAfter(local'[u])
    <3>1. local'[u] = local[u] /\ route'[u] = route[u] /\ pc'[u] = pc[u]
          /\ result'[u] = result[u]
      BY <1>2, <2>1, <2>5, OtherTurnsUntouched
    <3>2. EffectsKept(u) /\ refs'[u] = refs[u] BY <1>2, <2>1, <2>5, OthersKeepEffects
    <3>3. StageInv(u)' BY <3>1, <3>2, UntouchedKeepsStage DEF EffectsInv
    <3>4. QED BY <1>5, <2>2, <3>1, <3>3
  <2>6. session' = session \/ session' = local[t]
    BY <2>1 DEF TurnStep, BlockInput, EnterRoute, TriageStep, KnowledgeAnswers, KnowledgeAsks,
       LogMissingAnswer, QueueQuestion, VerifyStep, ReplyStep, OutOfScopeStep, EscalateStep,
       HandOff, CreateIssue, AddBugRow, HandOffTicket, SetConversationContact, SetRowContact,
       AddContactNote, ScreenReply, SaveSession, AppendUser, AppendReply, durable
  <2>7. GateNamesAfter(session') BY <1>5, <2>1, <2>2, <2>6
  <2>8. QED BY <2>3, <2>4, <2>5, <2>7
<1>7. CASE UNCHANGED durable /\ \E t \in Turns : BeginTurn(t) \/ Fail(t)
  <2>1. PICK t \in Turns : BeginTurn(t) \/ Fail(t) BY <1>7
  <2>2. \A u \in Turns : EffectsKept(u) BY <1>7, DurableKept
  <2>3. GateNamesAfter(session) /\ \A u \in Turns : GateNamesAfter(local[u])
    BY <1>5, <2>2 DEF TicketsStay, EffectsKept
  <2>4. session' = session BY <1>7 DEF durable
  <2>5. ASSUME NEW u \in Turns, u # t PROVE StageInv(u)' /\ GateNamesAfter(local'[u])
    <3>1. local'[u] = local[u] /\ route'[u] = route[u] /\ pc'[u] = pc[u]
          /\ result'[u] = result[u] /\ refs'[u] = refs[u]
      BY <1>2, <2>1, <2>5 DEF BeginTurn, Fail, Release, Goto, TypeOK
    <3>2. StageInv(u)' BY <2>2, <3>1, UntouchedKeepsStage DEF EffectsInv
    <3>3. QED BY <2>3, <3>1, <3>2
  <2>6. StageInv(t) /\ RowIssueFits(t)' /\ PagedIsRecorded(t)'
    BY <1>7 DEF EffectsInv, StageInv, RowIssueFits, PagedIsRecorded, durable
  <2>7. CASE BeginTurn(t)
    <3>1. local'[t] = session /\ pc[t] = "idle" /\ pc'[t] = "loaded"
      BY <1>2, <2>7 DEF BeginTurn, Goto, TypeOK
    <3>2. ~ rows[t].filed /\ paged[t] = "none" /\ ~ (saved[t] > 0) /\ t \notin missingRows
      BY <2>6, <3>1 DEF StageInv, BeforeHandoff, NoMissLocations
    <3>3. StageInv(t)' BY <1>7, <2>6, <3>1, <3>2 DEF StageInv, Closing, durable
    <3>4. QED BY <2>3, <2>4, <2>5, <3>1, <3>3
  <2>8. CASE Fail(t)
    <3>1. local'[t] = FreshSession /\ pc'[t] = "failed"
      BY <1>2, <2>8 DEF Fail, Release, Goto, TypeOK
    <3>2. AllOut(t) => AllOut(t)' BY <1>7 DEF AllOut, durable
    <3>3. StageInv(t)'
      BY <1>7, <2>6, <3>1, <3>2 DEF StageInv, BeforeHandoff, NoMissLocations, Closing, durable
    <3>4. QED BY <1>4, <2>3, <2>4, <2>5, <3>1, <3>3
  <2>9. QED BY <2>1, <2>7, <2>8
<1>8. CASE ExpireSession \/ UNCHANGED vars
  <2>1. /\ UNCHANGED <<pc, local, route, refs, result>>
        /\ UNCHANGED <<saved, issues, rows, missingRows, questions, paged>>
        /\ session' = session \/ session' = FreshSession
    BY <1>8 DEF ExpireSession, vars, durable, inMemory
  <2>2. \A u \in Turns : EffectsKept(u) BY <2>1 DEF EffectsKept
  <2>3. GateNamesAfter(session) /\ \A u \in Turns : GateNamesAfter(local[u])
    BY <1>5, <2>2 DEF TicketsStay, EffectsKept
  <2>4. \A u \in Turns : StageInv(u)' BY <2>1, <2>2, UntouchedKeepsStage DEF EffectsInv
  <2>5. QED BY <1>4, <2>1, <2>3, <2>4
<1>9. QED BY <1>6, <1>7, <1>8 DEF Next, BeginTurn, Fail

LEMMA EffectsInvariant == Spec => []EffectsInv
<1>1. QED BY InitEffects, NextKeepsEffects, PTL DEF Spec

LEMMA EffectsInvSays ==
  EffectsInv => EffectsInOrder /\ RowNamesItsIssue /\ GateNamesItsHandoff
<1> SUFFICES ASSUME EffectsInv
             PROVE  EffectsInOrder /\ RowNamesItsIssue /\ GateNamesItsHandoff
  OBVIOUS
<1>1. EffectsInOrder
  BY DEF EffectsInv, StageInv, PagedIsRecorded, AllOut, EffectsInOrder
<1>2. RowNamesItsIssue BY DEF EffectsInv, StageInv, RowIssueFits, RowNamesItsIssue
<1>3. GateNamesItsHandoff BY DEF EffectsInv, GateNamesItsHandoff, Copies
<1>4. QED BY <1>1, <1>2, <1>3

(* CS is only paged about what is on record, and the history only holds    *)
(* turns whose records and pages are all out, wherever other turns stop.   *)
THEOREM EffectsAlwaysInOrder == Spec => []EffectsInOrder
<1>1. QED BY EffectsInvariant, EffectsInvSays, PTL

(* A backlog row names its own flow's issue or none, even when the answer  *)
(* of the tracker is lost.                                                 *)
THEOREM RowsNameTheirIssue == Spec => []RowNamesItsIssue
<1>1. QED BY EffectsInvariant, EffectsInvSays, PTL

(* No copy of the session carries a contact gate for a ticket that was not *)
(* filed, that names another issue, or that CS was not paged about.        *)
THEOREM GatesNameTheirHandoff == Spec => []GateNamesItsHandoff
<1>1. QED BY EffectsInvariant, EffectsInvSays, PTL

-----------------------------------------------------------------------------
(* One turn at a time, none of which fails: what the runs check of tickets *)
(* and contacts then holds for any number of turns.  The flow of a copy    *)
(* that is current has no ticket yet, and the ticket its gate names has no *)
(* contact yet and is the last CS was paged about.                         *)

FreshFlow(flow, iss, rws) ==
  flow # 0 => \A u \in Turns : iss[u] # flow /\ (rws[u].filed => rws[u].flow # flow)

Latest(b, rws, nts, pgd) ==
  b # 0 => /\ rws[b].contact = 0 /\ nts[b] = 0
           /\ \A v \in Turns : b < v => pgd[v] = "none"

GateLatest(c, rws, nts, pgd) ==
  c.kind = "gate" =>
    Latest(c.backlog, rws, nts, pgd) /\ (c.backlog = 0 => c.issue = 0)

Underway(t) == pc[t] \notin {"idle", "done"}

OneUnderway ==
  \A t \in Turns : Underway(t) =>
    \A u \in Turns : (u # t => ~ Underway(u)) /\ (t < u => pc[u] = "idle")

BegunInOrder == \A t, u \in Turns : u < t /\ pc[u] = "idle" => pc[t] = "idle"

FlowBegun(c) == FlowOf(c) # 0 => pc[FlowOf(c)] # "idle"

Ledger(t) ==
  /\ pc[t] # "failed"
  /\ pc[t] \in BeforeHandoff \ {"add_row"} => issues[t] = 0
  /\ issues[t] <= t
  /\ rows[t].filed => rows[t].flow \in 1 .. t
  /\ ~ rows[t].filed => rows[t].flow = 0
  /\ pc[t] \in BeforeHandoff \cup {"hand_off", "screen"} => rows[t].contact = 0 /\ notes[t] = 0
  /\ rows[t].contact # 0 => pc[rows[t].contact] # "idle"

TicketDue(t) ==
  LET flow == FlowOf(local[t].context) IN
  /\ flow \in 1 .. t
  /\ \A u \in Turns : u # t => issues[u] # flow
  /\ \A u \in Turns : rows[u].filed => rows[u].flow # flow

RefsLatest(t) ==
  /\ refs[t].backlog < t
  /\ refs[t].issue \in {0, refs[t].backlog}
  /\ Latest(refs[t].backlog, rows, notes, paged)

NoteDue(t) ==
  /\ refs[t].backlog < t
  /\ refs[t].issue \in {0, refs[t].backlog}
  /\ refs[t].backlog # 0 =>
       rows[refs[t].backlog].contact \in {0, t} /\ notes[refs[t].backlog] = 0

AloneStage(t) ==
  /\ Underway(t) /\ pc[t] # "add_row" => FreshFlow(FlowOf(local[t].context), issues, rows)
  /\ pc[t] = "add_row" => TicketDue(t)
  /\ pc[t] \in {"loaded", "save"} => GateLatest(local[t].context, rows, notes, paged)
  /\ pc[t] \in {"route", "queue_question", "contact_row"} => RefsLatest(t)
  /\ pc[t] = "contact_note" => NoteDue(t)
  /\ pc[t] = "screen" /\ result[t].escalated /\ refs[t].backlog = 0 => refs[t].issue = 0
  /\ pc[t] = "screen" => local[t].context.kind # "gate"
  /\ pc[t] = "route" /\ route[t].verifyOutcome \in {"bug_confirmed", "need_more_info"}
       => local[t].pending = "verify_issue"

SessionCurrent ==
  (\A t \in Turns : pc[t] \in {"idle", "append_user", "append_reply", "done"}) =>
    /\ FreshFlow(FlowOf(session.context), issues, rows)
    /\ GateLatest(session.context, rows, notes, paged)

AloneInv ==
  /\ EffectsInv
  /\ OneUnderway /\ BegunInOrder
  /\ \A t \in Turns : Ledger(t) /\ AloneStage(t) /\ FlowBegun(local[t].context)
  /\ FlowBegun(session.context)
  /\ SessionCurrent
  /\ OneTicketPerFlow /\ ContactAnswersLatestHandoff

(* Where a step of a turn starts and ends.                                 *)
LEMMA StepLocations ==
  ASSUME TypeOK, NEW t \in Turns, TurnStep(t)
  PROVE  /\ pc[t] \notin {"idle", "done", "failed"}
         /\ pc'[t] \notin {"idle", "loaded", "failed"}
         /\ \A u \in Turns : u # t => pc'[u] = pc[u]
<1> USE DEF TypeOK, Goto
<1>1. CASE BlockInput(t) \/ EnterRoute(t) BY <1>1 DEF BlockInput, EnterRoute
<1>2. CASE TriageStep(t) \/ KnowledgeAnswers(t) \/ KnowledgeAsks(t) \/ QueueQuestion(t)
           \/ VerifyStep(t)
  <2>1. PICK report, s, cited : Fold(t, report, s, cited)
    BY <1>2 DEF TriageStep, KnowledgeAnswers, KnowledgeAsks, QueueQuestion, VerifyStep
  <2>2. pc[t] \in {"route", "queue_question"}
    BY <1>2
    DEF TriageStep, KnowledgeAnswers, KnowledgeAsks, QueueQuestion, VerifyStep, AtStep
  <2>3. QED BY <2>1, <2>2 DEF Fold
<1>3. CASE LogMissingAnswer(t) BY <1>3 DEF LogMissingAnswer, AtStep
<1>4. CASE ReplyStep(t) \/ OutOfScopeStep(t)
  BY <1>4 DEF ReplyStep, OutOfScopeStep, LeaveRoute, AtStep
<1>5. CASE EscalateStep(t) \/ HandOffTicket(t)
  <2>1. PICK why : HandOff(t, why) BY <1>5 DEF EscalateStep, HandOffTicket
  <2>2. pc[t] \in {"route", "hand_off"} BY <1>5 DEF EscalateStep, HandOffTicket, AtStep
  <2>3. QED BY <2>1, <2>2 DEF HandOff, LeaveRoute
<1>6. CASE CreateIssue(t) \/ AddBugRow(t)
  BY <1>6 DEF CreateIssue, AddBugRow, AtStep
<1>7. CASE SetConversationContact(t) \/ SetRowContact(t) \/ AddContactNote(t)
  BY <1>7 DEF SetConversationContact, SetRowContact, AddContactNote, LeaveRoute, AtStep
<1>8. CASE ScreenReply(t) \/ SaveSession(t) \/ AppendUser(t) \/ AppendReply(t)
  BY <1>8 DEF ScreenReply, SaveSession, AppendUser, AppendReply
<1>9. QED BY <1>1, <1>2, <1>3, <1>4, <1>5, <1>6, <1>7, <1>8 DEF TurnStep

(* While a turn is underway the others are at rest: those before it are    *)
(* done and those after it have not begun.                                 *)
LEMMA OthersAtRest ==
  ASSUME AloneInv, NEW t \in Turns, Underway(t), NEW u \in Turns, u # t
  PROVE  /\ pc[u] \in {"idle", "done"}
         /\ u < t => pc[u] = "done"
         /\ t < u => pc[u] = "idle"
<1>1. pc[u] \in {"idle", "done"} BY DEF AloneInv, OneUnderway, Underway
<1>2. t < u => pc[u] = "idle" BY DEF AloneInv, OneUnderway
<1>3. u < t => pc[u] # "idle" BY DEF AloneInv, BegunInOrder, Underway
<1>4. QED BY <1>1, <1>2, <1>3

(* A turn that has not begun has left nothing anywhere.                    *)
LEMMA IdleLeftNothing ==
  ASSUME AloneInv, NEW u \in Turns, pc[u] = "idle"
  PROVE  ~ rows[u].filed /\ paged[u] = "none" /\ issues[u] = 0
BY DEF AloneInv, Ledger, EffectsInv, StageInv, BeforeHandoff

(* The flow a turn opens is its own, so it has no ticket yet.              *)
LEMMA OwnFlowIsFresh ==
  ASSUME AloneInv, NEW t \in Turns, pc[t] = "route"
  PROVE  FreshFlow(t, issues, rows)
<1> SUFFICES ASSUME NEW u \in Turns
             PROVE  issues[u] # t /\ (rows[u].filed => rows[u].flow # t)
  BY DEF FreshFlow
<1>1. t \in Nat /\ u \in Nat /\ t # 0 /\ issues[u] \in Nat
  BY CoordinatorConstants DEF Turns, AloneInv, EffectsInv, SessionInv, TypeOK, TurnId
<1>2. CASE u = t
  <2>1. ~ rows[t].filed /\ issues[t] = 0
    BY DEF AloneInv, Ledger, EffectsInv, StageInv, BeforeHandoff
  <2>2. QED BY <1>1, <1>2, <2>1
<1>3. CASE u < t
  <2>1. issues[u] <= u /\ (rows[u].filed => rows[u].flow \in 1 .. u)
    BY DEF AloneInv, Ledger
  <2>2. QED BY <1>1, <1>3, <2>1
<1>4. CASE t < u
  <2>1. pc[u] = "idle" BY <1>1, <1>4, OthersAtRest DEF Underway
  <2>2. QED BY <1>1, <2>1, IdleLeftNothing
<1>5. QED BY <1>1, <1>2, <1>3, <1>4

(* The ticket a turn is about to file belongs to the flow it collected     *)
(* evidence for: a verifier that confirmed a bug has left its flow open.   *)
LEMMA TicketHasItsFlow ==
  ASSUME AloneInv, NEW t \in Turns, AtStep(t, "file_ticket")
  PROVE  FlowOf(local[t].context) \in 1 .. t
<1>1. /\ pc[t] = "route" /\ NextStep(route[t]).step = "file_ticket"
      /\ route[t] \in RouteState /\ local[t] \in SessionState /\ Fits(local[t])
      /\ route[t].hopCount <= LongestPath /\ FlowAgrees(t)
  BY DEF AtStep, AloneInv, EffectsInv, SessionInv, TypeOK, TurnInv, InLoop, HopsFit
<1>2. route[t].pending = "verify_issue" \/ route[t].verifyOutcome = "bug_confirmed"
  <2> DEFINE r == route[t]
  <2>1. r.hopCount < MaxHops BY <1>1, RoutingLimits DEF LongestPath, RouteState
  <2>2. CASE r.contactFound \/ r.pending \in {"verify_issue", "knowledge_clarify"}
    BY <1>1, <2>1, <2>2 DEF NextStep, ResumeFlow, Go
  <2>3. CASE ~ r.contactFound /\ r.pending \notin {"verify_issue", "knowledge_clarify"}
    <3>1. CASE r.verifyOutcome # "none"
      BY <1>1, <2>1, <2>3, <3>1, RoutingLimits
      DEF NextStep, AfterVerification, VerifyOutcomes, Go, RouteState, Optional
    <3>2. CASE r.verifyOutcome = "none" /\ r.knowledgeStatus # "none"
      BY <1>1, <2>1, <2>3, <3>2, RoutingLimits
      DEF NextStep, AfterKnowledge, KnowledgeStatuses, Go, RouteState, Optional
    <3>3. CASE r.verifyOutcome = "none" /\ r.knowledgeStatus = "none"
      BY <1>1, <2>1, <2>3, <3>3, RoutingLimits
      DEF NextStep, AfterTriage, TriageTargets, Go, RouteState, Optional
    <3>4. QED BY <3>1, <3>2, <3>3
  <2>4. QED BY <2>2, <2>3
<1>3. local[t].pending = "verify_issue"
  BY <1>1, <1>2 DEF FlowAgrees, AloneInv, AloneStage
<1>4. local[t].context.kind = "verify" BY <1>1, <1>3 DEF Fits, ContextFitsPending
<1>5. local[t].context.flow \in Turns BY <1>1, <1>4 DEF SessionState, Contexts, NoContext
<1>6. FlowOf(local[t].context) \in Turns BY <1>4, <1>5 DEF FlowOf
<1> DEFINE f == FlowOf(local[t].context)
<1>7. f # 0 /\ f \in Nat /\ t \in Nat BY <1>6, CoordinatorConstants DEF Turns
<1>8. pc[f] # "idle" BY <1>6, <1>7 DEF AloneInv, FlowBegun
<1>9. ~ (t < f) BY <1>1, <1>6, <1>8, OthersAtRest, <1>7 DEF Underway
<1>10. QED BY <1>7, <1>9

(* A step of the one turn underway keeps the order of turns, and a flow    *)
(* that a copy names is that of a turn that has begun.                     *)
LEMMA TurnStepKeepsOrder ==
  ASSUME AloneInv, NEW t \in Turns, TurnStep(t)
  PROVE  /\ OneUnderway' /\ BegunInOrder'
         /\ FlowBegun(session.context)' /\ \A u \in Turns : FlowBegun(local[u].context)'
<1>1. TypeOK /\ SessionInv BY DEF AloneInv, EffectsInv, SessionInv
<1>2. /\ pc[t] \notin {"idle", "done", "failed"} /\ pc'[t] \notin {"idle", "loaded", "failed"}
      /\ \A u \in Turns : u # t => pc'[u] = pc[u]
  BY <1>1, StepLocations
<1>3. \A u \in Turns : pc'[u] = "idle" <=> pc[u] = "idle" BY <1>2
<1>4. BegunInOrder' BY <1>3 DEF AloneInv, BegunInOrder
<1>5. OneUnderway'
  <2>1. \A u \in Turns : u # t => ~ Underway(u) BY <1>2 DEF AloneInv, OneUnderway, Underway
  <2>2. \A u \in Turns : u # t => ~ Underway(u)' BY <1>2, <2>1 DEF Underway
  <2>3. \A u \in Turns : t < u => pc'[u] = "idle"
    BY <1>2, <1>3 DEF AloneInv, OneUnderway, Underway
  <2>4. QED BY <2>2, <2>3 DEF OneUnderway
<1>6. \A c \in Contexts : FlowBegun(c) =>
        (FlowOf(c) # 0 => pc'[FlowOf(c)] # "idle")
  BY <1>3, CoordinatorConstants DEF FlowBegun, FlowOf, Contexts, NoContext, Turns
<1>7. session.context \in Contexts /\ \A u \in Turns : local[u].context \in Contexts
  BY <1>1 DEF TypeOK, SessionState
<1>8. /\ FlowOf(session.context) # 0 => pc'[FlowOf(session.context)] # "idle"
      /\ \A u \in Turns : FlowOf(local[u].context) # 0 => pc'[FlowOf(local[u].context)] # "idle"
  BY <1>6, <1>7 DEF AloneInv
<1>9. FlowBegun(session.context)'
  <2>1. session' = session \/ session' = local[t]
    BY DEF TurnStep, BlockInput, EnterRoute, TriageStep, KnowledgeAnswers, KnowledgeAsks,
       LogMissingAnswer, QueueQuestion, VerifyStep, ReplyStep, OutOfScopeStep, EscalateStep,
       HandOff, CreateIssue, AddBugRow, HandOffTicket, SetConversationContact, SetRowContact,
       AddContactNote, ScreenReply, SaveSession, AppendUser, AppendReply, durable
  <2>2. QED BY <1>8, <2>1 DEF FlowBegun
<1>10. ASSUME NEW u \in Turns PROVE FlowBegun(local[u].context)'
  <2>1. CASE u # t
    <3>1. local'[u] = local[u] BY <1>1, <2>1, OtherTurnsUntouched
    <3>2. QED BY <1>8, <3>1 DEF FlowBegun
  <2>2. CASE u = t
    <3>1. FlowOf(local'[t].context) \in {0, t, FlowOf(local[t].context)}
      <4>1. FlowOf(NoContext) = 0 /\ FlowOf(VerifyContext(t)) = t
        BY DEF FlowOf, NoContext, VerifyContext
      <4>2. \A why, r : FlowOf(GateContext(why, r)) = 0 BY DEF FlowOf, GateContext
      <4>3. QED BY <1>1, <4>1, <4>2, TurnStepContext
    <3>2. QED BY <1>2, <1>8, <2>2, <3>1 DEF FlowBegun
  <2>3. QED BY <2>1, <2>2
<1>11. QED BY <1>4, <1>5, <1>9, <1>10

(* The flow a copy names after a step is still without a ticket, if it was *)
(* before and no ticket was filed in between.                              *)
LEMMA FlowStaysFresh ==
  ASSUME AloneInv, NEW t \in Turns, TurnStep(t), pc[t] # "add_row",
         UNCHANGED issues,
         \A u \in Turns : rows'[u].filed = rows[u].filed /\ rows'[u].flow = rows[u].flow
  PROVE  FreshFlow(FlowOf(local[t].context), issues, rows)'
<1>1. TypeOK /\ SessionInv BY DEF AloneInv, EffectsInv, SessionInv
<1>2. Underway(t) BY <1>1, StepLocations DEF Underway
<1>3. FreshFlow(FlowOf(local[t].context), issues, rows) BY <1>2 DEF AloneInv, AloneStage
<1>4. VerifyStep(t) => FreshFlow(t, issues, rows)
  BY OwnFlowIsFresh DEF VerifyStep, AtStep
<1>5. \/ FlowOf(local'[t].context) \in {0, FlowOf(local[t].context)}
      \/ VerifyStep(t) /\ FlowOf(local'[t].context) = t
  <2>1. FlowOf(NoContext) = 0 /\ FlowOf(VerifyContext(t)) = t
    BY DEF FlowOf, NoContext, VerifyContext
  <2>2. \A why, r : FlowOf(GateContext(why, r)) = 0 BY DEF FlowOf, GateContext
  <2>3. QED BY <1>1, <2>1, <2>2, TurnStepContext
<1>6. QED BY <1>3, <1>4, <1>5 DEF FreshFlow

(* Turns at rest have nothing to answer for.                               *)
LEMMA RestingStage ==
  ASSUME NEW u \in Turns, pc'[u] \in {"idle", "done"}
  PROVE  AloneStage(u)'
BY DEF AloneStage, Underway

(* A step that leaves tickets, contacts and pages alone leaves what is     *)
(* known of them alone.                                                    *)
LEMMA QuietStepKeepsLedgers ==
  ASSUME AloneInv, NEW t \in Turns, TurnStep(t), UNCHANGED <<issues, rows, notes, paged>>,
         pc'[t] \in BeforeHandoff \ {"add_row"} => pc[t] \in BeforeHandoff \ {"add_row"},
         pc'[t] \in {"add_row", "hand_off", "screen"} => pc[t] \in BeforeHandoff
  PROVE  /\ \A u \in Turns : Ledger(u)'
         /\ OneTicketPerFlow' /\ ContactAnswersLatestHandoff'
<1>1. TypeOK /\ SessionInv BY DEF AloneInv, EffectsInv, SessionInv
<1>2. /\ pc[t] \notin {"idle", "done", "failed"} /\ pc'[t] \notin {"idle", "loaded", "failed"}
      /\ \A u \in Turns : u # t => pc'[u] = pc[u]
  BY <1>1, StepLocations
<1>3. ASSUME NEW u \in Turns PROVE Ledger(u)'
  <2>1. Ledger(u) BY DEF AloneInv
  <2>2. rows[u].contact \in TurnId BY <1>1 DEF TypeOK, Row
  <2>3. rows[u].contact # 0 => pc'[rows[u].contact] # "idle"
    BY <1>2, <2>1, <2>2, CoordinatorConstants DEF Ledger, TurnId, Turns
  <2>4. QED BY <1>2, <2>1, <2>3 DEF Ledger, BeforeHandoff
<1>4. OneTicketPerFlow' BY DEF AloneInv, OneTicketPerFlow
<1>5. ContactAnswersLatestHandoff' BY DEF AloneInv, ContactAnswersLatestHandoff
<1>6. QED BY <1>3, <1>4, <1>5

(* Steps that file nothing, write no contact and page nobody.              *)
QuietStep(t) ==
  \/ BlockInput(t) \/ EnterRoute(t)
  \/ TriageStep(t) \/ KnowledgeAnswers(t) \/ KnowledgeAsks(t)
  \/ LogMissingAnswer(t) \/ QueueQuestion(t) \/ VerifyStep(t)
  \/ ReplyStep(t) \/ OutOfScopeStep(t) \/ SetConversationContact(t)
  \/ ScreenReply(t) \/ SaveSession(t) \/ AppendUser(t) \/ AppendReply(t)

LEMMA QuietStepLocations ==
  ASSUME TypeOK, NEW t \in Turns, QuietStep(t)
  PROVE  /\ UNCHANGED <<issues, rows, notes, paged>>
         /\ \/ BlockInput(t) /\ pc[t] = "loaded" /\ pc'[t] = "save"
            \/ EnterRoute(t) /\ pc[t] = "loaded" /\ pc'[t] = "route"
            \/ /\ pc[t] \in {"route", "queue_question"}
               /\ pc'[t] \in {"route", "queue_question", "contact_row"}
               /\ refs'[t] = refs[t]
            \/ /\ ReplyStep(t) \/ OutOfScopeStep(t)
               /\ pc[t] = "route" /\ pc'[t] = "screen" /\ local' = local
            \/ ScreenReply(t) /\ pc[t] = "screen" /\ pc'[t] = "save"
            \/ SaveSession(t) /\ pc[t] = "save" /\ pc'[t] = "append_user"
            \/ /\ pc[t] \in {"append_user", "append_reply"} /\ session' = session
               /\ pc'[t] \in {"append_reply", "done"}
<1> USE DEF TypeOK, Goto
<1>1. CASE BlockInput(t) \/ EnterRoute(t) BY <1>1 DEF BlockInput, EnterRoute, durable
<1>2. CASE TriageStep(t) \/ KnowledgeAnswers(t) \/ KnowledgeAsks(t) \/ QueueQuestion(t)
           \/ VerifyStep(t)
  <2>1. PICK report, s, cited : Fold(t, report, s, cited)
    BY <1>2 DEF TriageStep, KnowledgeAnswers, KnowledgeAsks, QueueQuestion, VerifyStep
  <2>2. pc[t] \in {"route", "queue_question"}
    BY <1>2
    DEF TriageStep, KnowledgeAnswers, KnowledgeAsks, QueueQuestion, VerifyStep, AtStep
  <2>3. UNCHANGED <<issues, rows, notes, paged, refs>>
    BY <1>2
    DEF TriageStep, KnowledgeAnswers, KnowledgeAsks, QueueQuestion, VerifyStep, durable
  <2>4. QED BY <2>1, <2>2, <2>3 DEF Fold
<1>3. CASE LogMissingAnswer(t) BY <1>3 DEF LogMissingAnswer, AtStep
<1>4. CASE ReplyStep(t) \/ OutOfScopeStep(t)
  BY <1>4 DEF ReplyStep, OutOfScopeStep, LeaveRoute, AtStep, durable
<1>5. CASE SetConversationContact(t)
  BY <1>5 DEF SetConversationContact, AtStep
<1>6. CASE ScreenReply(t) \/ SaveSession(t) \/ AppendUser(t) \/ AppendReply(t)
  BY <1>6 DEF ScreenReply, SaveSession, AppendUser, AppendReply, Release, durable
<1>7. QED BY <1>1, <1>2, <1>3, <1>4, <1>5, <1>6 DEF QuietStep

(* In the routing loop the copy of a turn holds no gate.                   *)
LEMMA NoGateInLoop ==
  ASSUME AloneInv, NEW t \in Turns, pc[t] \in {"route", "hand_off", "contact_note"}
  PROVE  local[t].context.kind # "gate"
<1>1. local[t] \in SessionState /\ Fits(local[t]) /\ TurnInv(t)
  BY DEF AloneInv, EffectsInv, SessionInv, TypeOK
<1>2. local[t].pending # "collect_contact" BY <1>1 DEF TurnInv, FlowAgrees
<1>3. QED BY <1>1, <1>2 DEF Fits, ContextFitsPending, SessionState, Optional, PendingFlows

(* What a gate pointed at is what the turn that reads it works with.       *)
LEMMA GateGivesRefs ==
  ASSUME AloneInv, NEW t \in Turns, pc[t] = "loaded"
  PROVE  LET r == RefsOf(local[t].context) IN
         /\ r.backlog < t /\ r.issue \in {0, r.backlog}
         /\ Latest(r.backlog, rows, notes, paged)
<1> DEFINE c == local[t].context
           r == RefsOf(c)
<1>1. /\ GateLatest(c, rows, notes, paged) /\ GateNamesHandoff(local[t]) /\ c \in Contexts
      /\ t \in Nat /\ t # 0
  BY DEF AloneInv, AloneStage, EffectsInv, SessionInv, TypeOK, SessionState, Turns
<1>2. CASE c.kind # "gate"
  <2>1. r.backlog = 0 /\ r.issue = 0 BY <1>2 DEF RefsOf, NoRefs
  <2>2. QED BY <1>1, <2>1 DEF Latest
<1>3. CASE c.kind = "gate"
  <2> DEFINE b == c.backlog
  <2>1. r.backlog = b /\ r.issue = c.issue BY <1>3 DEF RefsOf
  <2>2. Latest(b, rows, notes, paged) /\ (b = 0 => c.issue = 0) BY <1>1, <1>3 DEF GateLatest
  <2>3. CASE b = 0 BY <1>1, <2>1, <2>2, <2>3
  <2>4. CASE b # 0
    <3>1. b \in Turns
      BY <1>1, <1>3, <2>4, CoordinatorConstants DEF Contexts, NoContext, TurnId, Turns
    <3>2. rows[b].filed /\ rows[b].issue = c.issue BY <1>1, <1>3, <2>4 DEF GateNamesHandoff
    <3>3. c.issue \in {0, b}
      BY <3>1, <3>2 DEF AloneInv, EffectsInv, StageInv, RowIssueFits
    <3>4. b # t BY <3>2 DEF AloneInv, EffectsInv, StageInv, BeforeHandoff
    <3>5. ~ (t < b) BY <3>1, <3>2, <3>4, OthersAtRest, IdleLeftNothing DEF Underway
    <3>6. b < t BY <1>1, <3>1, <3>4, <3>5 DEF Turns
    <3>7. QED BY <2>1, <2>2, <3>3, <3>6
  <2>5. QED BY <2>3, <2>4
<1>4. QED BY <1>2, <1>3

(* A gate about to be armed names the latest ticket there is.              *)
LEMMA ArmedGateIsLatest ==
  ASSUME AloneInv, NEW t \in Turns, ScreenReply(t)
  PROVE  GateLatest(local'[t].context, rows, notes, paged)
<1>0. t \in Nat /\ t # 0 BY CoordinatorConstants DEF Turns
<1>1. SessionInv /\ pc[t] = "screen" BY DEF AloneInv, EffectsInv, ScreenReply
<1>2. local[t].context.kind # "gate" /\ NoContext.kind # "gate"
  BY <1>1 DEF AloneInv, AloneStage, NoContext
<1>3. TurnStep(t) /\ ~ VerifyStep(t) BY <1>1 DEF TurnStep, VerifyStep, AtStep
<1>4. CASE local'[t].context \in {local[t].context, NoContext}
  BY <1>2, <1>4 DEF GateLatest
<1>5. CASE \E why, r : /\ local'[t].context = GateContext(why, r)
                       /\ Latest(r.backlog, rows, notes, paged)
                       /\ r.backlog = 0 => r.issue = 0
  <2>1. PICK why, r : /\ local'[t].context = GateContext(why, r)
                      /\ Latest(r.backlog, rows, notes, paged)
                      /\ r.backlog = 0 => r.issue = 0
    BY <1>5
  <2>2. GateContext(why, r).backlog = r.backlog /\ GateContext(why, r).issue = r.issue
    BY DEF GateContext
  <2>3. QED BY <2>1, <2>2 DEF GateLatest
<1>6. Latest(NoRefs.backlog, rows, notes, paged) /\ NoRefs.issue = 0
  BY DEF NoRefs, Latest
<1>7. result[t].escalated =>
        Latest(refs[t].backlog, rows, notes, paged) /\ (refs[t].backlog = 0 => refs[t].issue = 0)
  <2> SUFFICES ASSUME result[t].escalated
               PROVE  /\ Latest(refs[t].backlog, rows, notes, paged)
                      /\ refs[t].backlog = 0 => refs[t].issue = 0
    OBVIOUS
  <2>1. refs[t].backlog = 0 => refs[t].issue = 0 BY <1>1 DEF AloneInv, AloneStage
  <2>2. refs[t].backlog \in {0, t}
    BY <1>1 DEF AloneInv, EffectsInv, StageInv, HandoffRecorded, TicketHeld
  <2>3. rows[t].contact = 0 /\ notes[t] = 0 BY <1>1 DEF AloneInv, Ledger
  <2>4. \A v \in Turns : t < v => paged[v] = "none"
    BY <1>0, <1>1, OthersAtRest, IdleLeftNothing DEF Underway, Turns
  <2>5. QED BY <2>1, <2>2, <2>3, <2>4 DEF Latest
<1>8. QED BY <1>1, <1>3, <1>4, <1>5, <1>6, <1>7, TurnStepContext

LEMMA QuietStepKeepsAlone ==
  ASSUME AloneInv, NEW t \in Turns, QuietStep(t)
  PROVE  /\ \A u \in Turns : Ledger(u)' /\ AloneStage(u)'
         /\ SessionCurrent' /\ OneTicketPerFlow' /\ ContactAnswersLatestHandoff'
<1>1. SessionInv /\ TypeOK /\ StageInv(t) /\ AloneStage(t)
  BY DEF AloneInv, EffectsInv, SessionInv
<1>2. TurnStep(t) /\ TypeOK' BY <1>1, TurnStepTyped DEF QuietStep, TurnStep
<1>3. /\ pc[t] \notin {"idle", "done", "failed"} /\ pc'[t] \notin {"idle", "loaded", "failed"}
      /\ \A u \in Turns : u # t => pc'[u] = pc[u]
  BY <1>1, <1>2, StepLocations
<1>4. \A u \in Turns : u # t => pc[u] \in {"idle", "done"}
  BY <1>3, OthersAtRest DEF Underway
<1>5. UNCHANGED <<issues, rows, notes, paged>> BY <1>1, QuietStepLocations
<1>6. /\ pc[t] # "add_row" /\ pc'[t] \notin {"add_row", "hand_off", "contact_note"}
      /\ pc'[t] \in BeforeHandoff \ {"add_row"} => pc[t] \in BeforeHandoff \ {"add_row"}
      /\ pc'[t] = "screen" => pc[t] = "route"
  BY <1>1, QuietStepLocations DEF BeforeHandoff
<1>7. (\A u \in Turns : Ledger(u)') /\ OneTicketPerFlow' /\ ContactAnswersLatestHandoff'
  <2>1. pc'[t] \in {"add_row", "hand_off", "screen"} => pc[t] \in BeforeHandoff
    BY <1>6 DEF BeforeHandoff
  <2>2. QED BY <1>2, <1>5, <1>6, <2>1, QuietStepKeepsLedgers
<1>8. FreshFlow(FlowOf(local[t].context), issues, rows)'
  BY <1>2, <1>5, <1>6, FlowStaysFresh
<1>9. pc'[t] = "save" => GateLatest(local[t].context, rows, notes, paged)'
  <2>1. CASE BlockInput(t)
    <3>1. local' = local /\ pc[t] = "loaded" BY <2>1 DEF BlockInput
    <3>2. QED BY <1>1, <1>5, <3>1 DEF AloneStage
  <2>2. CASE ScreenReply(t)
    <3>1. GateLatest(local'[t].context, rows, notes, paged) BY <2>2, ArmedGateIsLatest
    <3>2. QED BY <1>5, <3>1
  <2>3. QED BY <1>1, <2>1, <2>2, QuietStepLocations
<1>10. pc'[t] \in {"route", "queue_question", "contact_row"} => RefsLatest(t)'
  <2>1. CASE EnterRoute(t)
    <3>1. refs'[t] = RefsOf(local[t].context) /\ pc[t] = "loaded"
      BY <1>1, <2>1 DEF EnterRoute, TypeOK
    <3>2. QED BY <1>5, <3>1, GateGivesRefs DEF RefsLatest
  <2>2. CASE pc[t] \in {"route", "queue_question"} /\ refs'[t] = refs[t]
    <3>1. RefsLatest(t) BY <1>1, <2>2 DEF AloneStage
    <3>2. QED BY <1>5, <2>2, <3>1 DEF RefsLatest
  <2>3. QED BY <1>1, <2>1, <2>2, QuietStepLocations
<1>11. pc'[t] = "screen" => local'[t].context.kind # "gate" /\ ~ result'[t].escalated
  <2> SUFFICES ASSUME pc'[t] = "screen"
               PROVE  local'[t].context.kind # "gate" /\ ~ result'[t].escalated
    OBVIOUS
  <2>1. (ReplyStep(t) \/ OutOfScopeStep(t)) /\ pc[t] = "route" /\ local' = local
    BY <1>1, QuietStepLocations
  <2>2. ~ result[t].escalated BY <1>1, <2>1 DEF SessionInv, TurnInv, InLoop, ResultFits
  <2>3. ~ result'[t].escalated
    BY <1>1, <2>1, <2>2 DEF ReplyStep, OutOfScopeStep, PlainReply, TypeOK
  <2>4. QED BY <2>1, <2>3, NoGateInLoop
<1>12. pc'[t] = "route" /\ route'[t].verifyOutcome \in {"bug_confirmed", "need_more_info"}
         => local'[t].pending = "verify_issue"
  <2> SUFFICES ASSUME pc'[t] = "route",
                      route'[t].verifyOutcome \in {"bug_confirmed", "need_more_info"}
               PROVE  local'[t].pending = "verify_issue"
    OBVIOUS
  <2>1. CASE EnterRoute(t)
    <3>1. PICK s, found : route' = [route EXCEPT ![t] = StartRoute(s, found)]
      BY <2>1 DEF EnterRoute
    <3>2. route'[t].verifyOutcome = "none" BY <1>1, <3>1 DEF StartRoute, TypeOK
    <3>3. QED BY <3>2
  <2>2. CASE VerifyStep(t)
    <3> DEFINE after(o) == AfterVerdict(CountVerifyTurn(OpenVerification(local[t], t)), o)
    <3>1. PICK o \in VerifyOutcomes : Fold(t, VerifyReport(o), after(o), FALSE)
      BY <2>2 DEF VerifyStep
    <3>2. o # "user_error" => after(o).pending = "verify_issue"
      BY <1>1, ContextsCarried DEF TypeOK
    <3> HIDE DEF after
    <3>3. local'[t] = after(o) /\ route'[t] = AfterStep(route[t], VerifyReport(o), after(o))
      BY <1>1, <3>1 DEF Fold, TypeOK
    <3>4. route'[t].verifyOutcome = o BY <3>3 DEF AfterStep, VerifyReport
    <3>5. QED BY <3>2, <3>3, <3>4
  <2>3. CASE TriageStep(t) \/ KnowledgeAnswers(t) \/ KnowledgeAsks(t) \/ QueueQuestion(t)
    <3>1. PICK report, s, cited : Fold(t, report, s, cited) /\ report.outcome = "none"
      <4>1. \A x : TriageReport(x).outcome = "none" /\ KnowledgeReport(x).outcome = "none"
        BY DEF TriageReport, KnowledgeReport
      <4>2. \/ \E x, s, cited : Fold(t, TriageReport(x), s, cited)
            \/ \E x, s, cited : Fold(t, KnowledgeReport(x), s, cited)
        BY <2>3, Zenon DEF TriageStep, KnowledgeAnswers, KnowledgeAsks, QueueQuestion
      <4>3. QED BY <4>1, <4>2
    <3>2. route'[t].verifyOutcome = "none" BY <1>1, <3>1 DEF Fold, AfterStep, TypeOK
    <3>3. QED BY <3>2
  <2>4. CASE ~ EnterRoute(t) /\ ~ VerifyStep(t) /\ ~ TriageStep(t) /\ ~ KnowledgeAnswers(t)
             /\ ~ KnowledgeAsks(t) /\ ~ QueueQuestion(t)
    <3>1. pc'[t] # "route"
      BY <1>1, <2>4
      DEF QuietStep, BlockInput, LogMissingAnswer, ReplyStep, OutOfScopeStep, LeaveRoute,
          SetConversationContact, ScreenReply, SaveSession, AppendUser, AppendReply, Goto, TypeOK
    <3>2. QED BY <3>1
  <2>5. QED BY <2>1, <2>2, <2>3, <2>4
<1>13. AloneStage(t)'
  BY <1>3, <1>6, <1>8, <1>9, <1>10, <1>11, <1>12 DEF AloneStage, Underway
<1>14. \A u \in Turns : AloneStage(u)'
  <2>1. ASSUME NEW u \in Turns, u # t PROVE AloneStage(u)'
    BY <1>3, <1>4, <2>1, RestingStage
  <2>2. QED BY <1>13, <2>1
<1>15. SessionCurrent'
  <2>1. CASE SaveSession(t)
    <3>1. session' = local[t] /\ pc[t] = "save" BY <2>1 DEF SaveSession
    <3>2. /\ FreshFlow(FlowOf(local[t].context), issues, rows)
          /\ GateLatest(local[t].context, rows, notes, paged)
      BY <1>1, <3>1 DEF AloneStage, Underway
    <3>3. QED BY <1>5, <3>1, <3>2 DEF SessionCurrent
  <2>2. CASE pc[t] \in {"append_user", "append_reply"} /\ session' = session
    <3>1. \A u \in Turns : pc[u] \in {"idle", "append_user", "append_reply", "done"}
      BY <1>4, <2>2
    <3>2. QED BY <1>5, <2>2, <3>1 DEF AloneInv, SessionCurrent
  <2>3. CASE pc'[t] \in {"save", "route", "queue_question", "contact_row", "screen"}
    BY <2>3 DEF SessionCurrent
  <2>4. QED BY <1>1, <2>1, <2>2, <2>3, QuietStepLocations
<1>16. QED BY <1>7, <1>14, <1>15

(* The steps that file, page, or pass a contact on.                        *)
LEMMA LoudStepKeepsAlone ==
  ASSUME AloneInv, NEW t \in Turns, TurnStep(t), ~ QuietStep(t)
  PROVE  /\ \A u \in Turns : Ledger(u)' /\ AloneStage(u)'
         /\ SessionCurrent' /\ OneTicketPerFlow' /\ ContactAnswersLatestHandoff'
<1>0. t \in Nat /\ t # 0 BY CoordinatorConstants DEF Turns
<1>1. SessionInv /\ TypeOK /\ TypeOK' /\ StageInv(t) /\ AloneStage(t) /\ Ledger(t)
  BY TurnStepTyped DEF AloneInv, EffectsInv, SessionInv
<1>2. /\ pc[t] \notin {"idle", "done", "failed"} /\ pc'[t] \notin {"idle", "loaded", "failed"}
      /\ \A u \in Turns : u # t => pc'[u] = pc[u]
  BY <1>1, StepLocations
<1>3. \A u \in Turns : u # t =>
        /\ pc[u] \in {"idle", "done"}
        /\ u < t => pc[u] = "done"
        /\ t < u => pc[u] = "idle"
  BY <1>2, OthersAtRest DEF Underway
<1>4. \A u \in Turns : u # t => AloneStage(u)' BY <1>2, <1>3, RestingStage
<1>5. \A u \in Turns : rows[u].contact # 0 =>
        pc'[rows[u].contact] # "idle" /\ rows[u].contact <= t
  <2> SUFFICES ASSUME NEW u \in Turns, rows[u].contact # 0
               PROVE  pc'[rows[u].contact] # "idle" /\ rows[u].contact <= t
    OBVIOUS
  <2>1. rows[u].contact \in TurnId BY <1>1 DEF TypeOK, Row
  <2>2. rows[u].contact \in Turns /\ rows[u].contact \in Nat
    BY <2>1, CoordinatorConstants DEF TurnId, Turns
  <2>3. pc[rows[u].contact] # "idle" BY DEF AloneInv, Ledger
  <2>4. pc'[rows[u].contact] # "idle" BY <1>2, <2>2, <2>3
  <2>5. CASE rows[u].contact = t BY <1>0, <2>4, <2>5
  <2>6. CASE rows[u].contact # t
    <3>1. ~ (t < rows[u].contact) BY <1>3, <2>2, <2>3, <2>6
    <3>2. QED BY <1>0, <2>2, <2>4, <3>1
  <2>7. QED BY <2>5, <2>6
<1>6. (pc'[t] \in {"screen", "add_row", "hand_off", "contact_note"}) => SessionCurrent'
  BY DEF SessionCurrent
<1>7. CASE EscalateStep(t) \/ HandOffTicket(t)
  <2>1. /\ pc[t] \in {"route", "hand_off"} /\ pc'[t] = "screen" /\ local' = local
        /\ UNCHANGED <<issues, rows, notes>>
        /\ \A v \in Turns : v # t => paged'[v] = paged[v]
    <3>1. PICK why : HandOff(t, why) BY <1>7 DEF EscalateStep, HandOffTicket
    <3>2. pc[t] \in {"route", "hand_off"} BY <1>7 DEF EscalateStep, HandOffTicket, AtStep
    <3>3. QED BY <1>1, <3>1, <3>2 DEF HandOff, Page, LeaveRoute, Goto, TypeOK
  <2>2. FreshFlow(FlowOf(local[t].context), issues, rows)'
    BY <2>1, FlowStaysFresh
  <2>3. local[t].context.kind # "gate" BY <2>1, NoGateInLoop
  <2>4. refs'[t].backlog = 0 => refs'[t].issue = 0
    <3>1. CASE EscalateStep(t)
      <4>1. refs'[t] = NoRefs BY <1>1, <3>1 DEF EscalateStep, TypeOK
      <4>2. QED BY <4>1 DEF NoRefs
    <3>2. CASE HandOffTicket(t)
      <4>1. refs' = refs /\ pc[t] = "hand_off" BY <3>2 DEF HandOffTicket
      <4>2. refs[t].backlog = t BY <1>1, <4>1 DEF StageInv, TicketHeld
      <4>3. QED BY <1>0, <4>1, <4>2
    <3>3. QED BY <1>7, <3>1, <3>2
  <2>5. AloneStage(t)' BY <2>1, <2>2, <2>3, <2>4 DEF AloneStage
  <2>6. ASSUME NEW u \in Turns PROVE Ledger(u)'
    <3>1. Ledger(u) BY DEF AloneInv
    <3>2. rows'[u] = rows[u] /\ notes'[u] = notes[u] /\ issues'[u] = issues[u] BY <2>1
    <3>3. CASE u # t BY <1>2, <1>5, <3>1, <3>2, <3>3 DEF Ledger
    <3>4. CASE u = t BY <1>1, <1>5, <2>1, <3>2, <3>4 DEF Ledger, BeforeHandoff
    <3>5. QED BY <3>3, <3>4
  <2>7. OneTicketPerFlow' BY <2>1 DEF AloneInv, OneTicketPerFlow
  <2>8. ContactAnswersLatestHandoff'
    <3> SUFFICES ASSUME NEW b \in Turns, rows'[b].contact # 0
                 PROVE  LET u == rows'[b].contact IN
                        /\ b < u
                        /\ \A v \in Turns : b < v /\ v < u => paged'[v] = "none"
                        /\ notes'[b] # 0 => notes'[b] = u
      BY DEF ContactAnswersLatestHandoff
    <3> DEFINE u == rows[b].contact
    <3>1. u # 0 /\ u <= t /\ rows'[b].contact = u /\ notes'[b] = notes[b] BY <1>5, <2>1
    <3>2. /\ b < u /\ \A v \in Turns : b < v /\ v < u => paged[v] = "none"
          /\ notes[b] # 0 => notes[b] = u
      BY <3>1 DEF AloneInv, ContactAnswersLatestHandoff
    <3>3. u \in Nat BY <1>1, CoordinatorConstants DEF TypeOK, Row, TurnId
    <3>4. \A v \in Turns : b < v /\ v < u => v # t
      BY <1>0, <3>1, <3>3 DEF Turns
    <3>5. QED BY <2>1, <3>1, <3>2, <3>4
  <2>9. QED BY <1>4, <1>6, <2>1, <2>5, <2>6, <2>7, <2>8
<1>8. CASE CreateIssue(t)
  <2> DEFINE f == FlowOf(local[t].context)
  <2>1. /\ AtStep(t, "file_ticket") /\ pc[t] = "route" /\ pc'[t] = "add_row" /\ local' = local
        /\ UNCHANGED <<rows, notes, paged>>
        /\ issues'[t] \in {issues[t], f}
        /\ \A u \in Turns : u # t => issues'[u] = issues[u]
    BY <1>1, <1>8 DEF CreateIssue, AtStep, Goto, TypeOK
  <2>2. f \in 1 .. t BY <2>1, TicketHasItsFlow
  <2>3. issues[t] = 0 BY <1>1, <2>1 DEF Ledger, BeforeHandoff
  <2>4. \A u \in Turns : issues[u] # f /\ (rows[u].filed => rows[u].flow # f)
    <3>1. FreshFlow(f, issues, rows) BY <1>1, <2>1 DEF AloneStage, Underway
    <3>2. QED BY <2>2, <3>1 DEF FreshFlow
  <2>5. TicketDue(t)' BY <2>1, <2>2, <2>4 DEF TicketDue
  <2>6. AloneStage(t)' BY <2>1, <2>5 DEF AloneStage, Underway
  <2>7. OneTicketPerFlow'
    <3> SUFFICES ASSUME NEW v \in Turns, NEW u \in Turns, v # u
                 PROVE  /\ issues'[v] # 0 => issues'[v] # issues'[u]
                        /\ rows'[v].filed => rows'[v].flow # rows'[u].flow
      BY DEF OneTicketPerFlow
    <3>1. /\ issues[v] # 0 => issues[v] # issues[u]
          /\ rows[v].filed => rows[v].flow # rows[u].flow
      BY DEF AloneInv, OneTicketPerFlow
    <3>2. f # 0 BY <2>2
    <3> HIDE DEF f
    <3>3. issues'[v] # 0 => issues'[v] # issues'[u] BY <2>1, <2>3, <2>4, <3>1, <3>2
    <3>4. QED BY <2>1, <3>1, <3>3
  <2>8. ContactAnswersLatestHandoff' BY <2>1 DEF AloneInv, ContactAnswersLatestHandoff
  <2>9. ASSUME NEW u \in Turns PROVE Ledger(u)'
    <3>1. Ledger(u) BY DEF AloneInv
    <3>2. rows'[u] = rows[u] /\ notes'[u] = notes[u] BY <2>1
    <3>3. CASE u # t
      <4>1. issues'[u] = issues[u] /\ pc'[u] = pc[u] BY <1>2, <2>1, <3>3
      <4>2. QED BY <1>5, <3>1, <3>2, <4>1 DEF Ledger
    <3>4. CASE u = t
      <4>1. issues'[t] <= t BY <1>0, <2>1, <2>2, <2>3
      <4>2. QED BY <1>1, <1>5, <2>1, <3>2, <3>4, <4>1 DEF Ledger, BeforeHandoff
    <3>5. QED BY <3>3, <3>4
  <2>10. QED BY <1>4, <1>6, <2>1, <2>6, <2>7, <2>8, <2>9
<1>9. CASE AddBugRow(t)
  <2> DEFINE f == FlowOf(local[t].context)
  <2>1. /\ pc[t] = "add_row" /\ pc'[t] = "hand_off" /\ UNCHANGED <<issues, notes, paged>>
        /\ rows'[t].filed /\ rows'[t].flow = f /\ rows'[t].contact = 0
        /\ \A u \in Turns : u # t => rows'[u] = rows[u]
        /\ local'[t] = CloseFlow(local[t])
    BY <1>1, <1>9 DEF AddBugRow, Goto, TypeOK
  <2>2. TicketDue(t) BY <1>1, <2>1 DEF AloneStage
  <2>3. FlowOf(local'[t].context) = 0
    <3>1. local'[t].context = NoContext BY <1>1, <2>1, ContextsCarried DEF TypeOK
    <3>2. QED BY <3>1 DEF FlowOf, NoContext
  <2>4. AloneStage(t)' BY <2>1, <2>3 DEF AloneStage, FreshFlow
  <2>5. OneTicketPerFlow'
    <3> SUFFICES ASSUME NEW v \in Turns, NEW u \in Turns, v # u
                 PROVE  /\ issues'[v] # 0 => issues'[v] # issues'[u]
                        /\ rows'[v].filed => rows'[v].flow # rows'[u].flow
      BY DEF OneTicketPerFlow
    <3>1. /\ issues[v] # 0 => issues[v] # issues[u]
          /\ rows[v].filed => rows[v].flow # rows[u].flow
      BY DEF AloneInv, OneTicketPerFlow
    <3>2. \A w \in Turns : w # t => rows[w].flow # f
      <4>1. f # 0 BY <2>2 DEF TicketDue
      <4>2. \A w \in Turns : ~ rows[w].filed => rows[w].flow = 0 BY DEF AloneInv, Ledger
      <4>3. \A w \in Turns : rows[w].filed => rows[w].flow # f BY <2>2 DEF TicketDue
      <4>4. QED BY <4>1, <4>2, <4>3
    <3> HIDE DEF f
    <3>3. QED BY <2>1, <3>1, <3>2
  <2>6. ContactAnswersLatestHandoff'
    BY <2>1 DEF AloneInv, ContactAnswersLatestHandoff
  <2>7. ASSUME NEW u \in Turns PROVE Ledger(u)'
    <3>1. Ledger(u) BY DEF AloneInv
    <3>2. CASE u # t
      <4>1. rows'[u] = rows[u] /\ issues'[u] = issues[u] /\ notes'[u] = notes[u]
            /\ pc'[u] = pc[u]
        BY <1>2, <2>1, <3>2
      <4>2. QED BY <1>5, <3>1, <4>1 DEF Ledger
    <3>3. CASE u = t
      <4>1. rows'[t].flow \in 1 .. t BY <2>1, <2>2 DEF TicketDue
      <4>2. notes[t] = 0 BY <1>1, <2>1 DEF Ledger, BeforeHandoff
      <4>3. issues'[t] <= t BY <1>1, <2>1 DEF Ledger
      <4>4. QED BY <2>1, <3>3, <4>1, <4>2, <4>3 DEF Ledger, BeforeHandoff
    <3>4. QED BY <3>2, <3>3
  <2>8. QED BY <1>4, <1>6, <2>1, <2>4, <2>5, <2>6, <2>7
<1>10. CASE SetRowContact(t)
  <2> DEFINE b == refs[t].backlog
  <2>1. /\ pc[t] = "contact_row" /\ pc'[t] = "contact_note" /\ local' = local /\ refs' = refs
        /\ UNCHANGED <<issues, notes, paged>>
        /\ \/ rows' = rows
           \/ b # 0 /\ rows' = [rows EXCEPT ![b].contact = t]
    BY <1>1, <1>10 DEF SetRowContact, Goto, TypeOK
  <2>2. b < t /\ refs[t].issue \in {0, b} /\ Latest(b, rows, notes, paged)
    BY <1>1, <2>1 DEF AloneStage, RefsLatest
  <2>3. b # 0 => b \in Turns /\ pc[b] = "done"
    <3>1. b \in TurnId BY <1>1 DEF TypeOK, Refs
    <3>2. b # 0 => b \in Turns BY <3>1, CoordinatorConstants DEF TurnId, Turns
    <3>3. b # t BY <1>0, <2>2, <3>1, CoordinatorConstants DEF TurnId
    <3>4. QED BY <1>3, <2>2, <3>2, <3>3
  <2>4. \A u \in Turns :
          /\ rows'[u].filed = rows[u].filed /\ rows'[u].flow = rows[u].flow
          /\ \/ rows'[u].contact = rows[u].contact
             \/ b # 0 /\ u = b /\ rows'[u].contact = t
    <3>1. CASE rows' = rows BY <3>1
    <3>2. CASE b # 0 /\ rows' = [rows EXCEPT ![b].contact = t]
      BY <1>1, <2>3, <3>2 DEF TypeOK, Row
    <3>3. QED BY <2>1, <3>1, <3>2
  <2> HIDE DEF b
  <2>5. NoteDue(t)' BY <2>1, <2>2, <2>3, <2>4 DEF NoteDue, Latest, b
  <2>6. FreshFlow(FlowOf(local[t].context), issues, rows)'
    BY <2>1, <2>4, FlowStaysFresh
  <2>7. AloneStage(t)' BY <2>1, <2>5, <2>6 DEF AloneStage
  <2>8. OneTicketPerFlow' BY <2>1, <2>4 DEF AloneInv, OneTicketPerFlow
  <2>9. ContactAnswersLatestHandoff'
    <3> SUFFICES ASSUME NEW c \in Turns, rows'[c].contact # 0
                 PROVE  LET u == rows'[c].contact IN
                        /\ c < u
                        /\ \A v \in Turns : c < v /\ v < u => paged'[v] = "none"
                        /\ notes'[c] # 0 => notes'[c] = u
      BY DEF ContactAnswersLatestHandoff
    <3>1. CASE rows'[c].contact = rows[c].contact
      <4>1. paged' = paged /\ notes' = notes /\ rows[c].contact # 0 BY <2>1, <3>1
      <4>2. QED BY <3>1, <4>1 DEF AloneInv, ContactAnswersLatestHandoff
    <3>2. CASE b # 0 /\ c = b /\ rows'[c].contact = t
      BY <2>1, <2>2, <3>2 DEF Latest
    <3>3. QED BY <2>4, <3>1, <3>2
  <2>10. ASSUME NEW u \in Turns PROVE Ledger(u)'
    <3>1. Ledger(u) BY DEF AloneInv
    <3>2. issues'[u] = issues[u] /\ notes'[u] = notes[u] BY <2>1
    <3>3. CASE u = t
      <4>1. rows'[t].contact = rows[t].contact \/ b = t BY <2>4, <3>3
      <4>2. b # t BY <1>2, <2>3, <2>1, <1>0
      <4>3. QED
        BY <1>1, <1>5, <2>1, <2>4, <3>2, <3>3, <4>1, <4>2 DEF Ledger, BeforeHandoff
    <3>4. CASE u # t
      <4>1. pc'[u] = pc[u] BY <1>2, <3>4
      <4>2. rows'[u].contact # 0 => pc'[rows'[u].contact] # "idle"
        BY <1>2, <1>5, <2>4
      <4>3. pc[u] \in BeforeHandoff \cup {"hand_off", "screen"} => rows'[u].contact = 0
        <5>1. pc[u] = "done" => pc[u] \notin BeforeHandoff \cup {"hand_off", "screen"}
          BY DEF BeforeHandoff
        <5>2. QED BY <2>3, <2>4, <3>1, <5>1 DEF Ledger
      <4>4. QED BY <2>4, <3>1, <3>2, <4>1, <4>2, <4>3 DEF Ledger
    <3>5. QED BY <3>3, <3>4
  <2>11. QED BY <1>4, <1>6, <2>1, <2>7, <2>8, <2>9, <2>10
<1>11. CASE AddContactNote(t)
  <2> DEFINE b == refs[t].backlog
  <2>1. /\ pc[t] = "contact_note" /\ pc'[t] = "screen" /\ local' = local
        /\ UNCHANGED <<issues, rows, paged>> /\ result'[t] = PlainReply
        /\ \/ notes' = notes
           \/ refs[t].issue # 0 /\ notes' = [notes EXCEPT ![refs[t].issue] = t]
    BY <1>1, <1>11 DEF AddContactNote, LeaveRoute, Goto, TypeOK
  <2>2. /\ b < t /\ refs[t].issue \in {0, b}
        /\ b # 0 => rows[b].contact \in {0, t} /\ notes[b] = 0
    BY <1>1, <2>1 DEF AloneStage, NoteDue
  <2>3. b # 0 => b \in Turns /\ pc[b] = "done"
    <3>1. b \in TurnId BY <1>1 DEF TypeOK, Refs
    <3>2. b # 0 => b \in Turns BY <3>1, CoordinatorConstants DEF TurnId, Turns
    <3>3. b # t BY <1>0, <2>2, <3>1, CoordinatorConstants DEF TurnId
    <3>4. QED BY <1>3, <2>2, <3>2, <3>3
  <2>4. \A u \in Turns : notes'[u] = notes[u] \/ (b # 0 /\ u = b /\ notes'[u] = t)
    <3>1. CASE notes' = notes BY <3>1
    <3>2. CASE refs[t].issue # 0 /\ notes' = [notes EXCEPT ![refs[t].issue] = t]
      <4>1. refs[t].issue = b /\ b # 0 BY <2>2, <3>2
      <4>2. QED BY <1>1, <3>2, <4>1 DEF TypeOK
    <3>3. QED BY <2>1, <3>1, <3>2
  <2> HIDE DEF b
  <2>5. ~ result'[t].escalated BY <2>1 DEF PlainReply
  <2>6. FreshFlow(FlowOf(local[t].context), issues, rows)'
    BY <2>1, FlowStaysFresh
  <2>7. local[t].context.kind # "gate" BY <2>1, NoGateInLoop
  <2>8. AloneStage(t)' BY <2>1, <2>5, <2>6, <2>7 DEF AloneStage
  <2>9. OneTicketPerFlow' BY <2>1 DEF AloneInv, OneTicketPerFlow
  <2>10. ContactAnswersLatestHandoff'
    <3> SUFFICES ASSUME NEW c \in Turns, rows'[c].contact # 0
                 PROVE  LET u == rows'[c].contact IN
                        /\ c < u
                        /\ \A v \in Turns : c < v /\ v < u => paged'[v] = "none"
                        /\ notes'[c] # 0 => notes'[c] = u
      BY DEF ContactAnswersLatestHandoff
    <3>1. /\ c < rows[c].contact
          /\ \A v \in Turns : c < v /\ v < rows[c].contact => paged[v] = "none"
          /\ notes[c] # 0 => notes[c] = rows[c].contact
      BY <2>1 DEF AloneInv, ContactAnswersLatestHandoff
    <3>2. notes'[c] # 0 => notes'[c] = rows[c].contact
      <4>1. CASE notes'[c] = notes[c] BY <3>1, <4>1
      <4>2. CASE b # 0 /\ c = b /\ notes'[c] = t BY <2>1, <2>2, <4>2 DEF b
      <4>3. QED BY <2>4, <4>1, <4>2
    <3>3. QED BY <2>1, <3>1, <3>2
  <2>11. ASSUME NEW u \in Turns PROVE Ledger(u)'
    <3>1. Ledger(u) BY DEF AloneInv
    <3>2. issues'[u] = issues[u] /\ rows'[u] = rows[u] BY <2>1
    <3>3. CASE u = t
      <4>1. b # t BY <1>2, <2>1, <2>3, <1>0
      <4>2. notes'[t] = notes[t] BY <2>4, <4>1
      <4>3. QED BY <1>1, <1>5, <2>1, <3>2, <3>3, <4>2 DEF Ledger, BeforeHandoff
    <3>4. CASE u # t
      <4>1. pc'[u] = pc[u] BY <1>2, <3>4
      <4>2. pc[u] \in BeforeHandoff \cup {"hand_off", "screen"} => notes'[u] = 0
        <5>1. pc[u] = "done" => pc[u] \notin BeforeHandoff \cup {"hand_off", "screen"}
          BY DEF BeforeHandoff
        <5>2. QED BY <2>3, <2>4, <3>1, <5>1 DEF Ledger
      <4>3. QED BY <1>5, <3>1, <3>2, <4>1, <4>2 DEF Ledger
    <3>5. QED BY <3>3, <3>4
  <2>12. QED BY <1>4, <1>6, <2>1, <2>8, <2>9, <2>10, <2>11
<1>12. QED BY <1>7, <1>8, <1>9, <1>10, <1>11 DEF TurnStep, QuietStep

(* A turn only begins when no other is underway, and then works on the     *)
(* session as the last one left it.                                        *)
LEMMA BeginKeepsAlone ==
  ASSUME MaxInFlight = 1, AloneInv, NEW t \in Turns, BeginTurn(t)
  PROVE  /\ OneUnderway' /\ BegunInOrder' /\ SessionCurrent'
         /\ \A u \in Turns : Ledger(u)' /\ AloneStage(u)' /\ FlowBegun(local[u].context)'
         /\ FlowBegun(session.context)'
         /\ OneTicketPerFlow' /\ ContactAnswersLatestHandoff'
<1>1. SessionInv /\ TypeOK BY DEF AloneInv, EffectsInv, SessionInv
<1>2. /\ pc[t] = "idle" /\ pc'[t] = "loaded" /\ local'[t] = session
      /\ UNCHANGED durable
      /\ \A u \in Turns : u < t => pc[u] # "idle"
      /\ \A u \in Turns : u # t => pc'[u] = pc[u] /\ local'[u] = local[u]
  BY <1>1 DEF BeginTurn, Goto, TypeOK
<1>3. InFlight = {}
  <2>1. IsFiniteSet(Turns) /\ InFlight \subseteq Turns
    BY CoordinatorConstants, FS_Interval DEF Turns, InFlight
  <2>2. IsFiniteSet(InFlight) BY <2>1, FS_Subset
  <2>3. Cardinality(InFlight) \in Nat BY <2>2, FS_CardinalityType
  <2>4. Cardinality(InFlight) = 0 BY <2>3 DEF BeginTurn
  <2>5. QED BY <2>2, <2>4, FS_EmptySet
<1>4. \A u \in Turns : pc[u] \in {"idle", "done"}
  BY <1>1, <1>3 DEF InFlight, Ended, AloneInv, Ledger
<1>5. \A u \in Turns : pc'[u] = "idle" => pc[u] = "idle" BY <1>2
<1>6. \A u \in Turns : t < u => u # t /\ pc'[u] = "idle"
  <2> SUFFICES ASSUME NEW u \in Turns, t < u PROVE u # t /\ pc'[u] = "idle"
    OBVIOUS
  <2>1. u # t BY CoordinatorConstants DEF Turns
  <2>2. pc[u] = "idle" BY <1>2 DEF AloneInv, BegunInOrder
  <2>3. QED BY <1>2, <2>1, <2>2
<1>7. OneUnderway'
  <2>1. \A u \in Turns : u # t => ~ Underway(u)' BY <1>2, <1>4 DEF Underway
  <2>2. QED BY <1>6, <2>1 DEF OneUnderway
<1>8. BegunInOrder'
  <2> SUFFICES ASSUME NEW v \in Turns, NEW u \in Turns, u < v, pc'[u] = "idle"
               PROVE  pc'[v] = "idle"
    BY DEF BegunInOrder
  <2>1. pc[v] = "idle" /\ pc[u] = "idle" BY <1>5 DEF AloneInv, BegunInOrder
  <2>2. v # t BY <1>2, <2>1
  <2>3. QED BY <1>2, <2>1, <2>2
<1>9. SessionCurrent' BY <1>2 DEF SessionCurrent
<1>10. ASSUME NEW u \in Turns PROVE Ledger(u)'
  <2>1. Ledger(u) /\ rows[u].contact \in TurnId BY <1>1 DEF AloneInv, TypeOK, Row
  <2>2. rows[u].contact # 0 => pc'[rows[u].contact] # "idle"
    BY <1>5, <2>1, CoordinatorConstants DEF Ledger, TurnId, Turns
  <2>3. CASE u # t
    <3>1. pc'[u] = pc[u] BY <1>2, <2>3
    <3>2. QED BY <1>2, <2>1, <2>2, <3>1 DEF Ledger, durable
  <2>4. CASE u = t BY <1>2, <2>1, <2>2, <2>4 DEF Ledger, BeforeHandoff, durable
  <2>5. QED BY <2>3, <2>4
<1>11. /\ FreshFlow(FlowOf(session.context), issues, rows)
       /\ GateLatest(session.context, rows, notes, paged)
  BY <1>4 DEF AloneInv, SessionCurrent
<1>12. ASSUME NEW u \in Turns PROVE AloneStage(u)'
  <2>1. CASE u # t
    <3>1. pc'[u] \in {"idle", "done"} BY <1>2, <1>4, <2>1
    <3>2. QED BY <3>1, RestingStage
  <2>2. CASE u = t BY <1>2, <1>11, <2>2 DEF AloneStage, durable
  <2>3. QED BY <2>1, <2>2
<1>13. \A c \in Contexts : FlowBegun(c) => (FlowOf(c) # 0 => pc'[FlowOf(c)] # "idle")
  BY <1>5, CoordinatorConstants DEF FlowBegun, FlowOf, Contexts, NoContext, Turns
<1>14. FlowBegun(session.context)' /\ \A u \in Turns : FlowBegun(local[u].context)'
  <2>1. session.context \in Contexts /\ \A u \in Turns : local[u].context \in Contexts
    BY <1>1 DEF TypeOK, SessionState
  <2>2. /\ FlowOf(session.context) # 0 => pc'[FlowOf(session.context)] # "idle"
        /\ \A u \in Turns : FlowOf(local[u].context) # 0 => pc'[FlowOf(local[u].context)] # "idle"
    BY <1>13, <2>1 DEF AloneInv
  <2>3. session' = session BY <1>2 DEF durable
  <2>4. QED BY <1>2, <2>2, <2>3 DEF FlowBegun
<1>15. OneTicketPerFlow' BY <1>2 DEF AloneInv, OneTicketPerFlow, durable
<1>16. ContactAnswersLatestHandoff'
  BY <1>2 DEF AloneInv, ContactAnswersLatestHandoff, durable
<1>17. QED BY <1>7, <1>8, <1>9, <1>10, <1>12, <1>14, <1>15, <1>16

LEMMA InitAlone == Init => AloneInv
<1> SUFFICES ASSUME Init PROVE AloneInv
  OBVIOUS
<1>1. EffectsInv BY InitEffects
<1>2. FlowOf(FreshSession.context) = 0 /\ FreshSession.context.kind # "gate"
  BY DEF FreshSession, NoContext, FlowOf
<1>3. session = FreshSession
      /\ \A t \in Turns :
           /\ pc[t] = "idle" /\ local[t] = FreshSession /\ issues[t] = 0 /\ notes[t] = 0
           /\ ~ rows[t].filed /\ rows[t].flow = 0 /\ rows[t].contact = 0
  BY DEF Init, NoRow
<1>4. OneUnderway /\ BegunInOrder BY <1>3 DEF OneUnderway, BegunInOrder, Underway
<1>5. ASSUME NEW t \in Turns PROVE Ledger(t) /\ AloneStage(t) /\ FlowBegun(local[t].context)
  <2>1. issues[t] <= t BY <1>3, CoordinatorConstants DEF Turns
  <2>2. Ledger(t) BY <1>3, <2>1 DEF Ledger
  <2>3. AloneStage(t) BY <1>3 DEF AloneStage, Underway
  <2>4. QED BY <1>2, <1>3, <2>2, <2>3 DEF FlowBegun
<1>6. FlowBegun(session.context) /\ SessionCurrent
  BY <1>2, <1>3 DEF FlowBegun, SessionCurrent, FreshFlow, GateLatest
<1>7. OneTicketPerFlow BY <1>3 DEF OneTicketPerFlow
<1>8. ContactAnswersLatestHandoff BY <1>3 DEF ContactAnswersLatestHandoff
<1>9. QED BY <1>1, <1>4, <1>5, <1>6, <1>7, <1>8 DEF AloneInv

LEMMA NextKeepsAlone ==
  ASSUME MaxInFlight = 1, ~ FailuresAllowed, AloneInv, [Next]_vars
  PROVE  AloneInv'
<1>1. EffectsInv' BY NextKeepsEffects DEF AloneInv
<1>2. CASE \E t \in Turns : TurnStep(t)
  <2>1. PICK t \in Turns : TurnStep(t) BY <1>2
  <2>2. /\ OneUnderway' /\ BegunInOrder'
        /\ FlowBegun(session.context)' /\ \A u \in Turns : FlowBegun(local[u].context)'
    BY <2>1, TurnStepKeepsOrder
  <2>3. /\ \A u \in Turns : Ledger(u)' /\ AloneStage(u)'
        /\ SessionCurrent' /\ OneTicketPerFlow' /\ ContactAnswersLatestHandoff'
    BY <2>1, QuietStepKeepsAlone, LoudStepKeepsAlone
  <2>4. QED BY <1>1, <2>2, <2>3 DEF AloneInv
<1>3. CASE \E t \in Turns : BeginTurn(t)
  BY <1>1, <1>3, BeginKeepsAlone DEF AloneInv
<1>4. CASE \E t \in Turns : Fail(t)
  BY <1>4 DEF Fail
<1>5. CASE ExpireSession \/ UNCHANGED vars
  <2>1. /\ UNCHANGED <<pc, local, route, refs, result>>
        /\ UNCHANGED <<saved, issues, notes, rows, missingRows, questions, paged>>
        /\ session' = session \/ session' = FreshSession
    BY <1>5 DEF ExpireSession, vars, durable, inMemory
  <2>2. FlowOf(FreshSession.context) = 0 /\ FreshSession.context.kind # "gate"
    BY DEF FreshSession, NoContext, FlowOf
  <2>3. OneUnderway' /\ BegunInOrder'
    BY <2>1 DEF AloneInv, OneUnderway, BegunInOrder, Underway
  <2>4. ASSUME NEW t \in Turns
        PROVE  Ledger(t)' /\ AloneStage(t)' /\ FlowBegun(local[t].context)'
    <3>1. Ledger(t) /\ AloneStage(t) /\ FlowBegun(local[t].context) BY DEF AloneInv
    <3>2. Ledger(t)' BY <2>1, <3>1 DEF Ledger
    <3>3. AloneStage(t)'
      BY <2>1, <3>1 DEF AloneStage, Underway, TicketDue, RefsLatest, NoteDue
    <3>4. QED BY <2>1, <3>1, <3>2, <3>3 DEF FlowBegun
  <2>5. FlowBegun(session.context)' BY <2>1, <2>2 DEF AloneInv, FlowBegun
  <2>6. SessionCurrent'
    <3>1. CASE session' = session BY <2>1, <3>1 DEF AloneInv, SessionCurrent
    <3>2. CASE session' = FreshSession
      BY <2>2, <3>2 DEF SessionCurrent, FreshFlow, GateLatest
    <3>3. QED BY <2>1, <3>1, <3>2
  <2>7. OneTicketPerFlow' /\ ContactAnswersLatestHandoff'
    BY <2>1 DEF AloneInv, OneTicketPerFlow, ContactAnswersLatestHandoff
  <2>8. QED BY <1>1, <2>3, <2>4, <2>5, <2>6, <2>7 DEF AloneInv
<1>6. QED BY <1>2, <1>3, <1>4, <1>5 DEF Next

LEMMA AloneInvariant ==
  ASSUME MaxInFlight = 1, ~ FailuresAllowed
  PROVE  Spec => []AloneInv
<1>1. AloneInv /\ [Next]_vars => AloneInv' BY NextKeepsAlone
<1>2. QED BY <1>1, InitAlone, PTL DEF Spec

(* When turns come one at a time and none fails, a flow files one ticket:  *)
(* the session that is saved never offers the next turn a flow that was    *)
(* filed, whatever the agents report and whenever the session expires.     *)
THEOREM LoneTurnsFileOnce ==
  ASSUME MaxInFlight = 1, ~ FailuresAllowed
  PROVE  Spec => []OneTicketPerFlow
<1>1. AloneInv => OneTicketPerFlow BY DEF AloneInv
<1>2. QED BY <1>1, AloneInvariant, PTL

(* And a contact goes to the ticket of the last handoff before it.         *)
THEOREM LoneContactsReachTheirHandoff ==
  ASSUME MaxInFlight = 1, ~ FailuresAllowed
  PROVE  Spec => []ContactAnswersLatestHandoff
<1>1. AloneInv => ContactAnswersLatestHandoff BY DEF AloneInv
<1>2. QED BY <1>1, AloneInvariant, PTL

-----------------------------------------------------------------------------
(* The pipeline implements SessionFlow.  A turn reads the session, goes    *)
(* through the router on a copy and stores it; between the two, what the   *)
(* router has still to act on is one of the things the message may make of *)
(* the session it was read with.                                           *)

(* Where the user is, read off a session.                                  *)
LEMMA WhereTyped ==
  ASSUME NEW s \in SessionState
  PROVE  /\ Where(s) \in Flow!Sessions
         /\ Where(s).stage = "open"    <=> s.pending = "none"
         /\ Where(s).stage = "clarify" <=> s.pending = "knowledge_clarify"
         /\ Where(s).stage = "verify"  <=> s.pending = "verify_issue"
         /\ Where(s).stage = "contact" <=> s.pending = "collect_contact"
         /\ Where(s).flow = FlowOf(s.context)
         /\ Where(s).asked = s.clarifyCount /\ Where(s).spent = s.verifyTurns
         /\ Where(s).cleared = s.userErrorSeen
<1>1. s.pending \in {"none", "knowledge_clarify", "verify_issue", "collect_contact"}
  BY DEF SessionState, Optional, PendingFlows
<1>2. /\ StageOf(s.pending) = "open"    <=> s.pending = "none"
      /\ StageOf(s.pending) = "clarify" <=> s.pending = "knowledge_clarify"
      /\ StageOf(s.pending) = "verify"  <=> s.pending = "verify_issue"
      /\ StageOf(s.pending) = "contact" <=> s.pending = "collect_contact"
      /\ StageOf(s.pending) \in Flow!Stages
  BY <1>1 DEF StageOf, Flow!Stages
<1>3. FlowOf(s.context) \in Turns \cup {0}
  BY DEF FlowOf, SessionState, Contexts, NoContext
<1>4. s.clarifyCount \in Nat /\ s.verifyTurns \in Nat /\ s.userErrorSeen \in BOOLEAN
  BY DEF SessionState
<1>5. QED BY <1>2, <1>3, <1>4 DEF Where, Flow!Sessions

(* Outside a collection nothing is spent and no flow is named.             *)
Plain(s) == s.stage # "verify" => s.flow = 0 /\ s.spent = 0

LEMMA WherePlain ==
  ASSUME NEW s \in SessionState, Fits(s)
  PROVE  Plain(Where(s))
<1>1. s.pending # "verify_issue" => s.context.kind # "verify"
  BY DEF Fits, ContextFitsPending
<1>2. s.pending # "verify_issue" => s.verifyTurns = 0 BY DEF Fits, BudgetFits
<1>3. QED BY <1>1, <1>2, WhereTyped DEF Plain, FlowOf

(* Sessions are told apart by their five fields.                           *)
Has(s, stage, flow, asked, spent, cleared) ==
  /\ s \in Flow!Sessions
  /\ s.stage = stage /\ s.flow = flow /\ s.asked = asked /\ s.spent = spent
  /\ s.cleared = cleared

LEMMA SameSession ==
  ASSUME NEW s, NEW r, NEW stage, NEW flow, NEW asked, NEW spent, NEW cleared,
         Has(s, stage, flow, asked, spent, cleared), Has(r, stage, flow, asked, spent, cleared)
  PROVE  s = r
  BY DEF Has, Flow!Sessions

(* What each operator of the abstraction does to them.                     *)
LEMMA FlowFields ==
  ASSUME NEW s \in Flow!Sessions
  PROVE  /\ Has(Flow!Idle(s), "open", 0, s.asked, 0, s.cleared)
         /\ Has(Flow!Explained(s), "open", 0, s.asked, 0, TRUE)
         /\ Has(Flow!Asking(s), "clarify", s.flow, s.asked + 1, s.spent, s.cleared)
         /\ Has(Flow!Gated(s), "contact", s.flow, s.asked, s.spent, s.cleared)
<1> USE DEF Has, Flow!Sessions, Flow!Stages
<1>1. Has(Flow!Idle(s), "open", 0, s.asked, 0, s.cleared)
  <2>1. /\ Flow!Idle(s) \in Flow!Sessions
        /\ Flow!Idle(s).stage = "open" /\ Flow!Idle(s).flow = 0
    BY DEF Flow!Idle
  <2>2. Flow!Idle(s).asked = s.asked BY DEF Flow!Idle
  <2>3. Flow!Idle(s).spent = 0 BY DEF Flow!Idle
  <2>4. Flow!Idle(s).cleared = s.cleared BY DEF Flow!Idle
  <2>5. QED BY <2>1, <2>2, <2>3, <2>4
<1>2. Has(Flow!Explained(s), "open", 0, s.asked, 0, TRUE) BY <1>1 DEF Flow!Explained
<1>3. Has(Flow!Asking(s), "clarify", s.flow, s.asked + 1, s.spent, s.cleared)
  <2>1. s.asked + 1 \in Nat OBVIOUS
  <2>2. Flow!Asking(s) \in Flow!Sessions BY <2>1 DEF Flow!Asking
  <2>3. Flow!Asking(s).stage = "clarify" /\ Flow!Asking(s).flow = s.flow
    BY DEF Flow!Asking
  <2>4. Flow!Asking(s).asked = s.asked + 1 BY DEF Flow!Asking
  <2>5. Flow!Asking(s).spent = s.spent /\ Flow!Asking(s).cleared = s.cleared
    BY DEF Flow!Asking
  <2>6. QED BY <2>2, <2>3, <2>4, <2>5
<1>4. Has(Flow!Gated(s), "contact", s.flow, s.asked, s.spent, s.cleared) BY DEF Flow!Gated
<1> HIDE DEF Has
<1>5. QED BY <1>1, <1>2, <1>3, <1>4

LEMMA CollectingFields ==
  ASSUME NEW s \in Flow!Sessions, NEW t \in Turns
  PROVE  /\ s.stage = "verify" =>
              Has(Flow!Collecting(s, t), "verify", s.flow, s.asked, s.spent + 1, s.cleared)
         /\ s.stage # "verify" =>
              Has(Flow!Collecting(s, t), "verify", t, s.asked, 1, s.cleared)
<1> USE DEF Has
<1>1. CASE s.stage = "verify"
  <2> DEFINE c == [s EXCEPT !.spent = @ + 1]
  <2>1. Flow!Collecting(s, t) = c BY <1>1 DEF Flow!Collecting
  <2>2. c \in Flow!Sessions BY DEF Flow!Sessions
  <2>3. c.stage = s.stage /\ c.flow = s.flow BY DEF Flow!Sessions
  <2>4. c.asked = s.asked /\ c.cleared = s.cleared BY DEF Flow!Sessions
  <2>5. c.spent = s.spent + 1 BY DEF Flow!Sessions
  <2>6. QED BY <1>1, <2>1, <2>2, <2>3, <2>4, <2>5
<1>2. CASE s.stage # "verify"
  <2> DEFINE i == Flow!Idle(s)
             c == [i EXCEPT !.stage = "verify", !.flow = t, !.spent = 1]
  <2>1. i \in Flow!Sessions /\ i.asked = s.asked /\ i.cleared = s.cleared BY FlowFields
  <2>2. Flow!Collecting(s, t) = c BY <1>2 DEF Flow!Collecting
  <2> HIDE DEF i
  <2> USE DEF Flow!Sessions
  <2>3. c \in Flow!Sessions BY <2>1 DEF Flow!Stages
  <2>4. c.stage = "verify" /\ c.flow = t BY <2>1
  <2>5. c.asked = s.asked BY <2>1
  <2>6. c.spent = 1 /\ c.cleared = s.cleared BY <2>1
  <2>7. QED BY <1>2, <2>2, <2>3, <2>4, <2>5, <2>6
<1>3. QED BY <1>1, <1>2

(* An answered session is at rest, and has asked what it had.              *)
LEMMA IdleStays ==
  ASSUME NEW r \in Flow!Sessions, r.stage = "open", r.flow = 0, r.spent = 0
  PROVE  Flow!Idle(r) = r
<1>1. Has(Flow!Idle(r), "open", 0, r.asked, 0, r.cleared) BY FlowFields
<1>2. Has(r, "open", 0, r.asked, 0, r.cleared) BY DEF Has
<1>3. QED BY <1>1, <1>2, SameSession

LEMMA SettledFacts ==
  ASSUME NEW s \in Flow!Sessions, NEW r \in Flow!Settled(s)
  PROVE  /\ r \in Flow!Sessions
         /\ r = Flow!Idle(s) \/ (Flow!MayVerify(s) /\ r = Flow!Explained(s))
         /\ Flow!Idle(r) = r /\ r.stage = "open" /\ r.asked = s.asked
<1>1. /\ Flow!Idle(s) \in Flow!Sessions /\ Flow!Idle(s).stage = "open"
      /\ Flow!Idle(s).flow = 0 /\ Flow!Idle(s).spent = 0 /\ Flow!Idle(s).asked = s.asked
  BY FlowFields DEF Has
<1>2. /\ Flow!Explained(s) \in Flow!Sessions /\ Flow!Explained(s).stage = "open"
      /\ Flow!Explained(s).flow = 0 /\ Flow!Explained(s).spent = 0
      /\ Flow!Explained(s).asked = s.asked
  BY FlowFields DEF Has
<1>3. r = Flow!Idle(s) \/ (Flow!MayVerify(s) /\ r = Flow!Explained(s))
  BY DEF Flow!Settled
<1>4. /\ r \in Flow!Sessions /\ r.stage = "open" /\ r.flow = 0 /\ r.spent = 0
      /\ r.asked = s.asked
  BY <1>1, <1>2, <1>3
<1>5. QED BY <1>3, <1>4, IdleStays

LEMMA BegunFacts ==
  ASSUME NEW s \in Flow!Sessions, Plain(s), NEW b \in Flow!Begun(s)
  PROVE  b \in Flow!Sessions /\ Plain(b)
<1> DEFINE d == [Flow!Idle(s) EXCEPT !.asked = 0]
<1>1. b = s \/ b = d \/ b = Flow!Idle(s) BY DEF Flow!Begun
<1>2. Flow!Idle(s) \in Flow!Sessions /\ Plain(Flow!Idle(s)) BY FlowFields DEF Plain, Has
<1>3. d \in Flow!Sessions /\ Plain(d) BY <1>2 DEF Flow!Sessions, Plain
<1>4. QED BY <1>1, <1>2, <1>3

-----------------------------------------------------------------------------
(* What the driver does to a session is what the abstraction says of it.   *)
LEMMA WhereHas ==
  ASSUME NEW s \in SessionState, NEW pending, NEW context, NEW clarified, NEW spent, NEW seen,
         s.pending = pending, s.context = context, s.clarifyCount = clarified,
         s.verifyTurns = spent, s.userErrorSeen = seen
  PROVE  Has(Where(s), StageOf(pending), FlowOf(context), clarified, spent, seen)
<1>1. Where(s) \in Flow!Sessions BY WhereTyped
<1>2. QED BY <1>1 DEF Has, Where

LEMMA Stages ==
  /\ StageOf("none") = "open" /\ StageOf("knowledge_clarify") = "clarify"
  /\ StageOf("verify_issue") = "verify" /\ StageOf("collect_contact") = "contact"
  /\ FlowOf(NoContext) = 0 /\ \A t : FlowOf(VerifyContext(t)) = t
  /\ \A why, r : FlowOf(GateContext(why, r)) = 0
  BY DEF StageOf, FlowOf, NoContext, VerifyContext, GateContext

LEMMA WhereClosed ==
  ASSUME NEW s \in SessionState
  PROVE  Where(CloseFlow(s)) = Flow!Idle(Where(s))
<1>1. /\ CloseFlow(s) \in SessionState
      /\ CloseFlow(s).pending = "none" /\ CloseFlow(s).context = NoContext
      /\ CloseFlow(s).clarifyCount = s.clarifyCount /\ CloseFlow(s).verifyTurns = 0
      /\ CloseFlow(s).userErrorSeen = s.userErrorSeen
  BY SessionOperatorsTyped DEF CloseFlow, SessionState
<1>2. Has(Where(CloseFlow(s)), "open", 0, s.clarifyCount, 0, s.userErrorSeen)
  BY <1>1, WhereHas, Stages
<1>3. Where(s) \in Flow!Sessions /\ Where(s).asked = s.clarifyCount
      /\ Where(s).cleared = s.userErrorSeen
  BY WhereTyped
<1>4. Has(Flow!Idle(Where(s)), "open", 0, s.clarifyCount, 0, s.userErrorSeen)
  BY <1>3, FlowFields
<1>5. QED BY <1>2, <1>4, SameSession

(* Whatever was resting stays where it is.                                 *)
LEMMA WhereResting ==
  ASSUME NEW s \in SessionState, Fits(s), s.pending = "none"
  PROVE  Flow!Idle(Where(s)) = Where(s)
<1>1. Where(s) \in Flow!Sessions /\ Where(s).stage = "open" BY WhereTyped
<1>2. Where(s).flow = 0 /\ Where(s).spent = 0 BY <1>1, WherePlain DEF Plain
<1>3. QED BY <1>1, <1>2, IdleStays

LEMMA WhereTaken ==
  ASSUME NEW s \in SessionState, Fits(s)
  PROVE  /\ s.pending = "collect_contact" => Where(TakeContact(s)) = Flow!Idle(Where(s))
         /\ s.pending # "collect_contact" => TakeContact(s) = s
<1>1. s.pending # "collect_contact" => TakeContact(s) = s BY DEF TakeContact
<1>2. CASE s.pending = "collect_contact"
  <2>1. /\ TakeContact(s) \in SessionState
        /\ TakeContact(s).pending = "none" /\ TakeContact(s).context = NoContext
        /\ TakeContact(s).clarifyCount = s.clarifyCount
        /\ TakeContact(s).verifyTurns = s.verifyTurns
        /\ TakeContact(s).userErrorSeen = s.userErrorSeen
    BY <1>2, SessionOperatorsTyped DEF TakeContact, SessionState
  <2>2. s.verifyTurns = 0 BY <1>2 DEF Fits, BudgetFits
  <2>3. Has(Where(TakeContact(s)), "open", 0, s.clarifyCount, 0, s.userErrorSeen)
    BY <2>1, <2>2, WhereHas, Stages
  <2>4. Where(s) \in Flow!Sessions /\ Where(s).asked = s.clarifyCount
        /\ Where(s).cleared = s.userErrorSeen
    BY WhereTyped
  <2>5. Has(Flow!Idle(Where(s)), "open", 0, s.clarifyCount, 0, s.userErrorSeen)
    BY <2>4, FlowFields
  <2>6. QED BY <1>2, <2>3, <2>5, SameSession
<1>3. QED BY <1>1, <1>2

(* The messages that open a turn: a gate comes down, a flow may be left.   *)
LEMMA WhereBegun ==
  ASSUME NEW s \in SessionState, Fits(s), NEW wants \in BOOLEAN
  PROVE  Where(MaybeCancel(TakeContact(s), wants)) \in Flow!Begun(Where(s))
<1> DEFINE u == TakeContact(s)
           w == Where(s)
           d == [Flow!Idle(w) EXCEPT !.asked = 0]
<1>1. CASE s.pending \in {"none", "collect_contact"}
  <2>1. u.pending = "none" BY <1>1, WhereTaken, SessionOperatorsFit
  <2>2. MaybeCancel(u, wants) = u BY <2>1 DEF MaybeCancel
  <2>3. Where(u) = Flow!Idle(w) BY <1>1, WhereTaken, WhereResting
  <2>4. w.stage \notin {"verify", "clarify"} BY <1>1, WhereTyped
  <2>5. QED BY <2>2, <2>3, <2>4 DEF Flow!Begun
<1>2. CASE s.pending \in {"verify_issue", "knowledge_clarify"}
  <2>1. u = s BY <1>2, WhereTaken
  <2>2. Flow!Begun(w) = {w, d} BY <1>2, WhereTyped DEF Flow!Begun
  <2>3. CASE ~ wants
    <3>1. MaybeCancel(u, wants) = s BY <2>1, <2>3 DEF MaybeCancel
    <3>2. QED BY <2>2, <3>1
  <2>4. CASE wants
    <3> DEFINE c == [CloseFlow(s) EXCEPT !.clarifyCount = 0]
    <3>1. MaybeCancel(u, wants) = c BY <1>2, <2>1, <2>4 DEF MaybeCancel
    <3>2. c \in SessionState BY <2>1, <3>1, SessionOperatorsTyped
    <3>3. /\ c.pending = "none" /\ c.context = NoContext /\ c.clarifyCount = 0
          /\ c.verifyTurns = 0 /\ c.userErrorSeen = s.userErrorSeen
      BY DEF CloseFlow, SessionState
    <3> HIDE DEF c
    <3>4. Has(Where(c), "open", 0, 0, 0, s.userErrorSeen) BY <3>2, <3>3, WhereHas, Stages
    <3>5. w \in Flow!Sessions /\ w.cleared = s.userErrorSeen BY WhereTyped
    <3>6. Has(Flow!Idle(w), "open", 0, w.asked, 0, s.userErrorSeen) BY <3>5, FlowFields
    <3>7. Has(d, "open", 0, 0, 0, s.userErrorSeen) BY <3>6 DEF Has, Flow!Sessions
    <3>8. QED BY <2>2, <3>1, <3>4, <3>7, SameSession
  <2>5. QED BY <2>3, <2>4
<1>3. QED BY <1>1, <1>2 DEF SessionState, Optional, PendingFlows

LEMMA WhereKnowledge ==
  ASSUME NEW s \in SessionState, Fits(s), s.pending \in {"none", "knowledge_clarify"}
  PROVE  /\ Where(SpendClarify(s)) = Flow!Idle(Where(s))
         /\ Where(AskToClarify(s)) = Flow!Asking(Flow!Idle(Where(s)))
<1>1. /\ Where(s) \in Flow!Sessions /\ Where(s).asked = s.clarifyCount
      /\ Where(s).cleared = s.userErrorSeen
  BY WhereTyped
<1>2. Has(Flow!Idle(Where(s)), "open", 0, s.clarifyCount, 0, s.userErrorSeen)
  BY <1>1, FlowFields
<1>3. s.context = NoContext /\ s.verifyTurns = 0
  BY DEF Fits, ContextFitsPending, BudgetFits, SessionState, Contexts, NoContext
<1>4. Where(SpendClarify(s)) = Flow!Idle(Where(s))
  <2>1. /\ SpendClarify(s) \in SessionState
        /\ SpendClarify(s).pending = "none" /\ SpendClarify(s).context = s.context
        /\ SpendClarify(s).clarifyCount = s.clarifyCount
        /\ SpendClarify(s).verifyTurns = s.verifyTurns
        /\ SpendClarify(s).userErrorSeen = s.userErrorSeen
    BY SessionOperatorsTyped DEF SpendClarify, SessionState
  <2>2. Has(Where(SpendClarify(s)), "open", 0, s.clarifyCount, 0, s.userErrorSeen)
    BY <1>3, <2>1, WhereHas, Stages
  <2>3. QED BY <1>2, <2>2, SameSession
<1>5. Where(AskToClarify(s)) = Flow!Asking(Flow!Idle(Where(s)))
  <2>1. /\ AskToClarify(s) \in SessionState
        /\ AskToClarify(s).pending = "knowledge_clarify" /\ AskToClarify(s).context = s.context
        /\ AskToClarify(s).clarifyCount = s.clarifyCount + 1
        /\ AskToClarify(s).verifyTurns = s.verifyTurns
        /\ AskToClarify(s).userErrorSeen = s.userErrorSeen
    BY SessionOperatorsTyped DEF AskToClarify, SessionState
  <2>2. Has(Where(AskToClarify(s)), "clarify", 0, s.clarifyCount + 1, 0, s.userErrorSeen)
    BY <1>3, <2>1, WhereHas, Stages
  <2>3. PICK i : i = Flow!Idle(Where(s)) OBVIOUS
  <2>4. /\ i \in Flow!Sessions /\ i.flow = 0 /\ i.spent = 0 /\ i.asked = s.clarifyCount
        /\ i.cleared = s.userErrorSeen
    BY <1>2, <2>3 DEF Has
  <2>5. Has(Flow!Asking(i), "clarify", 0, s.clarifyCount + 1, 0, s.userErrorSeen)
    BY <2>4, FlowFields
  <2>6. QED BY <2>2, <2>3, <2>5, SameSession
<1>6. QED BY <1>4, <1>5

(* A verdict: the collection opened or went on by a turn, or was left.     *)
LEMMA WhereVerified ==
  ASSUME NEW s \in SessionState, Fits(s), NEW t \in Turns, NEW o \in VerifyOutcomes
  PROVE  LET q == AfterVerdict(CountVerifyTurn(OpenVerification(s, t)), o) IN
         /\ o = "user_error" => Where(q) = Flow!Explained(Where(s))
         /\ o # "user_error" => Where(q) = Flow!Collecting(Where(s), t)
<1> DEFINE a == OpenVerification(s, t)
           b == CountVerifyTurn(a)
           c == CloseFlow(b)
           w == Where(s)
<1>1. /\ w \in Flow!Sessions /\ w.asked = s.clarifyCount /\ w.cleared = s.userErrorSeen
      /\ w.stage = "verify" <=> s.pending = "verify_issue"
      /\ w.flow = FlowOf(s.context) /\ w.spent = s.verifyTurns
  BY WhereTyped
<1>2. a \in SessionState /\ b \in SessionState /\ c \in SessionState
  BY SessionOperatorsTyped
<1>3. /\ a.pending = "verify_issue" /\ a.clarifyCount = s.clarifyCount
      /\ a.userErrorSeen = s.userErrorSeen
      /\ s.pending = "verify_issue" => a.context = s.context /\ a.verifyTurns = s.verifyTurns
      /\ s.pending # "verify_issue" => a.context = VerifyContext(t) /\ a.verifyTurns = 0
  BY DEF OpenVerification, SessionState
<1> HIDE DEF a
<1>4. /\ b.pending = "verify_issue" /\ b.clarifyCount = s.clarifyCount
      /\ b.userErrorSeen = s.userErrorSeen
      /\ b.context = a.context /\ b.verifyTurns = a.verifyTurns + 1
  BY <1>2, <1>3 DEF CountVerifyTurn, SessionState
<1> HIDE DEF b
<1>5. CASE o = "user_error"
  <2> DEFINE d == [c EXCEPT !.userErrorSeen = TRUE]
  <2>1. AfterVerdict(b, o) = d BY <1>5 DEF AfterVerdict
  <2>2. d \in SessionState BY <1>2, <2>1, SessionOperatorsTyped
  <2>3. /\ c.pending = "none" /\ c.context = NoContext /\ c.clarifyCount = s.clarifyCount
        /\ c.verifyTurns = 0
    BY <1>2, <1>4 DEF CloseFlow, SessionState
  <2> HIDE DEF c
  <2>4. /\ d.pending = "none" /\ d.context = NoContext /\ d.clarifyCount = s.clarifyCount
        /\ d.verifyTurns = 0 /\ d.userErrorSeen = TRUE
    BY <1>2, <2>3 DEF SessionState
  <2> HIDE DEF d
  <2>5. Has(Where(d), "open", 0, s.clarifyCount, 0, TRUE) BY <2>2, <2>4, WhereHas, Stages
  <2>6. Has(Flow!Explained(w), "open", 0, s.clarifyCount, 0, TRUE) BY <1>1, FlowFields
  <2>7. QED BY <1>5, <2>1, <2>5, <2>6, SameSession DEF a, b
<1>6. CASE o # "user_error"
  <2>1. AfterVerdict(b, o) = b BY <1>6 DEF AfterVerdict
  <2>2. CASE s.pending = "verify_issue"
    <3>1. Has(Where(b), "verify", FlowOf(s.context), s.clarifyCount, s.verifyTurns + 1,
              s.userErrorSeen)
      BY <1>2, <1>3, <1>4, <2>2, WhereHas, Stages
    <3>2. Has(Flow!Collecting(w, t), "verify", FlowOf(s.context), s.clarifyCount,
              s.verifyTurns + 1, s.userErrorSeen)
      BY <1>1, <2>2, CollectingFields
    <3>3. QED BY <1>6, <2>1, <3>1, <3>2, SameSession DEF a, b
  <2>3. CASE s.pending # "verify_issue"
    <3>1. b.verifyTurns = 1 BY <1>3, <1>4, <2>3
    <3>2. Has(Where(b), "verify", t, s.clarifyCount, 1, s.userErrorSeen)
      BY <1>2, <1>3, <1>4, <2>3, <3>1, WhereHas, Stages
    <3>3. Has(Flow!Collecting(w, t), "verify", t, s.clarifyCount, 1, s.userErrorSeen)
      BY <1>1, <2>3, CollectingFields
    <3>4. QED BY <1>6, <2>1, <3>2, <3>3, SameSession DEF a, b
  <2>4. QED BY <2>2, <2>3
<1>7. QED BY <1>5, <1>6

(* A gate over a session that is at rest, or was asked something.          *)
LEMMA WhereGated ==
  ASSUME NEW s \in SessionState, Fits(s), s.pending \in {"none", "knowledge_clarify"},
         NEW why \in HandoffReasons, NEW r \in Refs
  PROVE  Where(ArmGate(s, why, r)) = Flow!Gated(Where(s))
<1> DEFINE g == ArmGate(s, why, r)
<1>1. /\ Where(s) \in Flow!Sessions /\ Where(s).asked = s.clarifyCount
      /\ Where(s).cleared = s.userErrorSeen /\ Where(s).spent = s.verifyTurns
      /\ Where(s).flow = 0
  BY WhereTyped, WherePlain DEF Plain
<1>2. Has(Flow!Gated(Where(s)), "contact", 0, s.clarifyCount, s.verifyTurns, s.userErrorSeen)
  BY <1>1, FlowFields
<1>3. g \in SessionState BY SessionOperatorsTyped
<1>4. /\ g.pending = "collect_contact" /\ g.context = GateContext(why, r)
      /\ g.clarifyCount = s.clarifyCount /\ g.verifyTurns = s.verifyTurns
      /\ g.userErrorSeen = s.userErrorSeen
  BY DEF ArmGate, SessionState
<1> HIDE DEF g
<1>5. Has(Where(g), "contact", 0, s.clarifyCount, s.verifyTurns, s.userErrorSeen)
  BY <1>3, <1>4, WhereHas, Stages
<1>6. QED BY <1>2, <1>5, SameSession DEF g

-----------------------------------------------------------------------------
(* Where a turn is, against the session b its message began with: what the *)
(* router still has to act on is one of the things the message may make    *)
(* of b, and what is on its way to the screen leads to one.                *)
NoVerdict(r) == r.knowledgeStatus = "none" /\ r.verifyOutcome = "none"

AtRouter(r, s, t, b) ==
  /\ NoVerdict(r) => Where(s) = b /\ r.pending = s.pending
  /\ ~ NoVerdict(r) => r.pending = "none" /\ ~ r.contactFound
  /\ r.knowledgeStatus \in {"answer", "no_answer", "suspected_bug"} =>
       Where(s) \in Flow!Settled(b)
  /\ r.knowledgeStatus = "clarify" =>
       \E q \in Flow!Settled(b) : q.asked < MaxClarify /\ Where(s) = Flow!Asking(q)
  /\ r.verifyOutcome = "user_error" => Flow!MayVerify(b) /\ Where(s) = Flow!Explained(b)
  /\ r.verifyOutcome \in {"bug_confirmed", "need_more_info"} =>
       Flow!MayVerify(b) /\ Where(s) = Flow!Collecting(b, t)

AtScreen(made, w, t, b) ==
  /\ made.escalated => Flow!Gated(w) \in Flow!HandedOff(b)
  /\ ~ made.escalated => w \in Flow!Routed(b, t)
  /\ made.cited => w \in Flow!Settled(b)

Under(t, b) ==
  LET w == Where(local[t]) IN
  /\ pc[t] = "route" => AtRouter(route[t], local[t], t, b)
  /\ pc[t] \in {"queue_question", "contact_row", "contact_note"} => w \in Flow!Settled(b)
  /\ pc[t] = "add_row" => Flow!Idle(w) = Flow!Idle(b)
  /\ pc[t] = "hand_off" => w = Flow!Idle(b)
  /\ pc[t] = "screen" => AtScreen(result[t], w, t, b)

OnWay(t) ==
  /\ pc[t] \notin Unsaved => opened[t] = Where(FreshSession)
  /\ pc[t] = "loaded" => Where(local[t]) = opened[t]
  /\ pc[t] = "save" => Where(local[t]) \in Flow!Outcomes(opened[t], t)
  /\ pc[t] \in Unsaved \ {"loaded", "save"} => \E b \in Flow!Begun(opened[t]) : Under(t, b)

HistoryInv ==
  /\ SessionInv
  /\ opened \in [Turns -> Flow!Sessions]
  /\ \A t \in Turns : Plain(opened[t]) /\ OnWay(t)

(* What the routing rules read before each step, in a turn.                *)
LEMMA StepFollows ==
  ASSUME NEW r \in RouteState, r.hopCount <= LongestPath,
         ~ NoVerdict(r) => r.pending = "none" /\ ~ r.contactFound
  PROVE  LET step == NextStep(r).step
             new  == NoVerdict(r) /\ r.pending \notin {"verify_issue", "knowledge_clarify"}
         IN
         /\ step \in {"triage", "out_of_scope"} => new
         /\ step = "attach_contact" => NoVerdict(r) /\ r.contactFound
         /\ step = "knowledge" =>
              (NoVerdict(r) /\ r.pending # "verify_issue") \/ r.verifyOutcome = "user_error"
         /\ step = "issue_verification" =>
              \/ new
              \/ r.knowledgeStatus = "suspected_bug" /\ ~ r.userErrorSeen
              \/ NoVerdict(r) /\ r.pending = "verify_issue" /\ r.verifyTurns < MaxVerifyTurns
         /\ step = "file_ticket" => NoVerdict(r) \/ r.verifyOutcome = "bug_confirmed"
         /\ step = "escalate" =>
              \/ new \/ r.knowledgeStatus \in {"suspected_bug", "no_answer"}
              \/ r.knowledgeStatus = "clarify" /\ r.clarifyCount >= MaxClarify
         /\ step = "reply" =>
              \/ r.verifyOutcome = "need_more_info" \/ r.knowledgeStatus = "answer"
              \/ r.knowledgeStatus = "clarify" /\ r.clarifyCount < MaxClarify
<1> USE RoutingLimits DEF LongestPath, RouteState, Optional, Go, NoVerdict
<1>1. r.hopCount < MaxHops OBVIOUS
<1>2. CASE r.contactFound \/ r.pending \in {"verify_issue", "knowledge_clarify"}
  BY <1>1, <1>2 DEF NextStep, ResumeFlow
<1>3. CASE ~ r.contactFound /\ r.pending \notin {"verify_issue", "knowledge_clarify"}
  <2>1. CASE r.verifyOutcome # "none"
    BY <1>1, <1>3, <2>1 DEF NextStep, AfterVerification, VerifyOutcomes
  <2>2. CASE r.verifyOutcome = "none" /\ r.knowledgeStatus # "none"
    <3> USE <1>1, <1>3, <2>2 DEF NextStep, AfterKnowledge
    <3>1. r.knowledgeStatus = "answer" => NextStep(r).step = "reply" OBVIOUS
    <3>2. r.knowledgeStatus = "no_answer" => NextStep(r).step = "escalate" OBVIOUS
    <3>3. r.knowledgeStatus = "clarify" =>
            NextStep(r).step = IF r.clarifyCount >= MaxClarify THEN "escalate" ELSE "reply"
      OBVIOUS
    <3>4. r.knowledgeStatus = "suspected_bug" =>
            NextStep(r).step = IF r.userErrorSeen THEN "escalate" ELSE "issue_verification"
      OBVIOUS
    <3> HIDE DEF NextStep, AfterKnowledge
    <3>5. r.clarifyCount >= MaxClarify \/ r.clarifyCount < MaxClarify OBVIOUS
    <3>6. QED BY <3>1, <3>2, <3>3, <3>4, <3>5 DEF KnowledgeStatuses
  <2>3. CASE r.verifyOutcome = "none" /\ r.knowledgeStatus = "none"
    BY <1>1, <1>3, <2>3 DEF NextStep, AfterTriage, TriageTargets
  <2>4. QED BY <2>1, <2>2, <2>3
<1>4. QED BY <1>2, <1>3

(* What the abstraction makes of a session that was answered first.        *)
LEMMA AfterIdle ==
  ASSUME NEW b \in Flow!Sessions, NEW t \in Turns
  PROVE  /\ Flow!Idle(Flow!Collecting(b, t)) = Flow!Idle(b)
         /\ b.stage # "verify" =>
              /\ Flow!Explained(Flow!Idle(b)) = Flow!Explained(b)
              /\ Flow!Collecting(Flow!Idle(b), t) = Flow!Collecting(b, t)
<1>1. PICK i : i = Flow!Idle(b) OBVIOUS
<1>2. PICK c : c = Flow!Collecting(b, t) OBVIOUS
<1>3. Has(i, "open", 0, b.asked, 0, b.cleared) BY <1>1, FlowFields
<1>4. c \in Flow!Sessions /\ c.asked = b.asked /\ c.cleared = b.cleared
  BY <1>2, CollectingFields DEF Has
<1>5. i \in Flow!Sessions /\ i.asked = b.asked /\ i.cleared = b.cleared /\ i.stage # "verify"
  BY <1>3 DEF Has
<1>6. Flow!Idle(c) = i
  <2>1. Has(Flow!Idle(c), "open", 0, b.asked, 0, b.cleared) BY <1>4, FlowFields
  <2>2. QED BY <1>3, <2>1, SameSession
<1>7. Flow!Explained(i) = Flow!Explained(b)
  <2>1. Has(Flow!Explained(i), "open", 0, b.asked, 0, TRUE) BY <1>5, FlowFields
  <2>2. Has(Flow!Explained(b), "open", 0, b.asked, 0, TRUE) BY FlowFields
  <2>3. QED BY <2>1, <2>2, SameSession
<1>8. b.stage # "verify" => Flow!Collecting(i, t) = Flow!Collecting(b, t)
  <2>1. Has(Flow!Collecting(i, t), "verify", t, b.asked, 1, b.cleared)
    BY <1>5, CollectingFields
  <2>2. b.stage # "verify" => Has(Flow!Collecting(b, t), "verify", t, b.asked, 1, b.cleared)
    BY CollectingFields
  <2>3. QED BY <2>1, <2>2, SameSession
<1>9. QED BY <1>1, <1>2, <1>6, <1>7, <1>8

(* What a report leaves the router to act on.                              *)
LEMMA AfterReport ==
  ASSUME NEW r, NEW s, NEW t, NEW b
  PROVE  /\ \A x : Where(s) = b /\ s.pending = "none" =>
              AtRouter(AfterStep(r, TriageReport(x), s), s, t, b)
         /\ \A x : x \in {"answer", "no_answer", "suspected_bug"} /\ Where(s) \in Flow!Settled(b)
              => AtRouter(AfterStep(r, KnowledgeReport(x), s), s, t, b)
         /\ (\E q \in Flow!Settled(b) : q.asked < MaxClarify /\ Where(s) = Flow!Asking(q))
              => AtRouter(AfterStep(r, KnowledgeReport("clarify"), s), s, t, b)
         /\ Flow!MayVerify(b) /\ Where(s) = Flow!Explained(b) =>
              AtRouter(AfterStep(r, VerifyReport("user_error"), s), s, t, b)
         /\ \A x : /\ x \in {"bug_confirmed", "need_more_info"}
                   /\ Flow!MayVerify(b) /\ Where(s) = Flow!Collecting(b, t)
              => AtRouter(AfterStep(r, VerifyReport(x), s), s, t, b)
<1>1. ASSUME NEW x, NEW y, NEW z
      PROVE  \E a : /\ a = AfterStep(r, [routedTo |-> z, status |-> x, outcome |-> y], s)
                    /\ a.knowledgeStatus = x /\ a.verifyOutcome = y
                    /\ a.pending = "none" /\ ~ a.contactFound
  <2> DEFINE p == [routedTo |-> z, status |-> x, outcome |-> y]
             a == AfterStep(r, p, s)
  <2>1. a.knowledgeStatus = p.status /\ a.verifyOutcome = p.outcome BY DEF AfterStep
  <2>2. a.pending = "none" /\ ~ a.contactFound BY DEF AfterStep
  <2>3. p.status = x /\ p.outcome = y OBVIOUS
  <2> HIDE DEF a
  <2>4. QED BY <2>1, <2>2, <2>3 DEF a
<1>2. ASSUME NEW x, Where(s) = b, s.pending = "none"
      PROVE  AtRouter(AfterStep(r, TriageReport(x), s), s, t, b)
  <2>1. PICK a : /\ a = AfterStep(r, TriageReport(x), s)
                 /\ a.knowledgeStatus = "none" /\ a.verifyOutcome = "none"
                 /\ a.pending = "none" /\ ~ a.contactFound
    BY <1>1 DEF TriageReport
  <2>2. AtRouter(a, s, t, b) BY <1>2, <2>1 DEF AtRouter, NoVerdict
  <2>3. QED BY <2>1, <2>2
<1>3. ASSUME NEW x, x \in {"answer", "no_answer", "suspected_bug"}, Where(s) \in Flow!Settled(b)
      PROVE  AtRouter(AfterStep(r, KnowledgeReport(x), s), s, t, b)
  <2>1. PICK a : /\ a = AfterStep(r, KnowledgeReport(x), s)
                 /\ a.knowledgeStatus = x /\ a.verifyOutcome = "none"
                 /\ a.pending = "none" /\ ~ a.contactFound
    BY <1>1 DEF KnowledgeReport
  <2>2. AtRouter(a, s, t, b) BY <1>3, <2>1 DEF AtRouter, NoVerdict
  <2>3. QED BY <2>1, <2>2
<1>4. ASSUME \E q \in Flow!Settled(b) : q.asked < MaxClarify /\ Where(s) = Flow!Asking(q)
      PROVE  AtRouter(AfterStep(r, KnowledgeReport("clarify"), s), s, t, b)
  <2>1. PICK a : /\ a = AfterStep(r, KnowledgeReport("clarify"), s)
                 /\ a.knowledgeStatus = "clarify" /\ a.verifyOutcome = "none"
                 /\ a.pending = "none" /\ ~ a.contactFound
    BY <1>1 DEF KnowledgeReport
  <2>2. AtRouter(a, s, t, b) BY <1>4, <2>1 DEF AtRouter, NoVerdict
  <2>3. QED BY <2>1, <2>2
<1>5. ASSUME NEW x, x \in VerifyOutcomes, Flow!MayVerify(b),
             x = "user_error" => Where(s) = Flow!Explained(b),
             x # "user_error" => Where(s) = Flow!Collecting(b, t)
      PROVE  AtRouter(AfterStep(r, VerifyReport(x), s), s, t, b)
  <2>1. PICK a : /\ a = AfterStep(r, VerifyReport(x), s)
                 /\ a.knowledgeStatus = "none" /\ a.verifyOutcome = x
                 /\ a.pending = "none" /\ ~ a.contactFound
    BY <1>1 DEF VerifyReport
  <2>2. AtRouter(a, s, t, b) BY <1>5, <2>1 DEF AtRouter, NoVerdict, VerifyOutcomes
  <2>3. QED BY <2>1, <2>2
<1>6. Flow!MayVerify(b) /\ Where(s) = Flow!Explained(b) =>
        AtRouter(AfterStep(r, VerifyReport("user_error"), s), s, t, b)
  BY <1>5 DEF VerifyOutcomes
<1>7. ASSUME NEW x, x \in {"bug_confirmed", "need_more_info"},
             Flow!MayVerify(b), Where(s) = Flow!Collecting(b, t)
      PROVE  AtRouter(AfterStep(r, VerifyReport(x), s), s, t, b)
  BY <1>5, <1>7 DEF VerifyOutcomes
<1>8. QED
  <2> HIDE DEF AtRouter
  <2>1. QED BY <1>2, <1>3, <1>4, <1>6, <1>7, Zenon

(* A report that says what the router's invariant wants of it.             *)
LEMMA FoldKeepsWay ==
  ASSUME TypeOK, NEW t \in Turns, NEW s, NEW report, NEW cited, Fold(t, report, s, cited),
         opened' = opened, NEW b \in Flow!Begun(opened[t]),
         AtRouter(AfterStep(route[t], report, s), s, t, b)
  PROVE  OnWay(t)'
<1>1. /\ pc'[t] = "route" /\ local'[t] = s /\ route'[t] = AfterStep(route[t], report, s)
  BY DEF Fold, Goto, TypeOK
<1>2. Under(t, b)' BY <1>1 DEF Under
<1>3. pc'[t] \in Unsaved \ {"loaded", "save"} BY <1>1 DEF Unsaved
<1>4. QED BY <1>1, <1>2, <1>3 DEF OnWay

LEMMA UnderKeepsWay ==
  ASSUME NEW t \in Turns, opened' = opened, NEW b \in Flow!Begun(opened[t]), Under(t, b)',
         pc'[t] \in Unsaved \ {"loaded", "save"}
  PROVE  OnWay(t)'
  BY DEF OnWay

(* What holds of the copy before knowledge, the verifier, the ticket and a *)
(* handoff: at each the message still may make of b what the step makes.   *)
LEMMA RouterSays ==
  ASSUME SessionInv, NEW t \in Turns, pc[t] = "route", NEW b \in Flow!Sessions, Plain(b),
         AtRouter(route[t], local[t], t, b)
  PROVE  LET step == NextStep(route[t]).step
             w    == Where(local[t])
         IN
         /\ step \in {"triage", "out_of_scope", "attach_contact"} =>
              /\ local[t].pending = "none" /\ w = b /\ w \in Flow!Settled(b)
         /\ step = "triage" => NoVerdict(route[t])
         /\ step = "knowledge" =>
              /\ local[t].pending \in {"none", "knowledge_clarify"}
              /\ Flow!Idle(w) \in Flow!Settled(b)
         /\ step = "issue_verification" =>
              /\ Flow!MayVerify(b) /\ Flow!Explained(w) = Flow!Explained(b)
              /\ Flow!Collecting(w, t) = Flow!Collecting(b, t)
         /\ step = "file_ticket" => Flow!Idle(w) = Flow!Idle(b)
         /\ step = "escalate" => Flow!Gated(w) \in Flow!HandedOff(b)
         /\ step = "reply" => /\ w \in Flow!Routed(b, t)
                              /\ result[t].cited => w \in Flow!Settled(b)
<1> DEFINE r == route[t]
           w == Where(local[t])
<1>1. /\ r \in RouteState /\ local[t] \in SessionState /\ Fits(local[t])
      /\ r.hopCount <= LongestPath /\ CountersAgree(t) /\ FlowAgrees(t) /\ ResultFits(t)
  BY DEF SessionInv, TypeOK, TurnInv, InLoop, HopsFit
<1>2. /\ w \in Flow!Sessions
      /\ w.stage = "open"    <=> local[t].pending = "none"
      /\ w.stage = "clarify" <=> local[t].pending = "knowledge_clarify"
      /\ w.stage = "verify"  <=> local[t].pending = "verify_issue"
      /\ w.asked = r.clarifyCount /\ w.spent = r.verifyTurns /\ w.cleared = r.userErrorSeen
  BY <1>1, WhereTyped DEF CountersAgree
<1>3. local[t].pending \in {"none", "knowledge_clarify", "verify_issue"}
  BY <1>1 DEF FlowAgrees, SessionState, Optional, PendingFlows
<1>4. ~ NoVerdict(r) => r.pending = "none" /\ ~ r.contactFound BY DEF AtRouter
<1>5. NoVerdict(r) => w = b /\ r.pending = local[t].pending BY DEF AtRouter
<1>6. b.stage # "verify" => Flow!Idle(b) \in Flow!Settled(b) BY DEF Flow!Settled
<1>7. b.stage = "open" => Flow!Idle(b) = b /\ Flow!MayVerify(b)
  BY IdleStays DEF Plain, Flow!MayVerify
<1>8. w \in Flow!Settled(b) => w \in Flow!Routed(b, t) /\ Flow!Gated(w) \in Flow!HandedOff(b)
  BY DEF Flow!Routed, Flow!HandedOff
<1>9. \A q : q \in Flow!Settled(b) =>
        /\ q \in Flow!Sessions /\ q.stage = "open" /\ q.asked = b.asked /\ Flow!Idle(q) = q
        /\ q = Flow!Idle(b) \/ (Flow!MayVerify(b) /\ q = Flow!Explained(b))
  BY SettledFacts
<1>10. MaxClarify \in Nat /\ MaxVerifyTurns \in Nat BY RoutingLimits
<1> DEFINE new == NoVerdict(r) /\ r.pending \notin {"verify_issue", "knowledge_clarify"}
           step == NextStep(r).step
<1>11. new \/ (NoVerdict(r) /\ r.contactFound) =>
         /\ local[t].pending = "none" /\ w = b /\ w \in Flow!Settled(b)
         /\ Flow!Idle(b) = b /\ Flow!MayVerify(b)
  BY <1>1, <1>2, <1>3, <1>5, <1>6, <1>7 DEF FlowAgrees
<1>12. PICK a : a = Flow!Asking(w) OBVIOUS
<1>13. /\ step \in {"triage", "out_of_scope"} => new
       /\ step = "attach_contact" => NoVerdict(r) /\ r.contactFound
       /\ step = "knowledge" =>
            (NoVerdict(r) /\ r.pending # "verify_issue") \/ r.verifyOutcome = "user_error"
       /\ step = "issue_verification" =>
            \/ new
            \/ r.knowledgeStatus = "suspected_bug" /\ ~ r.userErrorSeen
            \/ NoVerdict(r) /\ r.pending = "verify_issue" /\ r.verifyTurns < MaxVerifyTurns
       /\ step = "file_ticket" => NoVerdict(r) \/ r.verifyOutcome = "bug_confirmed"
       /\ step = "escalate" =>
            \/ new \/ r.knowledgeStatus \in {"suspected_bug", "no_answer"}
            \/ r.knowledgeStatus = "clarify" /\ r.clarifyCount >= MaxClarify
       /\ step = "reply" =>
            \/ r.verifyOutcome = "need_more_info" \/ r.knowledgeStatus = "answer"
            \/ r.knowledgeStatus = "clarify" /\ r.clarifyCount < MaxClarify
  BY <1>1, <1>4, StepFollows
<1>14. /\ r.knowledgeStatus \in {"answer", "no_answer", "suspected_bug"} =>
            w \in Flow!Settled(b)
       /\ r.knowledgeStatus = "clarify" =>
            \E q \in Flow!Settled(b) : q.asked < MaxClarify /\ w = Flow!Asking(q)
       /\ r.verifyOutcome = "user_error" => Flow!MayVerify(b) /\ w = Flow!Explained(b)
       /\ r.verifyOutcome \in {"bug_confirmed", "need_more_info"} =>
            Flow!MayVerify(b) /\ w = Flow!Collecting(b, t)
  BY DEF AtRouter
<1> HIDE DEF new, step, r, w
<1>15. step = "knowledge" =>
         /\ local[t].pending \in {"none", "knowledge_clarify"}
         /\ Flow!Idle(w) \in Flow!Settled(b)
  <2>1. CASE NoVerdict(r) /\ r.pending # "verify_issue"
    BY <1>2, <1>3, <1>5, <1>6, <2>1
  <2>2. CASE r.verifyOutcome = "user_error"
    <3>1. w \in Flow!Settled(b) BY <1>14, <2>2 DEF Flow!Settled
    <3>2. QED BY <1>2, <1>9, <3>1
  <2>3. QED BY <1>13, <2>1, <2>2
<1>16. step = "issue_verification" =>
         /\ Flow!MayVerify(b) /\ Flow!Explained(w) = Flow!Explained(b)
         /\ Flow!Collecting(w, t) = Flow!Collecting(b, t)
  <2>1. CASE new BY <1>11, <2>1
  <2>2. CASE r.knowledgeStatus = "suspected_bug" /\ ~ r.userErrorSeen
    <3>1. w \in Flow!Settled(b) /\ ~ w.cleared BY <1>2, <1>14, <2>2
    <3>2. Flow!Explained(b).cleared /\ Flow!Idle(b).cleared = b.cleared
      BY FlowFields DEF Has
    <3>3. w # Flow!Explained(b) BY <3>1, <3>2
    <3>4. b.stage # "verify" /\ w = Flow!Idle(b) BY <3>1, <3>3 DEF Flow!Settled
    <3>5. Flow!MayVerify(b) BY <3>1, <3>2, <3>4 DEF Flow!MayVerify
    <3>6. QED BY <3>4, <3>5, AfterIdle
  <2>3. CASE NoVerdict(r) /\ r.pending = "verify_issue" /\ r.verifyTurns < MaxVerifyTurns
    <3>1. w = b /\ b.stage = "verify" /\ b.spent < MaxVerifyTurns BY <1>2, <1>5, <2>3
    <3>2. QED BY <3>1 DEF Flow!MayVerify
  <2>4. QED BY <1>13, <2>1, <2>2, <2>3
<1>17. step = "file_ticket" => Flow!Idle(w) = Flow!Idle(b)
  BY <1>5, <1>13, <1>14, AfterIdle
<1>18. step = "escalate" => Flow!Gated(w) \in Flow!HandedOff(b)
  <2>1. CASE new \/ r.knowledgeStatus \in {"suspected_bug", "no_answer"}
    BY <1>8, <1>11, <1>14, <2>1
  <2>2. CASE r.knowledgeStatus = "clarify" /\ r.clarifyCount >= MaxClarify
    <3>1. PICK q \in Flow!Settled(b) : q.asked < MaxClarify /\ w = Flow!Asking(q)
      BY <1>14, <2>2
    <3>2. q \in Flow!Sessions BY <1>9
    <3>3. w.asked = q.asked + 1 BY <3>1, <3>2, FlowFields DEF Has
    <3>4. q.asked \in Nat BY <3>2 DEF Flow!Sessions
    <3>5. q.asked + 1 = MaxClarify BY <1>2, <1>10, <2>2, <3>1, <3>3, <3>4
    <3>6. q \in Flow!GivenUp(b) BY <3>5 DEF Flow!GivenUp
    <3>7. QED BY <3>1, <3>6 DEF Flow!HandedOff
  <2>3. QED BY <1>13, <2>1, <2>2
<1>19. step = "reply" => w \in Flow!Routed(b, t) /\ (result[t].cited => w \in Flow!Settled(b))
  <2>1. result[t].cited => w.stage = "open" BY <1>1, <1>2 DEF ResultFits
  <2>2. CASE r.verifyOutcome = "need_more_info"
    <3>1. Flow!MayVerify(b) /\ w = Flow!Collecting(b, t) BY <1>14, <2>2
    <3>2. w.stage = "verify" BY <3>1, CollectingFields DEF Has
    <3>3. QED BY <2>1, <3>1, <3>2 DEF Flow!Routed
  <2>3. CASE r.knowledgeStatus = "answer" BY <1>8, <1>14, <2>3
  <2>4. CASE r.knowledgeStatus = "clarify" /\ r.clarifyCount < MaxClarify
    <3>1. PICK q \in Flow!Settled(b) : w = Flow!Asking(q) BY <1>14, <2>4
    <3>2. q \in Flow!Sessions BY <1>9
    <3>3. w.stage = "clarify" /\ w.asked = q.asked + 1 BY <3>1, <3>2, FlowFields DEF Has
    <3>4. q \in Flow!Questions(b) BY <1>2, <2>4, <3>3 DEF Flow!Questions
    <3>5. QED BY <2>1, <3>1, <3>3, <3>4 DEF Flow!Routed
  <2>5. QED BY <1>13, <2>2, <2>3, <2>4
<1>20. step = "triage" => NoVerdict(r) BY <1>13 DEF new
<1>21. QED BY <1>11, <1>15, <1>16, <1>17, <1>18, <1>19, <1>20, <1>13 DEF step, r, w

LEMMA TurnKeepsWay ==
  ASSUME HistoryInv, NEW t \in Turns, TurnStep(t), pc[t] # "save", opened' = opened
  PROVE  OnWay(t)'
<1> DEFINE s == local[t]
           w == Where(s)
           o == opened[t]
<1>1. /\ SessionInv /\ TypeOK /\ s \in SessionState /\ Fits(s) /\ TurnInv(t)
      /\ o \in Flow!Sessions /\ Plain(o) /\ OnWay(t) /\ w \in Flow!Sessions
  BY WhereTyped DEF HistoryInv, SessionInv, TypeOK
<1>2. pc'[t] \in Unsaved \ {"loaded", "save"} =>
        \A b \in Flow!Begun(o) : Under(t, b)' => OnWay(t)'
  BY UnderKeepsWay
<1>3. CASE BlockInput(t)
  <2>1. pc[t] = "loaded" /\ pc'[t] = "save" /\ local'[t] = s
    BY <1>1, <1>3 DEF BlockInput, Goto, TypeOK
  <2>2. w = o BY <1>1, <2>1 DEF OnWay
  <2>3. w \in Flow!Outcomes(o, t) BY <2>2 DEF Flow!Outcomes
  <2>4. QED BY <2>1, <2>3 DEF OnWay, Unsaved
<1>4. CASE EnterRoute(t)
  <2>0. \A x \in BOOLEAN : Where(MaybeCancel(TakeContact(s), x)) \in Flow!Begun(w)
    BY <1>1, WhereBegun
  <2>1. PICK found \in BOOLEAN, wants \in BOOLEAN :
          LET q == MaybeCancel(TakeContact(s), wants) IN
          /\ local' = [local EXCEPT ![t] = q]
          /\ route' = [route EXCEPT ![t] = StartRoute(q, found)]
    BY <1>4 DEF EnterRoute
  <2> DEFINE q == MaybeCancel(TakeContact(s), wants)
  <2>2. Where(q) \in Flow!Begun(w) BY <2>0
  <2>3. /\ pc[t] = "loaded" /\ pc'[t] = "route" /\ local'[t] = q
        /\ route'[t] = StartRoute(q, found)
    BY <1>1, <1>4, <2>1 DEF EnterRoute, Goto, TypeOK
  <2>4. w = o BY <1>1, <2>3 DEF OnWay
  <2> HIDE DEF q
  <2>5. AtRouter(StartRoute(q, found), q, t, Where(q))
    BY DEF AtRouter, StartRoute, NoVerdict
  <2>6. PICK b : b = Where(q) OBVIOUS
  <2>7. Under(t, b)' BY <2>3, <2>5, <2>6 DEF Under
  <2>8. pc'[t] \in Unsaved \ {"loaded", "save"} BY <2>3 DEF Unsaved
  <2>9. QED BY <1>2, <2>2, <2>4, <2>6, <2>7, <2>8
<1>5. CASE AppendUser(t) \/ AppendReply(t)
  <2>1. pc[t] \notin Unsaved /\ pc'[t] \notin Unsaved
    BY <1>1, <1>5 DEF AppendUser, AppendReply, Goto, TypeOK, Unsaved
  <2>2. QED BY <1>1, <2>1 DEF OnWay, Unsaved
<1> SUFFICES ASSUME ~ BlockInput(t), ~ EnterRoute(t), ~ AppendUser(t), ~ AppendReply(t)
             PROVE  OnWay(t)'
  BY <1>3, <1>4, <1>5
<1>6. pc[t] \in Unsaved \ {"loaded", "save"}
  BY DEF TurnStep, TriageStep, KnowledgeAnswers, KnowledgeAsks, LogMissingAnswer, QueueQuestion,
     VerifyStep, ReplyStep, OutOfScopeStep, EscalateStep, CreateIssue, AddBugRow, HandOffTicket,
     SetConversationContact, SetRowContact, AddContactNote, ScreenReply, SaveSession, AtStep,
     Unsaved
<1>7. PICK b \in Flow!Begun(o) : Under(t, b) BY <1>1, <1>6 DEF OnWay
<1>8. b \in Flow!Sessions /\ Plain(b) BY <1>1, BegunFacts
<1> DEFINE step == NextStep(route[t]).step
<1>9. pc[t] = "route" =>
        /\ step \in {"triage", "out_of_scope", "attach_contact"} =>
             /\ s.pending = "none" /\ w = b /\ w \in Flow!Settled(b)
        /\ step = "triage" => NoVerdict(route[t])
        /\ step = "knowledge" =>
             /\ s.pending \in {"none", "knowledge_clarify"}
             /\ Flow!Idle(w) \in Flow!Settled(b)
        /\ step = "issue_verification" =>
             /\ Flow!MayVerify(b) /\ Flow!Explained(w) = Flow!Explained(b)
             /\ Flow!Collecting(w, t) = Flow!Collecting(b, t)
        /\ step = "file_ticket" => Flow!Idle(w) = Flow!Idle(b)
        /\ step = "escalate" => Flow!Gated(w) \in Flow!HandedOff(b)
        /\ step = "reply" => /\ w \in Flow!Routed(b, t)
                             /\ result[t].cited => w \in Flow!Settled(b)
  BY <1>1, <1>7, <1>8, RouterSays DEF Under
<1>10. \A report, q, cited :
         Fold(t, report, q, cited) /\ AtRouter(AfterStep(route[t], report, q), q, t, b)
           => OnWay(t)'
  BY <1>1, FoldKeepsWay
<1>11. \A q : q \in Flow!Settled(b) =>
         q \in Flow!Routed(b, t) /\ Flow!Gated(q) \in Flow!HandedOff(b)
  BY DEF Flow!Routed, Flow!HandedOff
<1> HIDE DEF step
<1>12. CASE TriageStep(t)
  <2>1. PICK target \in TriageTargets : Fold(t, TriageReport(target), s, FALSE)
    BY <1>12 DEF TriageStep
  <2>2. pc[t] = "route" /\ step = "triage" BY <1>12 DEF TriageStep, AtStep, step
  <2>3. s.pending = "none" /\ w = b BY <1>9, <2>2
  <2>4. AtRouter(AfterStep(route[t], TriageReport(target), s), s, t, b)
    BY <2>3, AfterReport
  <2>5. QED BY <1>10, <2>1, <2>4
<1>13. CASE KnowledgeAnswers(t)
  <2>1. PICK status \in {"answer", "suspected_bug"}, cited \in BOOLEAN :
          Fold(t, KnowledgeReport(status), SpendClarify(s), cited)
    BY <1>13 DEF KnowledgeAnswers
  <2>2. pc[t] = "route" /\ step = "knowledge" BY <1>13 DEF KnowledgeAnswers, AtStep, step
  <2>3. Where(SpendClarify(s)) \in Flow!Settled(b) BY <1>1, <1>9, <2>2, WhereKnowledge
  <2>4. AtRouter(AfterStep(route[t], KnowledgeReport(status), SpendClarify(s)),
                 SpendClarify(s), t, b)
    BY <2>3, AfterReport
  <2>5. QED BY <1>10, <2>1, <2>4
<1>14. CASE KnowledgeAsks(t)
  <2>1. /\ pc[t] = "route" /\ step = "knowledge" /\ s.clarifyCount < MaxClarify
        /\ Fold(t, KnowledgeReport("clarify"), AskToClarify(s), FALSE)
    BY <1>14 DEF KnowledgeAsks, AtStep, MayClarify, step
  <2>2. Where(AskToClarify(s)) = Flow!Asking(Flow!Idle(w)) BY <1>1, <1>9, <2>1, WhereKnowledge
  <2>3. Flow!Idle(w).asked = s.clarifyCount
    <3>1. w.asked = s.clarifyCount BY <1>1, WhereTyped
    <3>2. Has(Flow!Idle(w), "open", 0, w.asked, 0, w.cleared) BY <1>1, FlowFields
    <3>3. QED BY <3>1, <3>2 DEF Has
  <2>4. \E q \in Flow!Settled(b) : q.asked < MaxClarify /\ Where(AskToClarify(s)) = Flow!Asking(q)
    BY <1>9, <2>1, <2>2, <2>3
  <2>5. AtRouter(AfterStep(route[t], KnowledgeReport("clarify"), AskToClarify(s)),
                 AskToClarify(s), t, b)
    BY <2>4, AfterReport
  <2>6. QED BY <1>10, <2>1, <2>5
<1>15. CASE LogMissingAnswer(t)
  <2>1. /\ pc[t] = "route" /\ step = "knowledge"
        /\ pc'[t] = "queue_question" /\ local'[t] = SpendClarify(s)
    BY <1>1, <1>15 DEF LogMissingAnswer, AtStep, Goto, TypeOK, step
  <2>2. Where(SpendClarify(s)) \in Flow!Settled(b) BY <1>1, <1>9, <2>1, WhereKnowledge
  <2>3. Under(t, b)' BY <2>1, <2>2 DEF Under
  <2>4. QED BY <1>2, <2>1, <2>3 DEF Unsaved
<1>16. CASE QueueQuestion(t)
  <2>1. pc[t] = "queue_question" /\ Fold(t, KnowledgeReport("no_answer"), s, FALSE)
    BY <1>16 DEF QueueQuestion
  <2>2. w \in Flow!Settled(b) BY <1>7, <2>1 DEF Under
  <2>3. AtRouter(AfterStep(route[t], KnowledgeReport("no_answer"), s), s, t, b)
    BY <2>2, AfterReport
  <2>4. QED BY <1>10, <2>1, <2>3
<1>17. CASE VerifyStep(t)
  <2> DEFINE after(v) == AfterVerdict(CountVerifyTurn(OpenVerification(s, t)), v)
  <2>0. \A v \in VerifyOutcomes :
          /\ v = "user_error" => Where(after(v)) = Flow!Explained(w)
          /\ v # "user_error" => Where(after(v)) = Flow!Collecting(w, t)
    BY <1>1, WhereVerified
  <2>1. PICK v \in VerifyOutcomes : Fold(t, VerifyReport(v), after(v), FALSE)
    BY <1>17 DEF VerifyStep
  <2>2. pc[t] = "route" /\ step = "issue_verification" BY <1>17 DEF VerifyStep, AtStep, step
  <2>3. PICK q : q = after(v) OBVIOUS
  <2>4. /\ Flow!MayVerify(b)
        /\ v = "user_error" => Where(q) = Flow!Explained(b)
        /\ v # "user_error" => Where(q) = Flow!Collecting(b, t)
    BY <1>9, <2>0, <2>2, <2>3
  <2>5. AtRouter(AfterStep(route[t], VerifyReport(v), q), q, t, b)
    BY <2>4, AfterReport DEF VerifyOutcomes
  <2>6. Fold(t, VerifyReport(v), q, FALSE) BY <2>1, <2>3
  <2>7. QED BY <1>10, <2>5, <2>6
<1> DEFINE screened == pc'[t] = "screen" /\ local'[t] = s
<1>18. screened /\ AtScreen(result'[t], w, t, b) => OnWay(t)'
  <2> SUFFICES ASSUME screened, AtScreen(result'[t], w, t, b) PROVE OnWay(t)'
    OBVIOUS
  <2>1. Under(t, b)' BY DEF Under
  <2>2. QED BY <1>2, <2>1 DEF Unsaved
<1>19. CASE ReplyStep(t)
  <2>1. screened /\ result'[t] = result[t] /\ pc[t] = "route" /\ step = "reply"
    BY <1>1, <1>19 DEF ReplyStep, LeaveRoute, Goto, AtStep, TypeOK, step
  <2>2. ~ result[t].escalated BY <1>1, <2>1 DEF TurnInv, InLoop, ResultFits
  <2>3. QED BY <1>9, <1>18, <2>1, <2>2 DEF AtScreen
<1>20. CASE OutOfScopeStep(t)
  <2>1. screened /\ result'[t] = PlainReply /\ pc[t] = "route" /\ step = "out_of_scope"
    BY <1>1, <1>20 DEF OutOfScopeStep, LeaveRoute, Goto, AtStep, TypeOK, step
  <2>2. QED BY <1>9, <1>11, <1>18, <2>1 DEF AtScreen, PlainReply
<1>21. CASE EscalateStep(t)
  <2>1. /\ screened /\ result'[t] = HandedOff(NextStep(route[t]).reason)
        /\ pc[t] = "route" /\ step = "escalate"
    BY <1>1, <1>21 DEF EscalateStep, HandOff, LeaveRoute, Goto, AtStep, TypeOK, step
  <2>2. QED BY <1>9, <1>18, <2>1 DEF AtScreen, HandedOff
<1>22. CASE CreateIssue(t)
  <2>1. pc[t] = "route" /\ step = "file_ticket" /\ pc'[t] = "add_row" /\ local'[t] = s
    BY <1>1, <1>22 DEF CreateIssue, AtStep, Goto, TypeOK, step
  <2>2. Under(t, b)' BY <1>9, <2>1 DEF Under
  <2>3. QED BY <1>2, <2>1, <2>2 DEF Unsaved
<1>23. CASE AddBugRow(t)
  <2>1. pc[t] = "add_row" /\ pc'[t] = "hand_off" /\ local'[t] = CloseFlow(s)
    BY <1>1, <1>23 DEF AddBugRow, Goto, TypeOK
  <2>2. Where(CloseFlow(s)) = Flow!Idle(b) BY <1>1, <1>7, <2>1, WhereClosed DEF Under
  <2>3. Under(t, b)' BY <2>1, <2>2 DEF Under
  <2>4. QED BY <1>2, <2>1, <2>3 DEF Unsaved
<1>24. CASE HandOffTicket(t)
  <2>1. screened /\ result'[t] = HandedOff("verified bug") /\ pc[t] = "hand_off"
    BY <1>1, <1>24 DEF HandOffTicket, HandOff, LeaveRoute, Goto, TypeOK
  <2>2. Flow!Gated(w) \in Flow!HandedOff(b) BY <1>7, <2>1 DEF Under, Flow!HandedOff
  <2>3. PICK m : m = HandedOff("verified bug") OBVIOUS
  <2>4. m.escalated /\ ~ m.cited BY <2>3 DEF HandedOff
  <2>5. AtScreen(m, w, t, b) BY <2>2, <2>4 DEF AtScreen
  <2>6. QED BY <1>18, <2>1, <2>3, <2>5
<1>25. CASE SetConversationContact(t) \/ SetRowContact(t)
  <2>1. w \in Flow!Settled(b)
    BY <1>7, <1>9, <1>25 DEF SetConversationContact, SetRowContact, AtStep, Under, step
  <2>2. pc'[t] \in {"contact_row", "contact_note"} /\ local'[t] = s
    BY <1>1, <1>25 DEF SetConversationContact, SetRowContact, Goto, TypeOK
  <2>3. Under(t, b)' BY <2>1, <2>2 DEF Under
  <2>4. QED BY <1>2, <2>2, <2>3 DEF Unsaved
<1>26. CASE AddContactNote(t)
  <2>1. screened /\ result'[t] = PlainReply /\ pc[t] = "contact_note"
    BY <1>1, <1>26 DEF AddContactNote, LeaveRoute, Goto, TypeOK
  <2>2. w \in Flow!Settled(b) BY <1>7, <2>1 DEF Under
  <2>3. QED BY <1>11, <1>18, <2>1, <2>2 DEF AtScreen, PlainReply
<1>27. CASE ScreenReply(t)
  <2> DEFINE final(u) == IF u THEN HandedOff("ungrounded answer") ELSE result[t]
             made(u)  == IF u THEN NoRefs ELSE refs[t]
  <2>1. PICK u \in IF result[t].cited THEN BOOLEAN ELSE {FALSE} :
          local' = IF final(u).escalated
                   THEN [local EXCEPT ![t] = ArmGate(s, final(u).reason, made(u))]
                   ELSE local
    BY <1>27 DEF ScreenReply
  <2>2. pc[t] = "screen" /\ pc'[t] = "save" BY <1>1, <1>27 DEF ScreenReply, Goto, TypeOK
  <2>3. AtScreen(result[t], w, t, b) BY <1>7, <2>2 DEF Under
  <2>4. CASE ~ final(u).escalated
    <3>1. local'[t] = s BY <2>1, <2>4
    <3>2. ~ result[t].escalated BY <2>4 DEF HandedOff
    <3>3. w \in Flow!Routed(b, t) BY <2>3, <3>2 DEF AtScreen
    <3>4. Where(local[t])' \in Flow!Outcomes(o, t) BY <3>1, <3>3 DEF Flow!Outcomes
    <3>5. QED BY <2>2, <3>4 DEF OnWay, Unsaved
  <2>5. CASE final(u).escalated
    <3>1. PICK why, r : why = final(u).reason /\ r = made(u) OBVIOUS
    <3>2. why \in HandoffReasons /\ r \in Refs
      <4>1. NoRefs \in Refs BY CoordinatorConstants DEF NoRefs, Refs, TurnId
      <4>2. refs[t] \in Refs /\ result[t] \in Results BY <1>1 DEF TypeOK
      <4>3. r \in Refs BY <3>1, <4>1, <4>2
      <4>4. CASE u
        BY <3>1, <4>3, <4>4 DEF HandedOff, HandoffReasons
      <4>5. CASE ~ u
        BY <2>5, <3>1, <4>2, <4>3, <4>5 DEF Results
      <4>6. QED BY <4>3, <4>4, <4>5
    <3>3. s.pending \in {"none", "knowledge_clarify"}
      BY <1>1, <2>1, <2>2, <2>5 DEF TurnInv
    <3>4. local'[t] = ArmGate(s, why, r) BY <1>1, <2>1, <2>5, <3>1 DEF TypeOK
    <3>5. Where(ArmGate(s, why, r)) = Flow!Gated(w) BY <1>1, <3>2, <3>3, WhereGated
    <3>6. Flow!Gated(w) \in Flow!HandedOff(b) BY <1>11, <2>1, <2>3, <2>5 DEF AtScreen
    <3>7. Flow!Gated(w) \in Flow!Outcomes(o, t)
      BY <3>6 DEF Flow!Outcomes, Flow!Routed
    <3>8. QED BY <2>2, <3>4, <3>5, <3>7 DEF OnWay, Unsaved
  <2>6. QED BY <2>4, <2>5
<1>28. QED
  BY <1>12, <1>13, <1>14, <1>15, <1>16, <1>17, <1>19, <1>20, <1>21, <1>22, <1>23, <1>24,
     <1>25, <1>26, <1>27 DEF TurnStep, SaveSession

-----------------------------------------------------------------------------
(* The history adds nothing to what Coordinator does.                      *)
LEMMA HistoryIsFree ==
  /\ HistoryInit => Init
  /\ HistoryNext => Next
  BY DEF HistoryInit, HistoryNext, Next, TurnStep

LEMMA FreshPlain ==
  /\ FreshSession \in SessionState /\ Fits(FreshSession)
  /\ Where(FreshSession) = Flow!Fresh
  /\ Where(FreshSession) \in Flow!Sessions /\ Plain(Where(FreshSession))
<1>1. FreshSession \in SessionState
  BY DEF FreshSession, SessionState, Optional, Contexts
<1>2. Fits(FreshSession)
  BY RoutingLimits DEF FreshSession, NoContext, Fits, ContextFitsPending, BudgetFits
<1>3. Where(FreshSession) = Flow!Fresh
  BY Stages DEF Where, FreshSession, Flow!Fresh
<1>4. QED BY <1>1, <1>2, <1>3, WhereTyped, WherePlain

LEMMA HistoryStarts == HistoryInit => HistoryInv
<1> SUFFICES ASSUME HistoryInit PROVE HistoryInv
  OBVIOUS
<1>1. SessionInv BY HistoryIsFree, InitSession
<1>2. \A t \in Turns : opened[t] = Where(FreshSession) /\ pc[t] = "idle"
  BY DEF HistoryInit, Init
<1>3. opened \in [Turns -> Flow!Sessions] BY FreshPlain DEF HistoryInit
<1>4. \A t \in Turns : Plain(opened[t]) /\ OnWay(t)
  BY <1>2, FreshPlain DEF OnWay, Unsaved
<1>5. QED BY <1>1, <1>3, <1>4 DEF HistoryInv

LEMMA HistoryKeeps == HistoryInv /\ [HistoryNext]_<<vars, opened>> => HistoryInv'
<1> SUFFICES ASSUME HistoryInv, [HistoryNext]_<<vars, opened>> PROVE HistoryInv'
  OBVIOUS
<1>1. SessionInv' BY HistoryIsFree, NextKeepsSession DEF HistoryInv
<1>2. /\ TypeOK /\ TypeOK' /\ opened \in [Turns -> Flow!Sessions]
      /\ \A u \in Turns : Plain(opened[u]) /\ OnWay(u)
  BY <1>1 DEF HistoryInv, SessionInv
<1>3. ASSUME NEW u \in Turns, local'[u] = local[u], route'[u] = route[u], pc'[u] = pc[u],
             result'[u] = result[u], opened'[u] = opened[u]
      PROVE  OnWay(u)'
  BY <1>2, <1>3 DEF OnWay, Under
<1>4. CASE \E t \in Turns : BeginTurn(t) /\ opened' = [opened EXCEPT ![t] = Where(session)]
  <2>1. PICK t \in Turns : BeginTurn(t) /\ opened' = [opened EXCEPT ![t] = Where(session)]
    BY <1>4
  <2>2. Where(session) \in Flow!Sessions /\ Plain(Where(session))
    BY WhereTyped, WherePlain DEF HistoryInv, SessionInv, TypeOK
  <2>3. opened' \in [Turns -> Flow!Sessions] BY <1>2, <2>1, <2>2
  <2>4. pc'[t] = "loaded" /\ Where(local[t])' = Where(session) /\ opened'[t] = Where(session)
    BY <1>2, <2>1 DEF BeginTurn, Goto, TypeOK
  <2>5. OnWay(t)' BY <2>4 DEF OnWay, Unsaved
  <2>6. ASSUME NEW u \in Turns, u # t PROVE OnWay(u)' /\ opened'[u] = opened[u]
    BY <1>2, <1>3, <2>1, <2>6 DEF BeginTurn, Goto, TypeOK
  <2>7. QED BY <1>1, <1>2, <2>2, <2>3, <2>4, <2>5, <2>6 DEF HistoryInv
<1>5. CASE \E t \in Turns : pc[t] # "save" /\ TurnStep(t) /\ UNCHANGED opened
  <2>1. PICK t \in Turns : pc[t] # "save" /\ TurnStep(t) /\ UNCHANGED opened BY <1>5
  <2>2. OnWay(t)' BY <2>1, TurnKeepsWay
  <2>3. ASSUME NEW u \in Turns, u # t PROVE OnWay(u)'
    <3>1. local'[u] = local[u] /\ route'[u] = route[u] /\ pc'[u] = pc[u]
          /\ result'[u] = result[u]
      BY <1>2, <2>1, <2>3, OtherTurnsUntouched
    <3>2. QED BY <1>3, <2>1, <3>1
  <2>4. QED BY <1>1, <1>2, <2>1, <2>2, <2>3 DEF HistoryInv
<1>6. CASE \E t \in Turns : /\ SaveSession(t) \/ Fail(t)
                            /\ opened' = [opened EXCEPT ![t] = Where(FreshSession)]
  <2>1. PICK t \in Turns : /\ SaveSession(t) \/ Fail(t)
                           /\ opened' = [opened EXCEPT ![t] = Where(FreshSession)]
    BY <1>6
  <2>2. opened' \in [Turns -> Flow!Sessions] BY <1>2, <2>1, FreshPlain
  <2>3. opened'[t] = Where(FreshSession) BY <1>2, <2>1
  <2>4. pc'[t] \notin Unsaved
    BY <1>2, <2>1 DEF SaveSession, Fail, Goto, TypeOK, Unsaved
  <2>5. OnWay(t)' BY <2>3, <2>4, FreshPlain DEF OnWay, Unsaved, Where, FreshSession
  <2>6. ASSUME NEW u \in Turns, u # t PROVE OnWay(u)' /\ opened'[u] = opened[u]
    BY <1>2, <1>3, <2>1, <2>6 DEF SaveSession, Fail, Release, Goto, TypeOK
  <2>7. QED BY <1>1, <1>2, <2>2, <2>3, <2>5, <2>6, FreshPlain DEF HistoryInv
<1>7. CASE ExpireSession /\ UNCHANGED opened
  BY <1>1, <1>2, <1>3, <1>7 DEF ExpireSession, inMemory, HistoryInv
<1>8. CASE UNCHANGED <<vars, opened>>
  BY <1>1, <1>2, <1>3, <1>8 DEF vars, inMemory, HistoryInv
<1>9. QED BY <1>4, <1>5, <1>6, <1>7, <1>8 DEF HistoryNext

-----------------------------------------------------------------------------
LEMMA FlowStarts == HistoryInit => Flow!Init
<1> SUFFICES ASSUME HistoryInit PROVE Flow!Init
  OBVIOUS
<1>1. session = FreshSession /\ \A t \in Turns : pc[t] = "idle" BY DEF HistoryInit, Init
<1>2. {t \in Turns : pc[t] = "idle"} = Turns /\ {t \in Turns : pc[t] \in Unsaved} = {}
  BY <1>1 DEF Unsaved
<1>3. QED BY <1>1, <1>2, FreshPlain DEF HistoryInit, Flow!Init

(* Between its read and its save a turn moves among the unsaved locations. *)
LEMMA TurnStaysUnder ==
  ASSUME TypeOK, NEW t \in Turns, TurnStep(t), pc[t] # "save"
  PROVE  /\ session' = session
         /\ \E x \in Locations \ {"idle"} :
              /\ pc' = [pc EXCEPT ![t] = x]
              /\ x \in Unsaved <=> pc[t] \in Unsaved
              /\ pc[t] # "idle"
<1> USE DEF Goto, AtStep, durable, Locations, Unsaved
<1>1. CASE BlockInput(t) \/ EnterRoute(t)
  BY <1>1 DEF BlockInput, EnterRoute
<1>2. CASE TriageStep(t) \/ KnowledgeAnswers(t) \/ KnowledgeAsks(t) \/ QueueQuestion(t)
           \/ VerifyStep(t)
  <2>1. PICK report, s, cited : Fold(t, report, s, cited)
    BY <1>2 DEF TriageStep, KnowledgeAnswers, KnowledgeAsks, QueueQuestion, VerifyStep
  <2>2. session' = session /\ pc[t] \in {"route", "queue_question"}
    BY <1>2 DEF TriageStep, KnowledgeAnswers, KnowledgeAsks, QueueQuestion, VerifyStep
  <2>3. pc' = [pc EXCEPT ![t] = "route"] BY <2>1 DEF Fold
  <2>4. QED BY <2>2, <2>3
<1>3. CASE LogMissingAnswer(t) BY <1>3 DEF LogMissingAnswer
<1>4. CASE ReplyStep(t) \/ OutOfScopeStep(t)
  BY <1>4 DEF ReplyStep, OutOfScopeStep, LeaveRoute
<1>5. CASE EscalateStep(t) \/ HandOffTicket(t)
  BY <1>5 DEF EscalateStep, HandOffTicket, HandOff, LeaveRoute
<1>6. CASE CreateIssue(t) \/ AddBugRow(t)
  BY <1>6 DEF CreateIssue, AddBugRow
<1>7. CASE SetConversationContact(t) \/ SetRowContact(t) \/ AddContactNote(t)
  BY <1>7 DEF SetConversationContact, SetRowContact, AddContactNote, LeaveRoute
<1>8. CASE ScreenReply(t) BY <1>8 DEF ScreenReply
<1>9. CASE AppendUser(t) \/ AppendReply(t) BY <1>9 DEF AppendUser, AppendReply
<1>10. QED
  BY <1>1, <1>2, <1>3, <1>4, <1>5, <1>6, <1>7, <1>8, <1>9 DEF TurnStep, SaveSession

LEMMA FlowSteps ==
  HistoryInv /\ [HistoryNext]_<<vars, opened>> => [Flow!Next]_Flow!vars
<1> SUFFICES ASSUME HistoryInv, [HistoryNext]_<<vars, opened>>
             PROVE  Flow!Next \/ UNCHANGED Flow!vars
  OBVIOUS
<1> DEFINE unread   == {u \in Turns : pc[u] = "idle"}
           underway == {u \in Turns : pc[u] \in Unsaved}
           now      == Where(session)
<1>1. TypeOK /\ opened \in [Turns -> Flow!Sessions] /\ \A u \in Turns : OnWay(u)
  BY DEF HistoryInv, SessionInv
<1>2. now' = now /\ unread' = unread /\ underway' = underway /\ opened' = opened
        => UNCHANGED Flow!vars
  BY DEF Flow!vars
<1>3. CASE \E t \in Turns : BeginTurn(t) /\ opened' = [opened EXCEPT ![t] = Where(session)]
  <2>1. PICK t \in Turns : BeginTurn(t) /\ opened' = [opened EXCEPT ![t] = Where(session)]
    BY <1>3
  <2>2. session' = session /\ pc[t] = "idle" /\ pc' = [pc EXCEPT ![t] = "loaded"]
    BY <2>1 DEF BeginTurn, Goto, durable
  <2>3. t \in unread /\ unread' = unread \ {t} /\ underway' = underway \cup {t}
    BY <1>1, <2>2 DEF TypeOK, Unsaved
  <2>4. now' = now BY <2>2
  <2>5. Flow!Take(t) BY <2>1, <2>3, <2>4 DEF Flow!Take
  <2>6. QED BY <2>3, <2>5 DEF Flow!Next
<1>4. CASE \E t \in Turns : pc[t] # "save" /\ TurnStep(t) /\ UNCHANGED opened
  <2>1. PICK t \in Turns : pc[t] # "save" /\ TurnStep(t) /\ UNCHANGED opened BY <1>4
  <2>2. /\ session' = session /\ pc[t] # "idle"
        /\ \E x \in Locations \ {"idle"} :
             pc' = [pc EXCEPT ![t] = x] /\ (x \in Unsaved <=> pc[t] \in Unsaved)
    BY <1>1, <2>1, TurnStaysUnder
  <2>3. unread' = unread /\ underway' = underway BY <1>1, <2>2 DEF TypeOK
  <2>4. QED BY <1>2, <2>1, <2>2, <2>3
<1>5. CASE \E t \in Turns : /\ SaveSession(t) \/ Fail(t)
                            /\ opened' = [opened EXCEPT ![t] = Where(FreshSession)]
  <2>1. PICK t \in Turns : /\ SaveSession(t) \/ Fail(t)
                           /\ opened' = [opened EXCEPT ![t] = Where(FreshSession)]
    BY <1>5
  <2>2. opened' = [opened EXCEPT ![t] = Flow!Fresh] BY <2>1, FreshPlain
  <2>3. CASE SaveSession(t)
    <3>1. pc[t] = "save" /\ session' = local[t] /\ pc' = [pc EXCEPT ![t] = "append_user"]
      BY <2>3 DEF SaveSession, Goto
    <3>2. now' \in Flow!Outcomes(opened[t], t) BY <1>1, <3>1 DEF OnWay
    <3>3. t \in underway /\ unread' = unread /\ underway' = underway \ {t}
      BY <1>1, <3>1 DEF TypeOK, Unsaved
    <3>4. Flow!Store(t) BY <2>2, <3>2, <3>3 DEF Flow!Store, Flow!Leave
    <3>5. QED BY <3>3, <3>4 DEF Flow!Next
  <2>4. CASE Fail(t)
    <3>1. /\ session' = session /\ pc[t] \notin {"idle", "done", "failed"}
          /\ pc' = [pc EXCEPT ![t] = "failed"]
      BY <2>4 DEF Fail, Goto, durable, InFlight, Ended
    <3>2. now' = now BY <3>1
    <3>3. unread' = unread /\ underway' = underway \ {t}
      BY <1>1, <3>1 DEF TypeOK, Unsaved
    <3>4. CASE t \in underway
      <4>1. Flow!Drop(t) BY <2>2, <3>2, <3>3 DEF Flow!Drop, Flow!Leave
      <4>2. QED BY <3>4, <4>1 DEF Flow!Next
    <3>5. CASE t \notin underway
      <4>1. opened[t] = Flow!Fresh BY <1>1, <3>5, FreshPlain DEF OnWay
      <4>2. opened' = opened BY <1>1, <2>2, <4>1
      <4>3. QED BY <1>2, <3>2, <3>3, <3>5, <4>2
    <3>6. QED BY <3>4, <3>5
  <2>5. QED BY <2>1, <2>3, <2>4
<1>6. CASE ExpireSession /\ UNCHANGED opened
  <2>1. session' = FreshSession /\ pc' = pc BY <1>6 DEF ExpireSession, inMemory
  <2>2. now' = Flow!Fresh BY <2>1, FreshPlain
  <2>3. Flow!Expire BY <1>6, <2>1, <2>2 DEF Flow!Expire
  <2>4. QED BY <2>3 DEF Flow!Next
<1>7. CASE UNCHANGED <<vars, opened>>
  BY <1>2, <1>7 DEF vars, durable, inMemory
<1>8. QED BY <1>3, <1>4, <1>5, <1>6, <1>7 DEF HistoryNext

(* However turns overlap, fail and expire, what is stored is what one      *)
(* message makes of the session it was read with: the pipeline implements  *)
(* SessionFlow.                                                            *)
THEOREM TurnsAlwaysActWhole == HistorySpec => TurnsActWhole
<1>1. QED
  BY HistoryStarts, HistoryKeeps, FlowStarts, FlowSteps, PTL
  DEF HistorySpec, TurnsActWhole, Flow!Spec
=============================================================================
