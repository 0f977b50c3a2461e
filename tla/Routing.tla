------------------------------ MODULE Routing ------------------------------
(***************************************************************************)
(* Which agent runs next: the pure half of the turn pipeline               *)
(* (agents/routing.py).  A route snapshot is a small record, NextStep is   *)
(* the ordered table of rules over it, and StartRoute and AfterStep are    *)
(* the only two ways a snapshot is built.  "none" stands for Python's      *)
(* None in every optional field.                                           *)
(***************************************************************************)
EXTENDS Naturals

CONSTANTS
  MaxHops,          \* agent steps in one turn before the backstop fires
  MaxClarify,       \* clarifying questions in one session
  MaxVerifyTurns    \* turns one evidence collection may take

(* The backstop is meant to lie beyond the longest path the rules allow,   *)
(* triage, knowledge, issue_verification, knowledge.                       *)
ASSUME RoutingLimits ==
  /\ MaxHops \in Nat /\ MaxHops > 4
  /\ MaxClarify \in Nat \ {0}
  /\ MaxVerifyTurns \in Nat \ {0}

AgentSteps    == {"triage", "knowledge", "issue_verification"}
TerminalSteps == {"escalate", "out_of_scope", "attach_contact", "file_ticket", "reply"}

PendingFlows      == {"verify_issue", "knowledge_clarify", "collect_contact"}
TriageTargets     == {"knowledge", "issue_verification", "escalate", "out_of_scope"}
KnowledgeStatuses == {"answer", "clarify", "no_answer", "suspected_bug"}
VerifyOutcomes    == {"need_more_info", "user_error", "bug_confirmed"}

Optional(S) == S \cup {"none"}

RouteState ==
  [ pending         : Optional(PendingFlows),
    contactFound    : BOOLEAN,
    triageTarget    : Optional(TriageTargets),
    knowledgeStatus : Optional(KnowledgeStatuses),
    verifyOutcome   : Optional(VerifyOutcomes),
    clarifyCount    : Nat,
    verifyTurns     : Nat,
    userErrorSeen   : BOOLEAN,
    hopCount        : Nat ]

(* The snapshot at the top of a turn, read off the session.                *)
StartRoute(session, contactFound) ==
  [ pending         |-> session.pending,
    contactFound    |-> contactFound,
    triageTarget    |-> "none",
    knowledgeStatus |-> "none",
    verifyOutcome   |-> "none",
    clarifyCount    |-> session.clarifyCount,
    verifyTurns     |-> session.verifyTurns,
    userErrorSeen   |-> session.userErrorSeen,
    hopCount        |-> 0 ]

(* What an agent step reports to the router: one of the three fields.      *)
TriageReport(target)    == [routedTo |-> target, status |-> "none", outcome |-> "none"]
KnowledgeReport(status) == [routedTo |-> "none", status |-> status, outcome |-> "none"]
VerifyReport(outcome)   == [routedTo |-> "none", status |-> "none", outcome |-> outcome]

\* Mutant: the snapshot is handed on as it was.
AfterStepUnchanged(route, report, session) == route

(* One executed step folded back in: whatever resumed it is spent, the     *)
(* counters are re-read from the session and the hop is counted.           *)
AfterStep(route, report, session) ==
  [ pending         |-> "none",
    contactFound    |-> FALSE,
    triageTarget    |-> IF report.routedTo # "none" THEN report.routedTo ELSE route.triageTarget,
    knowledgeStatus |-> report.status,
    verifyOutcome   |-> report.outcome,
    clarifyCount    |-> session.clarifyCount,
    verifyTurns     |-> session.verifyTurns,
    userErrorSeen   |-> session.userErrorSeen,
    hopCount        |-> route.hopCount + 1 ]

Go(step, reason) == [step |-> step, reason |-> reason]

(* A flow the user is already in owns the turn.  The cap is read before    *)
(* the agent runs, so it holds whatever the model would have asked.        *)
ResumeFlow(s) ==
  IF s.pending = "knowledge_clarify" THEN Go("knowledge", "clarify answered")
  ELSE IF s.verifyTurns >= MaxVerifyTurns
       THEN Go("file_ticket", "verify turn cap")
       ELSE Go("issue_verification", "resume verification")

AfterVerification(s) ==
  CASE s.verifyOutcome = "bug_confirmed"  -> Go("file_ticket", "verified bug")
    [] s.verifyOutcome = "user_error"     -> Go("knowledge", "not a bug, explain usage")
    [] s.verifyOutcome = "need_more_info" -> Go("reply", "collecting evidence")

\* Mutant: a suspected bug is verified again after a user error.
AfterKnowledgeUnguarded(s) ==
  CASE s.knowledgeStatus = "suspected_bug" -> Go("issue_verification", "suspected bug")
    [] s.knowledgeStatus = "clarify" ->
         IF s.clarifyCount >= MaxClarify THEN Go("escalate", "clarify limit")
                                         ELSE Go("reply", "need clarification")
    [] s.knowledgeStatus = "no_answer" -> Go("escalate", "knowledge unresolved")
    [] s.knowledgeStatus = "answer"    -> Go("reply", "answered")

AfterKnowledge(s) ==
  CASE s.knowledgeStatus = "suspected_bug" ->
         IF s.userErrorSeen THEN Go("escalate", "bug loop")
                            ELSE Go("issue_verification", "suspected bug")
    [] s.knowledgeStatus = "clarify" ->
         IF s.clarifyCount >= MaxClarify THEN Go("escalate", "clarify limit")
                                         ELSE Go("reply", "need clarification")
    [] s.knowledgeStatus = "no_answer" -> Go("escalate", "knowledge unresolved")
    [] s.knowledgeStatus = "answer"    -> Go("reply", "answered")

AfterTriage(s) ==
  CASE s.triageTarget = "escalate"           -> Go("escalate", "user requested human")
    [] s.triageTarget = "issue_verification" -> Go("issue_verification", "reported malfunction")
    [] s.triageTarget = "out_of_scope"       -> Go("out_of_scope", "off topic")
    [] s.triageTarget = "knowledge"          -> Go("knowledge", "question")

(* The order of the rules is the rule: the backstop, a contact that was    *)
(* asked for, a flow in progress, what the last agent decided, what triage *)
(* chose.  A collect_contact flag never gets here: _take_contact spent it. *)
NextStep(s) ==
  IF s.hopCount >= MaxHops THEN Go("escalate", "hop limit")
  ELSE IF s.contactFound THEN Go("attach_contact", "contact given")
  ELSE IF s.pending \in {"verify_issue", "knowledge_clarify"} THEN ResumeFlow(s)
  ELSE IF s.verifyOutcome # "none" THEN AfterVerification(s)
  ELSE IF s.knowledgeStatus # "none" THEN AfterKnowledge(s)
  ELSE IF s.triageTarget # "none" THEN AfterTriage(s)
  ELSE Go("triage", "new turn")

(* The handoff reasons the router and the driver write; CS is paged for    *)
(* the first three only (agents/escalation.py).                            *)
NotifyReasons  == {"verified bug", "knowledge unresolved", "clarify limit"}
HandoffReasons == NotifyReasons \cup
  {"user requested human", "bug loop", "hop limit", "ungrounded answer"}
=============================================================================
