---------------------------- MODULE Coordinator ----------------------------
(***************************************************************************)
(* The turns of one conversation (agents/coordinator.py) over the stores   *)
(* they share: the session in Redis, the conversation, the request backlog *)
(* and the Q&A queue in DynamoDB, MantisBT, and the pages sent to CS.      *)
(*                                                                         *)
(* A turn is one POST /widget/chat.  Turns are numbered in arrival order   *)
(* and up to MaxInFlight of them run at once: handle_turn takes no lock,   *)
(* each turn reads the session once, works on its own copy and writes the  *)
(* whole of it back.  Every await that touches a store is an action, and   *)
(* a turn may stop (an exception, or the process) at each of them.         *)
(*                                                                         *)
(* What the agents decide is any value they may return; the wording, the   *)
(* passages and the bug slots are left out.  A backlog row and a MantisBT  *)
(* issue are named by the turn that filed them, a verification flow by the *)
(* turn that opened it; 0 names nothing.                                   *)
(***************************************************************************)
EXTENDS Routing, FiniteSets

CONSTANTS
  MaxTurns,         \* turns posted to the conversation
  MaxInFlight,      \* turns handled at once (two tabs, a client that retries)
  FailuresAllowed,  \* whether a turn may stop half-way
  SessionsExpire    \* whether the Redis TTL may run out

ASSUME CoordinatorConstants ==
  /\ MaxTurns \in Nat
  /\ MaxInFlight \in Nat \ {0}
  /\ FailuresAllowed \in BOOLEAN
  /\ SessionsExpire \in BOOLEAN

Turns  == 1 .. MaxTurns
TurnId == 0 .. MaxTurns

VARIABLES
  session,        \* the session in Redis
  saved,          \* saved[t]: of turn t's two messages, how many the history holds
  contactOf,      \* the turn whose contact the conversation row carries
  issues,         \* issues[t]: flow of the MantisBT issue turn t filed
  notes,          \* notes[i]: the turn whose contact was noted on issue i
  rows,           \* rows[t]: the bug row turn t wrote to the backlog
  missingRows,    \* turns that wrote a how_to_missing row
  questions,      \* turns that queued a cannot_answer question for CS
  paged,          \* paged[t]: the reason turn t paged CS with
  pc,             \* where each turn is
  local,          \* each turn's own copy of the session
  route,          \* each turn's route snapshot
  refs,           \* the ticket a turn filed, or the one its gate pointed at
  result          \* what the turn's last agent handed back

durable  == <<session, saved, contactOf, issues, notes, rows, missingRows, questions, paged>>
inMemory == <<pc, local, route, refs, result>>
vars == <<durable, inMemory>>

-----------------------------------------------------------------------------
(* The session.  pending_context is one dict in the code: the evidence of  *)
(* a verification, or what a contact left after a handoff belongs to.      *)

NoContext == [kind |-> "none"]
VerifyContext(flow) == [kind |-> "verify", flow |-> flow]
GateContext(reason, r) ==
  [kind |-> "gate", reason |-> reason, backlog |-> r.backlog, issue |-> r.issue]

Contexts ==
  {NoContext} \cup [kind : {"verify"}, flow : Turns]
              \cup [kind : {"gate"}, reason : HandoffReasons, backlog : TurnId, issue : TurnId]

SessionState ==
  [ pending       : Optional(PendingFlows),
    context       : Contexts,
    clarifyCount  : Nat,
    verifyTurns   : Nat,
    userErrorSeen : BOOLEAN ]

FreshSession ==
  [ pending |-> "none", context |-> NoContext,
    clarifyCount |-> 0, verifyTurns |-> 0, userErrorSeen |-> FALSE ]

FlowOf(context) == IF context.kind = "verify" THEN context.flow ELSE 0

Refs   == [backlog : TurnId, issue : TurnId]
NoRefs == [backlog |-> 0, issue |-> 0]
RefsOf(context) ==
  IF context.kind = "gate" THEN [backlog |-> context.backlog, issue |-> context.issue] ELSE NoRefs

Row   == [filed : BOOLEAN, flow : TurnId, issue : TurnId, contact : TurnId]
NoRow == [filed |-> FALSE, flow |-> 0, issue |-> 0, contact |-> 0]

(* What of an AgentResult outlives the step that returned it.              *)
Results == [cited : BOOLEAN, escalated : {FALSE}, reason : {"none"}]
             \cup [cited : {FALSE}, escalated : {TRUE}, reason : HandoffReasons]
PlainReply       == [cited |-> FALSE, escalated |-> FALSE, reason |-> "none"]
Answered(cited)  == [cited |-> cited, escalated |-> FALSE, reason |-> "none"]
HandedOff(why)   == [cited |-> FALSE, escalated |-> TRUE, reason |-> why]

Locations ==
  {"idle", "loaded", "route", "queue_question", "add_row", "hand_off", "contact_row",
   "contact_note", "screen", "save", "append_user", "append_reply", "done", "failed"}
Ended    == {"done", "failed"}
InFlight == {t \in Turns : pc[t] \notin {"idle"} \cup Ended}

TypeOK ==
  /\ session \in SessionState
  /\ saved \in [Turns -> 0 .. 2]
  /\ contactOf \in TurnId
  /\ issues \in [Turns -> TurnId]
  /\ notes \in [Turns -> TurnId]
  /\ rows \in [Turns -> Row]
  /\ missingRows \subseteq Turns
  /\ questions \subseteq Turns
  /\ paged \in [Turns -> Optional(NotifyReasons)]
  /\ pc \in [Turns -> Locations]
  /\ local \in [Turns -> SessionState]
  /\ route \in [Turns -> RouteState]
  /\ refs \in [Turns -> Refs]
  /\ result \in [Turns -> Results]

NoRoute == StartRoute(FreshSession, FALSE)

Init ==
  /\ session = FreshSession
  /\ saved = [t \in Turns |-> 0]
  /\ contactOf = 0
  /\ issues = [t \in Turns |-> 0]
  /\ notes = [t \in Turns |-> 0]
  /\ rows = [t \in Turns |-> NoRow]
  /\ missingRows = {}
  /\ questions = {}
  /\ paged = [t \in Turns |-> "none"]
  /\ pc = [t \in Turns |-> "idle"]
  /\ local = [t \in Turns |-> FreshSession]
  /\ route = [t \in Turns |-> NoRoute]
  /\ refs = [t \in Turns |-> NoRefs]
  /\ result = [t \in Turns |-> PlainReply]

Goto(t, location) == pc' = [pc EXCEPT ![t] = location]
AtStep(t, step)   == pc[t] = "route" /\ NextStep(route[t]).step = step

-----------------------------------------------------------------------------
(* Opening a turn.                                                         *)

(* The session is read once, before anything is awaited on its behalf.     *)
BeginTurn(t) ==
  /\ pc[t] = "idle"
  /\ \A u \in Turns : u < t => pc[u] # "idle"
  /\ Cardinality(InFlight) < MaxInFlight
  /\ local' = [local EXCEPT ![t] = session]
  /\ Goto(t, "loaded")
  /\ UNCHANGED <<durable, route, refs, result>>

(* The input guardrail refuses the message: no routing, no output check,   *)
(* and the flow that was open stays open.                                  *)
BlockInput(t) ==
  /\ pc[t] = "loaded"
  /\ result' = [result EXCEPT ![t] = PlainReply]
  /\ Goto(t, "save")
  /\ UNCHANGED <<durable, local, route, refs>>

CloseFlow(s) == [s EXCEPT !.pending = "none", !.context = NoContext, !.verifyTurns = 0]

\* Mutant: the flag is spent but what it pointed at is kept.
TakeContactKeepsContext(s) ==
  IF s.pending = "collect_contact" THEN [s EXCEPT !.pending = "none"] ELSE s

TakeContact(s) ==
  IF s.pending = "collect_contact"
  THEN [s EXCEPT !.pending = "none", !.context = NoContext] ELSE s

\* Mutant: the questions asked in a flow outlive it.
MaybeCancelKeepsCount(s, wantsCancel) ==
  IF wantsCancel /\ s.pending \in {"verify_issue", "knowledge_clarify"}
  THEN CloseFlow(s) ELSE s

MaybeCancel(s, wantsCancel) ==
  IF wantsCancel /\ s.pending \in {"verify_issue", "knowledge_clarify"}
  THEN [CloseFlow(s) EXCEPT !.clarifyCount = 0] ELSE s

(* The contact gate is consumed whether or not the message holds a contact *)
(* and an open flow is dropped if the message walks away from it.          *)
EnterRoute(t) ==
  /\ pc[t] = "loaded"
  /\ \E contactFound, wantsCancel \in BOOLEAN :
       LET s == MaybeCancel(TakeContact(local[t]), wantsCancel) IN
       /\ contactFound => local[t].pending = "collect_contact"
       /\ local' = [local EXCEPT ![t] = s]
       /\ route' = [route EXCEPT ![t] = StartRoute(s, contactFound)]
  /\ refs' = [refs EXCEPT ![t] = RefsOf(local[t].context)]
  /\ result' = [result EXCEPT ![t] = PlainReply]
  /\ Goto(t, "route")
  /\ UNCHANGED durable

-----------------------------------------------------------------------------
(* The agent steps.  The driver moves the session counters, folds what the *)
(* agent reported into the snapshot and asks the rules again.              *)

Fold(t, report, s, cited) ==
  /\ local' = [local EXCEPT ![t] = s]
  /\ route' = [route EXCEPT ![t] = AfterStep(route[t], report, s)]
  /\ result' = [result EXCEPT ![t] = Answered(cited)]
  /\ Goto(t, "route")

TriageStep(t) ==
  /\ AtStep(t, "triage")
  /\ \E target \in TriageTargets : Fold(t, TriageReport(target), local[t], FALSE)
  /\ UNCHANGED <<durable, refs>>

SpendClarify(s) == IF s.pending = "knowledge_clarify" THEN [s EXCEPT !.pending = "none"] ELSE s
MayClarify(s)   == s.clarifyCount < MaxClarify
AskToClarify(s) == [s EXCEPT !.clarifyCount = @ + 1, !.pending = "knowledge_clarify"]

(* KnowledgeAgent answers, or suspects a bug.  A clarify it may no longer  *)
(* ask comes back as an answer.                                            *)
KnowledgeAnswers(t) ==
  /\ AtStep(t, "knowledge")
  /\ \/ \E cited \in BOOLEAN :
          Fold(t, KnowledgeReport("answer"), SpendClarify(local[t]), cited)
     \/ Fold(t, KnowledgeReport("suspected_bug"), SpendClarify(local[t]), FALSE)
  /\ UNCHANGED <<durable, refs>>

(* It asks, or it found nothing and asking is still allowed.               *)
KnowledgeAsks(t) ==
  /\ AtStep(t, "knowledge")
  /\ MayClarify(local[t])
  /\ Fold(t, KnowledgeReport("clarify"), AskToClarify(local[t]), FALSE)
  /\ UNCHANGED <<durable, refs>>

(* A miss with no question left: a backlog row first ...                   *)
LogMissingAnswer(t) ==
  /\ AtStep(t, "knowledge")
  /\ ~ MayClarify(local[t])
  /\ local' = [local EXCEPT ![t] = SpendClarify(@)]
  /\ missingRows' = missingRows \cup {t}
  /\ Goto(t, "queue_question")
  /\ UNCHANGED <<session, saved, contactOf, issues, notes, rows, questions, paged,
                 route, refs, result>>

\* Mutant: the queue's failure is swallowed.
QueueQuestionDropped(t) ==
  /\ pc[t] = "queue_question"
  /\ Fold(t, KnowledgeReport("no_answer"), local[t], FALSE)
  /\ UNCHANGED <<session, saved, contactOf, issues, notes, rows, missingRows, questions,
                 paged, refs>>

(* ... then the question CS is to answer.                                  *)
QueueQuestion(t) ==
  /\ pc[t] = "queue_question"
  /\ questions' = questions \cup {t}
  /\ Fold(t, KnowledgeReport("no_answer"), local[t], FALSE)
  /\ UNCHANGED <<session, saved, contactOf, issues, notes, rows, missingRows, paged, refs>>

OpenVerification(s, t) ==
  IF s.pending = "verify_issue" THEN s
  ELSE [s EXCEPT !.pending = "verify_issue", !.context = VerifyContext(t), !.verifyTurns = 0]

CountVerifyTurn(s) == [s EXCEPT !.verifyTurns = @ + 1]

\* Mutant: a user error is remembered and the flow left open.
AfterVerdictKeepsFlow(s, outcome) ==
  IF outcome = "user_error" THEN [s EXCEPT !.userErrorSeen = TRUE] ELSE s

AfterVerdict(s, outcome) ==
  IF outcome = "user_error" THEN [CloseFlow(s) EXCEPT !.userErrorSeen = TRUE] ELSE s

VerifyStep(t) ==
  /\ AtStep(t, "issue_verification")
  /\ \E outcome \in VerifyOutcomes :
       Fold(t, VerifyReport(outcome),
            AfterVerdict(CountVerifyTurn(OpenVerification(local[t], t)), outcome), FALSE)
  /\ UNCHANGED <<durable, refs>>

-----------------------------------------------------------------------------
(* The steps that end the turn.                                            *)

(* _route returns; its snapshot is gone.                                   *)
LeaveRoute(t) ==
  /\ route' = [route EXCEPT ![t] = NoRoute]
  /\ Goto(t, "screen")

ReplyStep(t) ==
  /\ AtStep(t, "reply")
  /\ LeaveRoute(t)
  /\ UNCHANGED <<durable, local, refs, result>>

OutOfScopeStep(t) ==
  /\ AtStep(t, "out_of_scope")
  /\ result' = [result EXCEPT ![t] = PlainReply]
  /\ LeaveRoute(t)
  /\ UNCHANGED <<durable, local, refs>>

(* CS gets the reason and the transcript on Zalo, and by mail, which does  *)
(* not matter here.  A post that fails raises: Fail(t) at the location     *)
(* before.                                                                 *)
Page(t, reason) == [paged EXCEPT ![t] = reason]

(* EscalationAgent: CS is paged for some reasons only.                     *)
HandOff(t, reason) ==
  /\ paged' = IF reason \in NotifyReasons THEN Page(t, reason) ELSE paged
  /\ result' = [result EXCEPT ![t] = HandedOff(reason)]
  /\ LeaveRoute(t)
  /\ UNCHANGED <<session, saved, contactOf, issues, notes, rows, missingRows, questions, local>>

\* Mutant: a handoff inherits the ticket of the gate this turn answered.
EscalateStepKeepsRefs(t) ==
  /\ AtStep(t, "escalate")
  /\ HandOff(t, NextStep(route[t]).reason)
  /\ UNCHANGED refs

EscalateStep(t) ==
  /\ AtStep(t, "escalate")
  /\ HandOff(t, NextStep(route[t]).reason)
  /\ refs' = [refs EXCEPT ![t] = NoRefs]

(* The ticket: create_issue never raises, it returns no issue when the     *)
(* tracker refused it or when the answer to an accepted one was lost.      *)
CreateIssue(t) ==
  /\ AtStep(t, "file_ticket")
  /\ \E stored, known \in BOOLEAN :
       /\ known => stored
       /\ issues' = IF stored THEN [issues EXCEPT ![t] = FlowOf(local[t].context)] ELSE issues
       /\ refs' = [refs EXCEPT ![t] = [backlog |-> 0, issue |-> IF known THEN t ELSE 0]]
  /\ Goto(t, "add_row")
  /\ UNCHANGED <<session, saved, contactOf, notes, rows, missingRows, questions, paged,
                 local, route, result>>

\* Mutant: the row is written without the issue it was filed with.
AddBugRowWithoutIssue(t) ==
  /\ pc[t] = "add_row"
  /\ rows' = [rows EXCEPT ![t] =
       [filed |-> TRUE, flow |-> FlowOf(local[t].context), issue |-> 0, contact |-> 0]]
  /\ refs' = [refs EXCEPT ![t].backlog = t]
  /\ local' = [local EXCEPT ![t] = CloseFlow(@)]
  /\ Goto(t, "hand_off")
  /\ UNCHANGED <<session, saved, contactOf, issues, notes, missingRows, questions, paged,
                 route, result>>

\* Mutant: the session is reset before the row is built from it.
AddBugRowAfterReset(t) ==
  /\ pc[t] = "add_row"
  /\ local' = [local EXCEPT ![t] = CloseFlow(@)]
  /\ rows' = [rows EXCEPT ![t] =
       [filed |-> TRUE, flow |-> FlowOf(local'[t].context), issue |-> refs[t].issue,
        contact |-> 0]]
  /\ refs' = [refs EXCEPT ![t].backlog = t]
  /\ Goto(t, "hand_off")
  /\ UNCHANGED <<session, saved, contactOf, issues, notes, missingRows, questions, paged,
                 route, result>>

(* Its backlog row, in one write with the issue id; the flow is over.      *)
AddBugRow(t) ==
  /\ pc[t] = "add_row"
  /\ rows' = [rows EXCEPT ![t] =
       [filed |-> TRUE, flow |-> FlowOf(local[t].context), issue |-> refs[t].issue, contact |-> 0]]
  /\ refs' = [refs EXCEPT ![t].backlog = t]
  /\ local' = [local EXCEPT ![t] = CloseFlow(@)]
  /\ Goto(t, "hand_off")
  /\ UNCHANGED <<session, saved, contactOf, issues, notes, missingRows, questions, paged,
                 route, result>>

(* And the handoff.  The turn-cap ticket carries the same reason.          *)
HandOffTicket(t) ==
  /\ pc[t] = "hand_off"
  /\ HandOff(t, "verified bug")
  /\ UNCHANGED refs

(* A contact after a handoff, onto the conversation, the row and the       *)
(* issue; each write may be lost and costs only itself.  A conversation    *)
(* that has no row yet refuses the write.                                  *)
SetConversationContact(t) ==
  /\ AtStep(t, "attach_contact")
  /\ \/ contactOf' = t /\ \E u \in Turns : saved[u] > 0
     \/ UNCHANGED contactOf
  /\ Goto(t, "contact_row")
  /\ UNCHANGED <<session, saved, issues, notes, rows, missingRows, questions, paged,
                 local, route, refs, result>>

SetRowContact(t) ==
  /\ pc[t] = "contact_row"
  /\ \/ refs[t].backlog # 0 /\ rows' = [rows EXCEPT ![refs[t].backlog].contact = t]
     \/ UNCHANGED rows
  /\ Goto(t, "contact_note")
  /\ UNCHANGED <<session, saved, contactOf, issues, notes, missingRows, questions, paged,
                 local, route, refs, result>>

AddContactNote(t) ==
  /\ pc[t] = "contact_note"
  /\ \/ refs[t].issue # 0 /\ notes' = [notes EXCEPT ![refs[t].issue] = t]
     \/ UNCHANGED notes
  /\ result' = [result EXCEPT ![t] = PlainReply]
  /\ LeaveRoute(t)
  /\ UNCHANGED <<session, saved, contactOf, issues, rows, missingRows, questions, paged,
                 local, refs>>

-----------------------------------------------------------------------------
(* Closing a turn.                                                         *)

\* Mutant: the gate is armed under a name nothing reads.
ArmGateMisnamed(s, reason, r) ==
  [s EXCEPT !.pending = "contact", !.context = GateContext(reason, r)]

ArmGate(s, reason, r) ==
  [s EXCEPT !.pending = "collect_contact", !.context = GateContext(reason, r)]

(* The output guardrail reads a reply that cited something.  An answer it  *)
(* rejects and no repair rescues becomes a handoff that pages nobody; then *)
(* every handoff, from wherever, arms the contact gate.  _finish needs the *)
(* session and the two messages only.                                      *)
ScreenReply(t) ==
  /\ pc[t] = "screen"
  /\ \E ungrounded \in IF result[t].cited THEN BOOLEAN ELSE {FALSE} :
       LET final == IF ungrounded THEN HandedOff("ungrounded answer") ELSE result[t]
           made  == IF ungrounded THEN NoRefs ELSE refs[t]
       IN local' = IF final.escalated
                   THEN [local EXCEPT ![t] = ArmGate(@, final.reason, made)] ELSE local
  /\ refs' = [refs EXCEPT ![t] = NoRefs]
  /\ result' = [result EXCEPT ![t] = PlainReply]
  /\ Goto(t, "save")
  /\ UNCHANGED <<durable, route>>

\* Mutant: a handed-off turn returns without saving its session.
SaveSessionUnlessHandedOff(t) ==
  /\ pc[t] = "save"
  /\ session' = IF local[t].pending = "collect_contact" THEN session ELSE local[t]
  /\ Goto(t, "append_user")
  /\ UNCHANGED <<saved, contactOf, issues, notes, rows, missingRows, questions, paged,
                 local, route, refs, result>>

(* _finish: the session first, whole, with a new TTL ...                   *)
SaveSession(t) ==
  /\ pc[t] = "save"
  /\ session' = local[t]
  /\ Goto(t, "append_user")
  /\ UNCHANGED <<saved, contactOf, issues, notes, rows, missingRows, questions, paged,
                 local, route, refs, result>>

(* What the turn held in memory is not read again.                         *)
Release(t) ==
  /\ local' = [local EXCEPT ![t] = FreshSession]
  /\ route' = [route EXCEPT ![t] = NoRoute]
  /\ refs' = [refs EXCEPT ![t] = NoRefs]
  /\ result' = [result EXCEPT ![t] = PlainReply]

(* ... then the user's message and the reply, one append each.             *)
AppendUser(t) ==
  /\ pc[t] = "append_user"
  /\ saved' = [saved EXCEPT ![t] = 1]
  /\ Goto(t, "append_reply")
  /\ UNCHANGED <<session, contactOf, issues, notes, rows, missingRows, questions, paged,
                 local, route, refs, result>>

AppendReply(t) ==
  /\ pc[t] = "append_reply"
  /\ saved' = [saved EXCEPT ![t] = 2]
  /\ Goto(t, "done")
  /\ Release(t)
  /\ UNCHANGED <<session, contactOf, issues, notes, rows, missingRows, questions, paged>>

-----------------------------------------------------------------------------
(* What the environment does.                                              *)

(* An awaited call raises, or the process dies: the request ends in a 500  *)
(* with the effects so far and without the ones to come.                   *)
Fail(t) ==
  /\ FailuresAllowed
  /\ t \in InFlight
  /\ Goto(t, "failed")
  /\ Release(t)
  /\ UNCHANGED durable

ExpireSession ==
  /\ SessionsExpire
  /\ session # FreshSession
  /\ session' = FreshSession
  /\ UNCHANGED <<saved, contactOf, issues, notes, rows, missingRows, questions, paged, inMemory>>

-----------------------------------------------------------------------------

TurnStep(t) ==
  \/ BlockInput(t) \/ EnterRoute(t)
  \/ TriageStep(t) \/ KnowledgeAnswers(t) \/ KnowledgeAsks(t)
  \/ LogMissingAnswer(t) \/ QueueQuestion(t) \/ VerifyStep(t)
  \/ ReplyStep(t) \/ OutOfScopeStep(t) \/ EscalateStep(t)
  \/ CreateIssue(t) \/ AddBugRow(t) \/ HandOffTicket(t)
  \/ SetConversationContact(t) \/ SetRowContact(t) \/ AddContactNote(t)
  \/ ScreenReply(t) \/ SaveSession(t) \/ AppendUser(t) \/ AppendReply(t)

Next ==
  \/ \E t \in Turns : BeginTurn(t) \/ TurnStep(t) \/ Fail(t)
  \/ ExpireSession

Spec == Init /\ [][Next]_vars

(* A turn that was admitted is run by the event loop until it ends; users  *)
(* owe the system no further message and nothing owes it a failure.        *)
FairSpec == Spec /\ \A t \in Turns : WF_vars(TurnStep(t))

-----------------------------------------------------------------------------
(* What must hold of every copy of the session, stored or in a turn.       *)

Copies == {session} \cup {local[t] : t \in Turns}

(* pending_context is one untyped dict: a copy never reads the evidence of *)
(* a verification as a contact gate or the reverse, nor keeps either after *)
(* its flow is over, whatever turns interleave or stop half-way.           *)
ContextFitsPending(s) ==
  s.context.kind = CASE s.pending = "verify_issue"    -> "verify"
                     [] s.pending = "collect_contact" -> "gate"
                     [] OTHER                         -> "none"

ContextMatchesPending == \A s \in Copies : ContextFitsPending(s)

(* The collection budget belongs to the flow that is open: never above the *)
(* cap, and back at zero whenever no collection is open, so that one flow  *)
(* never starts with what another one spent.                               *)
BudgetFits(s) ==
  /\ s.verifyTurns <= MaxVerifyTurns
  /\ s.clarifyCount <= MaxClarify
  /\ s.pending # "verify_issue" => s.verifyTurns = 0

BudgetFollowsFlow == \A s \in Copies : BudgetFits(s)

(* No sequence of agent verdicts makes a turn longer than the longest path *)
(* routing.py names, so the hop limit never hands a user off by itself.    *)
LongestPath == 4
HopLimitNeverFires == \A t \in Turns : route[t].hopCount <= LongestPath

(* The gate overwrites pending and pending_context.  When a handoff, or a  *)
(* rejected answer, is about to arm it, no flow is left open whose slots   *)
(* would be lost with it.                                                  *)
HandoffLeavesNoFlowOpen ==
  \A t \in Turns :
    pc[t] = "screen" /\ (result[t].escalated \/ result[t].cited)
      => local[t].context = NoContext /\ local[t].verifyTurns = 0

(* A gate that names a ticket names one that exists: the row is written,   *)
(* carries the same issue, and CS was paged about it by the turn that      *)
(* filed it.  Only a verified bug has refs, and it always has.             *)
GateNamesHandoff(s) ==
  s.context.kind = "gate" =>
    LET b == s.context.backlog IN
    /\ s.context.reason = "verified bug" <=> b # 0
    /\ b # 0 => /\ rows[b].filed
                /\ rows[b].issue = s.context.issue
                /\ paged[b] = "verified bug"

GateNamesItsHandoff == \A s \in Copies : GateNamesHandoff(s)

(* A backlog row that names an issue names the issue of its own flow: the  *)
(* ticket goes first so that the row is complete in one write.             *)
RowNamesItsIssue ==
  \A t \in Turns : rows[t].filed /\ rows[t].issue # 0 =>
    /\ rows[t].issue = t
    /\ issues[t] = rows[t].flow

(* Effects happen in their order even when turns stop half-way: CS is only *)
(* paged about what is recorded, and the history only holds turns whose    *)
(* records and pages are all out.                                          *)
EffectsInOrder ==
  \A t \in Turns :
    /\ paged[t] = "verified bug" => rows[t].filed
    /\ paged[t] = "knowledge unresolved" => t \in missingRows \cap questions
    /\ saved[t] > 0 /\ rows[t].filed => paged[t] = "verified bug"
    /\ saved[t] > 0 /\ t \in missingRows => paged[t] = "knowledge unresolved"

(* One verification flow files one ticket and one backlog row.             *)
OneTicketPerFlow ==
  \A t, u \in Turns : t # u =>
    /\ issues[t] # 0 => issues[t] # issues[u]
    /\ rows[t].filed => rows[t].flow # rows[u].flow

(* A contact lands on the ticket of the handoff it answers: no handoff     *)
(* came between the one that filed the row and the turn that left it.      *)
ContactAnswersLatestHandoff ==
  \A b \in Turns : LET u == rows[b].contact IN
    u # 0 => /\ b < u
             /\ \A v \in Turns : b < v /\ v < u => paged[v] = "none"
             /\ notes[b] # 0 => notes[b] = u

(* An admitted turn that does not itself fail gets its reply: whatever the *)
(* agents report and whatever became of the others, the routing loop ends  *)
(* and both messages reach the history.                                    *)
TurnIsAnswered ==
  \A t \in Turns : pc[t] = "loaded" ~> (pc[t] = "done" /\ saved[t] = 2) \/ pc[t] = "failed"
=============================================================================
