--------------------------- MODULE SessionHistory ---------------------------
(***************************************************************************)
(* Coordinator, with the session each turn read kept in a history          *)
(* variable, implements SessionFlow: a turn takes many steps, on its own   *)
(* copy, while others save theirs, and still acts as one.                  *)
(***************************************************************************)
EXTENDS Coordinator

VARIABLE opened   \* the session a turn has read, until it saves its own

(* The locations of a turn that has read the session and not saved it.     *)
Unsaved == {"loaded", "route", "queue_question", "add_row", "hand_off", "contact_row",
            "contact_note", "screen", "save"}

(* Where the user is, of what the session holds: a gate's ticket is left   *)
(* out, and the context is the flow it is about.                           *)
StageOf(pending) ==
  CASE pending = "none"              -> "open"
    [] pending = "knowledge_clarify" -> "clarify"
    [] pending = "verify_issue"      -> "verify"
    [] pending = "collect_contact"   -> "contact"

Where(s) ==
  [ stage   |-> StageOf(s.pending),
    flow    |-> FlowOf(s.context),
    asked   |-> s.clarifyCount,
    spent   |-> s.verifyTurns,
    cleared |-> s.userErrorSeen ]

HistoryInit == Init /\ opened = [t \in Turns |-> Where(FreshSession)]

HistoryNext ==
  \/ \E t \in Turns :
       \/ BeginTurn(t) /\ opened' = [opened EXCEPT ![t] = Where(session)]
       \/ pc[t] # "save" /\ TurnStep(t) /\ UNCHANGED opened
       \/ (SaveSession(t) \/ Fail(t)) /\ opened' = [opened EXCEPT ![t] = Where(FreshSession)]
  \/ ExpireSession /\ UNCHANGED opened

HistorySpec == HistoryInit /\ [][HistoryNext]_<<vars, opened>>

Flow == INSTANCE SessionFlow WITH
  Messages  <- Turns,
  NoMessage <- 0,
  session   <- Where(session),
  unread    <- {t \in Turns : pc[t] = "idle"},
  underway  <- {t \in Turns : pc[t] \in Unsaved},
  taken     <- opened

(* However turns overlap, fail and expire, what is stored is what one      *)
(* message makes of the session it was read with (_route, _finish).        *)
TurnsActWhole == Flow!Spec
=============================================================================
