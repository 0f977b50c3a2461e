---------------------------- MODULE SessionFlow ----------------------------
(***************************************************************************)
(* Where a user is with the assistant, and what one message may make of    *)
(* that: the promise of agents/coordinator.py about the session, with the  *)
(* agents, the hops and the stores left out.  A message is taken with the  *)
(* session as it then stands, and what is stored in the end is what that   *)
(* one message makes of that one session: all of it, or nothing.           *)
(***************************************************************************)
EXTENDS Naturals

CONSTANTS Messages, NoMessage, MaxClarify, MaxVerifyTurns

VARIABLES
  session,   \* where the user is
  unread,    \* the messages still to come
  underway,  \* those that are being handled
  taken      \* the session each of these was taken with

vars == <<session, unread, underway, taken>>

(* A user is in no flow, was asked to clarify, is being asked for the      *)
(* evidence of a bug, or was handed off and may leave a contact.           *)
Stages == {"open", "clarify", "verify", "contact"}

Sessions ==
  [ stage   : Stages,
    flow    : Messages \cup {NoMessage},  \* the message the collection began with
    asked   : Nat,                        \* clarifying questions
    spent   : Nat,                        \* turns of the collection
    cleared : BOOLEAN ]                   \* once told that it is not a bug

Fresh == [stage |-> "open", flow |-> NoMessage, asked |-> 0, spent |-> 0, cleared |-> FALSE]

-----------------------------------------------------------------------------
(* What a message makes of a session.                                      *)

Idle(s)      == [s EXCEPT !.stage = "open", !.flow = NoMessage, !.spent = 0]
Explained(s) == [Idle(s) EXCEPT !.cleared = TRUE]

(* The contact gate is taken down by the next message; a flow stays open,  *)
(* or is walked away from, and the questions asked in it are forgotten.    *)
Begun(s) ==
  IF s.stage \in {"verify", "clarify"} THEN {s, [Idle(s) EXCEPT !.asked = 0]} ELSE {Idle(s)}

(* A collection goes on below its cap.  It begins with a report of a bug,  *)
(* or with the suspicion of one, unless the user was told it is none.      *)
MayVerify(s) ==
  IF s.stage = "verify" THEN s.spent < MaxVerifyTurns ELSE s.stage = "open" \/ ~ s.cleared

Collecting(s, m) ==
  IF s.stage = "verify" THEN [s EXCEPT !.spent = @ + 1]
  ELSE [Idle(s) EXCEPT !.stage = "verify", !.flow = m, !.spent = 1]

(* Answered: a collection is only left so when the verdict is no bug.      *)
Settled(s) ==
  (IF s.stage = "verify" THEN {} ELSE {Idle(s)}) \cup
  (IF MayVerify(s) THEN {Explained(s)} ELSE {})

(* The last question allowed is not put: it hands the user off.            *)
Asking(s) == [s EXCEPT !.stage = "clarify", !.asked = @ + 1]

Questions(s) == {r \in Settled(s) : r.asked + 1 < MaxClarify}
GivenUp(s)   == {r \in Settled(s) : r.asked + 1 = MaxClarify}

Gated(s) == [s EXCEPT !.stage = "contact"]

HandedOff(s) ==
  {Gated(r) : r \in Settled(s) \cup {Idle(s)}} \cup {Gated(Asking(r)) : r \in GivenUp(s)}

Routed(s, m) ==
  Settled(s) \cup {Asking(r) : r \in Questions(s)} \cup HandedOff(s)
    \cup (IF MayVerify(s) THEN {Collecting(s, m)} ELSE {})

(* A refused message leaves the session as it is.                          *)
Outcomes(s, m) == {s} \cup UNION {Routed(b, m) : b \in Begun(s)}

-----------------------------------------------------------------------------

Init ==
  /\ session = Fresh
  /\ unread = Messages /\ underway = {}
  /\ taken = [m \in Messages |-> Fresh]

Take(m) ==
  /\ unread' = unread \ {m} /\ underway' = underway \cup {m}
  /\ taken' = [taken EXCEPT ![m] = session]
  /\ UNCHANGED session

Leave(m) ==
  /\ underway' = underway \ {m}
  /\ taken' = [taken EXCEPT ![m] = Fresh]
  /\ UNCHANGED unread

Store(m) == Leave(m) /\ session' \in Outcomes(taken[m], m)

(* A message that fails half-way has made nothing of the session.          *)
Drop(m) == Leave(m) /\ UNCHANGED session

Expire == session' = Fresh /\ UNCHANGED <<unread, underway, taken>>

Next ==
  \/ \E m \in unread : Take(m)
  \/ \E m \in underway : Store(m) \/ Drop(m)
  \/ Expire

Spec == Init /\ [][Next]_vars
=============================================================================
