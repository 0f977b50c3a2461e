------------------------- MODULE ConversationStore -------------------------
(***************************************************************************)
(* stores/conversation_store.py: the conversations of one customer in      *)
(* DynamoDB, the turns that write them and an admin who pages through the  *)
(* list.                                                                   *)
(*                                                                         *)
(* append and set_contact load the item, change their copy and put the     *)
(* whole of it back, with an await in between: two steps here.  A turn     *)
(* writes its contact if it brings one, saves the session, appends the     *)
(* user's message and then the reply (coordinator.py, _attach_contact and  *)
(* _finish); it may stop before each step.  A message is the turn it       *)
(* belongs to, who wrote it and when; a contact is the turn that left it.  *)
(* Timestamps are ticks of one clock, 0 a null.                            *)
(***************************************************************************)
EXTENDS Integers, Sequences, FiniteSets

CONSTANTS
  Conversations,
  MaxTurns,     \* turns posted, over all conversations
  MaxInFlight,  \* turns handled at once
  PageSize,     \* the limit of one page of the list
  StaleReads    \* whether get_item, sent without ConsistentRead, may lag

ASSUME StoreConstants ==
  /\ MaxTurns \in Nat
  /\ MaxInFlight \in Nat \ {0}
  /\ PageSize \in Nat \ {0}
  /\ StaleReads \in BOOLEAN

Turns    == 1 .. MaxTurns
TurnId   == 0 .. MaxTurns
Messages == [turn : Turns, by : {"user", "reply"}, ts : Nat]
Rows     == [turns : Seq(Messages), contact : TurnId, count : Nat, updatedAt : Nat]

\* Conversation(customer_id=""): what load returns when there is no item.
NoRow == [turns |-> <<>>, contact |-> 0, count |-> 0, updatedAt |-> 0]

VARIABLES
  row,         \* row[c]: the item of conversation c
  previous,    \* previous[c]: the item before its last put, when reads may lag
  gate,        \* gate[c]: the session asks for a contact
  pc,          \* where each turn is
  conv,        \* the conversation each turn belongs to
  copy,        \* the item each turn loaded last
  at,          \* the timestamp of the message each turn appends next
  clock,
  accepted,    \* accepted[c]: the messages and the contact whose put succeeded
  overlapped,  \* conversations in which two turns ran at once
  list         \* the admin's list: what it shows, its cursor, what moved since

items == <<row, previous, gate, accepted>>
turns == <<pc, conv, copy, at, clock, overlapped>>
vars  == <<items, turns, list>>

Locations ==
  {"idle", "contact_load", "contact_put", "save", "user_load", "user_put",
   "reply_load", "reply_put", "done", "stopped"}
InFlight == {t \in Turns : pc[t] \notin {"idle", "done", "stopped"}}

NoList == [state |-> "closed", shown |-> [c \in Conversations |-> 0],
           cursor |-> 0, first |-> {}, moved |-> {}]
Lists  == [state : {"closed", "more", "end"}, shown : [Conversations -> Nat],
           cursor : Nat, first : SUBSET Conversations, moved : SUBSET Conversations]

TypeOK ==
  /\ row \in [Conversations -> Rows]
  /\ previous \in [Conversations -> Rows]
  /\ gate \in [Conversations -> BOOLEAN]
  /\ pc \in [Turns -> Locations]
  /\ conv \in [Turns -> Conversations]
  /\ copy \in [Turns -> Rows]
  /\ at \in [Turns -> Nat]
  /\ clock \in Nat
  /\ accepted \in [Conversations -> [turns : Seq(Messages), contact : TurnId]]
  /\ overlapped \in SUBSET Conversations
  /\ list \in Lists

Init ==
  /\ row = [c \in Conversations |-> NoRow]
  /\ previous = row
  /\ gate = [c \in Conversations |-> FALSE]
  /\ pc = [t \in Turns |-> "idle"]
  /\ conv \in [Turns -> Conversations]
  /\ copy = [t \in Turns |-> NoRow]
  /\ at = [t \in Turns |-> 0]
  /\ clock = 0
  /\ accepted = [c \in Conversations |-> [turns |-> <<>>, contact |-> 0]]
  /\ overlapped = {}
  /\ list = NoList

-----------------------------------------------------------------------------
(* One turn.                                                               *)

\* A message that answers an armed gate carries a contact or not.
BeginTurn(t) ==
  /\ pc[t] = "idle"
  /\ \A u \in Turns : u < t => pc[u] # "idle"
  /\ Cardinality(InFlight) < MaxInFlight
  /\ \E first \in {"save"} \cup (IF gate[conv[t]] THEN {"contact_load"} ELSE {}) :
       pc' = [pc EXCEPT ![t] = first]
  /\ overlapped' = IF \E u \in InFlight : conv[u] = conv[t]
                   THEN overlapped \cup {conv[t]} ELSE overlapped
  /\ UNCHANGED <<items, conv, copy, at, clock, list>>

Readable(c) == IF StaleReads THEN {row[c], previous[c]} ELSE {row[c]}

Load(t, from, to) ==
  /\ pc[t] = from
  /\ \E item \in Readable(conv[t]) : copy' = [copy EXCEPT ![t] = item]
  /\ pc' = [pc EXCEPT ![t] = to]
  /\ UNCHANGED <<items, conv, at, clock, overlapped, list>>

\* put_item; the conversation moves in the by-customer index when updated_at does.
PutItem(c, item) ==
  /\ row' = [row EXCEPT ![c] = item]
  /\ previous' = IF StaleReads THEN [previous EXCEPT ![c] = row[c]] ELSE previous
  /\ list' = IF item.updatedAt # row[c].updatedAt
             THEN [list EXCEPT !.moved = @ \cup {c}] ELSE list

\* Mutant: the contact is stored with the time it was left.
PutContactTime(t) ==
  LET c    == conv[t]
      item == [copy[t] EXCEPT !.contact = clock]
  IN /\ pc[t] = "contact_put"
     /\ pc' = [pc EXCEPT ![t] = "save"]
     /\ copy' = [copy EXCEPT ![t] = NoRow]
     /\ PutItem(c, item)
     /\ accepted' = [accepted EXCEPT ![c].contact = clock]
     /\ UNCHANGED <<gate, conv, at, clock, overlapped>>

\* set_contact leaves the summary as it was loaded: for a conversation with no
\* item updated_at is null, DynamoDB refuses the put, and _attach_contact only
\* logs it.
PutContact(t) ==
  LET c    == conv[t]
      item == [copy[t] EXCEPT !.contact = t]
  IN /\ pc[t] = "contact_put"
     /\ pc' = [pc EXCEPT ![t] = "save"]
     /\ copy' = [copy EXCEPT ![t] = NoRow]
     /\ IF item.updatedAt = 0
        THEN UNCHANGED <<row, previous, list, accepted>>
        ELSE /\ PutItem(c, item)
             /\ accepted' = [accepted EXCEPT ![c].contact = t]
     /\ UNCHANGED <<gate, conv, at, clock, overlapped>>

\* The session is saved, gate armed or not, and the user's message is built.
SaveSession(t) ==
  /\ pc[t] = "save"
  /\ \E armed \in BOOLEAN : gate' = [gate EXCEPT ![conv[t]] = armed]
  /\ clock' = clock + 1
  /\ at' = [at EXCEPT ![t] = clock + 1]
  /\ pc' = [pc EXCEPT ![t] = "user_load"]
  /\ UNCHANGED <<row, previous, accepted, conv, copy, overlapped, list>>

\* Mutant: updated_at is only set once.
RefreshedOnce(item) ==
  LET n == Len(item.turns)
  IN [item EXCEPT !.count = n, !.updatedAt = IF @ = 0 THEN item.turns[n].ts ELSE @]

Refreshed(item) ==
  LET n == Len(item.turns)
  IN [item EXCEPT !.count = n, !.updatedAt = item.turns[n].ts]

\* Mutant: the newest message goes first.
WithMessageFirst(item, message) == Refreshed([item EXCEPT !.turns = <<message>> \o @])

\* Mutant: append builds the conversation again and forgets the contact.
WithMessageNew(item, message) == Refreshed([NoRow EXCEPT !.turns = Append(item.turns, message)])

WithMessage(item, message) == Refreshed([item EXCEPT !.turns = Append(@, message)])

AppendPut(t, by) ==
  LET c       == conv[t]
      message == [turn |-> t, by |-> by, ts |-> at[t]]
  IN /\ PutItem(c, WithMessage(copy[t], message))
     /\ accepted' = [accepted EXCEPT ![c].turns = Append(accepted[c].turns, message)]
     /\ copy' = [copy EXCEPT ![t] = NoRow]

\* The reply is built as soon as the user's message is stored.
PutUser(t) ==
  /\ pc[t] = "user_put"
  /\ AppendPut(t, "user")
  /\ clock' = clock + 1
  /\ at' = [at EXCEPT ![t] = clock + 1]
  /\ pc' = [pc EXCEPT ![t] = "reply_load"]
  /\ UNCHANGED <<gate, conv, overlapped>>

PutReply(t) ==
  /\ pc[t] = "reply_put"
  /\ AppendPut(t, "reply")
  /\ pc' = [pc EXCEPT ![t] = "done"]
  /\ at' = [at EXCEPT ![t] = 0]
  /\ UNCHANGED <<gate, conv, clock, overlapped>>

\* An exception or the death of the process.
Stop(t) ==
  /\ t \in InFlight
  /\ pc' = [pc EXCEPT ![t] = "stopped"]
  /\ copy' = [copy EXCEPT ![t] = NoRow]
  /\ at' = [at EXCEPT ![t] = 0]
  /\ UNCHANGED <<items, conv, clock, overlapped, list>>

-----------------------------------------------------------------------------
(* The admin's list: pages by updated_at, newest first, each from where    *)
(* the last one ended.  A conversation without a row is not in the index.  *)

Indexed == {c \in Conversations : row[c].updatedAt > 0}

\* Mutant: a page starts with the conversation the last one ended with.
BelowInclusive(cursor) == {c \in Indexed : cursor = 0 \/ row[c].updatedAt <= cursor}

Below(cursor) == {c \in Indexed : cursor = 0 \/ row[c].updatedAt < cursor}

PageOf(rest) ==
  {c \in rest : Cardinality({d \in rest : row[d].updatedAt > row[c].updatedAt}) < PageSize}

Oldest(page) == {c \in page : \A d \in page : row[c].updatedAt <= row[d].updatedAt}

\* Mutant: a page that is just full ends the list.
CursorAfterFullPage(page) ==
  IF Cardinality(page) <= PageSize THEN {0} ELSE {row[c].updatedAt : c \in Oldest(page)}

\* DynamoDB gives a LastEvaluatedKey when the limit was reached.
CursorAfter(page) ==
  IF Cardinality(page) < PageSize THEN {0} ELSE {row[c].updatedAt : c \in Oldest(page)}

ShowPage(from) ==
  LET page == PageOf(Below(from.cursor))
  IN \E next \in CursorAfter(page) :
       list' = [from EXCEPT !.shown  = [c \in Conversations |->
                                          from.shown[c] + IF c \in page THEN 1 ELSE 0],
                            !.cursor = next,
                            !.state  = IF next = 0 THEN "end" ELSE "more"]

OpenList ==
  /\ list.state = "closed"
  /\ ShowPage([NoList EXCEPT !.first = Indexed])
  /\ UNCHANGED <<items, turns>>

NextPage ==
  /\ list.state = "more"
  /\ ShowPage(list)
  /\ UNCHANGED <<items, turns>>

-----------------------------------------------------------------------------
Next ==
  \/ \E t \in Turns :
       \/ BeginTurn(t)
       \/ Load(t, "contact_load", "contact_put")
       \/ PutContact(t)
       \/ SaveSession(t)
       \/ Load(t, "user_load", "user_put")
       \/ PutUser(t)
       \/ Load(t, "reply_load", "reply_put")
       \/ PutReply(t)
       \/ Stop(t)
  \/ OpenList
  \/ NextPage

Spec == Init /\ [][Next]_vars

-----------------------------------------------------------------------------
(* Correctness.                                                            *)

\* The row holds what its puts stored: each message once, in order, and the
\* last contact (append, set_contact).
RowIsWhole(c) ==
  /\ row[c].turns = accepted[c].turns
  /\ row[c].contact = accepted[c].contact

\* A conversation whose turns never ran at once loses no message and no contact
\* that was stored, whatever stops half-way and whatever other conversations do.
SoleTurnsLoseNothing == \A c \in Conversations : c \notin overlapped => RowIsWhole(c)

\* Even when turns overlap and overwrite each other, no message is in the history
\* twice, and no reply stands before the message it answers.
QuestionBeforeReply ==
  \A c \in Conversations : \A i, j \in DOMAIN row[c].turns :
    (i < j /\ row[c].turns[i].turn = row[c].turns[j].turn)
      => row[c].turns[i].by = "user" /\ row[c].turns[j].by = "reply"

\* The summary the list shows is that of the history stored with it, and a row
\* that exists is in the index (refresh_summary, put).
SummaryIsCurrent ==
  \A c \in Conversations :
    LET n == Len(row[c].turns)
    IN /\ row[c].count = n
       /\ row[c].updatedAt = IF n = 0 THEN 0 ELSE row[c].turns[n].ts
       /\ row[c].contact # 0 => n > 0

\* Paging to the end shows each conversation that was there and did not move
\* exactly once, however the others move between two pages (list_by_customer).
UnmovedIsListedOnce ==
  list.state = "end" => \A c \in list.first \ list.moved : list.shown[c] = 1

\* A conversation is listed twice only if its updated_at went back, which takes
\* two of its turns at once.
ListedTwiceOnlyAfterOverlap ==
  \A c \in Conversations : list.shown[c] > 1 => c \in overlapped
=============================================================================
