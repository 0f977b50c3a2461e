-------------------------- MODULE QALearningProofs --------------------------
(***************************************************************************)
(* Theorems about QALearning, for any messages, any number of records and  *)
(* of requests, and any number of them in flight.                          *)
(***************************************************************************)
EXTENDS QALearning, FiniteSetTheorems, TLAPS

-----------------------------------------------------------------------------
(* Type correctness.                                                       *)
LEMMA InitTyped == Init => TypeOK
BY QAConstants DEF Init, TypeOK, Locations

LEMMA NumbersTyped ==
  /\ MaxRecords \in Nat /\ MaxRequests \in Nat
  /\ 0 \in Versions /\ 0 \notin Ids /\ 0 \notin Requests
  /\ Requests \subseteq Versions
BY QAConstants DEF Versions, Ids, Requests

LEMMA StoredIsRecord ==
  ASSUME TypeOK, NEW id \in Stored
  PROVE  store[id] \in Records
BY DEF TypeOK, Stored

LEMMA NoRecordIsNone == NoRecord \notin Records
BY DEF Records, NoRecord, Statuses

LEMMA EditTyped ==
  ASSUME NEW item \in Records, NEW question \in Versions, NEW answer \in Versions
  PROVE  [item EXCEPT !.text = [question |-> question, answer |-> answer]] \in Records
BY DEF Records, Texts

LEMMA DecisionTyped ==
  ASSUME NEW item \in Records, NEW status \in Statuses
  PROVE  [item EXCEPT !.status = status] \in Records
BY DEF Records

LEMMA RequeuedIs ==
  ASSUME NEW item \in Records
  PROVE  /\ [item EXCEPT !.text.question = 0] \in Records
         /\ [item EXCEPT !.text.question = 0].status = item.status
         /\ [item EXCEPT !.text.question = 0].message = item.message
         /\ [item EXCEPT !.text.question = 0].text.answer = item.text.answer
         /\ [item EXCEPT !.text.question = 0].text.question = 0
<1>1. 0 \in Versions BY NumbersTyped
<1>2. QED BY <1>1 DEF Records, Texts

LEMMA NewRecordTyped ==
  ASSUME NEW answer \in Versions, NEW message \in Messages \cup {NoMessage}
  PROVE  [status |-> "pending", text |-> [question |-> 0, answer |-> answer],
          message |-> message] \in Records
BY NumbersTyped DEF Records, Texts, Statuses

\* Leaving forgets the request's copy, taking a record fills it in.
LEMMA LeaveTyped ==
  ASSUME TypeOK, NEW q \in Requests, NEW location \in Locations, Leave(q, location)
  PROVE  /\ pc' \in [Requests -> Locations]
         /\ target' \in [Requests -> Ids \cup {0}]
         /\ copy' \in [Requests -> Records \cup {NoRecord}]
         /\ subject' \in [Requests -> Messages \cup {NoMessage}]
BY DEF TypeOK, Leave, Goto

LEMMA TakeTyped ==
  ASSUME TypeOK, NEW q \in Requests, NEW location \in Locations, NEW id \in Ids,
         NEW item, NEW changed \in Records, Take(q, id, item, changed, location)
  PROVE  /\ pc' \in [Requests -> Locations]
         /\ target' \in [Requests -> Ids \cup {0}]
         /\ copy' \in [Requests -> Records \cup {NoRecord}]
         /\ alone' \subseteq Requests
BY DEF TypeOK, Take, Goto

LEMMA ReleaseTyped ==
  ASSUME TypeOK, NEW q \in Requests, NEW published \in BOOLEAN,
         target[q] \in Ids, Release(q, published)
  PROVE  alone' \subseteq Requests /\ suspect' \subseteq Ids
BY DEF TypeOK, Release

-----------------------------------------------------------------------------
(* What a request holds: a stored record and its copy, about the same      *)
(* message; a vote its message; a request that is alone, a record nobody   *)
(* else holds.  What a read may return of a record is about its message    *)
(* too.                                                                    *)
Holding == {"edit_put", "edit_upsert", "approve_upsert", "approve_put", "reject_put",
            "archive_delete", "archive_put", "requeue_put"}
Voting == {"find", "requeue_put", "queue_add"}

HoldsIts(q) ==
  /\ pc[q] \in Holding <=> target[q] # 0
  /\ pc[q] \in Voting <=> subject[q] # NoMessage
  /\ target[q] # 0 =>
       /\ target[q] \in Stored
       /\ copy[q] \in Records
       /\ copy[q].message = store[target[q]].message
  /\ q \in alone =>
       /\ target[q] # 0
       /\ \A p \in Requests : target[p] = target[q] => p = q

ServedFits ==
  \A id \in Ids : \A item \in served[id] :
    item # NoRecord => id \in Stored /\ item.message = store[id].message

Held == ServedFits /\ \A q \in Requests : HoldsIts(q)

Step(q) ==
  \/ Create(q)
  \/ BeginEdit(q)    \/ PutEdit(q)        \/ UpsertEdit(q)
  \/ BeginApprove(q) \/ UpsertApproved(q) \/ PutApproved(q)
  \/ BeginReject(q)  \/ PutRejected(q)
  \/ BeginArchive(q) \/ DeletePoint(q)    \/ PutArchived(q)
  \/ Vote(q)
  \/ BeginDislike(q) \/ FindRecord(q)     \/ PutRequeued(q) \/ QueueRecord(q)
  \/ Stop(q)

LEMMA NextIsStep == Next => (\E q \in Requests : Step(q)) \/ \E id \in Ids : CatchUp(id)
BY DEF Next, Step

LEMMA HeldCopy ==
  ASSUME TypeOK, Held, NEW q \in Requests, pc[q] \in Holding
  PROVE  target[q] \in Ids /\ copy[q] \in Records /\ target[q] \in Stored
BY DEF Held, HoldsIts, Stored

-----------------------------------------------------------------------------
(* The steps that read a record, and those that write one.                 *)
Begins(q) ==
  BeginEdit(q) \/ BeginApprove(q) \/ BeginReject(q) \/ BeginArchive(q) \/ FindRecord(q)

\* What a request makes of the item it read before it goes where it goes.
Fits(item, changed, location) ==
  \/ location = "edit_put" /\ changed.status = item.status
  \/ location = "approve_upsert" /\ changed = item
  \/ location = "reject_put" /\ changed.text = item.text /\ changed.status = "rejected"
  \/ location = "archive_delete" /\ changed.text = item.text /\ changed.status = "archived"
  \/ /\ location = "requeue_put" /\ changed.status = item.status
     /\ changed.text.answer = item.text.answer /\ changed.text.question = 0

Taken(q) ==
  \E id \in Stored, item \in Records, changed \in Records, location \in Holding :
    /\ Take(q, id, item, changed, location)
    /\ Fits(item, changed, location)
    /\ changed.message = store[id].message
    /\ location = "requeue_put" <=> FindRecord(q)
    /\ FindRecord(q) => store[id].message = subject[q]

LEMMA ServedIsRecord ==
  ASSUME TypeOK, Held, NEW id \in Ids, NEW item \in served[id], item # NoRecord
  PROVE  item \in Records /\ id \in Stored /\ item.message = store[id].message
BY DEF TypeOK, Held, ServedFits

LEMMA BeginSteps ==
  ASSUME TypeOK, Held, NEW q \in Requests, Begins(q)
  PROVE  /\ UNCHANGED <<durable, subject, suspect, disliked>>
         /\ raced \subseteq raced' /\ raced' \subseteq Messages
         /\ pc[q] = IF FindRecord(q) THEN "find" ELSE "idle"
         /\ \/ /\ Goto(q, IF FindRecord(q) THEN "queue_add" ELSE "done")
               /\ UNCHANGED <<target, copy, alone>>
            \/ Taken(q)
<1> USE NumbersTyped
<1>f. pc[q] = "idle" => ~FindRecord(q) BY DEF FindRecord
<1>s. Stored \subseteq Ids BY DEF Stored
<1>1. CASE BeginEdit(q)
  <2>1. PICK id \in Stored : \E item \in served[id] :
          IF item = NoRecord THEN Refuse(q)
          ELSE \E question \in {item.text.question, q}, answer \in {item.text.answer, q, 0} :
                 Take(q, id, item,
                      [item EXCEPT !.text = [question |-> question, answer |-> answer]], "edit_put")
    BY <1>1 DEF BeginEdit
  <2>2. PICK item \in served[id] :
          IF item = NoRecord THEN Refuse(q)
          ELSE \E question \in {item.text.question, q}, answer \in {item.text.answer, q, 0} :
                 Take(q, id, item,
                      [item EXCEPT !.text = [question |-> question, answer |-> answer]], "edit_put")
    BY <2>1
  <2>3. pc[q] = "idle" /\ UNCHANGED <<durable, subject, suspect, disliked, raced>>
    BY <1>1 DEF BeginEdit, MayBegin
  <2>4. CASE item = NoRecord
    BY <1>f, <2>2, <2>3, <2>4 DEF Refuse, TypeOK
  <2>5. CASE item # NoRecord
    <3>1. item \in Records /\ item.message = store[id].message BY <1>s, <2>5, ServedIsRecord
    <3>2. item.text.question \in Versions /\ item.text.answer \in Versions /\ q \in Versions
      BY <3>1 DEF Records, Texts
    <3>3. PICK question \in Versions, answer \in Versions :
            Take(q, id, item,
                 [item EXCEPT !.text = [question |-> question, answer |-> answer]], "edit_put")
      BY <2>2, <2>5, <3>2
    <3>4. PICK changed \in Records :
            changed = [item EXCEPT !.text = [question |-> question, answer |-> answer]]
      BY <3>1, EditTyped
    <3>5. changed.status = item.status /\ changed.message = item.message
      BY <3>1, <3>4 DEF Records
    <3>6. Taken(q) BY <1>f, <2>3, <3>1, <3>3, <3>4, <3>5 DEF Taken, Fits, Holding
    <3>7. QED BY <1>f, <2>3, <3>6 DEF TypeOK
  <2>6. QED BY <2>4, <2>5
<1>2. CASE BeginApprove(q)
  <2>1. PICK id \in Stored : \E item \in served[id] :
          IF item = NoRecord \/ item.text.answer = 0 THEN Refuse(q)
          ELSE Take(q, id, item, item, "approve_upsert")
    BY <1>2 DEF BeginApprove
  <2>2. PICK item \in served[id] :
          IF item = NoRecord \/ item.text.answer = 0 THEN Refuse(q)
          ELSE Take(q, id, item, item, "approve_upsert")
    BY <2>1
  <2>3. pc[q] = "idle" /\ UNCHANGED <<durable, subject, suspect, disliked, raced>>
    BY <1>2 DEF BeginApprove, MayBegin
  <2>4. CASE item = NoRecord \/ item.text.answer = 0
    BY <1>f, <2>2, <2>3, <2>4 DEF Refuse, TypeOK
  <2>5. CASE ~(item = NoRecord \/ item.text.answer = 0)
    <3>1. item \in Records /\ item.message = store[id].message BY <1>s, <2>5, ServedIsRecord
    <3>2. Taken(q) BY <1>f, <2>2, <2>3, <2>5, <3>1 DEF Taken, Fits, Holding
    <3>3. QED BY <1>f, <2>3, <3>2 DEF TypeOK
  <2>6. QED BY <2>4, <2>5
<1>3. CASE BeginReject(q)
  <2>1. PICK id \in Stored : \E item \in served[id] :
          IF item = NoRecord THEN Refuse(q)
          ELSE Take(q, id, item, [item EXCEPT !.status = "rejected"], "reject_put")
    BY <1>3 DEF BeginReject
  <2>2. PICK item \in served[id] :
          IF item = NoRecord THEN Refuse(q)
          ELSE Take(q, id, item, [item EXCEPT !.status = "rejected"], "reject_put")
    BY <2>1
  <2>3. pc[q] = "idle" /\ UNCHANGED <<durable, subject, suspect, disliked, raced>>
    BY <1>3 DEF BeginReject, MayBegin
  <2>4. CASE item = NoRecord BY <1>f, <2>2, <2>3, <2>4 DEF Refuse, TypeOK
  <2>5. CASE item # NoRecord
    <3>1. item \in Records /\ item.message = store[id].message BY <1>s, <2>5, ServedIsRecord
    <3>2. PICK changed \in Records : changed = [item EXCEPT !.status = "rejected"]
      BY <3>1, DecisionTyped DEF Statuses
    <3>3. /\ changed.status = "rejected" /\ changed.text = item.text
          /\ changed.message = item.message
      BY <3>1, <3>2 DEF Records
    <3>4. Taken(q) BY <1>f, <2>2, <2>3, <2>5, <3>1, <3>2, <3>3 DEF Taken, Fits, Holding
    <3>5. QED BY <1>f, <2>3, <3>4 DEF TypeOK
  <2>6. QED BY <2>4, <2>5
<1>4. CASE BeginArchive(q)
  <2>1. PICK id \in Stored : \E item \in served[id] :
          IF item = NoRecord THEN Refuse(q)
          ELSE Take(q, id, item, [item EXCEPT !.status = "archived"], "archive_delete")
    BY <1>4 DEF BeginArchive
  <2>2. PICK item \in served[id] :
          IF item = NoRecord THEN Refuse(q)
          ELSE Take(q, id, item, [item EXCEPT !.status = "archived"], "archive_delete")
    BY <2>1
  <2>3. pc[q] = "idle" /\ UNCHANGED <<durable, subject, suspect, disliked, raced>>
    BY <1>4 DEF BeginArchive, MayBegin
  <2>4. CASE item = NoRecord BY <1>f, <2>2, <2>3, <2>4 DEF Refuse, TypeOK
  <2>5. CASE item # NoRecord
    <3>1. item \in Records /\ item.message = store[id].message BY <1>s, <2>5, ServedIsRecord
    <3>2. PICK changed \in Records : changed = [item EXCEPT !.status = "archived"]
      BY <3>1, DecisionTyped DEF Statuses
    <3>3. /\ changed.status = "archived" /\ changed.text = item.text
          /\ changed.message = item.message
      BY <3>1, <3>2 DEF Records
    <3>4. Taken(q) BY <1>f, <2>2, <2>3, <2>5, <3>1, <3>2, <3>3 DEF Taken, Fits, Holding
    <3>5. QED BY <1>f, <2>3, <3>4 DEF TypeOK
  <2>6. QED BY <2>4, <2>5
<1>5. CASE FindRecord(q)
  <2>1. pc[q] = "find" /\ UNCHANGED <<durable, subject, suspect, disliked>>
    BY <1>5 DEF FindRecord
  <2>2. subject[q] \in Messages BY <2>1 DEF Held, HoldsIts, Voting, TypeOK
  <2>3. PICK page \in Pages(subject[q]) :
          /\ \E id \in Finds(page) :
               IF id = 0 THEN Goto(q, "queue_add") /\ UNCHANGED <<target, copy, alone>>
               ELSE Take(q, id, page[id], [page[id] EXCEPT !.text.question = 0], "requeue_put")
          /\ raced' = IF \E id \in About(subject[q]) : page[id] = NoRecord
                      THEN raced \cup {subject[q]} ELSE raced
    BY <1>5 DEF FindRecord
  <2>4. raced \subseteq raced' /\ raced' \subseteq Messages BY <2>2, <2>3 DEF TypeOK
  <2>5. PICK id \in Finds(page) :
          IF id = 0 THEN Goto(q, "queue_add") /\ UNCHANGED <<target, copy, alone>>
          ELSE Take(q, id, page[id], [page[id] EXCEPT !.text.question = 0], "requeue_put")
    BY <2>3
  <2>6. CASE id = 0 BY <1>5, <2>1, <2>4, <2>5, <2>6
  <2>7. CASE id # 0
    <3>1. id \in About(subject[q]) /\ page[id] # NoRecord /\ page[id] \in served[id] \cup {NoRecord}
      BY <2>7 DEF Finds, Pages
    <3>2. id \in Stored /\ id \in Ids /\ store[id].message = subject[q] BY <1>s, <3>1 DEF About
    <3>3. PICK item \in served[id] : item = page[id] /\ item # NoRecord BY <3>1
    <3>4. item \in Records /\ item.message = store[id].message BY <3>2, <3>3, ServedIsRecord
    <3>5. PICK changed \in Records : changed = [item EXCEPT !.text.question = 0]
      BY <3>4, RequeuedIs
    <3>6. /\ changed.status = item.status /\ changed.message = item.message
          /\ changed.text.answer = item.text.answer /\ changed.text.question = 0
      BY <3>4, <3>5, RequeuedIs
    <3>7. Take(q, id, item, changed, "requeue_put") BY <2>5, <2>7, <3>3, <3>5
    <3>8. Taken(q) BY <1>5, <3>2, <3>4, <3>6, <3>7 DEF Taken, Fits, Holding
    <3>9. QED BY <1>5, <2>1, <2>4, <3>8
  <2>8. QED BY <2>6, <2>7
<1>6. QED BY <1>1, <1>2, <1>3, <1>4, <1>5 DEF Begins

LEMMA WriteSteps ==
  ASSUME TypeOK, Held, NEW q \in Requests, Step(q)
  PROVE  UNCHANGED table \/ \E id \in Ids, item \in Records : Put(id, item)
<1> USE NumbersTyped
<1>1. CASE Create(q)
  <2>1. PICK id \in Ids, answer \in {0, q} :
          Put(id, [status |-> "pending", text |-> [question |-> 0, answer |-> answer],
                   message |-> NoMessage])
    BY <1>1 DEF Create
  <2>2. answer \in Versions OBVIOUS
  <2>3. QED BY <2>1, <2>2, NewRecordTyped
<1>2. CASE QueueRecord(q)
  <2>1. PICK id \in Ids :
          Put(id, [status |-> "pending", text |-> [question |-> 0, answer |-> 0],
                   message |-> subject[q]])
    BY <1>2 DEF QueueRecord
  <2>2. subject[q] \in Messages \cup {NoMessage} BY DEF TypeOK
  <2>3. QED BY <2>1, <2>2, NewRecordTyped
<1>3. CASE PutApproved(q)
  <2>1. pc[q] \in Holding /\ "approved" \in Statuses
    BY <1>3 DEF PutApproved, Holding, Statuses
  <2>2. PICK item \in Records : item = [copy[q] EXCEPT !.status = "approved"]
    BY <2>1, HeldCopy, DecisionTyped
  <2>3. QED BY <1>3, <2>1, <2>2, HeldCopy DEF PutApproved
<1>4. CASE PutEdit(q) \/ PutRejected(q) \/ PutArchived(q) \/ PutRequeued(q)
  <2>1. pc[q] \in Holding /\ Put(target[q], copy[q])
    BY <1>4 DEF PutEdit, PutRejected, PutArchived, PutRequeued, Holding
  <2>2. QED BY <2>1, HeldCopy
<1>5. CASE Begins(q) BY <1>5, BeginSteps DEF durable
<1>6. CASE UpsertEdit(q) \/ UpsertApproved(q) \/ DeletePoint(q) \/ Vote(q) \/ BeginDislike(q) \/ Stop(q)
  BY <1>6 DEF UpsertEdit, UpsertApproved, DeletePoint, Vote, BeginDislike, Stop, durable
<1>7. QED BY <1>1, <1>2, <1>3, <1>4, <1>5, <1>6 DEF Step, Begins

LEMMA TableTyped ==
  ASSUME TypeOK, Held, NEW q \in Requests, Step(q)
  PROVE  /\ store' \in [Ids -> Records \cup {NoRecord}]
         /\ served' \in [Ids -> SUBSET (Records \cup {NoRecord})]
BY WriteSteps DEF TypeOK, table, Put

-----------------------------------------------------------------------------
LEMMA TypeStep == TypeOK /\ Held /\ [Next]_vars => TypeOK'
<1> SUFFICES ASSUME TypeOK, Held, [Next]_vars PROVE TypeOK'
  OBVIOUS
<1>u. CASE UNCHANGED vars BY <1>u DEF vars, durable, table, local, history, TypeOK
<1>k. ASSUME NEW id \in Ids, CatchUp(id) PROVE TypeOK'
  <2>1. served' \in [Ids -> SUBSET (Records \cup {NoRecord})] BY <1>k DEF CatchUp, TypeOK
  <2>2. QED BY <1>k, <2>1 DEF CatchUp, TypeOK, local, history
<1> SUFFICES ASSUME NEW q \in Requests, Step(q) PROVE TypeOK'
  BY <1>u, <1>k, NextIsStep
<1> USE NumbersTyped
<1>a. "done" \in Locations /\ "stopped" \in Locations BY DEF Locations
<1>w. /\ store' \in [Ids -> Records \cup {NoRecord}]
      /\ served' \in [Ids -> SUBSET (Records \cup {NoRecord})]
  BY TableTyped
<1>1. CASE Create(q) BY <1>1, <1>a, <1>w DEF Create, TypeOK, Goto, local, history
<1>2. CASE Begins(q)
  <2>1. UNCHANGED <<points, votes, subject, suspect, disliked>> /\ raced' \subseteq Messages
    BY <1>2, BeginSteps DEF durable
  <2>2. CASE Goto(q, IF FindRecord(q) THEN "queue_add" ELSE "done") /\ UNCHANGED <<target, copy, alone>>
    <3>1. PICK location \in Locations : Goto(q, location) BY <1>a, <2>2 DEF Locations
    <3>2. QED BY <1>w, <2>1, <2>2, <3>1 DEF TypeOK, Goto
  <2>3. CASE Taken(q)
    <3>1. PICK id \in Stored, item \in Records, changed \in Records, location \in Holding :
            Take(q, id, item, changed, location)
      BY <2>3 DEF Taken
    <3>2. id \in Ids /\ location \in Locations BY DEF Stored, Holding, Locations
    <3>3. QED BY <1>w, <2>1, <3>1, <3>2, TakeTyped DEF TypeOK
  <2>4. QED BY <1>2, <2>2, <2>3, BeginSteps
<1>3. CASE PutEdit(q)
  <2>1. pc[q] \in Holding BY <1>3 DEF PutEdit, Holding
  <2>2. CASE copy[q].status = "approved"
    <3>1. "edit_upsert" \in Locations BY DEF Locations
    <3>2. QED BY <1>3, <1>w, <2>2, <3>1 DEF PutEdit, TypeOK, Goto, local
  <2>3. CASE copy[q].status # "approved"
    BY <1>3, <1>a, <1>w, <2>1, <2>3, HeldCopy, LeaveTyped, ReleaseTyped DEF PutEdit, TypeOK
  <2>4. QED BY <2>2, <2>3
<1>4. CASE UpsertEdit(q)
  <2>1. pc[q] \in Holding BY <1>4 DEF UpsertEdit, Holding
  <2>2. copy[q].text \in Texts /\ target[q] \in Ids BY <2>1, HeldCopy DEF Records
  <2>3. points' \in [Ids -> Texts \cup {NoPoint}] BY <1>4, <2>2 DEF UpsertEdit, TypeOK
  <2>4. QED BY <1>4, <1>a, <1>w, <2>2, <2>3, LeaveTyped, ReleaseTyped DEF UpsertEdit, TypeOK
<1>6. CASE UpsertApproved(q)
  <2>1. pc[q] \in Holding /\ "approve_put" \in Locations
    BY <1>6 DEF UpsertApproved, Holding, Locations
  <2>2. copy[q].text \in Texts /\ target[q] \in Ids BY <2>1, HeldCopy DEF Records
  <2>3. points' \in [Ids -> Texts \cup {NoPoint}] BY <1>6, <2>2 DEF UpsertApproved, TypeOK
  <2>4. QED BY <1>6, <1>w, <2>1, <2>3 DEF UpsertApproved, TypeOK, Goto, local, history
<1>7. CASE PutApproved(q) \/ PutRejected(q) \/ PutArchived(q)
  <2>1. pc[q] \in Holding
    BY <1>7 DEF PutApproved, PutRejected, PutArchived, Holding
  <2>2. QED BY <1>7, <1>a, <1>w, <2>1, HeldCopy, LeaveTyped, ReleaseTyped
            DEF PutApproved, PutRejected, PutArchived, TypeOK
<1>11. CASE DeletePoint(q)
  <2>1. "archive_put" \in Locations BY DEF Locations
  <2>2. QED BY <1>11, <1>w, <2>1 DEF DeletePoint, TypeOK, Goto, local, history
<1>13. CASE Vote(q)
  BY <1>13, <1>a, <1>w DEF Vote, TypeOK, Goto, local, history
<1>14. CASE BeginDislike(q)
  <2>1. "find" \in Locations BY DEF Locations
  <2>2. QED BY <1>14, <1>w, <2>1 DEF BeginDislike, TypeOK, Goto
<1>16. CASE PutRequeued(q)
  <2>1. pc[q] \in Holding BY <1>16 DEF PutRequeued, Holding
  <2>2. disliked' \subseteq Messages
    BY <1>16 DEF PutRequeued, TypeOK, Held, HoldsIts, Voting
  <2>3. QED
    BY <1>16, <1>a, <1>w, <2>1, <2>2, HeldCopy, LeaveTyped, ReleaseTyped DEF PutRequeued, TypeOK
<1>17. CASE QueueRecord(q)
  <2>1. disliked' \subseteq Messages
    BY <1>17 DEF QueueRecord, TypeOK, Held, HoldsIts, Voting
  <2>2. QED BY <1>17, <1>a, <1>w, <2>1, LeaveTyped DEF QueueRecord, TypeOK
<1>18. CASE Stop(q)
  BY <1>18, <1>a, <1>w, LeaveTyped DEF Stop, TypeOK, durable
<1>19. QED
  BY <1>1, <1>2, <1>3, <1>4, <1>6, <1>7, <1>11, <1>13, <1>14, <1>16, <1>17, <1>18
     DEF Step, Begins

-----------------------------------------------------------------------------
(* What a step of q leaves as it was.                                      *)
\* Nobody else moves; only who holds a record somebody takes stops being alone.
OthersStay(q) ==
  \A p \in Requests : p # q =>
    /\ pc'[p] = pc[p] /\ target'[p] = target[p]
    /\ copy'[p] = copy[p] /\ subject'[p] = subject[p]
    /\ p \in alone' => p \in alone
    /\ p \in alone /\ target[p] # target'[q] => p \in alone'

\* A record q does not hold stays as it is, and so does its point; none goes, and
\* none changes the message it is about.
RecordsStay(q) ==
  /\ \A id \in Ids : id # target[q] =>
       /\ points'[id] = points[id]
       /\ id \in Stored => store'[id] = store[id]
       /\ id \in suspect' <=> id \in suspect
  /\ \A id \in Stored : id \in Stored' /\ store'[id].message = store[id].message

LEMMA PutKeeps ==
  ASSUME TypeOK, Held, NEW q \in Requests, pc[q] \in Holding, NEW item \in Records,
         item.message = copy[q].message, Put(target[q], item)
  PROVE  /\ \A id \in Ids : id # target[q] => store'[id] = store[id]
         /\ \A id \in Stored : id \in Stored' /\ store'[id].message = store[id].message
         /\ Stored' = Stored
<1>1. target[q] \in Ids /\ target[q] \in Stored /\ copy[q].message = store[target[q]].message
  BY HeldCopy, NumbersTyped DEF Held, HoldsIts
<1>2. store'[target[q]] = item /\ item # NoRecord BY <1>1, NoRecordIsNone DEF TypeOK, Put
<1>3. \A id \in Ids : id # target[q] => store'[id] = store[id] BY DEF TypeOK, Put
<1>4. QED BY <1>1, <1>2, <1>3 DEF Stored

LEMMA AddKeeps ==
  ASSUME TypeOK, NEW id \in Ids, FreeId(id), NEW item \in Records,
         Put(id, item)
  PROVE  /\ id \notin Stored
         /\ \A other \in Stored : other \in Stored' /\ store'[other] = store[other]
         /\ Stored' = Stored \cup {id}
         /\ store'[id] = item
BY NoRecordIsNone DEF TypeOK, FreeId, Stored, Put

LEMMA PutSteps ==
  ASSUME TypeOK, Held, NEW q \in Requests,
         PutEdit(q) \/ PutApproved(q) \/ PutRejected(q) \/ PutArchived(q) \/ PutRequeued(q)
  PROVE  /\ pc[q] \in Holding
         /\ \A id \in Ids : id # target[q] => store'[id] = store[id]
         /\ \A id \in Stored : id \in Stored' /\ store'[id].message = store[id].message
         /\ Stored' = Stored
<1>1. pc[q] \in Holding
  BY DEF PutEdit, PutApproved, PutRejected, PutArchived, PutRequeued, Holding
<1>2. copy[q] \in Records /\ "approved" \in Statuses BY <1>1, HeldCopy DEF Statuses
<1>3. CASE PutApproved(q)
  <2>1. /\ [copy[q] EXCEPT !.status = "approved"] \in Records
        /\ [copy[q] EXCEPT !.status = "approved"].message = copy[q].message
    BY <1>2, DecisionTyped DEF Records
  <2>2. QED BY <1>1, <1>3, <2>1, PutKeeps DEF PutApproved
<1>4. CASE ~PutApproved(q)
  <2>1. Put(target[q], copy[q])
    BY <1>4 DEF PutEdit, PutRejected, PutArchived, PutRequeued
  <2>2. QED BY <1>1, <1>2, <2>1, PutKeeps
<1>5. QED BY <1>3, <1>4

LEMMA AddSteps ==
  ASSUME TypeOK, NEW q \in Requests, Create(q) \/ QueueRecord(q)
  PROVE  \E id \in Ids \ Stored, item \in Records :
           /\ Put(id, item)
           /\ Stored' = Stored \cup {id}
           /\ \A other \in Stored : store'[other] = store[other]
           /\ item.status = "pending"
           /\ item.message = IF Create(q) THEN NoMessage ELSE subject[q]
<1>1. q \in Versions /\ 0 \in Versions BY NumbersTyped
<1>2. CASE Create(q)
  <2>1. PICK id \in Ids, answer \in {0, q} :
          /\ FreeId(id)
          /\ Put(id, [status |-> "pending", text |-> [question |-> 0, answer |-> answer],
                      message |-> NoMessage])
    BY <1>2 DEF Create
  <2> DEFINE item == [status |-> "pending", text |-> [question |-> 0, answer |-> answer],
                      message |-> NoMessage]
  <2>2. item \in Records /\ item.status = "pending" /\ item.message = NoMessage
    BY <1>1, NewRecordTyped
  <2>3. /\ id \notin Stored /\ Stored' = Stored \cup {id}
        /\ \A other \in Stored : store'[other] = store[other]
    BY <2>1, <2>2, AddKeeps
  <2>4. QED BY <1>2, <2>1, <2>2, <2>3
<1>3. CASE ~Create(q)
  <2>1. PICK id \in Ids :
          /\ FreeId(id)
          /\ Put(id, [status |-> "pending", text |-> [question |-> 0, answer |-> 0],
                      message |-> subject[q]])
    BY <1>3 DEF QueueRecord
  <2> DEFINE item == [status |-> "pending", text |-> [question |-> 0, answer |-> 0],
                      message |-> subject[q]]
  <2>2. item \in Records /\ item.status = "pending" /\ item.message = subject[q]
    BY <1>1, NewRecordTyped DEF TypeOK
  <2>3. /\ id \notin Stored /\ Stored' = Stored \cup {id}
        /\ \A other \in Stored : store'[other] = store[other]
    BY <2>1, <2>2, AddKeeps
  <2>4. QED BY <1>3, <2>1, <2>2, <2>3
<1>4. QED BY <1>2, <1>3

LEMMA StepKeepsRecords ==
  ASSUME TypeOK, Held, NEW q \in Requests, Step(q)
  PROVE  RecordsStay(q)
<1>1. CASE Create(q) \/ QueueRecord(q)
  <2>1. /\ points' = points /\ suspect' = suspect
        /\ \A id \in Stored : id \in Stored' /\ store'[id] = store[id]
    BY <1>1, AddSteps DEF Create, QueueRecord, history
  <2>2. QED BY <2>1 DEF RecordsStay
<1>2. CASE PutEdit(q) \/ PutApproved(q) \/ PutRejected(q) \/ PutArchived(q) \/ PutRequeued(q)
  <2>1. points' = points
    BY <1>2 DEF PutEdit, PutApproved, PutRejected, PutArchived, PutRequeued
  <2>2. \A id \in Ids : id # target[q] => (id \in suspect' <=> id \in suspect)
    BY <1>2 DEF PutEdit, PutApproved, PutRejected, PutArchived, PutRequeued, Release
  <2>3. QED BY <1>2, <2>1, <2>2, PutSteps DEF RecordsStay
<1>3. CASE UpsertEdit(q) \/ UpsertApproved(q) \/ DeletePoint(q)
  <2>1. /\ store' = store
        /\ \A id \in Ids : id # target[q] => points'[id] = points[id]
    BY <1>3 DEF UpsertEdit, UpsertApproved, DeletePoint, TypeOK, table
  <2>2. \A id \in Ids : id # target[q] => (id \in suspect' <=> id \in suspect)
    BY <1>3 DEF UpsertEdit, UpsertApproved, DeletePoint, Release, history
  <2>3. QED BY <2>1, <2>2 DEF RecordsStay, Stored
<1>4. CASE Begins(q)
  BY <1>4, BeginSteps DEF RecordsStay, Stored, durable, table
<1>5. CASE Vote(q) \/ BeginDislike(q) \/ Stop(q)
  <2>1. store' = store /\ points' = points
    BY <1>5 DEF Vote, BeginDislike, Stop, durable, table
  <2>2. \A id \in Ids : id # target[q] => (id \in suspect' <=> id \in suspect)
    BY <1>5 DEF Vote, BeginDislike, Stop, history
  <2>3. QED BY <2>1, <2>2 DEF RecordsStay, Stored
<1>6. QED BY <1>1, <1>2, <1>3, <1>4, <1>5 DEF Step, Begins

-----------------------------------------------------------------------------
(* How a step moves q: it takes a record, leaves, or stays with what it    *)
(* has.                                                                    *)
Takes(q) ==
  \E id \in Stored, item \in Records, changed \in Records, location \in Holding :
    /\ changed.message = store[id].message
    /\ location \in Voting <=> pc[q] \in Voting
    /\ pc[q] \notin Holding
    /\ Take(q, id, item, changed, location)
    /\ subject' = subject

Leaves(q) ==
  \E location \in {"done", "stopped"} :
    /\ Leave(q, location)
    /\ alone' = alone \ {q}

Moves(q) ==
  \E location \in Locations :
    /\ Goto(q, location)
    /\ location \in Holding <=> pc[q] \in Holding
    /\ location \in Voting <=> pc[q] \in Voting
    /\ UNCHANGED <<target, copy, subject, alone>>

LEMMA StepShape ==
  ASSUME TypeOK, Held, NEW q \in Requests, Step(q)
  PROVE  Takes(q) \/ Leaves(q) \/ Moves(q) \/ BeginDislike(q)
<1>1. CASE Create(q) \/ Vote(q)
  BY <1>1 DEF Create, Vote, MayBegin, Moves, Holding, Voting, Locations, local, history
<1>2. CASE UpsertApproved(q)
  BY <1>2 DEF UpsertApproved, Moves, Holding, Voting, Locations, local, history
<1>3. CASE DeletePoint(q)
  BY <1>3 DEF DeletePoint, Moves, Holding, Voting, Locations, local, history
<1>4. CASE PutEdit(q)
  <2>1. CASE copy[q].status = "approved"
    BY <1>4, <2>1 DEF PutEdit, Moves, Holding, Voting, Locations, local
  <2>2. CASE copy[q].status # "approved" BY <1>4, <2>2 DEF PutEdit, Leaves, Release
  <2>3. QED BY <2>1, <2>2
<1>5. CASE UpsertEdit(q) \/ PutApproved(q) \/ PutRejected(q) \/ PutArchived(q) \/ PutRequeued(q)
  BY <1>5 DEF UpsertEdit, PutApproved, PutRejected, PutArchived, PutRequeued, Leaves, Release
<1>6. CASE Stop(q) BY <1>6 DEF Stop, Leaves
<1>7. CASE QueueRecord(q)
  <2>1. q \notin alone BY <1>7 DEF QueueRecord, Held, HoldsIts, Holding
  <2>2. QED BY <1>7, <2>1 DEF QueueRecord, Leaves
<1>8. CASE Begins(q)
  <2>1. /\ pc[q] \notin Holding
        /\ pc[q] \in Voting <=> FindRecord(q)
        /\ subject' = subject
    BY <1>8, BeginSteps DEF Holding, Voting
  <2>2. CASE Goto(q, IF FindRecord(q) THEN "queue_add" ELSE "done") /\ UNCHANGED <<target, copy, alone>>
    <3>1. PICK location \in Locations : location = IF FindRecord(q) THEN "queue_add" ELSE "done"
      BY DEF Locations
    <3>2. location \notin Holding /\ (location \in Voting <=> FindRecord(q))
      BY <3>1 DEF Holding, Voting
    <3>3. QED BY <2>1, <2>2, <3>1, <3>2 DEF Moves
  <2>3. CASE Taken(q)
    <3>1. PICK id \in Stored, item \in Records, changed \in Records, location \in Holding :
            /\ Take(q, id, item, changed, location)
            /\ changed.message = store[id].message
            /\ location = "requeue_put" <=> FindRecord(q)
      BY <2>3 DEF Taken
    <3>2. location \in Voting <=> location = "requeue_put" BY DEF Voting, Holding
    <3>3. QED BY <2>1, <3>1, <3>2 DEF Takes
  <2>4. QED BY <1>8, <2>2, <2>3, BeginSteps
<1>9. QED
  BY <1>1, <1>2, <1>3, <1>4, <1>5, <1>6, <1>7, <1>8 DEF Step, Begins

LEMMA StepKeepsOthers ==
  ASSUME TypeOK, Held, NEW q \in Requests, Step(q)
  PROVE  OthersStay(q)
<1>1. CASE Takes(q)
  <2>1. PICK id \in Stored, item \in Records, changed \in Records, location \in Holding :
          Take(q, id, item, changed, location) /\ subject' = subject
    BY <1>1 DEF Takes
  <2>2. target'[q] = id BY <2>1 DEF Take, TypeOK
  <2>3. QED BY <2>1, <2>2 DEF Take, Goto, On, OthersStay, TypeOK
<1>2. CASE Leaves(q) BY <1>2 DEF Leaves, Leave, Goto, OthersStay, TypeOK
<1>3. CASE Moves(q) BY <1>3 DEF Moves, Goto, OthersStay, TypeOK
<1>4. CASE BeginDislike(q) BY <1>4 DEF BeginDislike, Goto, OthersStay, TypeOK
<1>5. QED BY <1>1, <1>2, <1>3, <1>4, StepShape

\* What q holds after taking a record, and whether it is alone with it.
LEMMA TakerHolds ==
  ASSUME TypeOK, Held, NEW q \in Requests, NEW id \in Stored, NEW item \in Records,
         NEW changed \in Records, NEW location \in Holding,
         Take(q, id, item, changed, location)
  PROVE  /\ pc'[q] = location /\ target'[q] = id /\ copy'[q] = changed
         /\ id \in Ids /\ id # 0
         /\ \/ q \notin alone'
            \/ q \in alone
            \/ item = store[id] /\ \A p \in Requests : target[p] # id
<1>1. id \in Ids /\ id # 0 BY NumbersTyped DEF Stored
<1>2. pc'[q] = location /\ target'[q] = id /\ copy'[q] = changed
  BY DEF Take, Goto, TypeOK
<1>3. \A p \in Requests : target[p] = id => p \in On(id)
  BY <1>1 DEF Held, HoldsIts, On, InFlight, Holding
<1>4. QED BY <1>1, <1>2, <1>3 DEF Take

\* What reads may return stays about the record: puts add a record to it, the replicas
\* only forget.
LEMMA ServedStep ==
  ASSUME TypeOK, Held, NEW q \in Requests, Step(q)
  PROVE  ServedFits'
<1>1. RecordsStay(q) BY StepKeepsRecords
<1>2. SUFFICES ASSUME NEW id \in Ids, NEW item \in served'[id], item # NoRecord
               PROVE  id \in Stored' /\ item.message = store'[id].message
  BY DEF ServedFits
<1>3. CASE item \in served[id]
  <2>1. id \in Stored /\ item.message = store[id].message BY <1>2, <1>3, ServedIsRecord
  <2>2. QED BY <1>1, <2>1 DEF RecordsStay
<1>4. CASE item \notin served[id]
  <2>1. PICK put \in Ids, new \in Records : Put(put, new)
    BY <1>4, WriteSteps DEF table
  <2>2. put = id /\ new = item /\ store'[id] = item BY <1>4, <2>1 DEF Put, TypeOK
  <2>3. QED BY <1>2, <2>2 DEF Stored
<1>5. QED BY <1>3, <1>4

\* Steps that change nothing but what reads may return.
Still == UNCHANGED <<store, points, pc, local, history>>

LEMMA NextMoves == [Next]_vars => Still \/ \E q \in Requests : Step(q)
BY NextIsStep DEF Still, CatchUp, vars, durable, table

LEMMA HeldStep == TypeOK /\ Held /\ [Next]_vars => Held'
<1>1. ASSUME TypeOK, Held, NEW q \in Requests, Step(q) PROVE Held'
  <2> USE <1>1
  <2>2. OthersStay(q) /\ RecordsStay(q) BY StepKeepsOthers, StepKeepsRecords
  <2>3. ASSUME NEW p \in Requests, p # q PROVE HoldsIts(p)'
    <3>1. HoldsIts(p) BY DEF Held
    <3>2. /\ pc'[p] = pc[p] /\ target'[p] = target[p]
          /\ copy'[p] = copy[p] /\ subject'[p] = subject[p]
          /\ p \in alone' => p \in alone
      BY <2>2, <2>3 DEF OthersStay
    <3>3. target[p] # 0 =>
            target[p] \in Stored' /\ store'[target[p]].message = store[target[p]].message
      BY <2>2, <3>1 DEF RecordsStay, HoldsIts
    <3>4. ASSUME p \in alone', target'[q] = target[p] PROVE FALSE
      <4>1. target[p] # 0 /\ target[q] # target[p] BY <2>3, <3>1, <3>2, <3>4 DEF HoldsIts
      <4>2. CASE Takes(q)
        <5>1. PICK id \in Stored, item \in Records, changed \in Records,
                     location \in Holding :
                Take(q, id, item, changed, location)
          BY <4>2 DEF Takes
        <5>2. target'[q] = id /\ id # 0 BY <5>1, TakerHolds
        <5>3. p \in On(id)
          BY <3>1, <3>4, <4>1, <5>2 DEF HoldsIts, On, InFlight, Holding
        <5>4. QED BY <2>3, <3>4, <5>1, <5>3 DEF Take
      <4>3. CASE Leaves(q) BY <3>4, <4>1, <4>3 DEF Leaves, Leave, TypeOK
      <4>4. CASE Moves(q) BY <3>4, <4>1, <4>4 DEF Moves
      <4>5. CASE BeginDislike(q) BY <3>4, <4>1, <4>5 DEF BeginDislike
      <4>6. QED BY <4>2, <4>3, <4>4, <4>5, StepShape
    <3>5. ASSUME p \in alone', NEW r \in Requests, target'[r] = target[p] PROVE r = p
      <4>1. CASE r = q BY <3>4, <3>5, <4>1
      <4>2. CASE r # q
        <5>1. target[r] = target[p] BY <2>2, <3>5, <4>2 DEF OthersStay
        <5>2. QED BY <3>1, <3>2, <3>5, <5>1 DEF HoldsIts
      <4>3. QED BY <4>1, <4>2
    <3>6. QED BY <3>1, <3>2, <3>3, <3>5 DEF HoldsIts
  <2>4. HoldsIts(q)'
    <3>1. HoldsIts(q) BY DEF Held
    <3>2. CASE Takes(q)
      <4>1. PICK id \in Stored, item \in Records, changed \in Records, location \in Holding :
              /\ changed.message = store[id].message
              /\ location \in Voting <=> pc[q] \in Voting
              /\ pc[q] \notin Holding
              /\ Take(q, id, item, changed, location)
              /\ subject' = subject
        BY <3>2 DEF Takes
      <4>2. /\ pc'[q] = location /\ target'[q] = id /\ copy'[q] = changed /\ id # 0
            /\ q \in alone' => q \in alone \/ \A p \in Requests : target[p] # id
        BY <4>1, TakerHolds
      <4>3. id \in Stored' /\ store'[id].message = store[id].message
        BY <2>2 DEF RecordsStay
      <4>4. q \notin alone BY <3>1, <4>1 DEF HoldsIts
      <4>5. q \in alone' => \A p \in Requests : target'[p] = id => p = q
        BY <2>2, <4>2, <4>4 DEF OthersStay
      <4>6. QED BY <3>1, <4>1, <4>2, <4>3, <4>5 DEF HoldsIts
    <3>3. CASE Leaves(q)
      BY <3>3 DEF Leaves, Leave, Goto, HoldsIts, Holding, Voting, TypeOK
    <3>4. CASE Moves(q)
      <4>1. PICK location \in Locations :
              /\ pc' = [pc EXCEPT ![q] = location]
              /\ location \in Holding <=> pc[q] \in Holding
              /\ location \in Voting <=> pc[q] \in Voting
              /\ UNCHANGED <<target, copy, subject, alone>>
        BY <3>4 DEF Moves, Goto
      <4>2. pc'[q] = location BY <4>1 DEF TypeOK
      <4>3. target[q] # 0 =>
              target[q] \in Stored' /\ store'[target[q]].message = store[target[q]].message
        BY <2>2, <3>1 DEF RecordsStay, HoldsIts
      <4>4. QED BY <3>1, <4>1, <4>2, <4>3 DEF HoldsIts
    <3>5. CASE BeginDislike(q)
      <4>1. /\ pc[q] = "idle" /\ pc'[q] = "find"
            /\ subject'[q] \in Messages
            /\ UNCHANGED <<target, copy, store, alone>>
        BY <3>5 DEF BeginDislike, MayBegin, Goto, TypeOK, durable, table
      <4>2. subject'[q] # NoMessage BY <4>1, QAConstants
      <4>3. QED BY <3>1, <4>1, <4>2 DEF HoldsIts, Holding, Voting
    <3>6. QED BY <3>2, <3>3, <3>4, <3>5, StepShape
  <2>5. ServedFits' BY <1>1, ServedStep
  <2>6. QED BY <2>3, <2>4, <2>5 DEF Held
<1>2. ASSUME Held, Still PROVE \A q \in Requests : HoldsIts(q)'
  BY <1>2 DEF Still, Held, HoldsIts, Stored, local, history
<1>3. ASSUME TypeOK, Held, NEW id \in Ids, CatchUp(id) PROVE Held'
  <2>1. store' = store /\ \A other \in Ids : served'[other] \subseteq served[other] \cup {store[other]}
    BY <1>3 DEF CatchUp, TypeOK
  <2>2. ServedFits' BY <1>3, <2>1 DEF Held, ServedFits, Stored
  <2>3. Still BY <1>3 DEF CatchUp, Still
  <2>4. QED BY <1>2, <1>3, <2>2, <2>3 DEF Held
<1>4. ASSUME Held, UNCHANGED vars PROVE Held'
  <2>1. Still /\ served' = served BY <1>4 DEF Still, vars, durable, table
  <2>2. ServedFits' BY <1>4, <2>1 DEF Held, ServedFits, Still, Stored
  <2>3. QED BY <1>2, <1>4, <2>1, <2>2 DEF Held
<1>5. QED BY <1>1, <1>3, <1>4, NextIsStep

LEMMA InitHeld == Init => Held
BY DEF Init, Held, ServedFits, HoldsIts, Holding, Voting

LEMMA TypedAndHeld == Spec => [](TypeOK /\ Held)
<1>1. Init => TypeOK /\ Held BY InitTyped, InitHeld
<1>2. TypeOK /\ Held /\ [Next]_vars => (TypeOK /\ Held)' BY TypeStep, HeldStep
<1>3. QED BY <1>1, <1>2, PTL DEF Spec

\* Every reachable state is typed (QARecord, the points, the requests).
THEOREM RecordsTyped == Spec => []TypeOK
BY TypedAndHeld, PTL

-----------------------------------------------------------------------------
(* The store and the index.  A request that is alone knows the record as   *)
(* it is but for what it is about to write; a record nobody has started to *)
(* write is published, and an id without a record has no point.            *)
Unwritten == {"edit_put", "approve_upsert", "reject_put", "archive_delete", "requeue_put"}

LoneCopy(q) ==
  LET item  == store[target[q]]
      point == points[target[q]]
  IN /\ pc[q] \in {"edit_put", "requeue_put"} => copy[q].status = item.status
     /\ pc[q] = "requeue_put" =>
          copy[q].text.answer = item.text.answer /\ copy[q].text.question = 0
     /\ pc[q] \in {"edit_upsert", "approve_upsert", "approve_put"} => copy[q] = item
     /\ pc[q] = "edit_upsert" => item.status = "approved"
     /\ pc[q] = "approve_put" => point = item.text
     /\ pc[q] \in {"reject_put", "archive_delete", "archive_put"} =>
          copy[q].text = item.text
     /\ pc[q] = "reject_put" => copy[q].status = "rejected"
     /\ pc[q] \in {"archive_delete", "archive_put"} => copy[q].status = "archived"
     /\ pc[q] = "archive_put" => point = NoPoint

NotYetWritten(id) ==
  \A p \in Requests : target[p] = id => p \in alone /\ pc[p] \in Unwritten

Agrees(id) == id \in Stored \ suspect /\ NotYetWritten(id) => Published(id)

AgreeInv ==
  /\ \A q \in alone : LoneCopy(q)
  /\ \A id \in Ids : Agrees(id) /\ (id \notin Stored => points[id] = NoPoint)

LEMMA OtherCopiesStay ==
  ASSUME TypeOK, Held, NEW q \in Requests, OthersStay(q), RecordsStay(q),
         NEW p \in Requests, p # q, p \in alone', LoneCopy(p)
  PROVE  LoneCopy(p)'
<1>1. /\ pc'[p] = pc[p] /\ target'[p] = target[p] /\ copy'[p] = copy[p] /\ p \in alone
  BY DEF OthersStay
<1>2. target[p] \in Stored /\ target[p] # target[q] BY <1>1 DEF Held, HoldsIts
<1>3. store'[target[p]] = store[target[p]] /\ points'[target[p]] = points[target[p]]
  BY <1>2 DEF RecordsStay, Stored
<1>4. QED BY <1>1, <1>3 DEF LoneCopy

LEMMA OtherRecordsAgree ==
  ASSUME TypeOK, Held, NEW q \in Requests, OthersStay(q), RecordsStay(q),
         NEW id \in Stored, id # target[q], Agrees(id)
  PROVE  Agrees(id)'
<1> SUFFICES ASSUME id \notin suspect', NotYetWritten(id)' PROVE Published(id)'
  BY DEF Agrees
<1>1. id \in Ids /\ id \notin suspect /\ store'[id] = store[id] /\ points'[id] = points[id]
  BY DEF RecordsStay, Stored
<1>2. NotYetWritten(id) BY DEF NotYetWritten, OthersStay
<1>3. QED BY <1>1, <1>2 DEF Agrees, Published

LEMMA NewRecordsAgree ==
  ASSUME TypeOK, Held, AgreeInv, NEW q \in Requests, Step(q),
         NEW id \in Ids \ Stored, id \in Stored'
  PROVE  Published(id)'
<1>1. Create(q) \/ QueueRecord(q)
  <2>1. CASE PutEdit(q) \/ PutApproved(q) \/ PutRejected(q) \/ PutArchived(q) \/ PutRequeued(q)
    BY <2>1, PutSteps
  <2>2. CASE store' = store BY <2>2 DEF Stored
  <2>3. Begins(q) => store' = store BY BeginSteps DEF durable, table
  <2>4. QED
    BY <2>1, <2>2, <2>3 DEF Step, Begins, UpsertEdit, UpsertApproved, DeletePoint, Vote,
       BeginDislike, Stop, durable, table
<1>2. PICK new \in Ids \ Stored, item \in Records :
        /\ Put(new, item)
        /\ Stored' = Stored \cup {new}
        /\ item.status = "pending"
  BY <1>1, AddSteps
<1>3. new = id BY <1>2
<1>4. store'[id] = item /\ points'[id] = NoPoint
  BY <1>1, <1>2, <1>3 DEF AgreeInv, TypeOK, Create, QueueRecord, Put
<1>5. QED BY <1>2, <1>4 DEF Published

\* The record q holds, when q lets go of it or writes on.
LEMMA OwnRecordAgrees ==
  ASSUME TypeOK, Held, AgreeInv, NEW q \in Requests, Step(q),
         NEW id \in Ids, id = target[q]
  PROVE  Agrees(id)'
<1>1. /\ pc[q] \in Holding /\ id \in Ids /\ id \in Stored /\ copy[q] \in Records
      /\ store[id] \in Records
  BY HeldCopy, StoredIsRecord, NumbersTyped DEF Held, HoldsIts
<1>2. q \in alone => LoneCopy(q) BY DEF AgreeInv
<1>3. ASSUME q \in alone, pc[q] \in Unwritten, id \notin suspect PROVE Published(id)
  <2>1. NotYetWritten(id) BY <1>3 DEF NotYetWritten, Held, HoldsIts
  <2>2. QED BY <1>1, <1>3, <2>1 DEF AgreeInv, Agrees
<1>4. ASSUME UNCHANGED target, pc'[q] \notin Unwritten PROVE Agrees(id)'
  BY <1>4 DEF Agrees, NotYetWritten
<1>5. ASSUME id \in suspect' PROVE Agrees(id)'
  BY <1>5 DEF Agrees
<1>6. CASE PutEdit(q)
  <2>1. CASE copy[q].status = "approved"
    BY <1>4, <1>6, <2>1 DEF PutEdit, Goto, TypeOK, Unwritten, local
  <2>2. CASE copy[q].status # "approved" /\ q \notin alone
    BY <1>5, <1>6, <2>2 DEF PutEdit, Release
  <2>3. CASE copy[q].status # "approved" /\ q \in alone
    <3>1. suspect' = suspect /\ points' = points /\ store'[id] = copy[q]
      BY <1>1, <1>6, <2>3 DEF PutEdit, Release, TypeOK, Put
    <3>2. copy[q].status = store[id].status BY <1>2, <1>6, <2>3 DEF LoneCopy, PutEdit
    <3>3. id \notin suspect => Published(id) BY <1>3, <1>6, <2>3 DEF PutEdit, Unwritten
    <3>4. QED BY <2>3, <3>1, <3>2, <3>3 DEF Agrees, Published
  <2>4. QED BY <2>1, <2>2, <2>3
<1>7. CASE UpsertEdit(q)
  <2>1. CASE q \notin alone BY <1>5, <1>7, <2>1 DEF UpsertEdit, Release
  <2>2. CASE q \in alone
    <3>1. store' = store /\ points'[id] = copy[q].text
      BY <1>1, <1>7 DEF UpsertEdit, TypeOK, table
    <3>2. copy[q] = store[id] /\ store[id].status = "approved"
      BY <1>2, <1>7, <2>2 DEF LoneCopy, UpsertEdit
    <3>3. QED BY <3>1, <3>2 DEF Agrees, Published
  <2>3. QED BY <2>1, <2>2
<1>8. CASE UpsertApproved(q)
  BY <1>4, <1>8 DEF UpsertApproved, Goto, TypeOK, Unwritten, local
<1>9. CASE PutApproved(q)
  <2>1. CASE q \notin alone BY <1>5, <1>9, <2>1 DEF PutApproved, Release
  <2>2. CASE q \in alone
    <3>1. points' = points /\ store'[id] = [copy[q] EXCEPT !.status = "approved"]
      BY <1>1, <1>9 DEF PutApproved, TypeOK, Put
    <3>2. copy[q] = store[id] /\ points[id] = store[id].text
      BY <1>2, <1>9, <2>2 DEF LoneCopy, PutApproved
    <3>3. store'[id].status = "approved" /\ store'[id].text = store[id].text
      BY <1>1, <3>1, <3>2 DEF Records
    <3>4. QED BY <3>1, <3>2, <3>3 DEF Agrees, Published
  <2>3. QED BY <2>1, <2>2
<1>10. CASE PutRejected(q)
  <2>1. CASE q \notin alone BY <1>5, <1>10, <2>1 DEF PutRejected, Release
  <2>2. CASE q \in alone
    <3>1. store'[id] = copy[q] BY <1>1, <1>10 DEF PutRejected, TypeOK, Put
    <3>2. copy[q].status = "rejected" BY <1>2, <1>10, <2>2 DEF LoneCopy, PutRejected
    <3>3. QED BY <3>1, <3>2 DEF Agrees, Published
  <2>3. QED BY <2>1, <2>2
<1>11. CASE DeletePoint(q)
  BY <1>4, <1>11 DEF DeletePoint, Goto, TypeOK, Unwritten, local
<1>12. CASE PutArchived(q)
  <2>1. CASE q \notin alone BY <1>5, <1>12, <2>1 DEF PutArchived, Release
  <2>2. CASE q \in alone
    <3>1. points' = points /\ store'[id] = copy[q]
      BY <1>1, <1>12 DEF PutArchived, TypeOK, Put
    <3>2. copy[q].status = "archived" /\ points[id] = NoPoint
      BY <1>2, <1>12, <2>2 DEF LoneCopy, PutArchived
    <3>3. QED BY <3>1, <3>2 DEF Agrees, Published
  <2>3. QED BY <2>1, <2>2
<1>13. CASE PutRequeued(q)
  <2>1. CASE q \notin alone BY <1>5, <1>13, <2>1 DEF PutRequeued, Release
  <2>2. CASE q \in alone
    <3>1. suspect' = suspect /\ points' = points /\ store'[id] = copy[q]
      BY <1>1, <1>13, <2>2 DEF PutRequeued, Release, TypeOK, Put
    <3>2. /\ copy[q].status = store[id].status
          /\ copy[q].text.answer = store[id].text.answer /\ copy[q].text.question = 0
      BY <1>2, <1>13, <2>2 DEF LoneCopy, PutRequeued
    <3>3. id \notin suspect => Published(id) BY <1>3, <1>13, <2>2 DEF PutRequeued, Unwritten
    <3>4. QED BY <3>1, <3>2, <3>3 DEF Agrees, Published
  <2>3. QED BY <2>1, <2>2
<1>14. CASE Stop(q) BY <1>1, <1>5, <1>14, NumbersTyped DEF Stop
<1>15. ~Begins(q) BY <1>1, BeginSteps DEF Holding
<1>16. QED
  BY <1>1, <1>6, <1>7, <1>8, <1>9, <1>10, <1>11, <1>12, <1>13, <1>14, <1>15
     DEF Step, Begins, Holding, Create, Vote, BeginDislike, QueueRecord, MayBegin

\* What q takes or writes on, it knows if it is alone with it.
LEMMA OwnCopyIsLone ==
  ASSUME TypeOK, Held, AgreeInv, NEW q \in Requests, Step(q), q \in alone'
  PROVE  LoneCopy(q)'
<1>1. q \in alone => LoneCopy(q) /\ pc[q] \in Holding /\ target[q] \in Ids /\ copy[q] \in Records
  BY HeldCopy DEF AgreeInv, Held, HoldsIts
<1>2. CASE PutEdit(q)
  <2>1. q \in alone /\ copy[q].status = "approved" /\ UNCHANGED local /\ pc'[q] = "edit_upsert"
    BY <1>2 DEF PutEdit, Release, Goto, TypeOK
  <2>2. store'[target[q]] = copy[q] BY <1>1, <1>2, <2>1 DEF PutEdit, TypeOK, Put
  <2>3. QED BY <2>1, <2>2 DEF LoneCopy, local
<1>3. CASE UpsertApproved(q)
  <2>1. /\ q \in alone /\ UNCHANGED <<local, store>> /\ pc'[q] = "approve_put"
        /\ pc[q] = "approve_upsert"
    BY <1>3 DEF UpsertApproved, Goto, TypeOK, history, table
  <2>2. points'[target[q]] = copy[q].text BY <1>1, <1>3, <2>1 DEF UpsertApproved, TypeOK
  <2>3. QED BY <1>1, <2>1, <2>2 DEF LoneCopy, local
<1>4. CASE DeletePoint(q)
  <2>1. /\ q \in alone /\ UNCHANGED <<local, store>> /\ pc'[q] = "archive_put"
        /\ pc[q] = "archive_delete"
    BY <1>4 DEF DeletePoint, Goto, TypeOK, history, table
  <2>2. points'[target[q]] = NoPoint BY <1>1, <1>4, <2>1 DEF DeletePoint, TypeOK
  <2>3. QED BY <1>1, <2>1, <2>2 DEF LoneCopy, local
<1>5. CASE Begins(q)
  <2>1. q \notin alone /\ store' = store
    BY <1>1, <1>5, BeginSteps DEF Holding, durable, table
  <2>2. ~ UNCHANGED <<target, copy, alone>> BY <2>1
  <2>3. Taken(q) BY <1>5, <2>2, BeginSteps
  <2>4. PICK id \in Stored, item \in Records, changed \in Records, location \in Holding :
          Take(q, id, item, changed, location) /\ Fits(item, changed, location)
    BY <2>3 DEF Taken
  <2>5. pc'[q] = location /\ target'[q] = id /\ copy'[q] = changed /\ item = store[id]
    BY <2>1, <2>4, TakerHolds
  <2>6. QED BY <2>1, <2>4, <2>5 DEF LoneCopy, Fits
<1>6. QED
  BY <1>1, <1>2, <1>3, <1>4, <1>5
     DEF Step, Begins, Release, Stop, Holding, Create, Vote, BeginDislike, QueueRecord, MayBegin,
         UpsertEdit, PutApproved, PutRejected, PutArchived, PutRequeued, local, history

LEMMA AgreeStep == TypeOK /\ Held /\ AgreeInv /\ [Next]_vars => AgreeInv'
<1>1. ASSUME TypeOK, Held, AgreeInv, NEW q \in Requests, Step(q), TypeOK' PROVE AgreeInv'
  <2> USE <1>1
  <2>2. OthersStay(q) /\ RecordsStay(q) BY StepKeepsOthers, StepKeepsRecords
  <2>4. ASSUME NEW p \in alone' PROVE LoneCopy(p)'
    <3>1. p \in Requests BY DEF TypeOK
    <3>2. CASE p = q BY <3>2, OwnCopyIsLone
    <3>3. CASE p # q
      <4>1. LoneCopy(p) BY <2>2, <3>1, <3>3 DEF OthersStay, AgreeInv
      <4>2. QED BY <2>2, <3>1, <3>3, <4>1, OtherCopiesStay
    <3>4. QED BY <3>2, <3>3
  <2>5. ASSUME NEW id \in Ids PROVE Agrees(id)'
    <3>1. CASE id = target[q] BY <3>1, OwnRecordAgrees
    <3>2. CASE id \in Stored /\ id # target[q]
      BY <2>2, <3>2, OtherRecordsAgree DEF AgreeInv
    <3>3. CASE id \notin Stored BY <3>3, NewRecordsAgree DEF Agrees
    <3>4. QED BY <3>1, <3>2, <3>3
  <2>6. ASSUME NEW id \in Ids, id \notin Stored' PROVE points'[id] = NoPoint
    <3>1. id \notin Stored BY <2>2, <2>6 DEF RecordsStay
    <3>2. id # target[q] BY <3>1, NumbersTyped DEF Held, HoldsIts
    <3>3. QED BY <2>2, <3>1, <3>2 DEF RecordsStay, AgreeInv
  <2>7. QED BY <2>4, <2>5, <2>6 DEF AgreeInv
<1>2. ASSUME AgreeInv, Still PROVE AgreeInv'
  BY <1>2 DEF AgreeInv, LoneCopy, Agrees, NotYetWritten, Published, Stored, Still, local, history
<1>3. QED BY <1>1, <1>2, NextMoves, TypeStep

LEMMA InitAgrees == Init => AgreeInv
BY DEF Init, AgreeInv, Agrees, Stored

LEMMA AllAgree == Spec => [](TypeOK /\ Held /\ AgreeInv)
<1>1. Init => TypeOK /\ Held /\ AgreeInv BY InitTyped, InitHeld, InitAgrees
<1>2. TypeOK /\ Held /\ AgreeInv /\ [Next]_vars => (TypeOK /\ Held /\ AgreeInv)'
  BY TypeStep, HeldStep, AgreeStep
<1>3. QED BY <1>1, <1>2, PTL DEF Spec

\* Whatever requests stop, overlap or read late elsewhere, the index has what the store
\* says of a record on which none did (edit_qa, approve_qa, reject_qa, archive_qa).
THEOREM IndexFollowsStore == Spec => []StoreAndIndexAgree
<1>1. ASSUME TypeOK, Held, AgreeInv PROVE StoreAndIndexAgree
  <2> SUFFICES ASSUME NEW id \in Stored \ suspect, On(id) = {} PROVE Published(id)
    BY DEF StoreAndIndexAgree
  <2>1. id \in Ids /\ id # 0 BY NumbersTyped DEF Stored
  <2>2. \A p \in Requests : target[p] # id
    BY <1>1, <2>1 DEF Held, HoldsIts, On, InFlight, Holding
  <2>3. NotYetWritten(id) BY <2>2 DEF NotYetWritten
  <2>4. QED BY <1>1, <2>1, <2>3 DEF AgreeInv, Agrees
<1>2. QED BY <1>1, AllAgree, PTL

\* A request alone with its record, which it read as it is, writes over nobody's change:
\* a decision keeps the texts, an edit the status, a repeated dislike both the status and
\* the answer.
THEOREM LoneWritesKeepTheRest == Spec => LoneRequestsKeepTheRest
<1> DEFINE Kept ==
      \A q \in alone :
        LET before == store[target[q]]
            after  == store'[target[q]]
        IN /\ PutApproved(q) \/ PutRejected(q) \/ PutArchived(q) => after.text = before.text
           /\ PutEdit(q) => after.status = before.status
           /\ PutRequeued(q) => /\ after.status = before.status
                                /\ after.text.answer = before.text.answer
<1>1. TypeOK /\ Held /\ AgreeInv => Kept
  <2> SUFFICES ASSUME TypeOK, Held, AgreeInv, NEW q \in alone PROVE
        LET before == store[target[q]]
            after  == store'[target[q]]
        IN /\ PutApproved(q) \/ PutRejected(q) \/ PutArchived(q) => after.text = before.text
           /\ PutEdit(q) => after.status = before.status
           /\ PutRequeued(q) => /\ after.status = before.status
                                /\ after.text.answer = before.text.answer
    OBVIOUS
  <2>1. q \in Requests /\ LoneCopy(q) BY DEF TypeOK, AgreeInv
  <2>2. pc[q] \in Holding /\ target[q] \in Ids /\ copy[q] \in Records
    BY <2>1, HeldCopy DEF Held, HoldsIts
  <2>3. ASSUME PutApproved(q) PROVE store'[target[q]].text = store[target[q]].text
    <3>1. store'[target[q]] = [copy[q] EXCEPT !.status = "approved"]
      BY <2>2, <2>3 DEF PutApproved, TypeOK, Put
    <3>2. store'[target[q]].text = copy[q].text BY <2>2, <3>1 DEF Records
    <3>3. QED BY <2>1, <2>3, <3>2 DEF PutApproved, LoneCopy
  <2>4. ASSUME PutEdit(q) \/ PutRejected(q) \/ PutArchived(q) \/ PutRequeued(q)
        PROVE  store'[target[q]] = copy[q]
    BY <2>2, <2>4 DEF PutEdit, PutRejected, PutArchived, PutRequeued, TypeOK, Put
  <2>5. QED
    BY <2>1, <2>3, <2>4 DEF LoneCopy, PutEdit, PutRejected, PutArchived, PutRequeued
<1>2. QED BY <1>1, AllAgree, PTL DEF LoneRequestsKeepTheRest

-----------------------------------------------------------------------------
(* The queue of dislikes.  Unless two dislikes of it raced or a look-up    *)
(* missed its record, a message has one request voting on it and one       *)
(* record, and who is about to queue one knows that there is none.         *)
DislikeInv ==
  /\ \A m \in disliked : About(m) # {}
  /\ \A m \in Messages \ raced :
       /\ \A p, q \in Requests : subject[p] = m /\ subject[q] = m => p = q
       /\ \A id, other \in About(m) : id = other
       /\ \A q \in Requests : subject[q] = m /\ pc[q] = "queue_add" => About(m) = {}
  /\ \A q \in Requests : pc[q] = "requeue_put" => copy[q].message = subject[q]

\* Only QueueRecord adds to what there is about a message, its own.
LEMMA AboutStep ==
  ASSUME TypeOK, Held, NEW q \in Requests, Step(q), NEW m \in Messages
  PROVE  IF QueueRecord(q) /\ subject[q] = m
         THEN \E id \in Ids : About(m)' = About(m) \cup {id}
         ELSE About(m)' = About(m)
<1>1. CASE Create(q) \/ QueueRecord(q)
  <2>1. PICK id \in Ids \ Stored, item \in Records :
          /\ Put(id, item)
          /\ Stored' = Stored \cup {id}
          /\ \A other \in Stored : store'[other] = store[other]
          /\ item.message = IF Create(q) THEN NoMessage ELSE subject[q]
    BY <1>1, AddSteps
  <2>2. store'[id] = item BY <2>1 DEF TypeOK, Put
  <2>3. ~(Create(q) /\ QueueRecord(q)) BY DEF Create, QueueRecord, MayBegin
  <2>4. NoMessage # m BY QAConstants
  <2>5. CASE item.message = m
    <3>1. About(m)' = About(m) \cup {id} BY <2>1, <2>2, <2>5 DEF About
    <3>2. QED BY <1>1, <2>1, <2>4, <2>5, <3>1
  <2>6. CASE item.message # m
    <3>1. About(m)' = About(m) BY <2>1, <2>2, <2>6 DEF About
    <3>2. QED BY <2>1, <2>3, <2>6, <3>1
  <2>7. QED BY <2>5, <2>6
<1>2. CASE ~(Create(q) \/ QueueRecord(q))
  <2>1. Stored' = Stored /\ \A id \in Stored : store'[id].message = store[id].message
    <3>1. CASE PutEdit(q) \/ PutApproved(q) \/ PutRejected(q) \/ PutArchived(q) \/ PutRequeued(q)
      BY <3>1, PutSteps
    <3>2. CASE store' = store BY <3>2 DEF Stored
    <3>3. Begins(q) => store' = store BY BeginSteps DEF durable, table
    <3>4. QED
      BY <1>2, <3>1, <3>2, <3>3 DEF Step, Begins, UpsertEdit, UpsertApproved, DeletePoint, Vote,
         BeginDislike, Stop, durable, table
  <2>2. QED BY <1>2, <2>1 DEF About
<1>3. QED BY <1>1, <1>2

\* A look-up that lets the request queue a new record found none, or missed one.
LEMMA LookUpFindsNone ==
  ASSUME TypeOK, Held, NEW q \in Requests, FindRecord(q), pc'[q] = "queue_add",
         subject[q] \notin raced'
  PROVE  About(subject[q]) = {}
<1>1. PICK page \in Pages(subject[q]) :
        /\ \E id \in Finds(page) :
             IF id = 0 THEN Goto(q, "queue_add") /\ UNCHANGED <<target, copy, alone>>
             ELSE Take(q, id, page[id], [page[id] EXCEPT !.text.question = 0], "requeue_put")
        /\ raced' = IF \E id \in About(subject[q]) : page[id] = NoRecord
                    THEN raced \cup {subject[q]} ELSE raced
  BY DEF FindRecord
<1>2. PICK id \in Finds(page) :
        IF id = 0 THEN Goto(q, "queue_add") /\ UNCHANGED <<target, copy, alone>>
        ELSE Take(q, id, page[id], [page[id] EXCEPT !.text.question = 0], "requeue_put")
  BY <1>1
<1>3. id = 0 BY <1>2 DEF Take, Goto, TypeOK
<1>4. DOMAIN page = About(subject[q]) /\ 0 \notin About(subject[q])
  BY NumbersTyped DEF Pages, About, Stored
<1>5. \A other \in About(subject[q]) : page[other] = NoRecord BY <1>2, <1>3, <1>4 DEF Finds
<1>6. QED BY <1>1, <1>5

\* Where a step leaves a request that votes.
LEMMA VotingMoves ==
  ASSUME TypeOK, Held, NEW q \in Requests, Step(q),
         pc'[q] \in {"queue_add", "requeue_put"}
  PROVE  FindRecord(q)
<1>1. Create(q) \/ Vote(q) => pc'[q] = "done" BY DEF Create, Vote, Goto, TypeOK
<1>2. UpsertApproved(q) => pc'[q] = "approve_put" BY DEF UpsertApproved, Goto, TypeOK
<1>3. DeletePoint(q) => pc'[q] = "archive_put" BY DEF DeletePoint, Goto, TypeOK
<1>4. BeginDislike(q) => pc'[q] = "find" BY DEF BeginDislike, Goto, TypeOK
<1>5. PutEdit(q) => Leaves(q) \/ pc'[q] = "edit_upsert"
  BY DEF PutEdit, Leaves, Release, Goto, TypeOK
<1>6. UpsertEdit(q) \/ PutApproved(q) \/ PutRejected(q) \/ PutArchived(q)
        \/ PutRequeued(q) \/ Stop(q) => Leaves(q)
  BY DEF UpsertEdit, PutApproved, PutRejected, PutArchived, PutRequeued, Leaves, Release, Stop
<1>7. Leaves(q) => pc'[q] \in {"done", "stopped"} BY DEF Leaves, Leave, Goto, TypeOK
<1>8. QueueRecord(q) => pc'[q] = "done" BY DEF QueueRecord, Leave, Goto, TypeOK
<1>9. ASSUME Begins(q), ~FindRecord(q) PROVE pc'[q] \notin {"queue_add", "requeue_put"}
  <2>1. CASE Goto(q, IF FindRecord(q) THEN "queue_add" ELSE "done")
    BY <1>9, <2>1 DEF Goto, TypeOK
  <2>2. CASE Taken(q)
    <3>1. PICK id \in Stored, item \in Records, changed \in Records, location \in Holding :
            Take(q, id, item, changed, location) /\ (location = "requeue_put" <=> FindRecord(q))
      BY <2>2 DEF Taken
    <3>2. QED BY <1>9, <3>1 DEF Take, Goto, Holding, TypeOK
  <2>3. QED BY <1>9, <2>1, <2>2, BeginSteps
<1>10. QED
  BY <1>1, <1>2, <1>3, <1>4, <1>5, <1>6, <1>7, <1>8, <1>9 DEF Step, Begins

LEMMA DislikeStep == TypeOK /\ Held /\ DislikeInv /\ [Next]_vars => DislikeInv'
<1>1. ASSUME TypeOK, Held, DislikeInv, NEW q \in Requests, Step(q), TypeOK', Held'
      PROVE  DislikeInv'
  <2> USE <1>1
  <2>2. OthersStay(q) BY StepKeepsOthers
  <2>3. disliked' \subseteq disliked \cup
          IF PutRequeued(q) \/ QueueRecord(q) THEN {subject[q]} ELSE {}
    BY BeginSteps DEF Step, Begins, Create, PutEdit, UpsertEdit,
       UpsertApproved, PutApproved, PutRejected, DeletePoint,
       PutArchived, Vote, BeginDislike, PutRequeued, QueueRecord, Stop, history
  <2>4. raced \subseteq raced' /\ raced' \subseteq Messages
    BY BeginSteps DEF TypeOK, Step, Begins, Create, PutEdit, UpsertEdit,
       UpsertApproved, PutApproved, PutRejected, DeletePoint,
       PutArchived, Vote, BeginDislike, PutRequeued, QueueRecord, Stop, history
  <2>5. ASSUME NEW m \in disliked' PROVE About(m)' # {}
    <3>1. m \in Messages BY <2>5 DEF TypeOK
    <3>2. CASE m \in disliked
      BY <3>1, <3>2, AboutStep DEF DislikeInv
    <3>3. CASE m \notin disliked
      <4>1. (PutRequeued(q) \/ QueueRecord(q)) /\ m = subject[q] BY <2>3, <2>5, <3>3
      <4>2. CASE QueueRecord(q) BY <3>1, <4>1, <4>2, AboutStep
      <4>3. CASE PutRequeued(q)
        <5>1. target[q] \in Stored /\ store[target[q]].message = subject[q]
          BY <4>3, NumbersTyped DEF PutRequeued, DislikeInv, Held, HoldsIts, Holding
        <5>2. target[q] \in About(m) BY <4>1, <5>1 DEF About
        <5>3. QED BY <3>1, <5>2, AboutStep
      <4>4. QED BY <4>1, <4>2, <4>3
    <3>4. QED BY <3>2, <3>3
  <2>6. ASSUME NEW m \in Messages \ raced'
        PROVE  \A p, r \in Requests : subject'[p] = m /\ subject'[r] = m => p = r
    <3>1. m \notin raced /\ m # NoMessage BY <2>4, QAConstants
    <3>2. \A p, r \in Requests : subject[p] = m /\ subject[r] = m => p = r
      BY <3>1 DEF DislikeInv
    <3>3. CASE subject'[q] # m \/ subject'[q] = subject[q]
      BY <2>2, <3>2, <3>3 DEF OthersStay
    <3>4. CASE subject'[q] = m /\ subject'[q] # subject[q]
      <4>1. BeginDislike(q)
        BY <3>1, <3>4, StepShape DEF Takes, Leaves, Leave, Moves, TypeOK
      <4>2. VotingOn(m) = {}
        <5>1. PICK n \in Messages : /\ subject' = [subject EXCEPT ![q] = n]
                                    /\ raced' = IF VotingOn(n) = {} THEN raced ELSE raced \cup {n}
          BY <4>1 DEF BeginDislike
        <5>2. n = m BY <3>4, <5>1 DEF TypeOK
        <5>3. QED BY <2>6, <5>1, <5>2
      <4>3. \A p \in Requests : subject[p] # m
        BY <3>1, <4>2 DEF VotingOn, InFlight, Held, HoldsIts, Voting
      <4>4. QED BY <2>2, <4>3 DEF OthersStay
    <3>5. QED BY <3>3, <3>4
  <2>7. ASSUME NEW m \in Messages \ raced', NEW p \in Requests,
               subject'[p] = m, pc'[p] = "queue_add"
        PROVE  About(m)' = {}
    <3>1. m \notin raced /\ m # NoMessage BY <2>4, QAConstants
    <3>2. CASE p # q
      <4>1. subject[p] = m /\ pc[p] = "queue_add" BY <2>2, <2>7, <3>2 DEF OthersStay
      <4>2. About(m) = {} /\ subject[q] # m BY <3>1, <3>2, <4>1 DEF DislikeInv
      <4>3. QED BY <4>2, AboutStep
    <3>3. CASE p = q
      <4>1. FindRecord(q) BY <2>7, <3>3, VotingMoves
      <4>2. subject[q] = m BY <2>7, <3>3, <4>1 DEF FindRecord
      <4>3. About(m) = {} BY <2>7, <3>3, <4>1, <4>2, LookUpFindsNone
      <4>4. ~ QueueRecord(q) BY <4>1 DEF FindRecord, QueueRecord
      <4>5. QED BY <4>3, <4>4, AboutStep
    <3>4. QED BY <3>2, <3>3
  <2>8. ASSUME NEW m \in Messages \ raced'
        PROVE  \A id, other \in About(m)' : id = other
    <3>1. m \notin raced BY <2>4
    <3>2. CASE QueueRecord(q) /\ subject[q] = m
      <4>1. About(m) = {} BY <3>1, <3>2 DEF DislikeInv, QueueRecord
      <4>2. PICK id \in Ids : About(m)' = About(m) \cup {id} BY <3>2, AboutStep
      <4>3. QED BY <4>1, <4>2
    <3>3. CASE ~(QueueRecord(q) /\ subject[q] = m)
      <4>1. About(m)' = About(m) BY <3>3, AboutStep
      <4>2. QED BY <3>1, <4>1 DEF DislikeInv
    <3>4. QED BY <3>2, <3>3
  <2>9. ASSUME NEW p \in Requests, pc'[p] = "requeue_put"
        PROVE  copy'[p].message = subject'[p]
    <3>1. CASE p # q BY <2>2, <2>9, <3>1 DEF OthersStay, DislikeInv
    <3>2. CASE p = q
      <4>1. FindRecord(q) BY <2>9, <3>2, VotingMoves
      <4>2. ~Goto(q, "queue_add") BY <2>9, <3>2 DEF Goto, TypeOK
      <4>3. Taken(q) /\ subject' = subject BY <4>1, <4>2, BeginSteps DEF Begins
      <4>4. PICK id \in Stored, item \in Records, changed \in Records, location \in Holding :
              /\ Take(q, id, item, changed, location)
              /\ changed.message = store[id].message
              /\ store[id].message = subject[q]
        BY <4>1, <4>3 DEF Taken
      <4>5. QED BY <3>2, <4>3, <4>4, TakerHolds
    <3>3. QED BY <3>1, <3>2
  <2>10. QED BY <2>5, <2>6, <2>7, <2>8, <2>9 DEF DislikeInv
<1>2. ASSUME DislikeInv, Still PROVE DislikeInv'
  BY <1>2 DEF DislikeInv, About, Stored, Still, local, history
<1>3. QED BY <1>1, <1>2, NextMoves, TypeStep, HeldStep

LEMMA InitDisliked == Init => DislikeInv
BY QAConstants DEF Init, DislikeInv, About, Stored

\* A dislike that was answered is queued, whatever the look-up missed, and once unless two
\* dislikes of the message ran at once or a look-up missed its record, put just before or
\* past the page (POST /widget/feedback, stores/qa_store.py).
THEOREM EveryDislikeIsQueued == Spec => []DislikesAreQueuedOnce
<1>1. Init => TypeOK /\ Held /\ DislikeInv BY InitTyped, InitHeld, InitDisliked
<1>2. TypeOK /\ Held /\ DislikeInv /\ [Next]_vars => (TypeOK /\ Held /\ DislikeInv)'
  BY TypeStep, HeldStep, DislikeStep
<1>3. DislikeInv => DislikesAreQueuedOnce BY DEF DislikeInv, DislikesAreQueuedOnce
<1>4. QED BY <1>1, <1>2, <1>3, PTL DEF Spec
=============================================================================
