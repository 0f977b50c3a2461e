----------------------------- MODULE QALearning -----------------------------
(***************************************************************************)
(* The Q&A loop: records that CS curates (channels/admin.py over           *)
(* stores/qa_store.py), the points the bot answers from (rag/qa_indexer.py *)
(* over Qdrant) and the votes that queue new records (POST                 *)
(* /widget/feedback over stores/feedback_store.py).                        *)
(*                                                                         *)
(* Every request reads a record, which may lag behind the last put,        *)
(* changes its copy, and puts the whole of it back, with the index written *)
(* before or after; up to MaxInFlight of them run at once, each await is a *)
(* step, and a request may stop at each (a 502, a timeout, the process).   *)
(* Texts are versions: an answer is the request that wrote it, 0 a blank;  *)
(* a question is the request that edited it, 0 the user's own words or     *)
(* those the record was created with.                                      *)
(***************************************************************************)
EXTENDS Integers, FiniteSets

CONSTANTS
  Messages,     \* the bot's answers a customer may vote on
  MaxRecords,   \* Q&A records at most
  MaxRequests,  \* requests of CS and of the customer together
  MaxInFlight   \* requests handled at once

NoMessage == "none"

ASSUME QAConstants ==
  /\ {MaxRecords, MaxRequests} \subseteq Nat
  /\ MaxInFlight \in Nat \ {0}
  /\ NoMessage \notin Messages

Requests == 1 .. MaxRequests
Versions == 0 .. MaxRequests
Ids      == 1 .. MaxRecords

Statuses == {"pending", "approved", "rejected", "archived"}
Texts    == [question : Versions, answer : Versions]
Records  == [status : Statuses, text : Texts, message : Messages \cup {NoMessage}]
NoRecord == [status |-> "absent"]
NoPoint  == [question |-> 0, answer |-> -1]

VARIABLES
  store,     \* the records in DynamoDB
  served,    \* the items a read of each record may still return
  points,    \* the points in Qdrant
  votes,     \* the vote stored on each message
  pc,        \* where each request is
  target,    \* the record a request works on, 0 for none
  copy,      \* the record as the request read and changed it
  subject,   \* the message a request votes on
  alone,     \* requests that read the record as it is and have had it to themselves
  suspect,   \* records a request not alone worked on, or left, since last published alone
  disliked,  \* messages with a dislike that was answered ok
  raced      \* messages of which two dislikes ran at once, or a look-up missed a record

table   == <<store, served>>
durable == <<table, points, votes>>
local   == <<target, copy, subject>>
history == <<alone, suspect, disliked, raced>>
vars    == <<durable, pc, local, history>>

Locations ==
  {"idle", "edit_put", "edit_upsert", "approve_upsert", "approve_put", "reject_put",
   "archive_delete", "archive_put", "find", "requeue_put", "queue_add", "done", "stopped"}

Stored   == {id \in Ids : store[id] # NoRecord}
InFlight == {q \in Requests : pc[q] \notin {"idle", "done", "stopped"}}
On(id)   == {q \in InFlight : target[q] = id}
VotingOn(m) == {q \in InFlight : subject[q] = m}

TypeOK ==
  /\ store \in [Ids -> Records \cup {NoRecord}]
  /\ served \in [Ids -> SUBSET (Records \cup {NoRecord})]
  /\ points \in [Ids -> Texts \cup {NoPoint}]
  /\ votes \in [Messages -> {"none", "up", "down"}]
  /\ pc \in [Requests -> Locations]
  /\ target \in [Requests -> Ids \cup {0}]
  /\ copy \in [Requests -> Records \cup {NoRecord}]
  /\ subject \in [Requests -> Messages \cup {NoMessage}]
  /\ alone \subseteq Requests
  /\ suspect \subseteq Ids
  /\ disliked \subseteq Messages
  /\ raced \subseteq Messages

Init ==
  /\ store = [id \in Ids |-> NoRecord]
  /\ served = [id \in Ids |-> {NoRecord}]
  /\ points = [id \in Ids |-> NoPoint]
  /\ votes = [m \in Messages |-> "none"]
  /\ pc = [q \in Requests |-> "idle"]
  /\ target = [q \in Requests |-> 0]
  /\ copy = [q \in Requests |-> NoRecord]
  /\ subject = [q \in Requests |-> NoMessage]
  /\ alone = {}
  /\ suspect = {}
  /\ disliked = {}
  /\ raced = {}

MayBegin(q) ==
  /\ pc[q] = "idle"
  /\ \A p \in Requests : p < q => pc[p] # "idle"
  /\ Cardinality(InFlight) < MaxInFlight

Goto(q, location) == pc' = [pc EXCEPT ![q] = location]

\* The request is over: its copy is gone.
Leave(q, location) ==
  /\ Goto(q, location)
  /\ target' = [target EXCEPT ![q] = 0]
  /\ copy' = [copy EXCEPT ![q] = NoRecord]
  /\ subject' = [subject EXCEPT ![q] = NoMessage]

\* put_item: until the replicas of the table have caught up, a read, which asks for no
\* consistent one, may return what was there before.
Put(id, item) ==
  /\ store' = [store EXCEPT ![id] = item]
  /\ served' = [served EXCEPT ![id] = @ \cup {item}]

\* A request read an item of record id, changed it and holds the record from here on.
Take(q, id, item, changed, location) ==
  /\ Goto(q, location)
  /\ target' = [target EXCEPT ![q] = id]
  /\ copy' = [copy EXCEPT ![q] = changed]
  /\ alone' = IF On(id) = {} /\ item = store[id] THEN alone \cup {q} ELSE alone \ On(id)

\* It found no record (404), or may not do what it was asked to.
Refuse(q) == Goto(q, "done") /\ UNCHANGED <<target, copy, alone>>

\* It let go of it again, having published it or not.
Release(q, published) ==
  /\ alone' = alone \ {q}
  /\ suspect' = IF q \notin alone THEN suspect \cup {target[q]}
                ELSE IF published THEN suspect \ {target[q]} ELSE suspect

FreeId(id) == id \in Ids \ Stored /\ \A other \in Ids \ Stored : id <= other

-----------------------------------------------------------------------------
(* CS: channels/admin.py.                                                  *)

\* create_qa, with or without an answer; the knowledge agent queues a question it
\* could not answer in the same way, without one.
Create(q) ==
  /\ MayBegin(q)
  /\ \E id \in Ids, answer \in {0, q} :
       /\ FreeId(id)
       /\ Put(id, [status |-> "pending", text |-> [question |-> 0, answer |-> answer],
                   message |-> NoMessage])
  /\ Goto(q, "done")
  /\ UNCHANGED <<points, votes, local, history>>

\* edit_qa: new words for the question, the answer, or both; an answer may be
\* emptied.
BeginEdit(q) ==
  /\ MayBegin(q)
  /\ \E id \in Stored : \E item \in served[id] :
       IF item = NoRecord THEN Refuse(q)
       ELSE \E question \in {item.text.question, q}, answer \in {item.text.answer, q, 0} :
              Take(q, id, item,
                   [item EXCEPT !.text = [question |-> question, answer |-> answer]], "edit_put")
  /\ UNCHANGED <<durable, subject, suspect, disliked, raced>>

\* Mutant: an edit of an approved record is not indexed again.
PutEditOnly(q) ==
  /\ pc[q] = "edit_put"
  /\ Put(target[q], copy[q])
  /\ Leave(q, "done")
  /\ Release(q, FALSE)
  /\ UNCHANGED <<points, votes, disliked, raced>>

PutEdit(q) ==
  /\ pc[q] = "edit_put"
  /\ Put(target[q], copy[q])
  /\ IF copy[q].status = "approved"
     THEN Goto(q, "edit_upsert") /\ UNCHANGED <<local, alone, suspect>>
     ELSE Leave(q, "done") /\ Release(q, FALSE)
  /\ UNCHANGED <<points, votes, disliked, raced>>

UpsertEdit(q) ==
  /\ pc[q] = "edit_upsert"
  /\ points' = [points EXCEPT ![target[q]] = copy[q].text]
  /\ Leave(q, "done")
  /\ Release(q, TRUE)
  /\ UNCHANGED <<table, votes, disliked, raced>>

\* approve_qa: a blank answer is a 409 and nothing happens.
BeginApprove(q) ==
  /\ MayBegin(q)
  /\ \E id \in Stored : \E item \in served[id] :
       IF item = NoRecord \/ item.text.answer = 0 THEN Refuse(q)
       ELSE Take(q, id, item, item, "approve_upsert")
  /\ UNCHANGED <<durable, subject, suspect, disliked, raced>>

UpsertApproved(q) ==
  /\ pc[q] = "approve_upsert"
  /\ points' = [points EXCEPT ![target[q]] = copy[q].text]
  /\ Goto(q, "approve_put")
  /\ UNCHANGED <<table, votes, local, history>>

PutApproved(q) ==
  /\ pc[q] = "approve_put"
  /\ Put(target[q], [copy[q] EXCEPT !.status = "approved"])
  /\ Leave(q, "done")
  /\ Release(q, TRUE)
  /\ UNCHANGED <<points, votes, disliked, raced>>

\* Mutant: a status the record does not know.
BeginRejectUnknown(q) ==
  /\ MayBegin(q)
  /\ \E id \in Stored : \E item \in served[id] :
       IF item = NoRecord THEN Refuse(q)
       ELSE Take(q, id, item, [item EXCEPT !.status = "declined"], "reject_put")
  /\ UNCHANGED <<durable, subject, suspect, disliked, raced>>

\* reject_qa: the status alone, whatever it was.
BeginReject(q) ==
  /\ MayBegin(q)
  /\ \E id \in Stored : \E item \in served[id] :
       IF item = NoRecord THEN Refuse(q)
       ELSE Take(q, id, item, [item EXCEPT !.status = "rejected"], "reject_put")
  /\ UNCHANGED <<durable, subject, suspect, disliked, raced>>

PutRejected(q) ==
  /\ pc[q] = "reject_put"
  /\ Put(target[q], copy[q])
  /\ Leave(q, "done")
  /\ Release(q, FALSE)
  /\ UNCHANGED <<points, votes, disliked, raced>>

\* archive_qa: the point goes first.
BeginArchive(q) ==
  /\ MayBegin(q)
  /\ \E id \in Stored : \E item \in served[id] :
       IF item = NoRecord THEN Refuse(q)
       ELSE Take(q, id, item, [item EXCEPT !.status = "archived"], "archive_delete")
  /\ UNCHANGED <<durable, subject, suspect, disliked, raced>>

DeletePoint(q) ==
  /\ pc[q] = "archive_delete"
  /\ points' = [points EXCEPT ![target[q]] = NoPoint]
  /\ Goto(q, "archive_put")
  /\ UNCHANGED <<table, votes, local, history>>

PutArchived(q) ==
  /\ pc[q] = "archive_put"
  /\ Put(target[q], copy[q])
  /\ Leave(q, "done")
  /\ Release(q, TRUE)
  /\ UNCHANGED <<points, votes, disliked, raced>>

-----------------------------------------------------------------------------
(* The customer: POST /widget/feedback.                                    *)

\* A like replaces the vote, "clear" takes it back; a record stays.
Vote(q) ==
  /\ MayBegin(q)
  /\ \E m \in Messages, vote \in {"up", "none"} : votes' = [votes EXCEPT ![m] = vote]
  /\ Goto(q, "done")
  /\ UNCHANGED <<table, points, local, history>>

\* A dislike is stored as a vote first.
BeginDislike(q) ==
  /\ MayBegin(q)
  /\ \E m \in Messages :
       /\ votes' = [votes EXCEPT ![m] = "down"]
       /\ subject' = [subject EXCEPT ![q] = m]
       /\ raced' = IF VotingOn(m) = {} THEN raced ELSE raced \cup {m}
  /\ Goto(q, "find")
  /\ UNCHANGED <<table, points, target, copy, alone, suspect, disliked>>

About(m) == {id \in Stored : store[id].message = m}

\* find_by_feedback_message_id looks at one page of a scan that may lag: for each
\* record of the message the page has an item that is served, or none.
Pages(m) ==
  LET items == UNION {served[id] : id \in About(m)} \cup {NoRecord}
  IN {page \in [About(m) -> items] :
        \A id \in About(m) : page[id] \in served[id] \cup {NoRecord}}

\* Mutant: only the records still in the queue are looked at.
FindsPending(page) ==
  LET found == {id \in DOMAIN page : page[id] # NoRecord /\ page[id].status = "pending"}
  IN IF found = {} THEN {0} ELSE found

Finds(page) ==
  LET found == {id \in DOMAIN page : page[id] # NoRecord}
  IN IF found = {} THEN {0} ELSE found

\* Mutant: a repeated dislike puts the record back in the queue.
FindRecordReopens(q) ==
  /\ pc[q] = "find"
  /\ \E page \in Pages(subject[q]) :
       /\ \E id \in Finds(page) :
            IF id = 0 THEN Goto(q, "queue_add") /\ UNCHANGED <<target, copy, alone>>
            ELSE Take(q, id, page[id],
                      [page[id] EXCEPT !.status = "pending", !.text.question = 0], "requeue_put")
       /\ raced' = IF \E id \in About(subject[q]) : page[id] = NoRecord
                   THEN raced \cup {subject[q]} ELSE raced
  /\ UNCHANGED <<durable, subject, suspect, disliked>>

\* A record there is has the user's question put back; all else stays.
FindRecord(q) ==
  /\ pc[q] = "find"
  /\ \E page \in Pages(subject[q]) :
       /\ \E id \in Finds(page) :
            IF id = 0 THEN Goto(q, "queue_add") /\ UNCHANGED <<target, copy, alone>>
            ELSE Take(q, id, page[id], [page[id] EXCEPT !.text.question = 0], "requeue_put")
       /\ raced' = IF \E id \in About(subject[q]) : page[id] = NoRecord
                   THEN raced \cup {subject[q]} ELSE raced
  /\ UNCHANGED <<durable, subject, suspect, disliked>>

PutRequeued(q) ==
  /\ pc[q] = "requeue_put"
  /\ Put(target[q], copy[q])
  /\ disliked' = disliked \cup {subject[q]}
  /\ Leave(q, "done")
  /\ Release(q, FALSE)
  /\ UNCHANGED <<points, votes, raced>>

QueueRecord(q) ==
  /\ pc[q] = "queue_add"
  /\ \E id \in Ids :
       /\ FreeId(id)
       /\ Put(id, [status |-> "pending", text |-> [question |-> 0, answer |-> 0],
                   message |-> subject[q]])
  /\ disliked' = disliked \cup {subject[q]}
  /\ Leave(q, "done")
  /\ UNCHANGED <<points, votes, alone, suspect, raced>>

-----------------------------------------------------------------------------
\* The request fails or the process dies: what was written stays.
Stop(q) ==
  /\ q \in InFlight
  /\ alone' = alone \ {q}
  /\ suspect' = IF target[q] = 0 THEN suspect ELSE suspect \cup {target[q]}
  /\ Leave(q, "stopped")
  /\ UNCHANGED <<durable, disliked, raced>>

\* The replicas of the table catch up on a record.
CatchUp(id) ==
  /\ served[id] # {store[id]}
  /\ served' = [served EXCEPT ![id] = {store[id]}]
  /\ UNCHANGED <<store, points, votes, pc, local, history>>

Next ==
  \/ \E q \in Requests :
       \/ Create(q)
       \/ BeginEdit(q)    \/ PutEdit(q)        \/ UpsertEdit(q)
       \/ BeginApprove(q) \/ UpsertApproved(q) \/ PutApproved(q)
       \/ BeginReject(q)  \/ PutRejected(q)
       \/ BeginArchive(q) \/ DeletePoint(q)    \/ PutArchived(q)
       \/ Vote(q)
       \/ BeginDislike(q) \/ FindRecord(q)     \/ PutRequeued(q) \/ QueueRecord(q)
       \/ Stop(q)
  \/ \E id \in Ids : CatchUp(id)

Spec == Init /\ [][Next]_vars

-----------------------------------------------------------------------------
(* Correctness.                                                            *)

\* What the bot answers with is what the store says: an approved record has its
\* point, with its answer and its question (or the user's words, if a later dislike
\* put them back in the store only); a pending or archived one has none.
Published(id) ==
  /\ store[id].status = "approved" =>
       /\ points[id].answer = store[id].text.answer
       /\ store[id].text.question \in {points[id].question, 0}
  /\ store[id].status \in {"pending", "archived"} => points[id] = NoPoint

\* Store and index agree on every record nobody is working on, unless requests on
\* it overlapped, one worked on an item that was no more the record, or one stopped
\* half-way; and an edit, approval or archival that runs through alone, on the record
\* as it is, mends even that (edit_qa, approve_qa, archive_qa).
StoreAndIndexAgree ==
  \A id \in Stored \ suspect : On(id) = {} => Published(id)

\* A dislike that was answered ok is in the queue, however often it is repeated,
\* cleared or turned into a like, whatever the look-up missed; and once, unless two
\* dislikes of the message ran at the same time or a look-up missed its record: one
\* put just before, or one past the page (stores/qa_store.py).
DislikesAreQueuedOnce ==
  \A m \in Messages :
    /\ m \in disliked => About(m) # {}
    /\ m \notin raced => \A id, other \in About(m) : id = other

\* A request that has its record to itself, and read it as it is, changes what it is
\* about: a decision no text, an edit no status, a repeated dislike neither the status
\* nor the answer, also when it puts the item long after it was read.
LoneRequestsKeepTheRest ==
  [][\A q \in alone :
       LET before == store[target[q]]
           after  == store'[target[q]]
       IN /\ PutApproved(q) \/ PutRejected(q) \/ PutArchived(q) => after.text = before.text
          /\ PutEdit(q) => after.status = before.status
          /\ PutRequeued(q) => /\ after.status = before.status
                               /\ after.text.answer = before.text.answer]_vars

\* Violated.  2026-06-22-qa-learning-loop-2a-design.md:30 "rejected -> never
\* indexed": once nobody works on it, a rejected record has no point.
RejectedIsNotIndexed ==
  \A id \in Stored : store[id].status = "rejected" /\ On(id) = {} => points[id] = NoPoint
=============================================================================
