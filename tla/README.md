# A specification of the customer-support agent

TLA+ modules, TLC runs and TLAPS proofs about the program in
`src/agent_customer_support`: a chatbot that answers questions from guides,
collects the evidence of bugs, files tickets and hands users to the support team
(CS). Sources below are relative to that directory.

## The system

| Component | Keeps | Operations | Correct when |
|---|---|---|---|
| Turn pipeline (`agents/coordinator.py`) | nothing between turns; a copy of the session within one | one turn per `POST /widget/chat`: guard the input, spend a contact gate, route, run agents, file, hand off, check the reply, save | a flow is filed and handed off once, effects happen in their order, a contact lands on the ticket it belongs to, the user gets an answer |
| Routing rules (`agents/routing.py`) | nothing | `next_step`, `RouteState.start`, `RouteState.after` | the loop ends below the hop limit, every cap turns into a handoff |
| Issue verification (`agents/issue_verification.py`) | slots, questions asked, documentation check, in `pending_context` | check the guides, merge a reading, file an answer, filter the questions, write the report | nothing learned is lost, no slot is asked twice, the collection ends, no lost decision files a ticket before the cap |
| Knowledge (`agents/knowledge.py`) | nothing | answer, ask to clarify, suspect a bug, log a missing answer | an answer cites what it was offered; a missing answer is logged before CS is paged |
| Guardrails (`agents/guardrail.py`) | nothing | refuse a message; reject, retry, edit a reply | no ungrounded claim survives; an outage blocks nobody |
| Session store (`stores/session_store.py`, Redis) | `SessionState` with a TTL | get, save (whole) | whatever turns interleave, a session fits the flow it names |
| Conversation store (`stores/conversation_store.py`, DynamoDB) | turns, contact, summary | append, set contact, list by customer | no message is lost, lists are complete |
| Request backlog and issue desk (`stores/request_backlog.py`, `channels/issues.py`) | one row per bug, feature request, missing answer | add, set contact, edit status, note, due date | history, status and `resolved_at` agree; no row changes hands |
| Q&A loop (`stores/qa_store.py`, `rag/qa_indexer.py`, `channels/admin.py`) | records and their points in Qdrant | add, edit, approve, reject, archive, downvote | the bot answers with what the store says is approved |
| Quota (`stores/usage_store.py`) | a count per customer and day | consume, remaining | no slot of a day is taken twice or beyond the limit |
| Customers (`stores/customer_registry.py`, `channels/admin_customers.py`) | profiles | create, patch | every value was given by someone; a patch that read the profile as it is undoes no other that it did not race |
| MantisBT and feature requests (`mantis.py`, `channels/feature_requests.py`) | issues, files | create, note, attach | no request is filed twice, what a row names is stored |
| Retrieval, citations, images (`rag_client.py`, `citations.py`, `doc_images.py`, `stores/doc_image_store.py`) | a cached list of images | search with fallback, select, list | the best passages in scope are read, only what was offered is shown |

Components meet in the turn. The coordinator awaits the stores and services one
after the other on one event loop; every await is a point where another turn of
the same conversation may run or where the turn may stop. Nothing is locked and
nothing is rolled back: the order of the writes is the only protection, and the
session in Redis is the only memory from one turn to the next. The admin
endpoints share the stores with the turns and with each other. The hard
behaviours are therefore turns that interleave over one session; a turn that
stops between two writes; counters and dictionaries carried over many turns and
read by rules that assume who wrote them; admins whose reads, changes and puts of
one record overlap; and calls to a language model that may return anything its
schema admits, or nothing. `PROJECT.json` lists each place under `hazards`.

## Modules

| Module | Models | Runs |
|---|---|---|
| `Routing` | `agents/routing.py`: the snapshot, the table of rules, how a report is folded in | through `Coordinator` |
| `Coordinator` (EXTENDS `Routing`) | the turns of one conversation over the stores they share | `turns_are_answered`, and through `SessionHistory` |
| `SessionFlow` | what one message may make of where the user is, abstractly | refined by the next |
| `SessionHistory` (EXTENDS `Coordinator`) | the same turns, with the session each has read kept in a history variable | `turns_in_sequence`, `turns_at_once` |
| `EvidenceCollection` | what collecting a bug's evidence promises, abstractly | refined by the next |
| `IssueVerification` | `agents/issue_verification.py` and the coordinator's part in it, over the turns of one collection | `evidence_collection` |
| `ConversationStore` (`MCConversationStore` for TLC) | `stores/conversation_store.py`: load and put of one item, the summary, the paged list | `conversation_store` |
| `QALearning` | `channels/admin.py`, `stores/qa_store.py`, `rag/qa_indexer.py` and `POST /widget/feedback`: the Q&A records, their points and the votes | `qa_learning`, `rejected_is_indexed` |
| `Picks` | passes over a list that keep some of its items: the list comprehensions of the next three, written as functions so that they can be proved about | through `Answering` |
| `Retrieval` (EXTENDS `Picks`) | `rag_client.py`, `applications.py`: scopes, filter, cap per document, cut, as operators | through `Answering` |
| `Citations` (EXTENDS `Retrieval`) | `citations.py`: the catalogue and what of a model's declarations is shown | through `Answering` |
| `ReplyText` (EXTENDS `Picks`) | `doc_images.py`, `guardrail.apply_claims` and the markers of a composed text | through `Answering` |
| `Answering` (EXTENDS the last two; `MCAnswering` for TLC) | `agents/knowledge.py`, `agents/guardrail.py` and the repair ladder: one question from the search to the screen | `answering`, `judge_never_silences` |
| `GuideImages` | `stores/doc_image_store.py`: the cached listing of a bucket, over turns | `guide_images` |
| `Accounts` | `stores/usage_store.py`, `stores/customer_registry.py`, `channels/admin_customers.py` | `accounts` |
| `RequestDesk` (`MCRequestDesk` for TLC) | `stores/request_backlog.py`, `channels/issues.py`, `channels/feature_requests.py`, `mantis.py`: filing, editing, listing and exporting requests | `request_desk` |
| `*Proofs` of `Coordinator`, `IssueVerification`, `ConversationStore`, `QALearning`, `Answering`, `GuideImages`, `Accounts`, `RequestDesk` | the theorems | tlapm |

### Coordinator

Each turn `t` has a location `pc[t]`, its copy of the session `local[t]`, the
route snapshot, the refs of a ticket and what its last agent returned. Every
await on a store or on a service with an effect is one action:
`BeginTurn` is the read of the session in `handle_turn`; `EnterRoute` is
`_take_contact`, `_maybe_cancel` and `RouteState.start`, which run without an
await between them; `TriageStep`, `KnowledgeAnswers`, `KnowledgeAsks`,
`VerifyStep` are an agent's call with everything the driver does to the session
when it returns; `LogMissingAnswer` and `QueueQuestion` are the two writes of the
knowledge agent; `CreateIssue`, `AddBugRow`, `HandOffTicket` are
`_step_file_ticket`; `SetConversationContact`, `SetRowContact`, `AddContactNote`
are `_attach_contact`; `ScreenReply` is the output guardrail and
`_arm_contact_gate`; `SaveSession`, `AppendUser`, `AppendReply` are `_finish`.
`Fail(t)` is an exception or the death of the process at any location, and
`ExpireSession` the Redis TTL. A row, an issue and a flow are named by the turn
that made them, so that "which ticket does this contact belong to" is a
comparison of numbers; 0 names nothing.

Left out: the wording, the passages, the bug's slots (see `IssueVerification`),
the selected applications, screenshots in S3, presigned links and tracing. The
webhook is taken as configured. A page to CS that was delivered and then raised
is the failure at `screen`. An append is one step here, so that what two turns at
once do to the history is seen in `ConversationStore` only.

### SessionFlow and SessionHistory

`SessionFlow` is what `agents/coordinator.py` promises about the session, with the
agents, hops and stores left out. A user is in no flow, was asked to clarify, is
asked for evidence, or may leave a contact; `Outcomes(s, m)` is everything message
`m` may make of a session `s`: the gate taken down (`Begun`), a flow left, an answer
(`Settled`), a question below the limit (`Asking`), one more turn of a collection
below its cap (`Collecting`), a handoff (`HandedOff`). A message is taken with the
session as it then stands; later `Store` writes one of the outcomes *of that
session*, or `Drop` leaves everything as it is. That two messages may be taken with
the same session, so that the second to be stored undoes the first, is what the code
does and what the specification allows; a session no single message could have
produced is what it forbids.

`SessionHistory` adds to `Coordinator` the variable `opened`, the session each turn
has read and not yet written; it restricts no step. `Where` maps a session to its
place (a gate's ticket is left out, the context is the flow it is about), turns
not begun are `unread`, and turns between `BeginTurn` and `SaveSession` are
`underway`. `TurnsActWhole` is the refinement. It relates the counters, the flow and
what the user was told at the end of a turn to those at its start, over up to four
agent steps and through any other turn: a counter kept after its flow was left, a
question asked at the limit or a collection begun after the user was told that it is
no bug each break it.

### IssueVerification and EvidenceCollection

One collection from the turn that opens it until it is filed, explained away or
dropped. `stored` is the verify context in the session, `work` the turn's copy.
A slot is empty, `read` (the model's value) or `as_written` (the user's message);
`askedLast` and `askCounts` are the guard's memory. `DocCheck`, `DecisionLost`
(`complete_structured` returned nothing), `NeedMoreInfo` and `Conclude` are the
paths through `run`; `Merge`, `FillAnswered`, `MayAsk`, `GivesUp` and `Questions`
are `BugSlots.merge`, `_fill_answered` and the rules of `_guard`. `DropFlow` is a
cancel phrase or the TTL between turns. Not in the model: the image flag, the
query and the wording of replies. The canned reply to a lost decision also asks
the user for the steps and the message shown; the code does not count it, and the
answer to it is only kept if the model reads it, so `GuardAsksOnce` is about the
guard's questions. The message of the turn that meets the cap is not read for
slots (it is in the ticket's transcript), which is why `AnswersAreFiled` leaves
that turn out. `asked`, `unseen` and `wordless` are history: the replies the user
got, the questions lost with a turn that stopped after saving, and those answered
with a picture only. `GivenUpFactsWereAsked` reads them when the guard files
on its own, several turns after they were written.

`EvidenceCollection` has four variables: how the collection ended, the facts
known, the turns left and the tickets filed. It promises that facts are only
added, that every turn not the last spends budget, that an exhausted collection
is not explained away, and that one that ends filed has a ticket with all that
was known. `IssueVerification` instantiates it with
`known <- Known(stored)` and `left <- MaxVerifyTurns - turns` and has it as the
property `KeepsItsPromise`.

### ConversationStore

`row[c]` is the DynamoDB item. A turn's `Load` is `get_item`, `PutContact`,
`PutUser` and `PutReply` are the `put_item` of `set_contact` and of the two
appends of `_finish`, with `copy[t]` the item held over the await between them;
`SaveSession` is the save before them, where the user's message gets its
timestamp, and `Stop` an exception or a crash. `accepted[c]` is what the puts that
succeeded were to add, and `overlapped` the conversations in which two turns were
in flight together: the properties compare the first with the row and excuse a
difference by the second. With `StaleReads`, a load may return the item before
its last put, as DynamoDB allows a read that does not ask for consistency.
`OpenList` and `NextPage` are `list_by_customer` under the admin's list, which
appends page to page; the index is read as it stands, without its own lag. One
customer, and the title are left out.

### QALearning

A request `q` of CS or of a customer has a location, the record it works on
(`target`) and its copy of it. The read that opens a handler and the changes to
the copy, which run up to the next await, are one action (`BeginEdit`,
`BeginApprove`, `BeginReject`, `BeginArchive`, `FindRecord`); every `put_item`,
`upsert` and `delete` is another, in the code's order: an edit writes the store
and then the index, an approval and an archival the index and then the store, a
rejection the store alone. `Stop` is an error at an await (the 502 of a failed
upsert, a timeout) or the death of the process. A text is named by the request
that wrote it, which is what the properties compare.

Neither `get_item` nor the scan of the look-up asks for a consistent read
(`stores/qa_store.py:24`, `54`). `served[id]` holds the items a read may still return:
a put adds one, `CatchUp` leaves the last. The scan looks at one page, so of each
record of the message it returns an item that is served, or none. An edit right after an
approval may thus put `pending` back with nobody else at work, and a second dislike may
miss the record of the first. The properties allow what the code does with such reads
and no more: `alone`, `suspect` and `raced` are history, namely the requests that read
their record *as it is* and have had it to themselves since; the records that another
kind of request worked on, or left half-way, and that none alone has published since;
the messages of which two dislikes overlapped or a look-up missed a record. Left out:
the bad answer and the transcript (copied from the conversation), the application's
slug, the creation of the collection, and the embedding, which is part of the upsert's
await.

### Retrieval, Citations, ReplyText and Answering

`Answering` is one question, from the search to what the user sees: each await on
an index, a store or a model is an action (`Contextualize`, `Search`, `Widen`,
`FindImages`, `SearchQA`, `Compose`, `Judge`, `Repair`, `Recheck`, `Present`), and
`Raise` is an error of a call that nothing catches, the search of the learned answers
and the listing of images included, of whose errors only some are caught
(`agents/knowledge.py:330`, `stores/doc_image_store.py:65`). What an index or a model gives
back is any value it may give: any ranking of the chunks in scope, any status with
any reply and any declared source, a verdict with any claims, or nothing. What is
done with it is computed by the operators of the other modules, which
translate the functions of the code one for one: `Ranked` is the collapse per
document and the cut of `_query`, `SelectCitations` and `SelectImages` the two
`select`, `AppliedClaims` is `apply_claims`, `ResultOf` the statuses of
`KnowledgeAgent.run`.

A text is a sequence of tokens: a span of prose, an image marker, or a control
marker a model left in. A chunk has a document and an application, or lacks them.
Scores are the order of the hits. Left out: the wording of prompts, the
embedding, and the canned texts. The backlog row and queued question after a
`no_answer` are `Coordinator`'s (`LogMissingAnswer`, `QueueQuestion`).

`BestInScopeIsRead` is stated about the scope the search used, and
`_build_filter` filters nothing for an empty one: a caller that passes no
application searches every guide. `narrow` keeps what the first search returned, so
that "the second is made only when the first found nothing" is a statement about two
searches. `SourcedAnswersAreJudged` is about answers that show a source: a declaration of
nothing but a passage without a document id shows none, and such a reply is not judged
(`passages_for`); a clarifying question shows its sources and is not judged either
(`agents/knowledge.py:469`). The text shown is the one the judge saw last and passed, or
could not judge; or it is that text with the claims of the last verdict applied, and
what the judge named is gone "unless a later claim puts it back": claims are applied one
after the other, each to the text the last one left, so a span deleted by the first may
be what the second shortens its own to (`guardrail.py:96`). The instance has such a
list, and without the exception the property fails on it.

### GuideImages

`bucket` is the set of images, `cache` the names with their expiry. A listing
reads file by file, where the code reads page by page, while files come and go, and
turns list at the same time; the last to end is kept, even if it began first.
`turned` is history: when each file last came or went.

### Accounts

A request reads a profile and works with its copy. `BeginQuestion` is
`get_current_customer` and the quota's gate in `chat`, `ReadDay` the reading of the
day, `Consume` the conditional update, `ConsumeUnheard` one that is applied and whose
answer is lost, so that the question is refused or the client library counts it again;
a patch is `BeginPatch` (read and check) and `PutPatch` (the whole item). The read asks
for no consistency (`stores/customer_registry.py:47`): `served` holds the items it may
return, as in `QALearning`. `wanted` and `given` are history: the profiles with every
patch applied, field by field, to what was there, and every value a field was created
with or sent; `raced` the customers of whom two patches ran at once, or one worked from
an older item, and `unheard` the slots counted for an answer nobody got. The role
stands for every field a patch may leave out, the limit for those for which null is a
value. An expired counter is deleted only when no request still counts on its day,
since DynamoDB deletes a week later.

### RequestDesk

A row is named by the request that files it, a time is a reading of `clock`, which
every stamp moves on. A filing goes through `Upload` (file by file), `FileTicket` /
`TicketUnknown` / `RefuseTicket` (stored and known; stored or not, and not known;
a 4xx, with the one retry without a handler), `Attach` and `AddRow`; the agents'
bug rows join at the ticket, missing answers at the row. An edit reads its time
(`BeginEdit`) and is one conditional update (`ApplyEdit`). A list or an export reads
the index page by page (`ListPage`), whose type filter comes after the page is cut,
and then the full rows in batches that may be answered in part (`FetchSome`); the
index lags (`IndexRow`). `Stop` ends a request anywhere. Due date and category
follow the rule of the note and are left out, as is the rendering of the workbook.
Two reads are taken as current that the code does not ask to be: the batch get of an
export (`stores/request_backlog.py:252`), whose lag could leave out a row written just
before, and the read before an edit (`:173`), from which only the tenant and type
are used, which no edit changes. An update the client library sends a second
time because its answer was lost (`list_append` twice) is not modelled.

## What the runs show

| Run | Bounds | Shows |
|---|---|---|
| `turns_in_sequence` | 5 turns one at a time, cap 3, no failure, expiry | one ticket per flow, contacts on the right ticket |
| `turns_at_once` | 3 turns, 2 at once, failures, cap 2, no expiry | the session's consistency, the gate's, the row's, the order of effects; what a turn stores is what one message makes of the session it read |
| `turns_are_answered` | 2 turns at once, limits of 1, failures, expiry, fair | every admitted turn that does not fail ends with both messages saved |
| `evidence_collection` | 3 slots, 2 required, cap 3, one failure, a patient user | what the guard asks and files without, the answers, the promise, and that it ends |
| `conversation_store` | 2 conversations, 3 turns, 2 at once, stops, pages of one | a history only one turn at a time writes loses nothing; order and summary survive any overlap; what the paged list misses or repeats |
| `qa_learning` | 4 requests, 2 at once, 2 records, 1 message, stops, lagging reads, a look-up that may miss | when store and index agree, what lone requests keep, that a dislike is queued, and when only once |
| `rejected_is_indexed` | violated | approve then reject leaves the point; the design has rejected records never indexed |
| `answering` | 5 chunks of 3 documents and a note without one, 2 passages of 1 per document, 4 texts, 5 declarations, 6 lists of claims | what is read, what is shown, what was judged |
| `judge_never_silences` | violated | an error of the judge's call loses the composed answer; a comment has a judge that cannot answer never silence one |
| `guide_images` | 2 files, 2 turns, a lifetime of 2 in 4 ticks | how far the offered images may lag the bucket |
| `accounts` | 2 customers, 3 requests, 2 at once, limits to 2, 2 days, lagging reads, lost answers | slots and patches |
| `request_desk` | 2 customers, 3 requests of which 2 may file, 2 at once, 1 file, pages and batches of one | tickets, rows, histories, tenants, exports |

Bounds. Five turns in sequence are enough for a flow of cap 3 to open, run to its
cap, be filed, have its gate answered and a further flow to begin. For turns at
once, two in flight is what a second tab or a resend gives; a third turn reads
what the two left. `MaxVerifyTurns` and `MaxHops` stand at or below the code's 4
and 6; the proofs hold for all values. Three slots have the guard's cases: one
optional, one asked for while another is filtered, and more than one missing.
One failure is at any step; a second meets the same states because a failed turn
leaves only what is stored. The runs switch deadlock off because turns run out,
and a collection that ended takes no step.

Four requests on Q&A records are enough for a record to be created or queued,
approved, worked on by two at once or from an older item, and mended or disliked
again; two records let one stand still while the other moves. Three on accounts let
two patches run at once or one read what another replaced, and a question meet a slot
whose answer was lost.

For the store, two conversations and three turns let two turns of one overlap
while another moves between two pages; conversations are interchangeable and
reduced by symmetry.

In `answering` two chunks share a document and one more document has none, so that
the cap, the cut and the second search each leave something out; the texts have an
image twice, an invented one, one of another guide, and each control marker; the
claims are minor or not, in the text once, twice or not at all. A lifetime of two
ticks lets two listings overlap and one of them be stale when it is kept. Two
requests in flight are a question asked twice, or two admins; a third request of
the desk edits what the second lists while the first stands. Pages and batches of
one row make every row a boundary.

Fairness. `FairSpec` has weak fairness of each admitted turn's steps: the event
loop runs a started request on, and the language model and store clients have
timeouts. `PatientSpec` adds that the user goes on answering: the claim is about
a user who does. Neither makes users send messages to the coordinator, nor
failures or expiry happen.

Each property of a passing run has a mutant in `PROJECT.json`: an operator in the
same module, commented as a mutant, with which TLC finds it violated.

## What is proved

For every value of the constants that each module's assumptions admit, which ask for
no more than that limits are numbers, most of them not zero.

`CoordinatorProofs`: `TypeCorrect`, `ContextAlwaysMatches`, `BudgetAlwaysFits`,
`HopLimitIsNeverReached`, `HandoffsCloseTheirFlow`, for any number of turns at
once, with or without failures and expiry. None is inductive alone. `SessionInv`
adds, for each turn, that the snapshot's counters are those of the turn's copy
(so the cap the router reads is the one the driver moves), that the flow the
snapshot resumes is the copy's, that hops and what has been reported so far
bound each other (a user error can be followed by knowledge only), and that a
result on its way to the screen left no flow open. All copies of the session,
stored or not, satisfy the same predicate `Fits`, which is why reading, saving in
any order, failing and expiring preserve it.

Also in `CoordinatorProofs`, on what turns leave outside themselves:
`EffectsAlwaysInOrder`, `RowsNameTheirIssue` and `GatesNameTheirHandoff`, again for
any number of turns at once that fail or not, and, for turns that come one at a
time and do not fail (`MaxInFlight = 1`, `~ FailuresAllowed`), `LoneTurnsFileOnce` and
`LoneContactsReachTheirHandoff`. The first three rest on `EffectsInv`: `StageInv(t)`
reads from where turn `t` is which of its effects are out (nothing filed or paged
before the handoff; at the router, a row for a missing answer if and only if the
snapshot says so, which with the routing rules makes the handoff its next step; at
the last page, the row and its ticket), and every copy of the session, stored or
held, names only handoffs that took place. It needs the counters of `SessionInv`,
because a hop limit that fired would take a turn with a missing answer elsewhere.
The last two rest on `AloneInv`: one turn is underway and turns began in order;
unless it is about to add the row, no ticket or row has the flow of its copy, and
outside the turn the same holds of the session, so a flow that was filed is never
offered again; the ticket its gate or its references name has no contact yet and
is the last CS was paged about. Both assumptions are needed (TLC breaks both
invariants within four turns when either is dropped): with overlapping turns
the saved session can offer a flow that another turn files, and a turn that
fails after filing leaves the flow open. Both strengthenings were model-checked on
the bounds of `turns_at_once` and `turns_in_sequence` before the proof.

Last in `CoordinatorProofs`, `TurnsAlwaysActWhole`: `HistorySpec` implements
`SessionFlow`, for any number of turns at once, with or without failures and expiry.
Lemmas first relate each operator on the session to its abstract one (`WhereBegun`,
`WhereClosed`, `WhereKnowledge`, `WhereVerified`, `WhereGated`). `OnWay(t)` then says
of every location between the read and the write what the turn's copy may be,
relative to some `b \in Begun(opened[t])`: before any verdict it is `b` itself; after
an answer, one of `Settled(b)`; after a question, one of these with the question
counted, which may already be the last; after a report of the verifier, `b` with one
more turn of its collection. `RouterSays` shows that whatever step the routing rules
name next is one that such a copy allows. It rests on `SessionInv` (the snapshot the
rules read has the copy's counters), and each report re-establishes `OnWay`
(`AfterReport`), so a step that saves stores one of the outcomes and any other is a
stutter. `BudgetAlwaysFits` is proved and no run of its own checks it: a collection's
counter is part of what `TurnsActWhole` relates.

`IssueVerificationProofs`: `CollectionTyped`, `SlotsAreAskedOnce`,
`SavedQuestionsAreOpen`, `AnswersAlwaysFiled`, `GivenUpFactsWereAlwaysAsked` and the
refinement `CollectionKeepsItsPromise`. The invariant `CollectionInv` relates
three copies of what was asked: the replies the user saw are counted in the
session, the session's counts are at most the working copy's, and each is at most
one; what the pending reply asks for was never shown. That saving comes before
replying is what makes this inductive through failures. `QuestionsFit` is the other
direction, for each question the session counts: it reached the user, is about to, or
was lost (`Reached`); and its fact is known, is still asked for by the last reply, or
was answered with a picture only (`Answered`). When the guard gives up, what is missing
is counted, the last reply's facts were just filed unless there were no words, and so
each missing one is among the asked and the wordless. For the refinement the invariant
adds that the working copy knows at least what is stored and that a turn about
to close as filed has put what it knows in a ticket.

`ConversationStoreProofs`: `StoreTyped`, `QuestionsComeFirst`,
`SummariesAreCurrent`, and, if reads do not lag, `SoleTurnsKeepEverything` and
`OnlyOverlapListsTwice`. The first two rest on `ItemsInv`: every item stored *or
held by a turn* is ordered, summarised, and contains a message only if its turn is
past storing it, so that however old a copy is, the turn that holds it does not
find its own message there twice. The last two rest on `SoleInv`: outside
`overlapped` one turn is in flight, what it holds is the stored item and what it
appends is newest; hence `updated_at` only grows and the cursor stays below what
was shown. `UnmovedAlwaysListedOnce` needs no such thing. Its `PagingInv` says of a
list underway that a conversation which was there and has not moved is in the index,
and has been shown once if the cursor is past it and not yet otherwise; a page keeps it
because `PagePasses` shows that what lies between two cursors is what the page has.

`QALearningProofs`: `RecordsTyped`, `IndexFollowsStore`, `LoneWritesKeepTheRest`
and `EveryDislikeIsQueued`, with reads that lag and look-ups that miss. `Held` says what a
request holds, and that one that is alone shares its record with nobody;
`OthersStay` and `RecordsStay` say what a step of one request leaves as it was, so
that each action is only looked at for the record it is about. `AgreeInv` adds the
two facts that make the agreement inductive: a lone request's copy is the record
as it stands, but for what it is about to write (so at `approve_put` the point
already has the text of the copy), and a record whose holder has written nothing
yet is still published. `DislikeInv` adds that, outside `raced`, one request votes
on a message and knows that there is no record when it is about to queue one; that a
dislike that was answered has a record needs no such condition.

`AccountsProofs`: `AccountsTyped`, `SlotsAlwaysTakenOnce`,
`PatchesAlwaysKeepTheRest`. While a counter is kept, the slots of the questions
admitted on its day and those whose answer was lost are exactly `1 .. usage`, so the
next one is new; a counter that expired is never counted on again, because no request
in flight holds its day. For patches, every item that is stored, served or held has
only values that were given, which no lag and no overlap changes; and a profile
outside `raced` has at most one patch in flight, whose copy is the profile as it
stands.

`GuideImagesProofs`: `OffersAlwaysLagOneLifetime`. The invariant says of every file
already read by a listing that it was there, or gone, at some time since the
listing began, and of the cache that its names come from such a listing that began
one lifetime before it expires.

`RequestDeskProofs`: `NeverTwoTickets`, `RowsAlwaysBacked`, `RowsAlwaysAgree`,
`SavedStatusesAlwaysKept`, `EditsAlwaysStayInTenant`. `FilingOK` says what a request
has stored at each step of its filing (no row before the end, no ticket before the
ticket step, every file it counts). `StampInv` says that each edit has a time of
its own which no history has before it is saved; with it an appended change is
the only one of its time. The clock never runs out because each request stamps
once (`JobsOK`: the clock is at most the number of those that may have).
With the types of the lists, `TypesAlwaysHold`, these are about filing and editing.
`ExportsAlwaysExact` is about reading: `ExportInv` says that no two rows are of one
time; that what a list has so far is asked for, indexed and newest first; that it has
all it should from the newest down to the cursor, and all of it once the last page was
short; and that the rows of the batches before the current one were fetched. Rows only
join the index, and no edit changes what a list looks at (`RowsKept`), so it does not
matter which other requests run between two pages.

`AnsweringProofs`: `BestAlwaysRead`, `ShownAlwaysBacked`, `SourcedAlwaysJudged`, for
any index, replies, declarations and claims. Most of it is about operators, in the
order in which an answer meets them: `PickedItems` and `PickedTyped` (what a thinned
list holds), `RankedFacts` and `ReadFacts` (the cut and the cap per document: a hit is
passed over only for enough better ones), `Selected` (images), `CitationFacts`
(sources), `EditedFacts` (a claim's span is gone after its edit, and only a later edit
brings it back). The invariant `AnswerInv` has three parts. `ReadInv`: the wide scope is
tried only after the narrow one, whose response is kept, had no passage. `ShowInv`:
nothing is written before the composer, and the images available are those of the
guides that were read. `JudgedInv`:
a reply with sources that is about to be shown is `Settled`, which is the property but
for the presentation. Assumed of the constants (`ReplyConstants`, `AnsweringConstants`,
`FilesAreScoped`): spans are not markers, a shortened span is a span, replies and lists
are sequences, and the images a chunk refers to are finitely many markers, with the
files of one guide in the folder of its application.

Induction. The theorems of the library that take a predicate as a parameter
cannot be used, but `NatLessThanWellFounded` and `WFMin` take a set: `NatMin`
gives every nonempty set of numbers a least one. Hence arguments by a smallest
counterexample: that `Newest` and `SetToSeq` have a value, that an item of each
rank is picked, and that the recursive function in `EditAll` exists and keeps
what each edit keeps.

Only model-checked: `TurnIsAnswered` and `EveryCollectionEnds`, liveness under
fairness, which is out of the prover's reach. Every other property of a passing run is
a theorem.

## Where the code differs from what is said of it

The runs that expect a violation show two. Others were met while modelling; the
behaviour is in the models, and the properties are stated so as to allow it.

- Edits of one row that overlap are appended in the order their updates arrive,
  with the times of their requests: a history is not always oldest first
  (`models.py:356`). `RowAgreesWithHistory` is about the last entry, not the latest.
- `set_contact` on a conversation without an item writes a null index key and is
  refused, where its docstring has the row created (`stores/conversation_store.py:118`).
- With reads that lag (`StaleReads = TRUE`), the append of a reply undoes that of its
  question (`stores/conversation_store.py:88`): the reads do not ask for consistency.
- The session is saved before the history: a stop between them leaves questions
  nobody saw, and the next message is filed as their answer
  (`agents/coordinator.py:596`).
- A second dislike is queued again when the record is past the first page of the
  scan, or was put just before (`stores/qa_store.py:54`).
- A request that reads an item from before the last put undoes that put, although
  nobody raced it: a patch of a profile (`stores/customer_registry.py:47`), an edit
  after an approval or an approval after an edit, which the admin's page sends one
  after the other (`stores/qa_store.py:24`).
- An update of the counter whose answer is lost uses up a question of the day
  (`stores/usage_store.py:73`).
- The listing of images is to "never raise" (`stores/doc_image_store.py:41`,
  `agents/knowledge.py:348`), but only a `ClientError` is caught: a connection
  error or a timeout loses the turn.
- A clarifying question with sources goes out unjudged (`agents/knowledge.py:469`).
- A turn whose page to CS fails has filed its ticket and row, and the turn that
  repeats it files both again (`agents/coordinator.py:477`).
- A guide named by a model's declaration alone, whose passage has no document id,
  is dropped from the catalogue, so the reply is neither sourced nor judged.
- An empty choice of applications is not a narrow scope but none (`rag_client.py:37`).

## Not modelled

Tokens, passwords and the contact parser (pure functions of one input); the
providers' request formats and token counts; tracing, settings and table creation;
screenshots in S3 and presigned links of attachments (stored under fresh keys and
read by nobody in the program); mail and chat transports (one await that may fail);
the spreadsheets' layout; the front end; scripts and evaluation. None keeps state that
another part of the program acts on.

## Plan

What is left: appends of `Coordinator` as the load and put of `ConversationStore`, composed.
