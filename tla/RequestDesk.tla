----------------------------- MODULE RequestDesk -----------------------------
(***************************************************************************)
(* The request backlog (stores/request_backlog.py) and what writes and     *)
(* reads it: the customer's feature form (channels/feature_requests.py),   *)
(* the bug and unanswered-question rows the agents file, the tickets of    *)
(* mantis.py, the admin's edits (channels/issues.py) and the exports.      *)
(*                                                                         *)
(* Up to MaxInFlight requests run at once; each await is a step, and a     *)
(* request may stop at each.  A row's id is the request that files it, and *)
(* a time is a reading of clock, which every stamp moves on.               *)
(***************************************************************************)
EXTENDS Integers, Sequences, FiniteSets

CONSTANTS
  Customers,
  EditStatuses,  \* the statuses admins set in this instance
  MaxRequests,   \* requests handled in all
  MaxRows,       \* of them, the first that may file a row
  MaxInFlight,   \* requests handled at once
  MaxFiles,      \* files on one request (5 in the form)
  DayLength,     \* stamps to a day
  PageSize,      \* rows one index query reads (1 MB of them)
  BatchMax       \* keys of one batch read (100)

IssueStatuses    == {"pending", "processing", "completed", "no_issue"}
FeatureStatuses  == {"received", "processing", "responded", "updated", "awaiting_agreement"}
ResolvedStatuses == {"completed", "no_issue", "updated"}
Statuses         == IssueStatuses \cup FeatureStatuses

ASSUME DeskConstants ==
  /\ EditStatuses \subseteq Statuses
  /\ MaxFiles \in Nat
  /\ MaxRows \in 0 .. MaxRequests
  /\ {MaxRequests, MaxInFlight, DayLength, PageSize, BatchMax} \subseteq Nat \ {0}

Requests == 1 .. MaxRequests
Times    == 0 .. MaxRequests      \* 0 for never
Day(t)   == t \div DayLength

Types           == {"bug", "new_feature", "how_to_missing"}
EditedTypes     == {"bug", "new_feature"}
StatusesOf(t)   == IF t = "new_feature" THEN FeatureStatuses ELSE IssueStatuses
FirstStatus(t)  == IF t = "new_feature" THEN "received" ELSE "pending"

Keep     == "keep"  \* the patch left the status out,
KeepNote == -1      \* and the note, which stands for the due date and category too
Clear    == 0       \* a note or contact that is not there; else the request it is from
Notes    == 0 .. MaxRequests

StatusChange == [status : Statuses, at : Times, note : Notes]
Rows ==
  [customer : Customers, type : Types, created : Times, status : Statuses,
   statusAt : Times, resolvedAt : Times, note : Notes, contact : Notes,
   files : 0 .. MaxFiles, ticket : BOOLEAN, history : Seq(StatusChange)]
NoRow == [type |-> "absent"]

Filing == [customer : Customers, type : Types, files : 0 .. MaxFiles, stored : 0 .. MaxFiles,
           handler : BOOLEAN, ticket : BOOLEAN]
Edit   == [customer : Customers, type : EditedTypes, target : Requests, at : Times,
           status : EditStatuses \cup {Keep}, note : Notes \cup {KeepNote}]
Export == [customer : Customers, type : EditedTypes, full : BOOLEAN, from : Times, to : Times,
           cursor : Nat,
           ids : Seq(Requests), chunk : Nat, found : SUBSET Requests, seen : SUBSET Requests]
NoJob  == [type |-> "absent"]

VARIABLES
  rows,      \* the backlog table
  index,     \* the rows its by-customer index shows
  files,     \* files stored under a request's id
  tickets,   \* tickets filed for each request
  attached,  \* requests whose ticket carries the files
  clock,
  pc,        \* where each request is
  job        \* what it works on

tables == <<rows, index, files, tickets, attached>>
vars   == <<tables, clock, pc, job>>

FilingSteps == {"upload", "ticket", "attach", "add"}
ExportSteps == {"list", "fetch", "exported"}
EditSteps   == {"edit", "saved"}
Ended       == {"idle", "done", "saved", "exported"}

Stored   == {id \in Requests : rows[id] # NoRow}
InFlight == {q \in Requests : pc[q] \notin Ended}

TypeOK ==
  /\ rows \in [Requests -> Rows \cup {NoRow}]
  /\ \A id \in Stored : rows[id].status \in StatusesOf(rows[id].type)
  /\ index \subseteq Requests
  /\ files \subseteq Requests \X (1 .. MaxFiles)
  /\ tickets \in [Requests -> Nat]
  /\ attached \subseteq Requests
  /\ clock \in Times
  /\ pc \in [Requests -> FilingSteps \cup ExportSteps \cup EditSteps \cup {"idle", "done"}]
  /\ \A q \in Requests :
       job[q] \in IF pc[q] \in FilingSteps THEN Filing
                  ELSE IF pc[q] \in EditSteps THEN Edit
                  ELSE IF pc[q] \in ExportSteps THEN Export ELSE {NoJob}

Init ==
  /\ rows = [id \in Requests |-> NoRow]
  /\ index = {}
  /\ files = {}
  /\ tickets = [id \in Requests |-> 0]
  /\ attached = {}
  /\ clock = 0
  /\ pc = [q \in Requests |-> "idle"]
  /\ job = [q \in Requests |-> NoJob]

MayBegin(q) ==
  /\ pc[q] = "idle"
  /\ \A p \in Requests : p < q => pc[p] # "idle"
  /\ Cardinality(InFlight) < MaxInFlight

Goto(q, step) == pc' = [pc EXCEPT ![q] = step]
Leave(q)      == Goto(q, "done") /\ job' = [job EXCEPT ![q] = NoJob]

\* A form with a blank or with a file that is too large or of a wrong type, or for an
\* application the customer has not got: 422 or 413, and nothing has happened.
RefuseForm(q) ==
  /\ MayBegin(q)
  /\ Goto(q, "done")
  /\ UNCHANGED <<tables, clock, job>>

\* The process dies, or the client goes away.
Stop(q) ==
  /\ q \in InFlight
  /\ Leave(q)
  /\ UNCHANGED <<tables, clock>>

-----------------------------------------------------------------------------
(* Filing: the files, the ticket, the row.  The agents' requests join at   *)
(* the ticket, or at the row when there is no ticket to file.              *)

BeginFiling(q) ==
  /\ MayBegin(q) /\ q <= MaxRows
  /\ \E c \in Customers, t \in Types, n \in 0 .. MaxFiles, handler \in BOOLEAN :
       /\ t = "how_to_missing" => n = 0 /\ ~handler
       /\ job' = [job EXCEPT ![q] =
            [customer |-> c, type |-> t, files |-> n, stored |-> 0,
             handler |-> handler, ticket |-> FALSE]]
       /\ Goto(q, IF t = "how_to_missing" THEN "add"
                  ELSE IF t = "new_feature" /\ n > 0 THEN "upload" ELSE "ticket")
  /\ UNCHANGED <<tables, clock>>

\* Mutant: a file that cannot be stored is left out and the request goes on.
UploadOrSkip(q) ==
  /\ pc[q] = "upload"
  /\ LET n == job[q].stored + 1 IN
       /\ files' \in {files, files \cup {<<q, n>>}}
       /\ job' = [job EXCEPT ![q].stored = n]
       /\ Goto(q, IF n = job[q].files THEN "ticket" ELSE "upload")
  /\ UNCHANGED <<rows, index, tickets, attached, clock>>

StoreFile(q, n) == files' = files \cup {<<q, n>>}

\* A file that cannot be stored ends the request; those stored before it stay.
Upload(q) ==
  /\ pc[q] = "upload"
  /\ \/ LET n == job[q].stored + 1 IN
        /\ StoreFile(q, n)
        /\ job' = [job EXCEPT ![q].stored = n]
        /\ Goto(q, IF n = job[q].files THEN "ticket" ELSE "upload")
     \/ Leave(q) /\ UNCHANGED files
  /\ UNCHANGED <<rows, index, tickets, attached, clock>>

Filed(q)       == [tickets EXCEPT ![q] = @ + 1]
AfterTicket(j) == IF j.files > 0 THEN "attach" ELSE "add"

\* MantisBT stores the ticket and says so.
FileTicket(q) ==
  /\ pc[q] = "ticket"
  /\ tickets' = Filed(q)
  /\ job' = [job EXCEPT ![q].ticket = TRUE]
  /\ Goto(q, AfterTicket(job[q]))
  /\ UNCHANGED <<rows, index, files, attached, clock>>

\* Mutant: any failure is tried again unassigned.
TicketUnknownRetried(q) ==
  /\ pc[q] = "ticket"
  /\ tickets' \in {tickets, Filed(q)}
  /\ job' = [job EXCEPT ![q].handler = FALSE]
  /\ Goto(q, IF job[q].handler THEN "ticket" ELSE "add")
  /\ UNCHANGED <<rows, index, files, attached, clock>>

\* No ticket for the row: MantisBT is off, fails, or times out, with the ticket
\* stored or not.
TicketUnknown(q) ==
  /\ pc[q] = "ticket"
  /\ tickets' \in {tickets, Filed(q)}
  /\ Goto(q, "add")
  /\ UNCHANGED <<rows, index, files, attached, clock, job>>

\* A 4xx stores nothing; with a handler the issue is posted once more without.
RefuseTicket(q) ==
  /\ pc[q] = "ticket"
  /\ job' = [job EXCEPT ![q].handler = FALSE]
  /\ Goto(q, IF job[q].handler THEN "ticket" ELSE "add")
  /\ UNCHANGED <<tables, clock>>

\* The files go in a second call; a failure costs only them.
Attach(q) ==
  /\ pc[q] = "attach"
  /\ attached' \in {attached, attached \cup {q}}
  /\ Goto(q, "add")
  /\ UNCHANGED <<rows, index, files, tickets, clock, job>>

NewRow(j) ==
  [customer |-> j.customer, type |-> j.type, created |-> clock + 1,
   status |-> FirstStatus(j.type), statusAt |-> 0, resolvedAt |-> 0, note |-> Clear,
   contact |-> Clear, files |-> j.stored, ticket |-> j.ticket, history |-> <<>>]

AddRow(q) ==
  /\ pc[q] = "add"
  /\ rows' = [rows EXCEPT ![q] = NewRow(job[q])]
  /\ clock' = clock + 1
  /\ Leave(q)
  /\ UNCHANGED <<index, files, tickets, attached>>

\* The index is brought up to date some time after the table.
IndexRow(id) ==
  /\ id \in Stored \ index
  /\ index' = index \cup {id}
  /\ UNCHANGED <<rows, files, tickets, attached, clock, pc, job>>

-----------------------------------------------------------------------------
(* The admin's edits and the contact left after a handoff: one conditional *)
(* update each.                                                            *)

\* A patch that changes nothing is answered 422.
Changes(status, note) == status # Keep \/ note # KeepNote

\* The time is read before the update is sent.
BeginEdit(q) ==
  /\ MayBegin(q)
  /\ \E c \in Customers, t \in EditedTypes, id \in Stored \cup {q}, note \in {KeepNote, Clear, q},
        status \in EditStatuses \cup {Keep} :
       /\ status \in StatusesOf(t) \cup {Keep}
       /\ Changes(status, note)
       /\ job' = [job EXCEPT ![q] =
            [customer |-> c, type |-> t, target |-> id, at |-> clock + 1,
             status |-> status, note |-> note]]
  /\ clock' = clock + 1
  /\ Goto(q, "edit")
  /\ UNCHANGED tables

\* Mutants: the condition without the type, without the customer.
MatchesAnyType(r, j)  == r # NoRow /\ r.customer = j.customer
MatchesAnyOwner(r, j) == r # NoRow /\ r.type = j.type

\* The row of this id, if it is this customer's and of this type.
Matches(r, j) == r # NoRow /\ r.customer = j.customer /\ r.type = j.type

WithNote(r, j) == IF j.note = KeepNote THEN r ELSE [r EXCEPT !.note = j.note]

Change(j) ==
  [status |-> j.status, at |-> j.at, note |-> IF j.note = KeepNote THEN Clear ELSE j.note]

\* Mutants: a request that is open again keeps its resolved_at; the history is written
\* over what the edit read.
WithStatusStillResolved(r, j) ==
  IF j.status = Keep THEN r
  ELSE [r EXCEPT !.status = j.status, !.statusAt = j.at,
          !.resolvedAt = IF j.status \in ResolvedStatuses THEN j.at ELSE @,
          !.history = Append(@, Change(j))]
WithStatusOverwritten(r, j) ==
  IF j.status = Keep THEN r
  ELSE [r EXCEPT !.status = j.status, !.statusAt = j.at,
          !.resolvedAt = IF j.status \in ResolvedStatuses THEN j.at ELSE 0,
          !.history = <<Change(j)>>]

WithStatus(r, j) ==
  IF j.status = Keep THEN r
  ELSE [r EXCEPT !.status = j.status, !.statusAt = j.at,
          !.resolvedAt = IF j.status \in ResolvedStatuses THEN j.at ELSE 0,
          !.history = Append(@, Change(j))]

Updated(r, j) == WithNote(WithStatus(r, j), j)

\* No such row: 404.
ApplyEdit(q) ==
  /\ pc[q] = "edit"
  /\ LET j == job[q] IN
       IF Matches(rows[j.target], j)
       THEN /\ rows' = [rows EXCEPT ![j.target] = Updated(@, j)]
            /\ Goto(q, "saved") /\ UNCHANGED job
       ELSE Leave(q) /\ UNCHANGED rows
  /\ UNCHANGED <<index, files, tickets, attached, clock>>

\* The session names a row that was added, and no row is ever deleted.
SetContact(q) ==
  /\ MayBegin(q)
  /\ \E id \in Stored : rows' = [rows EXCEPT ![id].contact = q]
  /\ Goto(q, "done")
  /\ UNCHANGED <<index, files, tickets, attached, clock, job>>

-----------------------------------------------------------------------------
(* Lists and exports: pages of the index, newest first, and for an export  *)
(* then the full rows in batches.                                          *)

\* From the first moment of one day to the last of another.
InDays(t, j) == t >= j.from * DayLength /\ t < (j.to + 1) * DayLength

Wanted(id, j) == rows[id].customer = j.customer /\ InDays(rows[id].created, j)
Listed(id, j) == Wanted(id, j) /\ rows[id].type = j.type

Begin(q, j) ==
  /\ job' = [job EXCEPT ![q] = [j EXCEPT !.seen = {id \in index : Listed(id, j)}]]
  /\ Goto(q, "list")
  /\ UNCHANGED <<tables, clock>>

Asked(customer, type, full, from, to) ==
  [customer |-> customer, type |-> type, full |-> full, from |-> from, to |-> to,
   cursor |-> MaxRequests + 1, ids |-> <<>>, chunk |-> 1, found |-> {}, seen |-> {}]

\* The customer's own list, or an admin's of a customer: all days.
BeginList(q) ==
  /\ MayBegin(q)
  /\ \E c \in Customers, t \in EditedTypes :
       Begin(q, Asked(c, t, FALSE, 0, Day(MaxRequests)))

BeginExport(q) ==
  /\ MayBegin(q)
  /\ \E c \in Customers, t \in EditedTypes, from, to \in {Day(s) : s \in Times} :
       from <= to /\ Begin(q, Asked(c, t, TRUE, from, to))

\* The ids of S, newest first.
Newest(S) ==
  CHOOSE s \in [1 .. Cardinality(S) -> S] :
    \A i, k \in 1 .. Cardinality(S) : i < k => rows[s[i]].created > rows[s[k]].created

Below(j) == {id \in index : Wanted(id, j) /\ rows[id].created < j.cursor}
Page(j)  == {id \in Below(j) :
               Cardinality({o \in Below(j) : rows[o].created > rows[id].created}) < PageSize}

\* Mutant: a page that adds nothing is taken for the last.
ListPageNonEmpty(q) ==
  /\ pc[q] = "list"
  /\ LET j    == job[q]
         page == Page(j)
         hits == {id \in page : rows[id].type = j.type}
     IN /\ job' = [job EXCEPT
             ![q].ids = @ \o Newest(hits),
             ![q].cursor = IF hits = {} THEN @
                           ELSE CHOOSE t \in Times : /\ \E id \in page : rows[id].created = t
                                                     /\ \A id \in page : rows[id].created >= t]
        /\ Goto(q, IF hits # {} THEN "list" ELSE IF j.full THEN "fetch" ELSE "exported")
  /\ UNCHANGED <<tables, clock>>

\* The type is filtered after the page is read, so a page may add nothing and have
\* others after it.
ListPage(q) ==
  /\ pc[q] = "list"
  /\ LET j    == job[q]
         page == Page(j)
         more == Cardinality(page) = PageSize
     IN /\ job' = [job EXCEPT
             ![q].ids = @ \o Newest({id \in page : rows[id].type = j.type}),
             ![q].cursor = IF more
                           THEN CHOOSE t \in Times : /\ \E id \in page : rows[id].created = t
                                                     /\ \A id \in page : rows[id].created >= t
                           ELSE @]
        /\ Goto(q, IF more THEN "list" ELSE IF j.full THEN "fetch" ELSE "exported")
  /\ UNCHANGED <<tables, clock>>

\* One batch call answers for some of the keys; the rest are asked again.
FetchSome(q) ==
  /\ pc[q] = "fetch"
  /\ LET j    == job[q]
         last == j.chunk + BatchMax - 1
         left == {j.ids[i] : i \in j.chunk .. (IF last < Len(j.ids) THEN last ELSE Len(j.ids))}
                   \ j.found
     IN IF j.chunk > Len(j.ids)
        THEN Goto(q, "exported") /\ UNCHANGED job
        ELSE /\ \E got \in SUBSET left :
                  job' = [job EXCEPT ![q].found = @ \cup got,
                                     ![q].chunk = IF got = left THEN last + 1 ELSE @]
             /\ UNCHANGED pc
  /\ UNCHANGED <<tables, clock>>

Next ==
  \/ \E q \in Requests :
       \/ RefuseForm(q) \/ Stop(q)
       \/ BeginFiling(q) \/ Upload(q) \/ FileTicket(q) \/ TicketUnknown(q) \/ RefuseTicket(q)
       \/ Attach(q) \/ AddRow(q)
       \/ BeginEdit(q) \/ ApplyEdit(q) \/ SetContact(q)
       \/ BeginList(q) \/ BeginExport(q) \/ ListPage(q) \/ FetchSome(q)
  \/ \E id \in Requests : IndexRow(id)

Spec == Init /\ [][Next]_vars

-----------------------------------------------------------------------------
(* Properties.                                                             *)

LastChange(r) == r.history[Len(r.history)]

\* Whatever edits overlap, a row's status is the one its history ends with, dated as
\* there, and it has a resolved_at just when that status closes it: the status, the
\* history and the date are one update (stores/request_backlog.py, update_issue).
RowAgreesWithHistory ==
  \A id \in Stored :
    LET r == rows[id] IN
    /\ IF r.history = <<>> THEN r.status = FirstStatus(r.type) /\ r.statusAt = 0
       ELSE r.status = LastChange(r).status /\ r.statusAt = LastChange(r).at
    /\ r.resolvedAt = IF r.status \in ResolvedStatuses THEN r.statusAt ELSE 0

\* A status an admin was told is saved is in the row's history once, whoever saved
\* meanwhile.
SavedStatusesAreKept ==
  \A q \in Requests :
    pc[q] = "saved" /\ job[q].status # Keep =>
      LET h == rows[job[q].target].history IN
      /\ \E i \in 1 .. Len(h) : h[i] = Change(job[q])
      /\ \A i, k \in 1 .. Len(h) : h[i].at = job[q].at /\ h[k].at = job[q].at => i = k

\* A row appears only by the request that files it, and afterwards only its contact
\* changes except by an edit that names its customer and its type: no id makes a stub
\* row or reaches another customer's.
EditsStayInTenant ==
  [][\A id \in Requests :
       rows'[id] # rows[id] =>
         \/ rows[id] = NoRow /\ pc[id] = "add"
         \/ /\ rows[id] # NoRow
            /\ \/ rows'[id] = [rows[id] EXCEPT !.contact = rows'[id].contact]
               \/ \E q \in Requests :
                    /\ pc[q] = "edit" /\ job[q].target = id
                    /\ job[q].customer = rows[id].customer /\ job[q].type = rows[id].type]_vars

\* The retry without a handler never files a second ticket, since it follows only a
\* refusal (mantis.py, _post_with_handler_retry).
OneTicketPerRequest == \A id \in Requests : tickets[id] <= 1

\* What a row names exists: its files are stored, its ticket was filed, and the files
\* of a ticket are on a ticket.
RowsAreBacked ==
  /\ \A id \in Stored : /\ \A n \in 1 .. rows[id].files : <<id, n>> \in files
                        /\ rows[id].ticket => tickets[id] > 0
  /\ \A id \in attached : tickets[id] > 0

\* A list or an export has each row of the customer, of the type and created on its
\* days that the index showed when it began, once and newest first, and no row of another
\* customer, type or day, however the pages and batches fall.
ExportIsExact ==
  \A q \in Requests :
    pc[q] = "exported" =>
      LET j     == job[q]
          shown == {i \in DOMAIN j.ids : j.full => j.ids[i] \in j.found}
      IN /\ j.seen \subseteq {j.ids[i] : i \in shown}
         /\ \A i \in shown :
              /\ rows[j.ids[i]].customer = j.customer /\ rows[j.ids[i]].type = j.type
              /\ Day(rows[j.ids[i]].created) \in j.from .. j.to
         /\ \A i, k \in shown :
              i < k => rows[j.ids[i]].created > rows[j.ids[k]].created
=============================================================================
